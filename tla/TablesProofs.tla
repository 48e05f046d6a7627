---------------------------- MODULE TablesProofs ----------------------------
(***************************************************************************)
(* The parts of Tables, for any number of processes and rows:              *)
(*  - durable streams with processes that share a consumer, any batch size,*)
(*    any saving policy and crashes anywhere: nothing before the saved     *)
(*    offset was skipped but the events whose own save failed, and a       *)
(*    business transaction that saves the offset with its effects commits  *)
(*    once per event;                                                      *)
(*  - the iterators of streams and notifications return rows in order;     *)
(*  - a rate limit's window grants no more than its limit and what sweeps  *)
(*    of the window in use forgot;                                         *)
(*  - a result is readable exactly until its expiry.                       *)
(***************************************************************************)
EXTENDS Tables, FiniteSetTheorems, WellFoundedInduction, TLAPS

(* The events that were returned to a caller, or dropped by a failed save. *)
Passed == given \cup lost

(* Every event of the topic up to an offset is one of them. *)
GivenTo(offset) == \A i \in 1 .. Len(log) : log[i] /\ i <= offset => i \in Passed

(* What a process has read ahead is the next stretch of the topic. *)
NextStretch(s) ==
    /\ pending[s] \subseteq {i \in 1 .. Len(log) : log[i] /\ i > cursor[s]}
    /\ \A i \in 1 .. Len(log), j \in pending[s] :
         log[i] /\ i > cursor[s] /\ i <= j => i \in pending[s]

Steps == {"off", "attach", "next", "save", "handle", "wait", "ended", "read", "batch"}

StreamTypes ==
    /\ log \in Seq(BOOLEAN)
    /\ retained = 1 .. Len(log)
    /\ pc \in [Subs -> Steps]
    /\ cursor \in [Subs -> Nat]
    /\ pending \in [Subs -> SUBSET Nat]
    /\ last_saved \in [Subs -> Nat]
    /\ saved <= Len(log)

(* A process is past what it has been given, but for the event whose save  *)
(* comes first; and a batch is given as a whole.                           *)
Position(s) ==
    /\ cursor[s] <= Len(log)
    /\ NextStretch(s)
    /\ pc[s] # "save" => GivenTo(cursor[s])
    /\ pc[s] = "save" => GivenTo(cursor[s] - 1)
    /\ pc[s] = "batch" => pending[s] \subseteq Passed
    /\ pc[s] \in {"off", "attach", "read"} => pending[s] = {}

StreamInv ==
    /\ StreamTypes
    /\ GivenTo(saved)
    /\ \A s \in Subs : Position(s)

AppliedInv ==
    /\ saved \in Nat
    /\ applied \in [1 .. MaxRows -> {0, 1}]
    /\ \A i \in 1 .. MaxRows : applied[i] = 1 => i <= saved

TablesInv == AppliedInv /\ (part = "streams" => StreamInv)

----------------------------------------------------------------------------
(* The least and the greatest element of what is pending *)
LEMMA MinIsLeast ==
  ASSUME NEW T, T \subseteq Nat, T # {}
  PROVE  Min(T) \in T /\ \A y \in T : Min(T) <= y
  <1>1. PICK x \in T : \A y \in T : ~(<<y, x>> \in OpToRel(<, Nat))
    BY NatLessThanWellFounded, WFMin, Zenon
  <1>2. ASSUME NEW y \in T
        PROVE  x <= y
    <2>1. <<y, x>> \in OpToRel(<, Nat) <=> y < x
      BY DEF OpToRel
    <2>2. ~(y < x)
      BY <1>1, <2>1, Zenon
    <2> QED
      BY <2>2
  <1> QED
    BY <1>2, Zenon DEF Min

LEMMA MaxIsGreatest ==
  ASSUME NEW n \in Nat, NEW T, T \subseteq 0 .. n, T # {}
  PROVE  Max(T) \in T /\ \A y \in T : Max(T) >= y
  <1> DEFINE U == {k \in Nat : n - k \in T}
  <1>1. U # {} /\ U \subseteq Nat
    <2>1. PICK y \in T : TRUE
      BY Zenon
    <2>2. n - y \in Nat /\ n - (n - y) = y
      BY <2>1
    <2> QED
      BY <2>1, <2>2, Zenon
  <1>2. PICK k \in U : \A j \in U : k <= j
    BY <1>1, MinIsLeast, Zenon
  <1>3. n - k \in T /\ \A y \in T : n - k >= y
    <2>1. ASSUME NEW y \in T PROVE n - k >= y
      <3>1. n - y \in Nat /\ n - (n - y) = y
        OBVIOUS
      <3>2. n - y \in U
        BY <3>1
      <3>3. k <= n - y /\ k \in Nat
        BY <1>2, <3>2
      <3> QED
        BY <3>3, <3>1
    <2> QED
      BY <1>2, <2>1
  <1> QED
    BY <1>3, Zenon DEF Max

(* SELECT ... ORDER BY ... LIMIT reads the next of the rows that are left. *)
LEMMA SelectIsNext ==
  ASSUME Len(log) \in Nat, retained \subseteq 1 .. Len(log), NEW id \in Nat
  PROVE  /\ Select(id, LIMIT) \subseteq RowsAfter(id)
         /\ \A i \in RowsAfter(id), j \in Select(id, LIMIT) :
              i <= j => i \in Select(id, LIMIT)
  <1>1. RowsAfter(id) \subseteq 1 .. Len(log)
    BY Zenon DEF RowsAfter
  <1>2. ASSUME NEW i \in RowsAfter(id), NEW j \in Select(id, LIMIT), i <= j
        PROVE  i \in Select(id, LIMIT)
    <2> DEFINE Before(k) == {m \in RowsAfter(id) : m < k}
    <2>1. IsFiniteSet(Before(j))
      <3>1. IsFiniteSet(1 .. Len(log)) /\ Before(j) \subseteq 1 .. Len(log)
        BY <1>1, FS_Interval
      <3> QED
        BY <3>1, FS_Subset
    <2>2. Before(i) \subseteq Before(j)
      BY <1>1, <1>2 DEF Select
    <2>3. /\ Cardinality(Before(i)) \in Nat /\ Cardinality(Before(j)) \in Nat
          /\ Cardinality(Before(i)) <= Cardinality(Before(j))
      BY <2>1, <2>2, FS_Subset, FS_CardinalityType
    <2> QED
      BY <1>2, <2>3, UpdatesAssumption DEF Select
  <1> QED
    BY <1>2 DEF Select

(* Of a topic nothing is pruned: what is read is the next stretch of it. *)
LEMMA SelectIsStretch ==
  ASSUME StreamTypes, NEW id \in Nat
  PROVE  /\ Select(id, LIMIT) \subseteq {i \in 1 .. Len(log) : log[i] /\ i > id}
         /\ \A i \in 1 .. Len(log), j \in Select(id, LIMIT) :
              log[i] /\ i > id /\ i <= j => i \in Select(id, LIMIT)
  <1>1. Len(log) \in Nat /\ retained \subseteq 1 .. Len(log)
    BY DEF StreamTypes
  <1>2. RowsAfter(id) = {i \in 1 .. Len(log) : i > id /\ log[i]}
    BY DEF RowsAfter, StreamTypes
  <1> QED
    BY <1>1, <1>2, SelectIsNext

----------------------------------------------------------------------------
(* Publishing appends an event after everything saved, read or given. *)
LEMMA PublishKeeps ==
  ASSUME AppliedInv, StreamInv, NEW mine \in BOOLEAN, stream_publish(mine)
  PROVE  AppliedInv' /\ StreamInv'
  <1>0. StreamTypes /\ GivenTo(saved) /\ (\A s \in Subs : Position(s)) /\ saved \in Nat
    BY DEF StreamInv, AppliedInv
  <1>1. /\ UNCHANGED <<pc, cursor, pending, last_saved, saved, Passed, applied>>
        /\ log' = Append(log, mine)
        /\ retained' = retained \cup {Len(log) + 1}
    BY DEF stream_publish, Insert, iterators, svars, Passed
  <1>2. /\ Len(log) \in Nat /\ Len(log') = Len(log) + 1
        /\ log' \in Seq(BOOLEAN)
        /\ \A i \in 1 .. Len(log) : log'[i] = log[i]
    BY <1>0, <1>1 DEF StreamTypes
  <1>3. AppliedInv'
    BY <1>1 DEF AppliedInv
  <1>4. ASSUME NEW n \in Nat \cup {-1}, n <= Len(log), GivenTo(n)
        PROVE  GivenTo(n)'
    BY <1>1, <1>2, <1>4 DEF GivenTo
  <1>5. StreamTypes'
    BY <1>0, <1>1, <1>2 DEF StreamTypes
  <1>6. ASSUME NEW s \in Subs
        PROVE  Position(s)'
    <2>1. Position(s) /\ cursor[s] \in Nat /\ pending[s] \subseteq Nat
      BY <1>0 DEF StreamTypes
    <2>2. NextStretch(s)'
      <3>1. ASSUME NEW j \in pending[s]
            PROVE  j \in 1 .. Len(log') /\ log'[j] /\ j > cursor[s] /\ j <= Len(log)
        BY <1>2, <2>1 DEF Position, NextStretch
      <3>2. ASSUME NEW i \in 1 .. Len(log'), NEW j \in pending[s],
                   log'[i], i > cursor[s], i <= j
            PROVE  i \in pending[s]
        <4>1. i \in 1 .. Len(log)
          BY <1>2, <2>1, <3>1, <3>2
        <4> QED
          BY <1>2, <2>1, <3>2, <4>1 DEF Position, NextStretch
      <3> QED
        BY <1>1, <3>1, <3>2 DEF NextStretch
    <2>3. /\ pc[s] # "save" => GivenTo(cursor[s])'
          /\ pc[s] = "save" => GivenTo(cursor[s] - 1)'
      BY <1>1, <1>2, <1>4, <2>1 DEF Position
    <2> QED
      BY <1>1, <1>2, <2>1, <2>2, <2>3 DEF Position
  <1>7. GivenTo(saved)'
    BY <1>0, <1>1, <1>2, <1>4 DEF StreamTypes
  <1> QED
    BY <1>3, <1>5, <1>6, <1>7 DEF StreamInv

(* A step of one process leaves the position of the others; what it saves  *)
(* and where it ends up is all there is to show.                           *)
OnlyMoves(s) ==
    /\ UNCHANGED <<log, retained>>
    /\ Passed \subseteq Passed'
    /\ pc' \in [Subs -> Steps]
    /\ cursor' \in [Subs -> Nat]
    /\ pending' \in [Subs -> SUBSET Nat]
    /\ last_saved' \in [Subs -> Nat]
    /\ \A u \in Subs \ {s} :
         pc'[u] = pc[u] /\ cursor'[u] = cursor[u] /\ pending'[u] = pending[u]

LEMMA MoveKeeps ==
  ASSUME StreamInv, NEW s \in Subs, OnlyMoves(s), Position(s)',
         saved' \in Nat, saved' <= Len(log), GivenTo(saved)'
  PROVE  StreamInv'
  <1>1. StreamTypes'
    BY DEF StreamInv, StreamTypes, OnlyMoves
  <1>2. ASSUME NEW u \in Subs, u # s
        PROVE  Position(u)'
    <2>1. /\ Position(u)
          /\ pc'[u] = pc[u] /\ cursor'[u] = cursor[u] /\ pending'[u] = pending[u]
          /\ log' = log /\ Passed \subseteq Passed'
      BY <1>2 DEF StreamInv, OnlyMoves
    <2> QED
      BY <2>1 DEF Position, NextStretch, GivenTo
  <1> QED
    BY <1>1, <1>2 DEF StreamInv

(* Giving the event at an offset completes what lies up to it. *)
LEMMA GivenOneMore ==
  ASSUME NEW n \in Nat, Len(log) \in Nat, GivenTo(n - 1)
  PROVE  \A i \in 1 .. Len(log) : log[i] /\ i <= n => i \in Passed \cup {n}
BY DEF GivenTo

(* Nothing is saved, nothing is given, and the process stays at its offset. *)
LEMMA CallsKeep ==
  ASSUME AppliedInv, StreamInv, NEW s \in Subs,
         attach(s) \/ woken(s) \/ next_disconnected(s) \/ handled(s) \/ next_save_failed(s)
  PROVE  AppliedInv' /\ StreamInv'
  <1>1. /\ UNCHANGED <<log, retained, cursor, pending, last_saved, saved, applied>>
        /\ \/ Passed' = Passed /\ pc[s] \in {"attach", "wait", "handle"}
           \/ Passed' = Passed \cup {cursor[s]} /\ pc[s] = "save"
        /\ \E next \in {"next", "ended"} : pc' = [pc EXCEPT ![s] = next]
    BY DEF attach, Attach, woken, TakeTick, next_disconnected, Disconnected, handled,
           next_save_failed, table, svars, Goto, Passed
  <1>2. AppliedInv'
    BY <1>1 DEF AppliedInv
  <1>3. OnlyMoves(s) /\ pc'[s] \in {"next", "ended"}
    BY <1>1 DEF StreamInv, StreamTypes, OnlyMoves, Steps
  <1>4. cursor[s] \in Nat /\ Position(s) /\ Len(log) \in Nat
    BY DEF StreamInv, StreamTypes
  <1>5. GivenTo(cursor[s])'
    <2>1. CASE Passed' = Passed /\ pc[s] # "save"
      BY <1>1, <1>4, <2>1 DEF Position, GivenTo
    <2>2. CASE Passed' = Passed \cup {cursor[s]} /\ pc[s] = "save"
      <3>1. GivenTo(cursor[s] - 1)
        BY <1>4, <2>2 DEF Position
      <3>2. \A i \in 1 .. Len(log) : log[i] /\ i <= cursor[s] => i \in Passed'
        BY <1>4, <2>2, <3>1, GivenOneMore, Zenon
      <3> QED
        BY <1>1, <3>2 DEF GivenTo
    <2> QED
      BY <1>1, <2>1, <2>2, Zenon
  <1>6. Position(s)'
    BY <1>1, <1>3, <1>4, <1>5 DEF Position, NextStretch
  <1>7. GivenTo(saved)' /\ saved' \in Nat /\ saved' <= Len(log)
    BY <1>1 DEF StreamInv, StreamTypes, GivenTo, AppliedInv
  <1> QED
    BY <1>2, <1>3, <1>6, <1>7, MoveKeeps, Zenon

(* A process starts at the saved offset, or stops. *)
LEMMA StartsKeep ==
  ASSUME AppliedInv, StreamInv, NEW s \in Subs,
         \/ \E every \in SaveEverys : subscribe(s, every)
         \/ get_offset(s) \/ crashed(s)
  PROVE  AppliedInv' /\ StreamInv'
  <1>0. /\ StreamTypes /\ Position(s) /\ GivenTo(saved)
        /\ saved \in Nat /\ Len(log) \in Nat /\ saved <= Len(log)
        /\ last_saved \in [Subs -> Nat]
    BY DEF StreamInv, StreamTypes, AppliedInv
  <1>1. /\ UNCHANGED <<log, retained, saved, Passed, applied>>
        /\ last_saved' \in [Subs -> Nat]
        /\ \/ /\ pc' = [pc EXCEPT ![s] = "off"]
              /\ cursor' = [cursor EXCEPT ![s] = 0]
              /\ pending' = [pending EXCEPT ![s] = {}]
           \/ /\ pc[s] = "off"
              /\ \/ pc' = [pc EXCEPT ![s] = "attach"]
                 \/ pc' = [pc EXCEPT ![s] = "read"]
              /\ cursor' = [cursor EXCEPT ![s] = saved]
              /\ pending' = pending
    BY <1>0 DEF subscribe, get_offset, stream_get_offset, crashed, crash, Leave, Goto,
                table, svars, Passed
  <1>2. AppliedInv'
    BY <1>1 DEF AppliedInv
  <1>3. /\ OnlyMoves(s)
        /\ pc'[s] \in {"off", "attach", "read"}
        /\ pending'[s] = {}
        /\ cursor'[s] \in {0, saved}
    <2>1. CASE /\ pc' = [pc EXCEPT ![s] = "off"]
               /\ cursor' = [cursor EXCEPT ![s] = 0]
               /\ pending' = [pending EXCEPT ![s] = {}]
      BY <1>0, <1>1, <2>1 DEF OnlyMoves, StreamTypes, Steps
    <2>2. CASE /\ pc[s] = "off"
               /\ \/ pc' = [pc EXCEPT ![s] = "attach"]
                  \/ pc' = [pc EXCEPT ![s] = "read"]
               /\ cursor' = [cursor EXCEPT ![s] = saved]
               /\ pending' = pending
      <3>1. pending[s] = {}
        BY <1>0, <2>2 DEF Position
      <3> QED
        BY <1>0, <1>1, <2>2, <3>1, Zenon DEF OnlyMoves, StreamTypes, Steps
    <2> QED
      BY <1>1, <2>1, <2>2
  <1>4. GivenTo(cursor[s])' /\ GivenTo(saved)'
    BY <1>0, <1>1, <1>3 DEF GivenTo
  <1>5. Position(s)'
    BY <1>0, <1>1, <1>3, <1>4, SMTT(30) DEF Position, NextStretch
  <1> QED
    BY <1>0, <1>1, <1>2, <1>3, <1>4, <1>5, MoveKeeps

(* A refill, or a batch, reads the next stretch of the topic. *)
LEMMA ReadsKeep ==
  ASSUME AppliedInv, StreamInv, NEW s \in Subs, refill(s) \/ read_since(s)
  PROVE  AppliedInv' /\ StreamInv'
  <1> USE DEF StreamInv, StreamTypes
  <1>1. /\ UNCHANGED <<log, retained, cursor, last_saved, saved, applied>>
        /\ pending' = [pending EXCEPT ![s] = Select(cursor[s], LIMIT)]
        /\ \/ pc[s] = "next" /\ Passed' = Passed
              /\ \E next \in {"next", "wait"} : pc' = [pc EXCEPT ![s] = next]
           \/ /\ pc[s] = "read" /\ Passed' = Passed \cup pending'[s]
              /\ pc' = [pc EXCEPT ![s] = "batch"]
    BY DEF refill, read_since, Goto, table, svars, Passed
  <1>2. AppliedInv'
    BY <1>1 DEF AppliedInv
  <1>3. cursor[s] \in Nat /\ Position(s) /\ Len(log) \in Nat
    OBVIOUS
  <1>4. /\ Select(cursor[s], LIMIT) \subseteq {i \in 1 .. Len(log) : log[i] /\ i > cursor[s]}
        /\ \A i \in 1 .. Len(log), j \in Select(cursor[s], LIMIT) :
             log[i] /\ i > cursor[s] /\ i <= j => i \in Select(cursor[s], LIMIT)
    BY <1>3, SelectIsStretch
  <1>5. /\ OnlyMoves(s) /\ pending'[s] = Select(cursor[s], LIMIT)
        /\ pc'[s] \in {"next", "wait", "batch"}
        /\ pc'[s] = "batch" => pending'[s] \subseteq Passed'
    <2>1. Select(cursor[s], LIMIT) \in SUBSET Nat
      BY <1>3, <1>4
    <2>2. pending' \in [Subs -> SUBSET Nat] /\ pending'[s] = Select(cursor[s], LIMIT)
      BY <1>1, <2>1
    <2> QED
      BY <1>1, <2>2, Zenon DEF OnlyMoves, Steps
  <1>6. GivenTo(cursor[s])' /\ GivenTo(saved)'
    BY <1>1, <1>3 DEF Position, GivenTo
  <1>7. NextStretch(s)'
    BY <1>1, <1>4, <1>5 DEF NextStretch
  <1>8. Position(s)'
    BY <1>1, <1>3, <1>5, <1>6, <1>7 DEF Position
  <1> QED
    BY <1>1, <1>2, <1>5, <1>6, <1>8, MoveKeeps DEF AppliedInv

(* next() moves to the first event that is pending, which is the first of  *)
(* the topic after its offset.                                             *)
LEMMA PopIsNext ==
  ASSUME StreamInv, NEW s \in Subs, PopFront(s)
  PROVE  /\ cursor' = [cursor EXCEPT ![s] = Min(pending[s])]
         /\ pending' = [pending EXCEPT ![s] = @ \ {Min(@)}]
         /\ Min(pending[s]) \in 1 .. Len(log)
         /\ log[Min(pending[s])] /\ Min(pending[s]) > cursor[s]
         /\ \A i \in 1 .. Len(log) : log[i] /\ i > cursor[s] => Min(pending[s]) <= i
         /\ \A j \in pending[s] : Min(pending[s]) <= j
  <1> USE DEF StreamInv, StreamTypes
  <1>1. pending[s] \subseteq Nat /\ pending[s] # {} /\ NextStretch(s) /\ cursor[s] \in Nat
    BY DEF PopFront, Position
  <1>2. Min(pending[s]) \in pending[s] /\ \A j \in pending[s] : Min(pending[s]) <= j
    BY <1>1, MinIsLeast, Zenon
  <1>3. ASSUME NEW i \in 1 .. Len(log), log[i], i > cursor[s]
        PROVE  Min(pending[s]) <= i
    <2>1. CASE i <= Min(pending[s])
      <3>1. i \in pending[s]
        BY <1>1, <1>2, <1>3, <2>1 DEF NextStretch
      <3> QED
        BY <1>2, <3>1
    <2>2. CASE ~(i <= Min(pending[s]))
      BY <1>1, <1>2, <2>2, SMTT(30)
    <2> QED
      BY <2>1, <2>2
  <1> QED
    BY <1>1, <1>2, <1>3 DEF PopFront, NextStretch

LEMMA NextKeeps ==
  ASSUME AppliedInv, StreamInv, NEW s \in Subs, next_event(s)
  PROVE  AppliedInv' /\ StreamInv'
  <1> DEFINE id == Min(pending[s])
  <1>0. /\ StreamTypes /\ Position(s) /\ GivenTo(saved) /\ Len(log) \in Nat
        /\ cursor[s] \in Nat /\ pending[s] \subseteq Nat
    BY DEF StreamInv, StreamTypes
  <1>1. /\ UNCHANGED <<log, retained, last_saved, saved, applied>>
        /\ pc[s] = "next" /\ PopFront(s)
        /\ \/ pc' = [pc EXCEPT ![s] = "save"] /\ Passed' = Passed
           \/ pc' = [pc EXCEPT ![s] = "handle"] /\ Passed' = Passed \cup {cursor'[s]}
    BY Zenon DEF next_event, Goto, table, Passed
  <1>2. /\ cursor' = [cursor EXCEPT ![s] = id]
        /\ pending' = [pending EXCEPT ![s] = pending[s] \ {id}]
        /\ id \in 1 .. Len(log) /\ log[id] /\ id > cursor[s]
        /\ \A i \in 1 .. Len(log) : log[i] /\ i > cursor[s] => id <= i
        /\ \A j \in pending[s] : id <= j
    BY <1>1, PopIsNext
  <1>3. id \in Nat
    BY <1>0, <1>2
  <1> HIDE DEF id
  <1>4. AppliedInv'
    BY <1>1 DEF AppliedInv
  <1>5. OnlyMoves(s) /\ cursor'[s] = id /\ pending'[s] = pending[s] \ {id}
    <2>1. cursor' \in [Subs -> Nat] /\ pending' \in [Subs -> SUBSET Nat]
      BY <1>0, <1>2, <1>3 DEF StreamTypes
    <2> QED
      BY <1>0, <1>1, <1>2, <2>1, Zenon DEF OnlyMoves, StreamTypes, Steps
  <1>6. GivenTo(saved)'
    BY <1>0, <1>1 DEF GivenTo
  <1>7. /\ pc'[s] = "save" => GivenTo(cursor[s] - 1)'
        /\ pc'[s] = "handle" => GivenTo(cursor[s])'
        /\ pc'[s] \in {"save", "handle"}
    <2>1. ASSUME NEW i \in 1 .. Len(log), log[i], i <= id
          PROVE  i \in Passed \/ i = id
      <3>1. CASE i > cursor[s]
        BY <1>0, <1>2, <1>3, <2>1, <3>1, SMTT(30)
      <3>2. CASE i <= cursor[s]
        BY <1>0, <1>1, <2>1, <3>2, Zenon DEF Position, GivenTo
      <3> QED
        BY <1>0, <3>1, <3>2
    <2>2. CASE pc' = [pc EXCEPT ![s] = "save"] /\ Passed' = Passed
      <3>1. \A i \in 1 .. Len(log) : log[i] /\ i <= id - 1 => i \in Passed
        BY <1>0, <1>3, <2>1
      <3>2. pc'[s] = "save"
        BY <1>0, <2>2 DEF StreamTypes
      <3> QED
        BY <1>1, <1>5, <2>2, <3>1, <3>2, Zenon DEF GivenTo
    <2>3. CASE pc' = [pc EXCEPT ![s] = "handle"] /\ Passed' = Passed \cup {cursor'[s]}
      <3>1. pc'[s] = "handle"
        BY <1>0, <2>3, Zenon DEF StreamTypes
      <3> QED
        BY <1>1, <1>5, <2>1, <2>3, <3>1 DEF GivenTo
    <2> QED
      BY <1>1, <2>2, <2>3
  <1>8. NextStretch(s)'
    <2>1. pending[s] \ {id} \subseteq {i \in 1 .. Len(log) : log[i] /\ i > id}
      BY <1>0, <1>2, <1>3, SMTT(30) DEF Position, NextStretch
    <2>2. ASSUME NEW i \in 1 .. Len(log), NEW j \in pending[s] \ {id}, log[i], i > id, i <= j
          PROVE  i \in pending[s] \ {id}
      BY <1>0, <1>2, <1>3, <2>2, SMTT(30) DEF Position, NextStretch
    <2>3. log' = log /\ cursor'[s] = id /\ pending'[s] = pending[s] \ {id}
      BY <1>1, <1>5, Zenon
    <2> QED
      BY <2>1, <2>2, <2>3 DEF NextStretch
  <1>9. Position(s)'
    BY <1>0, <1>1, <1>2, <1>5, <1>7, <1>8, SMTT(30) DEF Position
  <1> QED
    BY <1>1, <1>4, <1>5, <1>6, <1>9, MoveKeeps DEF AppliedInv, StreamInv, StreamTypes

(* The saves of a subscription: in next(), by the caller, with a business  *)
(* transaction, when it is dropped.                                        *)
LEMMA SavesKeep ==
  ASSUME AppliedInv, StreamInv, NEW s \in Subs,
         next_save(s) \/ explicit_save(s) \/ save_offset_tx(s) \/ drop(s)
  PROVE  AppliedInv' /\ StreamInv'
  <1>0. /\ StreamTypes /\ Position(s) /\ GivenTo(saved) /\ Len(log) \in Nat
        /\ cursor[s] \in Nat /\ saved \in Nat /\ saved <= Len(log)
    BY DEF StreamInv, StreamTypes, AppliedInv
  <1>1. /\ UNCHANGED <<log, retained>>
        /\ stream_save_offset(cursor[s]) \/ saved' = saved
        /\ \/ pc[s] = "save" /\ Passed' = Passed \cup {cursor[s]}
           \/ pc[s] # "save" /\ Passed' = Passed
        /\ last_saved' = last_saved \/ last_saved' = [last_saved EXCEPT ![s] = cursor[s]]
    BY Zenon DEF next_save, explicit_save, save_offset_tx, drop, save_offset, stream_save_offset,
           table, Passed
  <1>2. \/ /\ pc' = [pc EXCEPT ![s] = "off"]
           /\ cursor' = [cursor EXCEPT ![s] = 0]
           /\ pending' = [pending EXCEPT ![s] = {}]
        \/ /\ \/ pc' = [pc EXCEPT ![s] = "next"]
              \/ pc' = [pc EXCEPT ![s] = "handle"]
           /\ UNCHANGED <<cursor, pending>>
           /\ pc[s] \in {"save", "handle"}
    BY Zenon DEF next_save, explicit_save, save_offset_tx, drop, Goto, Leave
  <1>3. \/ applied' = applied
        \/ /\ stream_save_offset(cursor[s]) /\ Advances(cursor[s])
           /\ applied' = [applied EXCEPT ![cursor[s]] = @ + 1]
    BY Zenon DEF next_save, explicit_save, save_offset_tx, drop
  <1>4. /\ OnlyMoves(s)
        /\ \/ pc'[s] = "off" /\ cursor'[s] = 0 /\ pending'[s] = {}
           \/ pc'[s] \in {"next", "handle"} /\ cursor'[s] = cursor[s] /\ pending'[s] = pending[s]
    <2>1. last_saved' \in [Subs -> Nat]
      BY <1>0, <1>1, Zenon DEF StreamTypes
    <2>2. CASE /\ pc' = [pc EXCEPT ![s] = "off"]
               /\ cursor' = [cursor EXCEPT ![s] = 0]
               /\ pending' = [pending EXCEPT ![s] = {}]
      BY <1>0, <1>1, <2>1, <2>2 DEF OnlyMoves, StreamTypes, Steps
    <2>3. CASE /\ \/ pc' = [pc EXCEPT ![s] = "next"]
                  \/ pc' = [pc EXCEPT ![s] = "handle"]
               /\ UNCHANGED <<cursor, pending>>
      BY <1>0, <1>1, <2>1, <2>3, Zenon DEF OnlyMoves, StreamTypes, Steps
    <2> QED
      BY <1>2, <2>2, <2>3
  <1>5. \A i \in 1 .. Len(log) : log[i] /\ i <= cursor[s] => i \in Passed'
    <2>1. CASE Passed' = Passed /\ pc[s] # "save"
      BY <1>0, <2>1, Zenon DEF Position, GivenTo
    <2>2. CASE Passed' = Passed \cup {cursor[s]} /\ pc[s] = "save"
      <3>1. GivenTo(cursor[s] - 1)
        BY <1>0, <2>2 DEF Position
      <3> QED
        BY <1>0, <2>2, <3>1, GivenOneMore, Zenon
    <2> QED
      BY <1>1, <2>1, <2>2, Zenon
  <1>6. /\ saved' \in Nat /\ saved' <= Len(log) /\ saved' >= saved
        /\ saved' = saved \/ saved' = cursor[s]
    <2>1. cursor[s] <= Len(log)
      BY <1>0, Zenon DEF Position
    <2>2. saved' = saved \/ (saved' = cursor[s] /\ cursor[s] > saved)
      BY <1>0, <1>1, Zenon DEF stream_save_offset, Advances
    <2> QED
      BY <1>0, <2>1, <2>2, SMTT(30)
  <1>7. GivenTo(saved)'
    BY <1>0, <1>1, <1>5, <1>6, Zenon DEF GivenTo
  <1>8. Position(s)'
    <2>1. GivenTo(cursor[s])'
      <3>1. cursor'[s] = 0 \/ cursor'[s] = cursor[s]
        BY <1>4
      <3>2. \A i \in 1 .. Len(log) : log[i] /\ i <= cursor'[s] => i \in Passed'
        BY <1>5, <3>1, SMTT(30)
      <3> QED
        BY <1>1, <3>2 DEF GivenTo
    <2>2. NextStretch(s)'
      BY <1>0, <1>1, <1>4 DEF Position, NextStretch
    <2> QED
      <3>1. cursor'[s] <= Len(log')
        BY <1>0, <1>1, <1>4, SMTT(30) DEF Position
      <3>2. /\ pc'[s] \in {"off", "next", "handle"}
            /\ pc'[s] = "off" => pending'[s] = {}
        BY <1>4, Zenon
      <3> QED
        BY <2>1, <2>2, <3>1, <3>2, Zenon DEF Position
  <1>9. AppliedInv'
    <2>1. CASE applied' = applied
      BY <1>6, <2>1 DEF AppliedInv
    <2>2. CASE /\ stream_save_offset(cursor[s]) /\ Advances(cursor[s])
               /\ applied' = [applied EXCEPT ![cursor[s]] = @ + 1]
      <3>1. saved' = cursor[s] /\ cursor[s] > saved /\ saved \in Nat
        BY <2>2 DEF stream_save_offset, Advances, AppliedInv
      <3>2. cursor[s] \in 1 .. MaxRows => applied[cursor[s]] = 0
        BY <1>0, <3>1 DEF AppliedInv
      <3>3. ASSUME NEW i \in 1 .. MaxRows
            PROVE  applied'[i] \in {0, 1} /\ (applied'[i] = 1 => i <= saved')
        BY <1>0, <2>2, <3>1, <3>2 DEF AppliedInv
      <3>4. applied' \in [1 .. MaxRows -> {0, 1}]
        BY <2>2, <3>3, Zenon DEF AppliedInv
      <3> QED
        BY <1>6, <3>3, <3>4 DEF AppliedInv
    <2> QED
      BY <1>3, <2>1, <2>2
  <1> QED
    BY <1>4, <1>6, <1>7, <1>8, <1>9, MoveKeeps

(* The end of a batch, all of which was given *)
LEMMA BatchKeeps ==
  ASSUME AppliedInv, StreamInv, NEW s \in Subs, save_batch(s)
  PROVE  AppliedInv' /\ StreamInv'
  <1>0. /\ StreamTypes /\ Position(s) /\ GivenTo(saved) /\ Len(log) \in Nat
        /\ cursor[s] \in Nat /\ saved \in Nat /\ saved <= Len(log)
    BY DEF StreamInv, StreamTypes, AppliedInv
  <1>1. /\ UNCHANGED <<log, retained, last_saved, Passed, applied>>
        /\ pc[s] = "batch"
        /\ \/ saved' = saved
           \/ /\ pending[s] # {} /\ Max(pending[s]) > saved
              /\ saved' = Max(pending[s])
        /\ pc' = [pc EXCEPT ![s] = "off"]
        /\ cursor' = [cursor EXCEPT ![s] = 0]
        /\ pending' = [pending EXCEPT ![s] = {}]
    BY DEF save_batch, stream_save_offset, Advances, Leave, Goto, table, Passed
  <1>2. OnlyMoves(s) /\ pc'[s] = "off" /\ cursor'[s] = 0 /\ pending'[s] = {}
    BY <1>0, <1>1 DEF OnlyMoves, StreamTypes, Steps
  <1>3. Position(s)'
    BY <1>0, <1>1, <1>2, SMTT(30) DEF Position, NextStretch, GivenTo
  <1>4. pending[s] # {} => /\ Max(pending[s]) \in 1 .. Len(log)
                           /\ GivenTo(Max(pending[s]))
    <2> SUFFICES ASSUME pending[s] # {}
                 PROVE  Max(pending[s]) \in 1 .. Len(log) /\ GivenTo(Max(pending[s]))
      OBVIOUS
    <2>1. pending[s] \subseteq 1 .. Len(log)
      BY <1>0 DEF Position, NextStretch
    <2>2. Max(pending[s]) \in pending[s]
      BY <1>0, <2>1, MaxIsGreatest
    <2>3. ASSUME NEW i \in 1 .. Len(log), log[i], i <= Max(pending[s])
          PROVE  i \in Passed
      BY <1>0, <1>1, <2>2, <2>3 DEF Position, NextStretch, GivenTo
    <2> QED
      BY <2>1, <2>2, <2>3 DEF GivenTo
  <1>5. saved' \in Nat /\ saved' <= Len(log) /\ saved' >= saved /\ GivenTo(saved)'
    BY <1>0, <1>1, <1>4 DEF GivenTo
  <1>6. AppliedInv'
    BY <1>0, <1>1, <1>5, SMTT(30) DEF AppliedInv
  <1> QED
    BY <1>2, <1>3, <1>5, <1>6, MoveKeeps

(* A tick, or the death of the watcher, moves nobody. *)
LEMMA TickKeeps ==
  ASSUME AppliedInv, StreamInv, UNCHANGED <<table, pc, cursor, pending, svars>>
  PROVE  AppliedInv' /\ StreamInv'
  BY DEF AppliedInv, StreamInv, StreamTypes, Position, NextStretch, GivenTo, table, svars, Passed

LEMMA StreamStepKeeps ==
  ASSUME AppliedInv, StreamInv, StreamStep
  PROVE  AppliedInv' /\ StreamInv'
  <1>1. CASE \E mine \in BOOLEAN : stream_publish(mine)
    BY <1>1, PublishKeeps
  <1>2. CASE (announce \/ watcher_dies) /\ UNCHANGED svars
    BY <1>2, TickKeeps DEF announce, watcher_dies, iterators
  <1>3. ASSUME NEW s \in Subs, next_event(s)
        PROVE  AppliedInv' /\ StreamInv'
    BY <1>3, NextKeeps
  <1>4. ASSUME NEW s \in Subs, refill(s) \/ read_since(s)
        PROVE  AppliedInv' /\ StreamInv'
    BY <1>4, ReadsKeep
  <1>5. ASSUME NEW s \in Subs,
               next_save(s) \/ explicit_save(s) \/ save_offset_tx(s) \/ drop(s)
        PROVE  AppliedInv' /\ StreamInv'
    BY <1>5, SavesKeep
  <1>6. ASSUME NEW s \in Subs, save_batch(s)
        PROVE  AppliedInv' /\ StreamInv'
    BY <1>6, BatchKeeps
  <1>7. ASSUME NEW s \in Subs,
               \/ \E every \in SaveEverys : subscribe(s, every)
               \/ get_offset(s) \/ crashed(s)
        PROVE  AppliedInv' /\ StreamInv'
    BY <1>7, StartsKeep
  <1>8. ASSUME NEW s \in Subs,
               \/ attach(s) \/ woken(s) \/ next_disconnected(s)
               \/ handled(s) \/ next_save_failed(s)
        PROVE  AppliedInv' /\ StreamInv'
    BY <1>8, CallsKeep
  <1> QED
    BY <1>1, <1>2, <1>3, <1>4, <1>5, <1>6, <1>7, <1>8 DEF StreamStep, Iterate

----------------------------------------------------------------------------
LEMMA TablesInit == Init => TablesInv
  <1> SUFFICES ASSUME Init PROVE TablesInv
    OBVIOUS
  <1>1. /\ log = <<>> /\ retained = {} /\ Passed = {} /\ saved = 0
        /\ pc = [s \in Subs |-> "off"] /\ cursor = [s \in Subs |-> 0]
        /\ pending = [s \in Subs |-> {}] /\ last_saved = [s \in Subs |-> 0]
        /\ applied = [i \in 1 .. MaxRows |-> 0]
    BY DEF Init, UpdatesInit, StreamsInit, Passed
  <1>2. AppliedInv
    BY <1>1, UpdatesAssumption DEF AppliedInv
  <1>3. StreamTypes
    BY <1>1 DEF StreamTypes, Steps
  <1>4. GivenTo(saved) /\ \A s \in Subs : Position(s)
    BY <1>1 DEF GivenTo, Position, NextStretch
  <1> QED
    BY <1>2, <1>3, <1>4 DEF TablesInv, StreamInv

LEMMA TablesStep == TablesInv /\ [Next]_vars => TablesInv'
  <1> SUFFICES ASSUME TablesInv, [Next]_vars PROVE TablesInv'
    OBVIOUS
  <1>1. CASE Stream
    BY <1>1, StreamStepKeeps DEF TablesInv, Stream
  <1>2. CASE Channel \/ RateLimit \/ Result
    <2>1. part # "streams" /\ UNCHANGED <<part, saved, applied>>
      BY <1>2 DEF Channel, RateLimit, Result, svars
    <2> QED
      BY <2>1 DEF TablesInv, AppliedInv
  <1>3. CASE UNCHANGED vars
    BY <1>3, TickKeeps DEF vars, uvars, iterators, TablesInv, AppliedInv, svars
  <1> QED
    BY <1>1, <1>2, <1>3 DEF Next

LEMMA TablesInvariant == Spec => []TablesInv
  BY TablesInit, TablesStep, PTL DEF Spec

(* For any number of processes of a consumer, any batch size and saving    *)
(* policy, and crashes anywhere, every event up to the saved offset was    *)
(* returned to a caller (StreamSubscription, Stream::read_from_consumer) or*)
(* is one that next() dropped because its own save failed, and a business  *)
(* transaction that calls save_offset_tx, and rolls back when it returns 0,*)
(* commits at most once per event.                                         *)
THEOREM EventsAreOnce == Spec => []NoneSkippedNoneTwice
  <1>1. TablesInv => SavedWasGiven
    BY DEF TablesInv, StreamInv, StreamTypes, GivenTo, Passed, SavedWasGiven
  <1>2. TablesInv => AppliedOnce
    BY DEF TablesInv, AppliedInv, AppliedOnce
  <1> QED
    BY <1>1, <1>2, TablesInvariant, PTL DEF NoneSkippedNoneTwice

(* Late saves of any process never take the consumer's offset back         *)
(* (stream_save_offset).                                                   *)
THEOREM OffsetOnlyGrows == Spec => SavedNeverGoesBack
  <1>1. ASSUME StreamStep
        PROVE  saved' = saved \/ saved' > saved
    BY <1>1, Zenon DEF StreamStep, Iterate, stream_publish, announce, watcher_dies, subscribe, attach,
         next_event, next_save, refill, woken, next_disconnected, next_save_failed, handled,
         explicit_save, save_offset_tx, drop, get_offset, read_since, save_batch, crashed,
         save_offset, stream_save_offset, Advances, svars
  <1>2. TablesInv /\ TablesInv' /\ [Next]_vars => [saved' >= saved]_vars
    <2> SUFFICES ASSUME TablesInv, TablesInv', Next PROVE saved' >= saved
      OBVIOUS
    <2>1. saved' = saved \/ saved' > saved
      BY <1>1 DEF Next, Stream, Channel, RateLimit, Result, svars
    <2> QED
      BY <2>1 DEF TablesInv, AppliedInv
  <1> QED
    BY <1>2, TablesInvariant, PTL DEF Spec, SavedNeverGoesBack

(* next() returns the events of the topic one after the other, whatever    *)
(* its buffer held (StreamSubscription::next).                             *)
LEMMA EventsInOrder == Spec => NextInOrder
  <1> DEFINE InOrder ==
        part = "streams" =>
          \A s \in Subs : pc[s] = "next" /\ pc'[s] \in {"save", "handle"} =>
            /\ cursor'[s] \in RowsAfter(cursor[s])
            /\ \A i \in RowsAfter(cursor[s]) : cursor'[s] <= i
  <1>1. TablesInv /\ [Next]_vars => [InOrder]_vars
    <2> SUFFICES ASSUME TablesInv, Next, part = "streams", NEW s \in Subs,
                        pc[s] = "next", pc'[s] \in {"save", "handle"}
                 PROVE  /\ cursor'[s] \in RowsAfter(cursor[s])
                        /\ \A i \in RowsAfter(cursor[s]) : cursor'[s] <= i
      OBVIOUS
    <2>1. StreamInv /\ StreamTypes /\ StreamStep
      BY DEF TablesInv, StreamInv, Next, Stream, Channel, RateLimit, Result
    <2>2. next_event(s)
      BY <2>1, ZenonT(30) DEF StreamStep, Iterate, stream_publish, announce, watcher_dies, subscribe, attach,
         Attach, next_event, next_save, refill, woken, next_disconnected, next_save_failed,
         handled, explicit_save, save_offset_tx, drop, get_offset, read_since, save_batch,
         crashed, crash, Leave, Goto, iterators, StreamTypes, TakeTick, Disconnected
    <2>3. PopFront(s)
      BY <2>2 DEF next_event
    <2>4. RowsAfter(cursor[s]) = {i \in 1 .. Len(log) : i > cursor[s] /\ log[i]}
      BY <2>1 DEF RowsAfter, StreamTypes
    <2>5. cursor'[s] = Min(pending[s])
      BY <2>1, <2>3, PopIsNext DEF StreamTypes
    <2> QED
      BY <2>1, <2>3, <2>4, <2>5, PopIsNext, Zenon
  <1> QED
    BY <1>1, TablesInvariant, PTL DEF Spec, NextInOrder

----------------------------------------------------------------------------
(* Listeners *)

ListenTypes ==
    /\ log \in Seq(BOOLEAN)
    /\ retained \subseteq 1 .. Len(log)
    /\ pc \in [Subs -> Steps]
    /\ cursor \in [Subs -> Nat]
    /\ pending \in [Subs -> SUBSET Nat]
    /\ start \in [Subs -> Nat]

(* Prunes may have left the cursor before the start, but then nothing is   *)
(* in between; what has been read ahead is the next of what is retained.   *)
Listening(s) ==
    /\ start[s] <= Len(log)
    /\ \A i \in retained : i > cursor[s] => i > start[s]
    /\ \A j \in pending[s] : j > start[s] /\ j > cursor[s] /\ j <= Len(log)
    /\ \A i \in retained, j \in pending[s] :
         log[i] /\ i > cursor[s] /\ i <= j => i \in pending[s]

ListenInv ==
    /\ ListenTypes
    /\ \A s \in Subs : IF pc[s] = "off" THEN pending[s] = {} ELSE Listening(s)

(* A row is inserted after all others, or some are deleted. *)
LEMMA TableChangeKeeps ==
  ASSUME ListenInv, UNCHANGED <<iterators, start>>,
         \/ \E mine \in BOOLEAN : Insert(mine)
         \/ log' = log /\ retained' \subseteq retained
  PROVE  ListenInv'
  <1>0. ListenTypes /\ UNCHANGED <<pc, cursor, pending, start>> /\ Len(log) \in Nat
    BY DEF ListenInv, ListenTypes, iterators
  <1>1. CASE log' = log /\ retained' \subseteq retained
    BY <1>0, <1>1, Zenon DEF ListenInv, ListenTypes, Listening
  <1>2. ASSUME NEW mine \in BOOLEAN, Insert(mine)
        PROVE  ListenInv'
    <2>1. /\ log' \in Seq(BOOLEAN) /\ Len(log') = Len(log) + 1
          /\ \A i \in 1 .. Len(log) : log'[i] = log[i]
          /\ retained' = retained \cup {Len(log) + 1}
      BY <1>0, <1>2 DEF Insert, ListenTypes
    <2>2. ListenTypes'
      <3>1. retained' \subseteq 1 .. Len(log')
        <4>1. retained \subseteq 1 .. Len(log)
          BY <1>0 DEF ListenTypes
        <4>2. 1 .. Len(log) \subseteq 1 .. Len(log) + 1 /\ Len(log) + 1 \in 1 .. Len(log) + 1
          BY <1>0, SMTT(30)
        <4> QED
          BY <2>1, <4>1, <4>2, Zenon
      <3> QED
        BY <1>0, <2>1, <3>1 DEF ListenTypes
    <2>3. ASSUME NEW s \in Subs, pc[s] # "off"
          PROVE  Listening(s)'
      <3>1. Listening(s) /\ start[s] \in Nat /\ cursor[s] \in Nat /\ pending[s] \subseteq Nat
        BY <1>0, <2>3 DEF ListenInv, ListenTypes
      <3>2. \A i \in retained' : i > cursor[s] => i > start[s]
        BY <1>0, <2>1, <3>1 DEF Listening
      <3>3. \A j \in pending[s] : j > start[s] /\ j > cursor[s] /\ j <= Len(log)
        BY <3>1 DEF Listening
      <3>4. ASSUME NEW i \in retained', NEW j \in pending[s], log'[i], i > cursor[s], i <= j
            PROVE  i \in pending[s]
        <4>1. i # Len(log) + 1
          BY <1>0, <3>1, <3>3, <3>4, SMTT(30)
        <4>2. i \in retained /\ log[i]
          BY <1>0, <2>1, <3>4, <4>1, Zenon DEF ListenTypes
        <4> QED
          BY <3>1, <3>4, <4>2, Zenon DEF Listening
      <3> QED
        BY <1>0, <2>1, <3>1, <3>2, <3>3, <3>4, SMTT(30) DEF Listening
    <2> QED
      BY <1>0, <2>2, <2>3 DEF ListenInv
  <1> QED
    BY <1>1, <1>2

(* A step of one listener leaves the others where they are. *)
LEMMA ListenerMoves ==
  ASSUME ListenInv, NEW s \in Subs, UNCHANGED <<log, retained>>,
         pc' \in [Subs -> Steps], cursor' \in [Subs -> Nat],
         pending' \in [Subs -> SUBSET Nat], start' \in [Subs -> Nat],
         \A u \in Subs \ {s} : /\ pc'[u] = pc[u] /\ cursor'[u] = cursor[u]
                               /\ pending'[u] = pending[u] /\ start'[u] = start[u],
         IF pc'[s] = "off" THEN pending'[s] = {} ELSE Listening(s)'
  PROVE  ListenInv'
  <1>1. ListenTypes'
    BY DEF ListenInv, ListenTypes
  <1>2. ASSUME NEW u \in Subs \ {s}
        PROVE  IF pc'[u] = "off" THEN pending'[u] = {} ELSE Listening(u)'
    BY Zenon DEF ListenInv, Listening
  <1> QED
    BY <1>1, <1>2 DEF ListenInv

(* What pop_notification hands out is the next row that is left. *)
LEMMA PopNotification ==
  ASSUME ListenInv, NEW s \in Subs, pc[s] = "next", PopFront(s)
  PROVE  /\ cursor'[s] \in pending[s] /\ cursor'[s] > start[s] /\ cursor'[s] > cursor[s]
         /\ pending'[s] = pending[s] \ {cursor'[s]}
         /\ \A j \in pending[s] : cursor'[s] <= j
         /\ \A i \in retained : log[i] /\ i > cursor[s] => i >= cursor'[s]
  <1>1. /\ Listening(s) /\ cursor[s] \in Nat /\ pending[s] \subseteq Nat /\ pending[s] # {}
        /\ cursor \in [Subs -> Nat] /\ pending \in [Subs -> SUBSET Nat]
        /\ retained \subseteq Nat /\ start[s] \in Nat
    BY DEF ListenInv, ListenTypes, PopFront
  <1>2. /\ Min(pending[s]) \in pending[s] /\ \A j \in pending[s] : Min(pending[s]) <= j
    BY <1>1, MinIsLeast, Zenon
  <1> DEFINE m == Min(pending[s])
  <1>3. cursor'[s] = m /\ pending'[s] = pending[s] \ {m}
    BY <1>1 DEF PopFront
  <1> HIDE DEF m
  <1>4. m \in pending[s] /\ \A j \in pending[s] : m <= j
    BY <1>2 DEF m
  <1>5. ASSUME NEW i \in retained, log[i], i > cursor[s]
        PROVE  i >= m
    <2>1. CASE i <= m
      <3>1. i \in pending[s]
        BY <1>1, <1>4, <1>5, <2>1 DEF Listening
      <3> QED
        BY <1>1, <1>4, <3>1, Zenon
    <2> QED
      BY <1>1, <1>4, <2>1
  <1> QED
    BY <1>1, <1>3, <1>4, <1>5 DEF Listening

LEMMA PopKeeps ==
  ASSUME ListenInv, NEW s \in Subs, pop_notification(s)
  PROVE  ListenInv'
  <1>1. /\ ListenTypes /\ Listening(s) /\ pc[s] = "next" /\ PopFront(s)
        /\ UNCHANGED <<log, retained, pc, start>>
    BY Zenon DEF ListenInv, pop_notification, table
  <1>2. /\ cursor'[s] \in pending[s] /\ cursor'[s] > cursor[s]
        /\ pending'[s] = pending[s] \ {cursor'[s]}
        /\ \A j \in pending[s] : cursor'[s] <= j
    BY <1>1, PopNotification, Zenon
  <1>3. cursor[s] \in Nat /\ cursor'[s] \in Nat /\ pending[s] \subseteq Nat /\ retained \subseteq Nat
    BY <1>1, <1>2, SMTT(30) DEF ListenTypes
  <1>4. Listening(s)'
    <2>1. start'[s] <= Len(log')
      BY <1>1, Zenon DEF Listening
    <2>2. ASSUME NEW i \in retained, i > cursor'[s]
          PROVE  i > cursor[s] /\ i > start[s]
      <3>1. i > cursor[s]
        BY <1>2, <1>3, <2>2
      <3> QED
        BY <1>1, <3>1, Zenon DEF Listening
    <2>3. ASSUME NEW j \in pending'[s]
          PROVE  j > start[s] /\ j > cursor'[s] /\ j <= Len(log)
      <3>1. j \in pending[s] /\ j # cursor'[s] /\ j > start[s] /\ j <= Len(log)
        BY <1>1, <1>2, Zenon DEF Listening
      <3>2. j \in Nat /\ cursor'[s] <= j
        BY <1>2, <1>3, <3>1, Zenon
      <3> QED
        BY <1>3, <3>1, <3>2
    <2>4. ASSUME NEW i \in retained, NEW j \in pending'[s], log[i], i > cursor'[s], i <= j
          PROVE  i \in pending'[s]
      <3>1. j \in pending[s] /\ i > cursor[s]
        BY <1>2, <2>2, <2>4, Zenon
      <3>2. i \in pending[s]
        BY <1>1, <2>4, <3>1, Zenon DEF Listening
      <3>3. i # cursor'[s]
        BY <1>3, <2>4
      <3> QED
        BY <1>2, <3>2, <3>3, Zenon
    <2> QED
      BY <1>1, <2>1, <2>2, <2>3, <2>4, Zenon DEF Listening
  <1>5. /\ cursor' \in [Subs -> Nat] /\ pending' \in [Subs -> SUBSET Nat]
        /\ \A u \in Subs \ {s} : cursor'[u] = cursor[u] /\ pending'[u] = pending[u]
    BY <1>1, <1>2, <1>3 DEF PopFront, ListenTypes
  <1> QED
    BY <1>1, <1>4, <1>5, ListenerMoves, Zenon DEF ListenTypes

LEMMA RefillKeeps ==
  ASSUME ListenInv, NEW s \in Subs, recv(s) \/ try_next(s)
  PROVE  ListenInv'
  <1>1. /\ ListenTypes /\ Listening(s) /\ Len(log) \in Nat /\ cursor[s] \in Nat
        /\ UNCHANGED <<log, retained, cursor, start>>
        /\ pending' = [pending EXCEPT ![s] = Select(cursor[s], LIMIT)]
        /\ pc' = pc \/ \E next \in {"next", "wait"} : pc' = [pc EXCEPT ![s] = next]
    BY SMTT(30) DEF ListenInv, ListenTypes, recv, try_next, Read, Goto, table
  <1>2. /\ Select(cursor[s], LIMIT) \subseteq RowsAfter(cursor[s])
        /\ \A i \in RowsAfter(cursor[s]), j \in Select(cursor[s], LIMIT) :
             i <= j => i \in Select(cursor[s], LIMIT)
    BY <1>1, SelectIsNext DEF ListenTypes
  <1>3. /\ pending'[s] = Select(cursor[s], LIMIT) /\ pending'[s] \subseteq retained
        /\ retained \subseteq 1 .. Len(log)
    BY <1>1, <1>2 DEF ListenTypes, RowsAfter
  <1>4. Listening(s)'
    <2>1. \A i \in retained : i > cursor[s] => i > start[s]
      BY <1>1, Zenon DEF Listening
    <2>2. \A j \in pending'[s] : j > start[s] /\ j > cursor[s] /\ j <= Len(log)
      <3>1. \A j \in pending'[s] : j \in retained /\ j > cursor[s] /\ j \in 1 .. Len(log)
        BY <1>2, <1>3, Zenon DEF RowsAfter
      <3> QED
        BY <1>1, <2>1, <3>1, SMTT(30)
    <2>3. \A i \in retained, j \in pending'[s] :
            log[i] /\ i > cursor[s] /\ i <= j => i \in pending'[s]
      BY <1>2, <1>3 DEF RowsAfter
    <2> QED
      BY <1>1, <2>1, <2>2, <2>3, Zenon DEF Listening
  <1>5. /\ pc' \in [Subs -> Steps] /\ pc'[s] # "off"
        /\ \A u \in Subs \ {s} : pc'[u] = pc[u]
    <2>1. pc[s] # "off"
      BY DEF recv, try_next, Read
    <2> QED
      BY <1>1, <2>1, Zenon DEF ListenTypes, Steps
  <1>6. /\ pending' \in [Subs -> SUBSET Nat]
        /\ \A u \in Subs \ {s} : pending'[u] = pending[u]
    <2>1. Select(cursor[s], LIMIT) \in SUBSET Nat
      <3>1. retained \subseteq Nat
        BY <1>1 DEF ListenTypes
      <3> QED
        BY <1>3, <3>1, Zenon DEF RowsAfter
    <2> QED
      BY <1>1, <2>1 DEF ListenTypes
  <1> QED
    BY <1>1, <1>4, <1>5, <1>6, ListenerMoves, Zenon DEF ListenTypes

LEMMA ListenKeeps ==
  ASSUME ListenInv, NEW s \in Subs, listen(s)
  PROVE  ListenInv'
  <1>1. /\ ListenTypes /\ pending[s] = {} /\ Len(log) \in Nat
        /\ retained \subseteq 1 .. Len(log)
        /\ UNCHANGED <<log, retained, pending>>
        /\ pc' = [pc EXCEPT ![s] = "attach"]
        /\ cursor' = [cursor EXCEPT ![s] = Max(retained \cup {0})]
        /\ start' = [start EXCEPT ![s] = Len(log)]
    BY SMTT(30) DEF ListenInv, ListenTypes, listen, Goto, table
  <1>2. /\ Max(retained \cup {0}) \in retained \cup {0}
        /\ \A i \in retained \cup {0} : Max(retained \cup {0}) >= i
    <2>1. retained \cup {0} \subseteq 0 .. Len(log) /\ retained \cup {0} # {}
      BY <1>1, SMTT(30)
    <2> QED
      BY <1>1, <2>1, MaxIsGreatest, Zenon
  <1> DEFINE m == Max(retained \cup {0})
  <1> HIDE DEF m
  <1>3. m \in Nat /\ \A i \in retained : ~(i > m)
    <2>1. m \in retained \cup {0} /\ \A i \in retained : m >= i
      BY <1>2, Zenon DEF m
    <2>2. m \in Nat
      BY <1>1, <2>1, SMTT(30)
    <2> QED
      BY <1>1, <2>1, <2>2, SMTT(30)
  <1>4. cursor'[s] = m /\ start'[s] = Len(log) /\ pending'[s] = {} /\ pc'[s] = "attach"
    BY <1>1, Zenon DEF ListenTypes, m
  <1>5. Listening(s)'
    <2>1. start'[s] <= Len(log') /\ retained' = retained
      BY <1>1, <1>4, SMTT(30)
    <2> QED
      BY <1>3, <1>4, <2>1, Zenon DEF Listening
  <1>6. /\ pc' \in [Subs -> Steps] /\ cursor' \in [Subs -> Nat] /\ start' \in [Subs -> Nat]
        /\ \A u \in Subs \ {s} : pc'[u] = pc[u] /\ cursor'[u] = cursor[u] /\ start'[u] = start[u]
    BY <1>1, <1>3 DEF ListenTypes, Steps, m
  <1> QED
    BY <1>1, <1>4, <1>5, <1>6, ListenerMoves, Zenon DEF ListenTypes

(* A listener attaches, is woken, gives up or ends. *)
LEMMA WaitKeeps ==
  ASSUME ListenInv, NEW s \in Subs,
         listen_attach(s) \/ recv_woken(s) \/ recv_timeout(s) \/ recv_closed(s) \/ listener_ends(s)
  PROVE  ListenInv'
  <1>1. CASE listener_ends(s)
    <2>1. /\ ListenTypes /\ UNCHANGED <<log, retained, start>>
          /\ pc' = [pc EXCEPT ![s] = "off"]
          /\ cursor' = [cursor EXCEPT ![s] = 0]
          /\ pending' = [pending EXCEPT ![s] = {}]
      BY <1>1 DEF ListenInv, listener_ends, crash, Leave, Goto, table
    <2> QED
      BY <2>1, ListenerMoves, Zenon DEF ListenTypes, Steps
  <1>2. CASE listen_attach(s) \/ recv_woken(s) \/ recv_timeout(s) \/ recv_closed(s)
    <2>1. /\ ListenTypes /\ Listening(s) /\ UNCHANGED <<log, retained, cursor, pending, start>>
          /\ \E next \in {"next", "ended"} : pc' = [pc EXCEPT ![s] = next]
      BY <1>2, Zenon DEF ListenInv, listen_attach, Attach, recv_woken, TakeTick, recv_timeout,
           recv_closed, Disconnected, Goto, table
    <2>2. Listening(s)'
      BY <2>1, Zenon DEF Listening
    <2> QED
      BY <2>1, <2>2, ListenerMoves, Zenon DEF ListenTypes, Steps
  <1> QED
    BY <1>1, <1>2, Zenon

LEMMA NotificationStepKeeps ==
  ASSUME ListenInv, NotificationStep
  PROVE  ListenInv'
  <1>1. CASE \/ \E mine \in BOOLEAN : notify(mine)
             \/ \E cut \in 1 .. MaxRows : prune_notifications(cut)
             \/ \E max_keep \in Keeps : prune_notifications_keep_latest(max_keep)
    BY <1>1, TableChangeKeeps, Zenon DEF notify, prune_notifications, prune_notifications_keep_latest
  <1>2. CASE (announce \/ watcher_dies) /\ UNCHANGED start
    BY <1>2 DEF announce, watcher_dies, table, iterators, ListenInv, ListenTypes, Listening
  <1>3. ASSUME NEW s \in Subs,
               \/ listen(s) \/ listen_attach(s) \/ Listen(s)
               \/ try_next(s) \/ recv_timeout(s) \/ listener_ends(s)
        PROVE  ListenInv'
    BY <1>3, ListenKeeps, WaitKeeps, PopKeeps, RefillKeeps DEF Listen
  <1> QED
    BY <1>1, <1>2, <1>3 DEF NotificationStep

LEMMA ListenInvariant == Spec => [](part = "notifications" => ListenInv)
  <1>1. Init => ListenInv
    BY DEF Init, UpdatesInit, ListenInv, ListenTypes, Steps
  <1>2. (part = "notifications" => ListenInv) /\ [Next]_vars
          => (part = "notifications" => ListenInv)'
    <2> SUFFICES ASSUME part = "notifications" => ListenInv, [Next]_vars,
                        part' = "notifications"
                 PROVE  ListenInv'
      OBVIOUS
    <2>1. CASE Channel
      BY <2>1, NotificationStepKeeps DEF Channel
    <2>2. CASE Result \/ RateLimit \/ Stream
      BY <2>2, Zenon DEF Result, RateLimit, Stream
    <2>3. CASE UNCHANGED vars
      BY <2>3 DEF vars, uvars, table, iterators, ListenInv, ListenTypes, Listening
    <2> QED
      BY <2>1, <2>2, <2>3 DEF Next
  <1> QED
    BY <1>1, <1>2, PTL DEF Spec

LEMMA NotificationsInOrder == Spec => RecvInOrder
  <1> DEFINE InOrder ==
        part = "notifications" =>
          \A s \in Subs : pc'[s] = "next" /\ cursor'[s] # cursor[s] =>
            /\ cursor'[s] > start[s]
            /\ \A i \in RowsAfter(start[s]) : i > cursor[s] => i >= cursor'[s]
  <1>1. (part = "notifications" => ListenInv) /\ [Next]_vars => [InOrder]_vars
    <2> SUFFICES ASSUME part = "notifications", ListenInv, Next, NEW s \in Subs,
                        pc'[s] = "next", cursor'[s] # cursor[s]
                 PROVE  /\ cursor'[s] > start[s]
                        /\ \A i \in RowsAfter(start[s]) : i > cursor[s] => i >= cursor'[s]
      BY Zenon
    <2>1. NotificationStep /\ ListenTypes
      BY DEF Next, Stream, Channel, RateLimit, Result, ListenInv
    <2>2. PICK u \in Subs : pop_notification(u) \/ listen(u) \/ listener_ends(u)
      BY <2>1, Zenon DEF NotificationStep, notify, prune_notifications, announce, watcher_dies,
           prune_notifications_keep_latest, Listen, listen_attach, recv, try_next, recv_woken,
           recv_timeout, recv_closed, iterators
    <2>3. u = s /\ pop_notification(s)
      BY <2>1, <2>2 DEF pop_notification, PopFront, listen, listener_ends, crash, Leave, Goto,
           ListenTypes
    <2> QED
      BY <2>3, PopNotification, Zenon DEF pop_notification, RowsAfter
  <1> QED
    BY <1>1, ListenInvariant, PTL DEF Spec, RecvInOrder

(* Both iterators of honker-rs, for any number of them and whatever is     *)
(* published, notified or pruned meanwhile: StreamSubscription::next and   *)
(* Subscription::recv return the rows one after the other, each once.      *)
THEOREM IteratorsInOrder == Spec => RowsInOrder
  BY EventsInOrder, NotificationsInOrder, PTL DEF RowsInOrder

----------------------------------------------------------------------------
(* Rate limits *)

(* A call waits at most LOCK_WAIT seconds for the write lock, so it counts *)
(* in a window that is InUse.  Until then the window's row and what early  *)
(* sweeps took from it account for all its grants.                         *)
RateInv ==
    /\ clock \in 0 .. MaxClock
    /\ counts \in [Starts -> Nat] /\ grants \in [Starts -> Nat] /\ swept \in [Starts -> Nat]
    /\ call \in [Callers -> Starts \cup {-1}] /\ asked \in [Callers -> Nat]
    /\ \A c \in Callers : call[c] # -1 =>
         asked[c] < call[c] + PER /\ clock <= asked[c] + LOCK_WAIT
    /\ \A w \in Starts : /\ grants[w] <= MAX_CALLS + swept[w]
                         /\ InUse(w) => grants[w] = counts[w] + swept[w]

(* The window of a time starts at most PER - 1 seconds before it. *)
LEMMA WindowOf ==
  ASSUME NEW t \in 0 .. MaxClock
  PROVE  (t \div PER) * PER \in Starts /\ t < (t \div PER) * PER + PER
  <1>1. PER \in Nat \ {0} /\ MaxClock \in Nat
    BY RateAssumption
  <1> DEFINE k == t \div PER
  <1>2. k \in Nat
    BY <1>1
  <1>3. k * PER <= t
    BY <1>1
  <1>4. t < k * PER + PER
    BY <1>1
  <1> HIDE DEF k
  <1>5. k * PER \in Nat /\ (k * PER) % PER = 0
    BY <1>1, <1>2, SMTT(30)
  <1> QED
    BY <1>1, <1>3, <1>4, <1>5 DEF Starts, k

LEMMA RateAt ==
  ASSUME RateInv, NEW w \in Starts
  PROVE  /\ counts[w] \in Nat /\ swept[w] \in Nat /\ grants[w] \in Nat
         /\ grants[w] <= MAX_CALLS + swept[w]
         /\ InUse(w) => grants[w] = counts[w] + swept[w]
  <1>1. counts[w] \in Nat /\ swept[w] \in Nat /\ grants[w] \in Nat
    BY DEF RateInv
  <1>2. grants[w] <= MAX_CALLS + swept[w] /\ (InUse(w) => grants[w] = counts[w] + swept[w])
    BY Zenon DEF RateInv
  <1> QED
    BY <1>1, <1>2

LEMMA RateStepKeeps ==
  ASSUME RateInv, RateStep
  PROVE  RateInv'
  <1>0. /\ PER \in Nat \ {0} /\ MAX_CALLS \in Nat \ {0} /\ LOCK_WAIT \in Nat
        /\ MaxClock \in Nat /\ OlderThans \subseteq Int /\ Starts \subseteq Nat
    BY RateAssumption, SMTT(30) DEF Starts
  <1>1. CASE seconds_pass
    BY <1>0, <1>1, SMTT(30) DEF seconds_pass, RateInv, InUse
  <1>2. ASSUME NEW c \in Callers, read_window(c)
        PROVE  RateInv'
    <2>1. /\ (clock \div PER) * PER \in Starts
          /\ clock < (clock \div PER) * PER + PER
      BY WindowOf DEF RateInv
    <2> DEFINE w == (clock \div PER) * PER
    <2>2. /\ call' = [call EXCEPT ![c] = w] /\ asked' = [asked EXCEPT ![c] = clock]
          /\ UNCHANGED <<clock, counts, grants, swept>>
      BY <1>2, Zenon DEF read_window
    <2> HIDE DEF w
    <2> QED
      BY <1>0, <2>1, <2>2, SMTT(30) DEF RateInv, InUse, w
  <1>3. ASSUME NEW c \in Callers, rate_limit_try(c)
        PROVE  RateInv'
    <2> DEFINE w == call[c]
    <2>1. /\ w \in Starts /\ grants[w] = counts[w] + swept[w]
          /\ grants[w] \in Nat /\ swept[w] \in Nat /\ counts[w] \in Nat
          /\ grants[w] <= MAX_CALLS + swept[w]
      <3>1. w # -1 /\ w \in Starts
        BY <1>3 DEF rate_limit_try, RateInv
      <3>2. asked[c] \in Nat /\ asked[c] < w + PER /\ clock <= asked[c] + LOCK_WAIT
        BY <3>1 DEF RateInv
      <3>3. InUse(w)
        <4>1. clock \in Nat
          BY <1>0 DEF RateInv
        <4> HIDE DEF w
        <4>2. w \in Nat
          BY <1>0, <3>1, Zenon
        <4> QED
          BY <1>0, <3>2, <4>1, <4>2, SMTT(30) DEF InUse
      <3> QED
        BY <3>1, <3>3, RateAt, Zenon
    <2>2. \/ UNCHANGED <<counts, grants>>
          \/ /\ counts[w] = 0 \/ counts[w] < MAX_CALLS
             /\ counts' = [counts EXCEPT ![w] = counts[w] + 1]
             /\ grants' = [grants EXCEPT ![w] = grants[w] + 1]
      BY <1>3, Zenon DEF rate_limit_try, Fits
    <2>3. /\ counts' \in [Starts -> Nat] /\ grants' \in [Starts -> Nat]
          /\ \A v \in Starts : /\ grants'[v] <= MAX_CALLS + swept[v]
                               /\ InUse(v) => grants'[v] = counts'[v] + swept[v]
      BY <1>0, <2>1, <2>2, SMTT(30) DEF RateInv
    <2>4. /\ call' = [call EXCEPT ![c] = -1] /\ asked' = [asked EXCEPT ![c] = 0]
          /\ clock' = clock /\ swept' = swept
      BY <1>3, Zenon DEF rate_limit_try
    <2> QED
      BY <1>0, <2>3, <2>4, Zenon DEF RateInv, InUse
  <1>4. ASSUME NEW older_than \in OlderThans, rate_limit_sweep(older_than)
        PROVE  RateInv'
    <2>1. /\ counts' = [w \in Starts |-> IF w < clock - older_than THEN 0 ELSE counts[w]]
          /\ swept' = [w \in Starts |-> IF w < clock - older_than /\ InUse(w)
                                         THEN swept[w] + counts[w] ELSE swept[w]]
          /\ UNCHANGED <<clock, call, asked, grants>>
      BY <1>4, Zenon DEF rate_limit_sweep
    <2>2. ASSUME NEW w \in Starts
          PROVE  /\ counts'[w] \in Nat /\ swept'[w] \in Nat
                 /\ grants[w] <= MAX_CALLS + swept'[w]
                 /\ InUse(w) => grants[w] = counts'[w] + swept'[w]
      <3>1. /\ counts[w] \in Nat /\ swept[w] \in Nat /\ grants[w] \in Nat
            /\ grants[w] <= MAX_CALLS + swept[w]
            /\ InUse(w) => grants[w] = counts[w] + swept[w]
        BY RateAt, Zenon
      <3>2. CASE w < clock - older_than /\ InUse(w)
        <4>1. counts'[w] = 0 /\ swept'[w] = swept[w] + counts[w]
          BY <2>1, <3>2, Zenon
        <4> QED
          BY <1>0, <3>1, <3>2, <4>1, SMTT(30)
      <3>3. CASE ~(w < clock - older_than /\ InUse(w))
        <4>1. /\ counts'[w] \in {0, counts[w]} /\ swept'[w] = swept[w]
              /\ InUse(w) => counts'[w] = counts[w]
          BY <2>1, <3>3, Zenon
        <4> QED
          BY <1>0, <3>1, <4>1, SMTT(30)
      <3> QED
        BY <3>2, <3>3, Zenon
    <2>3. counts' \in [Starts -> Nat] /\ swept' \in [Starts -> Nat]
      BY <2>1, <2>2
    <2> QED
      BY <2>1, <2>2, <2>3, Zenon DEF RateInv, InUse
  <1> QED
    BY <1>1, <1>2, <1>3, <1>4, Zenon DEF RateStep

(* For any number of callers, any limit and window, any wait for the write *)
(* lock between the two halves of rate_limit_try, and sweeps of any age at *)
(* any time: what a window grants beyond its limit is at most what         *)
(* rate_limit_sweep deleted while a call could still count in the window.  *)
THEOREM WindowsAreCapped == Spec => []ExcessWasSwept
  <1>1. Init => RateInv
    BY RateAssumption DEF Init, RateInit, RateInv, Starts
  <1>2. RateInv /\ [Next]_vars => RateInv'
    <2> SUFFICES ASSUME RateInv, [Next]_vars PROVE RateInv'
      OBVIOUS
    <2>1. CASE UNCHANGED rvars
      BY <2>1, Zenon DEF rvars, RateInv, InUse
    <2> QED
      BY <2>1, RateStepKeeps DEF Next, Stream, Channel, RateLimit, Result, vars
  <1>3. RateInv => ExcessWasSwept
    BY Zenon DEF RateInv, ExcessWasSwept
  <1> QED
    BY <1>1, <1>2, <1>3, PTL DEF Spec

----------------------------------------------------------------------------
(* Task results *)

(* The row that a result_save left *)
RowOf(p) == [value |-> p.value, expires_at |-> IF p.ttl > 0 THEN p.at + p.ttl ELSE NULL]

(* A result that was saved is there, or it expired and was swept. *)
KeptOrExpired(j) ==
    \/ results[j] = RowOf(promised[j])
    \/ /\ results[j] = NULL
       /\ promised[j].ttl > 0 /\ promised[j].at + promised[j].ttl <= now

ResultInv ==
    /\ now \in Int
    /\ results \in [Jobs -> ResultRow \cup {NULL}]
    /\ promised \in [Jobs -> Promise \cup {NULL}]
    /\ \A j \in Jobs : promised[j] # NULL => KeptOrExpired(j)

LEMMA PromisedRow ==
  ASSUME NEW p \in Promise
  PROVE  /\ p.ttl \in Int /\ p.at \in Int
         /\ RowOf(p) \in ResultRow /\ RowOf(p) # NULL
         /\ RowOf(p).value = p.value
         /\ RowOf(p).expires_at = IF p.ttl > 0 THEN p.at + p.ttl ELSE NULL
  <1>1. p.ttl \in Int /\ p.at \in Int /\ p.value \in Values
    BY ResultsAssumption, Zenon DEF Promise
  <1>2. (IF p.ttl > 0 THEN p.at + p.ttl ELSE NULL) \in Int \cup {NULL}
    BY <1>1
  <1>3. RowOf(p) \in ResultRow
    BY <1>1, <1>2 DEF RowOf, ResultRow
  <1> QED
    BY <1>1, <1>3, ResultsAssumption DEF RowOf

LEMMA ResultStepKeeps ==
  ASSUME ResultInv, ResultStep
  PROVE  ResultInv'
  <1>0. /\ \A j \in Jobs : promised[j] # NULL =>
              promised[j] \in Promise /\ KeptOrExpired(j)
        /\ now \in Int /\ NULL \notin Int /\ NULL \notin Promise
    BY ResultsAssumption DEF ResultInv
  <1>1. CASE time_passes
    <2>1. ASSUME NEW j \in Jobs, promised[j] # NULL
          PROVE  KeptOrExpired(j)'
      BY <1>0, <1>1, <2>1, PromisedRow, SMTT(30) DEF time_passes, KeptOrExpired
    <2> QED
      BY <1>0, <1>1, <2>1, SMTT(30) DEF time_passes, ResultInv
  <1>2. ASSUME NEW j \in Jobs, NEW value \in Values, NEW ttl \in Ttls,
               result_save(j, value, ttl)
        PROVE  ResultInv'
    <2> DEFINE p == [value |-> value, at |-> now, ttl |-> ttl]
    <2>1. p \in Promise
      BY <1>0 DEF Promise
    <2>2. /\ results' = [results EXCEPT ![j] = RowOf(p)]
          /\ promised' = [promised EXCEPT ![j] = p]
          /\ now' = now
      BY <1>2, Zenon DEF result_save, Saved, RowOf
    <2> HIDE DEF p
    <2>3. /\ results' \in [Jobs -> ResultRow \cup {NULL}]
          /\ promised' \in [Jobs -> Promise \cup {NULL}]
      BY <2>1, <2>2, PromisedRow DEF ResultInv
    <2>4. ASSUME NEW k \in Jobs, promised'[k] # NULL
          PROVE  KeptOrExpired(k)'
      <3>1. CASE k = j
        BY <2>2, <3>1, Zenon DEF KeptOrExpired, ResultInv
      <3>2. CASE k # j
        BY <1>0, <2>2, <2>4, <3>2, Zenon DEF KeptOrExpired, ResultInv
      <3> QED
        BY <3>1, <3>2, Zenon
    <2> QED
      BY <1>0, <2>2, <2>3, <2>4, Zenon DEF ResultInv
  <1>3. CASE result_sweep
    <2>1. /\ promised' = promised /\ now' = now
          /\ results' = [j \in Jobs |-> IF results[j] # NULL /\ Expired(results[j])
                                       THEN NULL ELSE results[j]]
      BY <1>3, Zenon DEF result_sweep
    <2>2. ASSUME NEW j \in Jobs, promised[j] # NULL
          PROVE  KeptOrExpired(j)'
      <3>1. CASE results[j] = RowOf(promised[j]) /\ Expired(results[j])
        <4>1. promised[j].ttl > 0 /\ promised[j].at + promised[j].ttl <= now
          BY <1>0, <2>2, <3>1, PromisedRow, Zenon DEF Expired
        <4> QED
          BY <1>0, <2>1, <2>2, <3>1, <4>1, PromisedRow, Zenon DEF KeptOrExpired
      <3>2. CASE ~(results[j] # NULL /\ Expired(results[j]))
        BY <1>0, <2>1, <2>2, <3>2 DEF KeptOrExpired
      <3> QED
        BY <1>0, <2>2, <3>1, <3>2 DEF KeptOrExpired
    <2> QED
      BY <1>0, <2>1, <2>2 DEF ResultInv
  <1> QED
    BY <1>1, <1>2, <1>3 DEF ResultStep

(* For any jobs, values and times to live, and sweeps at any time, a result*)
(* is returned from its last result_save until it expires, and no longer.  *)
THEOREM ResultsExpireOnTime == Spec => []ReadableUntilExpiry
  <1>1. Init => ResultInv
    BY DEF Init, ResultsInit, ResultInv
  <1>2. ResultInv /\ [Next]_vars => ResultInv'
    <2> SUFFICES ASSUME ResultInv, [Next]_vars PROVE ResultInv'
      OBVIOUS
    <2>1. CASE UNCHANGED resvars
      BY <2>1 DEF resvars, ResultInv, KeptOrExpired
    <2> QED
      BY <2>1, ResultStepKeeps DEF Next, Stream, Channel, RateLimit, Result, vars
  <1>3. ResultInv => ReadableUntilExpiry
    <2> SUFFICES ASSUME ResultInv, NEW j \in Jobs, promised[j] # NULL
                 PROVE  result_get(j) =
                          IF promised[j].ttl <= 0 \/ now < promised[j].at + promised[j].ttl
                          THEN promised[j].value ELSE NULL
      BY DEF ReadableUntilExpiry
    <2>1. KeptOrExpired(j) /\ now \in Int /\ promised[j] \in Promise
      BY DEF ResultInv
    <2> DEFINE p == promised[j]
               row == results[j]
               over == p.ttl > 0 /\ p.at + p.ttl <= now
    <2>2. /\ p.ttl \in Int /\ p.at \in Int /\ RowOf(p) # NULL /\ RowOf(p).value = p.value
          /\ RowOf(p).expires_at = IF p.ttl > 0 THEN p.at + p.ttl ELSE NULL
      BY <2>1, PromisedRow, Zenon
    <2>3. row = RowOf(p) \/ (row = NULL /\ over)
      BY <2>1, Zenon DEF KeptOrExpired
    <2>4. result_get(j) = IF row = NULL \/ Expired(row) THEN NULL ELSE row.value
      BY Zenon DEF result_get
    <2> HIDE DEF p, row
    <2>5. over <=> ~(p.ttl <= 0 \/ now < p.at + p.ttl)
      BY <2>1, <2>2
    <2>6. Expired(RowOf(p)) <=> over
      <3>1. p.at + p.ttl # NULL
        BY <2>2, ResultsAssumption
      <3> QED
        BY <2>2, <3>1, Zenon DEF Expired
    <2>7. result_get(j) = IF over THEN NULL ELSE p.value
      <3> HIDE DEF over
      <3> QED
        BY <2>2, <2>3, <2>4, <2>6, Zenon
    <2> QED
      BY <2>5, <2>7, Zenon DEF p
  <1> QED
    BY <1>1, <1>2, <1>3, PTL DEF Spec
=============================================================================

--------------------------- MODULE DatabaseProofs ---------------------------
(***************************************************************************)
(* Safety of the Database object for any number of threads and any         *)
(* max_readers.  The writer slot and the reader pool share nothing but the *)
(* program counters, so a step of one leaves the invariant of the other:   *)
(* WriterMoves and ReaderMoves say what each may change.  Bindings puts    *)
(* the clients of the watcher beside it; the extension's lose no tick.     *)
(***************************************************************************)
EXTENDS Bindings, FiniteSetTheorems, TLAPS

(* The calls that use the writer slot, and those that use the pool *)
WriterSide ==
    \/ \E t \in Threads : (try_acquire(t) \/ WriterStep(t)) /\ UNCHANGED <<rvars, txn>>
    \/ \E t \in Threads : prune_notifications(t) \/ Transaction(t)
    \/ (close \/ close_slot) /\ UNCHANGED <<rvars, txn>>

ReaderSide ==
    \/ \E t \in Threads : (query(t) \/ ReaderStep(t)) /\ UNCHANGED <<wvars, txn>>
    \/ (close_readers_flag \/ close_pool \/ close_notify) /\ UNCHANGED <<wvars, txn>>

CallTypes ==
    /\ pc \in [Threads -> WriterSteps \cup ReaderSteps]
    /\ closes \in {"open", "writer_flag", "writer", "readers_flag", "pool", "closed"}

(* OneConnection needs that the writer is closed once close() has begun,   *)
(* NoStrandedWriter that close_slot leaves nobody asleep behind it.        *)
WriterInv ==
    /\ slot \in BOOLEAN /\ writer_closed \in BOOLEAN /\ txn \in BOOLEAN
    /\ OneConnection
    /\ CleanConnection
    /\ NoStrandedWriter
    /\ closes # "open" => writer_closed
    /\ writer_closed /\ closes # "writer_flag" => At({"waits"}) = {}

(* NoStrandedReader follows from a count: each pooled connection is the    *)
(* target of a thread of its own while anybody sleeps.                     *)
ReaderInv ==
    /\ pool \in Nat /\ outstanding \in Nat /\ readers_closed \in BOOLEAN
    /\ CapacityKept
    /\ ~readers_closed /\ At({"sleeps"}) # {} =>
         pool <= Cardinality(At({"checks", "locks"}))
    /\ closes \in {"readers_flag", "pool", "closed"} => readers_closed

DatabaseInv == CallTypes /\ WriterInv /\ ReaderInv

----------------------------------------------------------------------------
(* Every step is on one side. *)
LEMMA Sides == Next <=> WriterSide \/ ReaderSide
  BY DEF Next, Step, CloseGoesOn, WriterSide, ReaderSide

(* A step on the writer's side moves threads between steps of the writer   *)
(* and leaves the pool.                                                    *)
LEMMA WriterMoves ==
  ASSUME CallTypes, WriterSide
  PROVE  /\ CallTypes'
         /\ UNCHANGED rvars
         /\ \A u \in Threads : pc'[u] # pc[u] => {pc[u], pc'[u]} \subseteq WriterSteps
         /\ closes' = closes \/ closes' \in {"writer_flag", "writer"}
  <1> DEFINE Goal == /\ CallTypes'
                     /\ UNCHANGED rvars
                     /\ \A u \in Threads :
                          pc'[u] # pc[u] => {pc[u], pc'[u]} \subseteq WriterSteps
                     /\ closes' = closes \/ closes' \in {"writer_flag", "writer"}
  <1> USE DEF CallTypes, WriterSteps, ReaderSteps, Goto
  <1>1. ASSUME NEW t \in Threads,
               try_acquire(t) \/ WriterStep(t), UNCHANGED <<rvars, txn>>
        PROVE  Goal
    <2>1. CASE try_acquire(t) \/ try_take(t) \/ acquire(t) \/ release(t)
      BY <1>1, <2>1 DEF try_acquire, try_take, acquire, release, rvars
    <2>2. CASE put_back(t)
      BY <1>1, <2>2 DEF put_back, GotoAndNotify, At, rvars
    <2> QED
      BY <1>1, <2>1, <2>2 DEF WriterStep
  <1>2. ASSUME NEW t \in Threads, prune_notifications(t) \/ Transaction(t)
        PROVE  Goal
    BY <1>2 DEF prune_notifications, Transaction, begin_immediate, begin_fails, statement_aborts,
                commit, commit_fails, rollback, drop_transaction, OnConnection, rvars
  <1>3. ASSUME close \/ close_slot, UNCHANGED <<rvars, txn>>
        PROVE  Goal
    BY <1>3 DEF close, close_slot, Closing, NotifyAll, rvars
  <1> QED
    BY <1>1, <1>2, <1>3 DEF WriterSide

(* A step on the readers' side moves threads between steps of the pool and *)
(* leaves the writer and its connection.                                   *)
LEMMA ReaderMoves ==
  ASSUME CallTypes, ReaderSide
  PROVE  /\ CallTypes'
         /\ UNCHANGED <<wvars, txn>>
         /\ \A u \in Threads :
              pc'[u] # pc[u] => {pc[u], pc'[u]} \subseteq ReaderSteps \cup {"idle"}
         /\ \/ closes' = closes
            \/ {closes, closes'} \cap {"open", "writer_flag"} = {}
  <1> DEFINE Goal == /\ CallTypes'
                     /\ UNCHANGED <<wvars, txn>>
                     /\ \A u \in Threads : pc'[u] # pc[u] =>
                          {pc[u], pc'[u]} \subseteq ReaderSteps \cup {"idle"}
                     /\ \/ closes' = closes
                        \/ {closes, closes'} \cap {"open", "writer_flag"} = {}
  <1> USE DEF CallTypes, WriterSteps, ReaderSteps, Goto
  <1>1. ASSUME NEW t \in Threads,
               query(t) \/ ReaderStep(t), UNCHANGED <<wvars, txn>>
        PROVE  Goal
    <2>1. CASE query(t) \/ check_closed(t) \/ pop(t) \/ reserve(t) \/ wait(t)
      BY <1>1, <2>1 DEF query, check_closed, pop, reserve, wait
    <2>2. CASE open_ok(t) \/ open_failed(t) \/ recheck(t) \/ release_reader(t)
      BY <1>1, <2>2 DEF open_ok, open_failed, recheck, release_reader
    <2>3. CASE push_reader(t)
      BY <1>1, <2>3 DEF push_reader, GotoAndNotify, At
    <2> QED
      BY <1>1, <2>1, <2>2, <2>3 DEF ReaderStep
  <1>2. ASSUME close_readers_flag \/ close_pool \/ close_notify, UNCHANGED <<wvars, txn>>
        PROVE  Goal
    BY <1>2 DEF close_readers_flag, close_pool, close_notify, Closing, NotifyAll
  <1> QED
    BY <1>1, <1>2 DEF ReaderSide

----------------------------------------------------------------------------
(* The pool's steps leave who has, awaits or approaches the connection. *)
LEMMA ReadersKeepWriter ==
  ASSUME CallTypes, WriterInv, ReaderSide
  PROVE  WriterInv'
  <1>1. /\ UNCHANGED <<slot, writer_closed, txn>>
        /\ \A u \in Threads :
             pc'[u] # pc[u] => {pc[u], pc'[u]} \subseteq ReaderSteps \cup {"idle"}
        /\ closes' = closes \/ {closes, closes'} \cap {"open", "writer_flag"} = {}
    BY ReaderMoves DEF wvars
  <1>2. /\ UNCHANGED <<Holders, At({"inside"}), At({"waits"})>>
        /\ UNCHANGED At({"acquire", "tries"})
    BY <1>1 DEF Holders, At, ReaderSteps
  <1> QED
    BY <1>1, <1>2, Zenon DEF WriterInv, OneConnection, CleanConnection, NoStrandedWriter

(* The connection is in one place, clean, and on its way to a sleeper. *)
LEMMA WriterStepKeeps ==
  ASSUME CallTypes, WriterInv, NEW t \in Threads,
         try_acquire(t) \/ WriterStep(t), UNCHANGED <<rvars, txn>>
  PROVE  WriterInv'
  <1> USE DEF CallTypes, WriterInv, OneConnection, CleanConnection, NoStrandedWriter,
              Holders, At, Goto
  <1>1. CASE try_acquire(t)
    BY <1>1 DEF try_acquire
  <1>2. CASE try_take(t)
    BY <1>2, Zenon DEF try_take
  <1>3. CASE acquire(t)
    BY <1>3, ZenonT(30) DEF acquire
  <1>4. CASE release(t)
    BY <1>4 DEF release
  <1>5. CASE put_back(t)
    BY <1>5 DEF put_back, GotoAndNotify
  <1> QED
    BY <1>1, <1>2, <1>3, <1>4, <1>5 DEF WriterStep

(* Whatever ends a transaction ends it on the connection. *)
LEMMA TransactionKeeps ==
  ASSUME CallTypes, WriterInv, NEW t \in Threads, prune_notifications(t) \/ Transaction(t)
  PROVE  WriterInv'
  <1> USE DEF CallTypes, WriterInv, OneConnection, CleanConnection, NoStrandedWriter,
              Holders, At, Goto, OnConnection, wvars
  <1>1. CASE prune_notifications(t)
    BY <1>1 DEF prune_notifications
  <1>2. CASE begin_immediate(t)
    BY <1>2 DEF begin_immediate
  <1>3. CASE begin_fails(t)
    BY <1>3 DEF begin_fails
  <1>4. CASE statement_aborts(t)
    BY <1>4, Zenon DEF statement_aborts
  <1>5. CASE commit(t) \/ commit_fails(t) \/ rollback(t) \/ drop_transaction(t)
    <2>1. OnConnection(t, "inside", "ends") /\ txn' = FALSE
      BY <1>5 DEF commit, commit_fails, rollback, drop_transaction
    <2>2. /\ UNCHANGED <<closes, slot, writer_closed>>
          /\ txn' = FALSE
          /\ At({"waits"})' = At({"waits"})
      BY <2>1
    <2>3. OneConnection'
      BY <2>1, SMTT(30)
    <2>4. CleanConnection'
      BY <2>2, SMTT(30)
    <2>5. NoStrandedWriter'
      BY <2>1, SMTT(30)
    <2> HIDE DEF OneConnection, CleanConnection, NoStrandedWriter, At, CallTypes
    <2> QED
      BY <2>2, <2>3, <2>4, <2>5, Zenon
  <1> QED
    BY <1>1, <1>2, <1>3, <1>4, <1>5 DEF Transaction

LEMMA CloseKeepsWriter ==
  ASSUME CallTypes, WriterInv, close \/ close_slot, UNCHANGED <<rvars, txn>>
  PROVE  WriterInv'
  <1> USE DEF CallTypes, WriterInv, OneConnection, CleanConnection, NoStrandedWriter,
              Holders, At
  <1>1. CASE close
    BY <1>1 DEF close
  <1>2. CASE close_slot
    BY <1>2, Zenon DEF close_slot, Closing, NotifyAll
  <1> QED
    BY <1>1, <1>2

----------------------------------------------------------------------------
(* The writer's steps leave who uses, awaits or approaches the pool. *)
LEMMA WriterKeepsReaders ==
  ASSUME CallTypes, ReaderInv, WriterSide
  PROVE  ReaderInv'
  <1>1. /\ UNCHANGED <<pool, outstanding, readers_closed>>
        /\ \A u \in Threads : pc'[u] # pc[u] => {pc[u], pc'[u]} \subseteq WriterSteps
        /\ closes' = closes \/ closes' \in {"writer_flag", "writer"}
    BY WriterMoves DEF rvars
  <1>2. /\ UNCHANGED <<At({"sleeps"}), At({"checks", "locks"})>>
        /\ UNCHANGED At({"opens", "opened", "reads", "returns"})
    BY <1>1 DEF At, WriterSteps
  <1> QED
    BY <1>1, <1>2 DEF ReaderInv, CapacityKept

(* What one thread's move does to the number of threads at some steps *)
LEMMA MoveCounts ==
  ASSUME CallTypes, NEW t \in Threads, NEW S, NEW step,
         Goto(t, step)
  PROVE  /\ Cardinality(At(S)) \in Nat
         /\ Cardinality(At(S))' = Cardinality(At(S))
              + (IF step \in S THEN 1 ELSE 0) - (IF pc[t] \in S THEN 1 ELSE 0)
         /\ pc[t] \in S => Cardinality(At(S)) > 0
  <1>1. IsFiniteSet(At(S))
    BY CallsAssumption, FS_Subset DEF At
  <1>2. Cardinality(At(S)) \in Nat
    BY <1>1, FS_CardinalityType
  <1>3. At(S)' = IF step \in S THEN At(S) \cup {t} ELSE At(S) \ {t}
    BY DEF At, Goto, CallTypes
  <1>4. t \in At(S) <=> pc[t] \in S
    BY DEF At
  <1>5. /\ Cardinality(At(S) \cup {t}) =
             IF t \in At(S) THEN Cardinality(At(S)) ELSE Cardinality(At(S)) + 1
        /\ Cardinality(At(S) \ {t}) =
             IF t \in At(S) THEN Cardinality(At(S)) - 1 ELSE Cardinality(At(S))
    BY <1>1, FS_AddElement, FS_RemoveElement, Zenon
  <1>6. t \in At(S) => Cardinality(At(S)) > 0
    BY <1>1, <1>2, FS_EmptySet
  <1> QED
    BY <1>2, <1>3, <1>4, <1>5, <1>6

(* The threads that have a connection, approach the pool, sleep *)
Open == At({"opens", "opened", "reads", "returns"})
Coming == At({"checks", "locks"})
Asleep == At({"sleeps"})

(* The same for the sets of threads the pool's invariant speaks of *)
LEMMA PoolMove ==
  ASSUME CallTypes, NEW t \in Threads, NEW step, Goto(t, step)
  PROVE  /\ Cardinality(Open) \in Nat /\ Cardinality(Coming) \in Nat
         /\ Cardinality(Open)' = Cardinality(Open)
              + (IF step \in {"opens", "opened", "reads", "returns"} THEN 1 ELSE 0)
              - (IF pc[t] \in {"opens", "opened", "reads", "returns"} THEN 1 ELSE 0)
         /\ Cardinality(Coming)' = Cardinality(Coming)
              + (IF step \in {"checks", "locks"} THEN 1 ELSE 0)
              - (IF pc[t] \in {"checks", "locks"} THEN 1 ELSE 0)
         /\ pc[t] \in {"opens", "opened", "reads", "returns"} => Cardinality(Open) > 0
         /\ pc[t] \in {"checks", "locks"} => Cardinality(Coming) > 0
         /\ step # "sleeps" /\ pc[t] # "sleeps" => Asleep' = Asleep
  <1>1. step # "sleeps" /\ pc[t] # "sleeps" => Asleep' = Asleep
    BY DEF CallTypes, At, Goto, Asleep
  <1> QED
    BY <1>1, MoveCounts, Zenon DEF Open, Coming

(* The steps under the pool mutex before a connection is opened *)
LEMMA PoolTaken ==
  ASSUME CallTypes, ReaderInv, NEW t \in Threads,
         query(t) \/ check_closed(t) \/ pop(t) \/ reserve(t) \/ wait(t)
  PROVE  ReaderInv'
  <1> USE DEF ReaderInv, CapacityKept, Open, Coming, Asleep, rvars
  <1>1. CASE query(t)
    BY <1>1, PoolMove DEF query
  <1>2. CASE check_closed(t)
    <2>1. CASE readers_closed
      BY <1>2, <2>1, PoolMove DEF check_closed
    <2>2. CASE ~readers_closed
      BY <1>2, <2>2, PoolMove DEF check_closed
    <2> QED
      BY <2>1, <2>2
  <1>3. CASE pop(t)
    BY <1>3, PoolMove DEF pop
  <1>4. CASE reserve(t)
    BY <1>4, PoolMove, ReadersAssumption DEF reserve
  <1>5. CASE wait(t)
    BY <1>5, PoolMove DEF wait
  <1> QED
    BY <1>1, <1>2, <1>3, <1>4, <1>5

(* The steps of a thread that has, or is about to open, a connection *)
LEMMA PoolUsed ==
  ASSUME CallTypes, ReaderInv, NEW t \in Threads,
         open_ok(t) \/ open_failed(t) \/ recheck(t) \/ release_reader(t)
  PROVE  ReaderInv'
  <1> USE DEF ReaderInv, CapacityKept, Open, Coming, Asleep, rvars
  <1>1. CASE open_ok(t)
    BY <1>1, PoolMove DEF open_ok
  <1>2. CASE open_failed(t)
    BY <1>2, PoolMove, ReadersAssumption DEF open_failed
  <1>3. CASE recheck(t)
    <2>1. CASE readers_closed
      BY <1>3, <2>1, PoolMove, ReadersAssumption DEF recheck
    <2>2. CASE ~readers_closed
      BY <1>3, <2>2, PoolMove DEF recheck
    <2> QED
      BY <2>1, <2>2
  <1>4. CASE release_reader(t)
    <2>1. CASE readers_closed
      BY <1>4, <2>1, PoolMove DEF release_reader
    <2>2. CASE ~readers_closed
      BY <1>4, <2>2, PoolMove DEF release_reader
    <2> QED
      BY <2>1, <2>2
  <1> QED
    BY <1>1, <1>2, <1>3, <1>4

(* A connection goes back, and the thread notify_one picked is on its way. *)
LEMMA PoolReturned ==
  ASSUME CallTypes, ReaderInv, NEW t \in Threads, push_reader(t)
  PROVE  ReaderInv'
  <1> USE DEF ReaderInv, CapacityKept, rvars
  <1>1. CASE Asleep = {}
    <2>1. Goto(t, "idle")
      BY <1>1 DEF push_reader, GotoAndNotify, Asleep
    <2> QED
      BY <1>1, <2>1, PoolMove DEF push_reader, Open, Coming, Asleep
  <1>2. CASE Asleep # {}
    <2>1. PICK w \in Asleep : pc' = [pc EXCEPT ![t] = "idle", ![w] = "checks"]
      BY <1>2 DEF push_reader, GotoAndNotify, Asleep
    <2>2. /\ Open' = Open \ {t} /\ t \in Open
          /\ Coming' = Coming \cup {w} /\ w \notin Coming
      BY <2>1 DEF push_reader, CallTypes, Open, Coming, Asleep, At
    <2>3. IsFiniteSet(Open) /\ IsFiniteSet(Coming)
      BY CallsAssumption, FS_Subset DEF Open, Coming, At
    <2>4. /\ Cardinality(Open) \in Nat /\ Cardinality(Coming) \in Nat
          /\ Cardinality(Open') = Cardinality(Open) - 1
          /\ Cardinality(Coming') = Cardinality(Coming) + 1
      BY <2>2, <2>3, FS_CardinalityType, FS_AddElement, FS_RemoveElement, Zenon
    <2> QED
      BY <1>2, <2>4 DEF push_reader, Open, Coming, Asleep
  <1> QED
    BY <1>1, <1>2

(* close() marks the pool closed before it empties it. *)
LEMMA CloseKeepsReaders ==
  ASSUME CallTypes, ReaderInv,
         close_readers_flag \/ close_pool \/ close_notify
  PROVE  ReaderInv'
  <1> USE DEF ReaderInv, CapacityKept, Closing, rvars
  <1>1. Cardinality(Open) \in Nat
    BY CallsAssumption, FS_Subset, FS_CardinalityType DEF Open, At
  <1>2. CASE close_readers_flag
    BY <1>2 DEF close_readers_flag, At
  <1>3. CASE close_pool
    BY <1>1, <1>3 DEF close_pool, Open, At
  <1>4. CASE close_notify
    <2>1. Open' = Open
      BY <1>4 DEF close_notify, NotifyAll, CallTypes, Open, At
    <2> QED
      BY <1>4, <2>1 DEF close_notify, Open
  <1> QED
    BY <1>2, <1>3, <1>4

----------------------------------------------------------------------------
LEMMA DatabaseInit == Init => DatabaseInv
  <1> SUFFICES ASSUME Init PROVE DatabaseInv
    OBVIOUS
  <1>1. /\ At({"opens", "opened", "reads", "returns"}) = {}
        /\ At({"sleeps"}) = {}
    BY DEF Init, At
  <1>2. ReaderInv
    <2>1. Cardinality(At({"opens", "opened", "reads", "returns"})) = 0
      BY <1>1, FS_EmptySet
    <2>2. pool = 0 /\ outstanding = 0 /\ ~readers_closed /\ closes = "open"
      BY DEF Init, ReadersInit
    <2>3. CapacityKept
      BY <2>1, <2>2, ReadersAssumption DEF CapacityKept
    <2>4. readers_closed \in BOOLEAN
      BY Zenon DEF Init, ReadersInit
    <2> QED
      BY <1>1, <2>2, <2>3, <2>4 DEF ReaderInv
  <1>3. WriterInv
    BY Zenon DEF Init, WriterInit, WriterInv, OneConnection, CleanConnection, NoStrandedWriter, Holders, At
  <1> QED
    BY <1>2, <1>3 DEF Init, DatabaseInv, CallTypes, WriterSteps

LEMMA DatabaseStep == DatabaseInv /\ [Next]_vars => DatabaseInv'
  <1> SUFFICES ASSUME DatabaseInv, [Next]_vars PROVE DatabaseInv'
    OBVIOUS
  <1> USE DEF DatabaseInv
  <1>1. CASE WriterSide
    <2>1. CallTypes' /\ ReaderInv'
      BY <1>1, WriterMoves, WriterKeepsReaders
    <2>2. WriterInv'
      BY <1>1, WriterStepKeeps, TransactionKeeps, CloseKeepsWriter DEF WriterSide
    <2> QED
      BY <2>1, <2>2
  <1>2. CASE ReaderSide
    <2>1. CallTypes' /\ WriterInv'
      BY <1>2, ReaderMoves, ReadersKeepWriter
    <2>2. ReaderInv'
      BY <1>2, PoolTaken, PoolUsed, PoolReturned, CloseKeepsReaders, Zenon DEF ReaderSide, ReaderStep
    <2> QED
      BY <2>1, <2>2
  <1>3. CASE UNCHANGED vars
    BY <1>3 DEF vars, wvars, rvars, CallTypes, WriterInv, ReaderInv, OneConnection,
                CleanConnection, NoStrandedWriter, CapacityKept, Holders, At
  <1> QED
    BY <1>1, <1>2, <1>3, Sides

LEMMA DatabaseInvariant == Spec => []DatabaseInv
  BY DatabaseInit, DatabaseStep, PTL DEF Spec

(* For any number of threads, the write connection of a process is in one  *)
(* place at a time and is not lost while the writer is open, whatever      *)
(* close() interrupts (Writer), and no thread ever gets it with a          *)
(* transaction open on it (the Transaction objects of the bindings, Node's *)
(* prune_notifications).                                                   *)
THEOREM ConnectionIsSafe == Spec => []OneCleanConnection
  BY DatabaseInvariant, PTL DEF DatabaseInv, WriterInv, OneCleanConnection

(* The pool never opens more than max_readers connections, and loses no    *)
(* capacity while it is open (Readers).                                    *)
THEOREM PoolCapacity == Spec => []CapacityKept
  BY DatabaseInvariant, PTL DEF DatabaseInv, ReaderInv

(* No wakeup of a thread that waits for a connection is lost: neither the  *)
(* slot nor the pool ever has one to give while all its callers sleep.     *)
THEOREM WaitersAreWoken == Spec => []NobodyStranded
  <1>1. DatabaseInv => NoStrandedWriter
    BY DEF DatabaseInv, WriterInv
  <1>2. DatabaseInv => NoStrandedReader
    <2> SUFFICES ASSUME DatabaseInv, pool > 0, At({"sleeps"}) # {}, ~readers_closed
                 PROVE  At({"checks", "locks"}) # {}
      BY DEF NoStrandedReader
    <2> QED
      BY FS_EmptySet DEF DatabaseInv, ReaderInv
  <1> QED
    BY <1>1, <1>2, DatabaseInvariant, PTL DEF NobodyStranded

----------------------------------------------------------------------------
(* The safety half of WaitIsTold: while the watcher of an open handle      *)
(* lives, a commit its user has not read is a tick in the channel.         *)
UnreadIsPending ==
    client \in {"sql", "c"} /\ handle \in {"stored", "taken"} /\ alive =>
        sender /\ (unread => tick)

(* It rests on the map: the one wait that has the handle took it out. *)
HandleInv ==
    /\ call \in [Callers -> {"idle", "spawned", "recv"}]
    /\ client = "sql" =>
         \A c, d \in Callers : call[c] = "recv" =>
             handle = "taken" /\ (call[d] = "recv" => d = c)
    /\ UnreadIsPending

(* The loadable extension, through SQL_WATCHERS or a C pointer: however    *)
(* the opens, waits, timeouts and closes of any number of callers overlap, *)
(* no commit is forgotten between the channel and the next wait.           *)
THEOREM NoTickIsLost == BindingsSpec => []UnreadIsPending
  <1>1. BindingsInit => HandleInv
    BY DEF BindingsInit, ClientInit, UnreadIsPending, HandleInv
  <1>2. HandleInv /\ [UseDatabase \/ UseEvents]_bvars => HandleInv'
    <2> SUFFICES ASSUME HandleInv, [UseDatabase \/ UseEvents]_bvars
                 PROVE  HandleInv'
      OBVIOUS
    <2> USE DEF UnreadIsPending, HandleInv
    <2>1. CASE UseDatabase \/ UNCHANGED bvars
      BY <2>1 DEF UseDatabase, bvars, cvars, channel, handles
    <2>2. CASE update_events \/ close_watcher \/ commit_announced \/ watcher_died
      <3>1. CASE update_events
        BY <3>1 DEF update_events, Subscribe
      <3>2. CASE close_watcher \/ watcher_died
        BY <3>2, Zenon DEF close_watcher, watcher_died, handles
      <3>3. CASE commit_announced
        BY <3>3, Zenon DEF commit_announced, handles
      <3> QED
        BY <2>2, <3>1, <3>2, <3>3
    <2>3. CASE PythonStep
      <3>1. client = "python" /\ UNCHANGED <<client, handles>>
        BY <2>3, Zenon DEF PythonStep, take_gil, drop_gil, ensure_started, BridgeStep, bridge_recv,
             bridge_checks, bridge_attaches, bridge_puts, anext, drop_flag, DropStep,
             drop_unsubscribe, drop_detach, drop_join, Bridge, Python
      <3> QED
        BY <3>1 DEF handles
    <2>4. CASE NodeStep
      <3>1. client = "node" /\ UNCHANGED client
        BY <2>4 DEF NodeStep, next, lock_rx, next_returns, close_events, CallGoes
      <3>2. call' \in [Callers -> {"idle", "spawned", "recv"}]
        BY <2>4, Zenon DEF NodeStep, next, lock_rx, next_returns, close_events, CallGoes
      <3> QED
        BY <3>1, <3>2
    <2>5. CASE HandleStep
      <3>1. CASE update_watcher_open \/ close_joins
        BY <3>1, Zenon DEF update_watcher_open, Subscribe, close_joins
      <3>2. CASE update_watcher_close \/ watcher_close
        BY <3>2 DEF update_watcher_close, watcher_close, CloseHandle
      <3>3. CASE watcher_wait
        BY <3>3, Zenon DEF watcher_wait, handles
      <3>4. ASSUME NEW c \in Callers, update_watcher_wait(c)
            PROVE  HandleInv'
        BY <3>4 DEF update_watcher_wait, CallGoes, channel
      <3>5. ASSUME NEW c \in Callers, wait_returns(c)
            PROVE  HandleInv'
        BY <3>5, Zenon DEF wait_returns, CallGoes
      <3>6. ASSUME NEW c \in Callers, wait_disconnected(c)
            PROVE  HandleInv'
        BY <3>6 DEF wait_disconnected, CallGoes, CloseHandle
      <3> QED
        BY <2>5, <3>1, <3>2, <3>3, <3>4, <3>5, <3>6 DEF HandleStep, WaitStep
    <2> QED
      BY <2>1, <2>2, <2>3, <2>4, <2>5 DEF UseEvents, ClientStep
  <1> QED
    BY <1>1, <1>2, PTL DEF BindingsSpec, HandleInv
=============================================================================

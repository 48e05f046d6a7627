-------------------------- MODULE BootstrapProofs --------------------------
(***************************************************************************)
(* Bootstrap for any number of processes, any file of an older build and   *)
(* any number of failed statements: no job is lost, bootstrap returns only *)
(* when the migration is complete, and an error means that everything was  *)
(* undone.                                                                 *)
(*                                                                         *)
(* The committed content is sound at all times.  What a process has written*)
(* but not released is sound only at some of its statements, so the        *)
(* invariant says for each statement what the content is like there.       *)
(* Content is written by the process that has the write lock, and only     *)
(* that process can change what is committed.                              *)
(***************************************************************************)
EXTENDS Bootstrap, TLAPS

Whole(c) == Live(c) \cup c.dead = jobs /\ Live(c) \cap c.dead = {}

(* No future row is pending. *)
Promoted(c) == \A i \in Live(c) : ~(c.live[i].state = "pending" /\ c.live[i].future)

Sound(c) ==
    /\ c \in File
    /\ Whole(c)
    /\ ~c.marker => Promoted(c) /\ Exhausted(c) = {}

(* The content while a migration, or a dead-letter, is half done *)
HalfBuried(c) ==
    /\ c \in File /\ c.marker /\ Promoted(c)
    /\ Live(c) \cup c.dead = jobs /\ Live(c) \cap c.dead = Exhausted(c)

HalfMoved(c, i) ==
    /\ c \in File /\ ~c.marker /\ Promoted(c) /\ Exhausted(c) = {}
    /\ i \in Ids /\ i \notin Live(c) /\ i \notin c.dead
    /\ Live(c) \cup c.dead \cup {i} = jobs /\ Live(c) \cap c.dead = {}

----------------------------------------------------------------------------
(* What a connection is like *)

Idle(p) == txn[p] = "none" /\ ~frame[p] /\ base[p] = NULL /\ work[p] = NULL

(* The content when the caller had begun, and written its note *)
Noted(p) == [db EXCEPT !.notes = @ \cup {p}]

InOwn(p) == txn[p] = "own" /\ base[p] = NULL
InCallers(p) == txn[p] = "caller" /\ base[p] = Noted(p) /\ work[p] # NULL
InFrame(p) == InOwn(p) \/ InCallers(p)

(* In a transaction of the caller, outside a savepoint *)
Outside(p) == txn[p] = "caller" /\ ~frame[p] /\ base[p] = NULL /\ work[p] # NULL

Migration == {"lock", "recheck", "promote", "bury", "purge", "drop"}
Steps == Opening \cup Migration \cup
         {"release", "undo", "rollback", "failed", "ready", "delete", "insert", "returned", "done"}

SessionInv(p) ==
    /\ work[p] # NULL => writer = p
    /\ pc[p] \in Opening \cup Migration \cup {"failed"} => p \notin ready
    /\ pc[p] \in {"ready", "delete", "insert", "returned", "done"} => p \in ready
    /\ pc[p] \in Opening \cup {"done"} => Idle(p)
    /\ pc[p] \in Migration => InOwn(p)
    /\ pc[p] = "lock" => work[p] = NULL
    /\ pc[p] \in {"recheck", "promote"} => work[p] # NULL /\ Sound(work[p])
    /\ pc[p] = "promote" => work[p].marker
    /\ pc[p] = "bury" => work[p] # NULL /\ Sound(work[p]) /\ work[p].marker /\ Promoted(work[p])
    /\ pc[p] = "purge" => work[p] # NULL /\ HalfBuried(work[p])
    /\ pc[p] = "drop" => /\ work[p] # NULL /\ Sound(work[p]) /\ work[p].marker
                         /\ Promoted(work[p]) /\ Exhausted(work[p]) = {}
    /\ pc[p] = "ready" => Idle(p) \/ (Outside(p) /\ work[p] = Noted(p))
    /\ pc[p] = "delete" => \/ InOwn(p) /\ work[p] = NULL
                           \/ InCallers(p) /\ work[p] = Noted(p)
    /\ pc[p] = "insert" => InFrame(p) /\ work[p] # NULL /\ HalfMoved(work[p], taken[p])
    /\ pc[p] = "release" =>
         /\ InFrame(p)
         /\ work[p] # NULL => Sound(work[p]) /\ ~work[p].marker
         /\ p \notin ready => InOwn(p) /\ work[p] # NULL
    /\ pc[p] = "undo" => Idle(p) \/ InOwn(p) \/ (InCallers(p) /\ p \in ready)
    /\ pc[p] = "rollback" => InOwn(p)
    /\ pc[p] = "failed" => outcome[p] \in Unclear \/ Idle(p)
    /\ pc[p] = "returned" =>
         \/ outcome[p] \in Unclear \/ Idle(p)
         \/ /\ Outside(p) /\ Sound(work[p]) /\ ~work[p].marker
            /\ outcome[p] = "error" => work[p] = Noted(p)
    /\ pc[p] \in {"undo", "rollback"} \/ outcome[p] = "error" => faults > 0

(* What has been created before a process is at a statement *)
SchemaInv(p) ==
    LET Before == {"wal", "create"}
        Enabled == {"enabled", "alter enabled"}
        MaxAttempts == {"max_attempts", "alter max_attempts"}
        ClaimedAt == {"claimed_at", "alter claimed_at"}
    IN  /\ pc[p] \notin Before => tables = Tables
        /\ pc[p] \notin Before \cup Enabled => "enabled" \in columns
        /\ pc[p] \notin Before \cup Enabled \cup MaxAttempts => "max_attempts" \in columns
        /\ pc[p] \notin Before \cup Enabled \cup MaxAttempts \cup ClaimedAt =>
             "claimed_at" \in columns

Types ==
    /\ pc \in [Procs -> Steps]
    /\ txn \in [Procs -> {"none", "own", "caller"}]
    /\ frame \in [Procs -> BOOLEAN]
    /\ base \in [Procs -> File \cup {NULL}]
    /\ work \in [Procs -> File \cup {NULL}]
    /\ outcome \in [Procs -> {"ok", "error", "unknown", "panicked"}]
    /\ taken \in [Procs -> Ids \cup {NULL}]
    /\ ready \in SUBSET Procs
    /\ columns \in SUBSET Columns
    /\ faults \in Nat
    /\ jobs \subseteq Ids

BootInv ==
    /\ Types
    /\ Sound(db)
    /\ ready # {} => ~db.marker
    /\ \A p \in Procs : SessionInv(p) /\ SchemaInv(p)

----------------------------------------------------------------------------
(* The statements, on the content *)

LEMMA FileTypes ==
  ASSUME NEW c \in File
  PROVE  /\ c.live \in [Live(c) -> JobRow] /\ Live(c) \in SUBSET Ids /\ c.dead \in SUBSET Ids
         /\ c.marker \in BOOLEAN /\ c.notes \in SUBSET Procs
         /\ c = [live |-> c.live, dead |-> c.dead, marker |-> c.marker, notes |-> c.notes]
  BY DEF File, Live

LEMMA LiveWritten ==
  ASSUME NEW c \in File, NEW S \in SUBSET Ids, NEW rows \in [S -> JobRow], NEW d,
         d = [c EXCEPT !.live = rows]
  PROVE  /\ d \in File /\ Live(d) = S /\ d.live = rows
         /\ d.dead = c.dead /\ d.marker = c.marker
  <1>1. /\ d.live = rows /\ d.dead = c.dead /\ d.marker = c.marker /\ d.notes = c.notes
        /\ d = [live |-> rows, dead |-> c.dead, marker |-> c.marker, notes |-> c.notes]
    BY DEF File
  <1>2. rows \in UNION {[T -> JobRow] : T \in SUBSET Ids}
    OBVIOUS
  <1>3. d \in File
    BY <1>1, <1>2, FileTypes DEF File
  <1>4. Live(d) = S
    BY <1>1 DEF Live
  <1> QED
    BY <1>1, <1>3, <1>4

LEMMA DeadWritten ==
  ASSUME NEW c \in File, NEW dead \in SUBSET Ids, NEW d, d = [c EXCEPT !.dead = dead]
  PROVE  /\ d \in File /\ Live(d) = Live(c) /\ d.live = c.live
         /\ d.dead = dead /\ d.marker = c.marker
         /\ Exhausted(d) = Exhausted(c) /\ (Promoted(d) <=> Promoted(c))
  <1>1. /\ d.live = c.live /\ d.dead = dead /\ d.marker = c.marker /\ d.notes = c.notes
        /\ d \in File
    BY DEF File
  <1> QED
    BY <1>1 DEF Live, Exhausted, Promoted

LEMMA MarkerDropped ==
  ASSUME NEW c \in File, NEW d, d = [c EXCEPT !.marker = FALSE]
  PROVE  /\ d \in File /\ Live(d) = Live(c) /\ d.live = c.live
         /\ d.dead = c.dead /\ ~d.marker
         /\ Exhausted(d) = Exhausted(c) /\ (Promoted(d) <=> Promoted(c))
  <1>1. d.live = c.live /\ d.dead = c.dead /\ ~d.marker /\ d \in File
    BY Zenon DEF File
  <1> QED
    BY <1>1 DEF Live, Exhausted, Promoted

LEMMA NoteWritten ==
  ASSUME NEW c \in File, NEW p \in Procs, NEW d, d = [c EXCEPT !.notes = @ \cup {p}]
  PROVE  /\ d \in File /\ Live(d) = Live(c) /\ d.live = c.live
         /\ d.dead = c.dead /\ d.marker = c.marker
         /\ Exhausted(d) = Exhausted(c) /\ (Promoted(d) <=> Promoted(c))
  <1>1. d.live = c.live /\ d.dead = c.dead /\ d.marker = c.marker /\ d \in File
    BY DEF File
  <1> QED
    BY <1>1 DEF Live, Exhausted, Promoted

(* Rows are taken away. *)
LEMMA RowsRemoved ==
  ASSUME NEW c \in File, NEW S, NEW d, d = [c EXCEPT !.live = Without(c, S)]
  PROVE  /\ d \in File /\ Live(d) = Live(c) \ S
         /\ d.dead = c.dead /\ d.marker = c.marker
         /\ Exhausted(d) = Exhausted(c) \ S /\ (Promoted(c) => Promoted(d))
  <1>1. /\ Live(c) \ S \in SUBSET Ids /\ Without(c, S) \in [Live(c) \ S -> JobRow]
        /\ \A i \in Live(c) \ S : Without(c, S)[i] = c.live[i]
    BY FileTypes DEF Without
  <1>2. /\ d \in File /\ Live(d) = Live(c) \ S /\ d.live = Without(c, S)
        /\ d.dead = c.dead /\ d.marker = c.marker
    BY <1>1, LiveWritten
  <1> QED
    BY <1>1, <1>2 DEF Exhausted, Promoted

(* Future rows are promoted. *)
LEMMA RowsReplaced ==
  ASSUME NEW c \in File, NEW rows \in [Live(c) -> JobRow], NEW d, d = [c EXCEPT !.live = rows],
         \A i \in Live(c) : ~(rows[i].state = "pending" /\ rows[i].future)
  PROVE  /\ d \in File /\ Live(d) = Live(c) /\ d.dead = c.dead /\ d.marker = c.marker
         /\ Promoted(d)
  <1>1. Live(c) \in SUBSET Ids
    BY FileTypes
  <1>2. /\ d \in File /\ Live(d) = Live(c) /\ d.live = rows
        /\ d.dead = c.dead /\ d.marker = c.marker
    BY <1>1, LiveWritten
  <1> QED
    BY <1>2 DEF Promoted

LEMMA PromotedRows ==
  ASSUME NEW c \in File, NEW rows,
         rows = [i \in Live(c) |->
                   IF c.live[i].state = "pending" /\ c.live[i].future
                   THEN [c.live[i] EXCEPT !.state = "scheduled"] ELSE c.live[i]]
  PROVE  /\ rows \in [Live(c) -> JobRow]
         /\ \A i \in Live(c) : ~(rows[i].state = "pending" /\ rows[i].future)
  <1>1. ASSUME NEW i \in Live(c)
        PROVE  /\ rows[i] \in JobRow /\ ~(rows[i].state = "pending" /\ rows[i].future)
    <2>1. c.live[i] \in JobRow
      BY FileTypes
    <2> QED
      BY <2>1 DEF JobRow
  <1> QED
    BY <1>1

----------------------------------------------------------------------------
(* A step of one process and another one, q *)

LEMMA OthersKeep ==
  ASSUME BootInv, NEW q \in Procs,
         pc'[q] = pc[q], txn'[q] = txn[q], frame'[q] = frame[q], base'[q] = base[q],
         work'[q] = work[q], outcome'[q] = outcome[q], taken'[q] = taken[q],
         q \in ready' <=> q \in ready, jobs' = jobs,
         faults' \in Nat, faults' >= faults,
         tables = Tables => tables' = Tables, columns \subseteq columns',
         writer = q => writer' = q,
         db' = db \/ work[q] = NULL
  PROVE  SessionInv(q)' /\ SchemaInv(q)'
  <1>1. SessionInv(q) /\ SchemaInv(q) /\ faults \in Nat
    BY DEF BootInv, Types
  <1>2. SchemaInv(q)'
    BY <1>1, Zenon DEF SchemaInv
  <1>3. /\ Idle(q)' <=> Idle(q)
        /\ InOwn(q)' <=> InOwn(q)
        /\ Outside(q)' <=> Outside(q)
        /\ InCallers(q) => InCallers(q)'
        /\ InFrame(q) => InFrame(q)'
        /\ work[q] # NULL => Noted(q)' = Noted(q)
    BY Zenon DEF Idle, InOwn, Outside, InCallers, InFrame, Noted
  <1>4. \A c : /\ Sound(c)' <=> Sound(c)
               /\ HalfBuried(c)' <=> HalfBuried(c)
               /\ \A i : HalfMoved(c, i)' <=> HalfMoved(c, i)
    BY Zenon DEF Sound, Whole, HalfBuried, HalfMoved
  <1>5. SessionInv(q)'
    BY <1>1, <1>3, <1>4, SMTT(30) DEF SessionInv, Outside, InCallers
  <1> QED
    BY <1>2, <1>5

(* What a step of p may change *)
Local(p) ==
    /\ pc' = [pc EXCEPT ![p] = pc'[p]]
    /\ txn' = [txn EXCEPT ![p] = txn'[p]]
    /\ frame' = [frame EXCEPT ![p] = frame'[p]]
    /\ base' = [base EXCEPT ![p] = base'[p]]
    /\ work' = [work EXCEPT ![p] = work'[p]]
    /\ outcome' = [outcome EXCEPT ![p] = outcome'[p]]
    /\ taken' = [taken EXCEPT ![p] = taken'[p]]
    /\ ready' \in {ready, ready \cup {p}} /\ jobs' = jobs /\ faults' \in {faults, faults + 1}
    /\ (tables = Tables => tables' = Tables) /\ columns \subseteq columns'
    /\ \A q \in Procs \ {p} : writer = q => writer' = q
    /\ db' = db \/ writer = p

(* ... and what it leaves behind *)
Typed(p) ==
    /\ pc[p] \in Steps
    /\ txn[p] \in {"none", "own", "caller"} /\ frame[p] \in BOOLEAN
    /\ base[p] \in File \cup {NULL} /\ work[p] \in File \cup {NULL}
    /\ outcome[p] \in {"ok", "error", "unknown", "panicked"} /\ taken[p] \in Ids \cup {NULL}

LEMMA StepKeeps ==
  ASSUME BootInv, NEW p \in Procs, Local(p), Typed(p)', columns' \subseteq Columns,
         Sound(db)', ready' # {} => ~db'.marker, SessionInv(p)', SchemaInv(p)'
  PROVE  BootInv'
  <1>1. Types /\ faults \in Nat /\ faults' \in Nat /\ faults' >= faults
    BY DEF BootInv, Types, Local
  <1>2. Types'
    BY <1>1 DEF Types, Local, Typed
  <1>3. ASSUME NEW q \in Procs \ {p}
        PROVE  SessionInv(q)' /\ SchemaInv(q)'
    <2>1. /\ pc'[q] = pc[q] /\ txn'[q] = txn[q] /\ frame'[q] = frame[q] /\ base'[q] = base[q]
          /\ work'[q] = work[q] /\ outcome'[q] = outcome[q] /\ taken'[q] = taken[q]
      BY <1>1 DEF Types, Local
    <2>2. /\ q \in ready' <=> q \in ready
          /\ jobs' = jobs /\ columns \subseteq columns'
          /\ tables = Tables => tables' = Tables
          /\ writer = q => writer' = q
      BY DEF Local
    <2>3. db' = db \/ work[q] = NULL
      <3>1. work[q] # NULL => writer = q
        BY DEF BootInv, SessionInv
      <3> QED
        BY <3>1, Zenon DEF Local
    <2> QED
      BY <1>1, <2>1, <2>2, <2>3, OthersKeep
  <1> QED
    BY <1>2, <1>3 DEF BootInv

----------------------------------------------------------------------------
(* Opening *)

LEMMA OpeningKeeps ==
  ASSUME BootInv, NEW p \in Procs, pc[p] \in Opening,
         NEW next \in Opening, pc' = [pc EXCEPT ![p] = next],
         UNCHANGED <<db, conn, rest>>, faults' \in {faults, faults + 1},
         \/ UNCHANGED outcome
         \/ outcome' = [outcome EXCEPT ![p] = "error"] /\ faults' = faults + 1,
         tables = Tables => tables' = Tables, columns \subseteq columns', columns' \subseteq Columns,
         SchemaInv(p)'
  PROVE  BootInv'
  <1>1. /\ Types /\ SessionInv(p) /\ Sound(db) /\ (ready # {} => ~db.marker)
        /\ UNCHANGED <<writer, txn, frame, base, work, taken, ready, jobs>>
    BY DEF BootInv, conn, rest
  <1>2. pc'[p] = next /\ pc' = [pc EXCEPT ![p] = pc'[p]] /\ next \in Steps
    BY <1>1 DEF Types, Steps
  <1>21. /\ outcome' = [outcome EXCEPT ![p] = outcome'[p]]
         /\ outcome'[p] \in {outcome[p], "error"}
         /\ outcome'[p] = outcome[p] \/ faults' = faults + 1
    BY <1>1 DEF Types
  <1>3. Local(p)
    BY <1>1, <1>2, <1>21 DEF Local, Types
  <1>4. Typed(p)'
    BY <1>1, <1>2, <1>21 DEF Typed, Types
  <1>5. SessionInv(p)'
    <2>1. p \notin ready /\ Idle(p) /\ (outcome[p] = "error" => faults > 0) /\ faults \in Nat
      BY <1>1 DEF SessionInv, Types
    <2>2. p \notin ready' /\ Idle(p)' /\ (outcome'[p] = "error" => faults' > 0)
      BY <1>1, <1>21, <2>1 DEF Idle
    <2>3. next \notin Migration \cup {"failed", "ready", "delete", "insert", "returned", "done",
                                     "release", "undo", "rollback"}
      BY Zenon DEF Opening, Migration
    <2> QED
      BY <1>2, <2>2, <2>3, Zenon DEF SessionInv, Idle, Migration
  <1>6. Sound(db)' /\ (ready' # {} => ~db'.marker)
    BY <1>1 DEF Sound, Whole
  <1> QED
    BY <1>3, <1>4, <1>5, <1>6, StepKeeps

LEMMA OpenStepKeeps ==
  ASSUME BootInv, NEW p \in Procs,
         \/ wal_mode(p) \/ open_fails(p) \/ create_table(p) \/ created(p)
         \/ add_enabled(p) \/ add_max_attempts(p) \/ add_claimed_at(p)
  PROVE  BootInv'
  <1>1. /\ Types /\ SchemaInv(p) /\ pc \in [Procs -> Steps] /\ columns \subseteq Columns
    BY DEF BootInv, Types
  <1>2. CASE wal_mode(p) \/ open_fails(p) \/ created(p)
    <2>1. PICK next \in {"wal", "create", "enabled"} :
            /\ pc' = [pc EXCEPT ![p] = next] /\ pc[p] \in Opening
            /\ UNCHANGED <<db, conn, rest, tables, columns>> /\ faults' \in {faults, faults + 1}
            /\ \/ UNCHANGED outcome
               \/ outcome' = [outcome EXCEPT ![p] = "error"] /\ faults' = faults + 1
            /\ next = "enabled" => tables = Tables
      BY <1>2, Zenon DEF wal_mode, open_fails, created, Fault, Goto, Returns, Opening, schema
    <2>2. next \in Opening /\ pc'[p] = next
      BY <1>1, <2>1, Zenon DEF Opening
    <2>3. SchemaInv(p)'
      BY <2>1, <2>2, Zenon DEF SchemaInv
    <2> QED
      BY <1>1, <2>1, <2>2, <2>3, OpeningKeeps, Zenon
  <1>3. CASE create_table(p)
    <2>1. PICK t \in Tables \ tables :
            /\ tables' = tables \cup {t} /\ columns' = columns \cup ColumnsOf(t)
      BY <1>3 DEF create_table
    <2>2. /\ pc[p] = "create" /\ pc' = pc /\ UNCHANGED <<db, conn, outcome, rest, faults>>
      BY <1>3 DEF create_table
    <2>3. /\ tables # Tables /\ columns \subseteq columns' /\ columns' \subseteq Columns
      BY <1>1, <2>1 DEF ColumnsOf, Columns
    <2>4. pc' = [pc EXCEPT ![p] = "create"] /\ "create" \in Opening
      BY <1>1, <2>2 DEF Opening
    <2>5. SchemaInv(p)'
      BY <2>2, Zenon DEF SchemaInv
    <2> QED
      BY <2>2, <2>3, <2>4, <2>5, OpeningKeeps, Zenon
  <1>4. ASSUME NEW column \in Columns, NEW alter \in Opening, NEW next \in Opening,
               \/ HasColumn(p, column, alter, next) /\ column \in Opening
               \/ AddColumn(p, column, alter, next),
               pc'[p] = alter => SchemaInv(p)',
               pc'[p] = next /\ column \in columns' => SchemaInv(p)'
        PROVE  BootInv'
    <2>1. /\ pc[p] \in Opening /\ UNCHANGED <<db, conn, outcome, rest, tables>>
          /\ faults' \in {faults, faults + 1}
          /\ columns \subseteq columns' /\ columns' \subseteq Columns
      BY <1>1, <1>4 DEF HasColumn, AddColumn, Fault, schema
    <2>2. \/ pc' = [pc EXCEPT ![p] = alter]
          \/ pc' = [pc EXCEPT ![p] = next] /\ column \in columns'
      BY <1>4 DEF HasColumn, AddColumn, Goto, schema
    <2>3. CASE pc' = [pc EXCEPT ![p] = alter]
      <3>1. pc'[p] = alter
        BY <1>1, <2>3
      <3> QED
        BY <1>4, <2>1, <2>3, <3>1, OpeningKeeps, Zenon
    <2>4. CASE pc' = [pc EXCEPT ![p] = next] /\ column \in columns'
      <3>1. pc'[p] = next
        BY <1>1, <2>4
      <3> QED
        BY <1>4, <2>1, <2>4, <3>1, OpeningKeeps, Zenon
    <2> QED
      BY <2>2, <2>3, <2>4
  <1>5. CASE add_enabled(p)
    <2>1. /\ pc[p] \in {"enabled", "alter enabled"} /\ tables' = tables
          /\ columns \subseteq columns'
      BY <1>5, Zenon DEF add_enabled, HasColumn, AddColumn, schema
    <2>2. /\ pc'[p] = "alter enabled" => SchemaInv(p)'
          /\ pc'[p] = "max_attempts" /\ "enabled" \in columns' => SchemaInv(p)'
      BY <1>1, <2>1, Zenon DEF SchemaInv
    <2>3. /\ "enabled" \in Columns
          /\ {"enabled", "alter enabled", "max_attempts"} \subseteq Opening
      BY DEF Columns, Opening
    <2> QED
      BY <1>4, <1>5, <2>2, <2>3, Zenon DEF add_enabled
  <1>6. CASE add_max_attempts(p)
    <2>1. /\ pc[p] \in {"max_attempts", "alter max_attempts"} /\ tables' = tables
          /\ columns \subseteq columns'
      BY <1>6, Zenon DEF add_max_attempts, HasColumn, AddColumn, schema
    <2>2. /\ pc'[p] = "alter max_attempts" => SchemaInv(p)'
          /\ pc'[p] = "claimed_at" /\ "max_attempts" \in columns' => SchemaInv(p)'
      BY <1>1, <2>1, Zenon DEF SchemaInv
    <2>3. /\ "max_attempts" \in Columns
          /\ {"max_attempts", "alter max_attempts", "claimed_at"} \subseteq Opening
      BY DEF Columns, Opening
    <2> QED
      BY <1>4, <1>6, <2>2, <2>3, Zenon DEF add_max_attempts
  <1>7. CASE add_claimed_at(p)
    <2>1. /\ pc[p] \in {"claimed_at", "alter claimed_at"} /\ tables' = tables
          /\ columns \subseteq columns'
      BY <1>7, Zenon DEF add_claimed_at, HasColumn, AddColumn, schema
    <2>2. /\ pc'[p] = "alter claimed_at" => SchemaInv(p)'
          /\ pc'[p] = "migrate" /\ "claimed_at" \in columns' => SchemaInv(p)'
      BY <1>1, <2>1, Zenon DEF SchemaInv
    <2>3. /\ "claimed_at" \in Columns
          /\ {"claimed_at", "alter claimed_at", "migrate"} \subseteq Opening
      BY DEF Columns, Opening
    <2> QED
      BY <1>4, <1>7, <2>2, <2>3, Zenon DEF add_claimed_at
  <1> QED
    BY <1>2, <1>3, <1>5, <1>6, <1>7

----------------------------------------------------------------------------
(* Statements inside a savepoint *)

LEMMA WorkStep ==
  ASSUME BootInv, NEW p \in Procs, pc[p] \notin Opening \ {"migrate"},
         UNCHANGED schema, Local(p), Typed(p)',
         Sound(db)', ready' # {} => ~db'.marker, SessionInv(p)'
  PROVE  BootInv'
  <1>1. SchemaInv(p) /\ UNCHANGED <<tables, columns>> /\ columns \subseteq Columns
    BY DEF BootInv, schema, Types
  <1>2. SchemaInv(p)'
    BY <1>1, Zenon DEF SchemaInv, Opening
  <1> QED
    BY <1>1, <1>2, StepKeeps

(* A step that only moves p to its next statement, or returns *)
LEMMA ReturnKeeps ==
  ASSUME BootInv, NEW p \in Procs, pc[p] \notin Opening \ {"migrate"}, NEW next \in Steps,
         pc' = [pc EXCEPT ![p] = next],
         NEW result \in {"ok", "error", "unknown", "panicked"}, outcome' = [outcome EXCEPT ![p] = result],
         UNCHANGED <<db, conn, schema, rest>>, faults' \in {faults, faults + 1},
         SessionInv(p)'
  PROVE  BootInv'
  <1>1. /\ Types /\ Sound(db) /\ (ready # {} => ~db.marker)
        /\ UNCHANGED <<writer, txn, frame, base, work, taken, ready, jobs, tables, columns>>
    BY DEF BootInv, conn, rest, schema
  <1>2. /\ pc'[p] = next /\ pc' = [pc EXCEPT ![p] = pc'[p]]
        /\ outcome'[p] = result /\ outcome' = [outcome EXCEPT ![p] = outcome'[p]]
    BY <1>1 DEF Types
  <1>3. Local(p)
    BY <1>1, <1>2 DEF Local, Types
  <1>4. Typed(p)'
    BY <1>1, <1>2 DEF Typed, Types
  <1>5. Sound(db)' /\ (ready' # {} => ~db'.marker)
    BY <1>1 DEF Sound, Whole
  <1> QED
    BY <1>3, <1>4, <1>5, WorkStep

LEMMA MoveKeeps ==
  ASSUME BootInv, NEW p \in Procs, pc[p] \notin Opening, NEW next \in Steps,
         pc' = [pc EXCEPT ![p] = next],
         UNCHANGED <<db, conn, outcome, schema, rest>>, faults' \in {faults, faults + 1},
         SessionInv(p)'
  PROVE  BootInv'
  <1>1. /\ outcome[p] \in {"ok", "error", "unknown", "panicked"}
        /\ outcome' = [outcome EXCEPT ![p] = outcome[p]]
    BY DEF BootInv, Types
  <1> QED
    BY <1>1, ReturnKeeps, Zenon

(* A step that writes *)
LEMMA WriteKeeps ==
  ASSUME BootInv, NEW p \in Procs, pc[p] \notin Opening, NEW next \in Steps,
         NEW content \in File, Write(p, content), pc' = [pc EXCEPT ![p] = next],
         NEW i \in Ids \cup {NULL}, taken' = [taken EXCEPT ![p] = i],
         UNCHANGED <<outcome, faults, schema, ready, jobs>>,
         SessionInv(p)'
  PROVE  BootInv'
  <1>1. /\ Types /\ Sound(db) /\ (ready # {} => ~db.marker)
        /\ UNCHANGED <<db, txn, frame, base, tables, columns>>
        /\ writer' = p /\ writer \in {NULL, p} /\ work' = [work EXCEPT ![p] = content]
    BY DEF BootInv, schema, Write, MayWrite
  <1>2. /\ pc'[p] = next /\ work'[p] = content /\ taken'[p] = i
        /\ pc' = [pc EXCEPT ![p] = pc'[p]] /\ work' = [work EXCEPT ![p] = work'[p]]
        /\ taken' = [taken EXCEPT ![p] = taken'[p]]
    BY <1>1 DEF Types
  <1>3. Local(p)
    BY <1>1, <1>2, BootstrapAssumption DEF Local, Types
  <1>4. Typed(p)'
    BY <1>1, <1>2, Zenon DEF Typed, Types
  <1>5. Sound(db)' /\ (ready' # {} => ~db'.marker)
    BY <1>1 DEF Sound, Whole
  <1> QED
    BY <1>3, <1>4, <1>5, WorkStep

(* What a write leaves of the connection *)
LEMMA AfterWrite ==
  ASSUME BootInv, NEW p \in Procs, NEW content \in File, Write(p, content),
         NEW next, pc' = [pc EXCEPT ![p] = next], UNCHANGED <<outcome, faults, ready, jobs>>
  PROVE  /\ pc'[p] = next /\ work'[p] = content /\ content # NULL /\ writer' = p
         /\ InOwn(p) => InOwn(p)'
         /\ InFrame(p) => InFrame(p)'
         /\ Sound(content)' <=> Sound(content)
         /\ HalfBuried(content)' <=> HalfBuried(content)
         /\ \A i : HalfMoved(content, i)' <=> HalfMoved(content, i)
         /\ outcome'[p] = "error" => faults' > 0
  <1>1. /\ Types /\ SessionInv(p) /\ UNCHANGED <<db, txn, frame, base>>
        /\ writer' = p /\ work' = [work EXCEPT ![p] = content]
    BY DEF BootInv, Write
  <1>2. pc'[p] = next /\ work'[p] = content /\ content # NULL
    BY <1>1, BootstrapAssumption DEF Types
  <1>3. (InOwn(p) => InOwn(p)') /\ (InFrame(p) => InFrame(p)')
    BY <1>1, <1>2 DEF InOwn, InFrame, InCallers, Noted
  <1>4. /\ Sound(content)' <=> Sound(content)
        /\ HalfBuried(content)' <=> HalfBuried(content)
        /\ \A i : HalfMoved(content, i)' <=> HalfMoved(content, i)
    BY DEF Sound, Whole, HalfBuried, HalfMoved
  <1> QED
    BY <1>1, <1>2, <1>3, <1>4, Zenon DEF SessionInv

(* The content p works on is sound where the body of a savepoint starts. *)
LEMMA ContentIsSound ==
  ASSUME BootInv, NEW p \in Procs, pc[p] \in {"lock", "recheck", "promote", "bury", "drop", "delete"}
  PROVE  /\ Sound(Content(p)) /\ Content(p) \in File
         /\ pc[p] \in {"recheck", "promote", "bury", "drop"} => Content(p) = work[p]
         /\ pc[p] = "delete" => ~Content(p).marker
  <1>1. SessionInv(p) /\ Sound(db) /\ db \in File /\ (p \in ready => ~db.marker)
    BY DEF BootInv, Sound
  <1>2. CASE pc[p] = "delete"
    <2>1. p \in ready /\ (work[p] = NULL \/ work[p] = Noted(p))
      BY <1>1, <1>2 DEF SessionInv
    <2>2. Sound(Noted(p)) /\ Noted(p) \in File /\ ~Noted(p).marker
      BY <1>1, <2>1, NoteWritten DEF Sound, Whole, Noted
    <2> QED
      BY <1>1, <1>2, <2>1, <2>2, Zenon DEF Content
  <1>3. CASE pc[p] = "lock"
    BY <1>1, <1>3, Zenon DEF SessionInv, Content
  <1>4. CASE pc[p] \in {"recheck", "promote", "bury", "drop"}
    BY <1>1, <1>4, Zenon DEF SessionInv, Content, Sound
  <1> QED
    BY <1>2, <1>3, <1>4

(* migrate_claim_v2 *)
LEMMA MigrationKeeps ==
  ASSUME BootInv, NEW p \in Procs,
         \/ lock(p) \/ recheck(p) \/ promote_future(p) \/ bury_exhausted(p)
         \/ purge_exhausted(p) \/ drop_marker(p)
  PROVE  BootInv'
  <1> DEFINE c == Content(p)
  <1>1. Types /\ SessionInv(p) /\ pc \in [Procs -> Steps] /\ taken \in [Procs -> Ids \cup {NULL}]
    BY DEF BootInv, Types
  <1>2. pc[p] \in Migration /\ pc[p] \notin Opening /\ p \notin ready /\ InOwn(p)
    <2>1. pc[p] \in Migration
      BY DEF lock, recheck, promote_future, bury_exhausted, purge_exhausted, drop_marker,
           Statement, Migration
    <2> QED
      BY <1>1, <2>1, Zenon DEF SessionInv, Migration, Opening
  <1>3. Migration \cup {"release"} \subseteq Steps
    BY DEF Steps
  <1>4. ASSUME NEW content \in File, Write(p, content), NEW next \in Migration \cup {"release"},
               pc' = [pc EXCEPT ![p] = next], UNCHANGED <<outcome, faults, schema, rest>>,
               next # "lock",
               next \in {"recheck", "promote", "release"} => Sound(content),
               next = "promote" => content.marker,
               next = "bury" => Sound(content) /\ content.marker /\ Promoted(content),
               next = "purge" => HalfBuried(content),
               next = "drop" => /\ Sound(content) /\ content.marker /\ Promoted(content)
                                /\ Exhausted(content) = {},
               next = "release" => ~content.marker
        PROVE  BootInv'
    <2>1. /\ taken' = [taken EXCEPT ![p] = taken[p]] /\ taken[p] \in Ids \cup {NULL}
          /\ UNCHANGED <<ready, jobs, outcome, faults, schema>>
      BY <1>1, <1>4 DEF rest
    <2>2. /\ pc'[p] = next /\ work'[p] = content /\ content # NULL /\ writer' = p
          /\ InOwn(p)' /\ InFrame(p)'
          /\ Sound(content)' <=> Sound(content)
          /\ HalfBuried(content)' <=> HalfBuried(content)
          /\ outcome'[p] = "error" => faults' > 0
      BY <1>2, <1>4, <2>1, AfterWrite, Zenon DEF InFrame
    <2>3. SessionInv(p)'
      <3>1. p \notin ready' /\ next \notin Opening
            /\ next \notin {"failed", "ready", "delete", "insert", "returned", "done", "undo", "rollback"}
        BY <1>2, <1>4, <2>1, Zenon DEF Migration, Opening
      <3>2. (Sound(work[p])' <=> Sound(content)) /\ (HalfBuried(work[p])' <=> HalfBuried(content))
        BY <2>1, <2>2 DEF Sound, Whole, HalfBuried
      <3> QED
        BY <1>4, <2>2, <3>1, <3>2, Zenon DEF SessionInv
    <2> QED
      BY <1>2, <1>3, <1>4, <2>1, <2>3, WriteKeeps, Zenon
  <1>5. CASE lock(p)
    <2>1. pc[p] = "lock" /\ Write(p, c) /\ pc' = [pc EXCEPT ![p] = "recheck"]
          /\ UNCHANGED <<outcome, faults, schema, rest>>
      BY <1>5 DEF lock, Goto
    <2>2. Sound(c) /\ c \in File
      BY <2>1, ContentIsSound
    <2> HIDE DEF c
    <2> QED
      BY <1>4, <2>1, <2>2 DEF Migration
  <1>6. CASE recheck(p)
    <2>1. PICK next \in {"promote", "release"} :
            /\ pc[p] = "recheck" /\ pc' = [pc EXCEPT ![p] = next]
            /\ UNCHANGED <<db, conn, outcome, faults, schema, rest>>
            /\ next = "promote" <=> work[p].marker
      BY <1>6, Zenon DEF recheck, Goto
    <2>2. pc'[p] = next /\ UNCHANGED <<writer, txn, frame, base, work, ready, jobs, taken>>
      BY <1>1, <2>1 DEF conn, rest
    <2>3. work[p] # NULL /\ Sound(work[p]) /\ writer = p /\ (outcome[p] = "error" => faults > 0)
      BY <1>1, <2>1, Zenon DEF SessionInv
    <2>4. Sound(work[p])' /\ InOwn(p)' /\ InFrame(p)'
      BY <1>2, <2>1, <2>2, <2>3 DEF Sound, Whole, InOwn, InFrame
    <2>5. next \in Steps /\ next \notin Opening
      BY <1>3, <2>1, Zenon DEF Migration, Opening
    <2>6. SessionInv(p)'
      BY <1>2, <2>1, <2>2, <2>3, <2>4, <2>5, Zenon DEF SessionInv, Migration
    <2> QED
      BY <1>2, <2>1, <2>5, <2>6, MoveKeeps, Zenon
  <1>7. CASE promote_future(p)
    <2> DEFINE rows == [i \in Live(c) |->
                          IF c.live[i].state = "pending" /\ c.live[i].future
                          THEN [c.live[i] EXCEPT !.state = "scheduled"] ELSE c.live[i]]
               d == [c EXCEPT !.live = rows]
    <2>1. /\ pc[p] = "promote" /\ Write(p, d) /\ pc' = [pc EXCEPT ![p] = "bury"]
          /\ UNCHANGED <<outcome, faults, schema, rest>>
      BY <1>7 DEF promote_future, Statement, Goto
    <2>2. Sound(c) /\ c \in File /\ c.marker
      BY <1>1, <2>1, ContentIsSound DEF SessionInv
    <2> HIDE DEF c
    <2>3. /\ rows \in [Live(c) -> JobRow]
          /\ \A i \in Live(c) : ~(rows[i].state = "pending" /\ rows[i].future)
      BY <2>2, PromotedRows, Zenon
    <2> HIDE DEF rows
    <2>4. /\ d \in File /\ Live(d) = Live(c) /\ d.dead = c.dead /\ d.marker = c.marker
          /\ Promoted(d)
      BY <2>2, <2>3, RowsReplaced, Zenon
    <2> HIDE DEF d
    <2>5. Sound(d)
      BY <2>2, <2>4, Zenon DEF Sound, Whole
    <2> QED
      BY <1>4, <2>1, <2>2, <2>4, <2>5, Zenon DEF Migration
  <1>8. CASE bury_exhausted(p)
    <2> DEFINE S == Exhausted(c)
               d == [c EXCEPT !.dead = @ \cup S]
    <2>1. /\ pc[p] = "bury" /\ Write(p, d) /\ pc' = [pc EXCEPT ![p] = "purge"]
          /\ UNCHANGED <<outcome, faults, schema, rest>>
      BY <1>8 DEF bury_exhausted, Statement, Goto
    <2>2. Sound(c) /\ c \in File /\ c.marker /\ Promoted(c)
      BY <1>1, <2>1, ContentIsSound DEF SessionInv
    <2> HIDE DEF c
    <2>3. S \subseteq Live(c) /\ S \in SUBSET Ids
      BY <2>2, FileTypes DEF Exhausted
    <2> HIDE DEF S
    <2>4. /\ d \in File /\ Live(d) = Live(c) /\ d.dead = c.dead \cup S
          /\ d.marker = c.marker /\ Exhausted(d) = S /\ Promoted(d)
      <3>1. S = Exhausted(c)
        BY DEF S
      <3>2. c.dead \cup S \in SUBSET Ids /\ c \in File
        BY <2>2, <2>3, FileTypes
      <3>3. /\ d \in File /\ Live(d) = Live(c) /\ d.dead = c.dead \cup S /\ d.marker = c.marker
            /\ Exhausted(d) = Exhausted(c) /\ (Promoted(d) <=> Promoted(c))
        <4> DEFINE dead == c.dead \cup S
        <4>1. dead \in SUBSET Ids /\ d = [c EXCEPT !.dead = dead]
          BY <3>2
        <4> HIDE DEF dead, d
        <4>2. /\ d \in File /\ Live(d) = Live(c) /\ d.dead = dead /\ d.marker = c.marker
              /\ Exhausted(d) = Exhausted(c) /\ (Promoted(d) <=> Promoted(c))
          BY <3>2, <4>1, DeadWritten, ZenonT(30)
        <4> QED
          BY <4>2 DEF dead
      <3> QED
        BY <2>2, <3>1, <3>3, Zenon
    <2> HIDE DEF d
    <2>5. HalfBuried(d)
      BY <2>2, <2>3, <2>4 DEF Sound, Whole, HalfBuried
    <2> QED
      BY <1>4, <2>1, <2>4, <2>5, Zenon DEF Migration
  <1>9. CASE purge_exhausted(p)
    <2> DEFINE S == Exhausted(c)
               d == [c EXCEPT !.live = Without(c, S)]
    <2>1. /\ pc[p] = "purge" /\ Write(p, d) /\ pc' = [pc EXCEPT ![p] = "drop"]
          /\ UNCHANGED <<outcome, faults, schema, rest>>
      BY <1>9 DEF purge_exhausted, Statement, Goto
    <2>2. HalfBuried(c)
      BY <1>1, <2>1 DEF SessionInv, Content
    <2> HIDE DEF c
    <2> HIDE DEF S
    <2>3. /\ d \in File /\ Live(d) = Live(c) \ S /\ d.dead = c.dead
          /\ d.marker = c.marker /\ Exhausted(d) = {} /\ Promoted(d)
      <3>1. c \in File /\ Promoted(c) /\ Exhausted(c) = S
        BY <2>2 DEF HalfBuried, S
      <3> QED
        BY <3>1, RowsRemoved
    <2> HIDE DEF d
    <2>4. Sound(d) /\ d.marker
      BY <2>2, <2>3 DEF Sound, Whole, HalfBuried, S
    <2> QED
      BY <1>4, <2>1, <2>3, <2>4 DEF Migration
  <1>10. CASE drop_marker(p)
    <2> DEFINE d == [c EXCEPT !.marker = FALSE]
    <2>1. pc[p] = "drop"
      BY <1>10 DEF drop_marker, Statement
    <2>2. Sound(c) /\ c \in File /\ c.marker /\ Promoted(c) /\ Exhausted(c) = {}
      BY <1>1, <2>1, ContentIsSound, Zenon DEF SessionInv
    <2>3. /\ Write(p, d) /\ pc' = [pc EXCEPT ![p] = "release"]
          /\ UNCHANGED <<outcome, faults, schema, rest>>
      BY <1>10, <2>2 DEF drop_marker, Statement, Goto
    <2> HIDE DEF c
    <2>4. /\ d \in File /\ Live(d) = Live(c) /\ d.dead = c.dead /\ ~d.marker
          /\ Exhausted(d) = {} /\ Promoted(d)
      BY <2>2, MarkerDropped
    <2> HIDE DEF d
    <2>5. Sound(d)
      BY <2>2, <2>4 DEF Sound, Whole
    <2> QED
      BY <1>4, <2>3, <2>4, <2>5, Zenon
  <1> QED
    BY <1>5, <1>6, <1>7, <1>8, <1>9, <1>10

(* A process dead-letters a row. *)
LEMMA OperationKeeps ==
  ASSUME BootInv, NEW p \in Procs, delete_row(p) \/ nothing_to_delete(p) \/ insert_dead(p)
  PROVE  BootInv'
  <1> DEFINE c == Content(p)
  <1>1. Types /\ SessionInv(p) /\ pc \in [Procs -> Steps] /\ taken \in [Procs -> Ids \cup {NULL}]
    BY DEF BootInv, Types
  <1>2. {"insert", "release"} \subseteq Steps /\ {"delete", "insert", "release"} \cap Opening = {}
    BY DEF Steps, Opening
  <1>3. CASE delete_row(p)
    <2>1. PICK i \in Live(c) :
            /\ Write(p, [c EXCEPT !.live = Without(c, {i})])
            /\ taken' = [taken EXCEPT ![p] = i]
      BY <1>3, Zenon DEF delete_row
    <2>2. /\ pc[p] = "delete" /\ pc' = [pc EXCEPT ![p] = "insert"]
          /\ UNCHANGED <<outcome, faults, schema, ready, jobs>>
      BY <1>3 DEF delete_row, Goto
    <2>3. Sound(c) /\ c \in File /\ ~c.marker
      BY <2>2, ContentIsSound
    <2>4. InFrame(p) /\ p \in ready
      BY <1>1, <2>2, Zenon DEF SessionInv, InFrame
    <2> DEFINE S == {i}
               d == [c EXCEPT !.live = Without(c, S)]
    <2>5. i \in Ids
      BY <2>1, <2>3, FileTypes
    <2>6. Write(p, d)
      BY <2>1
    <2> HIDE DEF c, S
    <2>7. /\ d \in File /\ Live(d) = Live(c) \ S /\ d.dead = c.dead /\ d.marker = c.marker
          /\ Exhausted(d) = Exhausted(c) \ S /\ (Promoted(c) => Promoted(d))
      BY <2>3, RowsRemoved
    <2> USE DEF S
    <2> HIDE DEF d
    <2>8. HalfMoved(d, i)
      BY <2>1, <2>3, <2>5, <2>7 DEF Sound, Whole, HalfMoved
    <2>9. /\ pc'[p] = "insert" /\ work'[p] = d /\ d # NULL /\ writer' = p /\ InFrame(p)'
          /\ outcome'[p] = "error" => faults' > 0
      BY <2>2, <2>4, <2>6, <2>7, AfterWrite, Zenon
    <2>10. HalfMoved(work[p], taken[p])'
      <3>1. taken'[p] = i
        BY <1>1, <2>1
      <3> QED
        BY <2>2, <2>8, <2>9, <3>1 DEF HalfMoved
    <2>11. SessionInv(p)'
      BY <2>2, <2>4, <2>9, <2>10, Zenon DEF SessionInv, Opening, Migration
    <2> QED
      BY <1>2, <2>1, <2>2, <2>5, <2>6, <2>7, <2>11, WriteKeeps, Zenon
  <1>4. CASE nothing_to_delete(p)
    <2>1. /\ pc[p] = "delete" /\ pc' = [pc EXCEPT ![p] = "release"]
          /\ UNCHANGED <<db, conn, outcome, faults, schema, rest>>
      BY <1>4 DEF nothing_to_delete, Goto
    <2>2. pc'[p] = "release" /\ UNCHANGED <<writer, txn, frame, base, work, ready, jobs, taken>>
      BY <1>1, <2>1 DEF conn, rest
    <2>3. /\ p \in ready /\ InFrame(p) /\ (work[p] # NULL => writer = p)
          /\ (outcome[p] = "error" => faults > 0)
      BY <1>1, <2>1, Zenon DEF SessionInv, InFrame
    <2>4. work[p] # NULL => Sound(work[p]) /\ ~work[p].marker
      BY <2>1, ContentIsSound DEF Content
    <2>5. InFrame(p)' /\ (work'[p] # NULL => Sound(work[p])' /\ ~work'[p].marker)
      BY <2>1, <2>2, <2>3, <2>4 DEF Sound, Whole, InOwn, InCallers, InFrame, Noted
    <2>6. SessionInv(p)'
      BY <2>1, <2>2, <2>3, <2>5, Zenon DEF SessionInv, Opening, Migration
    <2> QED
      BY <1>2, <2>1, <2>6, MoveKeeps, Zenon
  <1>5. CASE insert_dead(p)
    <2> DEFINE i == taken[p]
               d == [c EXCEPT !.dead = @ \cup {i}]
    <2>1. /\ pc[p] = "insert" /\ pc' = [pc EXCEPT ![p] = "release"] /\ Write(p, d)
          /\ UNCHANGED <<outcome, faults, schema, taken, ready, jobs>>
      BY <1>5 DEF insert_dead, Statement, Goto, rest
    <2>2. HalfMoved(c, i) /\ InFrame(p) /\ p \in ready
      BY <1>1, <2>1 DEF SessionInv, Content
    <2> HIDE DEF c, i
    <2>3. c \in File /\ c.dead \cup {i} \in SUBSET Ids
      BY <2>2, FileTypes DEF HalfMoved
    <2>4. /\ d \in File /\ Live(d) = Live(c) /\ d.dead = c.dead \cup {i} /\ d.marker = c.marker
          /\ Exhausted(d) = Exhausted(c) /\ (Promoted(d) <=> Promoted(c))
      BY <2>3, DeadWritten
    <2> HIDE DEF d
    <2>5. Sound(d) /\ ~d.marker
      BY <2>2, <2>4 DEF Sound, Whole, HalfMoved
    <2>6. /\ pc'[p] = "release" /\ work'[p] = d /\ d # NULL /\ writer' = p /\ InFrame(p)'
          /\ outcome'[p] = "error" => faults' > 0
      BY <2>1, <2>2, <2>4, AfterWrite, Zenon
    <2>7. Sound(work[p])'
      BY <2>1, <2>5, <2>6 DEF Sound, Whole
    <2>8. SessionInv(p)'
      BY <2>1, <2>2, <2>5, <2>6, <2>7, Zenon DEF SessionInv, Opening, Migration
    <2>9. taken' = [taken EXCEPT ![p] = taken[p]] /\ taken[p] \in Ids \cup {NULL}
      BY <1>1, <2>1
    <2> QED
      BY <1>2, <2>1, <2>4, <2>8, <2>9, WriteKeeps, Zenon
  <1> QED
    BY <1>3, <1>4, <1>5

----------------------------------------------------------------------------
(* Begin *)

LEMMA BeginKeeps ==
  ASSUME BootInv, NEW p \in Procs,
         not_legacy(p) \/ begin_migration(p) \/ begin_operation(p) \/ begin_immediate(p)
  PROVE  BootInv'
  <1>1. Types /\ SessionInv(p) /\ Sound(db) /\ db \in File /\ (ready # {} => ~db.marker)
    BY DEF BootInv, Sound
  <1>2. /\ {"lock", "ready", "delete"} \subseteq Steps
        /\ "migrate" \in Opening /\ "ready" \notin Opening
    BY DEF Steps, Opening, Migration
  <1>3. pc[p] \in {"migrate", "ready"} /\ pc[p] \notin Opening \ {"migrate"}
    BY <1>2 DEF not_legacy, begin_migration, begin_operation, begin_immediate
  <1>4. CASE not_legacy(p)
    <2>1. /\ pc[p] = "migrate" /\ ~db.marker /\ pc' = [pc EXCEPT ![p] = "ready"]
          /\ UNCHANGED <<db, writer, txn, frame, base, work, outcome, faults, schema, taken, jobs>>
          /\ tables' = tables /\ columns' = columns
          /\ ready' = ready \cup {p}
      BY <1>4 DEF not_legacy, Goto, conn, schema
    <2>2. Idle(p) /\ (outcome[p] = "error" => faults > 0)
      BY <1>1, <1>2, <2>1, Zenon DEF SessionInv
    <2>3. pc'[p] = "ready" /\ Local(p)
      BY <1>1, <2>1 DEF Local, Types
    <2>4. Typed(p)'
      BY <1>1, <1>2, <2>1, <2>3, Zenon DEF Typed, Types
    <2>5. Sound(db)' /\ ~db'.marker
      BY <1>1, <2>1 DEF Sound, Whole
    <2>6. SessionInv(p)'
      BY <2>1, <2>2, <2>3, Zenon DEF SessionInv, Idle, Opening, Migration
    <2> QED
      BY <1>3, <2>1, <2>3, <2>4, <2>5, <2>6, WorkStep
  <1>5. ASSUME NEW next \in {"lock", "delete"}, savepoint(p, next), UNCHANGED <<schema, rest>>,
               \/ next = "lock" /\ pc[p] = "migrate"
               \/ next = "delete" /\ pc[p] = "ready"
        PROVE  BootInv'
    <2>1. /\ txn' = [txn EXCEPT ![p] = IF txn[p] = "none" THEN "own" ELSE txn[p]]
          /\ frame' = [frame EXCEPT ![p] = TRUE]
          /\ base' = [base EXCEPT ![p] = work[p]]
          /\ pc' = [pc EXCEPT ![p] = next]
          /\ UNCHANGED <<db, writer, work, outcome, faults, taken, ready, jobs, tables, columns>>
      BY <1>5 DEF savepoint, Goto, schema, rest
    <2>2. /\ txn'[p] = IF txn[p] = "none" THEN "own" ELSE txn[p]
          /\ frame'[p] = TRUE /\ base'[p] = work[p] /\ pc'[p] = next
      BY <1>1, <2>1 DEF Types
    <2>3. Local(p)
      BY <1>1, <2>1, <2>2 DEF Local, Types
    <2>4. Typed(p)'
      BY <1>1, <1>2, <2>1, <2>2, Zenon DEF Typed, Types
    <2>5. Sound(db)' /\ (ready' # {} => ~db'.marker)
      BY <1>1, <2>1, Zenon DEF Sound, Whole
    <2>6. CASE next = "lock" /\ pc[p] = "migrate"
      <3>1. Idle(p) /\ p \notin ready /\ (outcome[p] = "error" => faults > 0)
        BY <1>1, <1>2, <2>6, Zenon DEF SessionInv
      <3>2. InOwn(p)' /\ work'[p] = NULL
        BY <2>1, <2>2, <3>1 DEF InOwn, Idle
      <3>3. SessionInv(p)'
        BY <2>1, <2>2, <2>6, <3>1, <3>2, Zenon DEF SessionInv, Opening, Migration
      <3> QED
        BY <1>3, <1>5, <2>3, <2>4, <2>5, <3>3, WorkStep
    <2>7. CASE next = "delete" /\ pc[p] = "ready"
      <3>1. /\ Idle(p) \/ (Outside(p) /\ work[p] = Noted(p))
            /\ p \in ready /\ (outcome[p] = "error" => faults > 0)
            /\ work[p] # NULL => writer = p
        BY <1>1, <2>7, Zenon DEF SessionInv
      <3>2. \/ InOwn(p)' /\ work'[p] = NULL
            \/ InCallers(p)' /\ work'[p] = Noted(p)'
        BY <2>1, <2>2, <3>1 DEF InOwn, InCallers, Idle, Outside, Noted
      <3>3. SessionInv(p)'
        BY <2>1, <2>2, <2>7, <3>1, <3>2, Zenon DEF SessionInv, Opening, Migration
      <3> QED
        BY <1>3, <1>5, <2>3, <2>4, <2>5, <3>3, WorkStep
    <2> QED
      BY <1>5, <2>6, <2>7
  <1>6. CASE begin_migration(p) \/ begin_operation(p)
    BY <1>5, <1>6 DEF begin_migration, begin_operation
  <1>7. CASE begin_immediate(p)
    <2>1. /\ pc[p] = "ready" /\ txn[p] = "none" /\ writer = NULL
          /\ txn' = [txn EXCEPT ![p] = "caller"] /\ writer' = p
          /\ work' = [work EXCEPT ![p] = Noted(p)]
          /\ UNCHANGED <<db, frame, base, pc, outcome, faults, schema, rest>>
          /\ UNCHANGED <<tables, columns, taken, ready, jobs>>
      BY <1>7 DEF begin_immediate, Noted, schema, rest
    <2>2. Noted(p) \in File /\ Noted(p) # NULL
      BY <1>1, NoteWritten, BootstrapAssumption DEF Noted
    <2>3. txn'[p] = "caller" /\ work'[p] = Noted(p) /\ Noted(p)' = Noted(p)
      BY <1>1, <2>1 DEF Types, Noted
    <2>4. Idle(p) /\ p \in ready /\ (outcome[p] = "error" => faults > 0)
      BY <1>1, <2>1, Zenon DEF SessionInv, Outside
    <2>5. Local(p)
      BY <1>1, <2>1, <2>3, BootstrapAssumption DEF Local, Types
    <2>6. Typed(p)'
      BY <1>1, <1>2, <2>1, <2>2, <2>3, Zenon DEF Typed, Types
    <2>7. Sound(db)' /\ (ready' # {} => ~db'.marker)
      BY <1>1, <2>1, Zenon DEF Sound, Whole
    <2>8. Outside(p)'
      BY <2>1, <2>2, <2>3, <2>4 DEF Outside, Idle
    <2>9. SessionInv(p)'
      BY <2>1, <2>3, <2>4, <2>8, Zenon DEF SessionInv, Opening, Migration
    <2> QED
      BY <1>3, <2>1, <2>5, <2>6, <2>7, <2>9, WorkStep
  <1> QED
    BY <1>4, <1>6, <1>7

----------------------------------------------------------------------------
(* End *)

LEMMA AfterTxnEnds ==
  ASSUME BootInv, NEW p \in Procs, TxnEnds(p)
  PROVE  /\ Idle(p)' /\ frame'[p] \in BOOLEAN
         /\ txn' = [txn EXCEPT ![p] = txn'[p]] /\ frame' = [frame EXCEPT ![p] = frame'[p]]
         /\ base' = [base EXCEPT ![p] = base'[p]] /\ work' = [work EXCEPT ![p] = work'[p]]
         /\ \A q \in Procs \ {p} : writer = q => writer' = q
  BY DEF BootInv, Types, TxnEnds, Idle

(* The transaction of p is over, and nothing is committed. *)
LEMMA EndKeeps ==
  ASSUME BootInv, NEW p \in Procs, pc[p] \notin Opening, TxnEnds(p),
         NEW next \in {"undo", "failed", "returned", "done", "wal"}, pc' = [pc EXCEPT ![p] = next],
         NEW result \in {"ok", "error", "unknown", "panicked"}, outcome' = [outcome EXCEPT ![p] = result],
         UNCHANGED <<db, schema, rest>>, faults' \in {faults, faults + 1},
         next = "undo" \/ result = "error" => faults' > 0,
         next \in {"returned", "done"} => p \in ready,
         next \in {"failed", "wal"} => p \notin ready
  PROVE  BootInv'
  <1>1. /\ Types /\ Sound(db) /\ (ready # {} => ~db.marker)
        /\ UNCHANGED <<taken, ready, jobs, tables, columns>>
    BY DEF BootInv, rest, schema
  <1>2. /\ pc'[p] = next /\ pc' = [pc EXCEPT ![p] = pc'[p]]
        /\ outcome'[p] = result /\ outcome' = [outcome EXCEPT ![p] = outcome'[p]]
        /\ next \in Steps
    BY <1>1, Zenon DEF Types, Steps, Opening
  <1>3. Idle(p)' /\ frame'[p] \in BOOLEAN
    BY AfterTxnEnds
  <1>4. Local(p)
    <2>1. /\ txn' = [txn EXCEPT ![p] = txn'[p]] /\ frame' = [frame EXCEPT ![p] = frame'[p]]
          /\ base' = [base EXCEPT ![p] = base'[p]] /\ work' = [work EXCEPT ![p] = work'[p]]
          /\ \A q \in Procs \ {p} : writer = q => writer' = q
      BY AfterTxnEnds, Zenon
    <2>2. taken' = [taken EXCEPT ![p] = taken'[p]]
      BY <1>1 DEF Types
    <2>3. db' = db /\ jobs' = jobs /\ columns \subseteq columns' /\ tables' = tables /\ ready' = ready
      BY <1>1
    <2> QED
      BY <1>2, <2>1, <2>2, <2>3, Zenon DEF Local
  <1>5. Typed(p)'
    BY <1>1, <1>2, <1>3 DEF Typed, Types, Idle
  <1>6. Sound(db)' /\ (ready' # {} => ~db'.marker)
    BY <1>1 DEF Sound, Whole
  <1>7. SessionInv(p)'
    BY <1>1, <1>2, <1>3, Zenon DEF SessionInv, Idle, Opening, Migration
  <1> QED
    BY <1>4, <1>5, <1>6, <1>7, WorkStep

(* The transaction of p is committed. *)
LEMMA CommitKeeps ==
  ASSUME BootInv, NEW p \in Procs, pc[p] \notin Opening, TxnEnds(p),
         NEW next \in {"ready", "returned", "done"}, pc' = [pc EXCEPT ![p] = next],
         NEW result \in {"ok", "error", "unknown", "panicked"}, outcome' = [outcome EXCEPT ![p] = result],
         UNCHANGED <<faults, schema, taken, jobs>>, ready' \in {ready, ready \cup {p}}, p \in ready',
         db' = Content(p), Sound(Content(p)), ~Content(p).marker,
         result = "error" => outcome[p] = "error"
  PROVE  BootInv'
  <1>1. Types /\ SessionInv(p) /\ UNCHANGED <<tables, columns>>
    BY DEF BootInv, schema
  <1>2. /\ pc'[p] = next /\ pc' = [pc EXCEPT ![p] = pc'[p]]
        /\ outcome'[p] = result /\ outcome' = [outcome EXCEPT ![p] = outcome'[p]]
        /\ next \in Steps
    BY <1>1 DEF Types, Steps
  <1>3. Idle(p)' /\ frame'[p] \in BOOLEAN
    BY AfterTxnEnds
  <1>4. db' = db \/ writer = p
    BY <1>1, Zenon DEF SessionInv, Content
  <1>5. Local(p)
    BY <1>1, <1>2, <1>4, AfterTxnEnds DEF Local, Types
  <1>6. Typed(p)'
    BY <1>1, <1>2, <1>3, Zenon DEF Typed, Types, Idle
  <1>7. Sound(db)' /\ ~db'.marker
    BY DEF Sound, Whole
  <1>8. SessionInv(p)'
    BY <1>1, <1>2, <1>3, Zenon DEF SessionInv, Idle, Opening, Migration
  <1> QED
    BY <1>5, <1>6, <1>7, <1>8, WorkStep

LEMMA CallerEndsKeeps ==
  ASSUME BootInv, NEW p \in Procs, commit(p) \/ finish(p) \/ reopen(p)
  PROVE  BootInv'
  <1>1. Types /\ SessionInv(p) /\ pc[p] \in {"returned", "failed"} /\ pc[p] \notin Opening
    BY Zenon DEF BootInv, commit, finish, reopen, Opening
  <1>2. /\ outcome[p] \in {"ok", "error", "unknown", "panicked"}
        /\ outcome' = [outcome EXCEPT ![p] = outcome[p]] /\ faults \in Nat
        /\ TxnEnds(p) /\ UNCHANGED <<outcome, faults, schema, rest>>
    BY <1>1, Zenon DEF Types, commit, finish, reopen
  <1>3. (outcome[p] = "error" => faults' > 0) /\ UNCHANGED <<taken, ready, jobs>>
    BY <1>1, <1>2 DEF SessionInv, rest
  <1>4. CASE commit(p)
    <2>1. /\ pc[p] = "returned" /\ txn[p] = "caller" /\ outcome[p] \notin Unclear
          /\ db' = work[p] /\ pc' = [pc EXCEPT ![p] = "done"]
      BY <1>4 DEF commit, Goto
    <2>2. p \in ready /\ work[p] # NULL /\ Sound(work[p]) /\ ~work[p].marker
      BY <1>1, <2>1, Zenon DEF SessionInv, Idle, Outside
    <2>3. Content(p) = work[p]
      BY <2>2 DEF Content
    <2> QED
      BY <1>1, <1>2, <1>3, <2>1, <2>2, <2>3, CommitKeeps, Zenon
  <1>5. CASE finish(p)
    <2>1. pc[p] = "returned" /\ db' = db /\ pc' = [pc EXCEPT ![p] = "done"]
      BY <1>5, Zenon DEF finish, Goto
    <2>2. p \in ready
      BY <1>1, <2>1, Zenon DEF SessionInv
    <2> QED
      BY <1>1, <1>2, <1>3, <2>1, <2>2, EndKeeps, Zenon
  <1>6. CASE reopen(p)
    <2>1. pc[p] = "failed" /\ db' = db /\ pc' = [pc EXCEPT ![p] = "wal"]
      BY <1>6 DEF reopen, Goto
    <2>2. p \notin ready
      BY <1>1, <2>1, Zenon DEF SessionInv
    <2> QED
      BY <1>1, <1>2, <1>3, <2>1, <2>2, EndKeeps, Zenon
  <1> QED
    BY <1>4, <1>5, <1>6

(* RELEASE *)
LEMMA ReleasedKeeps ==
  ASSUME BootInv, NEW p \in Procs, released(p)
  PROVE  BootInv'
  <1>1. Types /\ SessionInv(p) /\ Sound(db) /\ (ready # {} => ~db.marker)
    BY DEF BootInv
  <1>2. /\ pc[p] = "release" /\ pc[p] \notin Opening /\ ready' = ready \cup {p}
        /\ UNCHANGED <<faults, schema, taken, jobs>>
        /\ outcome' = [outcome EXCEPT ![p] = "ok"]
        /\ pc' = [pc EXCEPT ![p] = Finished(p)]
    BY DEF released, release, Returns, Goto, Opening
  <1>3. /\ InFrame(p) /\ (work[p] # NULL => Sound(work[p]) /\ ~work[p].marker /\ writer = p)
        /\ p \notin ready => InOwn(p) /\ work[p] # NULL
    BY <1>1, <1>2, Zenon DEF SessionInv
  <1>4. CASE txn[p] = "own"
    <2>1. db' = Content(p) /\ TxnEnds(p)
      BY <1>4, Zenon DEF released, release
    <2>2. Sound(Content(p)) /\ ~Content(p).marker
      BY <1>1, <1>3 DEF Content
    <2>3. Finished(p) \in {"ready", "returned", "done"}
      BY DEF Finished
    <2> QED
      BY <1>2, <2>1, <2>2, <2>3, CommitKeeps, Zenon
  <1>5. CASE txn[p] # "own"
    <2>1. /\ frame' = [frame EXCEPT ![p] = FALSE] /\ base' = [base EXCEPT ![p] = NULL]
          /\ UNCHANGED <<db, txn, work, writer>>
      BY <1>5 DEF released, release
    <2>2. p \in ready /\ InCallers(p) /\ Finished(p) = "returned" /\ "returned" \in Steps
      BY <1>3, <1>5 DEF InFrame, InOwn, Finished, Steps
    <2>3. /\ pc'[p] = "returned" /\ outcome'[p] = "ok" /\ ~frame'[p] /\ base'[p] = NULL
          /\ ready' = ready /\ UNCHANGED <<tables, columns>>
      BY <1>1, <1>2, <2>1, <2>2 DEF Types, schema
    <2>4. Local(p)
      BY <1>1, <1>2, <2>1, <2>3 DEF Local, Types
    <2>5. Typed(p)'
      BY <1>1, <1>2, <2>1, <2>2, <2>3 DEF Typed, Types
    <2>6. Outside(p)' /\ Sound(work[p])' /\ ~work'[p].marker /\ (work'[p] # NULL => writer' = p)
      <3>1. Outside(p)'
        BY <2>1, <2>2, <2>3, Zenon DEF Outside, InCallers
      <3>2. Sound(work[p])'
        BY <1>2, <1>3, <2>1, <2>2, Zenon DEF Sound, Whole, InCallers
      <3> QED
        BY <1>3, <2>1, <2>2, <3>1, <3>2, Zenon DEF InCallers
    <2>7. SessionInv(p)'
      BY <2>2, <2>3, <2>6, Zenon DEF SessionInv, Opening, Migration
    <2>8. Sound(db)' /\ (ready' # {} => ~db'.marker)
      BY <1>1, <1>2, <2>1, <2>3, Zenon DEF Sound, Whole
    <2> QED
      BY <1>2, <2>4, <2>5, <2>7, <2>8, WorkStep
  <1> QED
    BY <1>4, <1>5

----------------------------------------------------------------------------
(* Failures *)

LEMMA FailsKeeps ==
  ASSUME BootInv, NEW p \in Procs, BodyFails(p) \/ Refused(p)
  PROVE  BootInv'
  <1>1. Types /\ SessionInv(p) /\ faults \in Nat /\ outcome[p] \in {"ok", "error", "unknown", "panicked"}
    BY DEF BootInv, Types
  <1>2. faults' = faults + 1 /\ faults' > 0
    <2>1. faults' = faults + 1
      BY Zenon DEF BodyFails, Refused, body_fails, body_aborts, savepoint_refused, Fault
    <2> QED
      BY <1>1, <2>1
  <1>3. CASE BodyFails(p)
    <2>1. /\ pc[p] \in {"lock", "recheck", "promote", "bury", "purge", "drop", "delete", "insert",
                        "release"}
          /\ pc' = [pc EXCEPT ![p] = "undo"] /\ UNCHANGED <<db, outcome, schema, rest>>
      BY <1>3 DEF BodyFails, body_fails, body_aborts, Goto
    <2>2. /\ pc[p] \notin Opening /\ "undo" \in Steps
          /\ outcome' = [outcome EXCEPT ![p] = outcome[p]]
      BY <1>1, <2>1, Zenon DEF Opening, Steps, Types
    <2>3. CASE TxnEnds(p)
      BY <1>1, <1>2, <2>1, <2>2, <2>3, EndKeeps, Zenon
    <2>4. CASE UNCHANGED conn
      <3>1. InOwn(p) \/ (InCallers(p) /\ p \in ready)
        BY <1>1, <2>1, Zenon DEF SessionInv, Migration, InFrame
      <3>2. /\ UNCHANGED <<writer, txn, frame, base, work, ready>> /\ pc'[p] = "undo"
            /\ (work[p] # NULL => writer = p)
        BY <1>1, <2>1, <2>4 DEF conn, rest, Types, SessionInv
      <3>3. InOwn(p)' \/ (InCallers(p)' /\ p \in ready')
        BY <2>1, <3>1, <3>2 DEF InOwn, InCallers, Noted
      <3>4. SessionInv(p)'
        BY <1>2, <3>2, <3>3, Zenon DEF SessionInv, Opening, Migration
      <3> QED
        BY <1>2, <2>1, <2>2, <2>4, <3>4, MoveKeeps, Zenon
    <2> QED
      BY <1>3, <2>3, <2>4 DEF BodyFails, body_fails, body_aborts
  <1>4. CASE Refused(p)
    <2>1. /\ pc[p] \in {"ready", "migrate"} /\ pc' = [pc EXCEPT ![p] = Failed(p)]
          /\ outcome' = [outcome EXCEPT ![p] = "error"]
          /\ UNCHANGED <<db, conn, schema, rest>>
      BY <1>4 DEF Refused, savepoint_refused, Returns, Goto
    <2>2. /\ pc[p] \notin Opening \ {"migrate"} /\ Failed(p) \in Steps
          /\ UNCHANGED <<writer, txn, frame, base, work, ready, jobs>>
          /\ pc'[p] = Failed(p) /\ outcome'[p] = "error"
      BY <1>1, <2>1, Zenon DEF Opening, Steps, Failed, conn, rest, Types
    <2>3. (work[p] # NULL => writer = p)
      BY <1>1, Zenon DEF SessionInv
    <2>4. CASE pc[p] = "ready"
      <3>1. p \in ready /\ (Idle(p) \/ (Outside(p) /\ work[p] = Noted(p)))
        BY <1>1, <2>4, Zenon DEF SessionInv
      <3>2. Sound(Noted(p)) /\ ~Noted(p).marker
        <4>1. Sound(db) /\ ~db.marker /\ db \in File
          BY <3>1 DEF BootInv, Sound
        <4> QED
          BY <4>1, NoteWritten DEF Noted, Sound, Whole
      <3>3. \/ Idle(p)'
            \/ Outside(p)' /\ Sound(work[p])' /\ ~work'[p].marker /\ work'[p] = Noted(p)'
        BY <2>1, <2>2, <3>1, <3>2, Zenon DEF Idle, Outside, Noted, Sound, Whole
      <3>4. SessionInv(p)'
        BY <1>2, <2>2, <2>3, <3>1, <3>3, Zenon DEF SessionInv, Opening, Migration, Failed
      <3> QED
        BY <1>2, <2>1, <2>2, <3>4, ReturnKeeps, Zenon
    <2>5. CASE pc[p] = "migrate"
      <3>1. p \notin ready /\ Idle(p)
        BY <1>1, <2>5, Zenon DEF SessionInv, Opening
      <3>2. Idle(p)'
        BY <2>2, <3>1 DEF Idle
      <3>3. SessionInv(p)'
        BY <1>2, <2>2, <2>3, <3>1, <3>2, Zenon DEF SessionInv, Opening, Migration, Failed
      <3> QED
        BY <1>2, <2>1, <2>2, <3>3, ReturnKeeps, Zenon
    <2> QED
      BY <2>1, <2>4, <2>5
  <1> QED
    BY <1>3, <1>4

(* undo_savepoint_frame and what follows it *)
LEMMA UndoKeeps ==
  ASSUME BootInv, NEW p \in Procs, Undoes(p)
  PROVE  BootInv'
  <1> DEFINE next == Failed(p)
  <1>1. /\ Types /\ SessionInv(p) /\ faults \in Nat /\ outcome[p] \in {"ok", "error", "unknown", "panicked"}
        /\ UNCHANGED <<schema, rest>> /\ UNCHANGED <<taken, ready, jobs, tables, columns>>
    BY DEF BootInv, Types, Undoes, schema, rest
  <1>2. pc[p] \in {"undo", "rollback"}
    BY DEF Undoes, Undo, undo_nothing, rollback_to, rollback_to_fails, rollback, rollback_fails
  <1>3. /\ faults > 0 /\ pc[p] \notin Opening /\ pc[p] \notin Opening \ {"migrate"}
        /\ (work[p] # NULL => writer = p)
        /\ pc[p] = "undo" => Idle(p) \/ InOwn(p) \/ (InCallers(p) /\ p \in ready)
        /\ pc[p] = "rollback" => InOwn(p)
    BY <1>1, <1>2, Zenon DEF SessionInv, Opening
  <1>4. /\ next \in {"returned", "failed"} /\ next \in Steps /\ "rollback" \in Steps
        /\ (next = "returned" <=> p \in ready)
    BY DEF Failed, Steps
  <1>5. CASE undo_nothing(p, next) \/ rollback_fails(p, next)
    <2>1. PICK result \in {"error"} \cup Unclear :
            /\ outcome' = [outcome EXCEPT ![p] = result]
            /\ pc' = [pc EXCEPT ![p] = next] /\ UNCHANGED <<db, conn>>
            /\ faults' \in {faults, faults + 1}
            /\ result = "error" => pc[p] = "undo" /\ txn[p] = "none"
      BY <1>5 DEF undo_nothing, rollback_fails, Returns, Goto, Fault, Unclear
    <2>11. result \in {"ok", "error", "unknown", "panicked"} /\ (result # "error" => result \in Unclear)
      BY Zenon DEF Unclear
    <2>2. /\ pc'[p] = next /\ outcome'[p] = result /\ faults' > 0
          /\ UNCHANGED <<writer, txn, frame, base, work>>
      <3>1. pc'[p] = next /\ outcome'[p] = result
        BY <1>1, <2>1, Zenon DEF Types
      <3>2. faults \in Nat /\ faults > 0
        BY <1>1, <1>3 DEF Types
      <3> QED
        BY <2>1, <3>1, <3>2 DEF conn
    <2>3. result = "error" => Idle(p)
      BY <1>3, <2>1, Zenon DEF InOwn, InCallers
    <2>4. result = "error" => Idle(p)'
      BY <2>2, <2>3 DEF Idle
    <2>5. SessionInv(p)'
      BY <1>1, <1>3, <1>4, <2>1, <2>11, <2>2, <2>4, Zenon DEF SessionInv, Opening, Migration
    <2> QED
      BY <1>1, <1>3, <1>4, <2>1, <2>11, <2>5, ReturnKeeps, Zenon
  <1>6. CASE rollback(p, next) \/ (rollback_to(p, next) /\ txn[p] = "own")
    <2>1. /\ TxnEnds(p) /\ outcome' = [outcome EXCEPT ![p] = "error"]
          /\ pc' = [pc EXCEPT ![p] = next] /\ UNCHANGED <<db, faults>>
      BY <1>6, Zenon DEF rollback, rollback_to, Returns, Goto
    <2> QED
      BY <1>1, <1>3, <1>4, <2>1, EndKeeps, Zenon
  <1>7. CASE rollback_to(p, next) /\ txn[p] # "own"
    <2>1. /\ pc[p] = "undo" /\ txn[p] # "none"
          /\ work' = [work EXCEPT ![p] = base[p]] /\ frame' = [frame EXCEPT ![p] = FALSE]
          /\ base' = [base EXCEPT ![p] = NULL]
          /\ outcome' = [outcome EXCEPT ![p] = "error"] /\ pc' = [pc EXCEPT ![p] = next]
          /\ UNCHANGED <<db, txn, writer, faults>>
      BY <1>7 DEF rollback_to, Returns, Goto
    <2>2. InCallers(p) /\ p \in ready
      BY <1>3, <1>7, <2>1, Zenon DEF Idle, InOwn
    <2>3. /\ Sound(db) /\ ~db.marker /\ db \in File
      BY <2>2 DEF BootInv, Sound
    <2>4. Noted(p) \in File /\ Noted(p) # NULL /\ Sound(Noted(p)) /\ ~Noted(p).marker
      BY <2>3, NoteWritten, BootstrapAssumption DEF Noted, Sound, Whole
    <2>5. /\ work'[p] = Noted(p) /\ frame'[p] = FALSE /\ base'[p] = NULL
          /\ outcome'[p] = "error" /\ pc'[p] = next /\ Noted(p)' = Noted(p)
      BY <1>1, <2>1, <2>2 DEF Types, InCallers, Noted
    <2>6. Local(p)
      BY <1>1, <2>1, <2>5 DEF Local, Types
    <2>7. Typed(p)'
      BY <1>1, <1>4, <2>1, <2>4, <2>5 DEF Typed, Types
    <2>8. Outside(p)' /\ Sound(work[p])' /\ ~work'[p].marker
      BY <1>1, <2>1, <2>2, <2>4, <2>5, Zenon DEF Outside, InCallers, Sound, Whole
    <2>9. writer' = p
      BY <1>3, <2>1, <2>2, Zenon DEF InCallers
    <2>10. SessionInv(p)'
      BY <1>1, <1>3, <1>4, <2>1, <2>2, <2>5, <2>8, <2>9, Zenon DEF SessionInv, Opening, Migration
    <2>11. Sound(db)' /\ (ready' # {} => ~db'.marker)
      BY <1>1, <2>1, <2>3, Zenon DEF Sound, Whole
    <2> QED
      BY <1>1, <1>3, <2>6, <2>7, <2>10, <2>11, WorkStep
  <1>8. CASE rollback_to_fails(p, next)
    <2>1. PICK w \in {work[p], base[p]} : work' = [work EXCEPT ![p] = w]
      BY <1>8, Zenon DEF rollback_to_fails
    <2>2. /\ pc[p] = "undo" /\ txn[p] # "none" /\ faults' = faults + 1
          /\ UNCHANGED <<db, writer, txn, frame, base>>
          /\ \/ /\ txn[p] = "own" /\ pc' = [pc EXCEPT ![p] = "rollback"] /\ outcome' = outcome
             \/ /\ txn[p] # "own" /\ pc' = [pc EXCEPT ![p] = next]
                /\ \E u \in Unclear : outcome' = [outcome EXCEPT ![p] = u]
      BY <1>8, Zenon DEF rollback_to_fails, Fault, Goto, Returns
    <2>3. /\ Sound(db) /\ (ready # {} => ~db.marker)
      BY Zenon DEF BootInv
    <2>4. InOwn(p) \/ (InCallers(p) /\ p \in ready)
      BY <1>3, <2>2, Zenon DEF Idle
    <2>5. w \in File \cup {NULL} /\ work'[p] = w /\ faults' > 0
          /\ (w # NULL => writer = p)
      <3>1. w \in File \cup {NULL} /\ work'[p] = w /\ faults' > 0
        <4>1. w \in File \cup {NULL} /\ work'[p] = w
          BY <1>1, <2>1, Zenon DEF Types
        <4>2. faults \in Nat
          BY <1>1, Zenon DEF Types
        <4>3. faults' = faults + 1
          BY <2>2, Zenon
        <4>4. faults' > 0
          BY <4>2, <4>3
        <4> QED
          BY <4>1, <4>4, Zenon
      <3>2. base[p] # NULL => work[p] # NULL
        BY <2>4 DEF InOwn, InCallers
      <3> QED
        BY <1>3, <2>1, <3>1, <3>2
    <2>6. \/ txn[p] = "own" /\ pc'[p] = "rollback" /\ outcome'[p] = outcome[p]
          \/ txn[p] # "own" /\ pc'[p] = next /\ outcome'[p] \in Unclear
      BY <1>1, <2>2 DEF Types
    <2>7. Local(p)
      BY <1>1, <2>1, <2>2, <2>5, Zenon DEF Local, Types
    <2>8. Typed(p)'
      BY <1>1, <1>4, <2>2, <2>5, <2>6 DEF Typed, Types, Unclear
    <2>9. Sound(db)' /\ (ready' # {} => ~db'.marker)
      BY <1>1, <2>2, <2>3, Zenon DEF Sound, Whole
    <2>10. SessionInv(p)'
      <3>1. CASE txn[p] = "own" /\ pc'[p] = "rollback" /\ outcome'[p] = outcome[p]
        <4>1. InOwn(p)'
          BY <2>2, <2>4, <3>1, Zenon DEF InOwn, InCallers
        <4> QED
          BY <2>2, <2>5, <3>1, <4>1, Zenon DEF SessionInv, Opening, Migration
      <3>2. CASE txn[p] # "own" /\ pc'[p] = next /\ outcome'[p] \in Unclear
        <4>1. p \in ready' /\ next = "returned"
          BY <1>1, <1>4, <2>4, <3>2, Zenon DEF InOwn
        <4> QED
          BY <2>2, <2>5, <3>2, <4>1, Zenon DEF SessionInv, Opening, Migration, Unclear
      <3> QED
        BY <2>6, <3>1, <3>2
    <2> QED
      BY <1>1, <1>3, <2>7, <2>8, <2>9, <2>10, WorkStep, Zenon
  <1> QED
    BY <1>5, <1>6, <1>7, <1>8 DEF Undoes, Undo

----------------------------------------------------------------------------
LEMMA BootInitially == Init => BootInv
  <1> SUFFICES ASSUME Init PROVE BootInv
    OBVIOUS
  <1>1. Types
    <2>1. jobs \subseteq Ids
      <3>1. jobs = DOMAIN db.live
        BY Zenon DEF Init
      <3>2. CASE db = [live |-> [i \in {} |-> NULL], dead |-> {}, marker |-> FALSE, notes |-> {}]
        <4>1. db.live = [i \in {} |-> NULL]
          BY <3>2
        <4> QED
          BY <3>1, <4>1
      <3>3. ASSUME NEW rows \in [Ids -> LegacyRows],
                   db = [live |-> rows, dead |-> {}, marker |-> TRUE, notes |-> {}]
            PROVE  jobs \subseteq Ids
        <4>1. db.live = rows /\ DOMAIN rows = Ids
          BY <3>3, Zenon
        <4> QED
          BY <3>1, <4>1
      <3> QED
        BY <3>2, <3>3, Zenon DEF Init
    <2>2. columns \in SUBSET Columns
      BY DEF Init, Columns
    <2>3. "wal" \in Steps
      BY Zenon DEF Steps, Opening
    <2> QED
      BY <2>1, <2>2, <2>3 DEF Init, SavepointInit, Types
  <1>2. Sound(db)
    <2>1. CASE db = [live |-> [i \in {} |-> NULL], dead |-> {}, marker |-> FALSE, notes |-> {}]
      <3>1. db.live \in [{} -> JobRow] /\ {} \in SUBSET Ids
        BY <2>1
      <3>2. db \in File
        BY <2>1, <3>1, Zenon DEF File
      <3>3. Live(db) = {} /\ db.dead = {} /\ jobs = {}
        BY <2>1, Zenon DEF Init, Live
      <3> QED
        BY <3>2, <3>3 DEF Sound, Whole, Promoted, Exhausted
    <2>2. ASSUME NEW rows \in [Ids -> LegacyRows],
                 db = [live |-> rows, dead |-> {}, marker |-> TRUE, notes |-> {}]
          PROVE  Sound(db)
      <3>1. rows \in [Ids -> JobRow]
        <4>1. /\ Row("pending", TRUE, FALSE) \in JobRow /\ Row("pending", FALSE, TRUE) \in JobRow
              /\ Row("processing", FALSE, TRUE) \in JobRow
          BY DEF Row, JobRow
        <4>2. LegacyRows \subseteq JobRow
          BY <4>1, Zenon DEF LegacyRows
        <4> QED
          BY <4>2
      <3>2. db \in File
        BY <2>2, <3>1 DEF File
      <3>3. Live(db) = Ids /\ db.dead = {} /\ db.marker /\ jobs = Ids
        BY <2>2, Zenon DEF Init, Live
      <3> QED
        BY <3>2, <3>3 DEF Sound, Whole
    <2> QED
      BY <2>1, <2>2 DEF Init
  <1>3. ready = {}
    BY DEF Init
  <1>4. ASSUME NEW p \in Procs
        PROVE  SessionInv(p) /\ SchemaInv(p)
    <2>1. /\ pc[p] = "wal" /\ Idle(p) /\ outcome[p] = "ok"
      BY Zenon DEF Init, SavepointInit, Idle
    <2> QED
      BY <1>3, <2>1, Zenon DEF SessionInv, SchemaInv, Idle, Opening, Migration
  <1> QED
    BY <1>1, <1>2, <1>3, <1>4 DEF BootInv

LEMMA BootStep == BootInv /\ [Next]_vars => BootInv'
  <1> SUFFICES ASSUME BootInv, [Next]_vars PROVE BootInv'
    OBVIOUS
  <1>1. CASE UNCHANGED vars
    <2>1. /\ UNCHANGED <<db, writer, txn, frame, base, work, pc, outcome, faults>>
          /\ UNCHANGED <<tables, columns, taken, ready, jobs>>
      BY <1>1 DEF vars, svars, conn, schema
    <2>2. Types' /\ Sound(db)' /\ (ready' # {} => ~db'.marker)
      BY <2>1, Zenon DEF BootInv, Types, Sound, Whole
    <2>3. faults' \in Nat /\ faults' >= faults
      <3>1. faults \in Nat
        BY DEF BootInv, Types
      <3> QED
        BY <2>1, <3>1
    <2>4. \A p \in Procs : SessionInv(p)' /\ SchemaInv(p)'
      BY <2>1, <2>3, OthersKeep
    <2> QED
      BY <2>2, <2>4 DEF BootInv
  <1>2. ASSUME NEW p \in Procs,
               Run(p) \/ begin_immediate(p) \/ open_fails(p) \/ Refused(p) \/ BodyFails(p)
        PROVE  BootInv'
    BY <1>2, OpenStepKeeps, MigrationKeeps, OperationKeeps, BeginKeeps, CallerEndsKeeps,
         ReleasedKeeps, FailsKeeps, UndoKeeps DEF Run
  <1> QED
    BY <1>1, <1>2 DEF Next

LEMMA BootInvariant == Spec => []BootInv
  BY BootInitially, BootStep, PTL DEF Spec

(* What the file has committed holds every job of the older file once, in  *)
(* _honker_live or in _honker_dead, whichever migrations and dead-letters  *)
(* fail, are cut short or run beside each other (in_savepoint,             *)
(* migrate_claim_v2).                                                      *)
THEOREM JobsSurviveBootstrap == Spec => []NoJobLost
  <1>1. BootInv => NoJobLost
    BY DEF BootInv, Sound, Whole, NoJobLost
  <1> QED
    BY <1>1, BootInvariant, PTL

(* Once bootstrap has returned to anybody the tables and columns are there *)
(* and the migration is complete, and it stays so while others bootstrap   *)
(* (bootstrap_honker_schema, migrate_claim_v2).                            *)
THEOREM BootstrapIsComplete == Spec => []ReadyMeansMigrated
  <1>1. BootInv => ReadyMeansMigrated
    <2> SUFFICES ASSUME BootInv, NEW p \in ready
                 PROVE  /\ tables = Tables /\ columns = Columns
                        /\ ~db.marker
                        /\ Exhausted(db) = {}
                        /\ \A i \in Live(db) : ~(db.live[i].state = "pending" /\ db.live[i].future)
      BY DEF ReadyMeansMigrated
    <2>1. p \in Procs /\ columns \subseteq Columns /\ SessionInv(p) /\ SchemaInv(p)
      BY DEF BootInv, Types
    <2>2. pc[p] \notin Opening
      BY <2>1, Zenon DEF SessionInv
    <2>3. tables = Tables /\ {"enabled", "max_attempts", "claimed_at"} \subseteq columns
      BY <2>1, <2>2, Zenon DEF SchemaInv, Opening
    <2>4. ~db.marker /\ Promoted(db) /\ Exhausted(db) = {}
      BY DEF BootInv, Sound
    <2> QED
      BY <2>1, <2>3, <2>4, Zenon DEF Columns, Promoted
  <1> QED
    BY <1>1, BootInvariant, PTL

(* An in_savepoint that fails, and whose undo does not, has undone         *)
(* everything of its own and nothing of the caller's; and however many     *)
(* processes open the file at once, none gets an error unless a statement  *)
(* failed for another reason than that they are many (undo_savepoint_frame,*)
(* bootstrap_honker_schema).                                               *)
THEOREM ErrorsAreUndone == Spec => []ErrorMeansUndone
  <1>1. BootInv => ErrorMeansUndone
    <2> SUFFICES ASSUME BootInv, NEW p \in Procs, outcome[p] = "error"
                 PROVE  /\ faults > 0
                        /\ pc[p] \in {"returned", "failed"} =>
                             /\ ~frame[p] /\ txn[p] # "own"
                             /\ txn[p] = "caller" => work[p] = [db EXCEPT !.notes = @ \cup {p}]
      BY DEF ErrorMeansUndone
    <2>1. SessionInv(p)
      BY DEF BootInv
    <2> QED
      BY <2>1 DEF SessionInv, Idle, Outside, Noted, Unclear
  <1> QED
    BY <1>1, BootInvariant, PTL
=============================================================================

----------------------------- MODULE Bootstrap -----------------------------
(***************************************************************************)
(* Processes that open the same file at once: WAL conversion, the CREATE   *)
(* statements, the three columns that are added if they are missing, and   *)
(* migrate_claim_v2 inside a savepoint.  The file is new, or was written   *)
(* by an older build.  A process that has bootstrapped dead-letters rows   *)
(* inside a savepoint, alone or in a transaction of its own, while others  *)
(* still bootstrap.                                                        *)
(***************************************************************************)
EXTENDS Savepoint, FiniteSets

CONSTANT Ids        \* job ids of an older build's file

(* A row of _honker_live, and what the file holds: _honker_live, the ids in*)
(* _honker_dead, the index _honker_live_claim (the marker of an older file)*)
(* and what callers wrote in transactions of their own.                    *)
JobRow == [state : {"pending", "scheduled", "processing"}, future : BOOLEAN, exhausted : BOOLEAN]
File == [live : UNION {[S -> JobRow] : S \in SUBSET Ids}, dead : SUBSET Ids,
         marker : BOOLEAN, notes : SUBSET Procs]

ASSUME BootstrapAssumption == NULL \notin Procs /\ NULL \notin File

VARIABLES
    wal,            \* the file is in WAL mode
    tables,         \* tables that exist
    columns,        \* columns among Columns that exist
    taken,          \* per process: the id its DELETE ... RETURNING returned
    ready,          \* history: processes whose bootstrap has returned
    jobs            \* history: the ids in the file at the start

schema == <<wal, tables, columns>>
vars == <<svars, schema, taken, ready, jobs>>
rest == <<taken, ready, jobs>>

Tables == {"_honker_live", "_honker_scheduler_tasks"}
Columns == {"enabled", "max_attempts", "claimed_at"}
ColumnsOf(t) == IF t = "_honker_live" THEN {"claimed_at"} ELSE {"enabled", "max_attempts"}

Row(state, future, exhausted) == [state |-> state, future |-> future, exhausted |-> exhausted]

(* Older builds wrote future jobs as pending and kept exhausted ones. *)
LegacyRows == {Row("pending", TRUE, FALSE), Row("pending", FALSE, TRUE), Row("processing", FALSE, TRUE)}

(* The statements of open that may fail; those of the migration have an undo. *)
Opening == {"wal", "create", "enabled", "max_attempts", "claimed_at", "alter enabled",
            "alter max_attempts", "alter claimed_at", "migrate"}

Init ==
    /\ SavepointInit
    /\ pc = [p \in Procs |-> "wal"]
    /\ \/ /\ db = [live |-> [i \in {} |-> NULL], dead |-> {}, marker |-> FALSE, notes |-> {}]
          /\ wal = FALSE
          /\ tables = {}
          /\ columns = {}
       \/ /\ \E rows \in [Ids -> LegacyRows] :
               db = [live |-> rows, dead |-> {}, marker |-> TRUE, notes |-> {}]
          /\ wal \in BOOLEAN
          /\ tables = Tables
          /\ columns \in {{}, {"enabled"}}
    /\ taken = [p \in Procs |-> NULL]
    /\ ready = {}
    /\ jobs = DOMAIN db.live

Live(c) == DOMAIN c.live
Without(c, S) == [i \in Live(c) \ S |-> c.live[i]]

----------------------------------------------------------------------------
(* set_journal_mode_wal *)

wal_mode(p) ==
    /\ pc[p] = "wal"
    /\ wal \/ writer = NULL
    /\ wal' = TRUE
    /\ Goto(p, "create")
    /\ UNCHANGED <<db, conn, outcome, faults, tables, columns, rest>>

(* An error of open: the caller opens the database again. *)
open_fails(p) ==
    /\ pc[p] \in Opening
    /\ Fault
    /\ Returns(p, "error")
    /\ Goto(p, "wal")
    /\ UNCHANGED <<db, conn, schema, rest>>

(* bootstrap_honker_schema: CREATE TABLE IF NOT EXISTS, each its own commit *)
create_table(p) ==
    /\ pc[p] = "create"
    /\ writer = NULL
    /\ \E t \in Tables \ tables :
         /\ tables' = tables \cup {t}
         /\ columns' = columns \cup ColumnsOf(t)
    /\ UNCHANGED <<db, conn, pc, outcome, faults, wal, rest>>

created(p) ==
    /\ pc[p] = "create"
    /\ tables = Tables
    /\ Goto(p, "enabled")
    /\ UNCHANGED <<db, conn, outcome, faults, schema, rest>>

MutantHasColumn(p, column, alter, next) ==
    /\ pc[p] = column
    /\ \/ column \in columns /\ Goto(p, next) /\ UNCHANGED faults
       \/ column \notin columns /\ Goto(p, alter) /\ UNCHANGED faults
       \/ Fault /\ Goto(p, next)
    /\ UNCHANGED <<db, conn, outcome, schema, rest>>

(* pragma_table_info; a failed query counts as a missing column *)
HasColumn(p, column, alter, next) ==
    /\ pc[p] = column
    /\ \/ column \in columns /\ Goto(p, next) /\ UNCHANGED faults
       \/ column \notin columns /\ Goto(p, alter) /\ UNCHANGED faults
       \/ Fault /\ Goto(p, alter)
    /\ UNCHANGED <<db, conn, outcome, schema, rest>>

(* ALTER TABLE ADD COLUMN; "duplicate column" means another was first *)
AddColumn(p, column, alter, next) ==
    /\ pc[p] = alter
    /\ writer = NULL
    /\ columns' = columns \cup {column}
    /\ Goto(p, next)
    /\ UNCHANGED <<db, conn, outcome, faults, wal, tables, rest>>

add_enabled(p) ==
    \/ HasColumn(p, "enabled", "alter enabled", "max_attempts")
    \/ AddColumn(p, "enabled", "alter enabled", "max_attempts")

add_max_attempts(p) ==
    \/ HasColumn(p, "max_attempts", "alter max_attempts", "claimed_at")
    \/ AddColumn(p, "max_attempts", "alter max_attempts", "claimed_at")

add_claimed_at(p) ==
    \/ HasColumn(p, "claimed_at", "alter claimed_at", "migrate")
    \/ AddColumn(p, "claimed_at", "alter claimed_at", "migrate")

----------------------------------------------------------------------------
(* migrate_claim_v2 *)

not_legacy(p) ==
    /\ pc[p] = "migrate"
    /\ ~db.marker
    /\ ready' = ready \cup {p}
    /\ Goto(p, "ready")
    /\ UNCHANGED <<db, conn, outcome, faults, schema, taken, jobs>>

begin_migration(p) ==
    /\ pc[p] = "migrate"
    /\ db.marker
    /\ savepoint(p, "lock")
    /\ UNCHANGED <<schema, rest>>

(* UPDATE ... WHERE 0 takes the write lock on the newest content. *)
lock(p) ==
    /\ pc[p] = "lock"
    /\ Write(p, Content(p))
    /\ Goto(p, "recheck")
    /\ UNCHANGED <<outcome, faults, schema, rest>>

recheck(p) ==
    /\ pc[p] = "recheck"
    /\ Goto(p, IF work[p].marker THEN "promote" ELSE "release")
    /\ UNCHANGED <<db, conn, outcome, faults, schema, rest>>

Statement(p, at, content, next) ==
    /\ pc[p] = at
    /\ Write(p, content)
    /\ Goto(p, next)
    /\ UNCHANGED <<outcome, faults, schema, rest>>

(* Future pending rows become scheduled. *)
promote_future(p) ==
    LET c == Content(p)
    IN  Statement(p, "promote",
          [c EXCEPT !.live = [i \in Live(c) |->
             IF c.live[i].state = "pending" /\ c.live[i].future
             THEN [c.live[i] EXCEPT !.state = "scheduled"] ELSE c.live[i]]], "bury")

Exhausted(c) == {i \in Live(c) : c.live[i].state \in {"pending", "scheduled"} /\ c.live[i].exhausted}

(* INSERT INTO _honker_dead ... SELECT *)
bury_exhausted(p) ==
    LET c == Content(p)
    IN  Statement(p, "bury", [c EXCEPT !.dead = @ \cup Exhausted(c)], "purge")

(* DELETE FROM _honker_live *)
purge_exhausted(p) ==
    LET c == Content(p)
    IN  Statement(p, "purge", [c EXCEPT !.live = Without(c, Exhausted(c))], "drop")

(* DROP INDEX _honker_live_claim, and its companion *)
drop_marker(p) ==
    Statement(p, "drop", [Content(p) EXCEPT !.marker = FALSE],
              IF Content(p).marker THEN "release" ELSE "undo")

----------------------------------------------------------------------------
(* A process that is ready dead-letters a row: DELETE, then INSERT.        *)

(* BEGIN IMMEDIATE and a write of the caller, before the operation *)
begin_immediate(p) ==
    /\ pc[p] = "ready"
    /\ txn[p] = "none"
    /\ writer = NULL
    /\ txn' = [txn EXCEPT ![p] = "caller"]
    /\ writer' = p
    /\ work' = [work EXCEPT ![p] = [db EXCEPT !.notes = @ \cup {p}]]
    /\ UNCHANGED <<db, frame, base, pc, outcome, faults, schema, rest>>

begin_operation(p) ==
    /\ pc[p] = "ready"
    /\ savepoint(p, "delete")
    /\ UNCHANGED <<schema, rest>>

delete_row(p) ==
    /\ pc[p] = "delete"
    /\ \E i \in Live(Content(p)) :
         /\ Write(p, [Content(p) EXCEPT !.live = Without(Content(p), {i})])
         /\ taken' = [taken EXCEPT ![p] = i]
    /\ Goto(p, "insert")
    /\ UNCHANGED <<outcome, faults, schema, ready, jobs>>

nothing_to_delete(p) ==
    /\ pc[p] = "delete"
    /\ MayWrite(p)
    /\ Live(Content(p)) = {}
    /\ Goto(p, "release")
    /\ UNCHANGED <<db, conn, outcome, faults, schema, rest>>

insert_dead(p) ==
    Statement(p, "insert", [Content(p) EXCEPT !.dead = @ \cup {taken[p]}], "release")

(* The caller ends its transaction.  The code does not stop a caller who   *)
(* commits what an unknown state or a panic left; that callers roll back   *)
(* then, as the bindings' transactions do on an exception, is assumed.     *)
commit(p) ==
    /\ pc[p] = "returned"
    /\ txn[p] = "caller"
    /\ outcome[p] \notin Unclear
    /\ db' = work[p]
    /\ TxnEnds(p)
    /\ Goto(p, "done")
    /\ UNCHANGED <<outcome, faults, schema, rest>>

(* ... or never had one, or gives up a connection in an unknown state,     *)
(* which rolls back.                                                       *)
finish(p) ==
    /\ pc[p] = "returned"
    /\ txn[p] = "none" \/ outcome[p] \in Unclear
    /\ TxnEnds(p)
    /\ Goto(p, "done")
    /\ UNCHANGED <<db, outcome, faults, schema, rest>>

(* The migration failed: open returns the error and the connection closes. *)
reopen(p) ==
    /\ pc[p] = "failed"
    /\ TxnEnds(p)
    /\ Goto(p, "wal")
    /\ UNCHANGED <<db, outcome, faults, schema, rest>>

----------------------------------------------------------------------------
(* in_savepoint returns to the bootstrap or to the operation. *)
Finished(p) == IF p \in ready THEN "returned" ELSE "ready"
Failed(p) == IF p \in ready THEN "returned" ELSE "failed"

released(p) ==
    /\ release(p, Finished(p))
    /\ ready' = ready \cup {p}
    /\ UNCHANGED <<schema, taken, jobs>>

BodyFails(p) ==
    /\ pc[p] \in {"lock", "recheck", "promote", "bury", "purge", "drop", "delete", "insert",
                  "release"}
    /\ body_fails(p) \/ body_aborts(p)
    /\ UNCHANGED <<schema, rest>>

Refused(p) ==
    /\ pc[p] = "ready" \/ (pc[p] = "migrate" /\ db.marker)
    /\ savepoint_refused(p, Failed(p))
    /\ UNCHANGED <<schema, rest>>

Undoes(p) == Undo(p, Failed(p)) /\ UNCHANGED <<schema, rest>>

Run(p) ==
    \/ wal_mode(p) \/ create_table(p) \/ created(p)
    \/ add_enabled(p) \/ add_max_attempts(p) \/ add_claimed_at(p)
    \/ not_legacy(p) \/ begin_migration(p) \/ lock(p) \/ recheck(p)
    \/ promote_future(p) \/ bury_exhausted(p) \/ purge_exhausted(p) \/ drop_marker(p)
    \/ begin_operation(p) \/ delete_row(p) \/ nothing_to_delete(p) \/ insert_dead(p)
    \/ released(p) \/ Undoes(p) \/ commit(p) \/ finish(p) \/ reopen(p)

Next == \E p \in Procs : Run(p) \/ begin_immediate(p) \/ open_fails(p) \/ Refused(p) \/ BodyFails(p)

Spec == Init /\ [][Next]_vars

(* A process waits for the write lock, and runs on when it is free. *)
FairSpec == Spec /\ \A p \in Procs : WF_vars(Run(p))

----------------------------------------------------------------------------
(* No job is lost or doubled by a migration or a dead-letter that fails,   *)
(* is cut short or runs beside another: what the file committed holds each *)
(* id in _honker_live or in _honker_dead.                                  *)
NoJobLost ==
    /\ Live(db) \cup db.dead = jobs
    /\ Live(db) \cap db.dead = {}

(* When bootstrap has returned to anybody, every column exists and the     *)
(* migration is complete: no future row is pending, no waiting row is out  *)
(* of attempts.                                                            *)
ReadyMeansMigrated ==
    ready # {} =>
      /\ tables = Tables /\ columns = Columns
      /\ ~db.marker
      /\ Exhausted(db) = {}
      /\ \A i \in Live(db) : ~(db.live[i].state = "pending" /\ db.live[i].future)

(* An error, or a panic, whose undo does not fail as well leaves the       *)
(* connection as it was before the call: no savepoint, no transaction of   *)
(* honker's, and in the caller's transaction only what the caller wrote.   *)
(* Processes that open the file at once do not make each other fail, as    *)
(* two that add the same column would: without a failed statement neither  *)
(* open nor an operation returns an error.                                 *)
ErrorMeansUndone ==
    \A p \in Procs : outcome[p] = "error" =>
      /\ faults > 0
      /\ pc[p] \in {"returned", "failed"} =>
           /\ ~frame[p]
           /\ txn[p] # "own"
           /\ txn[p] = "caller" => work[p] = [db EXCEPT !.notes = @ \cup {p}]

(* Every process gets through bootstrap, whatever failed on the way.       *)
EveryoneGetsReady == \A p \in Procs : <>(p \in ready)
=============================================================================

----------------------------- MODULE Savepoint -----------------------------
(***************************************************************************)
(* in_savepoint of honker_ops: connections to one database file that run   *)
(* an operation inside a SAVEPOINT, alone or inside a transaction of the   *)
(* caller, while every statement may fail: with or without SQLite rolling  *)
(* the whole transaction back, on the way in, in the body, in the RELEASE  *)
(* and in the undo itself.                                                 *)
(*                                                                         *)
(* SQLite is what the code relies on: one connection holds the write lock, *)
(* its changes are invisible until the outermost frame is released.        *)
(***************************************************************************)
EXTENDS Naturals

CONSTANTS
    Procs,          \* connections
    NULL,
    MaxFaults       \* bound: statements that fail in a behaviour

ASSUME SavepointAssumption == MaxFaults \in Nat

VARIABLES
    db,             \* committed content of the file
    writer,         \* the connection that holds the write lock, or NULL
    txn,            \* per connection: "none" (autocommit), "caller", "own"
    frame,          \* per connection: honker's savepoint is on the stack
    base, work,     \* per connection: content at the SAVEPOINT, and now; NULL if unwritten
    pc,             \* per connection: the next statement
    outcome,        \* per connection: what in_savepoint returned last
    faults          \* number of statements that failed

conn == <<writer, txn, frame, base, work>>
svars == <<db, conn, pc, outcome, faults>>

SavepointInit ==
    /\ writer = NULL
    /\ txn = [p \in Procs |-> "none"]
    /\ frame = [p \in Procs |-> FALSE]
    /\ base = [p \in Procs |-> NULL]
    /\ work = [p \in Procs |-> NULL]
    /\ outcome = [p \in Procs |-> "ok"]
    /\ faults = 0

Goto(p, next) == pc' = [pc EXCEPT ![p] = next]
Returns(p, result) == outcome' = [outcome EXCEPT ![p] = result]

(* The undo failed too: after an error it says so, after a panic it cannot. *)
Unclear == {"unknown", "panicked"}

Fault == faults < MaxFaults /\ faults' = faults + 1

MayWrite(p) == writer \in {NULL, p}
Content(p) == IF work[p] = NULL THEN db ELSE work[p]

(* The transaction of p is over. *)
TxnEnds(p) ==
    /\ txn' = [txn EXCEPT ![p] = "none"]
    /\ frame' = [frame EXCEPT ![p] = FALSE]
    /\ base' = [base EXCEPT ![p] = NULL]
    /\ work' = [work EXCEPT ![p] = NULL]
    /\ writer' = IF writer = p THEN NULL ELSE writer

(* A statement of p inside a transaction that writes `content`. *)
Write(p, content) ==
    /\ MayWrite(p)
    /\ writer' = p
    /\ work' = [work EXCEPT ![p] = content]
    /\ UNCHANGED <<db, txn, frame, base>>

(* owns_transaction, SAVEPOINT *)
savepoint(p, next) ==
    /\ txn' = [txn EXCEPT ![p] = IF @ = "none" THEN "own" ELSE @]
    /\ frame' = [frame EXCEPT ![p] = TRUE]
    /\ base' = [base EXCEPT ![p] = work[p]]
    /\ Goto(p, next)
    /\ UNCHANGED <<db, writer, work, outcome, faults>>

(* ... is refused, for example because a write statement is active *)
savepoint_refused(p, next) ==
    /\ Fault
    /\ Returns(p, "error")
    /\ Goto(p, next)
    /\ UNCHANGED <<db, conn>>

(* A statement of the body, or its RELEASE, fails, or the body panics: the *)
(* undo follows in all three cases.  After a panic the caller gets         *)
(* rusqlite's error about it, and UnwindUndo has stderr only to say that   *)
(* the undo failed: Unclear.                                               *)
body_fails(p) ==
    /\ Fault
    /\ Goto(p, "undo")
    /\ UNCHANGED <<db, conn, outcome>>

(* ... and SQLite has rolled everything back on its own. *)
body_aborts(p) ==
    /\ Fault
    /\ Goto(p, "undo")
    /\ TxnEnds(p)
    /\ UNCHANGED <<db, outcome>>

(* RELEASE: of the outermost frame it is the COMMIT. *)
release(p, next) ==
    /\ pc[p] = "release"
    /\ IF txn[p] = "own"
       THEN db' = Content(p) /\ TxnEnds(p)
       ELSE /\ frame' = [frame EXCEPT ![p] = FALSE]
            /\ base' = [base EXCEPT ![p] = NULL]
            /\ UNCHANGED <<db, txn, work, writer>>
    /\ Returns(p, "ok")
    /\ Goto(p, next)
    /\ UNCHANGED faults

(* undo_savepoint_frame: the connection is in autocommit already *)
undo_nothing(p, next) ==
    /\ pc[p] = "undo"
    /\ txn[p] = "none"
    /\ Returns(p, "error")
    /\ Goto(p, next)
    /\ UNCHANGED <<db, conn, faults>>

MutantRollbackTo(p, next) ==
    /\ pc[p] = "undo"
    /\ txn[p] # "none"
    /\ IF txn[p] = "own"
       THEN db' = Content(p) /\ TxnEnds(p)
       ELSE /\ frame' = [frame EXCEPT ![p] = FALSE]
            /\ base' = [base EXCEPT ![p] = NULL]
            /\ UNCHANGED <<db, txn, work, writer>>
    /\ Returns(p, "error")
    /\ Goto(p, next)
    /\ UNCHANGED faults

(* ROLLBACK TO; RELEASE *)
rollback_to(p, next) ==
    /\ pc[p] = "undo"
    /\ txn[p] # "none"
    /\ IF txn[p] = "own"
       THEN TxnEnds(p)
       ELSE /\ work' = [work EXCEPT ![p] = base[p]]
            /\ frame' = [frame EXCEPT ![p] = FALSE]
            /\ base' = [base EXCEPT ![p] = NULL]
            /\ UNCHANGED <<txn, writer>>
    /\ Returns(p, "error")
    /\ Goto(p, next)
    /\ UNCHANGED <<db, faults>>

MutantRollbackToFails(p, next) ==
    /\ pc[p] = "undo"
    /\ txn[p] # "none"
    /\ Fault
    /\ \E w \in {work[p], base[p]} : work' = [work EXCEPT ![p] = w]
    /\ Returns(p, "error")
    /\ Goto(p, next)
    /\ UNCHANGED <<db, writer, txn, frame, base>>

(* ... one of the two fails.  A transaction of our own is then rolled back *)
(* as a whole; one of the caller's is in an unknown state.                 *)
rollback_to_fails(p, next) ==
    /\ pc[p] = "undo"
    /\ txn[p] # "none"
    /\ Fault
    /\ \E w \in {work[p], base[p]} : work' = [work EXCEPT ![p] = w]
    /\ IF txn[p] = "own" THEN Goto(p, "rollback") /\ UNCHANGED outcome
                         ELSE Goto(p, next) /\ \E u \in Unclear : Returns(p, u)
    /\ UNCHANGED <<db, writer, txn, frame, base>>

MutantRollback(p, next) ==
    /\ pc[p] = "rollback"
    /\ Returns(p, "error")
    /\ Goto(p, next)
    /\ UNCHANGED <<db, conn, faults>>

(* ROLLBACK *)
rollback(p, next) ==
    /\ pc[p] = "rollback"
    /\ TxnEnds(p)
    /\ Returns(p, "error")
    /\ Goto(p, next)
    /\ UNCHANGED <<db, faults>>

rollback_fails(p, next) ==
    /\ pc[p] = "rollback"
    /\ Fault
    /\ \E u \in Unclear : Returns(p, u)
    /\ Goto(p, next)
    /\ UNCHANGED <<db, conn>>

(* The undo of a failed body: `next` is where its caller goes on. *)
Undo(p, next) ==
    \/ undo_nothing(p, next) \/ rollback_to(p, next) \/ rollback_to_fails(p, next)
    \/ rollback(p, next) \/ rollback_fails(p, next)
=============================================================================

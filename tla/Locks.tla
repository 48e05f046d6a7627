------------------------------- MODULE Locks -------------------------------
(***************************************************************************)
(* One named lock of _honker_locks.  lock_acquire is three statements, each*)
(* of which commits by itself when the caller is in autocommit mode, so it *)
(* is three steps; the clock is read by SQLite under the write lock.       *)
(* Owners are distinct strings.                                            *)
(***************************************************************************)
EXTENDS Integers

CONSTANTS
    Owners,
    NULL,
    LOCK_TTL

LockRow == [owner : Owners, expires_at : Int]

ASSUME LocksAssumption == LOCK_TTL \in Nat \ {0} /\ NULL \notin LockRow

VARIABLES
    now,        \* unixepoch()
    lock,       \* the row of _honker_locks, or NULL
    pc,         \* per owner, its next statement
    written     \* per owner, the expires_at it wrote last; 0 once it released

lockvars == <<lock, written>>

HeldBy(o) == lock # NULL /\ lock.owner = o

Goto(o, next) == pc' = [pc EXCEPT ![o] = next]

LockInit ==
    /\ now = 1
    /\ lock = NULL
    /\ written = [o \in Owners |-> 0]

MutantAcquireDelete(o) ==
    /\ pc[o] = "acquire"
    /\ Goto(o, "insert")
    /\ UNCHANGED <<now, lockvars>>

(* DELETE ... WHERE expires_at <= unixepoch() *)
acquire_delete(o) ==
    /\ pc[o] = "acquire"
    /\ lock' = IF lock # NULL /\ lock.expires_at <= now THEN NULL ELSE lock
    /\ Goto(o, "insert")
    /\ UNCHANGED <<now, written>>

(* INSERT OR IGNORE: a same-owner row is not refreshed. *)
acquire_insert(o) ==
    /\ pc[o] = "insert"
    /\ IF lock = NULL
       THEN /\ lock' = [owner |-> o, expires_at |-> now + LOCK_TTL]
            /\ written' = [written EXCEPT ![o] = now + LOCK_TTL]
       ELSE UNCHANGED lockvars
    /\ Goto(o, "select")
    /\ UNCHANGED now

(* SELECT owner *)
acquire_select(o, got, missed) ==
    /\ pc[o] = "select"
    /\ Goto(o, IF HeldBy(o) THEN got ELSE missed)
    /\ UNCHANGED <<now, lockvars>>

MutantRelease(o, from, next) ==
    /\ pc[o] = from
    /\ lock' = NULL
    /\ written' = [written EXCEPT ![o] = 0]
    /\ Goto(o, next)
    /\ UNCHANGED now

(* DELETE ... WHERE owner = ?2 *)
lock_release(o, from, next) ==
    /\ pc[o] = from
    /\ lock' = IF HeldBy(o) THEN NULL ELSE lock
    /\ written' = [written EXCEPT ![o] = 0]
    /\ Goto(o, next)
    /\ UNCHANGED now

(* UPDATE ... WHERE owner = ?2: also revives a lapsed row nobody took. *)
lock_renew(o, from, kept, lost) ==
    /\ pc[o] = from
    /\ IF HeldBy(o)
       THEN /\ lock' = [owner |-> o, expires_at |-> now + LOCK_TTL]
            /\ written' = [written EXCEPT ![o] = now + LOCK_TTL]
       ELSE UNCHANGED lockvars
    /\ Goto(o, IF HeldBy(o) THEN kept ELSE lost)
    /\ UNCHANGED now
=============================================================================

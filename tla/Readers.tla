------------------------------ MODULE Readers ------------------------------
(***************************************************************************)
(* honker-core's Readers: a pool of at most max read connections, opened   *)
(* on demand, with an explicit close().                                    *)
(*                                                                         *)
(* acquire() reads the closed flag, then locks the pool; opening a         *)
(* connection happens outside the locks.  A step is what runs under the    *)
(* pool mutex, or one access to shared state outside it.                   *)
(***************************************************************************)
EXTENDS Calls, Integers

CONSTANT max        \* max_readers, at least 1

ASSUME ReadersAssumption == max \in Nat \ {0}

VARIABLES
    pool,           \* number of pooled connections
    outstanding,    \* connections counted against max
    readers_closed  \* the closed flag

rvars == <<pool, outstanding, readers_closed>>

ReaderSteps ==
    {"checks", "locks", "opens", "opened", "sleeps", "reads", "returns"}

ReadersInit ==
    /\ pool = 0
    /\ outstanding = 0
    /\ readers_closed = FALSE

(* A query calls acquire(). *)
query(t) ==
    /\ pc[t] = "idle"
    /\ Goto(t, "checks")
    /\ UNCHANGED <<rvars, closes>>

check_closed(t) ==
    /\ pc[t] = "checks"
    /\ Goto(t, IF readers_closed THEN "idle" ELSE "locks")
    /\ UNCHANGED <<rvars, closes>>

(* Under the pool mutex: pop, or reserve a slot, or wait. *)
pop(t) ==
    /\ pc[t] = "locks"
    /\ pool > 0
    /\ pool' = pool - 1
    /\ Goto(t, "reads")
    /\ UNCHANGED <<outstanding, readers_closed, closes>>

reserve(t) ==
    /\ pc[t] = "locks"
    /\ pool = 0
    /\ outstanding < max
    /\ outstanding' = outstanding + 1
    /\ Goto(t, "opens")
    /\ UNCHANGED <<pool, readers_closed, closes>>

wait(t) ==
    /\ pc[t] = "locks"
    /\ pool = 0
    /\ outstanding >= max
    /\ Goto(t, "sleeps")
    /\ UNCHANGED <<rvars, closes>>

open_ok(t) ==
    /\ pc[t] = "opens"
    /\ Goto(t, "opened")
    /\ UNCHANGED <<rvars, closes>>

MutantOpenFailed(t) ==
    /\ pc[t] = "opens"
    /\ Goto(t, "idle")
    /\ UNCHANGED <<rvars, closes>>

(* The reserved slot is freed, and nobody is notified. *)
open_failed(t) ==
    /\ pc[t] = "opens"
    /\ outstanding' = outstanding - 1
    /\ Goto(t, "idle")
    /\ UNCHANGED <<pool, readers_closed, closes>>

(* The re-check after opening *)
recheck(t) ==
    /\ pc[t] = "opened"
    /\ IF readers_closed THEN Goto(t, "idle") /\ outstanding' = outstanding - 1
       ELSE Goto(t, "reads") /\ UNCHANGED outstanding
    /\ UNCHANGED <<pool, readers_closed, closes>>

(* The query has run, with whatever result, and release reads closed       *)
(* before it locks; a dropped connection stays counted in outstanding.     *)
release_reader(t) ==
    /\ pc[t] = "reads"
    /\ Goto(t, IF readers_closed THEN "idle" ELSE "returns")
    /\ UNCHANGED <<rvars, closes>>

push_reader(t) ==
    /\ pc[t] = "returns"
    /\ pool' = pool + 1
    /\ GotoAndNotify(t, "idle", "sleeps", "checks")
    /\ UNCHANGED <<outstanding, readers_closed, closes>>

close_readers_flag ==
    /\ Closing("writer", "readers_flag")
    /\ readers_closed' = TRUE
    /\ UNCHANGED <<pool, outstanding, pc>>

(* clear() under the mutex; then notify_all. *)
close_pool ==
    /\ Closing("readers_flag", "pool")
    /\ pool' = 0
    /\ UNCHANGED <<outstanding, readers_closed, pc>>

close_notify ==
    /\ Closing("pool", "closed")
    /\ NotifyAll("sleeps", "checks")
    /\ UNCHANGED rvars

ReaderStep(t) ==
    \/ check_closed(t) \/ pop(t) \/ reserve(t) \/ wait(t)
    \/ open_ok(t) \/ open_failed(t) \/ recheck(t)
    \/ release_reader(t) \/ push_reader(t)
=============================================================================

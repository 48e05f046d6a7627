------------------------------- MODULE Writer -------------------------------
(***************************************************************************)
(* honker-core's Writer: the single write connection of a process, handed  *)
(* to one thread at a time, with an explicit close().                      *)
(*                                                                         *)
(* A step is what runs under the slot mutex, or one access to the closed   *)
(* flag outside it.  A thread in "waits" sleeps on the condvar and has left*)
(* the mutex (parking_lot has no spurious wakeups).                        *)
(***************************************************************************)
EXTENDS Calls

VARIABLES
    slot,           \* the connection is in the slot
    writer_closed   \* the closed flag

wvars == <<slot, writer_closed>>

WriterSteps ==
    {"idle", "tries", "acquire", "waits", "begins", "inside", "ends", "releases"}

WriterInit ==
    /\ slot = TRUE
    /\ writer_closed = FALSE

(* try_acquire reads closed, then locks.  Its callers go on with acquire.  *)
try_acquire(t) ==
    /\ pc[t] = "idle"
    /\ Goto(t, IF writer_closed THEN "acquire" ELSE "tries")
    /\ UNCHANGED <<slot, writer_closed, closes>>

try_take(t) ==
    /\ pc[t] = "tries"
    /\ Goto(t, IF slot THEN "begins" ELSE "acquire")
    /\ slot' = FALSE
    /\ UNCHANGED <<writer_closed, closes>>

(* The body of acquire's loop; a closed writer refuses. *)
acquire(t) ==
    /\ pc[t] = "acquire"
    /\ IF writer_closed THEN Goto(t, "idle") /\ UNCHANGED slot
       ELSE IF slot THEN Goto(t, "begins") /\ slot' = FALSE
       ELSE Goto(t, "waits") /\ UNCHANGED slot
    /\ UNCHANGED <<writer_closed, closes>>

(* release reads the flag before it takes the mutex; once closed, the      *)
(* connection is dropped.                                                  *)
release(t) ==
    /\ pc[t] = "ends"
    /\ Goto(t, IF writer_closed THEN "idle" ELSE "releases")
    /\ UNCHANGED <<slot, writer_closed, closes>>

MutantPutBack(t) ==
    /\ pc[t] = "releases"
    /\ slot' = TRUE
    /\ Goto(t, "idle")
    /\ UNCHANGED <<writer_closed, closes>>

put_back(t) ==
    /\ pc[t] = "releases"
    /\ slot' = TRUE
    /\ GotoAndNotify(t, "idle", "waits", "acquire")
    /\ UNCHANGED <<writer_closed, closes>>

(* close: the flag, then the slot under the mutex; notify_all. *)
close ==
    /\ closes \in {"open", "closed"}
    /\ closes' = "writer_flag"
    /\ writer_closed' = TRUE
    /\ UNCHANGED <<slot, pc>>

MutantCloseSlot ==
    /\ Closing("writer_flag", "writer")
    /\ slot' = FALSE
    /\ UNCHANGED <<writer_closed, pc>>

close_slot ==
    /\ Closing("writer_flag", "writer")
    /\ slot' = FALSE
    /\ NotifyAll("waits", "acquire")
    /\ UNCHANGED writer_closed

WriterStep(t) == try_take(t) \/ acquire(t) \/ release(t) \/ put_back(t)
=============================================================================

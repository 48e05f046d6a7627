------------------------------- MODULE Fanout -------------------------------
(***************************************************************************)
(* SharedUpdateWatcher of honker-core: one thread per database that calls  *)
(* on_change when its backend notices a commit, and the subscribers whose  *)
(* channels on_change fills.  The backends (PollWatcher, KernelWatcher,    *)
(* ShmWatcher) extend this module with what they detect commits by.        *)
(*                                                                         *)
(* A wake is a tick in a channel of capacity 1.  A subscriber that takes   *)
(* it re-reads the database, so all that matters of the commits is what a  *)
(* subscriber has not read yet: nothing, only commits the backend was blind*)
(* to when they were made, or also a commit the backend could detect.  The *)
(* number of commits is unbounded.                                         *)
(***************************************************************************)
CONSTANTS
    Subscribers,
    FAILS           \* whether opens, reads and stat(2) may fail

ASSUME FanoutAssumption == FAILS \in BOOLEAN

VARIABLES
    thread,         \* "loops", "fans" or "wakes" (on_change is due), "unwinds", "dead";
                    \* the backends add steps of their own
    mismatch,       \* the file's identity is not the one read at startup
    closing,        \* close(): "no", "cleared" or "stopped" (UpdateWatcher.stop)
    senders,        \* ids in SharedUpdateWatcher.senders
    chan,           \* per subscriber, a tick is in its channel
    sub,            \* per subscriber, the state of its receiver
    behind          \* per subscriber, the commits it has not read

subs == <<senders, chan, sub, behind>>
fvars == <<thread, mismatch, closing, subs>>

(* spawn_with_config waits until the thread has its baseline, or has ended *)
(* because its backend could not start.                                    *)
FanInit ==
    /\ closing = "no"
    /\ senders = {}
    /\ chan = [s \in Subscribers |-> FALSE]
    /\ sub = [s \in Subscribers |-> "none"]
    /\ behind = [s \in Subscribers |-> "no"]

(* If stat(2) fails at startup the identity is taken to be (0, 0), which   *)
(* no file has.                                                            *)
IdentityInit == mismatch \in IF FAILS THEN BOOLEAN ELSE {FALSE}

(* A commit by any connection, which the backend can detect or not. *)
Committed(sighted) ==
    behind' = [s \in Subscribers |->
                 IF sub[s] # "open" THEN "no"
                 ELSE IF sighted THEN "sighted"
                 ELSE IF behind[s] = "no" THEN "blind" ELSE behind[s]]

----------------------------------------------------------------------------
(* The thread *)

Goto(step) == thread' = step

(* The dead-man's switch: the file was replaced, the thread panics.  Where *)
(* in its loop a backend gets to the check is its own affair.              *)
check_db_identity(step) ==
    /\ thread = step
    /\ mismatch
    /\ Goto("unwinds")
    /\ UNCHANGED <<mismatch, closing, subs>>

MutantObserveStop ==
    /\ thread = "loops"
    /\ closing = "cleared"
    /\ Goto("unwinds")
    /\ UNCHANGED <<mismatch, closing, subs>>

observe_stop ==
    /\ thread = "loops"
    /\ closing = "stopped"
    /\ Goto("unwinds")
    /\ UNCHANGED <<mismatch, closing, subs>>

MutantDeathGuard ==
    /\ thread = "unwinds"
    /\ Goto("dead")
    /\ UNCHANGED <<mismatch, closing, subs>>

(* The closure is dropped and WatcherDeathGuard clears the senders. *)
death_guard ==
    /\ thread = "unwinds"
    /\ Goto("dead")
    /\ senders' = {}
    /\ UNCHANGED <<mismatch, closing, chan, sub, behind>>

(* try_send to every sender; the sender of a dropped receiver is pruned.   *)
(* The iteration is over, or ("wakes") still has its checks to make.       *)
on_change ==
    /\ thread \in {"fans", "wakes"}
    /\ Goto(IF thread = "fans" THEN "loops" ELSE "checks")
    /\ chan' = [s \in Subscribers |->
                  sub[s] = "open" /\ (chan[s] \/ s \in senders)]
    /\ senders' = {s \in senders : sub[s] # "gone"}
    /\ UNCHANGED <<mismatch, closing, sub, behind>>

----------------------------------------------------------------------------
(* Subscribers *)

(* A consumer subscribes, then reads the database.  A sender inserted after*)
(* the thread died is never used and never cleared by it: such a subscriber*)
(* is "late".                                                              *)
subscribe(s) ==
    /\ sub[s] = "none"
    /\ sub' = [sub EXCEPT ![s] = IF thread = "dead" THEN "late" ELSE "open"]
    /\ senders' = senders \cup {s}
    /\ UNCHANGED <<thread, mismatch, closing, chan, behind>>

(* The receiver and what is in it are gone. *)
Forget(s) ==
    /\ sub' = [sub EXCEPT ![s] = "gone"]
    /\ chan' = [chan EXCEPT ![s] = FALSE]
    /\ behind' = [behind EXCEPT ![s] = "no"]

unsubscribe(s) ==
    /\ sub[s] \in {"open", "late"}
    /\ Forget(s)
    /\ senders' = senders \ {s}
    /\ UNCHANGED <<thread, mismatch, closing>>

(* The receiver is dropped without unsubscribe. *)
drop_receiver(s) ==
    /\ sub[s] = "open"
    /\ Forget(s)
    /\ UNCHANGED <<thread, mismatch, closing, senders>>

recv(s) ==
    /\ sub[s] = "open"
    /\ chan[s]
    /\ chan' = [chan EXCEPT ![s] = FALSE]
    /\ behind' = [behind EXCEPT ![s] = "no"]
    /\ UNCHANGED <<thread, mismatch, closing, senders, sub>>

(* recv() returns Err: the sender is gone and the channel is empty. *)
recv_disconnected(s) ==
    /\ sub[s] \in {"open", "late"}
    /\ ~chan[s]
    /\ s \notin senders
    /\ Forget(s)
    /\ UNCHANGED <<thread, mismatch, closing, senders>>

(* SharedUpdateWatcher.close, and Drop: clear the senders, then stop.  A   *)
(* second close only clears.                                               *)
close_clear ==
    /\ closing' = IF closing = "no" THEN "cleared" ELSE closing
    /\ senders' = {}
    /\ UNCHANGED <<thread, mismatch, chan, sub, behind>>

close_stop ==
    /\ closing = "cleared"
    /\ closing' = "stopped"
    /\ UNCHANGED <<thread, mismatch, subs>>

Receive(s) == recv(s) \/ recv_disconnected(s)

FanStep ==
    \/ observe_stop \/ death_guard \/ on_change
    \/ close_clear \/ close_stop
    \/ \E s \in Subscribers :
         subscribe(s) \/ unsubscribe(s) \/ drop_receiver(s) \/ Receive(s)
=============================================================================

---------------------------- MODULE PollWatcher ----------------------------
(* The default backend, run_poll_loop: PRAGMA data_version on a connection *)
(* of its own.  Only whether data_version differs from last_version counts.*)
EXTENDS Fanout

VARIABLES
    conn,           \* "none", "current" or "stale" (has a replaced file open)
    changed         \* data_version # last_version on conn

pvars == <<conn, changed>>

(* last_version is 0, which data_version never is, if it cannot be read. *)
PollInit ==
    /\ thread = "loops"
    /\ conn \in IF FAILS THEN {"none", "current"} ELSE {"current"}
    /\ changed \in IF FAILS THEN BOOLEAN ELSE {FALSE}

poll_commit ==
    /\ Committed(conn = "current")
    /\ changed' = (changed \/ conn = "current")
    /\ UNCHANGED <<thread, mismatch, closing, senders, chan, sub, conn>>

poll_replace_file ==
    /\ ~mismatch \/ conn = "current"
    /\ mismatch' = TRUE
    /\ conn' = IF conn = "current" THEN "stale" ELSE conn
    /\ UNCHANGED <<thread, closing, subs, changed>>

MutantPoll ==
    /\ thread = "loops"
    /\ conn # "none"
    /\ changed
    /\ changed' = FALSE
    /\ UNCHANGED <<fvars, conn>>

(* Path 1: the fast path.  A lock conflict changes nothing and is retried. *)
poll ==
    /\ thread = "loops"
    /\ conn # "none"
    /\ changed
    /\ changed' = FALSE
    /\ Goto("fans")
    /\ UNCHANGED <<mismatch, closing, subs, conn>>

(* The query, or stat(2): drop the connection, one conservative wake. *)
poll_failed ==
    /\ FAILS
    /\ thread = "loops"
    /\ conn' = "none"
    /\ changed' = FALSE
    /\ Goto("fans")
    /\ UNCHANGED <<mismatch, closing, subs>>

(* Path 2: reconnect and take a new baseline; nobody is woken. *)
reconnect ==
    /\ thread = "loops"
    /\ conn = "none"
    /\ conn' = "current"
    /\ changed' \in BOOLEAN
    /\ UNCHANGED fvars

PollLoop == poll \/ poll_failed \/ reconnect

PollStep == poll_commit \/ poll_replace_file \/ PollLoop
=============================================================================

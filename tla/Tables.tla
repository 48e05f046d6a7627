------------------------------- MODULE Tables -------------------------------
(***************************************************************************)
(* The small tables of the schema, which share nothing: a behaviour is one *)
(* of streams, notifications, rate limits and task results.                *)
(***************************************************************************)
EXTENDS Streams, Notifications, RateLimits, Results

VARIABLE part       \* the table of this behaviour

vars == <<part, uvars, svars, start, rvars, resvars>>

Init ==
    /\ part \in {"streams", "notifications", "rate_limits", "results"}
    /\ UpdatesInit
    /\ StreamsInit
    /\ start = [s \in Subs |-> 0]
    /\ RateInit
    /\ ResultsInit

Stream == part = "streams" /\ StreamStep /\ UNCHANGED <<part, start, rvars, resvars>>

Channel == part = "notifications" /\ NotificationStep /\ UNCHANGED <<part, svars, rvars, resvars>>

RateLimit == part = "rate_limits" /\ RateStep /\ UNCHANGED <<part, uvars, svars, start, resvars>>

Result == part = "results" /\ ResultStep /\ UNCHANGED <<part, uvars, svars, start, rvars>>

Next == Stream \/ Channel \/ RateLimit \/ Result

Spec == Init /\ [][Next]_vars

(* The iterator is in a call, or its caller makes the next one. *)
CanRun(s) ==
    \/ pc[s] \in {"next", "save", "handle"}
    \/ pc[s] = "attach" /\ alive
    \/ pc[s] = "wait" /\ (chan[s] \/ ~alive)

(* Weak fairness of each iterator's thread and of the watcher's, with      *)
(* ENABLED written out.                                                    *)
FairSpec ==
    /\ Spec
    /\ []<>(~(alive /\ unseen))
    /\ \A s \in Subs : []<>(~CanRun(s)) \/ []<><<pc'[s] # pc[s] \/ pending'[s] # pending[s]>>_vars

----------------------------------------------------------------------------
(* A consumer's saved offset never goes back, whatever the order in which  *)
(* the processes that share its name save (stream_save_offset).            *)
SavedNeverGoesBack == [][saved' >= saved]_vars

(* next() pops the events of the topic in order and passes over none: it   *)
(* moves last_offset to the first event after it.  The buffer of a refill  *)
(* is never stale, repeated or ahead.                                      *)
NextInOrder ==
    [][part = "streams" => 
        \A s \in Subs : pc[s] = "next" /\ pc'[s] \in {"save", "handle"} =>
          /\ cursor'[s] \in RowsAfter(cursor[s])
          /\ \A i \in RowsAfter(cursor[s]) : cursor'[s] <= i]_vars

(* Every event up to the saved offset was returned to a caller of the      *)
(* consumer, which need not have handled it (Drop saves too), but for the  *)
(* events next() dropped when their own save failed: restarts, crashes and *)
(* other processes of the same name skip nothing else.                     *)
SavedWasGiven ==
    part = "streams" =>
      \A i \in DOMAIN log : log[i] /\ i <= saved => i \in given \cup lost

(* Business transactions that commit with save_offset_tx apply an event at *)
(* most once, with any number of processes and crashes.                    *)
AppliedOnce == \A i \in 1 .. MaxRows : applied[i] <= 1

(* Processes that share a consumer's name, crash and restart leave out no  *)
(* event of the topic but those whose save failed inside next() and, with  *)
(* save_offset_tx, apply none twice.                                       *)
NoneSkippedNoneTwice == SavedWasGiven /\ AppliedOnce

(* A listener is given what was inserted after listen() and is not pruned, *)
(* in order: prunes and the reuse of ids cannot hide or repeat a row.      *)
RecvInOrder ==
    [][part = "notifications" =>
         \A s \in Subs : pc'[s] = "next" /\ cursor'[s] # cursor[s] =>
            /\ cursor'[s] > start[s]
            /\ \A i \in RowsAfter(start[s]) : i > cursor[s] => i >= cursor'[s]]_vars

(* The iterators of honker-rs go through what was inserted in order, once. *)
RowsInOrder == NextInOrder /\ RecvInOrder

Behind(s) == \E i \in RowsAfter(cursor[s]) : i > start[s]

(* No wake is lost between the last refill and the wait: an iterator that  *)
(* is behind reads on, unless its caller or the watcher's thread ends.     *)
WakeIsNotLost ==
    \A s \in Subs :
      part \in {"streams", "notifications"} /\ Attached(s) /\ Behind(s)
        ~> ~Behind(s) \/ ~Attached(s) \/ ~alive

(* Delayed calls and sweeps of any age grant a window more than `limit`    *)
(* calls only by as many as rate_limit_sweep forgot while the window was   *)
(* still in use.                                                           *)
ExcessWasSwept == \A w \in Starts : grants[w] <= MAX_CALLS + swept[w]

(* No window grants more than `limit` calls: sweep_rate_limits says that it*)
(* is "purely a table-space reclaim", since old windows are never read.    *)
WindowCap == \A w \in Starts : grants[w] <= MAX_CALLS

(* A result is readable from its save to its expiry and no longer.         *)
ReadableUntilExpiry ==
    \A j \in Jobs : promised[j] # NULL =>
      result_get(j) = IF promised[j].ttl <= 0 \/ now < promised[j].at + promised[j].ttl
                      THEN promised[j].value ELSE NULL
=============================================================================

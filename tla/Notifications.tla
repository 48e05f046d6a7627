--------------------------- MODULE Notifications ---------------------------
(***************************************************************************)
(* Channels: notify() inserts into _honker_notifications, the prune calls  *)
(* delete old rows, and a Subscription made by Database::listen follows    *)
(* one channel from the highest id at its start.                           *)
(***************************************************************************)
EXTENDS Updates

CONSTANT Keeps      \* values of max_keep

VARIABLE start      \* history, per listener: the highest id ever when it listened

notify(mine) ==
    /\ Insert(mine)
    /\ unseen' = TRUE
    /\ UNCHANGED <<alive, iterators, start>>

(* created_at grows with the id, so the rows older than a cut are those up *)
(* to some id.                                                             *)
prune_notifications(cut) ==
    /\ \E i \in retained : i <= cut
    /\ retained' = {i \in retained : i > cut}
    /\ unseen' = TRUE
    /\ UNCHANGED <<log, alive, iterators, start>>

Newer(i) == {j \in retained : j > i}

(* DELETE WHERE id <= (SELECT id ORDER BY id DESC LIMIT 1 OFFSET max_keep) *)
prune_notifications_keep_latest(max_keep) ==
    /\ Cardinality(retained) > max_keep
    /\ retained' = {i \in retained : Cardinality(Newer(i)) < max_keep}
    /\ unseen' = TRUE
    /\ UNCHANGED <<log, alive, iterators, start>>

(* Database::listen: reads MAX(id), or 0, and attaches in a second step *)
listen(s) ==
    /\ pc[s] = "off"
    /\ Goto(s, "attach")
    /\ cursor' = [cursor EXCEPT ![s] = Max(retained \cup {0})]
    /\ start' = [start EXCEPT ![s] = Len(log)]
    /\ UNCHANGED <<table, unseen, alive, pending, chan>>

listen_attach(s) ==
    /\ Attach(s)
    /\ UNCHANGED <<table, unseen, alive, cursor, pending, chan, start>>

(* recv, try_next and recv_timeout pop what is pending first. *)
pop_notification(s) ==
    /\ pc[s] = "next"
    /\ PopFront(s)
    /\ UNCHANGED <<table, unseen, alive, pc, chan, start>>

(* Subscription::refill *)
Read(s) ==
    /\ pc[s] = "next"
    /\ pending[s] = {}
    /\ pending' = [pending EXCEPT ![s] = Select(cursor[s], LIMIT)]
    /\ UNCHANGED chan

(* recv: refill, and wait if there was nothing *)
recv(s) ==
    /\ Read(s)
    /\ Goto(s, IF pending'[s] = {} THEN "wait" ELSE "next")
    /\ UNCHANGED <<table, unseen, alive, cursor, start>>

(* try_next: one refill; the first row, or None *)
try_next(s) ==
    /\ Read(s)
    /\ UNCHANGED <<table, unseen, alive, pc, cursor, start>>

recv_woken(s) ==
    /\ TakeTick(s)
    /\ Goto(s, "next")
    /\ UNCHANGED <<table, unseen, alive, cursor, pending, start>>

(* recv_timeout: the deadline passed while it waited for a tick *)
recv_timeout(s) ==
    /\ pc[s] = "wait"
    /\ Goto(s, "next")
    /\ UNCHANGED <<table, unseen, alive, cursor, pending, chan, start>>

recv_closed(s) ==
    /\ Disconnected(s)
    /\ Goto(s, "ended")
    /\ UNCHANGED <<table, unseen, alive, cursor, pending, chan, start>>

(* Drop for Subscription, or the process stops *)
listener_ends(s) ==
    /\ crash(s)
    /\ UNCHANGED <<table, unseen, alive, start>>

Listen(s) == pop_notification(s) \/ recv(s) \/ recv_woken(s) \/ recv_closed(s)

NotificationStep ==
    \/ \E mine \in BOOLEAN : notify(mine)
    \/ \E cut \in 1 .. MaxRows : prune_notifications(cut)
    \/ \E max_keep \in Keeps : prune_notifications_keep_latest(max_keep)
    \/ (announce \/ watcher_dies) /\ UNCHANGED start
    \/ \E s \in Subs :
         \/ listen(s) \/ listen_attach(s) \/ Listen(s)
         \/ try_next(s) \/ recv_timeout(s) \/ listener_ends(s)
=============================================================================

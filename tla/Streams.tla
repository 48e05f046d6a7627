------------------------------ MODULE Streams ------------------------------
(***************************************************************************)
(* Durable streams: _honker_stream, the saved offset of one consumer of    *)
(* one topic in _honker_stream_consumers, and the processes that share the *)
(* consumer's name.  A process iterates a StreamSubscription, or reads a   *)
(* batch with Stream::read_from_consumer and saves its end.                *)
(*                                                                         *)
(* With save_every 0 the caller runs a business transaction per event that *)
(* applies it and calls save_offset_tx, and rolls back when that says 0.   *)
(***************************************************************************)
EXTENDS Updates

CONSTANTS
    SaveEverys,     \* values of save_every_n; 0 disables the automatic saves
    SAVE_FAILS      \* whether the save of next() may fail (SQLITE_BUSY)

ASSUME StreamsAssumption == SaveEverys \subseteq Nat /\ SAVE_FAILS \in BOOLEAN

VARIABLES
    saved,          \* the consumer's row: its offset, 0 without a row
    last_saved,     \* per subscription
    save_every_n,
    given,          \* history: offsets whose event was returned to a caller
    lost,           \* history: offsets next() dropped because their save failed
    applied         \* history, per offset: committed business transactions

svars == <<saved, last_saved, save_every_n, given, lost, applied>>

StreamsInit ==
    /\ saved = 0
    /\ last_saved = [s \in Subs |-> 0]
    /\ save_every_n = [s \in Subs |-> 0]
    /\ given = {}
    /\ lost = {}
    /\ applied = [i \in 1 .. MaxRows |-> 0]

----------------------------------------------------------------------------
(* honker_stream_publish, _save_offset, _get_offset *)

stream_publish(mine) ==
    /\ Insert(mine)
    /\ unseen' = TRUE
    /\ UNCHANGED <<alive, iterators, svars>>

stream_get_offset == saved

MutantAdvances(offset) == offset >= saved
(* The upsert inserts the row, or raises its offset. *)
Advances(offset) == offset > saved

stream_save_offset(offset) ==
    IF Advances(offset) THEN saved' = offset /\ unseen' = TRUE
                        ELSE UNCHANGED <<saved, unseen>>

----------------------------------------------------------------------------
(* StreamSubscription *)

(* Stream::subscribe: reads the offset, and attaches in a second step *)
subscribe(s, every) ==
    /\ pc[s] = "off"
    /\ Goto(s, "attach")
    /\ cursor' = [cursor EXCEPT ![s] = stream_get_offset]
    /\ last_saved' = [last_saved EXCEPT ![s] = stream_get_offset]
    /\ save_every_n' = [save_every_n EXCEPT ![s] = every]
    /\ UNCHANGED <<table, unseen, alive, pending, chan, saved, given, lost, applied>>

attach(s) ==
    /\ Attach(s)
    /\ UNCHANGED <<table, unseen, alive, cursor, pending, chan, svars>>

(* StreamSubscription::save_offset with last_offset = offset *)
save_offset(s, offset) ==
    IF offset > last_saved[s]
    THEN /\ stream_save_offset(offset)
         /\ last_saved' = IF Advances(offset) THEN [last_saved EXCEPT ![s] = offset]
                                              ELSE last_saved
    ELSE UNCHANGED <<saved, unseen, last_saved>>

SaveIsDue(s, offset) ==
    save_every_n[s] > 0 /\ offset - last_saved[s] >= save_every_n[s]

(* next(): pop an event; it is returned, or first the offset is saved *)
next_event(s) ==
    /\ pc[s] = "next"
    /\ PopFront(s)
    /\ IF SaveIsDue(s, cursor'[s])
       THEN Goto(s, "save") /\ UNCHANGED given
       ELSE Goto(s, "handle") /\ given' = given \cup {cursor'[s]}
    /\ UNCHANGED <<table, unseen, alive, chan, saved, last_saved, save_every_n, lost,
                   applied>>

(* ... the save inside next(), before the event is returned *)
next_save(s) ==
    /\ pc[s] = "save"
    /\ save_offset(s, cursor[s])
    /\ Goto(s, "handle")
    /\ given' = given \cup {cursor[s]}
    /\ UNCHANGED <<table, alive, cursor, pending, chan, save_every_n, lost, applied>>

(* ... which fails: next() returns the error instead of the event, which is*)
(* dropped; last_offset has passed it, and the next save will.             *)
next_save_failed(s) ==
    /\ SAVE_FAILS
    /\ pc[s] = "save"
    /\ Goto(s, "next")
    /\ lost' = lost \cup {cursor[s]}
    /\ UNCHANGED <<table, unseen, alive, cursor, pending, chan, saved, last_saved,
                   save_every_n, given, applied>>

(* ... nothing is pending: read from last_offset; if there is nothing, wait *)
refill(s) ==
    /\ pc[s] = "next"
    /\ pending[s] = {}
    /\ pending' = [pending EXCEPT ![s] = Select(cursor[s], LIMIT)]
    /\ Goto(s, IF pending'[s] = {} THEN "wait" ELSE "next")
    /\ UNCHANGED <<table, unseen, alive, cursor, chan, svars>>

woken(s) ==
    /\ TakeTick(s)
    /\ Goto(s, "next")
    /\ UNCHANGED <<table, unseen, alive, cursor, pending, svars>>

next_disconnected(s) ==
    /\ Disconnected(s)
    /\ Goto(s, "ended")
    /\ UNCHANGED <<table, unseen, alive, cursor, pending, chan, svars>>

(* The caller is done with the event and calls next() again. *)
handled(s) ==
    /\ pc[s] = "handle"
    /\ Goto(s, "next")
    /\ UNCHANGED <<table, unseen, alive, cursor, pending, chan, svars>>

(* The caller persists its position itself. *)
explicit_save(s) ==
    /\ pc[s] = "handle"
    /\ save_every_n[s] > 0
    /\ save_offset(s, cursor[s])
    /\ Goto(s, "next")
    /\ UNCHANGED <<table, alive, cursor, pending, chan, save_every_n, given, lost, applied>>

(* The business transaction of an event: apply it and save_offset_tx, and  *)
(* commit if the offset advanced.                                          *)
save_offset_tx(s) ==
    /\ pc[s] = "handle"
    /\ save_every_n[s] = 0
    /\ stream_save_offset(cursor[s])
    /\ applied' = IF Advances(cursor[s]) THEN [applied EXCEPT ![cursor[s]] = @ + 1]
                                         ELSE applied
    /\ Goto(s, "next")
    /\ UNCHANGED <<table, alive, cursor, pending, chan, last_saved, save_every_n, given, lost>>

(* Drop for StreamSubscription: saves, whatever save_every_n is and        *)
(* whether or not the caller was done with the event.                      *)
drop(s) ==
    /\ pc[s] \in {"next", "handle", "ended"}
    /\ save_offset(s, cursor[s])
    /\ Leave(s)
    /\ UNCHANGED <<table, alive, save_every_n, given, lost, applied>>

----------------------------------------------------------------------------
(* Stream::read_from_consumer: the offset, then the rows after it *)

get_offset(s) ==
    /\ pc[s] = "off"
    /\ Goto(s, "read")
    /\ cursor' = [cursor EXCEPT ![s] = stream_get_offset]
    /\ UNCHANGED <<table, unseen, alive, pending, chan, svars>>

read_since(s) ==
    /\ pc[s] = "read"
    /\ Goto(s, "batch")
    /\ pending' = [pending EXCEPT ![s] = Select(cursor[s], LIMIT)]
    /\ given' = given \cup pending'[s]
    /\ UNCHANGED <<table, unseen, alive, cursor, chan, saved, last_saved, save_every_n, lost,
                   applied>>

(* Stream::save_offset with the last offset of the batch *)
save_batch(s) ==
    /\ pc[s] = "batch"
    /\ IF pending[s] = {} THEN UNCHANGED <<saved, unseen>>
                          ELSE stream_save_offset(Max(pending[s]))
    /\ Leave(s)
    /\ UNCHANGED <<table, alive, last_saved, save_every_n, given, lost, applied>>

----------------------------------------------------------------------------
crashed(s) ==
    /\ crash(s)
    /\ UNCHANGED <<table, unseen, alive, svars>>

Iterate(s) ==
    \/ next_event(s) \/ next_save(s) \/ refill(s) \/ woken(s) \/ next_disconnected(s)

StreamStep ==
    \/ \E mine \in BOOLEAN : stream_publish(mine)
    \/ (announce \/ watcher_dies) /\ UNCHANGED svars
    \/ \E s \in Subs :
         \/ \E every \in SaveEverys : subscribe(s, every)
         \/ attach(s) \/ Iterate(s) \/ next_save_failed(s)
         \/ handled(s) \/ explicit_save(s) \/ save_offset_tx(s) \/ drop(s)
         \/ get_offset(s) \/ read_since(s) \/ save_batch(s) \/ crashed(s)
=============================================================================

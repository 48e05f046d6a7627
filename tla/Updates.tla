------------------------------ MODULE Updates ------------------------------
(***************************************************************************)
(* An append-only table with AUTOINCREMENT ids, and the iterators of       *)
(* honker-rs that follow it: each reads the rows of its topic or channel   *)
(* after its cursor, hands them out one by one, and waits for a wake of    *)
(* the update watcher when it has read everything.  Streams and            *)
(* Notifications extend this module with their two iterators.              *)
(*                                                                         *)
(* All iterators follow one topic (one channel); the rows of the others    *)
(* only make gaps in the ids.  The watcher is the promise the module       *)
(* Watchers is about: after a commit every attached iterator gets a tick.  *)
(***************************************************************************)
EXTENDS Integers, FiniteSets, FiniteSetsExt, Sequences

CONSTANTS
    Subs,           \* iterators
    LIMIT,          \* rows a refill reads: 100 of a stream, 1000 notifications
    MaxRows         \* bound: rows ever inserted

ASSUME UpdatesAssumption == LIMIT \in Nat \ {0} /\ MaxRows \in Nat

VARIABLES
    log,            \* the inserted rows: log[id] says whether it is of our topic
    retained,       \* ids not pruned
    unseen,         \* the watcher has not announced the last commit
    alive,          \* the watcher's thread
    pc,             \* per iterator, where its caller is
    cursor,         \* last_offset, last_id
    pending,        \* rows read and not yet handed out
    chan            \* a tick is in rx, a channel of capacity 1

table == <<log, retained>>
iterators == <<pc, cursor, pending, chan>>
uvars == <<table, unseen, alive, iterators>>

UpdatesInit ==
    /\ log = <<>>
    /\ retained = {}
    /\ unseen = FALSE
    /\ alive = TRUE
    /\ pc = [s \in Subs |-> "off"]
    /\ cursor = [s \in Subs |-> 0]
    /\ pending = [s \in Subs |-> {}]
    /\ chan = [s \in Subs |-> FALSE]

Goto(s, next) == pc' = [pc EXCEPT ![s] = next]
Attached(s) == pc[s] \notin {"off", "attach", "read", "batch"}

MutantInsert(mine) ==
    LET id == Max(retained \cup {0}) + 1
    IN  /\ id <= MaxRows
        /\ log' = [i \in 1 .. Max({id, Len(log)}) |-> IF i = id THEN mine ELSE log[i]]
        /\ retained' = retained \cup {id}

(* The INSERT of one row.  AUTOINCREMENT never hands out an id again, and  *)
(* a transaction that inserts rows and rolls back leaves nothing.          *)
Insert(mine) ==
    /\ Len(log) < MaxRows
    /\ log' = Append(log, mine)
    /\ retained' = retained \cup {Len(log) + 1}

RowsAfter(id) == {i \in retained : i > id /\ log[i]}

(* ... WHERE id > cursor AND topic = ? ORDER BY id ASC LIMIT n *)
Select(id, n) == {i \in RowsAfter(id) : Cardinality({j \in RowsAfter(id) : j < i}) < n}

MutantAttach(s) ==
    /\ pc[s] = "attach"
    /\ alive
    /\ Goto(s, "wait")

(* updates.subscribe(): a new, empty channel.  (An iterator that attaches  *)
(* after the thread's death gets no tick: Watchers.)                       *)
Attach(s) ==
    /\ pc[s] = "attach"
    /\ alive
    /\ Goto(s, "next")

PopFront(s) ==
    /\ pending[s] # {}
    /\ cursor' = [cursor EXCEPT ![s] = Min(pending[s])]
    /\ pending' = [pending EXCEPT ![s] = @ \ {Min(@)}]

(* rx.recv() returned Ok: take what else is in the channel, then read again *)
TakeTick(s) ==
    /\ pc[s] = "wait"
    /\ chan[s]
    /\ chan' = [chan EXCEPT ![s] = FALSE]

(* rx.recv() returned Err: the senders were dropped and the channel is empty *)
Disconnected(s) == pc[s] = "wait" /\ ~chan[s] /\ ~alive

(* The iterator is gone. *)
Leave(s) ==
    /\ Goto(s, "off")
    /\ cursor' = [cursor EXCEPT ![s] = 0]
    /\ pending' = [pending EXCEPT ![s] = {}]
    /\ chan' = [chan EXCEPT ![s] = FALSE]

(* The process of an iterator stops between two statements. *)
crash(s) == pc[s] # "off" /\ Leave(s)

(* on_change: a tick for every attached iterator *)
announce ==
    /\ alive
    /\ unseen
    /\ unseen' = FALSE
    /\ chan' = [s \in Subs |-> chan[s] \/ Attached(s)]
    /\ UNCHANGED <<table, alive, pc, cursor, pending>>

(* The watcher's thread ends, and with it every sender. *)
watcher_dies ==
    /\ alive
    /\ alive' = FALSE
    /\ UNCHANGED <<table, unseen, iterators>>

=============================================================================

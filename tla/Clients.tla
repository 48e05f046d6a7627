------------------------------ MODULE Clients ------------------------------
(***************************************************************************)
(* How a subscription to the update watcher is used outside honker-core:   *)
(* Python's UpdateEvents, whose bridge thread carries wakes to an asyncio  *)
(* queue; Node's UpdateEvents, whose next() blocks a worker thread; the    *)
(* handles of the loadable extension, kept in SQL_WATCHERS between the SQL *)
(* calls or owned by a C caller.                                           *)
(*                                                                         *)
(* One subscription, one client.  The watcher is the promise of the module *)
(* Watchers: a commit puts a tick into the channel (of capacity 1), and    *)
(* the death of its thread drops the sender.                               *)
(***************************************************************************)
CONSTANT Callers    \* concurrent calls on a Node object or an SQL handle

VARIABLES
    client,         \* who uses the subscription
    alive,          \* the watcher's thread
    sender,         \* the subscription's sender is in the watcher's map
    tick,           \* a tick is in the channel
    unread,         \* the consumer has not read the last commit
    gil,            \* Python: who has the global interpreter lock
    bridge,         \* Python: the bridge thread
    main,           \* Python: the thread that runs the loop and drops the object
    shutdown,       \* Python: the flag shared with the bridge
    queue,          \* Python: what is in the asyncio queue
    raised,         \* __anext__ raised, or honker_watcher_wait returned -1
    call,           \* Node, SQL, C: where a caller is
    handle          \* the object or handle that stands for the subscription

channel == <<alive, sender, tick, unread>>
python == <<gil, bridge, main, shutdown, queue, raised>>
handles == <<call, handle>>
cvars == <<client, channel, python, handles>>

ClientInit ==
    /\ alive = FALSE
    /\ sender = FALSE
    /\ tick = FALSE
    /\ unread = FALSE
    /\ gil = "nobody"
    /\ bridge = "none"
    /\ main = "runs"
    /\ shutdown = FALSE
    /\ queue = {}
    /\ raised = FALSE
    /\ call = [c \in Callers |-> "idle"]
    /\ handle = "none"

(* A new watcher, and a subscription to it *)
Subscribe ==
    /\ handle' = "stored"
    /\ alive' = TRUE
    /\ sender' = TRUE
    /\ tick' = FALSE
    /\ unread' = FALSE

(* Database.update_events: the first call spawns the watcher.  A second    *)
(* one shares it, dead or alive, and one after close() spawns another.     *)
update_events ==
    /\ client \in {"python", "node"}
    /\ handle = "none"
    /\ Subscribe
    /\ UNCHANGED <<client, python, call>>

(* Database.close takes the watcher first and joins its thread. *)
close_watcher ==
    /\ client \in {"python", "node"}
    /\ alive
    /\ alive' = FALSE
    /\ sender' = FALSE
    /\ UNCHANGED <<client, tick, unread, python, handles>>

(* A commit by anyone, at any time; the sender is gone when the thread is. *)
commit_announced ==
    /\ unread' = TRUE
    /\ tick' = (tick \/ sender)
    /\ UNCHANGED <<client, alive, sender, python, handles>>

watcher_died ==
    /\ alive
    /\ alive' = FALSE
    /\ sender' = FALSE
    /\ UNCHANGED <<client, tick, unread, python, handles>>

----------------------------------------------------------------------------
(* Python: the bridge thread *)

Python == client = "python" /\ UNCHANGED <<client, handles>>
Bridge(from, to) == Python /\ bridge = from /\ bridge' = to

(* Any Python thread may take the lock when it is free, and gives it up. *)
take_gil(who) ==
    /\ Python
    /\ gil = "nobody"
    /\ who = "main" => main = "runs"
    /\ gil' = who
    /\ UNCHANGED <<channel, bridge, main, shutdown, queue, raised>>

drop_gil(who) ==
    /\ Python
    /\ gil = who
    /\ who = "main" => main \in {"runs", "dropped"}
    /\ gil' = "nobody"
    /\ UNCHANGED <<channel, bridge, main, shutdown, queue, raised>>

(* The first __aiter__ or __anext__ starts the bridge. *)
ensure_started ==
    /\ Bridge("none", "recv")
    /\ handle = "stored"
    /\ main = "runs" /\ gil = "main"
    /\ UNCHANGED <<channel, gil, main, shutdown, queue, raised>>

bridge_recv ==
    /\ Bridge("recv", IF tick THEN "woken" ELSE "ended")
    /\ tick \/ ~sender
    /\ tick' = FALSE
    /\ UNCHANGED <<alive, sender, unread, gil, main, shutdown, queue, raised>>

MutantBridgeChecks ==
    /\ \/ Bridge("woken", IF shutdown THEN "exited" ELSE "attach")
       \/ Bridge("ended", "exited")
    /\ UNCHANGED <<channel, gil, main, shutdown, queue, raised>>

(* The shutdown flag is read after recv() and before Python::attach. *)
bridge_checks ==
    /\ \/ Bridge("woken", IF shutdown THEN "exited" ELSE "attach")
       \/ Bridge("ended", IF shutdown THEN "exited" ELSE "attach_ended")
    /\ UNCHANGED <<channel, gil, main, shutdown, queue, raised>>

(* Python::attach waits for the lock. *)
bridge_attaches ==
    /\ Bridge("attach", "put") \/ Bridge("attach_ended", "put_ended")
    /\ gil = "nobody"
    /\ gil' = "bridge"
    /\ UNCHANGED <<channel, main, shutdown, queue, raised>>

(* call_soon_threadsafe(put_nowait, ...): a wake, or the exception that    *)
(* tells the consumer of the watcher's death.                              *)
bridge_puts ==
    /\ \/ Bridge("put", "recv") /\ queue' = queue \cup {"wake"}
       \/ Bridge("put_ended", "exited") /\ queue' = queue \cup {"exception"}
    /\ gil' = "nobody"
    /\ UNCHANGED <<channel, main, shutdown, raised>>

(* __anext__: queue.get(), wakes first; the consumer re-reads on a wake. *)
anext ==
    /\ Python
    /\ main = "runs" /\ gil = "main"
    /\ ~raised
    /\ \/ "wake" \in queue /\ queue' = queue \ {"wake"}
          /\ unread' = FALSE /\ UNCHANGED raised
       \/ queue = {"exception"} /\ queue' = {}
          /\ raised' = TRUE /\ UNCHANGED unread
    /\ UNCHANGED <<alive, sender, tick, gil, bridge, main, shutdown>>

(* Drop, called with the lock held: the flag, unsubscribe, join. *)
drop_flag ==
    /\ Python
    /\ handle = "stored"
    /\ main = "runs" /\ gil = "main"
    /\ main' = "flagged"
    /\ shutdown' = TRUE
    /\ UNCHANGED <<channel, gil, bridge, queue, raised>>

drop_unsubscribe ==
    /\ Python
    /\ main = "flagged"
    /\ main' = IF bridge = "none" THEN "dropped" ELSE "unsubscribed"
    /\ sender' = FALSE
    /\ UNCHANGED <<alive, tick, unread, gil, bridge, shutdown, queue, raised>>

MutantDropDetach ==
    /\ Python
    /\ main = "unsubscribed"
    /\ main' = "joins"
    /\ UNCHANGED <<channel, gil, bridge, shutdown, queue, raised>>

(* py.detach around the join *)
drop_detach ==
    /\ Python
    /\ main = "unsubscribed"
    /\ main' = "joins"
    /\ gil' = "nobody"
    /\ UNCHANGED <<channel, bridge, shutdown, queue, raised>>

drop_join ==
    /\ Python
    /\ main = "joins"
    /\ bridge = "exited"
    /\ gil = "nobody"
    /\ main' = "dropped"
    /\ gil' = "main"
    /\ UNCHANGED <<channel, bridge, shutdown, queue, raised>>

BridgeStep == bridge_recv \/ bridge_checks \/ bridge_attaches \/ bridge_puts
DropStep == drop_unsubscribe \/ drop_detach \/ drop_join
PythonStep ==
    \/ \E who \in {"main", "other"} : take_gil(who) \/ drop_gil(who)
    \/ ensure_started \/ BridgeStep \/ anext \/ drop_flag \/ DropStep

----------------------------------------------------------------------------
(* Node: next() and close() *)

CallGoes(c, from, to) ==
    /\ call[c] = from
    /\ call' = [call EXCEPT ![c] = to]
    /\ UNCHANGED <<client, python>>

next(c) ==
    /\ client = "node"
    /\ handle # "none"
    /\ CallGoes(c, "idle", "spawned")
    /\ UNCHANGED <<channel, handle>>

(* rx.lock(): calls that overlap queue up behind the one that receives. *)
lock_rx(c) ==
    /\ client = "node"
    /\ \A d \in Callers : call[d] # "recv"
    /\ CallGoes(c, "spawned", "recv")
    /\ UNCHANGED <<channel, handle>>

(* recv() returns: the promise resolves or, without a sender, rejects. *)
next_returns(c) ==
    /\ client = "node"
    /\ tick \/ ~sender
    /\ CallGoes(c, "recv", "idle")
    /\ tick' = FALSE
    /\ unread' = (unread /\ ~tick)
    /\ UNCHANGED <<alive, sender, handle>>

MutantCloseEvents ==
    /\ client = "node"
    /\ handle # "none"
    /\ handle' = "closed"
    /\ UNCHANGED <<client, channel, python, call>>

(* close(), and Drop: unsubscribe *)
close_events ==
    /\ client = "node"
    /\ handle # "none"
    /\ handle' = "closed"
    /\ sender' = FALSE
    /\ UNCHANGED <<client, alive, tick, unread, python, call>>

NodeStep ==
    \/ \E c \in Callers : next(c) \/ lock_rx(c) \/ next_returns(c)
    \/ close_events

----------------------------------------------------------------------------
(* The loadable extension *)

(* The handle is out of SQL_WATCHERS, or its pointer given up: unsubscribe. *)
CloseHandle ==
    /\ handle' = "closing"
    /\ sender' = FALSE
    /\ UNCHANGED alive

(* Then close() joins the watcher's thread.  A handle that is dropped in   *)
(* any other way stops its thread as well, by Drop.                        *)
close_joins ==
    /\ handle = "closing"
    /\ handle' = "closed"
    /\ alive' = FALSE
    /\ UNCHANGED <<client, sender, tick, unread, python, call>>

(* honker_update_watcher_open: a probe that fails stores nothing. *)
update_watcher_open ==
    /\ client \in {"sql", "c"}
    /\ handle \in {"none", "closed"}
    /\ Subscribe
    /\ raised' = FALSE
    /\ UNCHANGED <<client, gil, bridge, main, shutdown, queue, call>>

MutantWait(c) ==
    /\ client = "sql"
    /\ handle = "stored"
    /\ CallGoes(c, "idle", "recv")
    /\ handle' = "taken"
    /\ tick' = FALSE
    /\ UNCHANGED <<alive, sender, unread>>

(* honker_update_watcher_wait takes the handle out of SQL_WATCHERS; a call *)
(* that finds none returns -1.                                             *)
update_watcher_wait(c) ==
    /\ client = "sql"
    /\ handle = "stored"
    /\ CallGoes(c, "idle", "recv")
    /\ handle' = "taken"
    /\ UNCHANGED channel

(* A tick or the timeout: the handle goes back. *)
wait_returns(c) ==
    /\ client = "sql"
    /\ tick \/ sender
    /\ CallGoes(c, "recv", "idle")
    /\ handle' = "stored"
    /\ tick' = FALSE
    /\ unread' = (unread /\ ~tick)
    /\ UNCHANGED <<alive, sender>>

(* Disconnected: the handle is closed. *)
wait_disconnected(c) ==
    /\ client = "sql"
    /\ ~tick /\ ~sender
    /\ CallGoes(c, "recv", "idle")
    /\ CloseHandle
    /\ UNCHANGED <<tick, unread>>

(* honker_update_watcher_close, when it finds the handle.  When a wait has *)
(* it, close returns 1 as well and has done nothing: the handle goes back. *)
update_watcher_close ==
    /\ client = "sql"
    /\ handle = "stored"
    /\ CloseHandle
    /\ UNCHANGED <<client, tick, unread, python, call>>

(* honker_watcher_wait on a pointer leaves the handle where it is. *)
watcher_wait ==
    /\ client = "c"
    /\ handle = "stored"
    /\ tick' = FALSE
    /\ unread' = (unread /\ ~tick)
    /\ raised' = (raised \/ (~tick /\ ~sender))
    /\ UNCHANGED <<client, alive, sender, gil, bridge, main, shutdown, queue, handles>>

watcher_close ==
    /\ client = "c"
    /\ handle = "stored"
    /\ CloseHandle
    /\ UNCHANGED <<client, tick, unread, python, call>>

WaitStep(c) == wait_returns(c) \/ wait_disconnected(c)
HandleStep ==
    \/ update_watcher_open \/ update_watcher_close \/ watcher_wait \/ watcher_close
    \/ close_joins
    \/ \E c \in Callers : update_watcher_wait(c) \/ WaitStep(c)

ClientStep ==
    \/ update_events \/ close_watcher \/ commit_announced \/ watcher_died
    \/ PythonStep \/ NodeStep \/ HandleStep

----------------------------------------------------------------------------
(* The bridge and the thread in Drop run on, and the interpreter lets each *)
(* thread that asks for the lock have it; the consumer keeps awaiting the  *)
(* queue.  A worker thread that can receive does.  Users of the extension  *)
(* wait again and again; a close that has begun ends.                      *)
BridgeCanRun ==
    \/ bridge = "recv" /\ (tick \/ ~sender)
    \/ bridge \in {"woken", "ended", "put", "put_ended"}
    \/ bridge \in {"attach", "attach_ended"} /\ gil = "nobody"
DropCanRun ==
    \/ main \in {"flagged", "unsubscribed"}
    \/ main = "joins" /\ bridge = "exited" /\ gil = "nobody"
CallCanRun(c) ==
    \/ call[c] = "recv" /\ (tick \/ ~sender)
    \/ call[c] = "spawned" /\ \A d \in Callers : call[d] # "recv"

ClientFairness ==
    /\ <>[](~BridgeCanRun) \/ []<><<bridge' # bridge>>_cvars
    /\ <>[](~DropCanRun) \/ []<><<main' # main>>_cvars
    /\ []<>(gil = "nobody" \/ (gil = "main" /\ main \notin {"runs", "dropped"}))
    /\ []<>(queue = {} \/ raised \/ main # "runs")
    /\ \A c \in Callers : <>[](~CallCanRun(c)) \/ []<><<call'[c] # call[c]>>_cvars
    /\ []<>(handle # "closing")
    /\ []<>(client = "sql" => handle # "stored")
    /\ []<>(client = "c" /\ handle = "stored" => ~tick /\ (sender \/ raised))

----------------------------------------------------------------------------
(* Drop of Python's UpdateEvents, called with the interpreter lock held,   *)
(* returns although it waits for a bridge that may itself be waiting for   *)
(* that lock, and the bridge is gone by then: it cannot call into an       *)
(* interpreter that is torn down (#16).                                    *)
DropReturns ==
    main = "flagged" ~> main = "dropped" /\ bridge \in {"none", "exited"}

(* The bridge loses neither a wake nor the watcher's death between the     *)
(* channel and the asyncio queue: a consumer reads every commit of a       *)
(* living watcher, or __anext__ raises "instead of hanging on an empty     *)
(* queue", until it drops the object.                                      *)
ConsumerIsTold ==
    client = "python" /\ bridge # "none" /\ (unread \/ ~alive)
        ~> (alive /\ ~unread) \/ raised \/ main # "runs"

(* Node: close() ends every next() that is pending, the ones queued behind *)
(* the receiver's mutex too.                                               *)
CloseEndsNext ==
    \A c \in Callers :
        client = "node" /\ handle = "closed" /\ call[c] # "idle" ~> call[c] = "idle"

(* The extension: a commit between two waits, or during a wait that times  *)
(* out, is not lost with the handle going in and out of SQL_WATCHERS: a    *)
(* user of an open handle who keeps waiting reads it, or gets -1 because   *)
(* the watcher died; nobody goes on waiting on a dead one.                 *)
WaitIsTold ==
    client \in {"sql", "c"} /\ handle \in {"stored", "taken"} /\ (unread \/ ~alive)
        ~> (alive /\ ~unread) \/ raised \/ handle \in {"closing", "closed"}
=============================================================================

------------------------------ MODULE Database ------------------------------
(***************************************************************************)
(* The Database object of the Python and Node bindings: the writer slot    *)
(* and the reader pool, the write transactions that run on the connection  *)
(* of the slot, and close(), which shuts the watcher (Clients), the writer *)
(* and the readers down one after the other while other threads are        *)
(* anywhere in their calls.                                                *)
(*                                                                         *)
(* Between "begins" and "ends" a thread has the connection.  SQLite may    *)
(* refuse BEGIN IMMEDIATE (SQLITE_BUSY), may refuse a COMMIT, and may end  *)
(* a transaction by itself when a statement fails; a ROLLBACK fails only   *)
(* where there is no transaction.                                          *)
(***************************************************************************)
EXTENDS Writer, Readers, FiniteSets

VARIABLE txn        \* the write connection is inside a transaction

vars == <<pc, closes, wvars, rvars, txn>>

Init ==
    /\ pc = [t \in Threads |-> "idle"]
    /\ closes = "open"
    /\ WriterInit
    /\ ReadersInit
    /\ txn = FALSE

(* A step of the thread that has the connection *)
OnConnection(t, from, to) ==
    /\ pc[t] = from
    /\ Goto(t, to)
    /\ UNCHANGED <<closes, wvars, rvars>>

(* Python's Transaction.__enter__ and Node's transaction(), after          *)
(* try_acquire or acquire: BEGIN IMMEDIATE, or give the connection back.   *)
begin_immediate(t) == OnConnection(t, "begins", "inside") /\ txn' = TRUE
begin_fails(t) == OnConnection(t, "begins", "ends") /\ UNCHANGED txn

(* A statement fails and SQLite rolls the whole transaction back. *)
statement_aborts(t) ==
    /\ txn
    /\ OnConnection(t, "inside", "inside")
    /\ txn' = FALSE

(* __exit__ without an exception, Node's commit() *)
commit(t) ==
    /\ txn
    /\ OnConnection(t, "inside", "ends")
    /\ txn' = FALSE

MutantCommitFails(t) == OnConnection(t, "inside", "ends") /\ UNCHANGED txn

(* COMMIT fails, as it does where the transaction is gone; ROLLBACK. *)
commit_fails(t) == OnConnection(t, "inside", "ends") /\ txn' = FALSE

(* __exit__ with an exception, Node's rollback() *)
rollback(t) == OnConnection(t, "inside", "ends") /\ txn' = FALSE

(* The Transaction object is dropped before it was ended. *)
drop_transaction(t) == OnConnection(t, "inside", "ends") /\ txn' = FALSE

(* Node's prune_notifications, a transaction that goes to acquire at once; *)
(* what fails in it is rolled back before the release.                     *)
prune_notifications(t) ==
    /\ pc[t] = "idle"
    /\ Goto(t, "acquire")
    /\ UNCHANGED <<closes, wvars, rvars, txn>>

Transaction(t) ==
    \/ begin_immediate(t) \/ begin_fails(t) \/ statement_aborts(t)
    \/ commit(t) \/ commit_fails(t) \/ rollback(t) \/ drop_transaction(t)

Step(t) ==
    \/ WriterStep(t) /\ UNCHANGED <<rvars, txn>>
    \/ ReaderStep(t) /\ UNCHANGED <<wvars, txn>>
    \/ Transaction(t)

CloseGoesOn ==
    \/ close_slot /\ UNCHANGED <<rvars, txn>>
    \/ (close_readers_flag \/ close_pool \/ close_notify) /\ UNCHANGED <<wvars, txn>>

Next ==
    \/ \E t \in Threads :
         \/ Step(t)
         \/ try_acquire(t) /\ UNCHANGED <<rvars, txn>>
         \/ query(t) /\ UNCHANGED <<wvars, txn>>
         \/ prune_notifications(t)
    \/ close /\ UNCHANGED <<rvars, txn>>
    \/ CloseGoesOn

Spec == Init /\ [][Next]_vars

(* A thread that is not asleep goes on: its calls return, its transaction  *)
(* is ended and its connection given back.  close() runs to its end.       *)
(* Nobody has to start a call.                                             *)
Moves(t) == pc'[t] # pc[t]
Fairness ==
    /\ \A t \in Threads :
         []<>(pc[t] \in {"idle", "waits", "sleeps"}) \/ []<><<Moves(t)>>_vars
    /\ []<>(closes \in {"open", "closed"}) \/ []<><<closes' # closes>>_vars

----------------------------------------------------------------------------
Holders == At({"begins", "inside", "ends", "releases"})

(* Writer: the write connection is in one place.  Never two threads of one *)
(* process have it, and it is not lost while the writer is open.           *)
OneConnection ==
    /\ \A t, u \in Holders : t = u
    /\ slot => Holders = {}
    /\ ~writer_closed => slot \/ Holders # {}

(* Transaction: the connection is never given back, or handed to the next  *)
(* caller, with a transaction still open on it, whether the block ended by *)
(* a commit that failed, an exception, a drop or an abort inside SQLite.   *)
CleanConnection == txn => At({"inside"}) # {}

(* Who gets the write connection gets it alone and without a transaction   *)
(* on it, whatever failed, was dropped or was closed before.               *)
OneCleanConnection == OneConnection /\ CleanConnection

(* Writer.release: no lost wakeup.  When the connection is in the slot and *)
(* a thread sleeps on the condvar, another one is on its way to take it,   *)
(* or close() is about to wake everybody.                                  *)
NoStrandedWriter ==
    slot /\ At({"waits"}) # {} =>
        closes = "writer_flag" \/ At({"acquire", "tries"}) # {}

(* Writer.close: "Wakes any blocked acquire() callers; they observe the    *)
(* closed flag and return None".  A close() that runs while threads enter  *)
(* acquire or sleep on the condvar leaves none of them blocked.            *)
CloseEndsAcquire ==
    \A t \in Threads :
        writer_closed /\ pc[t] \in {"acquire", "waits"} ~> pc[t] = "idle"

(* Readers: never more than max connections are open, and while the pool   *)
(* is open each unit of outstanding is a pooled, held or half-opened       *)
(* connection.  An open that fails or races close() gives its slot back    *)
(* ("every transient open failure permanently shrinks max_readers").       *)
CapacityKept ==
    LET open == pool + Cardinality(At({"opens", "opened", "reads", "returns"}))
    IN  /\ outstanding <= max
        /\ open <= outstanding
        /\ ~readers_closed => open = outstanding

(* Readers.release: no lost wakeup.  A pooled connection and a sleeping    *)
(* thread mean that another thread is on its way to the pool.              *)
NoStrandedReader ==
    pool > 0 /\ At({"sleeps"}) # {} =>
        readers_closed \/ At({"checks", "locks"}) # {}

(* Writer.release and Readers.release: notify_one is enough.  Nobody sleeps*)
(* beside a connection that nobody is on the way to take.                  *)
NobodyStranded == NoStrandedWriter /\ NoStrandedReader

(* Readers.close: "Wakes any blocked acquire() callers; they observe the   *)
(* closed flag and return the closed sentinel."  When close() has returned *)
(* nobody sleeps in the pool.                                              *)
CloseEndsQueries == closes = "closed" => At({"sleeps"}) = {}
=============================================================================

------------------------------ MODULE Watchers ------------------------------
(***************************************************************************)
(* The update watcher with each of its backends.  WatcherBackend is chosen *)
(* when the database is opened and never changes.                          *)
(***************************************************************************)
EXTENDS PollWatcher, KernelWatcher, ShmWatcher

VARIABLE backend

vars == <<backend, fvars, pvars, kvars, svars>>

(* The state of a backend that is not in use *)
NoPoll == conn = "none" /\ changed = FALSE
NoKernel ==
    /\ notifier = "none" /\ log = FALSE /\ events = {}
    /\ watched_dir = FALSE /\ watched_log = "no" /\ opened = "no"
NoShm ==
    /\ shm = 0 /\ fds = {} /\ closed_fds = {} /\ fd = 0 /\ unread = FALSE
    /\ shm_id = 0 /\ new_fd = 0 /\ new_unread = FALSE

Init ==
    /\ FanInit
    /\ IdentityInit
    /\ \/ backend = "polling" /\ PollInit /\ NoKernel /\ NoShm
       \/ backend = "kernel" /\ NoPoll /\ KernelInit /\ NoShm
       \/ backend = "shm" /\ NoPoll /\ NoKernel /\ ShmInit

Poll == backend = "polling" /\ PollStep /\ UNCHANGED <<backend, kvars, svars>>
Kernel == backend = "kernel" /\ KernelStep /\ UNCHANGED <<backend, pvars, svars>>
Shm == backend = "shm" /\ ShmStep /\ UNCHANGED <<backend, pvars, kvars>>

(* Each iteration of the poll loop and of the kernel loops gets to the     *)
(* check; the shm loop only gets there after a successful read.            *)
identity_check == check_db_identity(IF backend = "shm" THEN "checks" ELSE "loops")

Fan == (FanStep \/ identity_check) /\ UNCHANGED <<backend, pvars, kvars, svars>>

Next == Poll \/ Kernel \/ Shm \/ Fan

Spec == Init /\ [][Next]_vars

(* The watcher thread runs and sleeps a bounded time, whatever it meets:   *)
(* an iteration with an event takes it or reports an error, and one that   *)
(* gets to the identity check makes it every 100 ms, with a stat(2) that   *)
(* does not fail for ever.  A subscriber keeps calling recv; a close() that*)
(* has cleared the senders goes on to stop.  Commits, closing and reads    *)
(* that succeed are not promised.                                          *)
Detect ==
    \/ backend = "polling" /\ (poll \/ reconnect) /\ UNCHANGED <<backend, kvars, svars>>
    \/ backend = "kernel" /\ add_vnode /\ UNCHANGED <<backend, pvars, svars>>
    \/ backend = "shm" /\ ShmLoop /\ UNCHANGED <<backend, pvars, kvars>>

TakeEvent ==
    /\ backend = "kernel" /\ events # {}
    /\ event \/ event_error
    /\ UNCHANGED <<backend, pvars, svars>>

Thread(A) == A /\ UNCHANGED <<backend, pvars, kvars, svars>>

FairSpec ==
    /\ Spec
    /\ WF_vars(Detect)
    /\ SF_vars(TakeEvent)
    /\ WF_vars(Thread(on_change))
    /\ WF_vars(Thread(death_guard))
    /\ WF_vars(Thread(close_stop))
    /\ SF_vars(Thread(identity_check))
    /\ SF_vars(Thread(observe_stop))
    /\ \A s \in Subscribers : WF_vars(Thread(Receive(s)))

----------------------------------------------------------------------------
(* Type invariant of the watcher thread, its subscribers and its backends, *)
(* with the states a backend's variables can be in while it runs.          *)
TypeOK ==
    /\ backend \in {"polling", "kernel", "shm"}
    /\ thread \in {"loops", "attaches", "reattaches", "checks", "reopens", "fans", "wakes",
                   "unwinds", "dead"}
    /\ mismatch \in BOOLEAN
    /\ closing \in {"no", "cleared", "stopped"}
    /\ senders \subseteq Subscribers
    /\ chan \in [Subscribers -> BOOLEAN]
    /\ sub \in [Subscribers -> {"none", "open", "late", "gone"}]
    /\ behind \in [Subscribers -> {"no", "blind", "sighted"}]
    /\ conn \in {"none", "current", "stale"} /\ changed \in BOOLEAN
    /\ notifier \in {"none", "inotify", "kqueue"}
    /\ log \in BOOLEAN /\ watched_dir \in BOOLEAN
    /\ watched_log \in {"no", "refused", "current", "old", "dead"}
    /\ opened \in {"no", "current", "old"}
    /\ events \subseteq {"change", "gone"}
    /\ {shm, fd, shm_id, new_fd} \subseteq 0 .. MaxShm
    /\ fds \subseteq 1 .. MaxShm /\ Cardinality(fds) <= MAX_RETAINED_SHM_FDS
    /\ closed_fds \subseteq 1 .. MaxShm
    /\ unread \in BOOLEAN /\ new_unread \in BOOLEAN
    /\ thread = "reopens" <=> new_fd # 0
    /\ thread \in {"attaches", "reattaches"} <=> opened # "no"

(* The running thread has something left to notice or to announce. *)
Pending ==
    \/ thread \in {"attaches", "reopens", "fans", "wakes"}
    \/ backend = "polling" /\ changed /\ conn # "none"
    \/ backend = "kernel" /\ events # {}
    \/ backend = "shm" /\ unread

(* A subscriber is never left waiting, with nothing on its way to it, on a *)
(* commit the backend could detect when it was made: a failing query or    *)
(* stat(2), a reconnect, a deleted log or a re-created -shm may hide later *)
(* commits, never one the loop had in sight.                               *)
OnlyBlindCommitsMissed ==
    \A s \in Subscribers :
      /\ sub[s] = "open" /\ s \in senders /\ ~chan[s]
      /\ thread \notin {"unwinds", "dead"} /\ ~Pending
      => behind[s] # "sighted"

(* However often SQLite deletes and re-creates the log, the kernel backend *)
(* is blind to the current one for only two reasons: a watch was refused,  *)
(* or a log was deleted between open_event_fd and EV_ADD, which leaves     *)
(* kqueue with a watch that is dead for good.  Otherwise the current log is*)
(* watched, is about to be, or an event is still to come that attaches it  *)
(* before it wakes anyone.                                                 *)
LogWatchedOrAnnounced ==
    /\ backend = "kernel" /\ log
    /\ watched_dir /\ watched_log \notin {"refused", "dead"}
    /\ thread \notin {"unwinds", "dead"}
    => LogWatched \/ opened = "current" \/ events # {}

(* ShmFdRegistry never closes a descriptor of the file that -shm names, on *)
(* which SQLite holds locks in this process, nor one that a watcher reads  *)
(* (issue #80).  Inodes that lost their name never get it back.            *)
NamedNeverClosed == backend = "shm" => {shm, fd, new_fd} \cap closed_fds = {}

(* A descriptor in use is one the registry retains: dropping it in the     *)
(* loop, at a reopen or at shutdown, closes nothing.                       *)
ReadThroughRegistry == backend = "shm" => {fd, new_fd} \ {0} \subseteq fds

(* Together, and with its limit kept by refusing to open rather than by    *)
(* closing: ShmFdRegistry never costs SQLite a lock.                       *)
RegistryKeepsLocks ==
    /\ NamedNeverClosed
    /\ ReadThroughRegistry
    /\ Cardinality(fds) <= MAX_RETAINED_SHM_FDS

(* A detectable commit reaches every subscriber: it reads it, or learns    *)
(* that the watcher is gone.                                               *)
SightedCommitIsSeen ==
    \A s \in Subscribers : behind[s] = "sighted" ~> behind[s] # "sighted"

(* A close() ends the thread it waits for, whatever the thread is doing,   *)
(* and once another file is in the database's place the identity check ends*)
(* it.  The shm loop skips that check in every iteration whose header read *)
(* fails, so there the second half needs reads that succeed now and then.  *)
ThreadEnds ==
    /\ closing = "cleared" ~> thread = "dead"
    /\ (backend = "shm" => []<>(thread = "checks")) => (mismatch ~> thread = "dead")

(* A subscriber that was there when the thread died is disconnected.       *)
DeathDisconnects ==
    \A s \in Subscribers :
      sub[s] = "open" /\ thread = "dead" ~> sub[s] = "gone"
=============================================================================

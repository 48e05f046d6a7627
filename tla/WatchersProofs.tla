--------------------------- MODULE WatchersProofs ---------------------------
(***************************************************************************)
(* Safety of the update watcher for any number of subscribers, with each   *)
(* of its backends, and with failures allowed or not.                      *)
(*                                                                         *)
(* A backend may do three things to a wake that is on its way: leave it,   *)
(* turn it into another one (an event into "on_change is due"), or hand it *)
(* to the channels.  The invariant says so for each backend.               *)
(***************************************************************************)
EXTENDS Watchers, FiniteSetTheorems, TLAPS

(* Only an open subscriber can be behind. *)
BehindIsOpen == \A s \in Subscribers : behind[s] # "no" => sub[s] = "open"

FanInv == BehindIsOpen /\ OnlyBlindCommitsMissed

(* A deleted log that kqueue still watches has a deletion event to come,   *)
(* and one that was deleted while attach_path had it open can only be      *)
(* re-created under the eyes of a watched directory.                       *)
KernelInv ==
    backend = "kernel" =>
      /\ notifier \in {"inotify", "kqueue"}
      /\ notifier = "kqueue" /\ watched_log = "old" => "gone" \in events
      /\ opened # "no" => notifier = "kqueue" /\ watched_log \in {"no", "refused"}
      /\ opened = "current" => log

(* Inodes are closed only after they lost their name. *)
ShmInv ==
    backend = "shm" =>
      /\ shm \in 1 .. MaxShm /\ fd \in fds
      /\ fds \subseteq 1 .. shm
      /\ closed_fds \subseteq 1 .. (shm - 1)

(* TypeOK, part by part *)
FanTypes ==
    /\ backend \in {"polling", "kernel", "shm"}
    /\ thread \in {"loops", "attaches", "reattaches", "checks", "reopens", "fans", "wakes",
                   "unwinds", "dead"}
    /\ mismatch \in BOOLEAN
    /\ closing \in {"no", "cleared", "stopped"}
    /\ senders \subseteq Subscribers
    /\ chan \in [Subscribers -> BOOLEAN]
    /\ sub \in [Subscribers -> {"none", "open", "late", "gone"}]
    /\ behind \in [Subscribers -> {"no", "blind", "sighted"}]

PollTypes == conn \in {"none", "current", "stale"} /\ changed \in BOOLEAN

KernelTypes ==
    /\ notifier \in {"none", "inotify", "kqueue"}
    /\ log \in BOOLEAN /\ watched_dir \in BOOLEAN
    /\ watched_log \in {"no", "refused", "current", "old", "dead"}
    /\ opened \in {"no", "current", "old"}
    /\ events \subseteq {"change", "gone"}

ShmTypes ==
    /\ {shm, fd, shm_id, new_fd} \subseteq 0 .. MaxShm
    /\ fds \subseteq 1 .. MaxShm /\ Cardinality(fds) <= MAX_RETAINED_SHM_FDS
    /\ closed_fds \subseteq 1 .. MaxShm
    /\ unread \in BOOLEAN /\ new_unread \in BOOLEAN

ReopenInv ==
    /\ (thread = "reopens" <=> new_fd # 0)
    /\ thread \in {"attaches", "reattaches"} <=> opened # "no"

WatchersInv ==
    /\ TypeOK
    /\ FanInv
    /\ KernelInv /\ LogWatchedOrAnnounced
    /\ ShmInv /\ NamedNeverClosed /\ ReadThroughRegistry

----------------------------------------------------------------------------
LEMMA Types == TypeOK <=> FanTypes /\ PollTypes /\ KernelTypes /\ ShmTypes /\ ReopenInv
  BY DEF TypeOK, FanTypes, PollTypes, KernelTypes, ShmTypes, ReopenInv

LEMMA TypesNext ==
  TypeOK' <=> FanTypes' /\ PollTypes' /\ KernelTypes' /\ ShmTypes' /\ ReopenInv'
  BY DEF TypeOK, FanTypes, PollTypes, KernelTypes, ShmTypes, ReopenInv

LEMMA WatchersInit == Init => WatchersInv
  <1> SUFFICES ASSUME Init PROVE WatchersInv
    OBVIOUS
  <1>1. /\ closing = "no" /\ senders = {} /\ mismatch \in BOOLEAN
        /\ chan = [s \in Subscribers |-> FALSE] /\ sub = [s \in Subscribers |-> "none"]
        /\ behind = [s \in Subscribers |-> "no"]
    BY FanoutAssumption, Zenon DEF Init, FanInit, IdentityInit
  <1>2. /\ Cardinality({}) = 0 /\ Cardinality({1}) = 1
        /\ MaxShm \in Nat /\ MaxShm >= 1
        /\ MAX_RETAINED_SHM_FDS \in Nat /\ MAX_RETAINED_SHM_FDS >= 1
    <2>1. Cardinality({}) = 0
      BY FS_EmptySet
    <2>2. Cardinality({1}) = 1
      BY FS_Singleton
    <2>3. MaxShm \in Nat \ {0} /\ MAX_RETAINED_SHM_FDS \in Nat \ {0}
      BY ShmAssumption
    <2> QED
      BY <2>1, <2>2, <2>3
  <1>3. CASE backend = "polling" /\ PollInit /\ NoKernel /\ NoShm
    <2>1. TypeOK
      <3>1. PollTypes /\ thread = "loops"
        BY <1>3, FanoutAssumption, Zenon DEF PollInit, PollTypes
      <3>2. KernelTypes /\ opened = "no"
        BY <1>3, Zenon DEF NoKernel, KernelTypes
      <3>3. ShmTypes /\ new_fd = 0
        <4>1. shm = 0 /\ fd = 0 /\ shm_id = 0 /\ new_fd = 0 /\ fds = {} /\ closed_fds = {}
          BY <1>3 DEF NoShm
        <4>2. unread \in BOOLEAN /\ new_unread \in BOOLEAN
          BY <1>3, Zenon DEF NoShm
        <4>3. {shm, fd, shm_id, new_fd} \subseteq 0 .. MaxShm
          BY <1>2, <4>1
        <4>4. Cardinality(fds) <= MAX_RETAINED_SHM_FDS
          BY <1>2, <4>1
        <4> QED
          BY <4>1, <4>2, <4>3, <4>4 DEF ShmTypes
      <3>4. FanTypes
        BY <1>1, <1>3, <3>1 DEF FanTypes
      <3> QED
        BY <3>1, <3>2, <3>3, <3>4, Types DEF ReopenInv
    <2> QED
      BY <1>1, <1>3, <2>1 DEF WatchersInv, FanInv, BehindIsOpen, OnlyBlindCommitsMissed,
         KernelInv, LogWatchedOrAnnounced, ShmInv, NamedNeverClosed, ReadThroughRegistry
  <1>4. CASE backend = "kernel" /\ NoPoll /\ KernelInit /\ NoShm
    <2>1. TypeOK
      <3>1. PollTypes
        BY <1>4, Zenon DEF NoPoll, PollTypes
      <3>2. KernelTypes /\ opened = "no" /\ thread \in {"loops", "dead"}
        BY <1>4, FanoutAssumption, Zenon DEF KernelInit, KernelTypes
      <3>3. ShmTypes /\ new_fd = 0
        <4>1. shm = 0 /\ fd = 0 /\ shm_id = 0 /\ new_fd = 0 /\ fds = {} /\ closed_fds = {}
          BY <1>4 DEF NoShm
        <4>2. unread \in BOOLEAN /\ new_unread \in BOOLEAN
          BY <1>4, Zenon DEF NoShm
        <4>3. {shm, fd, shm_id, new_fd} \subseteq 0 .. MaxShm
          BY <1>2, <4>1
        <4>4. Cardinality(fds) <= MAX_RETAINED_SHM_FDS
          BY <1>2, <4>1
        <4> QED
          BY <4>1, <4>2, <4>3, <4>4 DEF ShmTypes
      <3>4. FanTypes
        BY <1>1, <1>4, <3>2 DEF FanTypes
      <3> QED
        BY <3>1, <3>2, <3>3, <3>4, Types DEF ReopenInv
    <2>2. KernelInv /\ LogWatchedOrAnnounced
      BY <1>4, FanoutAssumption DEF KernelInit, KernelInv, LogWatchedOrAnnounced, LogWatched
    <2> QED
      BY <1>1, <1>4, <2>1, <2>2 DEF WatchersInv, FanInv, BehindIsOpen, OnlyBlindCommitsMissed,
         ShmInv, NamedNeverClosed, ReadThroughRegistry
  <1>5. CASE backend = "shm" /\ NoPoll /\ NoKernel /\ ShmInit
    <2>1. TypeOK
      <3>1. PollTypes
        BY <1>5, Zenon DEF NoPoll, PollTypes
      <3>2. KernelTypes /\ opened = "no"
        BY <1>5, Zenon DEF NoKernel, KernelTypes
      <3>3. ShmTypes /\ new_fd = 0 /\ thread \in {"loops", "dead"}
        <4>1. /\ shm \in 1 .. MaxShm /\ fd = 1 /\ shm_id = shm /\ new_fd = 0 /\ fds = {1}
              /\ closed_fds = {}
          BY <1>2, <1>5 DEF ShmInit
        <4>2. unread \in BOOLEAN /\ new_unread \in BOOLEAN /\ thread \in {"loops", "dead"}
          BY <1>5, FanoutAssumption, Zenon DEF ShmInit
        <4>3. {shm, fd, shm_id, new_fd} \subseteq 0 .. MaxShm /\ fds \subseteq 1 .. MaxShm
          BY <1>2, <4>1
        <4>4. Cardinality(fds) <= MAX_RETAINED_SHM_FDS
          BY <1>2, <4>1
        <4> QED
          BY <4>1, <4>2, <4>3, <4>4 DEF ShmTypes
      <3>4. FanTypes
        BY <1>1, <1>5, <3>3 DEF FanTypes
      <3> QED
        BY <3>1, <3>2, <3>3, <3>4, Types DEF ReopenInv
    <2>2. ShmInv /\ NamedNeverClosed /\ ReadThroughRegistry
      <3>1. /\ shm \in 1 .. MaxShm /\ fd = 1 /\ new_fd = 0 /\ fds = {1} /\ closed_fds = {}
        BY <1>2, <1>5 DEF ShmInit
      <3>2. fds \subseteq 1 .. shm
        BY <1>2, <3>1
      <3> QED
        BY <3>1, <3>2 DEF ShmInv, NamedNeverClosed, ReadThroughRegistry
    <2> QED
      BY <1>1, <1>5, <2>1, <2>2 DEF WatchersInv, FanInv, BehindIsOpen, OnlyBlindCommitsMissed,
         KernelInv, LogWatchedOrAnnounced
  <1> QED
    BY <1>3, <1>4, <1>5 DEF Init

----------------------------------------------------------------------------
(* The thread and the subscribers leave the backend's state. *)
LEMMA FanKeeps ==
  ASSUME WatchersInv, FanStep \/ identity_check, UNCHANGED <<backend, pvars, kvars, svars>>
  PROVE  WatchersInv'
  <1>0. UNCHANGED <<conn, changed, notifier, log, watched_dir, watched_log, opened, events, shm, fds,
                    closed_fds, fd, unread, shm_id, new_fd, new_unread, backend>>
    BY DEF pvars, kvars, svars
  <1>1. CASE identity_check \/ observe_stop \/ death_guard
    <2>1. TypeOK'
      <3>1. /\ FanTypes'
            /\ thread \notin {"reopens", "attaches", "reattaches"}
            /\ thread' \notin {"reopens", "attaches", "reattaches"}
        BY <1>0, <1>1, Types DEF WatchersInv, FanTypes, identity_check, check_db_identity,
           observe_stop, death_guard, Goto, subs
      <3> QED
        BY <1>0, <3>1, Types, TypesNext
           DEF WatchersInv, PollTypes, KernelTypes, ShmTypes, ReopenInv
    <2>2. FanInv' /\ thread' \in {"unwinds", "dead"}
      BY <1>1 DEF WatchersInv, TypeOK, FanInv, BehindIsOpen, OnlyBlindCommitsMissed, Pending,
         identity_check, check_db_identity, observe_stop, death_guard, Goto, subs
    <2> QED
      BY <1>0, <2>1, <2>2 DEF WatchersInv, KernelInv, LogWatchedOrAnnounced, ShmInv,
         NamedNeverClosed, ReadThroughRegistry
  <1>2. CASE on_change
    <2>1. TypeOK'
      <3>1. /\ FanTypes'
            /\ thread \notin {"reopens", "attaches", "reattaches"}
            /\ thread' \notin {"reopens", "attaches", "reattaches"}
        BY <1>0, <1>2, Types DEF WatchersInv, FanTypes, on_change, Goto
      <3> QED
        BY <1>0, <3>1, Types, TypesNext
           DEF WatchersInv, PollTypes, KernelTypes, ShmTypes, ReopenInv
    <2>2. FanInv'
      BY <1>0, <1>2, Zenon DEF WatchersInv, TypeOK, FanInv, BehindIsOpen, OnlyBlindCommitsMissed, Pending,
         on_change, Goto
    <2>3. thread \in {"fans", "wakes"}
      BY <1>2 DEF on_change
    <2> QED
      BY <1>0, <2>1, <2>2, <2>3 DEF WatchersInv, KernelInv, LogWatchedOrAnnounced, LogWatched,
         ShmInv, NamedNeverClosed, ReadThroughRegistry
  <1>3. CASE \/ close_clear \/ close_stop
             \/ \E s \in Subscribers :
                  subscribe(s) \/ unsubscribe(s) \/ drop_receiver(s) \/ Receive(s)
    <2>1. TypeOK' /\ thread' = thread
      <3>0. FanTypes
        BY Types DEF WatchersInv
      <3>1. ASSUME close_clear \/ close_stop
            PROVE  FanTypes' /\ thread' = thread
        BY <1>0, <3>0, <3>1 DEF FanTypes, close_clear, close_stop, subs
      <3>2. ASSUME NEW s \in Subscribers, subscribe(s)
            PROVE  FanTypes' /\ thread' = thread
        BY <1>0, <3>0, <3>2 DEF FanTypes, subscribe
      <3>3. ASSUME NEW s \in Subscribers, unsubscribe(s) \/ drop_receiver(s) \/ Receive(s)
            PROVE  FanTypes' /\ thread' = thread
        BY <1>0, <3>0, <3>3, Zenon DEF FanTypes, unsubscribe, drop_receiver, Receive, recv,
           recv_disconnected, Forget
      <3>4. FanTypes' /\ thread' = thread
        BY <1>3, <3>1, <3>2, <3>3
      <3> QED
        BY <1>0, <3>4, Types, TypesNext
           DEF WatchersInv, PollTypes, KernelTypes, ShmTypes, ReopenInv
    <2>2. FanInv'
      <3>1. CASE close_clear \/ close_stop
        BY <1>0, <3>1 DEF WatchersInv, TypeOK, FanInv, BehindIsOpen, OnlyBlindCommitsMissed,
           Pending, close_clear, close_stop, subs
      <3>2. ASSUME NEW s \in Subscribers, subscribe(s)
            PROVE  FanInv'
        BY <1>0, <3>2, Zenon DEF WatchersInv, TypeOK, FanInv, BehindIsOpen, OnlyBlindCommitsMissed,
           Pending, subscribe
      <3>3. ASSUME NEW s \in Subscribers, unsubscribe(s) \/ drop_receiver(s) \/ Receive(s)
            PROVE  FanInv'
        BY <1>0, <3>3 DEF WatchersInv, TypeOK, FanInv, BehindIsOpen, OnlyBlindCommitsMissed,
           Pending, unsubscribe, drop_receiver, Receive, recv, recv_disconnected, Forget
      <3> QED
        BY <1>3, <3>1, <3>2, <3>3
    <2> QED
      BY <1>0, <2>1, <2>2 DEF WatchersInv, KernelInv, LogWatchedOrAnnounced, LogWatched,
         ShmInv, NamedNeverClosed, ReadThroughRegistry
  <1> QED
    BY <1>1, <1>2, <1>3 DEF FanStep

(* A backend that sees a commit has it pending; one that does not leaves   *)
(* a subscriber blind at most.                                             *)
LEMMA CommitKeepsFan ==
  ASSUME TypeOK, FanInv, NEW sighted \in BOOLEAN, Committed(sighted),
         UNCHANGED <<thread, senders, chan, sub>>,
         thread \notin {"unwinds", "dead"} => (sighted => Pending') /\ (Pending => Pending')
  PROVE  FanInv' /\ behind' \in [Subscribers -> {"no", "blind", "sighted"}]
  BY DEF TypeOK, FanInv, BehindIsOpen, OnlyBlindCommitsMissed, Committed

(* A step of a backend that keeps what is pending, or turns it into a wake *)
(* that is due.                                                            *)
LEMMA BackendKeepsFan ==
  ASSUME TypeOK, FanInv, UNCHANGED subs, Pending => Pending' \/ thread' \in {"unwinds", "dead"},
         thread \in {"unwinds", "dead"} => thread' \in {"unwinds", "dead"}
  PROVE  FanInv'
  BY DEF TypeOK, FanInv, BehindIsOpen, OnlyBlindCommitsMissed, Pending, subs

----------------------------------------------------------------------------
LEMMA PollKeeps ==
  ASSUME WatchersInv, Poll
  PROVE  WatchersInv'
  <1>0. /\ backend = "polling" /\ TypeOK /\ FanInv
        /\ UNCHANGED <<notifier, log, watched_dir, watched_log, opened, events, shm, fds, closed_fds, fd,
                       unread, shm_id, new_fd, new_unread, backend>>
    BY DEF WatchersInv, Poll, kvars, svars
  <1>1. TypeOK' /\ FanInv'
    <2>1. CASE poll_commit
      <3>1. FanInv' /\ behind' \in [Subscribers -> {"no", "blind", "sighted"}]
        BY <1>0, <2>1, CommitKeepsFan, Zenon DEF poll_commit, Pending
      <3>2. FanTypes' /\ PollTypes' /\ thread' = thread
        BY <1>0, <2>1, <3>1, Types DEF FanTypes, PollTypes, poll_commit
      <3> QED
        BY <1>0, <3>1, <3>2, Types, TypesNext DEF KernelTypes, ShmTypes, ReopenInv
    <2>2. CASE poll_replace_file \/ poll \/ poll_failed \/ reconnect
      <3>1. UNCHANGED subs /\ (thread' = thread \/ thread = "loops")
        BY <2>2 DEF poll_replace_file, poll, poll_failed, reconnect, fvars
      <3>2. Pending => Pending'
        BY <1>0, <2>2 DEF Pending, poll_replace_file, poll, poll_failed, reconnect, Goto, fvars
      <3>3. FanInv'
        BY <1>0, <3>1, <3>2, BackendKeepsFan
      <3>4. FanTypes' /\ PollTypes'
        BY <1>0, <2>2, Types, Zenon DEF FanTypes, PollTypes, poll_replace_file, poll, poll_failed,
           reconnect, Goto, fvars, subs
      <3>5. \/ thread' = thread
            \/ {thread, thread'} \cap {"reopens", "attaches", "reattaches"} = {}
        BY <2>2 DEF poll_replace_file, poll, poll_failed, reconnect, Goto, fvars
      <3> QED
        BY <1>0, <3>3, <3>4, <3>5, Types, TypesNext, Zenon DEF KernelTypes, ShmTypes, ReopenInv
    <2> QED
      BY <2>1, <2>2 DEF Poll, PollStep, PollLoop
  <1> QED
    BY <1>0, <1>1 DEF WatchersInv, KernelInv, LogWatchedOrAnnounced, ShmInv, NamedNeverClosed,
       ReadThroughRegistry

(* Attaching leaves the log watched, unless a deleted one still is or a    *)
(* watch was refused.                                                      *)
LEMMA KernelKeeps ==
  ASSUME WatchersInv, Kernel
  PROVE  WatchersInv'
  <1>0. /\ backend = "kernel" /\ TypeOK /\ FanInv
        /\ UNCHANGED <<conn, changed, shm, fds, closed_fds, fd,
                       unread, shm_id, new_fd, new_unread, backend>>
    BY DEF WatchersInv, Kernel, pvars, svars
  <1>1. TypeOK' /\ FanInv'
    <2>1. CASE kernel_commit
      <3>1. FanInv' /\ behind' \in [Subscribers -> {"no", "blind", "sighted"}]
        BY <1>0, <2>1, CommitKeepsFan, Zenon DEF kernel_commit, Pending, LogWatched
      <3>2. FanTypes' /\ KernelTypes' /\ thread' = thread /\ opened' = opened
        BY <1>0, <2>1, <3>1, Types DEF FanTypes, KernelTypes, kernel_commit
      <3> QED
        BY <1>0, <3>1, <3>2, Types, TypesNext DEF PollTypes, ShmTypes, ReopenInv
    <2>2. CASE create_log \/ delete_log \/ kernel_replace_file
      <3>1. UNCHANGED subs /\ thread' = thread /\ events \subseteq events'
        BY <2>2 DEF create_log, delete_log, kernel_replace_file, fvars, kvars
      <3>2. FanInv'
        BY <1>0, <3>1, BackendKeepsFan DEF Pending
      <3>3. FanTypes'
        BY <1>0, <2>2, Types, Zenon DEF FanTypes, create_log, delete_log, kernel_replace_file,
           fvars, subs
      <3>4. KernelTypes'
        BY <1>0, <2>2, Types, Zenon DEF KernelTypes, create_log, delete_log, kernel_replace_file,
           kvars
      <3>5. opened = "no" <=> opened' = "no"
        BY <2>2 DEF create_log, delete_log, kernel_replace_file, kvars
      <3> QED
        BY <1>0, <3>1, <3>2, <3>3, <3>4, <3>5, Types, TypesNext DEF PollTypes, ShmTypes, ReopenInv
    <2>3. CASE event \/ event_error \/ events_disconnected
      <3>1. /\ UNCHANGED subs /\ thread = "loops"
            /\ thread' \in {"fans", "attaches", "unwinds"}
        BY <2>3, Zenon DEF event, Attach, event_error, events_disconnected, Goto
      <3>2. FanInv'
        BY <1>0, <3>1, BackendKeepsFan, Zenon DEF Pending
      <3>3. FanTypes'
        BY <1>0, <2>3, <3>1, Types DEF FanTypes, event, event_error, events_disconnected, subs
      <3>4. KernelTypes'
        BY <1>0, <2>3, Types, Zenon DEF KernelTypes, event, event_error, events_disconnected, Attach,
           Pruned, kvars
      <3>5. thread' = "attaches" <=> opened' # "no"
        BY <1>0, <2>3, <3>1, Types, Zenon DEF ReopenInv, event, Attach, event_error, events_disconnected,
           Goto, kvars
      <3> QED
        BY <1>0, <3>1, <3>2, <3>3, <3>4, <3>5, Types, TypesNext, Zenon
           DEF PollTypes, ShmTypes, ReopenInv
    <2>4. CASE attach_on_timer
      <3>1. /\ UNCHANGED subs /\ thread = "loops" /\ events' = events
            /\ thread' \in {"loops", "reattaches"}
        BY <2>4 DEF attach_on_timer, Attach, Goto
      <3>2. FanInv'
        BY <1>0, <3>1, BackendKeepsFan DEF Pending
      <3>3. FanTypes'
        BY <1>0, <2>4, <3>1, Types DEF FanTypes, attach_on_timer, subs
      <3>4. KernelTypes'
        BY <1>0, <2>4, Types, Zenon DEF KernelTypes, attach_on_timer, Attach
      <3>5. thread' = "reattaches" <=> opened' # "no"
        BY <1>0, <2>4, <3>1, Types DEF ReopenInv, attach_on_timer, Attach, Goto
      <3> QED
        BY <1>0, <3>1, <3>2, <3>3, <3>4, <3>5, Types, TypesNext, Zenon
           DEF PollTypes, ShmTypes, ReopenInv
    <2>5. CASE add_vnode
      <3>1. /\ UNCHANGED subs /\ thread \in {"attaches", "reattaches"} /\ events' = events
            /\ thread' = IF thread = "attaches" THEN "fans" ELSE "loops"
        BY <2>5 DEF add_vnode, Goto
      <3>2. FanInv'
        BY <1>0, <3>1, BackendKeepsFan DEF Pending
      <3>3. FanTypes'
        BY <1>0, <2>5, <3>1, Types DEF FanTypes, add_vnode, subs
      <3>4. KernelTypes' /\ opened' = "no"
        BY <1>0, <2>5, Types, Zenon DEF KernelTypes, add_vnode
      <3> QED
        BY <1>0, <3>1, <3>2, <3>3, <3>4, Types, TypesNext, Zenon DEF PollTypes, ShmTypes, ReopenInv
    <2> QED
      BY <2>1, <2>2, <2>3, <2>4, <2>5 DEF Kernel, KernelStep, KernelLoop
  <1>2. KernelInv' /\ LogWatchedOrAnnounced'
    <2>0. /\ notifier \in {"inotify", "kqueue"} /\ notifier' = notifier
          /\ log \in BOOLEAN /\ watched_dir \in BOOLEAN /\ events \subseteq {"change", "gone"}
          /\ watched_log \in {"no", "refused", "current", "old", "dead"}
          /\ opened \in {"no", "current", "old"}
          /\ notifier = "kqueue" /\ watched_log = "old" => "gone" \in events
          /\ opened # "no" => notifier = "kqueue" /\ watched_log \in {"no", "refused"}
          /\ opened = "current" => log
          /\ thread \in {"attaches", "reattaches"} <=> opened # "no"
          /\ LogWatchedOrAnnounced
      BY <1>0, Zenon DEF WatchersInv, TypeOK, KernelInv, Kernel, KernelStep, KernelLoop, kernel_commit,
         create_log, delete_log, kernel_replace_file, event, event_error, attach_on_timer, add_vnode,
         events_disconnected, kvars
    <2>1. CASE kernel_commit
      BY <1>0, <2>0, <2>1 DEF KernelInv, LogWatchedOrAnnounced, LogWatched, kernel_commit
    <2>5. CASE create_log
      BY <1>0, <2>0, <2>5 DEF KernelInv, LogWatchedOrAnnounced, create_log, fvars
    <2>6. CASE delete_log
      BY <1>0, <2>0, <2>6 DEF KernelInv, LogWatchedOrAnnounced, delete_log, fvars
    <2>2. CASE kernel_replace_file \/ event_error \/ events_disconnected
      BY <1>0, <2>0, <2>2 DEF KernelInv, LogWatchedOrAnnounced, LogWatched, kernel_replace_file,
         event_error, events_disconnected, Goto, kvars
    <2>3. CASE attach_on_timer
      BY <1>0, <2>0, <2>3 DEF KernelInv, LogWatchedOrAnnounced, LogWatched, attach_on_timer,
         Attach, Skipped, Goto
    <2>4. CASE event
      <3> PICK e \in events : events' = events \ {e} /\ Attach(Pruned(e), "fans")
        BY <2>4 DEF event
      <3>1. log' = log /\ thread = "loops"
        BY <2>4 DEF event
      <3> QED
        BY <1>0, <2>0, <3>1 DEF KernelInv, LogWatchedOrAnnounced, LogWatched, Attach, Skipped, Pruned,
           Goto
    <2>7. CASE add_vnode
      BY <1>0, <2>0, <2>7 DEF KernelInv, LogWatchedOrAnnounced, LogWatched, add_vnode
    <2> QED
      BY <2>1, <2>2, <2>3, <2>4, <2>5, <2>6, <2>7 DEF Kernel, KernelStep, KernelLoop
  <1> QED
    BY <1>0, <1>1, <1>2 DEF WatchersInv, ShmInv, NamedNeverClosed, ReadThroughRegistry

----------------------------------------------------------------------------
(* Acquiring stays within the registry's limit. *)
LEMMA AcquireBounded ==
  ASSUME TypeOK, shm \in 1 .. MaxShm, acquire_shm_fd
  PROVE  Cardinality(fds') <= MAX_RETAINED_SHM_FDS
  <1>0. MaxShm \in Nat /\ MAX_RETAINED_SHM_FDS \in Nat
    BY ShmAssumption
  <1>1. IsFiniteSet(1 .. MaxShm)
    BY <1>0, FS_Interval
  <1>2. IsFiniteSet(fds) /\ Cardinality(fds) <= MAX_RETAINED_SHM_FDS
    BY <1>1, FS_Subset, Zenon DEF TypeOK
  <1> DEFINE kept == fds \ reclaim_unlinked
  <1>3. IsFiniteSet(kept) /\ Cardinality(kept) <= Cardinality(fds)
    BY <1>2, FS_Subset
  <1>4. Cardinality(fds) \in Nat /\ Cardinality(kept) \in Nat
    BY <1>2, <1>3, FS_CardinalityType
  <1>5. fds' = kept \/ (CanAcquire /\ fds' = kept \cup {shm})
    <2>1. fds' = kept \cup {g \in {shm} : CanAcquire}
      BY DEF acquire_shm_fd
    <2>2. CASE CanAcquire
      <3>1. {g \in {shm} : CanAcquire} = {shm}
        BY <2>2, Zenon
      <3> QED
        BY <2>1, <2>2, <3>1
    <2>3. CASE ~CanAcquire
      <3>1. {g \in {shm} : CanAcquire} = {}
        BY <2>3, Zenon
      <3>2. kept \cup {} = kept
        OBVIOUS
      <3> QED
        BY <2>1, <3>1, <3>2, Zenon
    <2> QED
      BY <2>2, <2>3
  <1>6. CASE shm \in fds
    <2>1. fds' = kept
      <3>1. shm \in kept
        BY <1>6 DEF reclaim_unlinked
      <3> QED
        BY <1>5, <3>1
    <2> QED
      BY <1>0, <1>2, <1>3, <1>4, <2>1
  <1>8. CASE fds' = kept
    BY <1>0, <1>2, <1>3, <1>4, <1>8
  <1>7. CASE fds' = kept \cup {shm} /\ Cardinality(kept) < MAX_RETAINED_SHM_FDS
    <2>1. Cardinality(fds') \in {Cardinality(kept), Cardinality(kept) + 1}
      BY <1>3, <1>7, FS_AddElement
    <2> QED
      BY <1>0, <1>4, <1>7, <2>1
  <1> QED
    BY <1>5, <1>6, <1>7, <1>8 DEF CanAcquire

LEMMA ShmKeeps ==
  ASSUME WatchersInv, Shm
  PROVE  WatchersInv'
  <1>0. /\ backend = "shm" /\ TypeOK /\ FanInv
        /\ shm \in 1 .. MaxShm /\ MaxShm \in Nat
        /\ UNCHANGED <<conn, changed, notifier, log, watched_dir, watched_log, opened, events, backend>>
    BY ShmAssumption DEF WatchersInv, ShmInv, Shm, pvars, kvars
  <1>1. ShmInv' /\ NamedNeverClosed' /\ ReadThroughRegistry'
    <2>0. /\ shm \in 1 .. MaxShm /\ MaxShm \in Nat /\ fd \in fds /\ fds \subseteq 1 .. shm
          /\ closed_fds \subseteq 1 .. (shm - 1)
          /\ {shm, fd, new_fd} \cap closed_fds = {}
          /\ {fd, new_fd} \ {0} \subseteq fds
          /\ backend' = backend /\ (thread = "reopens" <=> new_fd # 0)
      BY <1>0, Zenon DEF WatchersInv, ShmInv, NamedNeverClosed, ReadThroughRegistry, TypeOK
    <2>1. CASE \/ shm_commit \/ shm_replace_file \/ shm_poll \/ rebase_failed \/ shm_stat_failed
               \/ checks_done
      <3>1. UNCHANGED <<shm, fd, fds, closed_fds>> /\ new_fd' \in {new_fd, 0}
        BY <2>1 DEF shm_commit, shm_replace_file, shm_poll, rebase_failed, shm_stat_failed,
           checks_done, svars
      <3>2. 0 \notin closed_fds
        BY <2>0
      <3> QED
        BY <2>0, <3>1, <3>2 DEF ShmInv, NamedNeverClosed, ReadThroughRegistry
    <2>5. CASE rebase
      <3>1. UNCHANGED <<shm, fds, closed_fds>> /\ fd' = new_fd /\ new_fd' = 0 /\ new_fd # 0
        BY <2>0, <2>5 DEF rebase
      <3>2. 0 \notin closed_fds /\ new_fd \in fds
        BY <2>0, <3>1
      <3> QED
        BY <2>0, <3>1, <3>2 DEF ShmInv, NamedNeverClosed, ReadThroughRegistry
    <2>2. CASE recreate_shm
      BY <2>0, <2>2 DEF ShmInv, NamedNeverClosed, ReadThroughRegistry, recreate_shm
    <2>3. CASE /\ acquire_shm_fd /\ shm' = shm /\ fd' = fd
               /\ new_fd' = new_fd \/ (CanAcquire /\ new_fd' = shm)
      <3>0. /\ fds' \subseteq fds \cup {shm} /\ fds \ reclaim_unlinked \subseteq fds'
            /\ CanAcquire => shm \in fds'
        <4>1. fds' = (fds \ reclaim_unlinked) \cup {g \in {shm} : CanAcquire}
          BY <2>3 DEF acquire_shm_fd
        <4> QED
          BY <4>1
      <3>4. new_fd # 0 => new_fd \in fds
        BY <2>0
      <3>5. fd \in fds' /\ (new_fd # 0 => new_fd \in fds')
        BY <2>0, <3>0, <3>4 DEF reclaim_unlinked
      <3>6. fds' \subseteq 1 .. shm
        <4>1. shm \in 1 .. shm
          BY <2>0
        <4> QED
          BY <2>0, <3>0, <4>1, Zenon
      <3>1. /\ fds' \subseteq 1 .. shm /\ fd \in fds'
            /\ new_fd # 0 => new_fd \in fds'
        BY <3>5, <3>6
      <3>2. closed_fds' \subseteq 1 .. (shm - 1)
        <4>1. ASSUME NEW g \in reclaim_unlinked PROVE g \in 1 .. (shm - 1)
          BY <2>0 DEF reclaim_unlinked
        <4> QED
          BY <2>0, <2>3, <4>1, Zenon DEF acquire_shm_fd
      <3>3. shm \notin closed_fds' /\ fd \notin closed_fds' /\ new_fd \notin closed_fds'
        BY <2>0, <2>3 DEF acquire_shm_fd, reclaim_unlinked
      <3> QED
        BY <2>0, <2>3, <3>0, <3>1, <3>2, <3>3 DEF ShmInv, NamedNeverClosed, ReadThroughRegistry
    <2>4. CASE probe \/ reopen_shm_header
      <3>1. acquire_shm_fd /\ shm' = shm /\ fd' = fd
        BY <2>4 DEF probe, reopen_shm_header
      <3>2. new_fd' = new_fd \/ (CanAcquire /\ new_fd' = shm)
        <4>1. CASE probe
          BY <4>1 DEF probe
        <4>2. CASE reopen_shm_header
          BY <4>2, Zenon DEF reopen_shm_header
        <4> QED
          BY <2>4, <4>1, <4>2
      <3> QED
        BY <2>3, <3>1, <3>2
    <2> QED
      BY <2>1, <2>2, <2>4, <2>5, Zenon DEF Shm, ShmStep, ShmLoop
  <1>2. FanInv'
    <2>1. CASE shm_commit
      BY <1>0, <2>1, CommitKeepsFan, Zenon DEF shm_commit, Pending
    <2>2. CASE recreate_shm \/ shm_replace_file \/ probe \/ ShmLoop
      <3>1. UNCHANGED subs /\ (thread' = thread \/ thread \in {"loops", "checks", "reopens"})
        BY <2>2, Zenon DEF recreate_shm, shm_replace_file, probe, ShmLoop, shm_poll, reopen_shm_header,
           MustReopen, rebase, rebase_failed, shm_stat_failed, checks_done, fvars
      <3>2. Pending => Pending'
        BY <1>0, <2>2, Zenon DEF Pending, recreate_shm, shm_replace_file, probe, ShmLoop, shm_poll,
           reopen_shm_header, rebase, rebase_failed, shm_stat_failed, checks_done, Goto, fvars, svars
      <3> QED
        BY <1>0, <3>1, <3>2, BackendKeepsFan
    <2> QED
      BY <2>1, <2>2 DEF Shm, ShmStep
  <1>3. FanTypes'
    <2>1. CASE shm_commit
      <3>1. behind' \in [Subscribers -> {"no", "blind", "sighted"}]
        BY <1>0, <2>1, CommitKeepsFan, Zenon DEF shm_commit, Pending
      <3> QED
        BY <1>0, <2>1, <3>1, Types, Zenon DEF FanTypes, shm_commit
    <2>2. CASE recreate_shm \/ shm_replace_file \/ probe \/ ShmLoop
      BY <1>0, <2>2, Types, Zenon DEF FanTypes, recreate_shm, shm_replace_file, probe, ShmLoop, shm_poll,
         reopen_shm_header, rebase, rebase_failed, shm_stat_failed, checks_done, Goto, fvars, subs
    <2> QED
      BY <2>1, <2>2 DEF Shm, ShmStep
  <1>4. ReopenInv'
    <2>0. ReopenInv /\ shm # 0
      BY <1>0, Types
    <2>1. CASE shm_commit \/ recreate_shm \/ shm_replace_file \/ probe
      BY <1>0, <2>0, <2>1 DEF ReopenInv, shm_commit, recreate_shm, shm_replace_file, probe, fvars, svars
    <2>2. CASE ShmLoop
      BY <1>0, <2>0, <2>2, Zenon DEF ReopenInv, ShmLoop, shm_poll, reopen_shm_header, MustReopen,
         rebase, rebase_failed, shm_stat_failed, checks_done, Goto, svars
    <2> QED
      BY <2>1, <2>2 DEF Shm, ShmStep
  <1>5. ShmTypes'
    <2>0. ShmTypes
      BY <1>0, Types
    <2>1. CASE shm_commit \/ shm_replace_file \/ shm_poll \/ shm_stat_failed \/ checks_done
      BY <2>0, <2>1, Zenon DEF ShmTypes, shm_commit, shm_replace_file, shm_poll, shm_stat_failed,
         checks_done, svars
    <2>2. CASE recreate_shm
      BY <1>0, <2>0, <2>2 DEF ShmTypes, recreate_shm
    <2>3. CASE rebase \/ rebase_failed
      <3>1. /\ UNCHANGED <<shm, fds, closed_fds>> /\ new_unread' = FALSE /\ new_fd' = 0
            /\ fd' \in {fd, new_fd} /\ shm_id' \in {shm_id, shm}
            /\ unread' \in {unread, new_unread}
        BY <2>3 DEF rebase, rebase_failed
      <3>2. unread' \in BOOLEAN /\ new_unread' \in BOOLEAN
        BY <2>0, <3>1, Zenon DEF ShmTypes
      <3>3. {shm', fd', shm_id', new_fd'} \subseteq 0 .. MaxShm
        BY <1>0, <2>0, <3>1 DEF ShmTypes
      <3> QED
        BY <2>0, <3>1, <3>2, <3>3 DEF ShmTypes
    <2>4. CASE acquire_shm_fd /\ new_fd' \in {new_fd, shm}
               /\ new_unread' \in {new_unread, FALSE} /\ UNCHANGED <<shm, fd, shm_id, unread>>
      <3>1. Cardinality(fds') <= MAX_RETAINED_SHM_FDS
        BY <1>0, <2>4, AcquireBounded
      <3>2. fds' \subseteq 1 .. MaxShm /\ closed_fds' \subseteq 1 .. MaxShm
        BY <1>0, <2>0, <2>4, Zenon DEF ShmTypes, acquire_shm_fd, reclaim_unlinked
      <3> QED
        BY <1>0, <2>0, <2>4, <3>1, <3>2, Zenon DEF ShmTypes
    <2> QED
      BY <2>1, <2>2, <2>3, <2>4, Zenon DEF Shm, ShmStep, ShmLoop, probe, reopen_shm_header
  <1>6. TypeOK'
    BY <1>0, <1>3, <1>4, <1>5, Types, TypesNext DEF PollTypes, KernelTypes
  <1> QED
    BY <1>0, <1>1, <1>2, <1>6 DEF WatchersInv, KernelInv, LogWatchedOrAnnounced

----------------------------------------------------------------------------
LEMMA WatchersInvariant == Spec => []WatchersInv
  <1>1. Init => WatchersInv
    BY WatchersInit
  <1>2. WatchersInv /\ [Next]_vars => WatchersInv'
    <2> SUFFICES ASSUME WatchersInv, [Next]_vars PROVE WatchersInv'
      OBVIOUS
    <2>1. CASE Poll
      BY <2>1, PollKeeps
    <2>2. CASE Kernel
      BY <2>2, KernelKeeps
    <2>3. CASE Shm
      BY <2>3, ShmKeeps
    <2>4. CASE Fan
      BY <2>4, FanKeeps DEF Fan
    <2>5. CASE UNCHANGED vars
      <3> USE <2>5 DEF vars, fvars, pvars, kvars, svars, subs, WatchersInv
      <3>1. TypeOK'
        BY SMTT(30) DEF TypeOK
      <3>2. FanInv'
        BY Zenon DEF FanInv, BehindIsOpen, OnlyBlindCommitsMissed, Pending
      <3>3. KernelInv' /\ LogWatchedOrAnnounced'
        BY Zenon DEF KernelInv, LogWatchedOrAnnounced, LogWatched
      <3>4. ShmInv' /\ NamedNeverClosed' /\ ReadThroughRegistry'
        BY Zenon DEF ShmInv, NamedNeverClosed, ReadThroughRegistry
      <3> QED
        BY <3>1, <3>2, <3>3, <3>4, Zenon
    <2> QED
      BY <2>1, <2>2, <2>3, <2>4, <2>5 DEF Next
  <1> QED
    BY <1>1, <1>2, PTL DEF Spec

(* The variables keep their types, and ShmFdRegistry never retains more    *)
(* than MAX_RETAINED_SHM_FDS descriptors.                                  *)
THEOREM WatcherTypes == Spec => []TypeOK
  <1>1. WatchersInv => TypeOK
    BY DEF WatchersInv
  <1> QED
    BY <1>1, WatchersInvariant, PTL

(* Whichever backend watches, a subscriber with nothing on its way to it   *)
(* has missed only commits that on_change had no means to notice.          *)
THEOREM WakesAreNotLost == Spec => []OnlyBlindCommitsMissed
  <1>1. WatchersInv => OnlyBlindCommitsMissed
    BY DEF WatchersInv, FanInv
  <1> QED
    BY <1>1, WatchersInvariant, PTL

(* With attach_path in its two steps, attach_existing and prune_deleted    *)
(* leave a log without a watch, and without an event that leads to one,    *)
(* only after a refused watch or a deletion between those two steps.       *)
THEOREM LogIsFollowed == Spec => []LogWatchedOrAnnounced
  <1>1. WatchersInv => LogWatchedOrAnnounced
    BY DEF WatchersInv
  <1> QED
    BY <1>1, WatchersInvariant, PTL

(* However often -shm is re-created and however many databases share the   *)
(* registry's slots, reclaim_unlinked closes no descriptor of the file in  *)
(* use or of one a watcher reads, the loop reads through descriptors that  *)
(* the registry owns (also between reopen_shm_header and the new baseline),*)
(* and the registry stays within its limit.                                *)
THEOREM LocksAreKept == Spec => []RegistryKeepsLocks
  <1>1. WatchersInv => NamedNeverClosed /\ ReadThroughRegistry
    BY DEF WatchersInv
  <1>2. WatchersInv => Cardinality(fds) <= MAX_RETAINED_SHM_FDS
    BY DEF WatchersInv, TypeOK
  <1>3. WatchersInv => RegistryKeepsLocks
    BY <1>1, <1>2 DEF RegistryKeepsLocks
  <1> QED
    BY <1>3, WatchersInvariant, PTL
=============================================================================

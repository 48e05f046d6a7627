----------------------------- MODULE ShmWatcher -----------------------------
(***************************************************************************)
(* The shm-fast-path backend: the change counter iChange in the header of  *)
(* the -shm file (run_shm_fast_path_loop), read through a descriptor that  *)
(* the process-wide registry shares (ShmFdRegistry).  Closing a descriptor *)
(* of a -shm inode drops the locks SQLite holds on it in this process, so  *)
(* the registry keeps one until its inode has no name any more.            *)
(*                                                                         *)
(* A second descriptor of one inode, which a lost race leaves in `extra`,  *)
(* is left out: nobody reads it, and it is closed as the first one is.     *)
(*                                                                         *)
(* Inodes are numbered in the order SQLite creates them; MaxShm bounds how *)
(* often the file is re-created.                                           *)
(***************************************************************************)
EXTENDS Fanout, Naturals, FiniteSets

CONSTANTS
    MAX_RETAINED_SHM_FDS,
    MaxShm

ASSUME ShmAssumption == {MAX_RETAINED_SHM_FDS, MaxShm} \subseteq Nat \ {0}

VARIABLES
    shm,            \* the inode the path names now
    fds,            \* inodes ShmFdRegistry retains a descriptor of
    closed_fds,     \* history: inodes it has closed a descriptor of
    fd, unread,     \* f, and whether its iChange # last
    shm_id,         \* initial_shm_id
    new_fd, new_unread  \* the same for the file reopen_shm_header opened; 0: none

svars == <<shm, fds, closed_fds, fd, unread, shm_id, new_fd, new_unread>>

(* wait_for_initial_shm_header reads the header before it asks for the id. *)
ShmInit ==
    /\ thread \in IF FAILS THEN {"loops", "dead"} ELSE {"loops"}
    /\ shm \in 1 .. (IF MaxShm > 1 THEN 2 ELSE 1)
    /\ shm_id = shm
    /\ fd = 1
    /\ fds = {1}
    /\ closed_fds = {}
    /\ unread = FALSE
    /\ new_fd = 0
    /\ new_unread = FALSE

shm_commit ==
    /\ Committed(fd = shm)
    /\ unread' = (unread \/ fd = shm)
    /\ new_unread' = (new_unread \/ new_fd = shm)
    /\ UNCHANGED <<thread, mismatch, closing, senders, chan, sub,
                   shm, fds, closed_fds, fd, shm_id, new_fd>>

recreate_shm ==
    /\ shm < MaxShm
    /\ shm' = shm + 1
    /\ UNCHANGED <<fvars, fds, closed_fds, fd, unread, shm_id, new_fd, new_unread>>

shm_replace_file ==
    /\ ~mismatch
    /\ mismatch' = TRUE
    /\ UNCHANGED <<thread, closing, subs, svars>>

(* No watcher holds it, and link_count is 0. *)
MutantReclaimNamed == {g \in fds : g \notin {fd, new_fd}}
reclaim_unlinked == {g \in fds : g \notin {fd, new_fd} /\ g # shm}

CanAcquire == shm \in fds \/ Cardinality(fds \ reclaim_unlinked) < MAX_RETAINED_SHM_FDS

(* What can be closed is, also if another descriptor is then refused. *)
acquire_shm_fd ==
    /\ fds' = (fds \ reclaim_unlinked) \cup {g \in {shm} : CanAcquire}
    /\ closed_fds' = closed_fds \cup reclaim_unlinked

(* probe(), by another open() in this process *)
probe ==
    /\ acquire_shm_fd
    /\ UNCHANGED <<fvars, shm, fd, unread, shm_id, new_fd, new_unread>>

(* The header is read; the wake, if one is due, comes before the checks. *)
shm_poll ==
    /\ thread = "loops"
    /\ unread' = FALSE
    /\ Goto(IF unread THEN "wakes" ELSE "checks")
    /\ UNCHANGED <<mismatch, closing, subs, shm, fds, closed_fds, fd, shm_id, new_fd, new_unread>>

(* The header cannot be read (the checks are skipped), or another file is  *)
(* at the path: reopen.                                                    *)
MustReopen ==
    \/ FAILS /\ thread = "loops"
    \/ thread = "checks" /\ shm_id # shm /\ (mismatch => FAILS)

MutantReopen ==
    /\ MustReopen
    /\ acquire_shm_fd
    /\ IF CanAcquire
         THEN fd' = shm /\ shm_id' = shm /\ unread' = FALSE
         ELSE UNCHANGED <<fd, shm_id, unread>>
    /\ UNCHANGED <<fvars, shm, new_fd, new_unread>>

reopen_shm_header ==
    /\ MustReopen
    /\ acquire_shm_fd
    /\ IF CanAcquire
         THEN new_fd' = shm /\ Goto("reopens")
         ELSE UNCHANGED new_fd /\ Goto("fans")
    /\ new_unread' = FALSE
    /\ UNCHANGED <<mismatch, closing, subs, shm, fd, unread, shm_id>>

(* The id is asked of the path, not of the descriptor, and may be that of  *)
(* a newer file.                                                           *)
rebase ==
    /\ thread = "reopens"
    /\ fd' = new_fd
    /\ unread' = new_unread
    /\ shm_id' = shm
    /\ new_fd' = 0
    /\ new_unread' = FALSE
    /\ Goto("fans")
    /\ UNCHANGED <<mismatch, closing, subs, shm, fds, closed_fds>>

rebase_failed ==
    /\ FAILS
    /\ thread = "reopens"
    /\ new_fd' = 0
    /\ new_unread' = FALSE
    /\ Goto("fans")
    /\ UNCHANGED <<mismatch, closing, subs, shm, fds, closed_fds, fd, unread, shm_id>>

(* stat(2) fails, for the database or for -shm: a conservative wake. *)
shm_stat_failed ==
    /\ FAILS
    /\ thread = "checks"
    /\ Goto("fans")
    /\ UNCHANGED <<mismatch, closing, subs, svars>>

(* The checks are not due yet, or find nothing. *)
checks_done ==
    /\ thread = "checks"
    /\ Goto("loops")
    /\ UNCHANGED <<mismatch, closing, subs, svars>>

ShmLoop ==
    \/ shm_poll \/ checks_done
    \/ reopen_shm_header \/ rebase \/ rebase_failed \/ shm_stat_failed

ShmStep == shm_commit \/ recreate_shm \/ shm_replace_file \/ probe \/ ShmLoop
=============================================================================

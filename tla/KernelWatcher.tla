--------------------------- MODULE KernelWatcher ---------------------------
(***************************************************************************)
(* The kernel-watcher backend: file system notifications on the database's *)
(* directory and on its log (-wal, or -journal in the rollback modes),     *)
(* through notify/inotify (run_kernel_watch_loop) or kqueue                *)
(* (run_kqueue_loop).  SQLite creates the log after the watcher started and*)
(* deletes it with the last connection, so the loop attaches its watches   *)
(* again and again.  The operating system delivers every event it accepts. *)
(*                                                                         *)
(* kqueue watches a descriptor: a log that is deleted after it was opened  *)
(* and before EV_ADD is on the list of watched paths with no event to come,*)
(* and attach_path skips its path from then on.                            *)
(***************************************************************************)
EXTENDS Fanout

VARIABLES
    notifier,       \* "inotify" or "kqueue"
    log,            \* the log file exists
    watched_dir,    \* the directory is in watched
    watched_log,    \* the log is: "no", "refused", "current", "old" (deleted since),
                    \* "dead" (deleted before EV_ADD)
    opened,         \* the log attach_path has opened and not yet added: "no",
                    \* "current" or "old" (deleted meanwhile)
    events          \* undelivered: "change", "gone" (of the watched log)

kvars == <<notifier, log, watched_dir, watched_log, opened, events>>

(* A path already in watched, even one whose file was deleted, is skipped. *)
Skipped(watched) == ~log \/ watched \in {"current", "old", "dead"}

(* attach_watch, and attach_path up to open_event_fd, then on to `step`: a *)
(* path that cannot be watched is left out.  The directory is not deleted. *)
Attach(watched, step) ==
    /\ watched_dir' \in IF FAILS THEN {watched_dir, TRUE} ELSE {TRUE}
    /\ \/ /\ Skipped(watched)
          /\ watched_log' = watched
          /\ Goto(step)
          /\ UNCHANGED opened
       \/ /\ ~Skipped(watched)
          /\ notifier = "inotify" \/ FAILS
          /\ watched_log' \in {w \in {"current"} : notifier = "inotify"}
                             \cup {w \in {"refused"} : FAILS}
          /\ Goto(step)
          /\ UNCHANGED opened
       \/ /\ ~Skipped(watched)
          /\ notifier = "kqueue"
          /\ watched_log' = watched
          /\ opened' = "current"
          /\ Goto(IF step = "fans" THEN "attaches" ELSE "reattaches")

(* Nothing attached, or no notifier: the backend is disabled. *)
KernelInit ==
    /\ notifier \in {"inotify", "kqueue"}
    /\ log \in BOOLEAN
    /\ watched_dir \in IF FAILS THEN BOOLEAN ELSE {TRUE}
    /\ watched_log \in (IF log THEN {"current"} \cup {w \in {"refused"} : FAILS}
                        ELSE {"no"}) \cup {w \in {"dead"} : notifier = "kqueue"}
    /\ opened = "no"
    /\ events = {}
    /\ thread = IF watched_dir \/ watched_log \in {"current", "dead"} THEN "loops" ELSE "dead"

(* inotify reports writes to the files of a watched directory, kqueue only *)
(* the files it was given.                                                 *)
LogWatched ==
    \/ watched_log = "current"
    \/ notifier = "inotify" /\ watched_dir

kernel_commit ==
    /\ log
    /\ Committed(LogWatched)
    /\ events' = events \cup {e \in {"change"} : LogWatched}
    /\ UNCHANGED <<thread, mismatch, closing, senders, chan, sub,
                   notifier, log, watched_dir, watched_log, opened>>

create_log ==
    /\ ~log
    /\ log' = TRUE
    /\ events' = events \cup {e \in {"change"} : watched_dir}
    /\ UNCHANGED <<fvars, notifier, watched_dir, watched_log, opened>>

delete_log ==
    /\ log
    /\ log' = FALSE
    /\ watched_log' = IF watched_log = "current" THEN "old" ELSE watched_log
    /\ opened' = IF opened = "current" THEN "old" ELSE opened
    /\ events' = events \cup {e \in {"change"} : watched_dir}
                        \cup {e \in {"gone"} : watched_log = "current"}
    /\ UNCHANGED <<fvars, notifier, watched_dir>>

kernel_replace_file ==
    /\ ~mismatch
    /\ mismatch' = TRUE
    /\ UNCHANGED <<thread, closing, subs, kvars>>

(* prune_deleted, which only the kqueue loop has *)
Pruned(e) == IF notifier = "kqueue" /\ e = "gone" THEN "no" ELSE watched_log

(* An event: prune, attach what is missing, then wake. *)
MutantEvent ==
    /\ thread = "loops"
    /\ \E e \in events :
         /\ events' = events \ {e}
         /\ watched_log' = Pruned(e)
    /\ Goto("fans")
    /\ UNCHANGED <<mismatch, closing, subs, notifier, log, watched_dir, opened>>

event ==
    /\ thread = "loops"
    /\ \E e \in events :
         /\ events' = events \ {e}
         /\ Attach(Pruned(e), "fans")
    /\ UNCHANGED <<mismatch, closing, subs, notifier, log>>

(* EV_ADD of the descriptor attach_path has opened *)
add_vnode ==
    /\ thread \in {"attaches", "reattaches"}
    /\ watched_log' \in {IF opened = "current" THEN "current" ELSE "dead"}
                        \cup {w \in {"refused"} : FAILS}
    /\ opened' = "no"
    /\ Goto(IF thread = "attaches" THEN "fans" ELSE "loops")
    /\ UNCHANGED <<mismatch, closing, subs, notifier, log, watched_dir, events>>

(* An error event, or a failing stat(2): a conservative wake. *)
event_error ==
    /\ FAILS
    /\ thread = "loops"
    /\ Goto("fans")
    /\ UNCHANGED <<mismatch, closing, subs, kvars>>

(* Without an event, the watches are attached on a timer. *)
attach_on_timer ==
    /\ thread = "loops"
    /\ Attach(watched_log, "loops")
    /\ UNCHANGED <<mismatch, closing, subs, notifier, log, events>>

(* The notifier hung up. *)
events_disconnected ==
    /\ FAILS
    /\ notifier = "inotify"
    /\ thread = "loops"
    /\ Goto("unwinds")
    /\ UNCHANGED <<mismatch, closing, subs, kvars>>

KernelLoop ==
    event \/ add_vnode \/ event_error \/ attach_on_timer \/ events_disconnected

KernelStep ==
    kernel_commit \/ create_log \/ delete_log \/ kernel_replace_file \/ KernelLoop
=============================================================================

----------------------------- MODULE Scheduler -----------------------------
(***************************************************************************)
(* The table _honker_scheduler_tasks and its operations, with the processes*)
(* that run Scheduler::run of honker-rs (leader election by a named lock,  *)
(* renew, tick, ask for the soonest fire, wait) and processes that hold the*)
(* same lock through a Lock value.                                         *)
(*                                                                         *)
(* The due fires of a tick are enqueued in one savepoint, so a tick is one *)
(* step.  A time read before the write lock is waited for lags behind.     *)
(***************************************************************************)
EXTENDS Locks, FiniteSets

CONSTANTS
    Names,          \* schedule names
    Everys, Crons,  \* schedules `@every n`, and cron schedules of period n
    SCHEDULER_MAX_CATCHUP_FIRES,
    HEARTBEAT,      \* longest wait of the leader, in seconds
    RETRY,          \* longest wait of a standby
    Roles,          \* what the processes do: "scheduler", "holder"
    Lags,           \* seconds a writer may wait after reading the clock
    MaxTime         \* bound: last value of the clock

ASSUME SchedulerAssumption ==
    /\ Everys \cup Crons \subseteq Nat \ {0}
    /\ SCHEDULER_MAX_CATCHUP_FIRES \in Nat \ {0}
    /\ {HEARTBEAT, RETRY, MaxTime} \subseteq Nat
    /\ Lags \subseteq Nat
    /\ Roles \subseteq {"scheduler", "holder"}

VARIABLES
    role,           \* per process, what it does
    tasks,          \* _honker_scheduler_tasks: name -> row, or NULL
    until,          \* per process, when its wait ends at the latest
    woken,          \* per process, a change of the schedules has woken rx
    since,          \* history, per name: boundaries after this time are due to fire
    fired           \* history, per name: boundaries enqueued for its registration

taskvars == <<tasks, since, fired>>
waits == <<until, woken>>
vars == <<now, lock, pc, written, role, taskvars, waits>>

Exprs == [every : {TRUE}, n : Everys] \cup [every : {FALSE}, n : Crons]

(* next_after_unix: `@every n` counts from t, a cron expression has fixed  *)
(* boundaries (here the multiples of n).  Outside the hour that the clocks *)
(* repeat, that is (Cron, StrictlyAfter); where it returns an error, the   *)
(* registration or update changes nothing, and the leader fails.           *)
NextAfter(expr, t) ==
    IF expr.every THEN t + expr.n ELSE (t \div expr.n + 1) * expr.n

Init ==
    /\ LockInit
    /\ role \in [Owners -> Roles]
    /\ pc = [o \in Owners |-> "acquire"]
    /\ tasks = [n \in Names |-> NULL]
    /\ until = [o \in Owners |-> 0]
    /\ woken = [o \in Owners |-> FALSE]
    /\ since = [n \in Names |-> 0]
    /\ fired = [n \in Names |-> {}]

(* The wall clock *)
Clock ==
    /\ now < MaxTime
    /\ now' = now + 1
    /\ UNCHANGED <<lock, pc, written, role, taskvars, waits>>

(* The commit wakes every scheduler: the update watcher. *)
Wakes == woken' = [o \in Owners |-> role[o] = "scheduler" /\ pc[o] # "ended"]

----------------------------------------------------------------------------
(* Operations on the table, by any connection *)

(* A registration that replaces another keeps its enabled flag. *)
scheduler_register(n, expr, lag) ==
    /\ lag < now
    /\ tasks' = [tasks EXCEPT ![n] =
                   [expr |-> expr, next_fire_at |-> NextAfter(expr, now - lag),
                    enabled |-> IF tasks[n] = NULL THEN TRUE ELSE tasks[n].enabled]]
    /\ since' = [since EXCEPT ![n] = now - lag]
    /\ fired' = [fired EXCEPT ![n] = {}]
    /\ Wakes
    /\ UNCHANGED <<now, lock, pc, written, role, until>>

scheduler_unregister(n) ==
    /\ tasks[n] # NULL
    /\ tasks' = [tasks EXCEPT ![n] = NULL]
    /\ fired' = [fired EXCEPT ![n] = {}]
    /\ since' = [since EXCEPT ![n] = 0]
    /\ Wakes
    /\ UNCHANGED <<now, lock, pc, written, role, until>>

SetEnabled(n, enabled) ==
    /\ tasks[n] # NULL
    /\ tasks[n].enabled # enabled
    /\ tasks' = [tasks EXCEPT ![n].enabled = enabled]
    /\ Wakes
    /\ UNCHANGED <<now, lock, pc, written, role, since, fired, until>>

scheduler_pause(n) == SetEnabled(n, FALSE)
scheduler_resume(n) == SetEnabled(n, TRUE)

(* A new schedule restarts from now.  The other fields do not matter here. *)
scheduler_update(n, expr, lag) ==
    /\ tasks[n] # NULL
    /\ lag < now
    /\ tasks' = [tasks EXCEPT ![n].expr = expr,
                              ![n].next_fire_at = NextAfter(expr, now - lag)]
    /\ since' = [since EXCEPT ![n] = now - lag]
    /\ fired' = [fired EXCEPT ![n] = {}]
    /\ Wakes
    /\ UNCHANGED <<now, lock, pc, written, role, until>>

(* TICK_DUE_SQL *)
Due(n, at) == tasks[n] # NULL /\ tasks[n].enabled /\ tasks[n].next_fire_at <= at

(* The loop of scheduler_tick_inner: the k-th boundary from next_fire_at *)
Boundary(task) ==
    LET f[k \in 0 .. SCHEDULER_MAX_CATCHUP_FIRES] ==
          IF k = 0 THEN task.next_fire_at ELSE NextAfter(task.expr, f[k - 1])
    IN  f

MutantFires(task, at) ==
    {b \in {Boundary(task)[k] : k \in 0 .. SCHEDULER_MAX_CATCHUP_FIRES - 1} : b < at}

Fires(task, at) ==
    {b \in {Boundary(task)[k] : k \in 0 .. SCHEDULER_MAX_CATCHUP_FIRES - 1} : b <= at}

Skips(task, at) == Boundary(task)[SCHEDULER_MAX_CATCHUP_FIRES] <= at

(* Beyond the cap the backlog is skipped. *)
Advanced(task, at) ==
    [task EXCEPT !.next_fire_at =
       IF Skips(task, at) THEN NextAfter(task.expr, at)
       ELSE LET later == {b \in {Boundary(task)[k] :
                                   k \in 0 .. SCHEDULER_MAX_CATCHUP_FIRES} : b > at}
            IN  CHOOSE b \in later : \A c \in later : b <= c]

scheduler_tick(at) ==
    /\ tasks' = [n \in Names |-> IF Due(n, at) THEN Advanced(tasks[n], at) ELSE tasks[n]]
    /\ fired' = [n \in Names |-> IF Due(n, at) THEN fired[n] \cup Fires(tasks[n], at)
                                 ELSE fired[n]]
    /\ since' = [n \in Names |-> IF Due(n, at) /\ Skips(tasks[n], at) THEN at ELSE since[n]]

MutantSoonest == 0

(* 0 when nothing is enabled *)
scheduler_soonest ==
    LET at == {tasks[n].next_fire_at : n \in {m \in Names : tasks[m] # NULL /\ tasks[m].enabled}}
    IN  IF at = {} THEN 0 ELSE CHOOSE t \in at : \A u \in at : t <= u

Manage ==
    \E n \in Names :
      \/ \E expr \in Exprs, lag \in Lags :
           scheduler_register(n, expr, lag) \/ scheduler_update(n, expr, lag)
      \/ scheduler_unregister(n) \/ scheduler_pause(n) \/ scheduler_resume(n)

----------------------------------------------------------------------------
(* Scheduler::run *)

(* lock_try_acquire, or Database::try_lock *)
Acquire(o) ==
    /\ \/ acquire_delete(o) /\ UNCHANGED waits
       \/ acquire_insert(o) /\ UNCHANGED waits
       \/ /\ IF role[o] = "scheduler" THEN acquire_select(o, "renew", "standby")
             ELSE acquire_select(o, "held", "ended")
          /\ until' = [until EXCEPT ![o] = IF HeldBy(o) THEN 0 ELSE now + RETRY]
          /\ UNCHANGED woken
    /\ UNCHANGED <<role, taskvars>>

(* rx.recv_timeout, then drain.  Any commit of the database ends a wait    *)
(* early (the leader's own renewal too); only a change of the schedules or *)
(* the deadline is sure to.                                                *)
TimedOut(o) == woken[o] \/ now >= until[o]

Standby(o) ==
    /\ pc[o] = "standby"
    /\ Goto(o, "acquire")
    /\ woken' = [woken EXCEPT ![o] = FALSE]
    /\ until' = [until EXCEPT ![o] = 0]
    /\ UNCHANGED <<now, lockvars, role, taskvars>>

(* leader_loop: out before ticking if the lock is lost *)
Renew(o) ==
    /\ lock_renew(o, "renew", "tick", "release")
    /\ UNCHANGED <<role, taskvars, waits>>

TickAt(o, at) ==
    /\ pc[o] = "tick"
    /\ scheduler_tick(at)
    /\ IF tasks' = tasks THEN UNCHANGED woken ELSE Wakes
    /\ Goto(o, "soonest")
    /\ UNCHANGED <<now, lockvars, role, until>>

Tick(o) == \E lag \in Lags : lag < now /\ TickAt(o, now - lag)

(* An error of the renewal, the tick (rolled back) or soonest(): the lock  *)
(* is released, run() returns.                                             *)
LeaderFails(o) ==
    /\ pc[o] \in {"renew", "tick", "soonest"}
    /\ Goto(o, "closing")
    /\ UNCHANGED <<now, lockvars, role, taskvars, waits>>

(* The heartbeat counts from the renewal.  Seconds counted from a point    *)
(* within a second end within one: the clock may have reached the deadline *)
(* before the wait is over.                                                *)
Soonest(o) ==
    LET heartbeat == written[o] - LOCK_TTL + HEARTBEAT
        deadline == IF scheduler_soonest > 0 /\ scheduler_soonest < heartbeat
                    THEN scheduler_soonest ELSE heartbeat
    IN
    /\ pc[o] = "soonest"
    /\ \E late \in IF deadline <= now THEN {0} ELSE {0, 1} :
         until' = [until EXCEPT ![o] = deadline + late]
    /\ Goto(o, "wait")
    /\ UNCHANGED <<now, lockvars, role, taskvars, woken>>

Wait(o) ==
    /\ pc[o] = "wait"
    /\ Goto(o, "renew")
    /\ woken' = [woken EXCEPT ![o] = FALSE]
    /\ until' = [until EXCEPT ![o] = 0]
    /\ UNCHANGED <<now, lockvars, role, taskvars>>

(* The watcher has died, recv_timeout fails at once: a standby returns, a  *)
(* leader gives up the lock and tries to take it again.                    *)
Disconnected(o) ==
    /\ \/ pc[o] = "standby" /\ Goto(o, "ended")
       \/ pc[o] = "wait" /\ Goto(o, "release")
    /\ woken' = [woken EXCEPT ![o] = FALSE]
    /\ until' = [until EXCEPT ![o] = 0]
    /\ UNCHANGED <<now, lockvars, role, taskvars>>

(* The stop flag is read before an acquire and before a renewal. *)
Stop(o) ==
    /\ role[o] = "scheduler"
    /\ \/ pc[o] = "acquire" /\ Goto(o, "ended")
       \/ pc[o] = "renew" /\ Goto(o, "closing")
    /\ UNCHANGED <<now, lockvars, role, taskvars, waits>>

Release(o) ==
    /\ \/ lock_release(o, "release", "acquire")
       \/ lock_release(o, "closing", "ended")
    /\ UNCHANGED <<role, taskvars, waits>>

(* A Lock value: heartbeat, release (or drop). *)
LockHeartbeat(o) ==
    /\ lock_renew(o, "held", "held", "held")
    /\ UNCHANGED <<role, taskvars, waits>>

LockRelease(o) ==
    /\ lock_release(o, "held", "ended")
    /\ UNCHANGED <<role, taskvars, waits>>

(* A process dies anywhere, or returns an error of lock_try_acquire: its   *)
(* lock stays until it expires.  The bound leaves the clock room to get    *)
(* there.                                                                  *)
Crash(o) ==
    /\ pc[o] # "ended"
    /\ now + LOCK_TTL <= MaxTime
    /\ Goto(o, "ended")
    /\ written' = [written EXCEPT ![o] = 0]
    /\ until' = [until EXCEPT ![o] = 0]
    /\ woken' = [woken EXCEPT ![o] = FALSE]
    /\ UNCHANGED <<now, lock, role, taskvars>>

Run(o) ==
    Acquire(o) \/ Standby(o) \/ Renew(o) \/ Tick(o) \/ Soonest(o) \/ Wait(o) \/ Release(o)

(* The process goes on even if no other commit wakes it.  Timers run out   *)
(* although the model's clock stops at its bound.                          *)
CanRun(o) ==
    /\ pc[o] \notin {"held", "ended"}
    /\ pc[o] \in {"standby", "wait"} => TimedOut(o) \/ now = MaxTime

Next ==
    \/ Clock
    \/ Manage
    \/ \E o \in Owners :
         \/ Run(o) \/ LeaderFails(o) \/ Disconnected(o) \/ Stop(o) \/ Crash(o)
         \/ LockHeartbeat(o) \/ LockRelease(o)

Spec == Init /\ [][Next]_vars

(* Time passes, every process that is not dead runs on, and not every tick *)
(* has to wait for the write lock: weak fairness of Clock and Run(o), and  *)
(* strong fairness of TickAt(o, now), with ENABLED written out.            *)
Fairness ==
    /\ []<>(now = MaxTime)
    /\ \A o \in Owners :
         /\ []<>(~CanRun(o)) \/ []<><<pc'[o] # pc[o]>>_vars
         /\ <>[](pc[o] # "tick") \/ []<><<TickAt(o, now)>>_vars

----------------------------------------------------------------------------
(* Until the expiry it wrote itself, a holder's row is there and its own,  *)
(* whatever others acquire, release late or renew late: two processes      *)
(* never both have an unexpired lease (lock_acquire, lock_release,         *)
(* lock_renew).                                                            *)
LockExclusion ==
    \A o \in Owners : written[o] > now =>
        lock = [owner |-> o, expires_at |-> written[o]]

(* The boundaries a schedule has after time t *)
Boundaries(expr, t) ==
    {b \in (t + 1) .. (MaxTime + 1) :
       IF expr.every THEN (b - t) % expr.n = 0 ELSE b % expr.n = 0}

(* Every boundary since the registration (or since the backlog was skipped)*)
(* is either enqueued and before next_fire_at, or not enqueued and still to*)
(* come, however many leaders tick, and whatever is paused, updated or     *)
(* registered again in between.                                            *)
NoFireLostOrDoubled ==
    \A n \in Names : tasks[n] # NULL =>
        /\ \A b \in Boundaries(tasks[n].expr, since[n]) :
              b < tasks[n].next_fire_at <=> b \in fired[n]
        /\ \A b \in fired[n] : b < tasks[n].next_fire_at
        /\ tasks[n].next_fire_at <= MaxTime =>
              tasks[n].next_fire_at \in Boundaries(tasks[n].expr, since[n])

(* A waiting leader does not sleep past a fire, whoever registers, pauses  *)
(* or updates schedules between its question and its wait: when the second *)
(* of the fire has passed, the wait is over (leader_loop: soonest, then    *)
(* recv_timeout of whole seconds, which may end within that second).       *)
NeverOversleeps ==
    \A o \in Owners : \A n \in Names :
        pc[o] = "wait" /\ Due(n, now - 1) => TimedOut(o)

AllEnded == \A o \in Owners : pc[o] = "ended"

(* A due fire is enqueued (or its schedule changed), whoever crashes: a    *)
(* standby takes over when the lock expires, as long as a scheduler runs   *)
(* and nobody else holds its lock.                                         *)
DueFires ==
    \A n \in Names :
        (\A o \in Owners : role[o] = "scheduler") /\ Due(n, now)
          ~> ~Due(n, now) \/ AllEnded

=============================================================================

-------------------------- MODULE SchedulerProofs --------------------------
(***************************************************************************)
(* For any owners, lease length, clock bound, schedules, catch-up cap and  *)
(* lag of the writers:                                                     *)
(*  - the named lock excludes.  lock_acquire is three statements between   *)
(*    which anything may happen, so the argument is about the row and not  *)
(*    about program counters: while an owner's last lease runs, the row is *)
(*    its own, and no statement of anybody else writes over it;            *)
(*  - no fire is lost or doubled.  The boundaries of a schedule are one    *)
(*    arithmetic progression, which the loop of a tick walks in closed     *)
(*    form, so that next_fire_at cuts it into enqueued and still to come;  *)
(*  - a waiting leader does not sleep past a fire.                         *)
(***************************************************************************)
EXTENDS Scheduler, WellFoundedInduction, TLAPS

LockInv ==
    /\ now \in Nat /\ now > 0
    /\ written \in [Owners -> Int]
    /\ lock # NULL => lock \in LockRow
    /\ LockExclusion

LEMMA LockInitially == Init => LockInv
  BY DEF Init, LockInit, LockInv, LockExclusion

(* The statements of the lock's operations, whoever runs them *)
LEMMA LockStatements ==
  ASSUME LockInv, NEW o \in Owners,
         NEW from, NEW next, NEW other,
         \/ acquire_delete(o) \/ acquire_insert(o)
         \/ lock_release(o, from, next) \/ lock_renew(o, from, next, other)
  PROVE  LockInv'
  <1> USE LocksAssumption DEF LockInv, LockExclusion, LockRow, HeldBy, lockvars
  <1>1. CASE acquire_delete(o)
    BY <1>1 DEF acquire_delete
  <1>2. CASE acquire_insert(o)
    <2>1. CASE lock = NULL
      <3>1. \A p \in Owners : written[p] <= now
        BY <2>1
      <3> QED
        BY <1>2, <2>1, <3>1 DEF acquire_insert
    <2>2. CASE lock # NULL
      BY <1>2, <2>2 DEF acquire_insert
    <2> QED
      BY <2>1, <2>2
  <1>3. CASE lock_release(o, from, next)
    BY <1>3 DEF lock_release
  <1>4. CASE lock_renew(o, from, next, other)
    BY <1>4 DEF lock_renew
  <1> QED
    BY <1>1, <1>2, <1>3, <1>4

LEMMA LockStep == LockInv /\ [Next]_vars => LockInv'
  <1> SUFFICES ASSUME LockInv, [Next]_vars PROVE LockInv'
    OBVIOUS
  <1>1. CASE UNCHANGED <<now, lock, written>>
    BY <1>1 DEF LockInv, LockExclusion, LockRow
  <1>2. CASE Clock
    BY <1>2 DEF Clock, LockInv, LockExclusion, LockRow
  <1>3. CASE Manage
    <2>1. UNCHANGED <<now, lock, written>>
      BY <1>3, Zenon DEF Manage, scheduler_register, scheduler_update, scheduler_unregister,
                  scheduler_pause, scheduler_resume, SetEnabled
    <2> QED
      BY <1>1, <2>1
  <1>4. ASSUME NEW o \in Owners, Acquire(o) \/ Renew(o) \/ Release(o)
        PROVE  LockInv'
    <2>1. CASE acquire_delete(o) \/ acquire_insert(o) \/ Renew(o) \/ Release(o)
      BY <2>1, LockStatements DEF Renew, Release
    <2>2. CASE UNCHANGED <<now, lockvars>>
      BY <1>1, <2>2 DEF lockvars
    <2> QED
      BY <1>4, <2>1, <2>2 DEF Acquire, acquire_select
  <1>5. ASSUME NEW o \in Owners, LockHeartbeat(o) \/ LockRelease(o)
        PROVE  LockInv'
    BY <1>5, LockStatements DEF LockHeartbeat, LockRelease
  <1>6. ASSUME NEW o \in Owners,
               \/ Standby(o) \/ Tick(o) \/ Soonest(o) \/ Wait(o)
               \/ LeaderFails(o) \/ Disconnected(o) \/ Stop(o)
        PROVE  LockInv'
    <2>1. UNCHANGED <<now, lock, written>>
      BY <1>6 DEF Standby, Tick, TickAt, Soonest, Wait, LeaderFails, Disconnected, Stop, lockvars
    <2> QED
      BY <1>1, <2>1
  <1>7. ASSUME NEW o \in Owners, Crash(o)
        PROVE  LockInv'
    BY <1>7 DEF Crash, LockInv, LockExclusion, LockRow
  <1>8. CASE UNCHANGED vars
    BY <1>1, <1>8 DEF vars
  <1> QED
    BY <1>2, <1>3, <1>4, <1>5, <1>6, <1>7, <1>8 DEF Next, Run

LEMMA LockInvariant == Spec => []LockInv
  BY LockInitially, LockStep, PTL DEF Spec

(* Whoever acquires, renews, releases late or dies between the statements  *)
(* of lock_acquire, an owner whose last written expiry has not passed has  *)
(* the row, so that at most one leader or Lock value has a lease that runs.*)
THEOREM LeaseIsExclusive ==
  Spec => [](/\ LockExclusion
             /\ \A o, p \in Owners : written[o] > now /\ written[p] > now => o = p)
  <1>1. LockInv => \A o, p \in Owners : written[o] > now /\ written[p] > now => o = p
    BY DEF LockInv, LockExclusion
  <1> QED
    BY <1>1, LockInvariant, PTL DEF LockInv

----------------------------------------------------------------------------
(* Boundaries *)

(* The boundaries after t are Origin + n, Origin + 2n, ... *)
Origin(expr, t) == IF expr.every THEN t ELSE (t \div expr.n) * expr.n

LEMMA ExprTypes ==
  ASSUME NEW expr \in Exprs
  PROVE  expr.every \in BOOLEAN /\ expr.n \in Nat \ {0}
  BY SchedulerAssumption, Zenon DEF Exprs

LEMMA DivFacts ==
  ASSUME NEW t \in Nat, NEW n \in Nat \ {0}
  PROVE  /\ t \div n \in Nat /\ (t \div n) * n \in Nat
         /\ (t \div n) * n <= t /\ t < (t \div n) * n + n
  OBVIOUS

LEMMA NextAfterOrigin ==
  ASSUME NEW expr \in Exprs, NEW t \in Nat
  PROVE  /\ Origin(expr, t) \in Nat
         /\ NextAfter(expr, t) = Origin(expr, t) + expr.n
         /\ NextAfter(expr, t) \in Nat /\ NextAfter(expr, t) > t
         /\ Origin(expr, t) <= t
  <1> DEFINE n == expr.n
  <1>1. expr.every \in BOOLEAN /\ n \in Nat \ {0}
    BY ExprTypes
  <1>2. /\ t \div n \in Nat /\ (t \div n) * n \in Nat
        /\ (t \div n) * n <= t /\ t < (t \div n) * n + n
    BY <1>1, DivFacts
  <1> HIDE DEF n
  <1>3. (t \div n + 1) * n = (t \div n) * n + n
    BY <1>1, <1>2
  <1>4. /\ NextAfter(expr, t) = IF expr.every THEN t + n ELSE (t \div n + 1) * n
        /\ Origin(expr, t) = IF expr.every THEN t ELSE (t \div n) * n
    BY DEF NextAfter, Origin, n
  <1>5. CASE expr.every
    BY <1>1, <1>4, <1>5 DEF n
  <1>6. CASE ~expr.every
    BY <1>1, <1>2, <1>3, <1>4, <1>6 DEF n
  <1> QED
    BY <1>1, <1>5, <1>6

(* From a boundary, the next one is a period away. *)
LEMMA NextAfterBoundary ==
  ASSUME NEW expr \in Exprs, NEW t \in Nat, NEW k \in Nat,
         NEW b, b = Origin(expr, t) + k * expr.n
  PROVE  NextAfter(expr, b) = b + expr.n
  <1> DEFINE n == expr.n
  <1>1. expr.every \in BOOLEAN /\ n \in Nat \ {0} /\ Origin(expr, t) \in Nat
    BY ExprTypes, NextAfterOrigin
  <1>2. CASE expr.every
    BY <1>2 DEF NextAfter
  <1>3. CASE ~expr.every
    <2> DEFINE q == t \div n + k
    <2>1. t \div n \in Nat
      BY <1>1, DivFacts, Zenon
    <2>2. b = (t \div n) * n + k * n
      BY <1>3 DEF Origin
    <2> HIDE DEF n
    <2>3. b = q * n /\ q \in Nat
      BY <1>1, <2>1, <2>2
    <2> HIDE DEF q
    <2>4. b \div n = q
      BY <1>1, <2>3
    <2>5. (q + 1) * n = b + n
      BY <1>1, <2>3
    <2> QED
      BY <1>3, <2>4, <2>5 DEF NextAfter, n
  <1> QED
    BY <1>1, <1>2, <1>3

LEMMA Multiple ==
  ASSUME NEW d \in Nat, NEW n \in Nat \ {0}, d % n = 0
  PROVE  d \div n \in Nat /\ d = (d \div n) * n
  OBVIOUS

(* Boundaries, and the progression *)
LEMMA BoundaryIsInProgression ==
  ASSUME NEW expr \in Exprs, NEW t \in Nat, NEW b \in Boundaries(expr, t)
  PROVE  \E k \in Nat \ {0} : b = Origin(expr, t) + k * expr.n
  <1> DEFINE n == expr.n
  <1>1. expr.every \in BOOLEAN /\ n \in Nat \ {0} /\ MaxTime \in Nat
    BY ExprTypes, SchedulerAssumption
  <1>2. /\ b \in Nat /\ b > t
        /\ IF expr.every THEN (b - t) % n = 0 ELSE b % n = 0
    BY <1>1 DEF Boundaries
  <1>3. CASE expr.every
    <2>1. b - t \in Nat /\ b - t > 0 /\ (b - t) % n = 0
      BY <1>2, <1>3
    <2> DEFINE d == b - t
    <2> HIDE DEF n, d
    <2>2. PICK k \in Nat : d = k * n
      <3>1. d \in Nat /\ d % n = 0
        BY <2>1 DEF d
      <3> QED
        BY <1>1, <3>1, Multiple, Zenon
    <2>3. k # 0
      BY <1>1, <2>1, <2>2 DEF d
    <2>4. b = t + k * n
      BY <1>1, <1>2, <2>2 DEF d
    <2> QED
      BY <1>3, <2>3, <2>4 DEF Origin, n
  <1>4. CASE ~expr.every
    <2> DEFINE q == t \div n
    <2>1. q \in Nat /\ q * n <= t
      BY <1>1, DivFacts
    <2>2. b % n = 0
      BY <1>2, <1>4
    <2> HIDE DEF n, q
    <2>3. PICK m \in Nat : b = m * n
      BY <1>1, <1>2, <2>2
    <2>4. m * n > q * n
      BY <1>1, <1>2, <2>1, <2>3
    <2>5. m > q
      BY <1>1, <2>1, <2>4
    <2>6. m - q \in Nat \ {0} /\ b = q * n + (m - q) * n
      BY <1>1, <2>1, <2>3, <2>5
    <2> QED
      BY <1>4, <2>6 DEF Origin, n, q
  <1> QED
    BY <1>1, <1>3, <1>4

LEMMA ProgressionIsBoundary ==
  ASSUME NEW expr \in Exprs, NEW t \in Nat, NEW k \in Nat \ {0},
         NEW b, b = Origin(expr, t) + k * expr.n
  PROVE  /\ b \in Nat /\ b > t
         /\ b <= MaxTime => b \in Boundaries(expr, t)
  <1> DEFINE n == expr.n
  <1>1. expr.every \in BOOLEAN /\ n \in Nat \ {0} /\ MaxTime \in Nat
    BY ExprTypes, SchedulerAssumption
  <1>2. k * n >= n /\ k * n \in Nat
    <2> HIDE DEF n
    <2> QED
      BY <1>1
  <1>3. /\ Origin(expr, t) \in Nat /\ Origin(expr, t) + n > t
    BY NextAfterOrigin
  <1>4. b \in Nat /\ b > t
    <2> HIDE DEF n
    <2>1. b = Origin(expr, t) + k * n
      BY DEF n
    <2> QED
      BY <1>1, <1>2, <1>3, <2>1
  <1>5. IF expr.every THEN (b - t) % n = 0 ELSE b % n = 0
    <2>1. CASE expr.every
      <3>1. b = t + k * n
        BY <2>1 DEF Origin
      <3> HIDE DEF n
      <3>2. b - t = k * n
        BY <1>1, <1>2, <3>1
      <3>3. (k * n) % n = 0
        BY <1>1
      <3> QED
        BY <2>1, <3>2, <3>3
    <2>2. CASE ~expr.every
      <3> DEFINE q == t \div n
      <3>1. b = q * n + k * n /\ q \in Nat
        BY <1>1, <2>2, DivFacts DEF Origin
      <3> HIDE DEF n, q
      <3>2. b = (q + k) * n
        BY <1>1, <3>1
      <3>3. ((q + k) * n) % n = 0
        BY <1>1, <3>1
      <3> QED
        BY <2>2, <3>2, <3>3
    <2> QED
      BY <1>1, <2>1, <2>2
  <1>6. ASSUME b <= MaxTime
        PROVE  b \in Boundaries(expr, t)
    <2>1. b \in (t + 1) .. (MaxTime + 1)
      BY <1>1, <1>4, <1>6
    <2> QED
      BY <1>5, <2>1 DEF Boundaries
  <1> QED
    BY <1>4, <1>6

----------------------------------------------------------------------------
(* The loop of a tick *)

LEMMA LeastExists ==
  ASSUME NEW T, T \subseteq Nat, T # {}
  PROVE  \E x \in T : \A y \in T : x <= y
  <1>1. PICK x \in T : \A y \in T : ~(<<y, x>> \in OpToRel(<, Nat))
    BY NatLessThanWellFounded, WFMin, Zenon
  <1>2. ASSUME NEW y \in T
        PROVE  x <= y
    <2>1. <<y, x>> \in OpToRel(<, Nat) <=> y < x
      BY DEF OpToRel
    <2>2. ~(y < x)
      BY <1>1, <2>1, Zenon
    <2> QED
      BY <2>2
  <1> QED
    BY <1>2

TaskRow == [expr : Exprs, next_fire_at : Nat, enabled : BOOLEAN]

(* next_fire_at is a boundary of the schedule after time t. *)
OnGrid(task, t) ==
    \E k \in Nat \ {0} : task.next_fire_at = Origin(task.expr, t) + k * task.expr.n

(* The loop in closed form *)
LEMMA BoundaryInClosedForm ==
  ASSUME NEW task \in TaskRow, NEW t \in Nat, OnGrid(task, t),
         NEW k \in 0 .. SCHEDULER_MAX_CATCHUP_FIRES
  PROVE  Boundary(task)[k] = task.next_fire_at + k * task.expr.n
  <1> DEFINE K == 0 .. SCHEDULER_MAX_CATCHUP_FIRES
             n == task.expr.n
             at == task.next_fire_at
             Loop(f) == [j \in K |-> IF j = 0 THEN at ELSE NextAfter(task.expr, f[j - 1])]
             g == [j \in K |-> at + j * n]
             f == Boundary(task)
  <1>1. /\ task.expr \in Exprs /\ at \in Nat /\ n \in Nat \ {0}
        /\ SCHEDULER_MAX_CATCHUP_FIRES \in Nat
    BY ExprTypes, SchedulerAssumption DEF TaskRow
  <1>2. PICK m \in Nat \ {0} : at = Origin(task.expr, t) + m * n
    BY DEF OnGrid
  <1>3. Origin(task.expr, t) \in Nat
    BY <1>1, NextAfterOrigin
  <1>4. ASSUME NEW j \in K, j # 0
        PROVE  /\ j - 1 \in K /\ j - 1 \in Nat
               /\ NextAfter(task.expr, at + (j - 1) * n) = at + j * n
    <2>1. j - 1 \in K /\ j - 1 \in Nat
      BY <1>1, <1>4
    <2> HIDE DEF n, at
    <2>2. at + (j - 1) * n = Origin(task.expr, t) + (m + (j - 1)) * n
      BY <1>1, <1>2, <1>3, <2>1
    <2>3. NextAfter(task.expr, at + (j - 1) * n) = at + (j - 1) * n + n
      <3>1. m + (j - 1) \in Nat
        BY <2>1
      <3> QED
        BY <1>1, <2>2, <3>1, NextAfterBoundary DEF n
    <2>4. at + (j - 1) * n + n = at + j * n
      BY <1>1, <1>4
    <2> QED
      BY <2>1, <2>3, <2>4
  <1>5. g = Loop(g)
    <2> HIDE DEF n, at
    <2>1. ASSUME NEW j \in K
          PROVE  g[j] = Loop(g)[j]
      <3>1. CASE j = 0
        BY <1>1, <3>1
      <3>2. CASE j # 0
        BY <1>4, <3>2
      <3> QED
        BY <3>1, <3>2
    <2> QED
      BY <2>1
  <1>6. f = Loop(f)
    <2>1. f = CHOOSE h : h = Loop(h)
      BY DEF Boundary
    <2> HIDE DEF f, g, Loop
    <2> QED
      BY <1>5, <2>1
  <1> DEFINE Wrong == {j \in K : f[j] # g[j]}
  <1>7. Wrong = {}
    <2> SUFFICES ASSUME Wrong # {} PROVE FALSE
      OBVIOUS
    <2>1. Wrong \subseteq Nat
      BY <1>1
    <2>2. PICK j \in Wrong : \A i \in Wrong : j <= i
      <3> HIDE DEF Wrong
      <3> QED
        BY <2>1, LeastExists, Zenon
    <2> HIDE DEF f
    <2>3. f[j] = IF j = 0 THEN at ELSE NextAfter(task.expr, f[j - 1])
      BY <1>6, <2>2, Zenon
    <2>4. j # 0
      BY <1>1, <2>2, <2>3
    <2>5. j - 1 \in K /\ ~(j <= j - 1)
      BY <1>4, <2>2, <2>4
    <2>6. f[j - 1] = g[j - 1]
      BY <2>2, <2>5
    <2>7. f[j] = at + j * n
      <3> HIDE DEF n, at
      <3> QED
        BY <1>4, <2>2, <2>3, <2>4, <2>5, <2>6
    <2> QED
      BY <2>2, <2>7
  <1> HIDE DEF f
  <1>8. f[k] = g[k]
    BY <1>7, Zenon
  <1> QED
    BY <1>8 DEF f

----------------------------------------------------------------------------
(* Fires *)

(* next_fire_at cuts the progression that starts at time t: what is before *)
(* it has been enqueued, and nothing else has.                             *)
Cut(task, t, done) ==
    /\ task \in TaskRow /\ t \in Nat
    /\ OnGrid(task, t)
    /\ \A b \in done : b \in Nat /\ b < task.next_fire_at
    /\ \A k \in Nat \ {0} :
         LET b == Origin(task.expr, t) + k * task.expr.n
         IN  b < task.next_fire_at => b \in done

FireInv ==
    /\ tasks \in [Names -> TaskRow \cup {NULL}]
    /\ since \in [Names -> Nat]
    /\ fired \in [Names -> SUBSET Nat]
    /\ \A n \in Names : tasks[n] # NULL => Cut(tasks[n], since[n], fired[n])

(* A schedule starts afresh: registered, updated, or its backlog skipped. *)
LEMMA FreshCut ==
  ASSUME NEW expr \in Exprs, NEW t \in Nat, NEW enabled \in BOOLEAN, NEW done,
         \A b \in done : b \in Nat /\ b <= t
  PROVE  /\ [expr |-> expr, next_fire_at |-> NextAfter(expr, t), enabled |-> enabled] \in TaskRow
         /\ Cut([expr |-> expr, next_fire_at |-> NextAfter(expr, t), enabled |-> enabled], t, done)
  <1> DEFINE n == expr.n
             origin == Origin(expr, t)
             task == [expr |-> expr, next_fire_at |-> NextAfter(expr, t), enabled |-> enabled]
  <1>1. /\ n \in Nat \ {0} /\ origin \in Nat
        /\ NextAfter(expr, t) = origin + n /\ NextAfter(expr, t) \in Nat /\ NextAfter(expr, t) > t
    BY ExprTypes, NextAfterOrigin
  <1>2. /\ task \in TaskRow /\ task.expr = expr /\ task.next_fire_at = NextAfter(expr, t)
    BY <1>1 DEF TaskRow
  <1>3. OnGrid(task, t)
    <2>1. NextAfter(expr, t) = origin + 1 * n
      BY <1>1
    <2> QED
      BY <1>2, <2>1 DEF OnGrid
  <1>4. \A b \in done : b \in Nat /\ b < task.next_fire_at
    BY <1>1, <1>2
  <1> HIDE DEF task, n, origin
  <1>5. ASSUME NEW k \in Nat \ {0}
        PROVE  ~(origin + k * n < task.next_fire_at)
    <2>1. k * n >= n
      BY <1>1
    <2> QED
      BY <1>1, <1>2, <2>1
  <1>6. Cut(task, t, done)
    BY <1>2, <1>3, <1>4, <1>5 DEF Cut, n, origin
  <1> QED
    BY <1>2, <1>6 DEF task

(* One schedule that is due, in a tick *)
LEMMA TickCuts ==
  ASSUME NEW task, NEW t, NEW done, Cut(task, t, done), NEW at \in Nat, task.next_fire_at <= at
  PROVE  /\ Advanced(task, at) \in TaskRow
         /\ Cut(Advanced(task, at), IF Skips(task, at) THEN at ELSE t, done \cup Fires(task, at))
  <1> DEFINE cap == SCHEDULER_MAX_CATCHUP_FIRES
             n == task.expr.n
             from == task.next_fire_at
             B(k) == from + k * n
             origin == Origin(task.expr, t)
  <1>1. /\ task \in TaskRow /\ t \in Nat /\ task.expr \in Exprs /\ from \in Nat
        /\ n \in Nat \ {0} /\ cap \in Nat \ {0} /\ task.enabled \in BOOLEAN
        /\ origin \in Nat
    BY ExprTypes, SchedulerAssumption, NextAfterOrigin DEF Cut, TaskRow
  <1>2. \A k \in 0 .. cap : Boundary(task)[k] = B(k)
    BY BoundaryInClosedForm DEF Cut
  <1>3. \A k \in Nat : B(k) \in Nat /\ B(k) >= from
    <2> HIDE DEF n, from
    <2> QED
      BY <1>1
  <1>4. Fires(task, at) = {b \in {B(k) : k \in 0 .. cap - 1} : b <= at}
    <2>1. 0 .. cap - 1 \subseteq 0 .. cap
      BY <1>1
    <2> QED
      BY <1>2, <2>1 DEF Fires
  <1>5. \A b \in done : b \in Nat /\ b < from
    BY DEF Cut
  <1>6. \A b \in done \cup Fires(task, at) : b \in Nat /\ b <= at
    <2>1. \A b \in Fires(task, at) : b \in Nat /\ b <= at
      BY <1>1, <1>3, <1>4
    <2>2. \A b \in done : b \in Nat /\ b <= at
      BY <1>1, <1>5
    <2> QED
      BY <2>1, <2>2
  <1>7. CASE Skips(task, at)
    <2> DEFINE row == [expr |-> task.expr, next_fire_at |-> NextAfter(task.expr, at),
                       enabled |-> task.enabled]
    <2>1. Advanced(task, at) = row
      BY <1>1, <1>7 DEF Advanced, TaskRow
    <2>2. row \in TaskRow /\ Cut(row, at, done \cup Fires(task, at))
      BY <1>1, <1>6, FreshCut
    <2> QED
      BY <1>7, <2>1, <2>2
  <1>8. CASE ~Skips(task, at)
    <2> DEFINE later == {b \in {Boundary(task)[k] : k \in 0 .. cap} : b > at}
               next == CHOOSE b \in later : \A c \in later : b <= c
    <2>1. later = {b \in {B(k) : k \in 0 .. cap} : b > at}
      BY <1>2
    <2>2. later # {} /\ later \subseteq Nat
      <3>1. cap \in 0 .. cap /\ 0 .. cap \subseteq Nat
        BY <1>1
      <3>2. B(cap) > at
        <4>1. B(cap) \in Nat
          BY <1>1, <1>3
        <4>2. ~(B(cap) <= at)
          BY <1>2, <1>8, <3>1 DEF Skips
        <4> QED
          BY <4>1, <4>2
      <3> HIDE DEF B
      <3> QED
        BY <1>3, <2>1, <3>1, <3>2
    <2>3. next \in later /\ \A c \in later : next <= c
      <3> HIDE DEF later
      <3> QED
        BY <2>2, LeastExists, Zenon
    <2> DEFINE row == [expr |-> task.expr, next_fire_at |-> next, enabled |-> task.enabled]
    <2>4. Advanced(task, at) = row
      <3>1. Advanced(task, at) = [task EXCEPT !.next_fire_at = next]
        BY <1>8, Zenon DEF Advanced
      <3> HIDE DEF next
      <3>2. [task EXCEPT !.next_fire_at = next] = row
        BY <1>1 DEF TaskRow
      <3> QED
        BY <3>1, <3>2
    <2> HIDE DEF next
    <2>5. /\ row \in TaskRow /\ row.expr = task.expr /\ row.next_fire_at = next
          /\ next \in Nat /\ next > at
      BY <1>1, <2>1, <2>2, <2>3 DEF TaskRow
    <2>6. PICK m \in 0 .. cap : next = B(m)
      BY <2>1, <2>3
    <2> HIDE DEF row
    <2>7. m \in Nat /\ m <= cap
      BY <1>1, <2>6
    <2>8. PICK k0 \in Nat \ {0} : from = origin + k0 * n
      BY DEF Cut, OnGrid
    <2> HIDE DEF n, from, origin
    <2>9. next = origin + (k0 + m) * n /\ k0 + m \in Nat \ {0}
      BY <1>1, <2>6, <2>7, <2>8
    <2>10. OnGrid(row, t)
      BY <2>5, <2>9 DEF OnGrid, origin, n
    <2>11. ASSUME NEW k \in Nat \ {0}, origin + k * n < next
           PROVE  origin + k * n \in done \cup Fires(task, at)
      <3>1. CASE origin + k * n < from
        BY <3>1 DEF Cut, origin, n, from
      <3>2. CASE ~(origin + k * n < from)
        <4>1. k >= k0
          <5>1. origin + k * n >= origin + k0 * n
            BY <1>1, <2>8, <3>2
          <5>2. k * n >= k0 * n
            BY <1>1, <5>1
          <5> QED
            BY <1>1, <5>2
        <4> DEFINE j == k - k0
        <4>2. j \in Nat /\ origin + k * n = B(j)
          BY <1>1, <2>8, <4>1
        <4> HIDE DEF j
        <4>3. j < m
          <5>1. j * n < m * n
            BY <1>1, <2>6, <2>7, <2>11, <4>2
          <5> QED
            BY <1>1, <2>7, <4>2, <5>1
        <4>4. j \in 0 .. cap - 1 /\ j \in 0 .. cap
          BY <1>1, <2>7, <4>2, <4>3
        <4>5. B(j) <= at
          <5> SUFFICES ASSUME ~(B(j) <= at) PROVE FALSE
            OBVIOUS
          <5>1. B(j) \in Nat /\ B(j) > at
            BY <1>3, <4>2
          <5>2. next <= B(j)
            BY <2>1, <2>3, <4>4, <5>1
          <5> QED
            BY <2>5, <2>11, <4>2, <5>1, <5>2
        <4>6. B(j) \in Fires(task, at)
          BY <1>4, <4>4, <4>5
        <4> QED
          BY <4>2, <4>6
      <3> QED
        BY <3>1, <3>2
    <2>12. \A b \in done \cup Fires(task, at) : b \in Nat /\ b < next
      BY <1>6, <2>5
    <2>13. Cut(row, t, done \cup Fires(task, at))
      BY <1>1, <2>5, <2>10, <2>11, <2>12 DEF Cut, origin, n
    <2> QED
      BY <1>8, <2>4, <2>5, <2>13
  <1> QED
    BY <1>7, <1>8

(* A tick, whatever is due *)
LEMMA TickKeepsCut ==
  ASSUME FireInv, NEW at \in Nat, scheduler_tick(at)
  PROVE  FireInv'
  <1>1. ASSUME NEW n \in Names
        PROVE  /\ tasks'[n] \in TaskRow \cup {NULL} /\ since'[n] \in Nat /\ fired'[n] \subseteq Nat
               /\ tasks'[n] # NULL => Cut(tasks'[n], since'[n], fired'[n])
    <2>1. CASE Due(n, at)
      <3>1. Cut(tasks[n], since[n], fired[n]) /\ tasks[n].next_fire_at <= at /\ since[n] \in Nat
        BY <2>1 DEF FireInv, Due
      <3>2. /\ tasks'[n] = Advanced(tasks[n], at)
            /\ since'[n] = IF Skips(tasks[n], at) THEN at ELSE since[n]
            /\ fired'[n] = fired[n] \cup Fires(tasks[n], at)
        BY <2>1 DEF scheduler_tick
      <3>3. tasks'[n] \in TaskRow /\ Cut(tasks'[n], since'[n], fired'[n])
        BY <3>1, <3>2, TickCuts
      <3>4. \A b \in fired'[n] : b \in Nat
        BY <3>3 DEF Cut
      <3> QED
        BY <3>1, <3>2, <3>3, <3>4
    <2>2. CASE ~Due(n, at)
      BY <2>2 DEF FireInv, scheduler_tick
    <2> QED
      BY <2>1, <2>2
  <1>2. /\ tasks' = [n \in Names |-> tasks'[n]]
        /\ since' = [n \in Names |-> since'[n]]
        /\ fired' = [n \in Names |-> fired'[n]]
    BY DEF scheduler_tick
  <1>3. /\ tasks' \in [Names -> TaskRow \cup {NULL}]
        /\ since' \in [Names -> Nat] /\ fired' \in [Names -> SUBSET Nat]
    BY <1>1, <1>2
  <1> QED
    BY <1>1, <1>3 DEF FireInv

(* The operations on one schedule *)
LEMMA ScheduleChanges ==
  ASSUME FireInv, NEW n \in Names, NEW row \in TaskRow \cup {NULL}, NEW t \in Nat,
         NEW done \in SUBSET Nat, row # NULL => Cut(row, t, done),
         tasks' = [tasks EXCEPT ![n] = row],
         since' = [since EXCEPT ![n] = t],
         fired' = [fired EXCEPT ![n] = done]
  PROVE  FireInv'
  <1>1. /\ tasks' \in [Names -> TaskRow \cup {NULL}]
        /\ since' \in [Names -> Nat] /\ fired' \in [Names -> SUBSET Nat]
    BY DEF FireInv
  <1>2. ASSUME NEW m \in Names, tasks'[m] # NULL
        PROVE  Cut(tasks'[m], since'[m], fired'[m])
    <2>1. CASE m = n
      BY <1>2, <2>1 DEF FireInv
    <2>2. CASE m # n
      BY <1>2, <2>2 DEF FireInv
    <2> QED
      BY <2>1, <2>2
  <1> QED
    BY <1>1, <1>2 DEF FireInv

LEMMA ManageKeeps ==
  ASSUME FireInv, now \in Nat, Manage
  PROVE  FireInv'
  <1>1. ASSUME NEW n \in Names, NEW expr \in Exprs, NEW lag \in Lags,
               scheduler_register(n, expr, lag) \/ scheduler_update(n, expr, lag)
        PROVE  FireInv'
    <2> DEFINE t == now - lag
    <2>1. t \in Nat /\ {} \in SUBSET Nat
      <3>1. lag < now
        BY <1>1, Zenon DEF scheduler_register, scheduler_update
      <3>2. lag \in Nat
        BY SchedulerAssumption
      <3> QED
        BY <3>1, <3>2
    <2>2. PICK enabled \in BOOLEAN :
            tasks' = [tasks EXCEPT ![n] =
                        [expr |-> expr, next_fire_at |-> NextAfter(expr, t), enabled |-> enabled]]
      <3>1. tasks[n] = NULL \/ tasks[n] \in TaskRow
        BY DEF FireInv
      <3>2. CASE scheduler_register(n, expr, lag)
        <4>1. (IF tasks[n] = NULL THEN TRUE ELSE tasks[n].enabled) \in BOOLEAN
          BY <3>1, Zenon DEF TaskRow
        <4> QED
          BY <3>2, <4>1, Zenon DEF scheduler_register
      <3>3. CASE scheduler_update(n, expr, lag)
        <4>1. tasks[n] \in TaskRow /\ tasks[n].enabled \in BOOLEAN
          BY <3>1, <3>3 DEF scheduler_update, TaskRow
        <4>2. tasks' = [tasks EXCEPT ![n].expr = expr, ![n].next_fire_at = NextAfter(expr, t)]
          BY <3>3 DEF scheduler_update
        <4> HIDE DEF t
        <4>3. tasks' = [tasks EXCEPT ![n] =
                [expr |-> expr, next_fire_at |-> NextAfter(expr, t), enabled |-> tasks[n].enabled]]
          <5> DEFINE v == NextAfter(expr, t)
                     row == [expr |-> expr, next_fire_at |-> v, enabled |-> tasks[n].enabled]
          <5> HIDE DEF v
          <5>1. tasks \in [Names -> TaskRow \cup {NULL}]
            BY DEF FireInv
          <5>2. tasks' = [tasks EXCEPT ![n].expr = expr, ![n].next_fire_at = v]
            BY <4>2 DEF v
          <5>3. tasks' = [tasks EXCEPT ![n] = [tasks[n] EXCEPT !.expr = expr, !.next_fire_at = v]]
            BY <5>1, <5>2, Zenon
          <5>4. [tasks[n] EXCEPT !.expr = expr, !.next_fire_at = v] = row
            <6>1. PICK r \in TaskRow : r = tasks[n]
              BY <4>1
            <6>2. [r EXCEPT !.expr = expr] =
                    [expr |-> expr, next_fire_at |-> r.next_fire_at, enabled |-> r.enabled]
              BY DEF TaskRow
            <6> DEFINE one == [expr |-> expr, next_fire_at |-> r.next_fire_at, enabled |-> r.enabled]
            <6>3. [one EXCEPT !.next_fire_at = v] =
                    [expr |-> expr, next_fire_at |-> v, enabled |-> r.enabled]
              OBVIOUS
            <6>4. [r EXCEPT !.expr = expr, !.next_fire_at = v] = [one EXCEPT !.next_fire_at = v]
              BY <6>2, Zenon
            <6> QED
              BY <6>1, <6>3, <6>4
          <5> QED
            BY <5>3, <5>4, Zenon DEF v
        <4> QED
          BY <4>1, <4>3, Zenon
      <3> QED
        BY <1>1, <3>2, <3>3
    <2>3. since' = [since EXCEPT ![n] = t] /\ fired' = [fired EXCEPT ![n] = {}]
      BY <1>1, Zenon DEF scheduler_register, scheduler_update
    <2> DEFINE row == [expr |-> expr, next_fire_at |-> NextAfter(expr, t), enabled |-> enabled]
    <2>4. row \in TaskRow /\ Cut(row, t, {})
      BY <2>1, FreshCut
    <2> HIDE DEF t, row
    <2>5. tasks' = [tasks EXCEPT ![n] = row]
      BY <2>2 DEF row
    <2> QED
      BY <2>1, <2>3, <2>4, <2>5, ScheduleChanges, Zenon
  <1>2. ASSUME NEW n \in Names, scheduler_unregister(n)
        PROVE  FireInv'
    BY <1>2, ScheduleChanges, Zenon DEF scheduler_unregister
  <1>3. ASSUME NEW n \in Names, NEW enabled \in BOOLEAN, SetEnabled(n, enabled)
        PROVE  FireInv'
    <2> DEFINE row == [tasks[n] EXCEPT !.enabled = enabled]
    <2>1. tasks[n] \in TaskRow /\ Cut(tasks[n], since[n], fired[n])
      BY <1>3 DEF FireInv, SetEnabled
    <2>2. row \in TaskRow /\ row.expr = tasks[n].expr /\ row.next_fire_at = tasks[n].next_fire_at
      BY <2>1 DEF TaskRow
    <2>3. /\ tasks' = [tasks EXCEPT ![n] = row]
          /\ since' = [since EXCEPT ![n] = since[n]] /\ fired' = [fired EXCEPT ![n] = fired[n]]
      BY <1>3 DEF SetEnabled, FireInv
    <2> HIDE DEF row
    <2>4. Cut(row, since[n], fired[n])
      BY <2>1, <2>2, Zenon DEF Cut, OnGrid
    <2>5. since[n] \in Nat /\ fired[n] \in SUBSET Nat
      BY DEF FireInv
    <2> QED
      BY <2>2, <2>3, <2>4, <2>5, ScheduleChanges, Zenon
  <1> QED
    BY <1>1, <1>2, <1>3, Zenon DEF Manage, scheduler_pause, scheduler_resume

LEMMA FireStep == LockInv /\ FireInv /\ [Next]_vars => FireInv'
  <1> SUFFICES ASSUME LockInv, FireInv, [Next]_vars PROVE FireInv'
    OBVIOUS
  <1>0. now \in Nat
    BY DEF LockInv
  <1>1. CASE UNCHANGED taskvars
    BY <1>1 DEF taskvars, FireInv
  <1>2. CASE Manage
    BY <1>0, <1>2, ManageKeeps
  <1>3. ASSUME NEW o \in Owners, Tick(o)
        PROVE  FireInv'
    <2>1. PICK lag \in Lags : lag < now /\ scheduler_tick(now - lag)
      BY <1>3 DEF Tick, TickAt
    <2>2. now - lag \in Nat
      BY <1>0, <2>1, SchedulerAssumption
    <2> QED
      BY <2>1, <2>2, TickKeepsCut
  <1>4. ASSUME Clock \/ (UNCHANGED vars)
               \/ \E o \in Owners :
                    \/ Acquire(o) \/ Standby(o) \/ Renew(o) \/ Soonest(o) \/ Wait(o) \/ Release(o)
                    \/ LeaderFails(o) \/ Disconnected(o) \/ Stop(o) \/ Crash(o)
                    \/ LockHeartbeat(o) \/ LockRelease(o)
        PROVE  UNCHANGED taskvars
    BY <1>4, Zenon DEF Clock, vars, Acquire, Standby, Renew, Soonest, Wait, Release, LeaderFails,
         Disconnected, Stop, Crash, LockHeartbeat, LockRelease
  <1> QED
    BY <1>1, <1>2, <1>3, <1>4 DEF Next, Run

LEMMA FireInvariant == Spec => []FireInv
  <1>1. Init => FireInv
    BY DEF Init, FireInv
  <1> QED
    BY <1>1, FireStep, LockInvariant, PTL DEF Spec

(* A boundary of a schedule since its registration (or since its backlog   *)
(* was skipped) is enqueued once and before next_fire_at, or still to come *)
(* (scheduler_tick_inner and the operations on the table), for any number  *)
(* of leaders that tick, and any cap, lag and period.                      *)
THEOREM FiresOncePerBoundary == Spec => []NoFireLostOrDoubled
  <1>1. FireInv => NoFireLostOrDoubled
    <2> SUFFICES ASSUME FireInv, NEW n \in Names, tasks[n] # NULL
                 PROVE  /\ \A b \in Boundaries(tasks[n].expr, since[n]) :
                              b < tasks[n].next_fire_at <=> b \in fired[n]
                        /\ \A b \in fired[n] : b < tasks[n].next_fire_at
                        /\ tasks[n].next_fire_at <= MaxTime =>
                              tasks[n].next_fire_at \in Boundaries(tasks[n].expr, since[n])
      BY DEF NoFireLostOrDoubled
    <2>1. /\ Cut(tasks[n], since[n], fired[n]) /\ tasks[n].expr \in Exprs /\ since[n] \in Nat
          /\ OnGrid(tasks[n], since[n])
      BY DEF FireInv, Cut, TaskRow
    <2>2. \A b \in Boundaries(tasks[n].expr, since[n]) :
            b < tasks[n].next_fire_at => b \in fired[n]
      BY <2>1, BoundaryIsInProgression DEF Cut
    <2>3. \A b \in fired[n] : b < tasks[n].next_fire_at
      BY <2>1 DEF Cut
    <2>4. tasks[n].next_fire_at <= MaxTime =>
            tasks[n].next_fire_at \in Boundaries(tasks[n].expr, since[n])
      BY <2>1, ProgressionIsBoundary DEF OnGrid
    <2> QED
      BY <2>2, <2>3, <2>4
  <1> QED
    BY <1>1, FireInvariant, PTL

----------------------------------------------------------------------------
(* Waiting *)

Steps == {"acquire", "insert", "select", "standby", "renew", "tick", "soonest", "wait",
          "release", "closing", "held", "ended"}

AwaitsFires(o) ==
    pc[o] = "wait" =>
      \/ woken[o]
      \/ \A n \in Names : tasks[n] # NULL /\ tasks[n].enabled =>
                            until[o] <= tasks[n].next_fire_at + 1

WaitInv ==
    /\ pc \in [Owners -> Steps] /\ role \in [Owners -> Roles]
    /\ until \in [Owners -> Int] /\ woken \in [Owners -> BOOLEAN]
    /\ \A o \in Owners : pc[o] \in {"renew", "tick", "soonest", "wait"} => role[o] = "scheduler"
    /\ \A o \in Owners : AwaitsFires(o)

(* An enabled schedule has its fire after the beginning of the epoch, and  *)
(* scheduler_soonest finds the earliest.                                   *)
LEMMA SoonestIsSoonest ==
  ASSUME FireInv, NEW n \in Names, tasks[n] # NULL, tasks[n].enabled
  PROVE  /\ scheduler_soonest \in Nat /\ scheduler_soonest > 0
         /\ scheduler_soonest <= tasks[n].next_fire_at
  <1> DEFINE at == {tasks[m].next_fire_at : m \in {m \in Names : tasks[m] # NULL /\ tasks[m].enabled}}
  <1>1. ASSUME NEW m \in Names, tasks[m] # NULL
        PROVE  tasks[m].next_fire_at \in Nat \ {0}
    <2>1. /\ OnGrid(tasks[m], since[m]) /\ tasks[m].expr \in Exprs /\ since[m] \in Nat
      BY <1>1 DEF FireInv, Cut, TaskRow
    <2>2. PICK k \in Nat \ {0} :
            tasks[m].next_fire_at = Origin(tasks[m].expr, since[m]) + k * tasks[m].expr.n
      BY <2>1 DEF OnGrid
    <2>3. tasks[m].next_fire_at \in Nat /\ tasks[m].next_fire_at > since[m]
      BY <2>1, <2>2, ProgressionIsBoundary
    <2> QED
      BY <2>1, <2>3
  <1>2. at \subseteq Nat \ {0} /\ tasks[n].next_fire_at \in at
    BY <1>1
  <1>3. scheduler_soonest = CHOOSE t \in at : \A u \in at : t <= u
    BY <1>2, Zenon DEF scheduler_soonest
  <1> HIDE DEF at
  <1>4. scheduler_soonest \in at /\ \A u \in at : scheduler_soonest <= u
    BY <1>2, <1>3, LeastExists, Zenon
  <1>5. scheduler_soonest \in Nat \ {0} /\ scheduler_soonest <= tasks[n].next_fire_at
    BY <1>2, <1>4, Zenon
  <1>6. \A t \in Nat \ {0} : t \in Nat /\ t > 0
    OBVIOUS
  <1> QED
    BY <1>5, <1>6

LEMMA WaitInitially == Init => WaitInv
  BY SchedulerAssumption DEF Init, WaitInv, AwaitsFires, Steps

(* A step that leaves the schedules alone and does not put to sleep *)
LEMMA StaysAwake ==
  ASSUME WaitInv, UNCHANGED <<tasks, role>>, NEW o \in Owners, NEW next \in Steps,
         pc' = [pc EXCEPT ![o] = next],
         next \in {"renew", "tick", "soonest"} => role[o] = "scheduler", next # "wait",
         until' \in [Owners -> Int], woken' \in [Owners -> BOOLEAN],
         \A p \in Owners \ {o} : until'[p] = until[p] /\ woken'[p] = woken[p]
  PROVE  WaitInv'
  <1>1. /\ pc' \in [Owners -> Steps] /\ pc'[o] = next
        /\ \A p \in Owners \ {o} : pc'[p] = pc[p]
    BY DEF WaitInv
  <1>2. ASSUME NEW p \in Owners
        PROVE  /\ pc'[p] \in {"renew", "tick", "soonest", "wait"} => role[p] = "scheduler"
               /\ AwaitsFires(p)'
    <2>1. CASE p = o
      BY <1>1, <2>1 DEF AwaitsFires
    <2>2. CASE p # o
      BY <1>1, <2>2 DEF WaitInv, AwaitsFires
    <2> QED
      BY <2>1, <2>2, Zenon
  <1> QED
    BY <1>1, <1>2 DEF WaitInv

(* A step that changes the schedules wakes whoever waits. *)
LEMMA WakesKeep ==
  ASSUME WaitInv, Wakes, UNCHANGED <<role, until>>, pc' \in [Owners -> Steps],
         \A o \in Owners : pc'[o] # pc[o] => pc[o] = "tick" /\ pc'[o] = "soonest"
  PROVE  WaitInv'
  <1>1. woken' \in [Owners -> BOOLEAN]
    BY DEF Wakes, WaitInv
  <1>2. ASSUME NEW p \in Owners
        PROVE  /\ pc'[p] \in {"renew", "tick", "soonest", "wait"} => role[p] = "scheduler"
               /\ AwaitsFires(p)'
    <2>1. pc'[p] \in {"renew", "tick", "soonest", "wait"} => role[p] = "scheduler"
      BY DEF WaitInv
    <2>2. pc'[p] = "wait" => woken'[p]
      <3> SUFFICES ASSUME pc'[p] = "wait" PROVE woken'[p]
        BY Zenon
      <3>1. pc[p] = "wait"
        OBVIOUS
      <3> QED
        BY <3>1, Zenon DEF WaitInv, Wakes
    <2> QED
      BY <2>1, <2>2 DEF AwaitsFires
  <1> QED
    BY <1>1, <1>2, Zenon DEF WaitInv

LEMMA SoonestKeeps ==
  ASSUME LockInv, FireInv, WaitInv, NEW o \in Owners, Soonest(o)
  PROVE  WaitInv'
  <1> DEFINE heartbeat == written[o] - LOCK_TTL + HEARTBEAT
             deadline == IF scheduler_soonest > 0 /\ scheduler_soonest < heartbeat
                         THEN scheduler_soonest ELSE heartbeat
  <1>1. /\ pc[o] = "soonest" /\ pc' = [pc EXCEPT ![o] = "wait"]
        /\ UNCHANGED <<tasks, role, woken>>
    BY DEF Soonest, Goto, taskvars
  <1>10. PICK late \in {0, 1} : until' = [until EXCEPT ![o] = deadline + late]
    BY Zenon DEF Soonest
  <1>2. heartbeat \in Int
    BY LocksAssumption, SchedulerAssumption DEF LockInv
  <1> HIDE DEF heartbeat
  <1>3. scheduler_soonest \in Int
    <2>1. CASE \E n \in Names : tasks[n] # NULL /\ tasks[n].enabled
      BY <2>1, SoonestIsSoonest
    <2>2. CASE ~\E n \in Names : tasks[n] # NULL /\ tasks[n].enabled
      BY <2>2 DEF scheduler_soonest
    <2> QED
      BY <2>1, <2>2
  <1>4. deadline \in Int
    BY <1>2, <1>3
  <1>5. ASSUME NEW n \in Names, tasks[n] # NULL, tasks[n].enabled
        PROVE  deadline <= tasks[n].next_fire_at
    <2>1. /\ scheduler_soonest > 0 /\ scheduler_soonest <= tasks[n].next_fire_at
          /\ tasks[n].next_fire_at \in Int
      BY <1>5, SoonestIsSoonest, SMTT(30) DEF FireInv, Cut, TaskRow
    <2> QED
      BY <1>2, <1>3, <2>1
  <1> HIDE DEF deadline
  <1>6. /\ pc' \in [Owners -> Steps] /\ until' \in [Owners -> Int] /\ until'[o] = deadline + late
        /\ \A p \in Owners \ {o} : pc'[p] = pc[p] /\ until'[p] = until[p]
    <2>1. pc \in [Owners -> Steps] /\ until \in [Owners -> Int] /\ "wait" \in Steps
      BY Zenon DEF WaitInv, Steps
    <2> QED
      BY <1>1, <1>10, <1>4, <2>1
  <1>7. AwaitsFires(o)'
    <2>1. ASSUME NEW n \in Names, tasks[n] # NULL, tasks[n].enabled
          PROVE  until'[o] <= tasks[n].next_fire_at + 1
      <3>1. tasks[n].next_fire_at \in Int
        BY <2>1 DEF FireInv, Cut, TaskRow
      <3> QED
        BY <1>4, <1>5, <1>6, <2>1, <3>1
    <2> QED
      BY <1>1, <2>1 DEF AwaitsFires
  <1>8. \A p \in Owners \ {o} : AwaitsFires(p)'
    BY <1>1, <1>6 DEF WaitInv, AwaitsFires
  <1>9. \A p \in Owners :
          pc'[p] \in {"renew", "tick", "soonest", "wait"} => role'[p] = "scheduler"
    BY <1>1, <1>6 DEF WaitInv
  <1> QED
    BY <1>1, <1>6, <1>7, <1>8, <1>9, Zenon DEF WaitInv

LEMMA WaitStep == LockInv /\ FireInv /\ WaitInv /\ [Next]_vars => WaitInv'
  <1> SUFFICES ASSUME LockInv, FireInv, WaitInv, [Next]_vars PROVE WaitInv'
    OBVIOUS
  <1>1. CASE UNCHANGED <<pc, role, tasks, waits>>
    BY <1>1 DEF WaitInv, AwaitsFires, waits
  <1>2. CASE Clock \/ UNCHANGED vars
    BY <1>1, <1>2 DEF Clock, vars, taskvars
  <1>3. CASE Manage
    <2>1. Wakes /\ UNCHANGED <<role, until, pc>>
      BY <1>3, Zenon DEF Manage, scheduler_register, scheduler_update, scheduler_unregister,
           scheduler_pause, scheduler_resume, SetEnabled
    <2>2. pc' \in [Owners -> Steps]
      BY <2>1 DEF WaitInv
    <2> QED
      BY <2>1, <2>2, WakesKeep
  <1>4. ASSUME NEW o \in Owners, Tick(o)
        PROVE  WaitInv'
    <2>1. /\ pc[o] = "tick" /\ pc' = [pc EXCEPT ![o] = "soonest"] /\ UNCHANGED <<role, until>>
          /\ IF tasks' = tasks THEN UNCHANGED woken ELSE Wakes
      BY <1>4 DEF Tick, TickAt, Goto
    <2>2. /\ role[o] = "scheduler" /\ "soonest" \in Steps /\ pc \in [Owners -> Steps]
          /\ until \in [Owners -> Int] /\ woken \in [Owners -> BOOLEAN]
      BY <2>1 DEF WaitInv, Steps
    <2>3. CASE tasks' = tasks
      BY <2>1, <2>2, <2>3, StaysAwake, Zenon
    <2>4. CASE tasks' # tasks
      <3>1. /\ pc' \in [Owners -> Steps]
            /\ \A p \in Owners : pc'[p] # pc[p] => pc[p] = "tick" /\ pc'[p] = "soonest"
        BY <2>1, <2>2
      <3> QED
        BY <2>1, <2>4, <3>1, WakesKeep
    <2> QED
      BY <2>3, <2>4
  <1>5. ASSUME NEW o \in Owners, Soonest(o)
        PROVE  WaitInv'
    BY <1>5, SoonestKeeps
  <1>6. ASSUME NEW o \in Owners, Acquire(o)
        PROVE  WaitInv'
    <2>1. UNCHANGED <<tasks, role, woken>> /\ now \in Int /\ RETRY \in Int
      BY <1>6, SchedulerAssumption DEF Acquire, taskvars, waits, LockInv
    <2>2. CASE (acquire_delete(o) \/ acquire_insert(o)) /\ UNCHANGED waits
      <3>1. PICK next \in {"insert", "select"} : pc' = [pc EXCEPT ![o] = next]
        BY <2>2 DEF acquire_delete, acquire_insert, Goto
      <3>2. /\ next \in Steps /\ next \notin {"renew", "tick", "soonest", "wait"}
            /\ UNCHANGED <<until, woken>>
            /\ until \in [Owners -> Int] /\ woken \in [Owners -> BOOLEAN]
        BY <2>2, <3>1 DEF Steps, waits, WaitInv
      <3> QED
        BY <2>1, <3>1, <3>2, StaysAwake, Zenon
    <2>3. CASE /\ IF role[o] = "scheduler" THEN acquire_select(o, "renew", "standby")
                   ELSE acquire_select(o, "held", "ended")
               /\ until' = [until EXCEPT ![o] = IF HeldBy(o) THEN 0 ELSE now + RETRY]
      <3>1. PICK next \in {"renew", "standby", "held", "ended"} :
              pc' = [pc EXCEPT ![o] = next] /\ (next = "renew" => role[o] = "scheduler")
        BY <2>3 DEF acquire_select, Goto
      <3>2. until' \in [Owners -> Int] /\ \A p \in Owners \ {o} : until'[p] = until[p]
        BY <2>1, <2>3 DEF WaitInv
      <3>3. /\ next \in Steps /\ next \notin {"tick", "soonest", "wait"}
            /\ woken' \in [Owners -> BOOLEAN]
        BY <2>1, <3>1 DEF Steps, WaitInv
      <3> QED
        BY <2>1, <3>1, <3>2, <3>3, StaysAwake, Zenon
    <2> QED
      BY <1>6, <2>2, <2>3 DEF Acquire
  <1>7. ASSUME NEW o \in Owners, Standby(o) \/ Wait(o) \/ Disconnected(o) \/ Crash(o)
        PROVE  WaitInv'
    <2>1. /\ UNCHANGED <<tasks, role>> /\ until' = [until EXCEPT ![o] = 0]
          /\ woken' = [woken EXCEPT ![o] = FALSE]
      BY <1>7 DEF Standby, Wait, Disconnected, Crash, taskvars
    <2>2. PICK next \in {"acquire", "renew", "release", "ended"} :
            pc' = [pc EXCEPT ![o] = next] /\ (next = "renew" => pc[o] = "wait")
      BY <1>7 DEF Standby, Wait, Disconnected, Crash, Goto
    <2>3. /\ next = "renew" => role[o] = "scheduler"
          /\ next \in Steps /\ next \notin {"tick", "soonest", "wait"}
      BY <2>2 DEF WaitInv, Steps
    <2>4. /\ until' \in [Owners -> Int] /\ woken' \in [Owners -> BOOLEAN]
          /\ \A p \in Owners \ {o} : until'[p] = until[p] /\ woken'[p] = woken[p]
      BY <2>1 DEF WaitInv
    <2> QED
      BY <2>1, <2>2, <2>3, <2>4, StaysAwake, Zenon
  <1>8. ASSUME NEW o \in Owners,
               \/ Renew(o) \/ LeaderFails(o) \/ Stop(o) \/ Release(o)
               \/ LockHeartbeat(o) \/ LockRelease(o)
        PROVE  WaitInv'
    <2>1. UNCHANGED <<tasks, role, until, woken>>
      BY <1>8, Zenon DEF Renew, LeaderFails, Stop, Release, LockHeartbeat, LockRelease, taskvars, waits
    <2>2. PICK next \in {"tick", "release", "closing", "ended", "acquire", "held"} :
            pc' = [pc EXCEPT ![o] = next] /\ (next = "tick" => pc[o] = "renew")
      BY <1>8 DEF Renew, LeaderFails, Stop, Release, LockHeartbeat, LockRelease, lock_renew,
           lock_release, Goto
    <2>3. /\ next = "tick" => role[o] = "scheduler"
          /\ next \in Steps /\ next \notin {"renew", "soonest", "wait"}
      BY <2>2 DEF WaitInv, Steps
    <2>4. until' \in [Owners -> Int] /\ woken' \in [Owners -> BOOLEAN]
      BY <2>1 DEF WaitInv
    <2> QED
      BY <2>1, <2>2, <2>3, <2>4, StaysAwake, Zenon
  <1> QED
    BY <1>2, <1>3, <1>4, <1>5, <1>6, <1>7, <1>8 DEF Next, Run

(* A leader that waits while a fire has been due for a second has a wait   *)
(* that is over (leader_loop: soonest, then recv_timeout): its deadline is *)
(* at most a second after any fire of a schedule that is enabled, unless a *)
(* change of the schedules has woken it.  Ticks of others and changes      *)
(* while it asks for the soonest are included.                             *)
THEOREM LeadersWakeInTime == Spec => []NeverOversleeps
  <1>1. LockInv /\ FireInv /\ WaitInv => NeverOversleeps
    <2> SUFFICES ASSUME LockInv, FireInv, WaitInv, NEW o \in Owners, NEW n \in Names,
                        pc[o] = "wait", Due(n, now - 1), ~woken[o]
                 PROVE  now >= until[o]
      BY Zenon DEF NeverOversleeps, TimedOut
    <2>1. /\ tasks[n] # NULL /\ tasks[n].enabled /\ tasks[n].next_fire_at <= now - 1
          /\ tasks[n].next_fire_at \in Nat
      BY DEF Due, FireInv, Cut, TaskRow
    <2>2. until[o] <= tasks[n].next_fire_at + 1
      BY <2>1 DEF WaitInv, AwaitsFires
    <2> QED
      BY <2>1, <2>2 DEF WaitInv, LockInv
  <1> QED
    BY <1>1, WaitInitially, WaitStep, LockInvariant, FireInvariant, PTL DEF Spec
=============================================================================

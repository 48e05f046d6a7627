---------------------------- MODULE SleepProofs ----------------------------
(***************************************************************************)
(* What a claim takes and what it leaves.  It hands out rows in order.  A  *)
(* worker may sleep: a claim that does nothing has left nothing to do, the *)
(* deadline it then asks for is never late, and with it the blocking       *)
(* consumer of ClaimLoop never sleeps through a due job.  For any number of*)
(* jobs, row limits and lags.                                              *)
(***************************************************************************)
EXTENDS ClaimLoop, QueueProofs, FiniteSetTheorems, WellFoundedInduction

----------------------------------------------------------------------------
(* Least elements *)

(* A finite order has a least element: one with the fewest predecessors.   *)
LEMMA Minimal ==
  ASSUME NEW S, IsFiniteSet(S), S # {}, NEW R,
         \A x \in S : <<x, x>> \notin R,
         \A x, y, z \in S : <<x, y>> \in R /\ <<y, z>> \in R => <<x, z>> \in R
  PROVE  \E x \in S : \A y \in S : <<y, x>> \notin R
  <1> DEFINE P(x) == {y \in S : <<y, x>> \in R}
             card == [x \in S |-> Cardinality(P(x))]
             K == {card[x] : x \in S}
  <1>1. \A x \in S : P(x) \subseteq S /\ IsFiniteSet(P(x)) /\ Cardinality(P(x)) \in Nat
    BY FS_Subset, FS_CardinalityType, Zenon
  <1>2. \A x \in S : card[x] = Cardinality(P(x)) /\ card[x] \in Nat
    BY <1>1
  <1>3. \A x, y \in S : <<y, x>> \in R => P(y) \subseteq P(x) /\ y \in P(x) /\ y \notin P(y)
    OBVIOUS
  <1>4. \A x \in S : (\A y \in S : y \notin P(x)) => \A y \in S : <<y, x>> \notin R
    OBVIOUS
  <1> HIDE DEF P, card
  <1>5. K \subseteq Nat /\ K # {}
    BY <1>2
  <1>6. PICK k \in K : \A m \in K : ~(<<m, k>> \in OpToRel(<, Nat))
    <2> HIDE DEF K
    <2> QED
      BY <1>5, NatLessThanWellFounded, WFMin
  <1>7. PICK x \in S : k = card[x]
    OBVIOUS
  <1>8. ASSUME NEW y \in S, <<y, x>> \in R
        PROVE  FALSE
    <2>1. P(y) \subseteq P(x) /\ y \in P(x) /\ y \notin P(y) /\ IsFiniteSet(P(x))
      BY <1>1, <1>3, <1>8
    <2>2. Cardinality(P(y)) <= Cardinality(P(x)) /\ Cardinality(P(y)) # Cardinality(P(x))
      BY <2>1, FS_Subset
    <2>3. card[y] < k /\ card[y] \in K /\ card[y] \in Nat /\ k \in Nat
      BY <1>2, <1>7, <2>2
    <2>4. <<card[y], k>> \in OpToRel(<, Nat)
      BY <2>3 DEF OpToRel
    <2> QED
      BY <1>6, <2>3, <2>4
  <1> QED
    BY <1>8

(* ORDER BY key, id LIMIT n returns something when there is something.     *)
LEMMA KeyLimit ==
  ASSUME NEW S \in SUBSET Nat, IsFiniteSet(S), S # {}, NEW key \in [S -> Int],
         NEW n \in Nat \ {0}
  PROVE  \E x \in S : Cardinality({y \in S : KeyBefore(key[y], y, key[x], x)}) < n
  <1> DEFINE R == {p \in S \X S : KeyBefore(key[p[1]], p[1], key[p[2]], p[2])}
  <1>1. \A x, y \in S : <<x, y>> \in R <=> KeyBefore(key[x], x, key[y], y)
    OBVIOUS
  <1>2. \A x \in S : ~KeyBefore(key[x], x, key[x], x)
    BY DEF KeyBefore
  <1>3. \A x, y, z \in S :
          KeyBefore(key[x], x, key[y], y) /\ KeyBefore(key[y], y, key[z], z)
          => KeyBefore(key[x], x, key[z], z)
    BY DEF KeyBefore
  <1>4. PICK x \in S : \A y \in S : <<y, x>> \notin R
    <2>1. \A x \in S : <<x, x>> \notin R
      BY <1>1, <1>2
    <2>2. \A x, y, z \in S : <<x, y>> \in R /\ <<y, z>> \in R => <<x, z>> \in R
      <3> HIDE DEF R
      <3> QED
        BY <1>1, <1>3
    <2> HIDE DEF R
    <2> QED
      BY <2>1, <2>2, Minimal, Zenon
  <1>5. {y \in S : KeyBefore(key[y], y, key[x], x)} = {}
    BY <1>1, <1>4, Zenon
  <1>6. Cardinality({y \in S : KeyBefore(key[y], y, key[x], x)}) = 0 /\ 0 < n
    BY <1>5, FS_EmptySet
  <1> QED
    BY <1>6, Zenon

(* The same for ORDER BY priority DESC, run_at, id *)
LEMMA ClaimLimit ==
  ASSUME NEW db, NEW S \in SUBSET Nat, IsFiniteSet(S), S # {},
         \A i \in S : db[i].priority \in Int /\ db[i].run_at \in Int,
         NEW n \in Nat \ {0}
  PROVE  \E x \in S : Cardinality({y \in S : ClaimBefore(db, y, x)}) < n
  <1> DEFINE R == {p \in S \X S : ClaimBefore(db, p[1], p[2])}
  <1>1. \A x, y \in S : <<x, y>> \in R <=> ClaimBefore(db, x, y)
    OBVIOUS
  <1>2. \A x \in S : ~ClaimBefore(db, x, x)
    BY DEF ClaimBefore, KeyBefore
  <1>3. \A x, y, z \in S :
          ClaimBefore(db, x, y) /\ ClaimBefore(db, y, z) => ClaimBefore(db, x, z)
    BY DEF ClaimBefore, KeyBefore
  <1>4. PICK x \in S : \A y \in S : <<y, x>> \notin R
    <2>1. \A x \in S : <<x, x>> \notin R
      BY <1>1, <1>2, Zenon
    <2>2. \A x, y, z \in S : <<x, y>> \in R /\ <<y, z>> \in R => <<x, z>> \in R
      <3> HIDE DEF R
      <3> QED
        BY <1>1, <1>3
    <2> HIDE DEF R
    <2> QED
      BY <2>1, <2>2, Minimal, Zenon
  <1>5. {y \in S : ClaimBefore(db, y, x)} = {}
    BY <1>1, <1>4, Zenon
  <1>6. Cardinality({y \in S : ClaimBefore(db, y, x)}) = 0 /\ 0 < n
    BY <1>5, FS_EmptySet
  <1> QED
    BY <1>6, Zenon

----------------------------------------------------------------------------
(* A pending row is due: enqueue_at, promotion and retry give a row that   *)
(* state only when its run_at is not in the future.                        *)
PendingIsDue == \A i \in DOMAIN live : live[i].state = "pending" => live[i].run_at <= now

DueInv == QueueInv /\ PendingIsDue /\ now \in Nat \ {0}

Timely(r, t) == r.state = "pending" => r.run_at <= t

AllTimely(db, t) == \A i \in DOMAIN db : Timely(db[i], t)

LEMMA WithoutTimely ==
  ASSUME NEW db, NEW S, NEW t, AllTimely(db, t)
  PROVE  AllTimely(Without(db, S), t)
  <1>0. /\ DOMAIN Without(db, S) = DOMAIN db \ S
        /\ \A i \in DOMAIN db \ S : Without(db, S)[i] = db[i]
    BY WithoutKeeps, Zenon
  <1>1. ASSUME NEW i \in DOMAIN Without(db, S)
        PROVE  Timely(Without(db, S)[i], t)
    <2>1. i \in DOMAIN db /\ Without(db, S)[i] = db[i]
      BY <1>0, <1>1
    <2>2. Timely(db[i], t)
      BY <2>1 DEF AllTimely
    <2> QED
      BY <2>1, <2>2
  <1> QED
    BY <1>1 DEF AllTimely

LEMMA ClaimTimely ==
  ASSUME QueueInv, AllTimely(live, now), NEW q \in Queues, NEW w \in Workers, NEW lag \in Lags,
         NEW n, NEW timeout, claim_batch(q, w, lag, n, timeout)
  PROVE  AllTimely(live', now)
  <1> DEFINE t         == ReadAt(lag)
             promoted  == Promote(live, q, t)
             expired   == ExpireIds(promoted, q, t)
             unexpired == Without(promoted, expired)
             exhausted == ExhaustedIds(unexpired, q, t)
             kept      == Without(unexpired, exhausted)
             taken     == ClaimIds(kept, q, t, n)
  <1>1. t \in Int /\ t <= now /\ now \in Int
    BY QueueAssumption DEF QueueInv, TypeOK, ReadAt
  <1>2. live' = [i \in DOMAIN kept |->
                   IF i \in taken THEN Claimed(kept[i], w, timeout, t) ELSE kept[i]]
    BY Zenon DEF claim_batch
  <1>3. DOMAIN promoted = DOMAIN live /\ AllTimely(promoted, now)
    <2> HIDE DEF t
    <2>1. DOMAIN promoted = DOMAIN live
      BY DEF Promote
    <2>2. ASSUME NEW i \in DOMAIN live PROVE Timely(promoted[i], now)
      <3>1. live[i] \in Row /\ Timely(live[i], now)
        BY DEF QueueInv, TypeOK, AllTimely
      <3>2. CASE i \in PromoteIds(live, q, t)
        <4>1. live[i].run_at <= t
          BY <3>2 DEF PromoteIds, Limit
        <4>2. promoted[i] = [live[i] EXCEPT !.state = "pending"]
          BY <3>2 DEF Promote
        <4>3. promoted[i].run_at = live[i].run_at /\ live[i].run_at \in Int
          BY <3>1, <4>2 DEF Row
        <4> QED
          BY <1>1, <4>1, <4>3 DEF Timely
      <3>3. CASE i \notin PromoteIds(live, q, t)
        BY <3>1, <3>3 DEF Promote
      <3> QED
        BY <3>2, <3>3
    <2> QED
      BY <2>1, <2>2 DEF AllTimely
  <1> HIDE DEF t, promoted
  <1>4. AllTimely(unexpired, now)
    <2> HIDE DEF expired
    <2> QED
      BY <1>3, WithoutTimely
  <1> HIDE DEF unexpired
  <1>5. AllTimely(kept, now)
    <2> HIDE DEF exhausted
    <2> QED
      BY <1>4, WithoutTimely
  <1> HIDE DEF kept, taken
  <1>6. ASSUME NEW i \in DOMAIN kept
        PROVE  Timely(live'[i], now)
    <2>1. CASE i \in taken
      BY <1>2, <2>1 DEF Timely, Claimed, Updated
    <2>2. CASE i \notin taken
      BY <1>2, <1>5, <2>2 DEF AllTimely
    <2> QED
      BY <2>1, <2>2
  <1> QED
    BY <1>2, <1>6 DEF AllTimely

LEMMA EnqueueTimely ==
  ASSUME QueueInv, AllTimely(live, now), NEW q \in Queues, NEW lag \in Lags,
         NEW run_at \in RunAts, NEW delay \in Delays, NEW priority \in Priorities,
         NEW max_attempts \in Budgets, NEW expires \in Expiries,
         enqueue(q, lag, run_at, delay, priority, max_attempts, expires)
  PROVE  AllTimely(live', now)
  <1> DEFINE t == ReadAt(lag)
             at == RunAt(t, run_at, delay)
             r == NewRow(t, q, at, priority, max_attempts, expires)
             new == [i \in {next_id} |-> r]
  <1>1. t \in Int /\ t <= now /\ now \in Int
    BY QueueAssumption DEF QueueInv, TypeOK, ReadAt
  <1>2. at \in Int
    <2> HIDE DEF t
    <2> QED
      BY <1>1, QueueAssumption DEF RunAt
  <1>3. live' = Add(new, live)
    BY DEF enqueue
  <1> HIDE DEF t, at
  <1>4. Timely(r, now)
    BY <1>1, <1>2 DEF NewRow, Timely
  <1> HIDE DEF r
  <1>5. DOMAIN new = {next_id} /\ new[next_id] = r
    OBVIOUS
  <1> HIDE DEF new
  <1>7. /\ DOMAIN Add(new, live) = DOMAIN new \cup DOMAIN live
        /\ \A i \in DOMAIN new : Add(new, live)[i] = new[i]
        /\ \A i \in DOMAIN live \ DOMAIN new : Add(new, live)[i] = live[i]
    BY AddKeeps, Zenon
  <1>6. ASSUME NEW i \in DOMAIN live'
        PROVE  Timely(live'[i], now)
    <2>1. CASE i = next_id
      BY <1>3, <1>4, <1>5, <1>7, <2>1
    <2>2. CASE i # next_id
      <3>1. i \in DOMAIN live /\ live'[i] = live[i]
        BY <1>3, <1>5, <1>6, <1>7, <2>2
      <3> QED
        BY <3>1 DEF AllTimely
    <2> QED
      BY <2>1, <2>2
  <1> QED
    BY <1>6 DEF AllTimely

LEMMA HandlerTimely ==
  ASSUME QueueInv, AllTimely(live, now), NEW c \in claims, HandlerStep(c)
  PROVE  AllTimely(live', now)
  <1>0. now \in Int /\ live = [i \in DOMAIN live |-> live[i]]
    BY DEF QueueInv, TypeOK
  <1>1. ASSUME live' = Without(live, {c.id}) \/ UNCHANGED live
        PROVE  AllTimely(live', now)
    <2>1. CASE live' = Without(live, {c.id})
      <3>1. AllTimely(Without(live, {c.id}), now)
        BY WithoutTimely
      <3> QED
        BY <2>1, <3>1
    <2>2. CASE UNCHANGED live
      BY <2>2
    <2> QED
      BY <1>1, <2>1, <2>2
  <1>2. ASSUME NEW fenced, NEW delay \in RetryDelays, retry_requeue(c, fenced, delay)
        PROVE  AllTimely(live', now)
    <2>1. Timely(Requeued(live[c.id], now, delay), now)
      BY <1>0, QueueAssumption DEF Requeued, Updated, Timely
    <2>2. live' = [live EXCEPT ![c.id] = Requeued(live[c.id], now, delay)]
      BY <1>2 DEF retry_requeue
    <2> QED
      BY <1>0, <2>1, <2>2 DEF AllTimely
  <1>3. ASSUME NEW extend, heartbeat(c, extend) \/ heartbeat_fenced(c, extend)
        PROVE  AllTimely(live', now)
    <2>1. c.id \in DOMAIN live /\ Timely(Extended(live[c.id], now + extend), now)
      BY <1>3 DEF Extended, Updated, Timely, AllTimely, heartbeat, heartbeat_fenced, Guard
    <2>2. live' = [live EXCEPT ![c.id] = Extended(live[c.id], now + extend)]
      BY <1>3, Zenon DEF heartbeat, heartbeat_fenced
    <2> QED
      BY <1>0, <2>1, <2>2 DEF AllTimely
  <1> QED
    BY <1>1, <1>2, <1>3, Zenon DEF HandlerStep, ack, ack_fenced, fail, Bury, retry_miss

(* Every step but the clock's keeps pending rows due. *)
LEMMA DueStep ==
  ASSUME DueInv, [Next]_vars
  PROVE  DueInv' /\ now' >= now
  <1>0. QueueInv /\ AllTimely(live, now) /\ now \in Nat \ {0}
    BY DEF DueInv, PendingIsDue, AllTimely, Timely
  <1>1. QueueInv'
    BY <1>0, InvStep
  <1>2. CASE Tick
    <2>1. live' = live /\ now' = now + 1 /\ \A i \in DOMAIN live : live[i].run_at \in Int
      BY <1>0, <1>2 DEF Tick, QueueInv, TypeOK, Row
    <2> QED
      BY <1>0, <1>1, <2>1 DEF DueInv, PendingIsDue
  <1>3. ASSUME AllTimely(live', now), now' = now
        PROVE  DueInv' /\ now' >= now
    BY <1>0, <1>1, <1>3 DEF DueInv, PendingIsDue, AllTimely, Timely
  <1>4. ASSUME NEW S, live' = Without(live, S)
        PROVE  AllTimely(live', now)
    <2>1. AllTimely(Without(live, S), now)
      BY <1>0, WithoutTimely
    <2> QED
      BY <1>4, <2>1
  <1>5. CASE UNCHANGED vars
    BY <1>0, <1>3, <1>5 DEF vars
  <1>6. ASSUME NEW c \in claims, HandlerStep(c)
        PROVE  DueInv' /\ now' >= now
    <2>1. now' = now
      BY <1>6, Zenon DEF HandlerStep, ack, ack_fenced, fail, retry_requeue, retry_miss, heartbeat,
         heartbeat_fenced
    <2> QED
      BY <1>0, <1>3, <1>6, <2>1, HandlerTimely
  <1>7. ASSUME NEW w \in Workers, WorkerStep(w)
        PROVE  DueInv' /\ now' >= now
    <2>1. ASSUME NEW q \in Queues, NEW lag \in Lags, NEW n, NEW timeout,
                 claim_batch(q, w, lag, n, timeout)
          PROVE  DueInv' /\ now' >= now
      <3>1. now' = now
        BY <2>1, Zenon DEF claim_batch
      <3> QED
        BY <1>0, <1>3, <2>1, <3>1, ClaimTimely
    <2>2. ASSUME NEW ids, NEW pairs, ack_batch(w, ids, pairs)
          PROVE  DueInv' /\ now' >= now
      BY <1>3, <1>4, <2>2, Zenon DEF ack_batch
    <2>3. CASE retry_exhausted(w)
      BY <1>0, <1>3, <2>3 DEF retry_exhausted
    <2>4. CASE retry_dead(w)
      BY <1>0, <1>3, <1>4, <2>4, Zenon DEF retry_dead, Bury
    <2> QED
      BY <1>7, <2>1, <2>2, <2>3, <2>4, Zenon DEF WorkerStep
  <1>8. ASSUME NEW q \in Queues, QueueStep(q)
        PROVE  DueInv' /\ now' >= now
    <2>1. ASSUME NEW lag \in Lags, NEW run_at \in RunAts, NEW delay \in Delays,
                 NEW priority \in Priorities, NEW max_attempts \in Budgets,
                 NEW expires \in Expiries,
                 enqueue(q, lag, run_at, delay, priority, max_attempts, expires)
          PROVE  DueInv' /\ now' >= now
      <3>1. now' = now
        BY <2>1 DEF enqueue
      <3>2. AllTimely(live', now)
        BY <1>0, <2>1, EnqueueTimely
      <3> QED
        BY <1>3, <3>1, <3>2
    <2>2. ASSUME NEW lag, sweep_expired(q, lag)
          PROVE  DueInv' /\ now' >= now
      BY <1>3, <1>4, <2>2 DEF sweep_expired
    <2>3. ASSUME NEW i, cancel_in_queue(q, i)
          PROVE  DueInv' /\ now' >= now
      BY <1>3, <1>4, <2>3 DEF cancel_in_queue
    <2> QED
      BY <1>8, <2>1, <2>2, <2>3 DEF QueueStep
  <1>9. ASSUME NEW i, cancel(i)
        PROVE  DueInv' /\ now' >= now
    BY <1>3, <1>4, <1>9 DEF cancel
  <1> QED
    BY <1>2, <1>5, <1>6, <1>7, <1>8, <1>9 DEF Next

LEMMA DueInit == ASSUME Init PROVE DueInv
  <1>1. QueueInv
    BY InitInv
  <1> QED
    BY <1>1 DEF DueInv, PendingIsDue, Init, EmptyTable

----------------------------------------------------------------------------
(* Rows of _honker_live are finitely many. *)
LEMMA LiveFinite ==
  ASSUME QueueInv
  PROVE  DOMAIN live \subseteq Nat /\ IsFiniteSet(DOMAIN live)
  <1>1. DOMAIN live \subseteq 1 .. (next_id - 1) /\ next_id \in Nat
    BY DEF QueueInv, JobConservation, TypeOK
  <1>2. IsFiniteSet(1 .. (next_id - 1))
    BY <1>1, FS_Interval
  <1> QED
    BY <1>1, <1>2, FS_Subset

----------------------------------------------------------------------------
(* The order of claims *)

(* What comes before x in S *)
Earlier(S, R, x) == {y \in S : <<y, x>> \in R}

(* R orders D; F is the first n of A, and T the first n of F and L. *)
LimitsTwice(D, R, A, L, n, F, T) ==
  /\ IsFiniteSet(D) /\ A \subseteq D /\ L \subseteq D /\ n \in Nat
  /\ \A x \in D : <<x, x>> \notin R
  /\ \A x, y \in D : x = y \/ <<x, y>> \in R \/ <<y, x>> \in R
  /\ \A x, y, z \in D : <<x, y>> \in R /\ <<y, z>> \in R => <<x, z>> \in R
  /\ F \subseteq A /\ T \subseteq F \cup L
  /\ \A x \in A : x \in F <=> Cardinality(Earlier(A, R, x)) < n
  /\ \A x \in F \cup L : x \in T <=> Cardinality(Earlier(F \cup L, R, x)) < n

(* Limiting an arm before the merge loses nothing: what is left of A and L *)
(* comes after all of T.                                                   *)
LEMMA LimitedArm ==
  ASSUME NEW D, NEW R, NEW A, NEW L, NEW n, NEW F, NEW T,
         LimitsTwice(D, R, A, L, n, F, T),
         NEW a \in T, NEW b \in (A \cup L) \ T
  PROVE  <<a, b>> \in R
  <1> USE DEF LimitsTwice
  <1> DEFINE P(S, x) == Earlier(S, R, x)
             M == F \cup L
  <1>1. \A S \in SUBSET D : \A x : IsFiniteSet(P(S, x)) /\ Cardinality(P(S, x)) \in Nat
    <2> TAKE S \in SUBSET D
    <2> TAKE x
    <2>1. P(S, x) \subseteq D
      BY DEF Earlier
    <2> HIDE DEF P
    <2> QED
      BY <2>1, FS_Subset, FS_CardinalityType
  <1>2. \A S \in SUBSET D : \A x, y \in D : <<y, x>> \in R => P(S, y) \subseteq P(S, x)
    BY DEF Earlier
  <1>3. /\ F \subseteq A /\ M \subseteq D /\ A \subseteq D /\ a \in M /\ a \in D /\ b \in D
        /\ \A x \in A : x \in F <=> Cardinality(P(A, x)) < n
        /\ \A x \in M : x \in T <=> Cardinality(P(M, x)) < n
    OBVIOUS
  <1>4. \A S, x, y : y \in P(S, x) <=> y \in S /\ <<y, x>> \in R
    BY DEF Earlier
  <1> SUFFICES ASSUME <<a, b>> \notin R
               PROVE  FALSE
    OBVIOUS
  <1>5. <<b, a>> \in R
    BY <1>3
  <1> HIDE DEF P, M
  <1>6. Cardinality(P(M, a)) < n
    BY <1>3
  <1>7. CASE b \in M
    <2>1. P(M, b) \subseteq P(M, a)
      BY <1>2, <1>3, <1>5
    <2>2. Cardinality(P(M, b)) <= Cardinality(P(M, a))
      BY <1>1, <1>3, <2>1, FS_Subset
    <2>3. Cardinality(P(M, b)) < n
      BY <1>1, <1>3, <1>6, <2>2
    <2> QED
      BY <1>3, <1>7, <2>3
  <1>8. CASE b \notin M
    <2> DEFINE X == A \ F
    <2>1. b \in X /\ X \subseteq D /\ IsFiniteSet(X) /\ X # {}
      BY <1>8, FS_Subset DEF M
    <2>2. PICK m \in X : \A y \in X : <<y, m>> \notin R
      <3>1. /\ \A x \in X : <<x, x>> \notin R
            /\ \A x, y, z \in X : <<x, y>> \in R /\ <<y, z>> \in R => <<x, z>> \in R
        BY <2>1
      <3> HIDE DEF X
      <3> QED
        BY ONLY <2>1, <3>1, Minimal
    <2>3. m \in A /\ m \in D /\ ~(Cardinality(P(A, m)) < n)
      BY <1>3, <2>1, <2>2
    <2>4. <<m, a>> \in R
      <3>1. m = b \/ <<m, b>> \in R
        BY <1>3, <2>1, <2>2, <2>3, Zenon
      <3> QED
        BY <1>3, <1>5, <2>3, <3>1
    <2>5. ASSUME NEW y \in P(A, m)
          PROVE  y \in P(M, a)
      <3>1. y \in A /\ <<y, m>> \in R /\ y \in F
        BY <1>4, <2>2, <2>5
      <3>2. y \in M /\ <<y, a>> \in R
        BY <1>3, <2>3, <2>4, <3>1 DEF M
      <3> QED
        BY <1>4, <3>2
    <2>6. Cardinality(P(A, m)) <= Cardinality(P(M, a))
      <3>1. P(A, m) \subseteq P(M, a) /\ IsFiniteSet(P(M, a))
        BY <1>1, <1>3, <2>5
      <3> QED
        BY <3>1, FS_Subset
    <2> QED
      BY <1>1, <1>3, <1>6, <2>3, <2>6
  <1> QED
    BY <1>7, <1>8

(* A claim takes no row before a better one.                               *)
LEMMA ClaimIdsInOrder ==
  ASSUME NEW db, DOMAIN db \subseteq Nat, IsFiniteSet(DOMAIN db),
         \A i \in DOMAIN db : db[i].priority \in Int /\ db[i].run_at \in Int,
         NEW q, NEW t, NEW n \in Nat,
         NEW x \in ClaimIds(db, q, t, n),
         NEW y \in (ReadyArm(db, q, t) \cup LapsedArm(db, q, t)) \ ClaimIds(db, q, t, n)
  PROVE  ClaimBefore(db, x, y)
  <1> DEFINE D == DOMAIN db
             R == {p \in D \X D : ClaimBefore(db, p[1], p[2])}
             A == ReadyArm(db, q, t)
             L == LapsedArm(db, q, t)
             F == {i \in A : Cardinality({j \in A : ClaimBefore(db, j, i)}) < n}
             T == ClaimIds(db, q, t, n)
  <1>1. \A i, j \in D : <<i, j>> \in R <=> ClaimBefore(db, i, j)
    OBVIOUS
  <1>2. /\ \A i \in D : ~ClaimBefore(db, i, i)
        /\ \A i, j \in D : i = j \/ ClaimBefore(db, i, j) \/ ClaimBefore(db, j, i)
    BY SMTT(30) DEF ClaimBefore, KeyBefore
  <1>3. \A i, j, k \in D :
          ClaimBefore(db, i, j) /\ ClaimBefore(db, j, k) => ClaimBefore(db, i, k)
    BY SMTT(30) DEF ClaimBefore, KeyBefore
  <1>4. A \in SUBSET D /\ L \in SUBSET D
    BY DEF ReadyArm, LapsedArm
  <1>5. T = {i \in F \cup L : Cardinality({j \in F \cup L : ClaimBefore(db, j, i)}) < n}
    BY DEF ClaimIds, Limit
  <1>6. F \subseteq D /\ x \in T /\ y \in (A \cup L) \ T /\ IsFiniteSet(D) /\ n \in Nat
    BY <1>4
  <1> HIDE DEF R, A, L, D
  <1>7. \A S \in SUBSET D : \A i \in D :
          {j \in S : ClaimBefore(db, j, i)} = Earlier(S, R, i)
    BY <1>1 DEF Earlier
  <1>8. F \subseteq A /\ \A i \in A : i \in F <=> Cardinality(Earlier(A, R, i)) < n
    BY <1>4, <1>7
  <1> HIDE DEF F, T
  <1>9. /\ T \subseteq F \cup L
        /\ \A i \in F \cup L : i \in T <=> Cardinality(Earlier(F \cup L, R, i)) < n
    BY <1>4, <1>5, <1>6, <1>7, Zenon
  <1>10. /\ \A i \in D : <<i, i>> \notin R
         /\ \A i, j \in D : i = j \/ <<i, j>> \in R \/ <<j, i>> \in R
         /\ \A i, j, k \in D : <<i, j>> \in R /\ <<j, k>> \in R => <<i, k>> \in R
    BY <1>1, <1>2, <1>3
  <1>11. LimitsTwice(D, R, A, L, n, F, T)
    BY <1>4, <1>6, <1>8, <1>9, <1>10, Zenon DEF LimitsTwice
  <1>12. <<x, y>> \in R
    BY <1>6, <1>11, LimitedArm
  <1> QED
    BY <1>12 DEF R

(* What a row of the table needs for the order of the claim *)
Ordered(db) ==
  /\ DOMAIN db \subseteq Nat /\ IsFiniteSet(DOMAIN db)
  /\ \A i \in DOMAIN db : db[i].priority \in Int /\ db[i].run_at \in Int

(* The row that a claim leaves behind comes after each one it takes. *)
ClaimsInOrder ==
  \A c \in claims' \ claims : \A i \in DOMAIN live' :
    LET q == live'[c.id].queue
        t == live'[c.id].claimed_at
    IN  i \in ReadyArm(live', q, t) \cup LapsedArm(live', q, t)
        /\ i # c.id => ClaimBefore(live', c.id, i)

(* The columns of a row that UPDATE ... SET wrote, and of a claimed one *)
LEMMA UpdatedFields ==
  ASSUME NEW r, NEW state, NEW run_at, NEW w, NEW lease, NEW at, NEW attempts
  PROVE  LET u == Updated(r, state, run_at, w, lease, at, attempts)
         IN  /\ u.queue = r.queue /\ u.state = state /\ u.priority = r.priority
             /\ u.run_at = run_at /\ u.claim_expires_at = lease /\ u.claimed_at = at
  BY DEF Updated

LEMMA ClaimedFields ==
  ASSUME NEW r, NEW w, NEW timeout, NEW t
  PROVE  LET c == Claimed(r, w, timeout, t)
         IN  /\ c.queue = r.queue /\ c.state = "processing" /\ c.priority = r.priority
             /\ c.run_at = r.run_at /\ c.claim_expires_at = t + timeout /\ c.claimed_at = t
  BY UpdatedFields DEF Claimed

LEMMA ClaimBatchInOrder ==
  ASSUME QueueInv, Timeouts \subseteq Nat,
         NEW q \in Queues, NEW w \in Workers, NEW lag \in Lags, NEW n \in BatchSizes,
         NEW timeout \in Timeouts, claim_batch(q, w, lag, n, timeout)
  PROVE  ClaimsInOrder
  <1> DEFINE t         == ReadAt(lag)
             promoted  == Promote(live, q, t)
             expired   == ExpireIds(promoted, q, t)
             unexpired == Without(promoted, expired)
             exhausted == ExhaustedIds(unexpired, q, t)
             kept      == Without(unexpired, exhausted)
             taken     == ClaimIds(kept, q, t, n)
  <1>1. t \in Int /\ timeout \in Nat /\ n \in Nat
    BY QueueAssumption DEF QueueInv, TypeOK, ReadAt
  <1>2. /\ live' = [i \in DOMAIN kept |->
                      IF i \in taken THEN Claimed(kept[i], w, timeout, t) ELSE kept[i]]
        /\ claims' = claims \cup
              {[id |-> i, worker |-> w,
                attempt |-> Claimed(kept[i], w, timeout, t).attempts] : i \in taken}
    BY Zenon DEF claim_batch
  <1>3. DOMAIN promoted = DOMAIN live /\ \A i \in DOMAIN live : RowOK(promoted[i])
    BY PromoteSameClaim, Zenon DEF QueueInv, SameClaim
  <1> HIDE DEF t, promoted
  <1>4. /\ DOMAIN unexpired = DOMAIN promoted \ expired
        /\ \A i \in DOMAIN promoted \ expired : unexpired[i] = promoted[i]
    BY WithoutKeeps, Zenon
  <1> HIDE DEF expired, unexpired
  <1>5. /\ DOMAIN kept = DOMAIN unexpired \ exhausted
        /\ \A i \in DOMAIN unexpired \ exhausted : kept[i] = unexpired[i]
    BY WithoutKeeps, Zenon
  <1> HIDE DEF exhausted
  <1>6. DOMAIN kept \subseteq DOMAIN live /\ \A i \in DOMAIN kept : RowOK(kept[i])
    BY <1>3, <1>4, <1>5
  <1>7. Ordered(kept)
    <2>1. DOMAIN kept \subseteq Nat /\ IsFiniteSet(DOMAIN kept)
      BY <1>6, LiveFinite, FS_Subset
    <2> HIDE DEF kept
    <2> QED
      BY <1>6, <2>1 DEF Ordered, RowOK, Row
  <1>8. /\ taken \subseteq ReadyArm(kept, q, t) \cup LapsedArm(kept, q, t)
        /\ \A x \in taken : \A y \in (ReadyArm(kept, q, t) \cup LapsedArm(kept, q, t)) \ taken :
             ClaimBefore(kept, x, y)
    <2> HIDE DEF kept
    <2> QED
      BY <1>1, <1>7, ClaimSelects, ClaimIdsInOrder DEF Ordered
  <1> HIDE DEF kept, taken
  <1>9. ASSUME NEW x \in taken
        PROVE  /\ x \in DOMAIN kept /\ kept[x].queue = q /\ x \in DOMAIN live'
               /\ live'[x] = Claimed(kept[x], w, timeout, t)
    BY <1>2, <1>8, Zenon DEF ReadyArm, LapsedArm
  <1>10. ASSUME NEW x \in taken
         PROVE  /\ live'[x].queue = q /\ live'[x].claimed_at = t
                /\ live'[x].state = "processing" /\ live'[x].claim_expires_at = t + timeout
                /\ live'[x].priority = kept[x].priority /\ live'[x].run_at = kept[x].run_at
    <2>1. live'[x] = Claimed(kept[x], w, timeout, t) /\ kept[x].queue = q
      BY <1>9
    <2> HIDE DEF t
    <2> QED
      BY ONLY <2>1, ClaimedFields
  <1>11. ASSUME NEW x \in taken, NEW i \in DOMAIN live', i # x,
                i \in ReadyArm(live', q, t) \cup LapsedArm(live', q, t)
         PROVE  ClaimBefore(live', x, i)
    <2>1. i \notin taken
      <3>1. SUFFICES ASSUME i \in taken PROVE FALSE
        OBVIOUS
      <3>2. live'[i].state = "processing" /\ ~LeaseLapsed(live'[i], t)
        BY <1>1, <1>10, <3>1, SMTT(30) DEF LeaseLapsed
      <3> QED
        BY <1>11, <3>2 DEF ReadyArm, LapsedArm
    <2>2. i \in DOMAIN kept /\ live'[i] = kept[i]
      BY <1>2, <2>1
    <2>3. i \in ReadyArm(kept, q, t) \cup LapsedArm(kept, q, t)
      BY <1>11, <2>2 DEF ReadyArm, LapsedArm
    <2>4. ClaimBefore(kept, x, i)
      BY <1>8, <2>1, <2>3
    <2> QED
      BY <1>10, <2>2, <2>4 DEF ClaimBefore
  <1>12. ASSUME NEW c \in claims' \ claims
         PROVE  c.id \in taken
    <2>1. PICK i \in taken :
            c = [id |-> i, worker |-> w,
                 attempt |-> Claimed(kept[i], w, timeout, t).attempts]
      BY <1>2, Zenon
    <2> QED
      BY <2>1
  <1> QED
    BY <1>10, <1>11, <1>12 DEF ClaimsInOrder

----------------------------------------------------------------------------
(* A claim that changes nothing leaves nothing that something should       *)
(* happen to.                                                              *)
LEMMA IdleIsDone == DueInv => NoStuckRow
  <1> SUFFICES ASSUME DueInv, NEW q \in Queues, Idle(q), NEW i \in DOMAIN live,
                      live[i].queue = q, Due(i)
               PROVE  FALSE
    BY DEF NoStuckRow
  <1>1. /\ now \in Int /\ CLAIM_HOUSEKEEPING_LIMIT \in Nat \ {0} /\ NULL \notin Int
        /\ \A j \in DOMAIN live : RowOK(live[j])
        /\ Timely(live[i], now)
    BY QueueAssumption DEF DueInv, QueueInv, TypeOK, RowsOK, PendingIsDue, Timely
  <1>2. ASSUME NEW S, S \subseteq DOMAIN live
        PROVE  S \in SUBSET Nat /\ IsFiniteSet(S)
    BY <1>2, LiveFinite, FS_Subset DEF DueInv
  <1>3. CASE live[i].state = "scheduled"
    <2> DEFINE S == {j \in DOMAIN live : /\ live[j].queue = q
                                         /\ live[j].state = "scheduled"
                                         /\ live[j].run_at <= now}
               key == [j \in S |-> live[j].run_at]
    <2>0. \A j \in DOMAIN live : live[j].run_at \in Int
      BY <1>1 DEF RowOK, Row
    <2>1. i \in S /\ S \in SUBSET Nat /\ IsFiniteSet(S) /\ key \in [S -> Int]
      <3>1. i \in S
        BY <1>1, <1>3, <2>0, SMTT(30) DEF Due
      <3>2. key \in [S -> Int]
        BY <2>0
      <3>3. S \subseteq DOMAIN live
        OBVIOUS
      <3> QED
        BY <1>2, <3>1, <3>2, <3>3
    <2>2. PICK x \in S :
            Cardinality({y \in S : KeyBefore(key[y], y, key[x], x)}) < CLAIM_HOUSEKEEPING_LIMIT
      <3> HIDE DEF S, key
      <3> QED
        BY <1>1, <2>1, KeyLimit, Zenon
    <2>3. {y \in S : KeyBefore(key[y], y, key[x], x)}
            = {y \in S : KeyBefore(live[y].run_at, y, live[x].run_at, x)}
      OBVIOUS
    <2>4. x \in PromoteIds(live, q, now)
      BY <2>2, <2>3, Zenon DEF PromoteIds, Limit
    <2> QED
      BY <2>4 DEF Idle
  <1>4. CASE i \in ExpiredIds(live, q, now)
    <2> DEFINE S == ExpiredIds(live, q, now)
               key == [j \in S |-> live[j].expires_at]
    <2>1. i \in S /\ S \in SUBSET Nat /\ IsFiniteSet(S) /\ key \in [S -> Int]
      <3>0. \A j \in DOMAIN live : live[j].expires_at \in OptInt
        BY <1>1 DEF RowOK, Row
      <3>1. key \in [S -> Int]
        BY <3>0 DEF ExpiredIds, Expired, OptInt
      <3>2. S \subseteq DOMAIN live
        BY DEF ExpiredIds
      <3> QED
        BY <1>2, <1>4, <3>1, <3>2
    <2>2. PICK x \in S :
            Cardinality({y \in S : KeyBefore(key[y], y, key[x], x)}) < CLAIM_HOUSEKEEPING_LIMIT
      <3> HIDE DEF S, key
      <3> QED
        BY <1>1, <2>1, KeyLimit, Zenon
    <2>3. {y \in S : KeyBefore(key[y], y, key[x], x)}
            = {y \in S : KeyBefore(live[y].expires_at, y, live[x].expires_at, x)}
      OBVIOUS
    <2>4. x \in ExpireIds(live, q, now)
      BY <2>2, <2>3, Zenon DEF ExpireIds, Limit
    <2> QED
      BY <2>4 DEF Idle
  <1>5. CASE live[i].state = "processing" /\ live[i].attempts >= live[i].max_attempts
    <2> DEFINE S == {j \in DOMAIN live : /\ live[j].queue = q
                                         /\ live[j].state = "processing"
                                         /\ LeaseLapsed(live[j], now)
                                         /\ live[j].attempts >= live[j].max_attempts}
               key == [j \in S |-> live[j].claim_expires_at]
    <2>1. i \in S /\ S \in SUBSET Nat /\ IsFiniteSet(S) /\ key \in [S -> Int]
      <3>0. \A j \in DOMAIN live : live[j].claim_expires_at \in OptInt
        BY <1>1 DEF RowOK, Row
      <3>1. i \in S
        <4>1. live[i].claim_expires_at \in Int /\ now \in Int
          BY <1>1, <1>5 DEF RowOK, Row, OptInt
        <4>2. live[i].claim_expires_at < now
          BY <1>1, <1>5, <4>1 DEF Due, LeaseValid
        <4> QED
          BY <1>1, <1>5, <4>1, <4>2 DEF LeaseLapsed
      <3>2. key \in [S -> Int]
        BY <3>0 DEF LeaseLapsed, OptInt
      <3>3. S \subseteq DOMAIN live
        OBVIOUS
      <3> QED
        BY <1>2, <3>1, <3>2, <3>3, Zenon
    <2>2. PICK x \in S :
            Cardinality({y \in S : KeyBefore(key[y], y, key[x], x)}) < CLAIM_HOUSEKEEPING_LIMIT
      <3> HIDE DEF S, key
      <3> QED
        BY <1>1, <2>1, KeyLimit, Zenon
    <2>3. {y \in S : KeyBefore(key[y], y, key[x], x)}
            = {y \in S : KeyBefore(live[y].claim_expires_at, y, live[x].claim_expires_at, x)}
      BY Zenon
    <2>4. x \in ExhaustedIds(live, q, now)
      BY <2>2, <2>3, Zenon DEF ExhaustedIds, Limit
    <2> QED
      BY <2>4 DEF Idle
  <1>6. CASE i \in ReadyArm(live, q, now) \cup LapsedArm(live, q, now)
    <2> DEFINE ready == ReadyArm(live, q, now)
               lapsed == LapsedArm(live, q, now)
               first == {x \in ready : Cardinality({y \in ready : ClaimBefore(live, y, x)}) < 1}
               U == first \cup lapsed
    <2>1. \A j \in DOMAIN live : live[j].priority \in Int /\ live[j].run_at \in Int
      BY <1>1, Zenon DEF RowOK, Row
    <2>2. ready \subseteq DOMAIN live /\ lapsed \subseteq DOMAIN live
      BY DEF ReadyArm, LapsedArm
    <2>3. ready # {} => first # {}
      <3> HIDE DEF ready
      <3>1. ready \in SUBSET Nat /\ IsFiniteSet(ready)
        BY <1>2, <2>2
      <3>2. \A j \in ready : live[j].priority \in Int /\ live[j].run_at \in Int
        BY <2>1, <2>2
      <3>3. 1 \in Nat \ {0}
        OBVIOUS
      <3>4. ready # {} => \E x \in ready : Cardinality({y \in ready : ClaimBefore(live, y, x)}) < 1
        BY <3>1, <3>2, <3>3, ClaimLimit
      <3> QED
        BY <3>4
    <2>4. U # {} /\ U \subseteq DOMAIN live
      BY <1>6, <2>2, <2>3, Zenon
    <2>5. PICK x \in U : Cardinality({y \in U : ClaimBefore(live, y, x)}) < 1
      <3> HIDE DEF U
      <3>1. U \in SUBSET Nat /\ IsFiniteSet(U)
        BY <1>2, <2>4
      <3>2. \A j \in U : live[j].priority \in Int /\ live[j].run_at \in Int
        BY <2>1, <2>4
      <3>3. 1 \in Nat \ {0}
        OBVIOUS
      <3> QED
        BY <2>4, <3>1, <3>2, <3>3, ClaimLimit, Zenon
    <2>6. x \in ClaimIds(live, q, now, 1)
      BY <2>5 DEF ClaimIds, Limit
    <2> QED
      BY <2>6 DEF Idle
  <1>7. /\ live[i].state \in {"pending", "scheduled", "processing"}
        /\ live[i].attempts \in Nat /\ live[i].max_attempts \in Int
        /\ live[i].state # "processing" => live[i].attempts < live[i].max_attempts
    BY <1>1 DEF RowOK, Row
  <1>8. live[i].state = "processing" => LeaseLapsed(live[i], now)
    <2>1. live[i].state = "processing" => live[i].claim_expires_at \in Int
      BY <1>1 DEF RowOK, Row, OptInt
    <2> QED
      BY <1>1, <2>1, SMTT(30) DEF Due, LeaseValid, LeaseLapsed
  <1>9. CASE live[i].state = "pending"
    BY <1>1, <1>4, <1>6, <1>7, <1>9 DEF Timely, ExpiredIds, ReadyArm
  <1>10. CASE live[i].state = "processing"
    <2>1. live[i].attempts >= live[i].max_attempts \/ live[i].attempts < live[i].max_attempts
      BY <1>7
    <2>2. CASE Expired(live[i], now)
      <3>1. i \in ExpiredIds(live, q, now)
        BY <1>1, <1>8, <1>10, <2>2, Zenon DEF ExpiredIds
      <3> QED
        BY <1>4, <3>1, Zenon
    <2>3. CASE ~Expired(live[i], now) /\ live[i].attempts < live[i].max_attempts
      <3>1. i \in LapsedArm(live, q, now)
        BY <1>1, <1>8, <1>10, <2>3, Zenon DEF LapsedArm
      <3> QED
        BY <1>6, <3>1, Zenon
    <2> QED
      BY <1>5, <1>10, <2>1, <2>2, <2>3, Zenon
  <1> QED
    BY <1>3, <1>7, <1>9, <1>10

----------------------------------------------------------------------------
(* A finite set of rows has an earliest one. *)
LEMMA Earliest ==
  ASSUME NEW S, IsFiniteSet(S), S # {}, NEW key \in [S -> Int]
  PROVE  \E x \in S : \A y \in S : key[x] <= key[y]
  <1> DEFINE R == {p \in S \X S : key[p[1]] < key[p[2]]}
  <1>1. \A x, y \in S : <<x, y>> \in R <=> key[x] < key[y]
    OBVIOUS
  <1>2. /\ \A x \in S : <<x, x>> \notin R
        /\ \A x, y, z \in S : <<x, y>> \in R /\ <<y, z>> \in R => <<x, z>> \in R
    <2> HIDE DEF R
    <2> QED
      BY <1>1
  <1> HIDE DEF R
  <1>3. PICK x \in S : \A y \in S : <<y, x>> \notin R
    BY <1>2, Minimal, Zenon
  <1>4. ASSUME NEW y \in S PROVE key[x] <= key[y]
    <2>1. ~(key[y] < key[x])
      BY <1>1, <1>3, Zenon
    <2> QED
      BY <2>1
  <1> QED
    BY <1>4

(* queue_next_claim_at is not later than any row that waits or is leased.  *)
LEMMA NextClaimAt ==
  ASSUME DueInv, NEW q \in Queues
  PROVE  /\ queue_next_claim_at(q) \in Nat
         /\ \A i \in DOMAIN live :
              live[i].queue = q /\ live[i].state # "processing" /\ ~Expired(live[i], now) =>
                /\ queue_next_claim_at(q) > 0
                /\ \/ queue_next_claim_at(q) <= now
                   \/ queue_next_claim_at(q) <= live[i].run_at
         /\ \A i \in DOMAIN live :
              /\ live[i].queue = q /\ live[i].state = "processing" /\ ~Expired(live[i], now)
              /\ live[i].attempts < live[i].max_attempts /\ LeaseValid(live[i], now)
              => /\ queue_next_claim_at(q) > 0
                 /\ queue_next_claim_at(q) <= live[i].claim_expires_at + 1
  <1> DEFINE Waiting(i) == /\ live[i].queue = q
                           /\ live[i].attempts < live[i].max_attempts
                           /\ ~Expired(live[i], now)
             due == ReadyArm(live, q, now) # {}
             Later == {j \in DOMAIN live : Waiting(j) /\ live[j].state = "scheduled"}
             Leased == {j \in DOMAIN live : /\ Waiting(j)
                                            /\ live[j].state = "processing"
                                            /\ LeaseValid(live[j], now)}
             scheduled == {live[i].run_at : i \in Later}
             lease == {live[i].claim_expires_at + 1 : i \in Leased}
             D == scheduled \cup lease
             first == CHOOSE t \in D : \A u \in D : t <= u
             a == queue_next_claim_at(q)
  <1>1. a = IF due THEN now ELSE IF D = {} THEN 0 ELSE IF first > now THEN first ELSE now
    BY DEF queue_next_claim_at
  <1>2. /\ now \in Nat \ {0} /\ NULL \notin Int
        /\ \A j \in DOMAIN live : RowOK(live[j]) /\ Timely(live[j], now)
    BY QueueAssumption DEF DueInv, QueueInv, TypeOK, RowsOK, PendingIsDue, Timely
  <1>3. ASSUME D # {}
        PROVE  first \in D /\ D \subseteq Int /\ \A u \in D : first <= u
    <2> DEFINE S == Later \cup Leased
               key == [j \in S |-> IF live[j].state = "scheduled" THEN live[j].run_at
                                   ELSE live[j].claim_expires_at + 1]
    <2>1. /\ \A j \in Later : live[j].state = "scheduled" /\ live[j].run_at \in Int
          /\ \A j \in Leased : live[j].state = "processing" /\ live[j].claim_expires_at \in Int
      BY <1>2 DEF RowOK, Row, OptInt
    <2>2. S \subseteq DOMAIN live
      OBVIOUS
    <2> HIDE DEF Later, Leased
    <2>3. S # {} /\ key \in [S -> Int]
      BY <1>3, <2>1
    <2>4. D = {key[j] : j \in S}
      <3>1. ASSUME NEW u \in D PROVE \E j \in S : u = key[j]
        BY <2>1
      <3>2. ASSUME NEW j \in S PROVE key[j] \in D
        BY <2>1
      <3> QED
        BY <3>1, <3>2, Zenon
    <2>5. IsFiniteSet(S)
      <3> HIDE DEF S
      <3> QED
        BY <2>2, LiveFinite, FS_Subset DEF DueInv
    <2> HIDE DEF S, key
    <2>6. PICK x \in S : \A y \in S : key[x] <= key[y]
      BY <2>3, <2>5, Earliest
    <2> HIDE DEF D
    <2>7. key[x] \in D /\ \A u \in D : key[x] <= u
      BY <2>4, <2>6
    <2>8. D \subseteq Int
      BY <2>3, <2>4
    <2> QED
      BY <2>7, <2>8, Zenon
  <1>4. a \in Nat
    <2> HIDE DEF due, D, first, a
    <2> QED
      BY <1>1, <1>2, <1>3
  <1>5. ASSUME NEW i \in DOMAIN live, live[i].queue = q, live[i].state # "processing",
               ~Expired(live[i], now)
        PROVE  a > 0 /\ (a <= now \/ a <= live[i].run_at)
    <2>1. /\ live[i].state \in {"pending", "scheduled"} /\ live[i].run_at \in Int
          /\ live[i].attempts < live[i].max_attempts
      BY <1>2, <1>5 DEF RowOK, Row
    <2>2. CASE live[i].state = "pending"
      <3>1. due
        BY <1>2, <1>5, <2>1, <2>2 DEF ReadyArm, Timely
      <3> HIDE DEF due, D, first, a
      <3> QED
        BY <1>1, <1>2, <3>1, SMTT(30)
    <2>3. CASE live[i].state = "scheduled"
      <3>1. live[i].run_at \in D
        BY <1>5, <2>1, <2>3
      <3> HIDE DEF due, D, first, a
      <3> QED
        BY <1>1, <1>2, <1>3, <2>1, <3>1, SMTT(30)
    <2> QED
      BY <2>1, <2>2, <2>3
  <1>6. ASSUME NEW i \in DOMAIN live, live[i].queue = q, live[i].state = "processing",
               ~Expired(live[i], now), live[i].attempts < live[i].max_attempts,
               LeaseValid(live[i], now)
        PROVE  a > 0 /\ a <= live[i].claim_expires_at + 1
    <2>1. live[i].claim_expires_at \in Int /\ live[i].claim_expires_at >= now
      BY <1>2, <1>6 DEF RowOK, Row, OptInt, LeaseValid
    <2>2. live[i].claim_expires_at + 1 \in D
      BY <1>6, Zenon
    <2> HIDE DEF due, D, first, a
    <2> QED
      BY <1>1, <1>2, <1>3, <2>1, <2>2, SMTT(30)
  <1> HIDE DEF due, Later, Leased, D, first, a
  <1>7. \A i \in DOMAIN live :
          live[i].queue = q /\ live[i].state # "processing" /\ ~Expired(live[i], now) =>
            a > 0 /\ (a <= now \/ a <= live[i].run_at)
    BY <1>5
  <1>8. \A i \in DOMAIN live :
          /\ live[i].queue = q /\ live[i].state = "processing" /\ ~Expired(live[i], now)
          /\ live[i].attempts < live[i].max_attempts /\ LeaseValid(live[i], now)
          => a > 0 /\ a <= live[i].claim_expires_at + 1
    BY <1>6
  <1> QED
    BY <1>4, <1>7, <1>8 DEF a

LEMMA DeadlineIsInTime == DueInv => SleepNeverLate
  <1> SUFFICES ASSUME DueInv, NEW q \in Queues, LapsedArm(live, q, now) = {},
                      NEW i \in DOMAIN live, live[i].queue = q, ClaimableInTime(i)
               PROVE  queue_next_claim_at(q) \in 1 .. FirstClaim(i)
    BY DEF SleepNeverLate
  <1>1. /\ now \in Nat \ {0} /\ NULL \notin Int /\ RowOK(live[i])
    BY QueueAssumption DEF DueInv, QueueInv, TypeOK, RowsOK
  <1>2. /\ live[i].run_at \in Int /\ live[i].attempts < live[i].max_attempts
        /\ live[i].state = "processing" => live[i].claim_expires_at \in Int
    BY <1>1 DEF RowOK, Row, OptInt, ClaimableInTime
  <1>3. FirstClaim(i) \in Int /\ FirstClaim(i) >= now
    BY <1>1, <1>2, SMTT(30) DEF FirstClaim
  <1>4. ~Expired(live[i], now)
    BY <1>1, <1>3, SMTT(30) DEF ClaimableInTime, Expired, RowOK, Row, OptInt
  <1> DEFINE a == queue_next_claim_at(q)
  <1>5. CASE live[i].state # "processing"
    <2>1. a \in Nat /\ a > 0 /\ (a <= now \/ a <= live[i].run_at)
      BY <1>4, <1>5, NextClaimAt
    <2> HIDE DEF a
    <2>2. a <= FirstClaim(i)
      <3>1. FirstClaim(i) = IF live[i].run_at > now THEN live[i].run_at ELSE now
        BY <1>5 DEF FirstClaim
      <3> QED
        BY <1>1, <1>2, <2>1, <3>1
    <2>3. a \in 1 .. FirstClaim(i)
      BY <1>3, <2>1, <2>2
    <2> QED
      BY <2>3 DEF a
  <1>6. CASE live[i].state = "processing"
    <2>0. LeaseValid(live[i], now)
      BY <1>1, <1>2, <1>4, <1>6, SMTT(30) DEF LapsedArm, LeaseLapsed, LeaseValid
    <2>1. a \in Nat /\ a > 0 /\ a <= live[i].claim_expires_at + 1
      BY <1>2, <1>4, <1>6, <2>0, NextClaimAt
    <2> HIDE DEF a
    <2>2. a <= FirstClaim(i)
      <3>1. FirstClaim(i) = IF live[i].claim_expires_at + 1 > now
                            THEN live[i].claim_expires_at + 1 ELSE now
        BY <1>6 DEF FirstClaim
      <3> QED
        BY <1>1, <1>2, <1>6, <2>1, <3>1, SMTT(30)
    <2>3. a \in 1 .. FirstClaim(i)
      BY <1>3, <2>1, <2>2
    <2> QED
      BY <2>3 DEF a
  <1> QED
    BY <1>5, <1>6

----------------------------------------------------------------------------
(* While the consumer waits with nothing on its way to it, the table is as *)
(* it was when it asked, and its deadline covers every row that waits.     *)
Covered ==
    pc = "wait" /\ ~tick /\ ~unseen =>
      \A i \in DOMAIN live :
        live[i].queue = Name /\ live[i].state # "processing" /\ ~Expired(live[i], now) =>
          until > 0 /\ (until <= now \/ until <= live[i].run_at)

LoopInv ==
    /\ DueInv /\ Covered
    /\ until \in Nat /\ tick \in BOOLEAN /\ unseen \in BOOLEAN

LEMMA LoopStep ==
  ASSUME LoopInv, [LoopNext]_lvars
  PROVE  LoopInv'
  <1>0. /\ DueInv /\ until \in Nat /\ tick \in BOOLEAN /\ unseen \in BOOLEAN /\ Name \in Queues
        /\ now \in Nat /\ NULL \notin Int
        /\ \A i \in DOMAIN live : live[i].run_at \in Int /\ live[i].expires_at \in Int \cup {NULL}
    BY QueueAssumption, ClaimLoopAssumption
       DEF LoopInv, DueInv, QueueInv, TypeOK, RowsOK, RowOK, Row, OptInt
  <1>1. CASE Claim1
    <2>1. Next
      BY <1>1, ClaimLoopAssumption, Zenon DEF Claim1, Next, WorkerStep
    <2>2. DueInv'
      BY <1>0, <2>1, DueStep
    <2>3. /\ pc' # "wait" /\ until' = until /\ tick' = tick
          /\ unseen' = (unseen \/ <<live, dead>>' # <<live, dead>>)
      BY <1>1 DEF Claim1, Commit
    <2>4. unseen' \in BOOLEAN
      BY <1>0, <2>3
    <2> QED
      BY <1>0, <2>2, <2>3, <2>4 DEF LoopInv, Covered
  <1>2. CASE Others
    <2>1. DueInv' /\ now' >= now
      BY <1>0, <1>2, DueStep DEF Others
    <2>2. /\ pc' = pc /\ until' = until /\ tick' = tick
          /\ unseen' = (unseen \/ <<live, dead>>' # <<live, dead>>)
      BY <1>2 DEF Others, Commit
    <2>3. unseen' \in BOOLEAN /\ (~unseen' => ~unseen /\ live' = live)
      BY <1>0, <2>2, Zenon
    <2>4. Covered'
      <3> SUFFICES ASSUME pc' = "wait", ~tick', ~unseen', NEW i \in DOMAIN live',
                          live'[i].queue = Name, live'[i].state # "processing",
                          ~Expired(live'[i], now')
                   PROVE  until' > 0 /\ (until' <= now' \/ until' <= live'[i].run_at)
        BY DEF Covered
      <3>1. now' \in Nat
        BY <2>1 DEF DueInv
      <3>2. live' = live /\ pc = "wait" /\ ~tick /\ ~unseen
        BY <2>2, <2>3
      <3>3. ~Expired(live[i], now)
        BY <1>0, <2>1, <3>1, <3>2 DEF Expired
      <3>4. until > 0 /\ (until <= now \/ until <= live[i].run_at)
        BY <3>2, <3>3 DEF LoopInv, Covered
      <3> QED
        BY <1>0, <2>1, <2>2, <3>1, <3>2, <3>4, SMTT(30)
    <2> QED
      BY <1>0, <2>1, <2>2, <2>3, <2>4 DEF LoopInv
  <1>3. CASE Ask
    <2>1. UNCHANGED vars /\ unseen' = unseen /\ tick' = tick /\ until' = queue_next_claim_at(Name)
      BY <1>3 DEF Ask
    <2>2. UNCHANGED <<live, now>> /\ DueInv'
      BY <1>0, <2>1, DueStep, Zenon DEF vars
    <2>3. until' \in Nat
      BY <1>0, <2>1, NextClaimAt
    <2>4. \A i \in DOMAIN live :
            live[i].queue = Name /\ live[i].state # "processing" /\ ~Expired(live[i], now) =>
              until' > 0 /\ (until' <= now \/ until' <= live[i].run_at)
      BY <1>0, <2>1, NextClaimAt
    <2> QED
      BY <1>0, <2>1, <2>2, <2>3, <2>4 DEF LoopInv, Covered
  <1>4. CASE Again \/ Wake \/ Notice
    <2>1. /\ UNCHANGED vars /\ until' = until /\ (pc' # "wait" \/ tick')
          /\ tick' \in BOOLEAN /\ unseen' \in BOOLEAN
      BY <1>0, <1>4, Zenon DEF Again, Wake, Notice
    <2>2. DueInv'
      BY <1>0, <2>1, DueStep
    <2> QED
      BY <1>0, <2>1, <2>2 DEF LoopInv, Covered
  <1>5. CASE UNCHANGED lvars
    <2>1. /\ UNCHANGED vars /\ UNCHANGED <<live, now, pc, until, unseen, tick>>
      BY <1>5 DEF lvars, vars
    <2>2. DueInv'
      BY <1>0, <2>1, DueStep
    <2> QED
      BY <1>0, <2>1, <2>2 DEF LoopInv, Covered
  <1> QED
    BY <1>1, <1>2, <1>3, <1>4, <1>5 DEF LoopNext

(* A due row is covered by the deadline, which has then passed. *)
LEMMA CoveredIsWoken == LoopInv => NeverSleepsThrough
  <1> SUFFICES ASSUME LoopInv, pc = "wait", ~tick, ~unseen, NEW i \in DOMAIN live, Offered(i)
               PROVE  Woken
    BY DEF NeverSleepsThrough
  <1>1. /\ live[i].queue = Name /\ ~Expired(live[i], now)
        /\ idle_poll \/ live[i].state # "processing"
    BY DEF Offered, Claimable
  <1>2. /\ now \in Nat /\ until \in Nat /\ live[i] \in Row /\ Timely(live[i], now)
    BY DEF LoopInv, DueInv, QueueInv, TypeOK, PendingIsDue, Timely
  <1>3. CASE live[i].state # "processing"
    <2>1. live[i].run_at <= now /\ live[i].run_at \in Int
      BY <1>2, <1>3, SMTT(30) DEF Offered, Claimable, Due, Timely, Row
    <2>2. until > 0 /\ (until <= now \/ until <= live[i].run_at)
      BY <1>1, <1>3 DEF LoopInv, Covered
    <2> QED
      BY <1>2, <2>1, <2>2 DEF Woken
  <1>4. CASE idle_poll
    BY <1>4 DEF Woken
  <1> QED
    BY <1>1, <1>3, <1>4

----------------------------------------------------------------------------
LEMMA DueInvariant == Spec => []DueInv
  <1>1. Init => DueInv
    BY DueInit
  <1>2. DueInv /\ [Next]_vars => DueInv'
    BY DueStep
  <1> QED
    BY <1>1, <1>2, PTL DEF Spec

(* A claim_batch that promotes, expires, sweeps and claims nothing leaves  *)
(* no row of its queue that would need it, whatever the row limit.         *)
THEOREM NothingIsStuck == Spec => []NoStuckRow
  <1> QED
    BY IdleIsDone, DueInvariant, PTL

(* queue_next_claim_at is never later than the first time a claim could    *)
(* return a row, unless a lease has already lapsed.                        *)
THEOREM DeadlineIsNeverLate == Spec => []SleepNeverLate
  <1> QED
    BY DeadlineIsInTime, DueInvariant, PTL

(* A consumer blocked in ClaimWaker::next or _WorkerQueueIter beside a due *)
(* job has a tick, a commit to be noticed or a deadline that wakes it.     *)
THEOREM ConsumerNeverSleepsThrough == LoopSpec => []NeverSleepsThrough
  <1>1. LoopInit => LoopInv
    <2> SUFFICES ASSUME LoopInit PROVE LoopInv
      OBVIOUS
    <2>1. DueInv
      BY DueInit DEF LoopInit
    <2> QED
      BY <2>1, Zenon DEF LoopInit, LoopInv, Covered
  <1>2. LoopInv /\ [LoopNext]_lvars => LoopInv'
    BY LoopStep
  <1> QED
    BY <1>1, <1>2, CoveredIsWoken, PTL DEF LoopSpec

(* A claim_batch leaves behind no row that comes before one it hands out,  *)
(* however many rows are ready or lapsed and whatever the batch size,      *)
(* provided that no caller asks for a lease that has lapsed already.       *)
THEOREM ClaimsFollowTheOrder ==
  ASSUME Timeouts \subseteq Nat
  PROVE  Spec => ClaimOrder
  <1>1. QueueInv /\ [Next]_vars => [ClaimsInOrder]_vars
    <2> SUFFICES ASSUME QueueInv, [Next]_vars
                 PROVE  ClaimsInOrder
      OBVIOUS
    <2>1. CASE claims' = claims
      BY <2>1 DEF ClaimsInOrder
    <2>2. CASE \E w \in Workers, q \in Queues, lag \in Lags, n \in BatchSizes,
                  timeout \in Timeouts : claim_batch(q, w, lag, n, timeout)
      BY <2>2, ClaimBatchInOrder
    <2>3. CASE Next
      <3>1. ASSUME NEW c \in claims, HandlerStep(c)
            PROVE  claims' = claims
        BY <3>1, Zenon DEF HandlerStep, ack, ack_fenced, fail, retry_requeue, retry_miss,
                    heartbeat, heartbeat_fenced
      <3>2. ASSUME NEW q \in Queues, QueueStep(q)
            PROVE  claims' = claims
        BY <3>2, Zenon DEF QueueStep, enqueue, sweep_expired, cancel_in_queue
      <3>3. ASSUME NEW w \in Workers, WorkerStep(w)
            PROVE  \/ claims' = claims
                   \/ \E q \in Queues, lag \in Lags, n \in BatchSizes,
                         timeout \in Timeouts : claim_batch(q, w, lag, n, timeout)
        BY <3>3, Zenon DEF WorkerStep, ack_batch, retry_exhausted, retry_dead
      <3> QED
        BY <2>1, <2>2, <2>3, <3>1, <3>2, <3>3, Zenon DEF Next, Tick, cancel
    <2> QED
      BY <2>1, <2>3 DEF vars
  <1> QED
    BY <1>1, Invariance, PTL DEF Spec, ClaimOrder, ClaimsInOrder
=============================================================================

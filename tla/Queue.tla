------------------------------- MODULE Queue -------------------------------
(***************************************************************************)
(* The job queue of honker-core: the tables _honker_live and _honker_dead  *)
(* and every operation of honker_ops.rs that writes them.                  *)
(*                                                                         *)
(* SQLite admits one writer at a time, so a statement, or a savepoint      *)
(* (in_savepoint), is one atomic step.  The clock may move between any two *)
(* steps.  enqueue, claim_batch and sweep_expired read it (now_unix) before*)
(* their first write and may then wait for the write lock, so the time they*)
(* work with lags behind; single statements use unixepoch() under the lock.*)
(* honker_retry is the one operation that runs several statements outside a*)
(* savepoint, so it is several steps here, with the clock and every other  *)
(* caller free to move between them.                                       *)
(*                                                                         *)
(* A claim handed out by claim_batch is never forgotten: any handler that  *)
(* ever received a job may call ack, retry, fail or heartbeat for it at    *)
(* any later time, any number of times, or never (it crashed).             *)
(*                                                                         *)
(* Operators named Mutant... are plausible bugs in the definition that     *)
(* follows them; no specification uses them.                               *)
(***************************************************************************)
EXTENDS Integers, FiniteSets, Functions

CONSTANTS
    Queues,                 \* queue names
    Workers,                \* worker ids
    NULL,                   \* SQL NULL
    Priorities,             \* priorities a producer uses
    RunAts,                 \* run_at arguments of honker_enqueue, or NULL
    Delays,                 \* delay arguments of honker_enqueue, or NULL
    Expiries,               \* expires arguments of honker_enqueue, or NULL
    Budgets,                \* max_attempts arguments of honker_enqueue
    Timeouts,               \* visibility timeouts of honker_claim_batch
    Extends,                \* extend_s of honker_heartbeat
    RetryDelays,            \* delay_s of honker_retry
    BatchSizes,             \* n of honker_claim_batch
    CLAIM_HOUSEKEEPING_LIMIT,
    Lags,                   \* seconds a writer may wait after reading the clock
    MaxJobs,                \* bound: jobs enqueued in a behaviour
    MaxTime                 \* bound: last value of the clock

ASSUME QueueAssumption ==
    /\ NULL \notin Int
    /\ NULL \notin Workers
    /\ Priorities \subseteq Int
    /\ RunAts \subseteq Int \cup {NULL}
    /\ Delays \subseteq Int \cup {NULL}
    /\ Expiries \subseteq Int \cup {NULL}
    /\ Budgets \subseteq Int
    /\ Timeouts \subseteq Int
    /\ Extends \subseteq Int
    /\ RetryDelays \subseteq Int
    /\ BatchSizes \subseteq Nat
    /\ CLAIM_HOUSEKEEPING_LIMIT \in Nat \ {0}
    /\ Lags \subseteq Nat
    /\ MaxJobs \in Nat
    /\ MaxTime \in Nat

VARIABLES
    now,            \* unixepoch()
    live,           \* _honker_live: id -> row
    dead,           \* _honker_dead: id -> row
    next_id,        \* AUTOINCREMENT: ids are never reused
    claims,         \* history: every claim ever handed out
    settled,        \* history: how each row that left _honker_live left it
    retry_call      \* per worker, the honker_retry call between two statements

vars == <<now, live, dead, next_id, claims, settled, retry_call>>

----------------------------------------------------------------------------
(* Types *)

OptInt == Int \cup {NULL}

Row == [queue : Queues, state : {"pending", "scheduled", "processing"},
        priority : Int, run_at : Int, expires_at : OptInt,
        worker_id : Workers \cup {NULL}, claim_expires_at : OptInt,
        claimed_at : OptInt, attempts : Nat, max_attempts : Int]

DeadRow == [queue : Queues, attempts : Nat, max_attempts : Int,
            last_error : {"expired", "max attempts exceeded", "handler"}]

(* What honker_claim_batch returns for one job: the handler's identity.    *)
Claim == [id : Nat, worker : Workers, attempt : Nat \ {0}]

(* How a row left _honker_live.  attempt is the token of a fenced call.    *)
Settlement == [how : {"acked", "dead", "cancelled"},
               worker : Workers \cup {NULL}, attempt : Nat \cup {NULL}]

RetryCall == [id : Nat, attempt : Nat \ {0}, fenced : BOOLEAN,
              step : {"exhausted", "dead"}]

----------------------------------------------------------------------------
(* Row predicates.  A comparison with NULL is not true in SQL. *)

Expired(r, t) == r.expires_at # NULL /\ r.expires_at <= t

LeaseValid(r, t) == r.claim_expires_at # NULL /\ r.claim_expires_at >= t

MutantLeaseLapsed(r, t) == r.claim_expires_at # NULL /\ r.claim_expires_at <= t

LeaseLapsed(r, t) == r.claim_expires_at # NULL /\ r.claim_expires_at < t

(* ORDER BY ... LIMIT n: the members of S that fewer than n others precede.*)
Limit(S, n, Before(_, _)) ==
    {i \in S : Cardinality({j \in S : Before(j, i)}) < n}

(* ORDER BY key, id *)
KeyBefore(ki, i, kj, j) == ki < kj \/ (ki = kj /\ i < j)

(* ORDER BY priority DESC, run_at, id *)
ClaimBefore(db, i, j) ==
    \/ db[i].priority > db[j].priority
    \/ /\ db[i].priority = db[j].priority
       /\ KeyBefore(db[i].run_at, i, db[j].run_at, j)

----------------------------------------------------------------------------
(* The housekeeping statements and the claim, on a live table db. *)

PromoteIds(db, q, t) ==
    Limit({i \in DOMAIN db : /\ db[i].queue = q
                             /\ db[i].state = "scheduled"
                             /\ db[i].run_at <= t},
          CLAIM_HOUSEKEEPING_LIMIT,
          LAMBDA i, j : KeyBefore(db[i].run_at, i, db[j].run_at, j))

Promote(db, q, t) ==
    LET P == PromoteIds(db, q, t)
    IN  [i \in DOMAIN db |->
           IF i \in P THEN [db[i] EXCEPT !.state = "pending"] ELSE db[i]]

MutantExpiredIds(db, q, t) ==
    {i \in DOMAIN db : /\ db[i].queue = q
                       /\ Expired(db[i], t)
                       /\ db[i].state \in {"pending", "scheduled"}}

ExpiredIds(db, q, t) ==
    {i \in DOMAIN db : /\ db[i].queue = q
                       /\ Expired(db[i], t)
                       /\ \/ db[i].state \in {"pending", "scheduled"}
                          \/ /\ db[i].state = "processing"
                             /\ LeaseLapsed(db[i], t)}

(* EXPIRE_IDS with its row limit *)
ExpireIds(db, q, t) ==
    Limit(ExpiredIds(db, q, t), CLAIM_HOUSEKEEPING_LIMIT,
          LAMBDA i, j : KeyBefore(db[i].expires_at, i, db[j].expires_at, j))

ExhaustedIds(db, q, t) ==
    Limit({i \in DOMAIN db : /\ db[i].queue = q
                             /\ db[i].state = "processing"
                             /\ LeaseLapsed(db[i], t)
                             /\ db[i].attempts >= db[i].max_attempts},
          CLAIM_HOUSEKEEPING_LIMIT,
          LAMBDA i, j : KeyBefore(db[i].claim_expires_at, i,
                                  db[j].claim_expires_at, j))

(* The two arms of CLAIM_SQL *)
ReadyArm(db, q, t) ==
    {i \in DOMAIN db : /\ db[i].queue = q
                       /\ db[i].state = "pending"
                       /\ db[i].run_at <= t
                       /\ db[i].attempts < db[i].max_attempts
                       /\ ~Expired(db[i], t)}

MutantLapsedArm(db, q, t) ==
    {i \in DOMAIN db : /\ db[i].queue = q
                       /\ db[i].state = "processing"
                       /\ LeaseLapsed(db[i], t)
                       /\ db[i].attempts + 1 < db[i].max_attempts
                       /\ ~Expired(db[i], t)}

LapsedArm(db, q, t) ==
    {i \in DOMAIN db : /\ db[i].queue = q
                       /\ db[i].state = "processing"
                       /\ LeaseLapsed(db[i], t)
                       /\ db[i].attempts < db[i].max_attempts
                       /\ ~Expired(db[i], t)}

MutantClaimIds(db, q, t, n) ==
    LET Before(i, j) == ClaimBefore(db, i, j)
        ready == Limit(ReadyArm(db, q, t), n, Before)
    IN  IF ready # {} THEN ready ELSE Limit(LapsedArm(db, q, t), n, Before)

ClaimIds(db, q, t, n) ==
    LET Before(i, j) == ClaimBefore(db, i, j)
    IN  Limit(Limit(ReadyArm(db, q, t), n, Before) \cup LapsedArm(db, q, t),
              n, Before)

(* r with new state, run_at, claim columns and attempts *)
Updated(r, state, run_at, w, lease, at, attempts) ==
    [queue |-> r.queue, state |-> state, priority |-> r.priority,
     run_at |-> run_at, expires_at |-> r.expires_at, worker_id |-> w,
     claim_expires_at |-> lease, claimed_at |-> at, attempts |-> attempts,
     max_attempts |-> r.max_attempts]

MutantClaimed(r, w, timeout, t) ==
    Updated(r, "processing", r.run_at, w, t + timeout, t, r.attempts)

Claimed(r, w, timeout, t) ==
    Updated(r, "processing", r.run_at, w, t + timeout, t, r.attempts + 1)

----------------------------------------------------------------------------
(* Tables *)

Without(db, S) == Restrict(db, DOMAIN db \ S)

(* g with the entries of f added (INSERT of rows whose ids are new) *)
Add(f, g) == [i \in DOMAIN f \cup DOMAIN g |-> IF i \in DOMAIN f THEN f[i] ELSE g[i]]

MutantDeadRows(db, S, error) ==
    [i \in {j \in S : db[j].state # "processing"} |->
       [queue |-> db[i].queue, attempts |-> db[i].attempts,
        max_attempts |-> db[i].max_attempts, last_error |-> error]]

(* INSERT INTO _honker_dead SELECT ... FROM _honker_live WHERE id IN S *)
DeadRows(db, S, error) ==
    [i \in S |-> [queue |-> db[i].queue, attempts |-> db[i].attempts,
                  max_attempts |-> db[i].max_attempts, last_error |-> error]]

Settle(S, how, w, a) ==
    Add([i \in S |-> [how |-> how, worker |-> w, attempt |-> a]], settled)

EmptyTable == [i \in {} |-> NULL]

Init ==
    /\ now = 1
    /\ live = EmptyTable
    /\ dead = EmptyTable
    /\ next_id = 1
    /\ claims = {}
    /\ settled = EmptyTable
    /\ retry_call = [w \in Workers |-> NULL]

(* The time read by an operation that then waited lag seconds for the lock *)
ReadAt(lag) == now - lag

(* The wall clock.  MaxTime bounds the model. *)
Tick ==
    /\ now < MaxTime
    /\ now' = now + 1
    /\ UNCHANGED <<live, dead, next_id, claims, settled, retry_call>>

----------------------------------------------------------------------------
(* Operations *)

(* run_at of an enqueue at time t: delay wins over run_at *)
RunAt(t, run_at, delay) ==
    IF delay # NULL THEN t + delay
    ELSE IF run_at # NULL THEN run_at ELSE t

(* enqueue_at: a future run_at makes the row 'scheduled'. *)
NewRow(t, q, at, priority, max_attempts, expires) ==
    [queue |-> q, state |-> IF at > t THEN "scheduled" ELSE "pending",
     priority |-> priority, run_at |-> at,
     expires_at |-> IF expires # NULL THEN t + expires ELSE NULL,
     worker_id |-> NULL, claim_expires_at |-> NULL, claimed_at |-> NULL,
     attempts |-> 0, max_attempts |-> max_attempts]

enqueue(q, lag, run_at, delay, priority, max_attempts, expires) ==
    LET t == ReadAt(lag)
    IN  /\ next_id <= MaxJobs
        /\ max_attempts >= 1                        \* check_max_attempts
        /\ lag < now
        /\ live' = Add([i \in {next_id} |->
                          NewRow(t, q, RunAt(t, run_at, delay), priority,
                                 max_attempts, expires)],
                       live)
        /\ next_id' = next_id + 1
        /\ UNCHANGED <<now, dead, claims, settled, retry_call>>

(* Promote, expire, sweep exhausted leases, claim: one savepoint, one time.*)
claim_batch(q, w, lag, n, timeout) ==
    LET t         == ReadAt(lag)
        promoted  == Promote(live, q, t)
        expired   == ExpireIds(promoted, q, t)
        unexpired == Without(promoted, expired)
        exhausted == ExhaustedIds(unexpired, q, t)
        kept      == Without(unexpired, exhausted)
        taken     == ClaimIds(kept, q, t, n)
    IN  /\ lag < now
        /\ live' = [i \in DOMAIN kept |->
                      IF i \in taken THEN Claimed(kept[i], w, timeout, t)
                      ELSE kept[i]]
        /\ dead' = Add(DeadRows(unexpired, exhausted, "max attempts exceeded"),
                       Add(DeadRows(promoted, expired, "expired"), dead))
        /\ settled' = Settle(expired \cup exhausted, "dead", NULL, NULL)
        /\ claims' = claims \cup
                {[id |-> i, worker |-> w,
                  attempt |-> Claimed(kept[i], w, timeout, t).attempts] : i \in taken}
        /\ UNCHANGED <<now, next_id, retry_call>>

MutantGuard(c, fenced) ==
    /\ c.id \in DOMAIN live
    /\ live[c.id].worker_id = c.worker
    /\ IF fenced THEN live[c.id].state = "processing"
       ELSE LeaseValid(live[c.id], now)

(* The guard of a call made for claim c.  Unfenced: worker id and an       *)
(* unexpired lease.  Fenced: worker id and attempts token, no lease check. *)
Guard(c, fenced) ==
    /\ c.id \in DOMAIN live
    /\ live[c.id].worker_id = c.worker
    /\ IF fenced
       THEN /\ live[c.id].attempts = c.attempt
            /\ live[c.id].state = "processing"
       ELSE LeaseValid(live[c.id], now)

Token(c, fenced) == IF fenced THEN c.attempt ELSE NULL

ack(c) ==
    /\ Guard(c, FALSE)
    /\ live' = Without(live, {c.id})
    /\ settled' = Settle({c.id}, "acked", c.worker, NULL)
    /\ UNCHANGED <<now, dead, next_id, claims, retry_call>>

ack_fenced(c) ==
    /\ Guard(c, TRUE)
    /\ live' = Without(live, {c.id})
    /\ settled' = Settle({c.id}, "acked", c.worker, c.attempt)
    /\ UNCHANGED <<now, dead, next_id, claims, retry_call>>

(* One DELETE for plain ids and [id, attempt] pairs, each by its own form. *)
ack_batch(w, ids, pairs) ==
    LET plain  == {i \in DOMAIN live \cap ids : /\ live[i].worker_id = w
                                                /\ LeaseValid(live[i], now)}
        fenced == {i \in DOMAIN live : /\ live[i].worker_id = w
                                       /\ live[i].state = "processing"
                                       /\ <<i, live[i].attempts>> \in pairs}
    IN  /\ plain \cup fenced # {}
        /\ live' = Without(live, plain \cup fenced)
        /\ settled' = Add([i \in plain \cup fenced |->
                             [how |-> "acked", worker |-> w,
                              attempt |-> IF i \in fenced THEN live[i].attempts
                                          ELSE NULL]],
                          settled)
        /\ UNCHANGED <<now, dead, next_id, claims, retry_call>>

MutantCanRequeue(c, fenced) ==
    /\ Guard(c, fenced)
    /\ live[c.id].state = "processing"

(* The guarded UPDATE, first statement of honker_retry. *)
CanRequeue(c, fenced) ==
    /\ Guard(c, fenced)
    /\ live[c.id].state = "processing"
    /\ live[c.id].attempts < live[c.id].max_attempts

MutantRequeued(r, t, delay) ==
    Updated(r, IF delay > 0 THEN "scheduled" ELSE "pending", t + delay,
            r.worker_id, r.claim_expires_at, NULL, r.attempts)

Requeued(r, t, delay) ==
    Updated(r, IF delay > 0 THEN "scheduled" ELSE "pending", t + delay,
            NULL, NULL, NULL, r.attempts)

retry_requeue(c, fenced, delay) ==
    /\ retry_call[c.worker] = NULL
    /\ CanRequeue(c, fenced)
    /\ live' = [live EXCEPT ![c.id] = Requeued(@, now, delay)]
    /\ UNCHANGED <<now, dead, next_id, claims, settled, retry_call>>

retry_miss(c, fenced) ==
    /\ retry_call[c.worker] = NULL
    /\ ~CanRequeue(c, fenced)
    /\ retry_call' = [retry_call EXCEPT ![c.worker] =
                        [id |-> c.id, attempt |-> c.attempt,
                         fenced |-> fenced, step |-> "exhausted"]]
    /\ UNCHANGED <<now, live, dead, next_id, claims, settled>>

(* The claim the pending retry of worker w is about *)
Caller(w) == [id |-> retry_call[w].id, worker |-> w,
              attempt |-> retry_call[w].attempt]

IsExhausted(c, fenced) ==
    /\ Guard(c, fenced)
    /\ live[c.id].state = "processing"
    /\ live[c.id].attempts >= live[c.id].max_attempts

(* The SELECT that only chooses the path *)
retry_exhausted(w) ==
    /\ retry_call[w] # NULL
    /\ retry_call[w].step = "exhausted"
    /\ retry_call' = [retry_call EXCEPT ![w] =
                        IF IsExhausted(Caller(w), retry_call[w].fenced)
                        THEN [retry_call[w] EXCEPT !.step = "dead"]
                        ELSE NULL]
    /\ UNCHANGED <<now, live, dead, next_id, claims, settled>>

(* Move one claimed row to _honker_dead: DELETE ... RETURNING, INSERT *)
Bury(c, fenced) ==
    /\ live' = Without(live, {c.id})
    /\ dead' = Add(DeadRows(live, {c.id}, "handler"), dead)
    /\ settled' = Settle({c.id}, "dead", c.worker, Token(c, fenced))

(* The savepoint; its DELETE checks every guard again. *)
retry_dead(w) ==
    /\ retry_call[w] # NULL
    /\ retry_call[w].step = "dead"
    /\ retry_call' = [retry_call EXCEPT ![w] = NULL]
    /\ IF IsExhausted(Caller(w), retry_call[w].fenced)
       THEN Bury(Caller(w), retry_call[w].fenced)
       ELSE UNCHANGED <<live, dead, settled>>
    /\ UNCHANGED <<now, next_id, claims>>

fail(c, fenced) ==
    /\ Guard(c, fenced)
    /\ Bury(c, fenced)
    /\ UNCHANGED <<now, next_id, claims, retry_call>>

Extended(r, lease) ==
    Updated(r, r.state, r.run_at, r.worker_id, lease, r.claimed_at, r.attempts)

heartbeat(c, extend) ==
    /\ Guard(c, FALSE)
    /\ live[c.id].state = "processing"
    /\ live' = [live EXCEPT ![c.id] = Extended(@, now + extend)]
    /\ UNCHANGED <<now, dead, next_id, claims, settled, retry_call>>

heartbeat_fenced(c, extend) ==
    /\ Guard(c, TRUE)
    /\ live' = [live EXCEPT ![c.id] = Extended(@, now + extend)]
    /\ UNCHANGED <<now, dead, next_id, claims, settled, retry_call>>

cancel(i) ==
    /\ i \in DOMAIN live
    /\ live' = Without(live, {i})
    /\ settled' = Settle({i}, "cancelled", NULL, NULL)
    /\ UNCHANGED <<now, dead, next_id, claims, retry_call>>

(* A job of another queue is a miss. *)
cancel_in_queue(q, i) ==
    /\ i \in DOMAIN live
    /\ live[i].queue = q
    /\ live' = Without(live, {i})
    /\ settled' = Settle({i}, "cancelled", NULL, NULL)
    /\ UNCHANGED <<now, dead, next_id, claims, retry_call>>

sweep_expired(q, lag) ==
    LET S == ExpiredIds(live, q, ReadAt(lag))
    IN  /\ S # {}
        /\ lag < now
        /\ live' = Without(live, S)
        /\ dead' = Add(DeadRows(live, S, "expired"), dead)
        /\ settled' = Settle(S, "dead", NULL, NULL)
        /\ UNCHANGED <<now, next_id, claims, retry_call>>

MutantNextClaimAt(q) ==
    LET Waiting(i) == /\ live[i].queue = q
                      /\ live[i].attempts < live[i].max_attempts
                      /\ ~Expired(live[i], now)
        at == {live[i].run_at : i \in
            {j \in DOMAIN live : /\ Waiting(j)
                                 /\ live[j].state \in {"pending", "scheduled"}}}
    IN  IF at = {} THEN 0 ELSE CHOOSE t \in at : \A u \in at : t <= u

(* honker_queue_next_claim_at: a read, evaluated at the current clock. *)
queue_next_claim_at(q) ==
    LET Waiting(i) == /\ live[i].queue = q
                      /\ live[i].attempts < live[i].max_attempts
                      /\ ~Expired(live[i], now)
        due == ReadyArm(live, q, now) # {}
        scheduled == {live[i].run_at : i \in
            {j \in DOMAIN live : Waiting(j) /\ live[j].state = "scheduled"}}
        lease == {live[i].claim_expires_at + 1 : i \in
            {j \in DOMAIN live : /\ Waiting(j)
                                 /\ live[j].state = "processing"
                                 /\ LeaseValid(live[j], now)}}
        first == CHOOSE t \in scheduled \cup lease :
                    \A u \in scheduled \cup lease : t <= u
    IN  IF due THEN now
        ELSE IF scheduled \cup lease = {} THEN 0
        ELSE IF first > now THEN first ELSE now

----------------------------------------------------------------------------
HandlerStep(c) ==
    \/ ack(c)
    \/ ack_fenced(c)
    \/ \E fenced \in BOOLEAN : fail(c, fenced)
    \/ \E fenced \in BOOLEAN, delay \in RetryDelays :
         retry_requeue(c, fenced, delay) \/ retry_miss(c, fenced)
    \/ \E extend \in Extends : heartbeat(c, extend) \/ heartbeat_fenced(c, extend)

(* Batches of one or two elements: each is judged on its own. *)
AckBatches(w) ==
    LET held == {c \in claims : c.worker = w /\ c.id \in DOMAIN live}
        element == [claim : held, pair : BOOLEAN]
    IN  {{e, f} : e, f \in element}

WorkerStep(w) ==
    \/ \E q \in Queues, lag \in Lags, n \in BatchSizes, timeout \in Timeouts :
         claim_batch(q, w, lag, n, timeout)
    \/ \E B \in AckBatches(w) :
         ack_batch(w, {c.id : c \in {e.claim : e \in {f \in B : ~f.pair}}},
                   {<<c.id, c.attempt>> :
                      c \in {e.claim : e \in {f \in B : f.pair}}})
    \/ retry_exhausted(w)
    \/ retry_dead(w)

QueueStep(q) ==
    \/ \E lag \in Lags, run_at \in RunAts, delay \in Delays,
          priority \in Priorities, max_attempts \in Budgets,
          expires \in Expiries :
         enqueue(q, lag, run_at, delay, priority, max_attempts, expires)
    \/ \E lag \in Lags : sweep_expired(q, lag)
    \/ \E i \in DOMAIN live : cancel_in_queue(q, i)

Next ==
    \/ Tick
    \/ \E c \in claims : HandlerStep(c)
    \/ \E w \in Workers : WorkerStep(w)
    \/ \E q \in Queues : QueueStep(q)
    \/ \E i \in DOMAIN live : cancel(i)

Spec == Init /\ [][Next]_vars

(* A claim would change nothing. *)
Idle(q) ==
    /\ PromoteIds(live, q, now) = {}
    /\ ExpireIds(live, q, now) = {}
    /\ ExhaustedIds(live, q, now) = {}
    /\ ClaimIds(live, q, now, 1) = {}

(* Workers keep claiming from every queue, and not every claim waits for   *)
(* the write lock: what a worker pool with one live worker does.  This is  *)
(* weak fairness of claim_batch with its ENABLED written out.              *)
FairSpec ==
    /\ Spec
    /\ \A q \in Queues :
         \/ []<>Idle(q)
         \/ []<><<\E w \in Workers, n \in BatchSizes \ {0}, timeout \in Timeouts :
                    claim_batch(q, w, 0, n, timeout)>>_vars

----------------------------------------------------------------------------
(* Properties *)

(* Every variable has its type, and ids come from the AUTOINCREMENT counter*)
(* of _honker_live.                                                        *)
TypeOK ==
    /\ now \in Nat
    /\ next_id \in Nat \ {0}
    /\ live \in [DOMAIN live -> Row]
    /\ dead \in [DOMAIN dead -> DeadRow]
    /\ claims \subseteq Claim
    /\ settled \in [DOMAIN settled -> Settlement]
    /\ retry_call \in [Workers -> RetryCall \cup {NULL}]

(* No job is lost or duplicated: every id ever enqueued is in _honker_live *)
(* or has left it exactly once, and _honker_dead holds exactly the rows    *)
(* that were dead-lettered (move_to_dead, retry, fail, sweep_expired).     *)
JobConservation ==
    /\ DOMAIN live \cup DOMAIN settled = 1 .. (next_id - 1)
    /\ DOMAIN live \cap DOMAIN settled = {}
    /\ DOMAIN dead = {i \in DOMAIN settled : settled[i].how = "dead"}

(* worker_id, claim_expires_at and claimed_at are set together exactly     *)
(* while a row is 'processing'.  ack and fail check no state: this is what *)
(* keeps them off rows that were re-queued by retry.                       *)
ClaimColumns ==
    \A i \in DOMAIN live :
        LET held == live[i].state = "processing"
        IN  /\ held <=> live[i].worker_id # NULL
            /\ held <=> live[i].claim_expires_at # NULL
            /\ held <=> live[i].claimed_at # NULL

(* A 'pending' or 'scheduled' row always has an attempt left, the fact the *)
(* comment on EXHAUSTED_IDS relies on to sweep only lapsed leases.         *)
ReadyHasBudget ==
    \A i \in DOMAIN live :
        live[i].state # "processing" => live[i].attempts < live[i].max_attempts

(* Every row of _honker_live is one an operation can make sense of: typed, *)
(* with claim columns exactly while a handler has it, and with an attempt  *)
(* left while it waits for one, whatever retry, fail, cancel and late      *)
(* handlers did to it.                                                     *)
WellFormed == TypeOK /\ ClaimColumns /\ ReadyHasBudget

ClaimsOf(i) == {c \in claims : c.id = i}

(* A job is handed out at most max_attempts times, attempts counts exactly *)
(* the claims handed out, and no two claims of a job share the token that  *)
(* fenced calls present.                                                   *)
OneClaimPerAttempt ==
    /\ \A c, d \in claims : c.id = d.id /\ c.attempt = d.attempt => c = d
    /\ \A i \in DOMAIN live :
          /\ {c.attempt : c \in ClaimsOf(i)} = 1 .. live[i].attempts
          /\ live[i].attempts <= live[i].max_attempts
    /\ \A i \in DOMAIN dead :
          /\ {c.attempt : c \in ClaimsOf(i)} = 1 .. dead[i].attempts
          /\ dead[i].attempts <= dead[i].max_attempts

(* A job completed by a handler (ack, ack_batch, retry on the last attempt,*)
(* fail) was completed by the worker that claimed it last, and by a fenced *)
(* call only for that very claim: a stale handler never settles a job that *)
(* was handed to someone after it.                                         *)
SettledByLastClaim ==
    \A i \in DOMAIN settled : settled[i].worker # NULL =>
        \E c \in ClaimsOf(i) :
            /\ \A d \in ClaimsOf(i) : d.attempt <= c.attempt
            /\ settled[i].worker = c.worker
            /\ settled[i].attempt \in {NULL, c.attempt}

(* While a lease is valid nobody else takes the job: no claim re-issues    *)
(* it, no housekeeping or sweep removes it; only its own worker settles it,*)
(* or an operator cancels it.                                              *)
LeaseExcludesOthers ==
    [][\A i \in DOMAIN live :
         live[i].state = "processing" /\ LeaseValid(live[i], now) =>
            IF i \in DOMAIN live'
            THEN live'[i].attempts = live[i].attempts
            ELSE \/ settled'[i].how = "cancelled"
                 \/ settled'[i].worker = live[i].worker_id]_vars

(* A claim takes rows in priority DESC, run_at, id order: a row that was   *)
(* ready and is left behind comes after every row that was taken, although *)
(* CLAIM_SQL limits its first arm before it merges the lapsed leases.      *)
ClaimOrder ==
    [][\A c \in claims' \ claims : \A i \in DOMAIN live' :
         LET q == live'[c.id].queue
             t == live'[c.id].claimed_at
         IN  i \in ReadyArm(live', q, t) \cup LapsedArm(live', q, t)
             /\ i # c.id => ClaimBefore(live', c.id, i)]_vars

(* Something must happen to row i: it is not scheduled for later and its   *)
(* lease, if any, no longer holds.                                         *)
Due(i) ==
    /\ i \in DOMAIN live
    /\ ~(live[i].state = "scheduled" /\ live[i].run_at > now)
    /\ ~(live[i].state = "processing" /\ LeaseValid(live[i], now))

(* A claim that finds nothing to do leaves nothing behind: every row of    *)
(* the queue is scheduled for later or held under a valid lease.  A row    *)
(* that is neither would never leave _honker_live (issue #177).            *)
NoStuckRow ==
    \A q \in Queues :
        Idle(q) => \A i \in DOMAIN live : live[i].queue = q => ~Due(i)

(* Every due row is handed out or dead-lettered, however many rows fall due*)
(* at once and however few of them one claim's housekeeping may touch.     *)
DueIsHandled == \A i \in 1 .. MaxJobs : Due(i) ~> ~Due(i)

(* The first time from now on at which a claim may return row i, if the    *)
(* table does not change *)
FirstClaim(i) ==
    LET t == IF live[i].state = "processing"
             THEN live[i].claim_expires_at + 1 ELSE live[i].run_at
    IN  IF t > now THEN t ELSE now

ClaimableInTime(i) ==
    /\ live[i].attempts < live[i].max_attempts
    /\ ~Expired(live[i], FirstClaim(i))

(* A worker that sleeps until honker_queue_next_claim_at does not oversleep*)
(* a scheduled row, a due row or a lease that still holds.                 *)
SleepNeverLate ==
    \A q \in Queues : LapsedArm(live, q, now) = {} =>
        \A i \in DOMAIN live : live[i].queue = q /\ ClaimableInTime(i) =>
            queue_next_claim_at(q) \in 1 .. FirstClaim(i)

(* What the tables say of a job to someone who only knows its life. *)
LifeStatus(i) ==
    IF i \in DOMAIN live
    THEN IF live[i].state = "processing" THEN "running" ELSE "waiting"
    ELSE IF i \in DOMAIN settled THEN settled[i].how ELSE "none"

Lifecycle == INSTANCE JobLifecycle WITH
    Jobs   <- 1 .. MaxJobs,
    status <- [i \in 1 .. MaxJobs |-> LifeStatus(i)],
    issued <- [i \in 1 .. MaxJobs |-> {c.attempt : c \in ClaimsOf(i)}],
    budget <- [i \in 1 .. MaxJobs |->
                 IF i \in DOMAIN live THEN live[i].max_attempts ELSE 0]

(* The queue implements JobLifecycle: whatever the interleaving of claims, *)
(* stale handlers, sweeps and the steps of honker_retry, every job lives   *)
(* one life, its tokens are handed out in order up to its budget, and it   *)
(* leaves the queue once.                                                  *)
ImplementsLifecycle == Lifecycle!JobSpec
=============================================================================

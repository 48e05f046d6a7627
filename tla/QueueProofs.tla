---------------------------- MODULE QueueProofs ----------------------------
(***************************************************************************)
(* The invariants of Queue, the exclusion of leases and the refinement of  *)
(* JobLifecycle, for every set of queues, workers and arguments.           *)
(*                                                                         *)
(* NextMovesJobs shows that every operation, whatever SQL it runs, only    *)
(* does what JobsStep allows: some rows leave, some are claimed by one     *)
(* worker, at most one is new, the rest keep their tokens.  QueueInv is    *)
(* inductive; its proof, and that of the refinement, uses of the           *)
(* operations only that each one is a JobsStep.                            *)
(***************************************************************************)
EXTENDS Queue, TLAPS

----------------------------------------------------------------------------
(* What the housekeeping selections return *)

(* Promotion selects scheduled rows of the table. *)
LEMMA PromoteSelects ==
    ASSUME NEW db, NEW q, NEW t
    PROVE  PromoteIds(db, q, t) \subseteq {i \in DOMAIN db : db[i].state = "scheduled"}
BY DEF PromoteIds, Limit

(* Promotion keeps every row, and of its columns changes only the state.   *)
LEMMA PromoteKeeps ==
    ASSUME NEW db, NEW q, NEW t
    PROVE  /\ DOMAIN Promote(db, q, t) = DOMAIN db
           /\ \A i \in DOMAIN db :
                \/ Promote(db, q, t)[i] = db[i]
                \/ /\ db[i].state = "scheduled"
                   /\ Promote(db, q, t)[i] = [db[i] EXCEPT !.state = "pending"]
BY PromoteSelects DEF Promote

(* Expiry and the exhausted-lease sweep select rows of the table; the      *)
(* sweep selects lapsed leases.                                            *)
LEMMA SweepsSelect ==
    ASSUME NEW db, NEW q, NEW t
    PROVE  /\ ExpiredIds(db, q, t) \subseteq DOMAIN db
           /\ ExpireIds(db, q, t) \subseteq ExpiredIds(db, q, t)
           /\ ExhaustedIds(db, q, t) \subseteq {i \in DOMAIN db :
                 db[i].state = "processing" /\ LeaseLapsed(db[i], t)}
BY DEF ExpiredIds, ExpireIds, ExhaustedIds, Limit

(* A claim takes ready rows and lapsed leases. *)
LEMMA ClaimSelects ==
    ASSUME NEW db, NEW q, NEW t, NEW n
    PROVE  ClaimIds(db, q, t, n) \subseteq ReadyArm(db, q, t) \cup LapsedArm(db, q, t)
BY DEF ClaimIds, Limit

----------------------------------------------------------------------------
(* Rows *)

(* What every row of _honker_live satisfies. *)
RowOK(r) ==
    /\ r \in Row
    /\ r.state = "processing" <=> r.worker_id # NULL
    /\ r.state = "processing" <=> r.claim_expires_at # NULL
    /\ r.state = "processing" <=> r.claimed_at # NULL
    /\ r.state # "processing" => r.attempts < r.max_attempts
    /\ r.attempts <= r.max_attempts

(* Promotion (state = pending) keeps a row well formed. *)
LEMMA PromotedRowOK ==
    ASSUME NEW r, RowOK(r), r.state = "scheduled"
    PROVE  /\ RowOK([r EXCEPT !.state = "pending"])
           /\ [r EXCEPT !.state = "pending"].attempts = r.attempts
           /\ [r EXCEPT !.state = "pending"].max_attempts = r.max_attempts
           /\ [r EXCEPT !.state = "pending"].queue = r.queue
BY DEF RowOK, Row

(* A claim of a row with an attempt left sets all claim columns and the    *)
(* next token.                                                             *)
LEMMA ClaimedRowOK ==
    ASSUME NEW r, RowOK(r), r.attempts < r.max_attempts,
           NEW w \in Workers, NEW timeout \in Int, NEW t \in Int
    PROVE  /\ RowOK(Claimed(r, w, timeout, t))
           /\ Claimed(r, w, timeout, t).attempts = r.attempts + 1
           /\ Claimed(r, w, timeout, t).max_attempts = r.max_attempts
           /\ Claimed(r, w, timeout, t).worker_id = w
           /\ Claimed(r, w, timeout, t).state = "processing"
BY QueueAssumption DEF RowOK, Row, Claimed, Updated, OptInt

(* A retry clears all claim columns and keeps the token. *)
LEMMA RequeuedRowOK ==
    ASSUME NEW r, RowOK(r), r.attempts < r.max_attempts,
           NEW t \in Int, NEW delay \in Int
    PROVE  /\ RowOK(Requeued(r, t, delay))
           /\ Requeued(r, t, delay).attempts = r.attempts
           /\ Requeued(r, t, delay).max_attempts = r.max_attempts
BY DEF RowOK, Row, Requeued, Updated, OptInt

(* A heartbeat changes only the lease. *)
LEMMA ExtendedRowOK ==
    ASSUME NEW r, RowOK(r), r.state = "processing", NEW lease \in Int
    PROVE  /\ RowOK(Extended(r, lease))
           /\ Extended(r, lease).attempts = r.attempts
           /\ Extended(r, lease).max_attempts = r.max_attempts
           /\ Extended(r, lease).worker_id = r.worker_id
BY QueueAssumption DEF RowOK, Row, Extended, Updated, OptInt

(* An enqueued row is unclaimed and has its whole budget. *)
LEMMA NewRowOK ==
    ASSUME NEW t \in Int, NEW q \in Queues, NEW run_at \in OptInt,
           NEW delay \in OptInt, NEW priority \in Int,
           NEW max_attempts \in Int, max_attempts >= 1,
           NEW expires \in OptInt
    PROVE  LET r == NewRow(t, q, RunAt(t, run_at, delay), priority,
                           max_attempts, expires)
           IN  /\ RowOK(r)
               /\ r.attempts = 0
               /\ r.max_attempts = max_attempts
               /\ r.state # "processing"
<1>1. RunAt(t, run_at, delay) \in Int
  BY DEF RunAt, OptInt
<1>2. (IF expires # NULL THEN t + expires ELSE NULL) \in OptInt
  BY DEF OptInt
<1> QED BY <1>1, <1>2 DEF RowOK, Row, NewRow, OptInt

----------------------------------------------------------------------------
(* Tables *)

IsTable(f) == f = [i \in DOMAIN f |-> f[i]]

(* A DELETE keeps the other rows. *)
LEMMA WithoutKeeps ==
    ASSUME NEW db, NEW S
    PROVE  /\ IsTable(Without(db, S))
           /\ DOMAIN Without(db, S) = DOMAIN db \ S
           /\ \A i \in DOMAIN db \ S : Without(db, S)[i] = db[i]
BY DEF IsTable, Without, Restrict

(* An INSERT adds its rows and keeps the others. *)
LEMMA AddKeeps ==
    ASSUME NEW f, NEW g
    PROVE  /\ IsTable(Add(f, g))
           /\ DOMAIN Add(f, g) = DOMAIN f \cup DOMAIN g
           /\ \A i \in DOMAIN f : Add(f, g)[i] = f[i]
           /\ \A i \in DOMAIN g \ DOMAIN f : Add(f, g)[i] = g[i]
BY DEF IsTable, Add

RowsIn(db, S) == \A i \in S : db[i] \in Row

(* f is d with the rows S of db copied to it, in the columns of a dead row.*)
IsBuried(f, db, S, d) ==
    /\ IsTable(f)
    /\ DOMAIN f = S \cup DOMAIN d
    /\ \A i \in S : /\ f[i] \in DeadRow
                    /\ f[i].attempts = db[i].attempts
                    /\ f[i].max_attempts = db[i].max_attempts
    /\ \A i \in DOMAIN d \ S : f[i] = d[i]

(* An INSERT INTO _honker_dead copies the token and the budget of the live *)
(* rows and keeps the other dead rows.                                     *)
LEMMA BuriedKeeps ==
    ASSUME NEW db, NEW S, NEW d, RowsIn(db, S),
           NEW error \in {"expired", "max attempts exceeded", "handler"}
    PROVE  IsBuried(Add(DeadRows(db, S, error), d), db, S, d)
<1> DEFINE r == DeadRows(db, S, error)
<1>1. /\ DOMAIN r = S
      /\ \A i \in S : /\ r[i] \in DeadRow
                      /\ r[i].attempts = db[i].attempts
                      /\ r[i].max_attempts = db[i].max_attempts
  BY Zenon DEF DeadRows, DeadRow, Row, RowsIn
<1> HIDE DEF r
<1>2. /\ IsTable(Add(r, d))
      /\ DOMAIN Add(r, d) = DOMAIN r \cup DOMAIN d
      /\ \A i \in DOMAIN r : Add(r, d)[i] = r[i]
      /\ \A i \in DOMAIN d \ DOMAIN r : Add(r, d)[i] = d[i]
  BY AddKeeps, Zenon
<1>3. IsBuried(Add(r, d), db, S, d)
  BY <1>1, <1>2, Zenon DEF IsBuried
<1> QED BY <1>3, Zenon DEF r

(* f is the history settled with the rows S recorded as how, by w with the *)
(* token a.                                                                *)
IsSettled(f, S, how, w, a) ==
    /\ IsTable(f)
    /\ DOMAIN f = S \cup DOMAIN settled
    /\ \A i \in S : /\ f[i] \in Settlement
                    /\ f[i].how = how
                    /\ f[i].worker = w
                    /\ f[i].attempt = a
    /\ \A i \in DOMAIN settled \ S : f[i] = settled[i]

(* Settle records the rows and keeps what was recorded before. *)
LEMMA SettleRecords ==
    ASSUME NEW S, NEW how \in {"acked", "dead", "cancelled"},
           NEW w \in Workers \cup {NULL}, NEW a \in Nat \cup {NULL}
    PROVE  IsSettled(Settle(S, how, w, a), S, how, w, a)
<1> DEFINE s == [how |-> how, worker |-> w, attempt |-> a]
<1> DEFINE f == [i \in S |-> s]
<1>1. s \in Settlement /\ s.how = how /\ s.worker = w /\ s.attempt = a
  BY DEF Settlement
<1>2. Settle(S, how, w, a) = Add(f, settled)
  BY DEF Settle
<1> HIDE DEF s
<1>3. DOMAIN f = S /\ \A i \in S : f[i] = s
  OBVIOUS
<1> HIDE DEF f
<1>4. /\ IsTable(Add(f, settled))
      /\ DOMAIN Add(f, settled) = DOMAIN f \cup DOMAIN settled
      /\ \A i \in DOMAIN f : Add(f, settled)[i] = f[i]
      /\ \A i \in DOMAIN settled \ DOMAIN f : Add(f, settled)[i] = settled[i]
  BY AddKeeps, Zenon
<1>5. IsSettled(Add(f, settled), S, how, w, a)
  BY <1>1, <1>3, <1>4 DEF IsSettled
<1> QED BY <1>2, <1>5

----------------------------------------------------------------------------
(* What a step does to the jobs *)

RowsOK == \A i \in DOMAIN live : RowOK(live[i])

Held(i) == live[i].state = "processing" /\ LeaseValid(live[i], now)

(* A row that stays: claimed by w, or changed without touching its token.  *)
Stays(i, taken, w) ==
    /\ live'[i].max_attempts = live[i].max_attempts
    /\ IF i \in taken
       THEN /\ live'[i].attempts = live[i].attempts + 1
            /\ live'[i].state = "processing"
            /\ live'[i].worker_id = w
            /\ ~Held(i)
       ELSE /\ live'[i].attempts = live[i].attempts
            /\ live'[i].state = "processing" =>
                  /\ live[i].state = "processing"
                  /\ live'[i].worker_id = live[i].worker_id

(* A row that leaves: a handler settles only a row it holds, and what is   *)
(* dead-lettered is copied to _honker_dead.                                *)
Leaves(i) ==
    /\ settled'[i] \in Settlement
    /\ settled'[i].how = "acked" => live[i].state = "processing"
    /\ settled'[i].worker # NULL =>
          /\ live[i].state = "processing"
          /\ settled'[i].worker = live[i].worker_id
          /\ settled'[i].attempt \in {NULL, live[i].attempts}
    /\ Held(i) => \/ settled'[i].how = "cancelled"
                  \/ settled'[i].worker = live[i].worker_id
    /\ settled'[i].how = "dead" =>
          /\ dead'[i] \in DeadRow
          /\ dead'[i].attempts = live[i].attempts
          /\ dead'[i].max_attempts = live[i].max_attempts

(* The rows gone leave, the rows taken are claimed by w, the rows new are  *)
(* enqueued, the others keep their tokens.                                 *)
JobsStep(gone, taken, new, w) ==
    /\ gone \subseteq DOMAIN live
    /\ taken \subseteq DOMAIN live \ gone
    /\ taken # {} => w \in Workers
    /\ \/ new = {} /\ next_id' = next_id
       \/ new = {next_id} /\ next_id' = next_id + 1
    /\ IsTable(live')
    /\ DOMAIN live' = (DOMAIN live \ gone) \cup new
    /\ \A i \in DOMAIN live' : RowOK(live'[i])
    /\ \A i \in new : live'[i].attempts = 0 /\ live'[i].state # "processing"
    /\ \A i \in DOMAIN live \ gone : Stays(i, taken, w)
    /\ claims' = claims \cup
          {[id |-> i, worker |-> w, attempt |-> live[i].attempts + 1] : i \in taken}
    /\ IsTable(settled')
    /\ DOMAIN settled' = DOMAIN settled \cup gone
    /\ \A i \in DOMAIN settled \ gone : settled'[i] = settled[i]
    /\ \A i \in gone : Leaves(i)
    /\ IsTable(dead')
    /\ DOMAIN dead' = DOMAIN dead \cup {i \in gone : settled'[i].how = "dead"}
    /\ \A i \in DOMAIN dead \ gone : dead'[i] = dead[i]

(* Steps that leave the tables alone. *)
LEMMA QuietStep ==
    ASSUME TypeOK, RowsOK, UNCHANGED <<live, dead, next_id, claims, settled>>
    PROVE  JobsStep({}, {}, {}, NULL)
<1>1. \A i \in DOMAIN live : Stays(i, {}, NULL)
  BY DEF Stays
<1>2. IsTable(live') /\ IsTable(settled') /\ IsTable(dead')
  BY DEF TypeOK, IsTable
<1> QED BY <1>1, <1>2 DEF JobsStep, RowsOK

(* Steps that rewrite one row and neither claim nor settle. *)
LEMMA RewriteStep ==
    ASSUME TypeOK, RowsOK, NEW i \in DOMAIN live, NEW r, RowOK(r),
           r.attempts = live[i].attempts, r.max_attempts = live[i].max_attempts,
           r.state = "processing" => /\ live[i].state = "processing"
                                     /\ r.worker_id = live[i].worker_id,
           live' = [live EXCEPT ![i] = r],
           UNCHANGED <<dead, next_id, claims, settled>>
    PROVE  JobsStep({}, {}, {}, NULL)
<1>1. DOMAIN live' = DOMAIN live /\ live'[i] = r
      /\ \A j \in DOMAIN live \ {i} : live'[j] = live[j]
  OBVIOUS
<1>2. \A j \in DOMAIN live : Stays(j, {}, NULL)
  BY <1>1 DEF Stays
<1>3. IsTable(live') /\ IsTable(settled') /\ IsTable(dead')
  BY Zenon DEF TypeOK, IsTable
<1>4. \A j \in DOMAIN live' : RowOK(live'[j])
  BY <1>1 DEF RowsOK
<1> QED BY <1>1, <1>2, <1>3, <1>4 DEF JobsStep

(* Steps that delete the rows S and record how they left. *)
LEMMA RemoveStep ==
    ASSUME TypeOK, RowsOK, NEW S, S \subseteq DOMAIN live,
           live' = Without(live, S),
           IsTable(settled'), DOMAIN settled' = S \cup DOMAIN settled,
           \A i \in DOMAIN settled \ S : settled'[i] = settled[i],
           \A i \in S : Leaves(i),
           IsTable(dead'),
           DOMAIN dead' = {i \in S : settled'[i].how = "dead"} \cup DOMAIN dead,
           \A i \in DOMAIN dead \ S : dead'[i] = dead[i],
           UNCHANGED <<next_id, claims>>
    PROVE  JobsStep(S, {}, {}, NULL)
<1>1. /\ IsTable(live')
      /\ DOMAIN live' = DOMAIN live \ S
      /\ \A i \in DOMAIN live \ S : live'[i] = live[i]
  <2>1. /\ IsTable(Without(live, S))
        /\ DOMAIN Without(live, S) = DOMAIN live \ S
        /\ \A i \in DOMAIN live \ S : Without(live, S)[i] = live[i]
    BY WithoutKeeps, Zenon
  <2> QED BY <2>1
<1>2. \A i \in DOMAIN live \ S : Stays(i, {}, NULL)
  BY <1>1 DEF Stays
<1>3. \A i \in DOMAIN live' : RowOK(live'[i])
  BY <1>1 DEF RowsOK
<1> QED BY <1>1, <1>2, <1>3 DEF JobsStep

----------------------------------------------------------------------------
(* The operations *)

(* The guard of ack, retry, fail and heartbeat is only met by a row the    *)
(* caller's worker is processing, and the token of a fenced call is the    *)
(* row's.                                                                  *)
LEMMA GuardHolds ==
    ASSUME RowsOK, NEW c \in Claim, NEW fenced \in BOOLEAN, Guard(c, fenced)
    PROVE  /\ c.id \in DOMAIN live
           /\ RowOK(live[c.id])
           /\ live[c.id].state = "processing"
           /\ live[c.id].worker_id = c.worker
           /\ c.worker \in Workers
           /\ Token(c, fenced) \in {NULL, live[c.id].attempts}
           /\ Token(c, fenced) \in Nat \cup {NULL}
<1>1. c.id \in DOMAIN live /\ live[c.id].worker_id = c.worker
      /\ (fenced => live[c.id].attempts = c.attempt)
  BY DEF Guard
<1>2. c.worker \in Workers /\ c.worker # NULL /\ c.attempt \in Nat
  BY QueueAssumption DEF Claim
<1>3. RowOK(live[c.id])
  BY <1>1 DEF RowsOK
<1> QED BY <1>1, <1>2, <1>3 DEF RowOK, Token

(* Who may take row i off the queue: a worker that is processing it, with  *)
(* its token; housekeeping, unless the lease holds; an operator.           *)
MayRemove(i, how, w, a) ==
    /\ how = "acked" => w # NULL
    /\ w # NULL => /\ live[i].state = "processing"
                   /\ live[i].worker_id = w
                   /\ a \in {NULL, live[i].attempts}
    /\ Held(i) => how = "cancelled" \/ live[i].worker_id = w

(* The operations that delete the rows S, recording and burying them all   *)
(* in the same way.                                                        *)
LEMMA RemoveAll ==
    ASSUME TypeOK, RowsOK, NEW S, S \subseteq DOMAIN live,
           NEW how \in {"acked", "dead", "cancelled"},
           NEW w \in Workers \cup {NULL}, NEW a \in Nat \cup {NULL},
           NEW error \in {"expired", "max attempts exceeded", "handler"},
           \A i \in S : MayRemove(i, how, w, a),
           live' = Without(live, S),
           settled' = Settle(S, how, w, a),
           dead' = IF how = "dead" THEN Add(DeadRows(live, S, error), dead) ELSE dead,
           UNCHANGED <<next_id, claims>>
    PROVE  JobsStep(S, {}, {}, NULL)
<1>1. IsSettled(settled', S, how, w, a)
  BY SettleRecords, Zenon
<1>2. IF how = "dead" THEN IsBuried(dead', live, S, dead) ELSE dead' = dead
  <2>1. CASE how = "dead"
    <3>1. RowsIn(live, S)
      BY Zenon DEF RowsOK, RowOK, RowsIn
    <3> QED BY <2>1, <3>1, BuriedKeeps, Zenon
  <2> QED BY <2>1, Zenon
<1>3. ASSUME NEW i \in S PROVE Leaves(i)
  BY <1>1, <1>2, <1>3, Zenon DEF Leaves, IsSettled, IsBuried, MayRemove
<1>4. /\ IsTable(dead')
      /\ DOMAIN dead' = {i \in S : settled'[i].how = "dead"} \cup DOMAIN dead
      /\ \A i \in DOMAIN dead \ S : dead'[i] = dead[i]
  <2>1. CASE how = "dead"
    BY <1>1, <1>2, <2>1, Zenon DEF IsSettled, IsBuried
  <2>2. CASE how # "dead"
    BY <1>1, <1>2, <2>2, Zenon DEF IsSettled, TypeOK, IsTable
  <2> QED BY <2>1, <2>2, Zenon
<1> QED BY <1>1, <1>3, <1>4, RemoveStep, Zenon DEF IsSettled

(* ack and ack_fenced, and the burial of retry and fail. *)
LEMMA HandlerRemoves ==
    ASSUME TypeOK, RowsOK, NEW c \in Claim, NEW fenced \in BOOLEAN,
           NEW how \in {"acked", "dead"}, Guard(c, fenced),
           live' = Without(live, {c.id}),
           settled' = Settle({c.id}, how, c.worker, Token(c, fenced)),
           dead' = IF how = "dead"
                   THEN Add(DeadRows(live, {c.id}, "handler"), dead) ELSE dead,
           UNCHANGED <<next_id, claims>>
    PROVE  JobsStep({c.id}, {}, {}, NULL)
<1>1. /\ c.id \in DOMAIN live
      /\ live[c.id].state = "processing"
      /\ live[c.id].worker_id = c.worker
      /\ c.worker \in Workers \cup {NULL}
      /\ c.worker # NULL
      /\ Token(c, fenced) \in {NULL, live[c.id].attempts}
      /\ Token(c, fenced) \in Nat \cup {NULL}
  BY GuardHolds, QueueAssumption
<1>2. \A i \in {c.id} : MayRemove(i, how, c.worker, Token(c, fenced))
  BY <1>1 DEF MayRemove
<1>3. {c.id} \subseteq DOMAIN live /\ how \in {"acked", "dead", "cancelled"}
  BY <1>1
<1>4. "handler" \in {"expired", "max attempts exceeded", "handler"}
  OBVIOUS
<1> QED BY <1>1, <1>2, <1>3, <1>4, RemoveAll, Zenon

(* cancel and sweep_expired. *)
LEMMA SystemRemoves ==
    ASSUME TypeOK, RowsOK, NEW S, S \subseteq DOMAIN live,
           NEW how \in {"dead", "cancelled"},
           how = "dead" => \A i \in S : ~Held(i),
           live' = Without(live, S),
           settled' = Settle(S, how, NULL, NULL),
           dead' = IF how = "dead" THEN Add(DeadRows(live, S, "expired"), dead)
                   ELSE dead,
           UNCHANGED <<next_id, claims>>
    PROVE  JobsStep(S, {}, {}, NULL)
<1>1. \A i \in S : MayRemove(i, how, NULL, NULL)
  BY DEF MayRemove
<1>2. how \in {"acked", "dead", "cancelled"} /\ NULL \in Workers \cup {NULL}
      /\ NULL \in Nat \cup {NULL}
      /\ "expired" \in {"expired", "max attempts exceeded", "handler"}
  OBVIOUS
<1> QED BY <1>1, <1>2, RemoveAll, Zenon

(* enqueue adds one row, with the next id and no attempts. *)
LEMMA EnqueueStep ==
    ASSUME TypeOK, RowsOK, next_id \notin DOMAIN live,
           NEW q \in Queues, NEW lag \in Lags, NEW run_at \in RunAts,
           NEW delay \in Delays, NEW priority \in Priorities,
           NEW max_attempts \in Budgets, NEW expires \in Expiries,
           enqueue(q, lag, run_at, delay, priority, max_attempts, expires)
    PROVE  JobsStep({}, {}, {next_id}, NULL)
<1> DEFINE t == ReadAt(lag)
           r == NewRow(t, q, RunAt(t, run_at, delay), priority, max_attempts, expires)
           f == [i \in {next_id} |-> r]
<1>1. /\ t \in Int
      /\ run_at \in OptInt /\ delay \in OptInt /\ expires \in OptInt
      /\ priority \in Int /\ max_attempts \in Int /\ max_attempts >= 1
  BY QueueAssumption DEF TypeOK, ReadAt, OptInt, enqueue
<1> HIDE DEF t
<1>2. RowOK(r) /\ r.attempts = 0 /\ r.state # "processing"
  BY <1>1, NewRowOK
<1>3. /\ live' = Add(f, live)
      /\ next_id' = next_id + 1
      /\ UNCHANGED <<dead, claims, settled>>
  BY DEF enqueue, t
<1> HIDE DEF r
<1>4. DOMAIN f = {next_id} /\ f[next_id] = r
  OBVIOUS
<1> HIDE DEF f
<1>5. /\ IsTable(Add(f, live))
      /\ DOMAIN Add(f, live) = DOMAIN f \cup DOMAIN live
      /\ \A i \in DOMAIN f : Add(f, live)[i] = f[i]
      /\ \A i \in DOMAIN live \ DOMAIN f : Add(f, live)[i] = live[i]
  BY AddKeeps, Zenon
<1>6. /\ IsTable(live')
      /\ DOMAIN live' = DOMAIN live \cup {next_id}
      /\ live'[next_id] = r
      /\ \A i \in DOMAIN live : live'[i] = live[i]
  BY <1>3, <1>4, <1>5
<1>7. \A i \in DOMAIN live : Stays(i, {}, NULL)
  BY <1>6 DEF Stays
<1>8. \A i \in DOMAIN live' : RowOK(live'[i])
  BY <1>2, <1>6 DEF RowsOK
<1>9. IsTable(settled') /\ IsTable(dead')
  BY <1>3 DEF TypeOK, IsTable
<1> QED BY <1>2, <1>3, <1>6, <1>7, <1>8, <1>9 DEF JobsStep

(* ack_batch settles each element by its own form: a plain id under the    *)
(* lease check, a pair under the token check.                              *)
LEMMA AckBatchStep ==
    ASSUME TypeOK, RowsOK, NEW w \in Workers, NEW ids, NEW pairs,
           ack_batch(w, ids, pairs)
    PROVE  \E S : JobsStep(S, {}, {}, NULL)
<1> DEFINE plain  == {i \in DOMAIN live \cap ids : /\ live[i].worker_id = w
                                                  /\ LeaseValid(live[i], now)}
           fenced == {i \in DOMAIN live : /\ live[i].worker_id = w
                                         /\ live[i].state = "processing"
                                         /\ <<i, live[i].attempts>> \in pairs}
           S == plain \cup fenced
           f == [i \in S |-> [how |-> "acked", worker |-> w,
                              attempt |-> IF i \in fenced THEN live[i].attempts
                                          ELSE NULL]]
<1>1. /\ live' = Without(live, S)
      /\ settled' = Add(f, settled)
      /\ UNCHANGED <<dead, next_id, claims>>
  BY DEF ack_batch
<1>2. /\ S \subseteq DOMAIN live
      /\ \A i \in S : live[i].worker_id = w
  OBVIOUS
<1> HIDE DEF fenced, plain
<1> HIDE DEF S
<1>3. \A i \in S : live[i].state = "processing" /\ live[i].attempts \in Nat
  BY <1>2, QueueAssumption DEF RowsOK, RowOK, Row
<1>4. /\ DOMAIN f = S
      /\ \A i \in S : /\ f[i] \in Settlement
                      /\ f[i].how = "acked"
                      /\ f[i].worker = w
                      /\ f[i].attempt \in {NULL, live[i].attempts}
  BY <1>3 DEF Settlement
<1> HIDE DEF f
<1>5. /\ IsTable(Add(f, settled))
      /\ DOMAIN Add(f, settled) = DOMAIN f \cup DOMAIN settled
      /\ \A i \in DOMAIN f : Add(f, settled)[i] = f[i]
      /\ \A i \in DOMAIN settled \ DOMAIN f : Add(f, settled)[i] = settled[i]
  BY AddKeeps, Zenon
<1>6. /\ IsTable(settled')
      /\ DOMAIN settled' = S \cup DOMAIN settled
      /\ \A i \in S : settled'[i] = f[i]
      /\ \A i \in DOMAIN settled \ S : settled'[i] = settled[i]
  BY <1>1, <1>4, <1>5
<1>7. \A i \in S : Leaves(i)
  BY <1>2, <1>3, <1>4, <1>6 DEF Leaves
<1>8. /\ IsTable(dead')
      /\ DOMAIN dead' = {i \in S : settled'[i].how = "dead"} \cup DOMAIN dead
      /\ \A i \in DOMAIN dead \ S : dead'[i] = dead[i]
  BY <1>1, <1>4, <1>6, Zenon DEF TypeOK, IsTable
<1>9. JobsStep(S, {}, {}, NULL)
  BY <1>1, <1>2, <1>6, <1>7, <1>8, RemoveStep
<1> QED BY <1>9

(* s is row r, possibly promoted. *)
SameClaim(r, s) ==
    /\ RowOK(s)
    /\ s.attempts = r.attempts
    /\ s.max_attempts = r.max_attempts
    /\ s.state = "processing" <=> r.state = "processing"
    /\ s.worker_id = r.worker_id
    /\ s.claim_expires_at = r.claim_expires_at

(* Promotion leaves claims and budgets alone. *)
LEMMA PromoteSameClaim ==
    ASSUME RowsOK, NEW q, NEW t
    PROVE  /\ DOMAIN Promote(live, q, t) = DOMAIN live
           /\ \A i \in DOMAIN live : SameClaim(live[i], Promote(live, q, t)[i])
<1>1. ASSUME NEW i \in DOMAIN live PROVE SameClaim(live[i], Promote(live, q, t)[i])
  <2>1. RowOK(live[i])
    BY DEF RowsOK
  <2>2. CASE Promote(live, q, t)[i] = live[i]
    BY <2>1, <2>2 DEF SameClaim
  <2>3. CASE /\ live[i].state = "scheduled"
             /\ Promote(live, q, t)[i] = [live[i] EXCEPT !.state = "pending"]
    <3> DEFINE s == [live[i] EXCEPT !.state = "pending"]
    <3>1. /\ RowOK(s)
          /\ s.attempts = live[i].attempts
          /\ s.max_attempts = live[i].max_attempts
      BY <2>1, <2>3, PromotedRowOK
    <3>2. /\ s.state = "pending"
          /\ s.worker_id = live[i].worker_id
          /\ s.claim_expires_at = live[i].claim_expires_at
      BY <2>1 DEF RowOK, Row
    <3> QED BY <2>3, <3>1, <3>2 DEF SameClaim
  <2> QED BY <2>2, <2>3, PromoteKeeps
<1> QED BY <1>1, PromoteKeeps

(* What lapsed at the time a claim read is not held at the time it runs.   *)
LEMMA LapsedNotHeld ==
    ASSUME now \in Int, NEW t \in Int, t <= now, NEW i \in DOMAIN live,
           NEW r, SameClaim(live[i], r),
           r.state # "processing" \/ LeaseLapsed(r, t)
    PROVE  ~Held(i)
BY QueueAssumption DEF SameClaim, LeaseLapsed, Held, LeaseValid, RowOK, Row, OptInt

(* claim_batch dead-letters and claims only rows whose lease does not hold,*)
(* and gives each claimed row its next token.                              *)
LEMMA ClaimStep ==
    ASSUME TypeOK, RowsOK, NEW q \in Queues, NEW w \in Workers, NEW lag \in Lags,
           NEW n \in BatchSizes, NEW timeout \in Timeouts,
           claim_batch(q, w, lag, n, timeout)
    PROVE  \E gone, taken : JobsStep(gone, taken, {}, w)
<1> DEFINE t         == ReadAt(lag)
           promoted  == Promote(live, q, t)
           expired   == ExpireIds(promoted, q, t)
           unexpired == Without(promoted, expired)
           exhausted == ExhaustedIds(unexpired, q, t)
           kept      == Without(unexpired, exhausted)
           taken     == ClaimIds(kept, q, t, n)
           gone      == expired \cup exhausted
           buried    == Add(DeadRows(promoted, expired, "expired"), dead)
<1>1. t \in Int /\ t <= now /\ now \in Int /\ timeout \in Int
  BY QueueAssumption DEF TypeOK, ReadAt
<1>2. /\ live' = [i \in DOMAIN kept |->
                    IF i \in taken THEN Claimed(kept[i], w, timeout, t) ELSE kept[i]]
      /\ dead' = Add(DeadRows(unexpired, exhausted, "max attempts exceeded"), buried)
      /\ settled' = Settle(gone, "dead", NULL, NULL)
      /\ claims' = claims \cup
            {[id |-> i, worker |-> w,
              attempt |-> Claimed(kept[i], w, timeout, t).attempts] : i \in taken}
      /\ next_id' = next_id
  BY Zenon DEF claim_batch
<1>3. DOMAIN promoted = DOMAIN live
      /\ \A i \in DOMAIN live : SameClaim(live[i], promoted[i])
  BY PromoteSameClaim
<1>4. expired \subseteq DOMAIN live
      /\ \A i \in expired : promoted[i].state # "processing" \/ LeaseLapsed(promoted[i], t)
  BY <1>3, Zenon DEF ExpireIds, ExpiredIds, Limit
<1>5. IsBuried(buried, promoted, expired, dead)
  <2>1. RowsIn(promoted, expired)
    BY <1>3, <1>4, Zenon DEF RowsIn, SameClaim, RowOK
  <2> QED BY <2>1, BuriedKeeps, Zenon
<1> HIDE DEF t, promoted
<1>6. /\ DOMAIN unexpired = DOMAIN live \ expired
      /\ \A i \in DOMAIN live \ expired : unexpired[i] = promoted[i]
  BY <1>3, WithoutKeeps, Zenon
<1> HIDE DEF expired, buried
<1>7. exhausted \subseteq DOMAIN live \ expired
      /\ \A i \in exhausted : LeaseLapsed(unexpired[i], t)
  BY <1>6, SweepsSelect
<1>8. IsBuried(dead', unexpired, exhausted, buried)
  <2>1. RowsIn(unexpired, exhausted)
    BY <1>3, <1>6, <1>7, Zenon DEF RowsIn, SameClaim, RowOK
  <2> QED BY <1>2, <2>1, BuriedKeeps, Zenon
<1> HIDE DEF unexpired
<1>9. /\ DOMAIN kept = DOMAIN live \ gone
      /\ \A i \in DOMAIN live \ gone : kept[i] = promoted[i]
  <2>1. /\ DOMAIN kept = DOMAIN unexpired \ exhausted
        /\ \A i \in DOMAIN unexpired \ exhausted : kept[i] = unexpired[i]
    BY WithoutKeeps, Zenon
  <2> QED BY <1>6, <2>1
<1> HIDE DEF exhausted
<1>10. taken \subseteq DOMAIN live \ gone
       /\ \A i \in taken : /\ kept[i].attempts < kept[i].max_attempts
                           /\ kept[i].state # "processing" \/ LeaseLapsed(kept[i], t)
  <2>1. \A i \in taken : i \in ReadyArm(kept, q, t) \cup LapsedArm(kept, q, t)
    BY ClaimSelects
  <2> HIDE DEF kept, taken
  <2> QED BY <1>9, <2>1 DEF ReadyArm, LapsedArm
<1> HIDE DEF kept, taken
<1>11. IsSettled(settled', gone, "dead", NULL, NULL)
  BY <1>2, SettleRecords, Zenon
<1>12. ASSUME NEW i \in gone PROVE Leaves(i)
  <2>1. i \in DOMAIN live /\ ~Held(i)
    BY <1>1, <1>3, <1>4, <1>6, <1>7, LapsedNotHeld
  <2>2. /\ dead'[i] \in DeadRow
        /\ dead'[i].attempts = live[i].attempts
        /\ dead'[i].max_attempts = live[i].max_attempts
    <3>1. CASE i \in exhausted
      BY <1>3, <1>6, <1>7, <1>8, <3>1 DEF IsBuried, SameClaim
    <3>2. CASE i \in expired \ exhausted
      BY <1>3, <1>4, <1>5, <1>8, <3>2 DEF IsBuried, SameClaim
    <3> QED BY <3>1, <3>2
  <2> QED BY <1>11, <2>1, <2>2, Zenon DEF Leaves, IsSettled
<1>13. /\ IsTable(live')
       /\ DOMAIN live' = DOMAIN live \ gone
       /\ \A i \in DOMAIN live \ gone :
             live'[i] = IF i \in taken THEN Claimed(kept[i], w, timeout, t)
                        ELSE kept[i]
  BY <1>2, <1>9, Zenon DEF IsTable
<1>14. ASSUME NEW i \in DOMAIN live \ gone
       PROVE  RowOK(live'[i]) /\ Stays(i, taken, w)
  <2>1. SameClaim(live[i], kept[i])
    BY <1>3, <1>9, Zenon
  <2>2. CASE i \in taken
    <3>1. kept[i].attempts < kept[i].max_attempts /\ ~Held(i)
      BY <1>1, <1>10, <2>1, <2>2, LapsedNotHeld, Zenon
    <3>2. /\ RowOK(Claimed(kept[i], w, timeout, t))
          /\ Claimed(kept[i], w, timeout, t).attempts = kept[i].attempts + 1
          /\ Claimed(kept[i], w, timeout, t).max_attempts = kept[i].max_attempts
          /\ Claimed(kept[i], w, timeout, t).worker_id = w
          /\ Claimed(kept[i], w, timeout, t).state = "processing"
      <4>1. RowOK(kept[i])
        BY <2>1 DEF SameClaim
      <4> HIDE DEF kept, t
      <4> QED BY <1>1, <3>1, <4>1, ClaimedRowOK, SMTT(30)
    <3> QED BY <1>13, <2>1, <2>2, <3>1, <3>2, Zenon DEF Stays, SameClaim
  <2>3. CASE i \notin taken
    BY <1>13, <2>1, <2>3, Zenon DEF Stays, SameClaim
  <2> QED BY <2>2, <2>3, Zenon
<1>15. claims' = claims \cup
          {[id |-> i, worker |-> w, attempt |-> live[i].attempts + 1] : i \in taken}
  <2>1. \A i \in taken : Claimed(kept[i], w, timeout, t).attempts = live[i].attempts + 1
    BY <1>10, <1>13, <1>14, Zenon DEF Stays
  <2> QED BY <1>2, <2>1, Zenon
<1>16. /\ IsTable(dead')
       /\ DOMAIN dead' = DOMAIN dead \cup {i \in gone : settled'[i].how = "dead"}
       /\ \A i \in DOMAIN dead \ gone : dead'[i] = dead[i]
  BY <1>5, <1>8, <1>11, Zenon DEF IsBuried, IsSettled
<1>17. gone \subseteq DOMAIN live
  BY <1>4, <1>7, Zenon
<1> HIDE DEF gone
<1>18. JobsStep(gone, taken, {}, w)
  BY <1>2, <1>10, <1>11, <1>12, <1>13, <1>14, <1>15, <1>16, <1>17, Zenon
     DEF JobsStep, IsSettled
<1> QED BY <1>18

(* Every step moves jobs in the way JobsStep allows. *)
LEMMA NextMovesJobs ==
    ASSUME TypeOK, RowsOK, next_id \notin DOMAIN live, Next
    PROVE  \E gone, taken, new, w : JobsStep(gone, taken, new, w)
<1>1. CASE Tick
  BY <1>1, QuietStep DEF Tick
<1>2. ASSUME NEW c \in claims, HandlerStep(c)
      PROVE  \E gone : JobsStep(gone, {}, {}, NULL)
  <2>1. c \in Claim
    BY DEF TypeOK
  <2>2. CASE ack(c)
    <3>1. Token(c, FALSE) = NULL /\ Guard(c, FALSE)
      BY <2>2, Zenon DEF Token, ack
    <3>2. JobsStep({c.id}, {}, {}, NULL)
      BY <2>1, <2>2, <3>1, HandlerRemoves, Zenon DEF ack
    <3> QED BY <3>2
  <2>3. CASE ack_fenced(c)
    <3>1. Token(c, TRUE) = c.attempt /\ Guard(c, TRUE)
      BY <2>3, Zenon DEF Token, ack_fenced
    <3>2. JobsStep({c.id}, {}, {}, NULL)
      BY <2>1, <2>3, <3>1, HandlerRemoves, Zenon DEF ack_fenced
    <3> QED BY <3>2
  <2>4. ASSUME NEW fenced \in BOOLEAN, fail(c, fenced)
        PROVE  \E gone : JobsStep(gone, {}, {}, NULL)
    <3>1. JobsStep({c.id}, {}, {}, NULL)
      BY <2>1, <2>4, HandlerRemoves DEF fail, Bury
    <3> QED BY <3>1
  <2>5. ASSUME NEW fenced \in BOOLEAN, NEW delay \in RetryDelays,
               retry_requeue(c, fenced, delay)
        PROVE  \E gone : JobsStep(gone, {}, {}, NULL)
    <3> DEFINE r == Requeued(live[c.id], now, delay)
    <3>1. /\ Guard(c, fenced)
          /\ live[c.id].attempts < live[c.id].max_attempts
          /\ live' = [live EXCEPT ![c.id] = r]
          /\ UNCHANGED <<dead, next_id, claims, settled>>
      BY <2>5, Zenon DEF retry_requeue, CanRequeue
    <3>2. c.id \in DOMAIN live /\ RowOK(live[c.id])
      BY <2>1, <3>1, GuardHolds, Zenon
    <3>3. /\ RowOK(r)
          /\ r.attempts = live[c.id].attempts
          /\ r.max_attempts = live[c.id].max_attempts
      <4>1. now \in Int /\ delay \in Int
        BY QueueAssumption DEF TypeOK
      <4> QED BY <3>1, <3>2, <4>1, RequeuedRowOK
    <3>4. r.state # "processing"
      BY Zenon DEF Requeued, Updated
    <3> HIDE DEF r
    <3>5. JobsStep({}, {}, {}, NULL)
      BY <3>1, <3>2, <3>3, <3>4, RewriteStep, Zenon
    <3> QED BY <3>5
  <2>6. ASSUME NEW fenced \in BOOLEAN, retry_miss(c, fenced)
        PROVE  \E gone : JobsStep(gone, {}, {}, NULL)
    BY <2>6, QuietStep DEF retry_miss
  <2>7. ASSUME NEW extend \in Extends, heartbeat(c, extend) \/ heartbeat_fenced(c, extend)
        PROVE  \E gone : JobsStep(gone, {}, {}, NULL)
    <3> DEFINE r == Extended(live[c.id], now + extend)
    <3>1. /\ \E fenced \in BOOLEAN : Guard(c, fenced)
          /\ live' = [live EXCEPT ![c.id] = r]
          /\ UNCHANGED <<dead, next_id, claims, settled>>
      BY <2>7, Zenon DEF heartbeat, heartbeat_fenced
    <3>2. /\ c.id \in DOMAIN live /\ RowOK(live[c.id])
          /\ live[c.id].state = "processing"
      BY <2>1, <3>1, GuardHolds, Zenon
    <3>3. now + extend \in Int
      BY QueueAssumption DEF TypeOK
    <3>4. /\ RowOK(r)
          /\ r.attempts = live[c.id].attempts
          /\ r.max_attempts = live[c.id].max_attempts
          /\ r.worker_id = live[c.id].worker_id
      BY <3>2, <3>3, ExtendedRowOK, Zenon
    <3> HIDE DEF r
    <3>5. JobsStep({}, {}, {}, NULL)
      BY <3>1, <3>2, <3>4, RewriteStep, Zenon
    <3> QED BY <3>5
  <2> QED BY <1>2, <2>2, <2>3, <2>4, <2>5, <2>6, <2>7 DEF HandlerStep
<1>3. ASSUME NEW w \in Workers, WorkerStep(w)
      PROVE  \E gone, taken : \E v : JobsStep(gone, taken, {}, v)
  <2>1. ASSUME NEW q \in Queues, NEW lag \in Lags, NEW n \in BatchSizes,
               NEW timeout \in Timeouts, claim_batch(q, w, lag, n, timeout)
        PROVE  \E gone, taken : \E v : JobsStep(gone, taken, {}, v)
    <3>1. \E gone, taken : JobsStep(gone, taken, {}, w)
      BY <2>1, ClaimStep
    <3> QED BY <3>1
  <2>2. ASSUME NEW ids, NEW pairs, ack_batch(w, ids, pairs)
        PROVE  \E gone, taken : \E v : JobsStep(gone, taken, {}, v)
    <3>1. \E S : JobsStep(S, {}, {}, NULL)
      BY <2>2, AckBatchStep
    <3> QED BY <3>1
  <2>3. CASE retry_exhausted(w)
    <3>1. JobsStep({}, {}, {}, NULL)
      BY <2>3, QuietStep DEF retry_exhausted
    <3> QED BY <3>1
  <2>4. CASE retry_dead(w)
    <3> DEFINE c == Caller(w)
               fenced == retry_call[w].fenced
    <3>1. c \in Claim /\ fenced \in BOOLEAN
      BY <2>4 DEF TypeOK, RetryCall, Caller, Claim, retry_dead
    <3>2. CASE IsExhausted(c, fenced)
      <4>1. Guard(c, fenced) /\ Bury(c, fenced) /\ UNCHANGED <<next_id, claims>>
        BY <2>4, <3>2, Zenon DEF retry_dead, IsExhausted
      <4> HIDE DEF c, fenced
      <4>2. JobsStep({c.id}, {}, {}, NULL)
        BY <3>1, <4>1, HandlerRemoves, Zenon DEF Bury
      <4> QED BY <4>2
    <3>3. CASE ~IsExhausted(c, fenced)
      <4>1. JobsStep({}, {}, {}, NULL)
        BY <2>4, <3>3, QuietStep, Zenon DEF retry_dead
      <4> QED BY <4>1
    <3> QED BY <3>2, <3>3
  <2> QED BY <1>3, <2>1, <2>2, <2>3, <2>4, Zenon DEF WorkerStep
<1>4. ASSUME NEW i \in DOMAIN live, NEW q \in Queues,
             cancel(i) \/ cancel_in_queue(q, i)
      PROVE  JobsStep({i}, {}, {}, NULL)
  <2>1. /\ live' = Without(live, {i})
        /\ settled' = Settle({i}, "cancelled", NULL, NULL)
        /\ dead' = IF "cancelled" = "dead"
                   THEN Add(DeadRows(live, {i}, "expired"), dead) ELSE dead
        /\ UNCHANGED <<next_id, claims>>
        /\ {i} \subseteq DOMAIN live
    BY <1>4 DEF cancel, cancel_in_queue
  <2> QED BY <2>1, SystemRemoves
<1>5. ASSUME NEW q \in Queues, NEW lag \in Lags, sweep_expired(q, lag)
      PROVE  \E gone : JobsStep(gone, {}, {}, NULL)
  <2> DEFINE t == ReadAt(lag)
             S == ExpiredIds(live, q, t)
  <2>1. t \in Int /\ t <= now /\ now \in Int
    BY QueueAssumption DEF TypeOK, ReadAt
  <2>2. S \subseteq DOMAIN live
        /\ \A i \in S : live[i].state # "processing" \/ LeaseLapsed(live[i], t)
    BY Zenon DEF ExpiredIds
  <2>3. /\ live' = Without(live, S)
        /\ settled' = Settle(S, "dead", NULL, NULL)
        /\ dead' = IF "dead" = "dead"
                   THEN Add(DeadRows(live, S, "expired"), dead) ELSE dead
        /\ UNCHANGED <<next_id, claims>>
    BY <1>5, Zenon DEF sweep_expired
  <2> HIDE DEF t, S
  <2>4. ASSUME NEW i \in S PROVE ~Held(i)
    <3>1. SameClaim(live[i], live[i])
      BY <2>2, Zenon DEF SameClaim, RowsOK
    <3> QED BY <2>1, <2>2, <3>1, LapsedNotHeld
  <2>5. JobsStep(S, {}, {}, NULL)
    BY <2>2, <2>3, <2>4, SystemRemoves, Zenon
  <2> QED BY <2>5
<1>6. ASSUME NEW q \in Queues, QueueStep(q)
      PROVE  \E gone, new : JobsStep(gone, {}, new, NULL)
  <2>1. ASSUME NEW i \in DOMAIN live, cancel_in_queue(q, i)
        PROVE  \E gone, new : JobsStep(gone, {}, new, NULL)
    BY <1>4, <2>1, Zenon
  <2> QED BY <1>5, <1>6, <2>1, EnqueueStep DEF QueueStep
<1>7. ASSUME NEW i \in DOMAIN live, cancel(i) PROVE JobsStep({i}, {}, {}, NULL)
  <2>1. live[i].queue \in Queues
    BY DEF TypeOK, Row
  <2> QED BY <1>4, <1>7, <2>1
<1> QED BY <1>1, <1>2, <1>3, <1>6, <1>7, Zenon DEF Next

----------------------------------------------------------------------------
(* The inductive invariant *)

(* Claims are about rows that were enqueued. *)
ClaimsEnqueued == \A c \in claims : c.id < next_id

(* A row being processed carries the worker and the token of a claim.      *)
HolderClaimed ==
    \A i \in DOMAIN live : live[i].state = "processing" =>
        [id |-> i, worker |-> live[i].worker_id, attempt |-> live[i].attempts] \in claims

QueueInv ==
    /\ TypeOK
    /\ RowsOK
    /\ JobConservation
    /\ ClaimsEnqueued
    /\ HolderClaimed
    /\ OneClaimPerAttempt
    /\ SettledByLastClaim

(* The empty database satisfies the invariant. *)
LEMMA InitInv == ASSUME Init PROVE QueueInv
<1>1. /\ DOMAIN live = {} /\ DOMAIN dead = {} /\ DOMAIN settled = {}
      /\ claims = {} /\ next_id = 1
  BY DEF Init, EmptyTable
<1>2. TypeOK
  BY DEF Init, TypeOK, EmptyTable
<1>3. JobConservation
  BY <1>1 DEF JobConservation
<1> QED BY <1>1, <1>2, <1>3, Zenon DEF QueueInv, RowsOK, ClaimsEnqueued, HolderClaimed,
                 OneClaimPerAttempt, SettledByLastClaim

(* The clock and the pending retry calls keep their types. *)
LEMMA CallTypes ==
    ASSUME TypeOK, [Next]_vars
    PROVE  now' \in Nat /\ retry_call' \in [Workers -> RetryCall \cup {NULL}]
<1>1. CASE UNCHANGED vars
  BY <1>1 DEF TypeOK, vars
<1>2. CASE Tick
  BY <1>2 DEF Tick, TypeOK
<1>3. ASSUME NEW c \in claims, HandlerStep(c) PROVE retry_call' \in [Workers -> RetryCall \cup {NULL}] /\ now' = now
  <2>1. c \in Claim
    BY DEF TypeOK
  <2>2. ASSUME NEW fenced \in BOOLEAN, retry_miss(c, fenced)
        PROVE  retry_call' \in [Workers -> RetryCall \cup {NULL}] /\ now' = now
    <3>1. [id |-> c.id, attempt |-> c.attempt, fenced |-> fenced, step |-> "exhausted"]
             \in RetryCall
      BY <2>1 DEF Claim, RetryCall
    <3> QED BY <2>2, <3>1, Zenon DEF retry_miss, TypeOK
  <2> QED BY <1>3, <2>2, Zenon DEF HandlerStep, ack, ack_fenced, fail, retry_requeue,
                 heartbeat, heartbeat_fenced, TypeOK
<1>4. ASSUME NEW w \in Workers, WorkerStep(w) PROVE retry_call' \in [Workers -> RetryCall \cup {NULL}] /\ now' = now
  <2>1. CASE retry_exhausted(w)
    <3>1. [retry_call[w] EXCEPT !.step = "dead"] \in RetryCall
      BY <2>1 DEF retry_exhausted, TypeOK, RetryCall
    <3> QED BY <2>1, <3>1 DEF retry_exhausted, TypeOK
  <2>2. CASE retry_dead(w)
    BY <2>2 DEF retry_dead, TypeOK
  <2>3. ASSUME NEW q, NEW lag, NEW n, NEW timeout, claim_batch(q, w, lag, n, timeout)
        PROVE  UNCHANGED <<retry_call, now>>
    BY <2>3, Zenon DEF claim_batch
  <2>4. ASSUME NEW ids, NEW pairs, ack_batch(w, ids, pairs)
        PROVE  UNCHANGED <<retry_call, now>>
    BY <2>4, Zenon DEF ack_batch
  <2> QED BY <1>4, <2>1, <2>2, <2>3, <2>4, Zenon DEF WorkerStep, TypeOK
<1>5. ASSUME NEW q \in Queues, QueueStep(q) PROVE UNCHANGED <<retry_call, now>>
  BY <1>5, Zenon DEF QueueStep, enqueue, sweep_expired, cancel_in_queue
<1>6. ASSUME NEW i, cancel(i) PROVE UNCHANGED <<retry_call, now>>
  BY <1>6 DEF cancel
<1> QED BY <1>1, <1>2, <1>3, <1>4, <1>5, <1>6 DEF Next, TypeOK

Tokens(i) == {c.attempt : c \in ClaimsOf(i)}

(* The claims of a job grow by one exactly when a step takes it. *)
LEMMA ClaimsGrow ==
    ASSUME NEW gone, NEW taken, NEW new, NEW w, JobsStep(gone, taken, new, w)
    PROVE  /\ \A i \in taken :
                /\ ClaimsOf(i)' = ClaimsOf(i) \cup
                      {[id |-> i, worker |-> w, attempt |-> live[i].attempts + 1]}
                /\ Tokens(i)' = Tokens(i) \cup {live[i].attempts + 1}
           /\ \A i : i \notin taken => /\ ClaimsOf(i)' = ClaimsOf(i)
                                      /\ Tokens(i)' = Tokens(i)
<1> DEFINE c(i) == [id |-> i, worker |-> w, attempt |-> live[i].attempts + 1]
<1>1. claims' = claims \cup {c(i) : i \in taken}
  BY Zenon DEF JobsStep
<1>2. \A i : c(i).id = i /\ c(i).attempt = live[i].attempts + 1
  BY Zenon
<1> HIDE DEF c
<1>3. ASSUME NEW i \in taken
      PROVE  /\ ClaimsOf(i)' = ClaimsOf(i) \cup {c(i)}
             /\ Tokens(i)' = Tokens(i) \cup {live[i].attempts + 1}
  <2>1. ClaimsOf(i)' = ClaimsOf(i) \cup {c(i)}
    BY <1>1, <1>2 DEF ClaimsOf
  <2> QED BY <1>2, <2>1, SMTT(30) DEF Tokens
<1>4. ASSUME NEW i, i \notin taken
      PROVE  ClaimsOf(i)' = ClaimsOf(i) /\ Tokens(i)' = Tokens(i)
  <2>1. ClaimsOf(i)' = ClaimsOf(i)
    BY <1>1, <1>2, <1>4 DEF ClaimsOf
  <2> QED BY <2>1 DEF Tokens
<1> QED BY <1>3, <1>4, Zenon DEF c

(* No job is lost or duplicated by a step. *)
LEMMA ConservationStep ==
    ASSUME QueueInv, NEW gone, NEW taken, NEW new, NEW w, JobsStep(gone, taken, new, w)
    PROVE  JobConservation'
<1>1. next_id \in Nat \ {0}
  BY DEF QueueInv, TypeOK
<1>2. 1 .. (next_id' - 1) = (1 .. (next_id - 1)) \cup new
  BY <1>1, SMTT(30) DEF JobsStep
<1>3. /\ DOMAIN live' = (DOMAIN live \ gone) \cup new
      /\ DOMAIN settled' = DOMAIN settled \cup gone
      /\ gone \subseteq DOMAIN live
      /\ new \subseteq {next_id}
  BY Zenon DEF JobsStep
<1>4. /\ DOMAIN live \cup DOMAIN settled = 1 .. (next_id - 1)
      /\ DOMAIN live \cap DOMAIN settled = {}
      /\ DOMAIN dead = {i \in DOMAIN settled : settled[i].how = "dead"}
  BY Zenon DEF QueueInv, JobConservation
<1>5. next_id \notin DOMAIN live \cup DOMAIN settled
  BY <1>1, <1>4, SMTT(30)
<1>6. DOMAIN live' \cup DOMAIN settled' = 1 .. (next_id' - 1)
  BY <1>2, <1>3, <1>4, Zenon
<1>7. DOMAIN live' \cap DOMAIN settled' = {}
  BY <1>3, <1>4, <1>5, Zenon
<1>8. DOMAIN dead' = {i \in DOMAIN settled' : settled'[i].how = "dead"}
  <2>1. /\ DOMAIN dead' = DOMAIN dead \cup {i \in gone : settled'[i].how = "dead"}
        /\ \A i \in DOMAIN settled \ gone : settled'[i] = settled[i]
    BY Zenon DEF JobsStep
  <2> QED BY <1>3, <1>4, <2>1, Zenon
<1> QED BY <1>6, <1>7, <1>8, Zenon DEF JobConservation

(* attempts goes on counting the claims of a job, and tokens stay unique.  *)
LEMMA TokensStep ==
    ASSUME QueueInv, NEW gone, NEW taken, NEW new, NEW w, JobsStep(gone, taken, new, w)
    PROVE  OneClaimPerAttempt' /\ ClaimsEnqueued' /\ claims' \subseteq Claim
<1>1. /\ next_id \in Nat \ {0}
      /\ claims \subseteq Claim
      /\ gone \subseteq DOMAIN live
      /\ taken \subseteq DOMAIN live \ gone
      /\ taken # {} => w \in Workers
      /\ DOMAIN live \subseteq 1 .. (next_id - 1)
      /\ next_id' \in {next_id, next_id + 1}
      /\ \A i \in DOMAIN live : live[i].attempts \in Nat /\ live[i].max_attempts \in Int
  BY Zenon DEF QueueInv, TypeOK, JobsStep, JobConservation, RowsOK, RowOK, Row
<1>2. /\ \A i \in DOMAIN live : Tokens(i) = 1 .. live[i].attempts
      /\ \A i \in DOMAIN dead : /\ Tokens(i) = 1 .. dead[i].attempts
                                /\ dead[i].attempts <= dead[i].max_attempts
      /\ \A c, d \in claims : c.id = d.id /\ c.attempt = d.attempt => c = d
  BY Zenon DEF QueueInv, OneClaimPerAttempt, Tokens
<1>3. /\ \A i \in taken : Tokens(i)' = Tokens(i) \cup {live[i].attempts + 1}
      /\ \A i : i \notin taken => Tokens(i)' = Tokens(i)
  BY ClaimsGrow, Zenon
<1>4. ASSUME NEW c \in claims'
      PROVE  \/ c \in claims
             \/ /\ c.id \in taken
                /\ c = [id |-> c.id, worker |-> w, attempt |-> live[c.id].attempts + 1]
  BY SMTT(30) DEF JobsStep
<1>5. claims' \subseteq Claim /\ ClaimsEnqueued'
  <2>1. ASSUME NEW c \in claims' PROVE c \in Claim /\ c.id < next_id'
    <3>1. CASE c \in claims
      BY <1>1, <3>1, SMTT(30) DEF QueueInv, ClaimsEnqueued, Claim
    <3>2. CASE c \notin claims
      BY <1>1, <1>4, <3>2 DEF Claim
    <3> QED BY <3>1, <3>2
  <2> QED BY <2>1 DEF ClaimsEnqueued
<1>6. ASSUME NEW c \in claims, NEW d \in claims', d \notin claims, c.id = d.id
      PROVE  c.attempt # d.attempt
  <2>1. c.attempt \in Tokens(d.id)
    BY <1>6 DEF Tokens, ClaimsOf
  <2>2. d.id \in taken /\ d.attempt = live[d.id].attempts + 1
    BY <1>4, <1>6
  <2> QED BY <1>1, <1>2, <2>1, <2>2, SMTT(30)
<1>7. \A c, d \in claims' : c.id = d.id /\ c.attempt = d.attempt => c = d
  <2> TAKE c, d \in claims'
  <2>1. CASE c \in claims /\ d \in claims
    BY <1>2, <2>1
  <2>2. CASE c \notin claims /\ d \notin claims
    BY <1>4, <2>2
  <2> QED BY <1>6, <2>1, <2>2
<1>8. ASSUME NEW i \in DOMAIN live'
      PROVE  Tokens(i)' = 1 .. live'[i].attempts /\ live'[i].attempts <= live'[i].max_attempts
  <2>1. RowOK(live'[i])
    BY Zenon DEF JobsStep
  <2>2. CASE i \in new
    <3>0. /\ new \subseteq {next_id}
          /\ taken \subseteq DOMAIN live
          /\ \A j \in new : live'[j].attempts = 0
      BY Zenon DEF JobsStep
    <3>1. i = next_id /\ live'[i].attempts = 0 /\ i \notin taken
      BY <1>1, <2>2, <3>0, SMTT(30)
    <3>2. Tokens(i) = {}
      BY <1>1, <3>1, SMTT(30) DEF QueueInv, ClaimsEnqueued, Tokens, ClaimsOf
    <3> QED BY <1>3, <2>1, <3>1, <3>2, SMTT(30) DEF RowOK
  <2>3. CASE i \in taken
    <3>1. live'[i].attempts = live[i].attempts + 1
      BY <1>1, <2>3, Zenon DEF JobsStep, Stays
    <3>2. Tokens(i)' = (1 .. live[i].attempts) \cup {live[i].attempts + 1}
      BY <1>1, <1>2, <1>3, <2>3, Zenon
    <3>3. 1 .. (live[i].attempts + 1) = (1 .. live[i].attempts) \cup {live[i].attempts + 1}
      BY <1>1, <2>3, SMTT(30)
    <3> QED BY <2>1, <3>1, <3>2, <3>3, Zenon DEF RowOK
  <2>4. CASE i \in DOMAIN live \ gone /\ i \notin taken
    <3>1. live'[i].attempts = live[i].attempts
      BY <2>4, Zenon DEF JobsStep, Stays
    <3> QED BY <1>2, <1>3, <2>1, <2>4, <3>1, Zenon DEF RowOK
  <2> QED BY <2>2, <2>3, <2>4, Zenon DEF JobsStep
<1>9. ASSUME NEW i \in DOMAIN dead'
      PROVE  Tokens(i)' = 1 .. dead'[i].attempts /\ dead'[i].attempts <= dead'[i].max_attempts
  <2>1. CASE i \in gone
    <3>1. /\ settled'[i].how = "dead"
          /\ i \in DOMAIN live /\ i \notin taken
      BY <1>1, <2>1, Zenon DEF JobsStep, QueueInv, JobConservation
    <3>2. /\ dead'[i].attempts = live[i].attempts
          /\ dead'[i].max_attempts = live[i].max_attempts
          /\ live[i].attempts <= live[i].max_attempts
      BY <2>1, <3>1, Zenon DEF JobsStep, Leaves, QueueInv, RowsOK, RowOK
    <3> QED BY <1>2, <1>3, <3>1, <3>2, Zenon
  <2>2. CASE i \notin gone
    <3>1. i \in DOMAIN dead /\ dead'[i] = dead[i]
      BY <2>2, Zenon DEF JobsStep
    <3>2. i \notin taken
      BY <1>1, <3>1, Zenon DEF QueueInv, JobConservation
    <3> QED BY <1>2, <1>3, <3>1, <3>2, Zenon
  <2> QED BY <2>1, <2>2, Zenon
<1> QED BY <1>5, <1>7, <1>8, <1>9, Zenon DEF OneClaimPerAttempt, Tokens

(* A row being processed goes on carrying the token of its last claim. *)
LEMMA HolderStep ==
    ASSUME QueueInv, NEW gone, NEW taken, NEW new, NEW w, JobsStep(gone, taken, new, w)
    PROVE  HolderClaimed'
<1>1. SUFFICES ASSUME NEW i \in DOMAIN live', live'[i].state = "processing"
               PROVE  [id |-> i, worker |-> live'[i].worker_id,
                       attempt |-> live'[i].attempts] \in claims'
  BY Zenon DEF HolderClaimed
<1>2. i \in DOMAIN live \ gone /\ Stays(i, taken, w)
  BY <1>1, Zenon DEF JobsStep
<1>3. CASE i \in taken
  BY <1>2, <1>3, SMTT(30) DEF Stays, JobsStep
<1>4. CASE i \notin taken
  <2>1. /\ live[i].state = "processing"
        /\ live'[i].worker_id = live[i].worker_id
        /\ live'[i].attempts = live[i].attempts
    BY <1>1, <1>2, <1>4, Zenon DEF Stays
  <2>2. [id |-> i, worker |-> live[i].worker_id, attempt |-> live[i].attempts] \in claims
    BY <1>2, <2>1, Zenon DEF QueueInv, HolderClaimed
  <2> QED BY <2>1, <2>2, Zenon DEF JobsStep
<1> QED BY <1>3, <1>4, Zenon

(* A job that leaves is settled by its last claim, and a job that left is  *)
(* not claimed again.                                                      *)
LEMMA SettledStep ==
    ASSUME QueueInv, NEW gone, NEW taken, NEW new, NEW w, JobsStep(gone, taken, new, w)
    PROVE  SettledByLastClaim'
<1>1. SUFFICES ASSUME NEW i \in DOMAIN settled', settled'[i].worker # NULL
               PROVE  \E c \in ClaimsOf(i)' :
                         /\ \A d \in ClaimsOf(i)' : d.attempt <= c.attempt
                         /\ settled'[i].worker = c.worker
                         /\ settled'[i].attempt \in {NULL, c.attempt}
  BY Zenon DEF SettledByLastClaim
<1>2. i \notin taken
  BY <1>1, Zenon DEF JobsStep, QueueInv, JobConservation
<1>3. ClaimsOf(i)' = ClaimsOf(i)
  BY <1>2, ClaimsGrow, Zenon
<1>4. CASE i \in gone
  <2>1. /\ i \in DOMAIN live
        /\ live[i].state = "processing"
        /\ settled'[i].worker = live[i].worker_id
        /\ settled'[i].attempt \in {NULL, live[i].attempts}
    BY <1>1, <1>4, Zenon DEF JobsStep, Leaves
  <2> DEFINE c == [id |-> i, worker |-> live[i].worker_id, attempt |-> live[i].attempts]
  <2>2. c \in ClaimsOf(i)
    BY <2>1, Zenon DEF QueueInv, HolderClaimed, ClaimsOf
  <2>3. c.worker = live[i].worker_id /\ c.attempt = live[i].attempts
    BY Zenon
  <2> HIDE DEF c
  <2>4. \A d \in ClaimsOf(i) : d.attempt <= c.attempt
    <3>1. {d.attempt : d \in ClaimsOf(i)} = 1 .. live[i].attempts
      BY <2>1, Zenon DEF QueueInv, OneClaimPerAttempt
    <3> QED BY <2>3, <3>1, SMTT(30)
  <2> QED BY <1>3, <2>1, <2>2, <2>3, <2>4, Zenon
<1>5. CASE i \notin gone
  <2>1. i \in DOMAIN settled /\ settled'[i] = settled[i]
    BY <1>5, Zenon DEF JobsStep
  <2> QED BY <1>1, <1>3, <2>1, Zenon DEF QueueInv, SettledByLastClaim
<1> QED BY <1>4, <1>5, Zenon

(* Every table keeps its columns' types. *)
LEMMA TypeStep ==
    ASSUME QueueInv, [Next]_vars, NEW gone, NEW taken, NEW new, NEW w,
           JobsStep(gone, taken, new, w)
    PROVE  TypeOK' /\ RowsOK'
<1>1. RowsOK' /\ live' \in [DOMAIN live' -> Row]
  BY Zenon DEF JobsStep, RowsOK, RowOK, IsTable
<1>2. settled' \in [DOMAIN settled' -> Settlement]
  <2>1. \A i \in DOMAIN settled' : settled'[i] \in Settlement
    BY Zenon DEF JobsStep, Leaves, QueueInv, TypeOK
  <2> QED BY <2>1, Zenon DEF JobsStep, IsTable
<1>3. dead' \in [DOMAIN dead' -> DeadRow]
  <2>1. ASSUME NEW i \in DOMAIN dead' PROVE dead'[i] \in DeadRow
    <3>1. CASE i \in gone
      <4>1. settled'[i].how = "dead"
        BY <3>1, Zenon DEF JobsStep, QueueInv, JobConservation
      <4> QED BY <3>1, <4>1, Zenon DEF JobsStep, Leaves
    <3>2. CASE i \notin gone
      BY <3>2, Zenon DEF JobsStep, QueueInv, TypeOK
    <3> QED BY <3>1, <3>2
  <2> QED BY <2>1, Zenon DEF JobsStep, IsTable
<1>4. next_id' \in Nat \ {0}
  BY SMTT(30) DEF JobsStep, QueueInv, TypeOK
<1>5. now' \in Nat /\ retry_call' \in [Workers -> RetryCall \cup {NULL}]
  BY CallTypes DEF QueueInv
<1>6. claims' \subseteq Claim
  BY TokensStep
<1> QED BY <1>1, <1>2, <1>3, <1>4, <1>5, <1>6, Zenon DEF TypeOK

(* Every step is a JobsStep. *)
LEMMA StepMovesJobs ==
    ASSUME QueueInv, [Next]_vars
    PROVE  \E gone, taken, new, w : JobsStep(gone, taken, new, w)
<1>1. CASE Next
  <2>1. next_id \notin DOMAIN live
    BY DEF QueueInv, JobConservation, TypeOK
  <2> QED BY <1>1, <2>1, NextMovesJobs DEF QueueInv
<1>2. CASE UNCHANGED vars
  <2>1. JobsStep({}, {}, {}, NULL)
    BY <1>2, QuietStep DEF vars, QueueInv
  <2> QED BY <2>1
<1> QED BY <1>1, <1>2

(* The invariant is inductive. *)
LEMMA InvStep ==
    ASSUME QueueInv, [Next]_vars PROVE QueueInv'
<1>1. PICK gone, taken, new, w : JobsStep(gone, taken, new, w)
  BY StepMovesJobs
<1> QED BY <1>1, TypeStep, ConservationStep, HolderStep, TokensStep, SettledStep, Zenon
        DEF QueueInv

(* The invariant holds in every reachable state of the queue. *)
LEMMA Invariance == Spec => []QueueInv
<1>1. Init => QueueInv
  BY InitInv
<1>2. QueueInv /\ [Next]_vars => QueueInv'
  BY InvStep
<1> QED BY <1>1, <1>2, PTL DEF Spec

----------------------------------------------------------------------------
(* The theorems *)

(* The variables keep their types, the claim columns are set together and  *)
(* exactly while a row is 'processing', and a row waiting for a claim has  *)
(* an attempt left.                                                        *)
THEOREM RowsAreWellFormed == Spec => []WellFormed
<1>1. QueueInv => TypeOK
  BY DEF QueueInv
<1>2. QueueInv => ClaimColumns
  BY Zenon DEF QueueInv, RowsOK, RowOK, ClaimColumns
<1>3. QueueInv => ReadyHasBudget
  BY Zenon DEF QueueInv, RowsOK, RowOK, ReadyHasBudget
<1> QED BY <1>1, <1>2, <1>3, Invariance, PTL DEF WellFormed

(* No job is ever lost or duplicated: enqueue, claim_batch's housekeeping, *)
(* ack, retry, fail, cancel and sweep_expired keep every id in exactly one *)
(* of _honker_live and the history, and _honker_dead holds exactly the     *)
(* dead-lettered ones.                                                     *)
THEOREM NoJobLost == Spec => []JobConservation
<1>1. QueueInv => JobConservation
  BY DEF QueueInv
<1> QED BY <1>1, Invariance, PTL

(* A job is handed out at most max_attempts times, every time with a token *)
(* no other claim of it has.                                               *)
THEOREM TokensAreUnique == Spec => []OneClaimPerAttempt
<1>1. QueueInv => OneClaimPerAttempt
  BY DEF QueueInv
<1> QED BY <1>1, Invariance, PTL

(* A stale handler never settles a job that was handed out after it. *)
THEOREM StaleHandlersAreFenced == Spec => []SettledByLastClaim
<1>1. QueueInv => SettledByLastClaim
  BY DEF QueueInv
<1> QED BY <1>1, Invariance, PTL

(* While a lease holds, only its own worker or a cancel takes the job away.*)
THEOREM LeasesExclude == Spec => LeaseExcludesOthers
<1> DEFINE A == \A i \in DOMAIN live :
              live[i].state = "processing" /\ LeaseValid(live[i], now) =>
                 IF i \in DOMAIN live'
                 THEN live'[i].attempts = live[i].attempts
                 ELSE \/ settled'[i].how = "cancelled"
                      \/ settled'[i].worker = live[i].worker_id
<1>1. QueueInv /\ [Next]_vars => [A]_vars
  <2>1. SUFFICES ASSUME QueueInv, [Next]_vars PROVE A
    BY Zenon
  <2>2. PICK gone, taken, new, w : JobsStep(gone, taken, new, w)
    BY <2>1, StepMovesJobs
  <2>3. ASSUME NEW i \in DOMAIN live, Held(i)
        PROVE  IF i \in DOMAIN live'
               THEN live'[i].attempts = live[i].attempts
               ELSE \/ settled'[i].how = "cancelled"
                    \/ settled'[i].worker = live[i].worker_id
    <3>1. CASE i \in gone
      <4>1. i \notin DOMAIN live'
        BY <3>1, <2>1, <2>2, SMTT(30) DEF JobsStep, QueueInv, JobConservation, TypeOK
      <4> QED BY <2>2, <2>3, <3>1, <4>1, Zenon DEF JobsStep, Leaves
    <3>2. CASE i \notin gone
      BY <2>2, <2>3, <3>2, Zenon DEF JobsStep, Stays
    <3> QED BY <3>1, <3>2, Zenon
  <2> QED BY <2>3, Zenon DEF Held
<1> QED BY <1>1, Invariance, PTL DEF Spec, LeaseExcludesOthers

----------------------------------------------------------------------------
(* The queue implements JobLifecycle *)

LifeBudget(i) == IF i \in DOMAIN live THEN live[i].max_attempts ELSE 0

(* One step of the queue is at most one step in the life of each job. *)
LEMMA JobMoves ==
    ASSUME QueueInv, QueueInv', [Next]_vars, NEW i
    PROVE  Lifecycle!JobStep(LifeStatus(i), Tokens(i), LifeBudget(i),
                             LifeStatus(i)', Tokens(i)', LifeBudget(i)')
<1>1. PICK gone, taken, new, w : JobsStep(gone, taken, new, w)
  BY StepMovesJobs
<1>2. /\ \A j \in taken : Tokens(j)' = Tokens(j) \cup {live[j].attempts + 1}
      /\ \A j : j \notin taken => Tokens(j)' = Tokens(j)
  BY <1>1, ClaimsGrow, Zenon
<1>3. /\ next_id \notin DOMAIN live \cup DOMAIN settled
      /\ DOMAIN live \cap DOMAIN settled = {}
      /\ DOMAIN live' \cap DOMAIN settled' = {}
  BY SMTT(30) DEF QueueInv, JobConservation, TypeOK
<1>4. CASE i \in new
  <2>1. /\ i \notin DOMAIN live /\ i \notin DOMAIN settled /\ i \notin taken
        /\ i \in DOMAIN live' /\ live'[i].state # "processing"
        /\ RowOK(live'[i]) /\ live'[i].attempts = 0
    BY <1>1, <1>3, <1>4, Zenon DEF JobsStep
  <2>2. /\ LifeStatus(i) = "none" /\ LifeStatus(i)' = "waiting"
        /\ LifeBudget(i)' \in Nat \ {0}
    BY <2>1, SMTT(30) DEF LifeStatus, LifeBudget, RowOK, Row
  <2> QED BY <1>2, <2>1, <2>2, Zenon DEF Lifecycle!JobStep, Lifecycle!Enqueued
<1>5. CASE i \in gone
  <2>1. /\ i \in DOMAIN live /\ i \notin taken
        /\ i \in DOMAIN settled' /\ i \notin DOMAIN live'
        /\ settled'[i] \in Settlement
        /\ settled'[i].how = "acked" => live[i].state = "processing"
    BY <1>1, <1>3, <1>5, Zenon DEF JobsStep, Leaves
  <2>2. /\ LifeStatus(i) \in Lifecycle!Queued
        /\ LifeStatus(i)' \in Lifecycle!Final
        /\ LifeStatus(i)' = "acked" => LifeStatus(i) = "running"
        /\ LifeBudget(i)' = 0
    BY <2>1, Zenon DEF LifeStatus, LifeBudget, Settlement, Lifecycle!Queued, Lifecycle!Final
  <2> QED BY <1>2, <2>1, <2>2, Zenon DEF Lifecycle!JobStep, Lifecycle!Left
<1>6. CASE i \in DOMAIN live \ gone
  <2>1. /\ i \in DOMAIN live'
        /\ Stays(i, taken, w)
        /\ RowOK(live[i]) /\ RowOK(live'[i])
        /\ Tokens(i) = 1 .. live[i].attempts
    BY <1>1, <1>6, Zenon DEF JobsStep, QueueInv, RowsOK, OneClaimPerAttempt, Tokens
  <2>2. LifeStatus(i) \in Lifecycle!Queued /\ LifeBudget(i)' = LifeBudget(i)
        /\ LifeBudget(i) = live[i].max_attempts
    BY <1>6, <2>1, Zenon DEF LifeStatus, LifeBudget, Lifecycle!Queued, Stays
  <2>3. CASE i \in taken
    <3> DEFINE a == live[i].attempts + 1
    <3>1. a \in 1 .. LifeBudget(i) /\ 1 .. a = (1 .. (a - 1)) \cup {a}
          /\ a - 1 = live[i].attempts
      <4>1. live[i].attempts \in Nat /\ live'[i].attempts = a
        BY <2>1, <2>3, Zenon DEF Stays, RowOK, Row
      <4>2. live'[i].max_attempts = LifeBudget(i) /\ LifeBudget(i) \in Int
            /\ a <= LifeBudget(i)
        BY <2>1, <2>2, <4>1, Zenon DEF Stays, RowOK, Row
      <4> QED BY <4>1, <4>2, SMTT(30)
    <3>2. Tokens(i) = 1 .. (a - 1) /\ Tokens(i)' = 1 .. a
      BY <1>2, <2>1, <2>3, <3>1, Zenon
    <3>3. LifeStatus(i)' = "running"
      BY <2>1, <2>3, Zenon DEF LifeStatus, Stays
    <3> HIDE DEF a
    <3> QED BY <2>2, <3>1, <3>2, <3>3, Zenon DEF Lifecycle!JobStep, Lifecycle!HandedOut
  <2>4. CASE i \notin taken
    <3>1. Tokens(i)' = Tokens(i)
      BY <1>2, <2>4, Zenon
    <3>2. CASE live'[i].state = "processing"
      <4>1. LifeStatus(i)' = LifeStatus(i)
        BY <1>6, <2>1, <2>4, <3>2, Zenon DEF LifeStatus, Stays
      <4> QED BY <2>2, <3>1, <4>1, Zenon DEF Lifecycle!JobStep
    <3>3. CASE live'[i].state # "processing"
      <4>1. LifeStatus(i)' = "waiting"
        BY <2>1, <3>3, Zenon DEF LifeStatus
      <4>2. Tokens(i) # 1 .. LifeBudget(i)
        <5>1. /\ live[i].attempts < live[i].max_attempts
              /\ live[i].attempts \in Nat /\ live[i].max_attempts \in Int
          BY <2>1, <2>4, <3>3, Zenon DEF Stays, RowOK, Row
        <5>2. live[i].max_attempts \in 1 .. live[i].max_attempts
              /\ live[i].max_attempts \notin 1 .. live[i].attempts
          BY <5>1, SMTT(30)
        <5> QED BY <2>1, <2>2, <5>2, Zenon
      <4> QED BY <2>2, <3>1, <4>1, <4>2, Zenon
             DEF Lifecycle!JobStep, Lifecycle!PutBack, Lifecycle!Queued
    <3> QED BY <3>2, <3>3, Zenon
  <2> QED BY <2>3, <2>4
<1>7. CASE i \notin DOMAIN live /\ i \notin new
  <2>1. /\ i \notin DOMAIN live' /\ i \notin taken /\ i \notin gone
        /\ i \in DOMAIN settled' <=> i \in DOMAIN settled
        /\ i \in DOMAIN settled => settled'[i] = settled[i]
    BY <1>1, <1>7, Zenon DEF JobsStep
  <2>2. LifeStatus(i)' = LifeStatus(i) /\ LifeBudget(i)' = LifeBudget(i)
    BY <1>7, <2>1, Zenon DEF LifeStatus, LifeBudget
  <2> QED BY <1>2, <2>1, <2>2, Zenon DEF Lifecycle!JobStep
<1> QED BY <1>4, <1>5, <1>6, <1>7, Zenon

(* Whatever the interleaving, the queue implements JobLifecycle. *)
THEOREM QueueImplementsLifecycle == Spec => ImplementsLifecycle
<1>1. Init => Lifecycle!JobInit
  <2>1. SUFFICES ASSUME Init PROVE Lifecycle!JobInit
    OBVIOUS
  <2>2. DOMAIN live = {} /\ DOMAIN settled = {} /\ claims = {}
    BY <2>1 DEF Init, EmptyTable
  <2>3. \A i : LifeStatus(i) = "none" /\ {c.attempt : c \in ClaimsOf(i)} = {}
    BY <2>2 DEF LifeStatus, ClaimsOf
  <2> QED BY <2>2, <2>3, Zenon DEF Lifecycle!JobInit
<1>2. QueueInv /\ QueueInv' /\ [Next]_vars => [Lifecycle!JobNext]_(Lifecycle!jvars)
  <2>1. SUFFICES ASSUME QueueInv, QueueInv', [Next]_vars PROVE Lifecycle!JobNext
    BY Zenon
  <2>2. \A i : Lifecycle!JobStep(LifeStatus(i), Tokens(i), LifeBudget(i),
                                 LifeStatus(i)', Tokens(i)', LifeBudget(i)')
    BY <2>1, JobMoves, Zenon
  <2> QED BY <2>2, Zenon DEF Lifecycle!JobNext, Tokens, LifeBudget
<1> QED BY <1>1, <1>2, Invariance, PTL DEF Spec, ImplementsLifecycle, Lifecycle!JobSpec

============================================================================

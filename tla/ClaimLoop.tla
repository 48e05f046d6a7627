----------------------------- MODULE ClaimLoop -----------------------------
(***************************************************************************)
(* A blocking consumer of one queue: claim, and when nothing is claimable  *)
(* ask honker_queue_next_claim_at how long to sleep, then wait for a commit*)
(* wake or that deadline.  ClaimWaker::next of honker-rs (idle_poll =      *)
(* FALSE) and _WorkerQueueIter of the Python package, which also wakes     *)
(* every idle_poll_s (idle_poll = TRUE), composed with every other user of *)
(* the queue and with the update watcher.                                  *)
(*                                                                         *)
(* The watcher is the abstraction of PollWatcher: a commit is noticed some *)
(* time after it happened and leaves one tick in the subscriber's channel, *)
(* which holds at most one.                                                *)
(***************************************************************************)
EXTENDS Queue

CONSTANTS
    Name,           \* the queue it consumes
    Me,             \* its worker id
    IdlePolls       \* the consumers considered: with an idle poll, without

ASSUME ClaimLoopAssumption ==
    /\ Name \in Queues /\ Me \in Workers /\ IdlePolls \subseteq BOOLEAN
    /\ 1 \in BatchSizes /\ 0 \in Lags    \* its claims are among the workers'

VARIABLES
    idle_poll,      \* whether the consumer polls when idle; never changes
    pc,             \* "claim", "ask", "wait" or "busy" (a job was returned)
    until,          \* the deadline it sleeps to, 0 for none
    unseen,         \* a commit the watcher has not noticed yet
    tick            \* a tick in the subscriber's channel

lvars == <<vars, idle_poll, pc, until, unseen, tick>>

LoopInit ==
    /\ Init
    /\ idle_poll \in IdlePolls
    /\ pc = "claim"
    /\ until = 0
    /\ unseen = FALSE
    /\ tick = FALSE

(* A commit that changes a page advances data_version. *)
Commit == unseen' = (unseen \/ <<live, dead>>' # <<live, dead>>)

(* honker_claim_batch(name, worker, 1, visibility_timeout_s) *)
Claim1 ==
    /\ pc = "claim"
    /\ \E timeout \in Timeouts : claim_batch(Name, Me, 0, 1, timeout)
    /\ pc' = IF claims' # claims THEN "busy" ELSE "ask"
    /\ Commit
    /\ UNCHANGED <<until, tick, idle_poll>>

(* The handler ran, or crashed; the caller asks for the next job. *)
Again ==
    /\ pc = "busy"
    /\ pc' = "claim"
    /\ UNCHANGED <<vars, until, unseen, tick, idle_poll>>

Ask ==
    /\ pc = "ask"
    /\ until' = queue_next_claim_at(Name)
    /\ pc' = IF until' > 0 /\ until' <= now THEN "claim" ELSE "wait"
    /\ UNCHANGED <<vars, unseen, tick, idle_poll>>

(* recv_until, or asyncio.wait_for on the update iterator *)
MutantWoken == pc = "wait" /\ tick

Woken ==
    /\ pc = "wait"
    /\ \/ tick
       \/ until > 0 /\ now >= until
       \/ idle_poll

Wake ==
    /\ Woken
    /\ pc' = "claim"
    /\ tick' = FALSE
    /\ UNCHANGED <<vars, until, unseen, idle_poll>>

Notice ==
    /\ unseen
    /\ unseen' = FALSE
    /\ tick' = TRUE
    /\ UNCHANGED <<vars, pc, until, idle_poll>>

(* Everyone else: producers, other workers, late handlers, the clock. *)
Others == Next /\ Commit /\ UNCHANGED <<pc, until, tick, idle_poll>>

LoopNext == Claim1 \/ Again \/ Ask \/ Wake \/ Notice \/ Others

(* The consumer's thread and the watcher's thread keep running. *)
LoopSpec ==
    /\ LoopInit
    /\ [][LoopNext]_lvars
    /\ WF_lvars(Again)
    /\ WF_lvars(Ask)
    /\ WF_lvars(Wake)
    /\ WF_lvars(Notice)
    /\ []<>(pc # "claim") \/ []<><<Claim1>>_lvars

----------------------------------------------------------------------------
(* Row i could be handed out by a claim made now. *)
Claimable(i) ==
    /\ i \in DOMAIN live
    /\ live[i].queue = Name
    /\ Due(i)
    /\ live[i].attempts < live[i].max_attempts
    /\ ~Expired(live[i], now)

(* "Block until a job is claimable, then claim and return it": a job that  *)
(* is claimable does not stay so while the consumer sleeps                 *)
(* (ClaimWaker::next).                                                     *)
ClaimableIsTaken == \A i \in 1 .. MaxJobs : Claimable(i) ~> ~Claimable(i)

(* Claimable, and not a lapsed lease, unless the consumer polls when idle. *)
Offered(i) == Claimable(i) /\ (idle_poll \/ live[i].state # "processing")

(* A due job does not stay so while the consumer sleeps, and with an idle  *)
(* poll neither does a lapsed lease.  Commits that land between the claim, *)
(* the question and the wait must not be lost, nor deadlines that pass     *)
(* with no commit.                                                         *)
OfferedIsTaken == \A i \in 1 .. MaxJobs : Offered(i) ~> ~Offered(i)

(* The consumer never sleeps past a due job with nothing on its way to wake*)
(* it: no tick, no commit to be noticed, no deadline reached.              *)
NeverSleepsThrough ==
    pc = "wait" /\ (\E i \in DOMAIN live : Offered(i)) =>
        tick \/ unseen \/ Woken
=============================================================================

--------------------------- MODULE JobLifecycle ---------------------------
(***************************************************************************)
(* What the honker queue promises about one job, with the tables, leases,  *)
(* clocks and housekeeping left out.  A job is enqueued with a budget, is  *)
(* handed to handlers with the tokens 1, 2, ... up to its budget, and      *)
(* leaves the queue once: acknowledged, dead-lettered or cancelled.  An    *)
(* operation may advance several jobs at once (a claim takes a batch), but *)
(* each of them by one step.                                               *)
(***************************************************************************)
EXTENDS Integers

CONSTANT Jobs

VARIABLES
    status,     \* where each job is in its life
    issued,     \* the tokens handed out for it
    budget      \* max_attempts while it is queued, 0 before and after

jvars == <<status, issued, budget>>

Queued == {"waiting", "running"}
Final == {"acked", "dead", "cancelled"}

JobInit ==
    /\ status = [j \in Jobs |-> "none"]
    /\ issued = [j \in Jobs |-> {}]
    /\ budget = [j \in Jobs |-> 0]

(* The values of job j before the step are s, toks, b; after it s2, toks2, *)
(* b2.                                                                     *)
Enqueued(s, toks, b, s2, toks2, b2) ==
    s = "none" /\ s2 = "waiting" /\ toks2 = toks /\ b2 \in Nat \ {0}

HandedOut(s, toks, b, s2, toks2, b2) ==
    /\ s \in Queued
    /\ s2 = "running"
    /\ b2 = b
    /\ \E a \in 1 .. b : toks = 1 .. (a - 1) /\ toks2 = 1 .. a

(* Put back for another attempt; a job that used its budget is not. *)
PutBack(s, toks, b, s2, toks2, b2) ==
    s = "running" /\ s2 = "waiting" /\ toks2 = toks /\ b2 = b /\ toks # 1 .. b

(* Only a job someone runs is acknowledged. *)
Left(s, toks, b, s2, toks2, b2) ==
    /\ s \in Queued
    /\ s2 \in Final
    /\ s2 = "acked" => s = "running"
    /\ toks2 = toks
    /\ b2 = 0

JobStep(s, toks, b, s2, toks2, b2) ==
    \/ s2 = s /\ toks2 = toks /\ b2 = b
    \/ Enqueued(s, toks, b, s2, toks2, b2)
    \/ HandedOut(s, toks, b, s2, toks2, b2)
    \/ PutBack(s, toks, b, s2, toks2, b2)
    \/ Left(s, toks, b, s2, toks2, b2)

JobNext ==
    \A j \in Jobs : JobStep(status[j], issued[j], budget[j],
                            status'[j], issued'[j], budget'[j])

JobSpec == JobInit /\ [][JobNext]_jvars
=============================================================================

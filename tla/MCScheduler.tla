----------------------------- MODULE MCScheduler -----------------------------
(***************************************************************************)
(* The leaders, on schedules whose boundaries Scheduler takes for granted, *)
(* and the search of Cron that computes boundaries.  They share no state   *)
(* and are checked side by side: `part` is which of the two a behaviour is *)
(* about.                                                                  *)
(***************************************************************************)
EXTENDS Scheduler, MCCron

VARIABLE part

(* Nobody leads, nothing is searched for *)
NoLeaders ==
    /\ now = MaxTime
    /\ lock = NULL
    /\ written = [o \in Owners |-> 0]
    /\ role = [o \in Owners |-> "scheduler"]
    /\ pc = [o \in Owners |-> "ended"]
    /\ tasks = [n \in Names |-> NULL]
    /\ until = [o \in Owners |-> 0]
    /\ woken = [o \in Owners |-> FALSE]
    /\ since = [n \in Names |-> 0]
    /\ fired = [n \in Names |-> {}]

NoSearch ==
    /\ sched = CHOOSE s \in Schedules : TRUE
    /\ zone = CHOOSE z \in [gap : Gaps, fold : Folds] : TRUE
    /\ from_unix = Min(Froms)
    /\ cand = 0
    /\ phase = "failed"

MCInit ==
    \/ part = "leaders" /\ Init /\ NoSearch
    \/ part = "search" /\ CronInit /\ NoLeaders

MCNext ==
    /\ UNCHANGED part
    /\ \/ part = "leaders" /\ Next /\ UNCHANGED cronvars
       \/ part = "search" /\ CronNext /\ UNCHANGED vars

MCSpec ==
    /\ MCInit
    /\ [][MCNext]_<<part, vars, cronvars>>
    /\ Fairness
    /\ WF_cronvars(part = "search" /\ CronNext)
=============================================================================

------------------------------- MODULE Calls -------------------------------
(***************************************************************************)
(* The threads of a process that share one Database object of a binding,   *)
(* and how far its close() is.  Writer and Readers extend this module.     *)
(***************************************************************************)
EXTENDS FiniteSets

CONSTANT Threads

ASSUME CallsAssumption == IsFiniteSet(Threads)

VARIABLES
    pc,             \* per thread, where it is
    closes          \* the step of close() that was done last

Goto(t, step) == pc' = [pc EXCEPT ![t] = step]
At(S) == {t \in Threads : pc[t] \in S}

(* notify_one: some sleeping thread, if there is one, runs again. *)
GotoAndNotify(t, step, asleep, awake) ==
    IF At({asleep}) = {} THEN Goto(t, step)
    ELSE \E w \in At({asleep}) : pc' = [pc EXCEPT ![t] = step, ![w] = awake]

NotifyAll(asleep, awake) ==
    pc' = [t \in Threads |-> IF pc[t] = asleep THEN awake ELSE pc[t]]

(* close() is idempotent and may be called again. *)
Closing(before, after) == closes = before /\ closes' = after
=============================================================================

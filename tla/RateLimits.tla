----------------------------- MODULE RateLimits -----------------------------
(***************************************************************************)
(* Fixed-window rate limits: rate_limit_try reads the window of the clock  *)
(* and then counts in it, with whatever the wait for the write lock takes  *)
(* in between, and rate_limit_sweep deletes old windows.  One name.        *)
(***************************************************************************)
EXTENDS Integers

CONSTANTS
    Callers,
    PER, MAX_CALLS, \* per and limit
    OlderThans,     \* arguments of rate_limit_sweep
    LOCK_WAIT,      \* bound: seconds a statement may wait for the write lock
    MaxSwept,       \* bound: calls of a window that sweeps forget too early
    MaxClock        \* bound: last value of the clock

ASSUME RateAssumption ==
    /\ {PER, MAX_CALLS} \subseteq Nat \ {0}
    /\ OlderThans \subseteq Int
    /\ {LOCK_WAIT, MaxSwept, MaxClock} \subseteq Nat

VARIABLES
    clock,
    counts,         \* _honker_rate_limits: window_start -> count, 0 without a row
    call,           \* per caller: the window it read, or -1
    asked,          \* per caller: when it read the window
    grants,         \* history: calls that returned 1, per window
    swept           \* history: those a sweep forgot while the window was in use

rvars == <<clock, counts, call, asked, grants, swept>>

Starts == {w \in 0 .. MaxClock : w % PER = 0}

RateInit ==
    /\ clock = 0
    /\ counts = [w \in Starts |-> 0]
    /\ call = [c \in Callers |-> -1]
    /\ asked = [c \in Callers |-> 0]
    /\ grants = [w \in Starts |-> 0]
    /\ swept = [w \in Starts |-> 0]

(* SQLite gives up waiting after the busy timeout. *)
seconds_pass ==
    /\ clock < MaxClock
    /\ \A c \in Callers : call[c] # -1 => clock < asked[c] + LOCK_WAIT
    /\ clock' = clock + 1
    /\ UNCHANGED <<counts, call, asked, grants, swept>>

read_window(c) ==
    /\ call[c] = -1
    /\ call' = [call EXCEPT ![c] = (clock \div PER) * PER]
    /\ asked' = [asked EXCEPT ![c] = clock]
    /\ UNCHANGED <<clock, counts, grants, swept>>

MutantFits(w) == counts[w] <= MAX_CALLS

(* The upsert changes a row: a first call, or count < limit. *)
Fits(w) == counts[w] = 0 \/ counts[w] < MAX_CALLS

rate_limit_try(c) ==
    /\ call[c] # -1
    /\ LET w == call[c]
       IN  IF Fits(w) THEN /\ counts' = [counts EXCEPT ![w] = @ + 1]
                           /\ grants' = [grants EXCEPT ![w] = @ + 1]
                      ELSE UNCHANGED <<counts, grants>>
    /\ call' = [call EXCEPT ![c] = -1]
    /\ asked' = [asked EXCEPT ![c] = 0]
    /\ UNCHANGED <<clock, swept>>

(* A call may still count in the window. *)
InUse(w) == clock < w + PER + LOCK_WAIT

(* The caller chooses the age, whatever `per` is. *)
rate_limit_sweep(older_than) ==
    /\ LET old(w) == w < clock - older_than
       IN  /\ counts' = [w \in Starts |-> IF old(w) THEN 0 ELSE counts[w]]
           /\ swept' = [w \in Starts |-> IF old(w) /\ InUse(w) THEN swept[w] + counts[w]
                                                             ELSE swept[w]]
    /\ counts' # counts
    /\ \A w \in Starts : swept'[w] <= MaxSwept
    /\ UNCHANGED <<clock, call, asked, grants>>

RateStep ==
    \/ seconds_pass
    \/ \E c \in Callers : read_window(c) \/ rate_limit_try(c)
    \/ \E older_than \in OlderThans : rate_limit_sweep(older_than)
=============================================================================

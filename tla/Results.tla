------------------------------ MODULE Results ------------------------------
(***************************************************************************)
(* Task results: _honker_results, rows with an optional time to live.      *)
(***************************************************************************)
EXTENDS Integers

CONSTANTS
    NULL,
    Jobs, Values,
    Ttls,           \* arguments of result_save; 0 and less mean no expiry
    MaxNow          \* bound: last value of the clock

ResultRow == [value : Values, expires_at : Int \cup {NULL}]
Promise == [value : Values, at : Int, ttl : Ttls]

ASSUME ResultsAssumption ==
    /\ Ttls \subseteq Int /\ MaxNow \in Nat
    /\ NULL \notin Int /\ NULL \notin ResultRow /\ NULL \notin Promise

VARIABLES
    now,
    results,        \* _honker_results: job -> [value, expires_at], or NULL
    promised        \* history: what the last result_save asked for

resvars == <<now, results, promised>>

ResultsInit ==
    /\ now = 0
    /\ results = [j \in Jobs |-> NULL]
    /\ promised = [j \in Jobs |-> NULL]

time_passes ==
    /\ now < MaxNow
    /\ now' = now + 1
    /\ UNCHANGED <<results, promised>>

MutantSaved(j, value, ttl) ==
    IF ttl > 0 THEN [value |-> value, expires_at |-> now + ttl]
    ELSE IF results[j] = NULL THEN [value |-> value, expires_at |-> NULL]
    ELSE [results[j] EXCEPT !.value = value]

(* The upsert replaces the value and the expiry. *)
Saved(j, value, ttl) ==
    [value |-> value, expires_at |-> IF ttl > 0 THEN now + ttl ELSE NULL]

result_save(j, value, ttl) ==
    /\ results' = [results EXCEPT ![j] = Saved(j, value, ttl)]
    /\ promised' = [promised EXCEPT ![j] = [value |-> value, at |-> now, ttl |-> ttl]]
    /\ UNCHANGED now

Expired(row) == row.expires_at # NULL /\ row.expires_at <= now

(* Reads only; the clock is read after the row, which only makes it stricter. *)
result_get(j) ==
    IF results[j] = NULL THEN NULL
    ELSE IF Expired(results[j]) THEN NULL ELSE results[j].value

result_sweep ==
    /\ results' = [j \in Jobs |-> IF results[j] # NULL /\ Expired(results[j])
                                  THEN NULL ELSE results[j]]
    /\ results' # results
    /\ UNCHANGED <<now, promised>>

ResultStep ==
    \/ time_passes
    \/ \E j \in Jobs, value \in Values, ttl \in Ttls : result_save(j, value, ttl)
    \/ result_sweep
=============================================================================

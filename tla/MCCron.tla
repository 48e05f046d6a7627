------------------------------- MODULE MCCron -------------------------------
(* A small calendar and clock for TLC; the .cfg files give the other constants. *)
EXTENDS Cron

(* Years of two months, of two days each: month 2 of an even year has three. *)
Calendar ==
    [n \in 0 .. LAST_DAY |->
       LET odd == IF n % 9 >= 5 THEN 1 ELSE 0
           day == (n % 9) - 5 * odd
       IN  [year  |-> 2 * (n \div 9) + odd,
            month |-> IF day < 2 THEN 1 ELSE 2,
            day   |-> IF day < 2 THEN day + 1 ELSE day - 1]]

(* Fields as people write them: `*`, a value, a list, a step, a mistake *)
FieldTexts(lo, hi) ==
    LET part(start, end, step) == [start |-> start, end |-> end, step |-> step]
    IN  {{part(lo, hi, 1)}, {part(lo, hi, 2)}, {part(lo, hi, 0)}, {part(hi, hi + 1, 1)},
         {part(lo, lo, 1), part(hi, hi, 1)}}
          \cup {{part(v, v, 1)} : v \in lo .. hi}
=============================================================================

----------------------------- MODULE CronProofs -----------------------------
(***************************************************************************)
(* The search of Cron is right for every expression, calendar, clock and   *)
(* zone: no skip over months, days, hours, minutes or seconds passes over  *)
(* a match, and no date it constructs is missing from the calendar.        *)
(***************************************************************************)
EXTENDS Cron, WellFoundedInduction, TLAPS

----------------------------------------------------------------------------
(* Division *)

LEMMA DivMod ==
  ASSUME NEW a \in Nat, NEW d \in Nat \ {0}
  PROVE  /\ a \div d \in Nat /\ a % d \in Nat /\ a % d < d
         /\ a = (a \div d) * d + (a % d)
  OBVIOUS

LEMMA DivUnique ==
  ASSUME NEW q \in Nat, NEW d \in Nat \ {0}, NEW r \in Nat, r < d
  PROVE  (q * d + r) \div d = q /\ (q * d + r) % d = r
  OBVIOUS

LEMMA Remainder ==
  ASSUME NEW q \in Nat, NEW d \in Nat \ {0}, NEW j \in Nat, q * d <= j, j < q * d + d
  PROVE  j \div d = q /\ j % d = j - q * d
  <1> DEFINE r == j - q * d
  <1>1. r \in Nat /\ r < d /\ q * d + r = j
    OBVIOUS
  <1> HIDE DEF r
  <1>2. (q * d + r) \div d = q /\ (q * d + r) % d = r
    BY <1>1, DivUnique, Zenon
  <1> QED
    BY <1>1, <1>2 DEF r

LEMMA DivDiv ==
  ASSUME NEW a \in Nat, NEW d \in Nat \ {0}, NEW e \in Nat \ {0}
  PROVE  a \div (d * e) = (a \div d) \div e
  OBVIOUS

LEMMA DivMonotone ==
  ASSUME NEW a \in Nat, NEW b \in Nat, NEW d \in Nat \ {0}
  PROVE  /\ a <= b => a \div d <= b \div d
         /\ a <= b + 1 => a \div d <= (b \div d) + 1
         /\ a < b * d => a \div d < b
  OBVIOUS

LEMMA MultNat ==
  ASSUME NEW a \in Nat, NEW b \in Nat
  PROVE  a * b \in Nat
  OBVIOUS

(* The least of a set of numbers *)
LEMMA LeastExists ==
  ASSUME NEW T, T \subseteq Nat, T # {}
  PROVE  \E x \in T : \A y \in T : x <= y
  <1>1. PICK x \in T : \A y \in T : ~(<<y, x>> \in OpToRel(<, Nat))
    BY NatLessThanWellFounded, WFMin
  <1>2. ASSUME NEW y \in T
        PROVE  x <= y
    <2>1. <<y, x>> \in OpToRel(<, Nat) <=> y < x
      BY DEF OpToRel
    <2>2. ~(y < x)
      BY <1>1, <2>1, Zenon
    <2> QED
      BY <2>2
  <1> QED
    BY <1>2

LEMMA MinIsLeast ==
  ASSUME NEW T, T \subseteq Nat, T # {}
  PROVE  Min(T) \in T /\ \A y \in T : Min(T) <= y
  BY LeastExists, Zenon DEF Min

----------------------------------------------------------------------------
(* A field of the clock and the count it is the remainder of *)

(* next_or_first: the least value not yet passed, the least one if all are *)
LEMMA NextOrFirstIs ==
  ASSUME NEW set, set \subseteq Nat, set # {}, NEW r \in Nat, r \notin set
  PROVE  /\ NextOrFirst(set, r) \in set
         /\ Wraps(set, r) => \A v \in set : NextOrFirst(set, r) <= v /\ v < r
         /\ ~Wraps(set, r) => /\ r < NextOrFirst(set, r)
                              /\ \A v \in set : r <= v => NextOrFirst(set, r) <= v
  <1>1. CASE Wraps(set, r)
    <2>1. NextOrFirst(set, r) = Min(set)
      BY <1>1 DEF NextOrFirst
    <2>2. Min(set) \in set /\ \A v \in set : Min(set) <= v
      BY MinIsLeast, Zenon
    <2>3. \A v \in set : v < r
      BY <1>1 DEF Wraps
    <2> QED
      BY <1>1, <2>1, <2>2, <2>3, Zenon
  <1>2. CASE ~Wraps(set, r)
    <2> DEFINE later == {v \in set : v >= r}
               least == Min(later)
    <2>1. later \subseteq Nat /\ later # {}
      <3>1. PICK v \in set : ~(v < r)
        BY <1>2 DEF Wraps
      <3>2. v >= r
        BY <3>1
      <3> QED
        BY <3>2, Zenon
    <2>2. least \in later /\ \A v \in later : least <= v
      BY <2>1, MinIsLeast
    <2>3. NextOrFirst(set, r) = least
      BY <1>2 DEF NextOrFirst
    <2> HIDE DEF least
    <2>4. least \in set /\ r < least /\ \A v \in set : r <= v => least <= v
      BY <2>2
    <2> QED
      BY <1>2, <2>3, <2>4, Zenon
  <1> QED
    BY <1>1, <1>2

(* How far it moves on, the carry of a wrap included *)
Reach(set, base, r) == NextOrFirst(set, r) + IF Wraps(set, r) THEN base ELSE 0

(* It passes over no value of the field, in this round or in the next.     *)
LEMMA ReachPasses ==
  ASSUME NEW base \in Nat \ {0}, NEW set, set \subseteq Nat, \A v \in set : v < base,
         set # {}, NEW r \in Nat, r < base, r \notin set
  PROVE  /\ Reach(set, base, r) \in Nat
         /\ r < Reach(set, base, r) /\ Reach(set, base, r) < base + base
         /\ \A i \in Nat : /\ r <= i /\ i < Reach(set, base, r) => i \notin set
                           /\ base + i < Reach(set, base, r) => i \notin set
  <1> DEFINE next == NextOrFirst(set, r)
  <1>1. /\ next \in set
        /\ Wraps(set, r) => \A v \in set : next <= v /\ v < r
        /\ ~Wraps(set, r) => r < next /\ \A v \in set : r <= v => next <= v
    BY NextOrFirstIs, Zenon
  <1>2. Wraps(set, r) => Reach(set, base, r) = next + base
    BY DEF Reach
  <1>3. ~Wraps(set, r) => Reach(set, base, r) = next + 0
    BY DEF Reach
  <1> HIDE DEF next
  <1>4. next \in Nat /\ next < base
    BY <1>1
  <1>5. CASE Wraps(set, r)
    <2>1. ASSUME NEW i \in set
          PROVE  next <= i /\ i < r /\ i \in Nat
      BY <1>1, <1>5
    <2> QED
      BY <1>2, <1>4, <1>5, <2>1
  <1>6. CASE ~Wraps(set, r)
    BY <1>1, <1>3, <1>4, <1>6
  <1> QED
    BY <1>5, <1>6

(* The least count from k on whose remainder is in the set of a field *)
Advance(set, base, k) == (k \div base) * base + Reach(set, base, k % base)

(* It carries at most once, and every count it passes over is no match.    *)
LEMMA AdvancePasses ==
  ASSUME NEW base \in Nat \ {0}, NEW set, set \subseteq 0 .. base - 1, set # {},
         NEW k \in Nat, k % base \notin set
  PROVE  /\ Advance(set, base, k) \in Nat /\ Advance(set, base, k) > k
         /\ Advance(set, base, k) \div base <= (k \div base) + 1
         /\ \A j \in k .. Advance(set, base, k) - 1 : j % base \notin set
  <1> DEFINE q == k \div base
             r == k % base
             c == q * base
             n == Reach(set, base, r)
  <1>1. q \in Nat /\ r \in Nat /\ r < base /\ k = c + r
    BY DivMod
  <1>2. set \subseteq Nat /\ (\A v \in set : v < base)
    OBVIOUS
  <1>3. c \in Nat /\ (q + 1) * base = c + base
    BY <1>1, MultNat
  <1>4. /\ n \in Nat /\ r < n /\ n < base + base
        /\ \A i \in Nat : /\ r <= i /\ i < n => i \notin set
                          /\ base + i < n => i \notin set
    BY <1>1, <1>2, ReachPasses, Zenon
  <1>5. Advance(set, base, k) = c + n
    BY DEF Advance
  <1>6. ASSUME NEW j \in Nat, c <= j, j < c + base
        PROVE  j \div base = q /\ j % base = j - c
    BY <1>1, <1>6, Remainder, Zenon
  <1>7. ASSUME NEW j \in Nat, c + base <= j, j < c + base + base
        PROVE  j \div base = q + 1 /\ j % base = j - (c + base)
    <2>1. q + 1 \in Nat /\ (q + 1) * base = c + base
      BY <1>1, <1>3
    <2>2. (q + 1) * base <= j /\ j < (q + 1) * base + base
      BY <1>7, <2>1
    <2>3. j \div base = q + 1 /\ j % base = j - (q + 1) * base
      BY <2>1, <2>2, Remainder, Zenon
    <2> QED
      BY <2>1, <2>3
  <1> HIDE DEF q, r, c, n
  <1>8. ASSUME NEW j \in Nat, k <= j, j < c + n
        PROVE  j % base \notin set
    <2>1. CASE j < c + base
      <3>1. j % base = j - c
        <4>1. c <= j
          BY <1>1, <1>3, <1>8
        <4> QED
          BY <1>6, <2>1, <4>1, Zenon
      <3>2. j - c \in Nat /\ r <= j - c /\ j - c < n
        BY <1>1, <1>3, <1>4, <1>8
      <3> QED
        BY <1>4, <3>1, <3>2, Zenon
    <2>2. CASE ~(j < c + base)
      <3>1. j % base = j - (c + base)
        <4>1. c + base <= j /\ j < c + base + base
          BY <1>3, <1>4, <1>8, <2>2
        <4> QED
          BY <1>7, <4>1, Zenon
      <3>2. j - (c + base) \in Nat /\ base + (j - (c + base)) < n
        BY <1>3, <1>4, <1>8, <2>2
      <3> QED
        BY <1>4, <3>1, <3>2, Zenon
    <2> QED
      BY <2>1, <2>2
  <1>9. (c + n) \div base <= q + 1
    <2>1. CASE n < base
      <3>1. c + n \in Nat /\ c <= c + n /\ c + n < c + base
        BY <1>3, <1>4, <2>1
      <3>2. (c + n) \div base = q
        BY <1>6, <3>1, Zenon
      <3> QED
        BY <1>1, <3>2
    <2>2. CASE ~(n < base)
      <3>1. c + n \in Nat /\ c + base <= c + n /\ c + n < c + base + base
        BY <1>3, <1>4, <2>2
      <3>2. (c + n) \div base = q + 1
        BY <1>7, <3>1, Zenon
      <3> QED
        BY <1>1, <3>2
    <2> QED
      BY <2>1, <2>2
  <1>10. c + n \in Nat /\ c + n > k
    BY <1>1, <1>3, <1>4
  <1>11. \A j \in k .. (c + n) - 1 : j \in Nat /\ k <= j /\ j < c + n
    BY <1>10
  <1> QED
    BY <1>5, <1>8, <1>9, <1>10, <1>11, Zenon DEF q

----------------------------------------------------------------------------
(* The clock *)

(* Minutes and hours since day 0 *)
Mins(t) == t \div SECONDS
Hrs(t) == Mins(t) \div MINUTES

LEMMA Units == {SECONDS, MINUTES, HOURS} \subseteq Nat \ {0}
  BY UnitsAssumption

LEMMA Bounds ==
  /\ LAST_DAY \in Nat /\ CAP_YEARS \in Nat /\ SHIFT \in Nat /\ MONTHS \in Nat /\ DAYS \in Nat
  /\ Gaps \subseteq Nat /\ Folds \subseteq Nat /\ Froms \subseteq Nat
  BY UnitsAssumption

LEMMA Clock ==
  ASSUME NEW t \in Nat
  PROVE  /\ Mins(t) \in Nat /\ Hrs(t) \in Nat /\ DayOf(t) \in Nat
         /\ Minute(t) = Mins(t) % MINUTES
         /\ Hour(t) = Hrs(t) % HOURS /\ DayOf(t) = Hrs(t) \div HOURS
  <1>1. SECONDS * MINUTES \in Nat \ {0}
    BY Units
  <1>2. Mins(t) \in Nat /\ Hrs(t) \in Nat
    BY Units, DivMod DEF Mins, Hrs
  <1>3. t \div (SECONDS * MINUTES) = Hrs(t)
    BY Units, DivDiv DEF Mins, Hrs
  <1>4. t \div (SECONDS * MINUTES * HOURS) = (t \div (SECONDS * MINUTES)) \div HOURS
    BY <1>1, Units, DivDiv
  <1>5. Hrs(t) \div HOURS \in Nat
    BY <1>2, Units, DivMod
  <1> QED
    BY <1>2, <1>3, <1>4, <1>5 DEF Minute, Hour, DayOf, Mins

(* The counts of a datetime made of its parts *)
LEMMA StartOfMinute ==
  ASSUME NEW n \in Nat
  PROVE  n * SECONDS \in Nat /\ Mins(n * SECONDS) = n
  <1>1. (n * SECONDS + 0) \div SECONDS = n
    <2>1. SECONDS \in Nat \ {0} /\ 0 \in Nat /\ 0 < SECONDS
      BY Units
    <2> QED
      BY <2>1, DivUnique, Zenon
  <1>2. n * SECONDS \in Nat /\ n * SECONDS + 0 = n * SECONDS
    BY Units
  <1> QED
    BY <1>1, <1>2 DEF Mins

LEMMA StartOfHour ==
  ASSUME NEW n \in Nat
  PROVE  n * MINUTES * SECONDS \in Nat /\ Hrs(n * MINUTES * SECONDS) = n
  <1>1. (n * MINUTES + 0) \div MINUTES = n
    <2>1. MINUTES \in Nat \ {0} /\ 0 \in Nat /\ 0 < MINUTES
      BY Units
    <2> QED
      BY <2>1, DivUnique, Zenon
  <1>2. n * MINUTES \in Nat /\ n * MINUTES + 0 = n * MINUTES
    BY Units
  <1>3. (n * MINUTES) * SECONDS \in Nat /\ Mins((n * MINUTES) * SECONDS) = n * MINUTES
    BY <1>2, StartOfMinute
  <1> QED
    BY <1>1, <1>2, <1>3 DEF Hrs

LEMMA StartOfDay ==
  ASSUME NEW n \in Nat
  PROVE  n * HOURS * MINUTES * SECONDS \in Nat /\ DayOf(n * HOURS * MINUTES * SECONDS) = n
  <1>1. (n * HOURS + 0) \div HOURS = n
    <2>1. HOURS \in Nat \ {0} /\ 0 \in Nat /\ 0 < HOURS
      BY Units
    <2> QED
      BY <2>1, DivUnique, Zenon
  <1>2. n * HOURS \in Nat /\ n * HOURS + 0 = n * HOURS
    BY Units
  <1>3. /\ (n * HOURS) * MINUTES * SECONDS \in Nat
        /\ Hrs((n * HOURS) * MINUTES * SECONDS) = n * HOURS
    BY <1>2, StartOfHour
  <1> QED
    BY <1>1, <1>2, <1>3, Clock

(* Before the start of a minute, an hour, a day; and after *)
LEMMA CountsInOrder ==
  ASSUME NEW t \in Nat, NEW x \in Nat, t <= x
  PROVE  Mins(t) <= Mins(x) /\ Hrs(t) <= Hrs(x) /\ DayOf(t) <= DayOf(x)
  <1>1. Mins(t) \in Nat /\ Mins(x) \in Nat /\ Hrs(t) \in Nat /\ Hrs(x) \in Nat
    BY Clock
  <1>2. Mins(t) <= Mins(x)
    BY Units, DivMonotone DEF Mins
  <1>3. Hrs(t) <= Hrs(x)
    BY <1>1, <1>2, Units, DivMonotone DEF Hrs
  <1>4. Hrs(t) \div HOURS <= Hrs(x) \div HOURS
    BY <1>1, <1>3, Units, DivMonotone
  <1> QED
    BY <1>2, <1>3, <1>4, Clock

LEMMA BeforeStart ==
  ASSUME NEW n \in Nat, NEW x \in Nat
  PROVE  /\ x < n * SECONDS => Mins(x) < n
         /\ x < n * MINUTES * SECONDS => Hrs(x) < n
         /\ x < n * HOURS * MINUTES * SECONDS => DayOf(x) < n
  <1>1. n * MINUTES \in Nat /\ n * HOURS \in Nat /\ (n * HOURS) * MINUTES \in Nat
    BY Units
  <1>2. \A m \in Nat : x < m * SECONDS => Mins(x) < m
    BY Units, DivMonotone DEF Mins
  <1>3. \A m \in Nat : Mins(x) < m * MINUTES => Hrs(x) < m
    BY Units, DivMonotone, Clock, Zenon DEF Hrs
  <1>4. \A m \in Nat : Hrs(x) < m * HOURS => DayOf(x) < m
    <2>1. Hrs(x) \in Nat /\ DayOf(x) = Hrs(x) \div HOURS
      BY Clock
    <2> QED
      BY <2>1, Units, DivMonotone
  <1> QED
    BY <1>1, <1>2, <1>3, <1>4, Zenon

(* One unit more moves the larger ones by one at most. *)
LEMMA CountsCarry ==
  ASSUME NEW t \in Nat, NEW x \in Nat
  PROVE  /\ x <= t + 1 => Mins(x) <= Mins(t) + 1
         /\ Mins(x) <= Mins(t) + 1 => Hrs(x) <= Hrs(t) + 1
         /\ Hrs(x) <= Hrs(t) + 1 => DayOf(x) <= DayOf(t) + 1
  <1>1. Mins(t) \in Nat /\ Mins(x) \in Nat /\ Hrs(t) \in Nat /\ Hrs(x) \in Nat
    BY Clock
  <1>2. x <= t + 1 => Mins(x) <= Mins(t) + 1
    BY Units, DivMonotone DEF Mins
  <1>3. Mins(x) <= Mins(t) + 1 => Hrs(x) <= Hrs(t) + 1
    BY <1>1, Units, DivMonotone DEF Hrs
  <1>4. Hrs(x) <= Hrs(t) + 1 => DayOf(x) <= DayOf(t) + 1
    <2>1. Hrs(x) <= Hrs(t) + 1 => Hrs(x) \div HOURS <= (Hrs(t) \div HOURS) + 1
      BY <1>1, Units, DivMonotone
    <2> QED
      BY <2>1, Clock
  <1> QED
    BY <1>2, <1>3, <1>4

----------------------------------------------------------------------------
(* The calendar *)

(* d is an earlier date than e. *)
Earlier(d, e) ==
    \/ d.year < e.year
    \/ d.year = e.year /\ d.month < e.month
    \/ d.year = e.year /\ d.month = e.month /\ d.day < e.day

LEMMA DateFields ==
  ASSUME NEW n \in 0 .. LAST_DAY
  PROVE  /\ DateOf[n] \in Dates
         /\ DateOf[n].year \in Nat /\ DateOf[n].month \in 1 .. MONTHS /\ DateOf[n].day \in 1 .. DAYS
  <1>1. DateOf[n] \in Dates
    BY CalendarAssumption
  <1> QED
    BY <1>1 DEF Dates

LEMMA NextDate ==
  ASSUME NEW n \in Nat, n < LAST_DAY
  PROVE  LET d == DateOf[n]
             e == DateOf[n + 1]
         IN  \/ e.year = d.year /\ e.month = d.month /\ e.day = d.day + 1
             \/ e.year = d.year /\ e.month = d.month + 1 /\ e.day = 1
             \/ e.year = d.year + 1 /\ e.month = 1 /\ e.day = 1 /\ d.month = MONTHS
  <1>1. n \in 0 .. LAST_DAY /\ n \in 0 .. LAST_DAY - 1
    BY Bounds
  <1>2. DateOf[n] \in Dates /\ Follows(DateOf[n], DateOf[n + 1])
    BY <1>1, CalendarAssumption
  <1> DEFINE d == DateOf[n]
             e == DateOf[n + 1]
  <1> HIDE DEF d, e
  <1>3. d \in Dates /\ Follows(d, e)
    BY <1>2 DEF d, e
  <1>4. CASE e = [d EXCEPT !.day = @ + 1]
    BY <1>3, <1>4 DEF Dates, d, e
  <1>5. CASE e = [year |-> d.year, month |-> d.month + 1, day |-> 1]
    BY <1>5 DEF d, e
  <1>6. CASE d.month = MONTHS /\ e = [year |-> d.year + 1, month |-> 1, day |-> 1]
    BY <1>6 DEF d, e
  <1> QED
    BY <1>3, <1>4, <1>5, <1>6 DEF Follows

(* Later days have later dates. *)
LEMMA CalendarOrder ==
  ASSUME NEW m \in Nat, NEW n \in Nat, m < n, n <= LAST_DAY
  PROVE  Earlier(DateOf[m], DateOf[n])
  <1> DEFINE T == {k \in m + 1 .. LAST_DAY : ~Earlier(DateOf[m], DateOf[k])}
  <1>1. SUFFICES ASSUME ~Earlier(DateOf[m], DateOf[n]) PROVE FALSE
    OBVIOUS
  <1>2. LAST_DAY \in Nat
    BY Bounds
  <1>3. T \subseteq Nat /\ n \in T
    BY <1>1, <1>2
  <1>4. PICK k \in T : \A j \in T : k <= j
    BY <1>3, LeastExists, Zenon
  <1>5. /\ k \in Nat /\ m < k /\ k <= LAST_DAY /\ ~Earlier(DateOf[m], DateOf[k])
        /\ k - 1 \in Nat /\ k - 1 < LAST_DAY /\ (k - 1) + 1 = k
        /\ m \in 0 .. LAST_DAY /\ k - 1 \in 0 .. LAST_DAY /\ k \in 0 .. LAST_DAY
    BY <1>2, <1>4
  <1> DEFINE a == DateOf[m]
             b == DateOf[k - 1]
             c == DateOf[k]
  <1>6. /\ a.year \in Nat /\ a.month \in 1 .. MONTHS /\ a.day \in 1 .. DAYS
        /\ b.year \in Nat /\ b.month \in 1 .. MONTHS /\ b.day \in 1 .. DAYS
        /\ c.year \in Nat /\ c.month \in 1 .. MONTHS /\ c.day \in 1 .. DAYS
    BY <1>5, DateFields
  <1>7. \/ c.year = b.year /\ c.month = b.month /\ c.day = b.day + 1
        \/ c.year = b.year /\ c.month = b.month + 1 /\ c.day = 1
        \/ c.year = b.year + 1 /\ c.month = 1 /\ c.day = 1 /\ b.month = MONTHS
    BY <1>5, NextDate
  <1>8. a = b \/ Earlier(a, b)
    <2>1. CASE k - 1 = m
      BY <2>1
    <2>2. CASE k - 1 # m
      <3>1. k - 1 \in m + 1 .. LAST_DAY /\ ~(k <= k - 1)
        BY <1>5, <2>2
      <3> QED
        BY <1>4, <3>1
    <2> QED
      BY <2>1, <2>2
  <1>9. ~Earlier(a, c)
    BY <1>5
  <1> HIDE DEF a, b, c
  <1>10. MONTHS \in Nat /\ DAYS \in Nat
    BY Bounds
  <1> QED
    BY <1>6, <1>7, <1>8, <1>9, <1>10 DEF Earlier

LEMMA DayNumberIs ==
  ASSUME NEW n \in 0 .. LAST_DAY
  PROVE  DayNumber(DateOf[n]) = n
  <1> DEFINE m == DayNumber(DateOf[n])
  <1>1. m \in 0 .. LAST_DAY /\ DateOf[m] = DateOf[n]
    BY Zenon DEF DayNumber
  <1> HIDE DEF m
  <1>2. LAST_DAY \in Nat /\ m \in Nat /\ n \in Nat
    BY <1>1, Bounds
  <1>3. ~Earlier(DateOf[n], DateOf[n])
    BY DateFields DEF Earlier
  <1>4. ~(m < n) /\ ~(n < m)
    BY <1>1, <1>2, <1>3, CalendarOrder
  <1>5. m = n
    BY <1>2, <1>4
  <1> QED
    BY <1>5 DEF m

(* Every month between two dates of the calendar has its first day there.  *)
LEMMA FirstOfMonth ==
  ASSUME NEW k \in Nat, k <= LAST_DAY,
         NEW year \in Nat, year < DateOf[LAST_DAY].year, NEW month \in 1 .. MONTHS,
         Earlier(DateOf[k], [year |-> year, month |-> month, day |-> 1])
  PROVE  \E n \in Nat : /\ k < n /\ n <= LAST_DAY
                         /\ DateOf[n] = [year |-> year, month |-> month, day |-> 1]
  <1> DEFINE first == [year |-> year, month |-> month, day |-> 1]
             T == {n \in k .. LAST_DAY : ~Earlier(DateOf[n], first)}
  <1>1. LAST_DAY \in Nat /\ MONTHS \in Nat /\ DAYS \in Nat
    BY Bounds
  <1>2. first.year = year /\ first.month = month /\ first.day = 1 /\ Earlier(DateOf[k], first)
    OBVIOUS
  <1> HIDE DEF first
  <1>3. LAST_DAY \in k .. LAST_DAY /\ LAST_DAY \in 0 .. LAST_DAY /\ DateOf[LAST_DAY].year \in Nat
    BY <1>1, DateFields
  <1>4. ~Earlier(DateOf[LAST_DAY], first)
    BY <1>2, <1>3 DEF Earlier
  <1>5. T \subseteq Nat /\ T # {}
    BY <1>1, <1>3, <1>4
  <1>6. PICK n \in T : \A j \in T : n <= j
    BY <1>5, LeastExists, Zenon
  <1>7. /\ n \in Nat /\ n <= LAST_DAY /\ k <= n /\ n # k /\ ~Earlier(DateOf[n], first)
    BY <1>1, <1>2, <1>6
  <1>8. /\ n - 1 \in Nat /\ n - 1 < LAST_DAY /\ (n - 1) + 1 = n
        /\ n - 1 \in k .. LAST_DAY /\ ~(n <= n - 1)
        /\ n - 1 \in 0 .. LAST_DAY /\ n \in 0 .. LAST_DAY /\ k < n
    BY <1>1, <1>7
  <1>9. Earlier(DateOf[n - 1], first)
    BY <1>6, <1>8
  <1> DEFINE b == DateOf[n - 1]
             c == DateOf[n]
  <1>10. /\ b.year \in Nat /\ b.month \in 1 .. MONTHS /\ b.day \in 1 .. DAYS
         /\ c \in Dates
         /\ c.year \in Nat /\ c.month \in 1 .. MONTHS /\ c.day \in 1 .. DAYS
    BY <1>8, DateFields
  <1>11. \/ c.year = b.year /\ c.month = b.month /\ c.day = b.day + 1
         \/ c.year = b.year /\ c.month = b.month + 1 /\ c.day = 1
         \/ c.year = b.year + 1 /\ c.month = 1 /\ c.day = 1 /\ b.month = MONTHS
    BY <1>8, NextDate
  <1>12. Earlier(b, first) /\ ~Earlier(c, first)
    BY <1>7, <1>9
  <1> HIDE DEF b, c
  <1>13. c.year = year /\ c.month = month /\ c.day = 1
    BY <1>1, <1>2, <1>10, <1>11, <1>12 DEF Earlier
  <1>14. c = first
    BY <1>10, <1>13 DEF Dates, first
  <1> QED
    BY <1>7, <1>8, <1>14 DEF c, first

LEMMA YearsInOrder ==
  ASSUME NEW m \in Nat, NEW n \in Nat, m <= n, n <= LAST_DAY
  PROVE  DateOf[m].year <= DateOf[n].year
  <1>1. m \in 0 .. LAST_DAY /\ n \in 0 .. LAST_DAY
    BY Bounds
  <1>2. DateOf[m].year \in Nat /\ DateOf[n].year \in Nat
    BY <1>1, DateFields
  <1>3. CASE m = n
    BY <1>2, <1>3
  <1>4. CASE m < n
    <2>1. Earlier(DateOf[m], DateOf[n])
      BY <1>4, CalendarOrder
    <2> QED
      BY <1>2, <2>1 DEF Earlier
  <1> QED
    BY <1>3, <1>4

(* The starts of the hour and the day of t, and of the next day *)
LEMMA Starts ==
  ASSUME NEW t \in Nat, DayOf(t) <= LAST_DAY
  PROVE  /\ Midnight(t) = DayOf(t) * HOURS * MINUTES * SECONDS
         /\ NextDay(t) = (DayOf(t) + 1) * HOURS * MINUTES * SECONDS
         /\ HourStart(t) = Hrs(t) * MINUTES * SECONDS
  <1>1. DayOf(t) \in Nat /\ DayOf(t) \in 0 .. LAST_DAY /\ Hrs(t) \in Nat /\ Hour(t) \in Nat
    <2>1. DayOf(t) \in Nat /\ Hrs(t) \in Nat /\ Hour(t) = Hrs(t) % HOURS
      BY Clock
    <2>2. Hour(t) \in Nat
      BY <2>1, Units, DivMod
    <2> QED
      BY <2>1, <2>2, Bounds
  <1>2. DayNumber(Date(t)) = DayOf(t)
    BY <1>1, DayNumberIs DEF Date
  <1> DEFINE day == DayOf(t)
  <1>3. Hrs(t) = day * HOURS + Hour(t)
    <2>1. DayOf(t) = Hrs(t) \div HOURS /\ Hour(t) = Hrs(t) % HOURS
      BY Clock
    <2> QED
      BY <1>1, <2>1, Units, DivMod, Zenon
  <1> HIDE DEF day
  <1>4. Midnight(t) = ((day * HOURS + 0) * MINUTES + 0) * SECONDS + 0
    BY <1>2 DEF Midnight, make_dt, day
  <1>5. HourStart(t) = ((day * HOURS + Hour(t)) * MINUTES + 0) * SECONDS + 0
    BY <1>2 DEF HourStart, make_dt, day
  <1>6. /\ ((day * HOURS + 0) * MINUTES + 0) * SECONDS + 0 = day * HOURS * MINUTES * SECONDS
        /\ day * HOURS * MINUTES * SECONDS + SECONDS * MINUTES * HOURS
              = (day + 1) * HOURS * MINUTES * SECONDS
    BY <1>1, Units DEF day
  <1>7. \A n \in Nat : (n * MINUTES + 0) * SECONDS + 0 = n * MINUTES * SECONDS
    BY Units
  <1> QED
    BY <1>1, <1>3, <1>4, <1>5, <1>6, <1>7 DEF NextDay, day

----------------------------------------------------------------------------
(* Parsing *)

FieldOK(set, lo, hi) == set # {} /\ set \subseteq lo .. hi

(* A field that was not refused has values, all within its bounds. *)
LEMMA ParsedField ==
  ASSUME NEW lo \in {0, 1},
         NEW hi \in {SECONDS - 1, MINUTES - 1, HOURS - 1, DAYS, MONTHS, WEEK - 1},
         NEW set \in Field(lo, hi)
  PROVE  FieldOK(set, lo, hi)
  <1>1. PICK text \in Texts(lo, hi) : set = parse_field(text, lo, hi) /\ set # {}
    BY Zenon DEF Field
  <1>2. text \subseteq Part
    BY TextAssumption
  <1>3. hi \in Int
    BY UnitsAssumption
  <1>4. \A p \in text : ~(p.start < lo) /\ ~(p.end > hi)
    BY <1>1, Zenon DEF parse_field
  <1>5. set = UNION {{v \in p.start .. p.end : (v - p.start) % p.step = 0} : p \in text}
    BY <1>1, Zenon DEF parse_field
  <1>6. ASSUME NEW v \in set
        PROVE  v \in lo .. hi
    <2>1. PICK p \in text : v \in p.start .. p.end
      BY <1>5, Zenon
    <2>2. p.start \in Nat /\ p.end \in Nat
      BY <1>2 DEF Part
    <2> QED
      BY <1>3, <1>4, <2>1, <2>2
  <1> QED
    BY <1>1, <1>6 DEF FieldOK

----------------------------------------------------------------------------
(* The invariant of the loop *)

SchedOK ==
    /\ FieldOK(sched.seconds, 0, SECONDS - 1)
    /\ FieldOK(sched.minutes, 0, MINUTES - 1)
    /\ FieldOK(sched.hours, 0, HOURS - 1)
    /\ FieldOK(sched.months, 1, MONTHS)

Start == Local(from_unix) + 1

(* Nothing matches before t. *)
NoMatch(t) == \A x \in Start .. t - 1 : ~matches(x)

(* A datetime that the search may be at: in the calendar, not more than a  *)
(* year beyond the cap, and no match behind it                             *)
Searching(t) ==
    /\ DayOf(t) <= LAST_DAY /\ Date(t).year <= CapYear + 1
    /\ NoMatch(t)

(* t is the first match, or was moved on from it over times that do not exist. *)
Resolving(t) ==
    \E first \in Start .. t :
      /\ matches(first)
      /\ NoMatch(first)
      /\ \A x \in first .. t - 1 : from_local_datetime(x) = {}

InputsOK == SchedOK /\ zone \in [gap : Gaps, fold : Folds] /\ from_unix \in Froms

SearchInv ==
    /\ InputsOK
    /\ phase \in {"search", "zone", "found", "failed"}
    /\ cand \in Nat /\ cand >= Start
    /\ phase = "search" => Searching(cand)
    /\ phase \in {"zone", "found"} => Resolving(cand)
    /\ phase = "found" => from_local_datetime(cand) # {}
    /\ phase = "failed" => NoMatch(cand) /\ DayOf(cand) <= LAST_DAY /\ Date(cand).year > CapYear

(* The search starts inside the calendar and cannot leave it. *)
LEMMA StartsInside ==
  ASSUME InputsOK
  PROVE  /\ Local(from_unix) \in Nat /\ Start \in Nat /\ DayOf(Start) \in Nat /\ DayOf(Start) <= LAST_DAY
         /\ CapYear \in Nat /\ Date(Start).year <= CapYear
         /\ CapYear + 1 < DateOf[LAST_DAY].year
  <1> DEFINE last == from_unix + SHIFT + 1
  <1>1. from_unix \in Nat /\ SHIFT \in Nat /\ CAP_YEARS \in Nat /\ LAST_DAY \in Nat
    BY Bounds DEF InputsOK
  <1>2. Local(from_unix) \in Nat /\ Start \in Nat /\ last \in Nat /\ Start <= last
    BY <1>1 DEF Start, Local
  <1>3. DayOf(last) <= LAST_DAY /\ DateOf[DayOf(last)].year + CAP_YEARS + 1 < DateOf[LAST_DAY].year
    BY RangeAssumption DEF InputsOK
  <1> HIDE DEF last
  <1>4. DayOf(Start) \in Nat /\ DayOf(last) \in Nat /\ DayOf(Start) <= DayOf(last)
    BY <1>2, Clock, CountsInOrder
  <1>5. DayOf(Start) <= LAST_DAY /\ DayOf(Start) \in 0 .. LAST_DAY /\ DayOf(last) \in 0 .. LAST_DAY
    BY <1>1, <1>3, <1>4
  <1>6. /\ DateOf[DayOf(Start)].year \in Nat /\ DateOf[DayOf(last)].year \in Nat
        /\ DateOf[LAST_DAY].year \in Nat
        /\ DateOf[DayOf(Start)].year <= DateOf[DayOf(last)].year
    <2>1. LAST_DAY \in 0 .. LAST_DAY
      BY <1>1
    <2> QED
      BY <1>3, <1>4, <1>5, <2>1, DateFields, YearsInOrder
  <1>7. CapYear = DateOf[DayOf(Start)].year + CAP_YEARS /\ Date(Start) = DateOf[DayOf(Start)]
    BY DEF CapYear, Date, Start
  <1> QED
    BY <1>1, <1>2, <1>3, <1>4, <1>5, <1>6, <1>7

(* The day after a date within the cap is in the calendar. *)
LEMMA NextDayInside ==
  ASSUME InputsOK, NEW k \in Nat, k <= LAST_DAY, DateOf[k].year <= CapYear,
         NEW n \in Nat, n <= k + 1
  PROVE  n <= LAST_DAY /\ DateOf[n].year <= CapYear + 1
  <1>1. LAST_DAY \in Nat /\ CapYear \in Nat /\ CapYear + 1 < DateOf[LAST_DAY].year
    BY Bounds, StartsInside
  <1>2. k \in 0 .. LAST_DAY /\ LAST_DAY \in 0 .. LAST_DAY
    BY <1>1
  <1>3. DateOf[k].year \in Nat /\ DateOf[LAST_DAY].year \in Nat
    BY <1>2, DateFields
  <1>4. k # LAST_DAY
    BY <1>1, <1>3
  <1>5. k < LAST_DAY /\ k + 1 \in Nat /\ k + 1 <= LAST_DAY /\ n <= LAST_DAY
    BY <1>1, <1>4
  <1>6. DateOf[k + 1].year <= DateOf[k].year + 1
    BY <1>3, <1>5, NextDate
  <1>7. DateOf[n].year <= DateOf[k + 1].year
    BY <1>5, YearsInOrder
  <1>8. n \in 0 .. LAST_DAY /\ k + 1 \in 0 .. LAST_DAY
    BY <1>1, <1>5
  <1>9. DateOf[n].year \in Nat /\ DateOf[k + 1].year \in Nat
    BY <1>8, DateFields
  <1> QED
    BY <1>1, <1>3, <1>5, <1>6, <1>7, <1>9

(* A target of a skip: later, in the calendar, with no match on the way *)
SkipTo(t) ==
    /\ t \in Nat /\ t > cand
    /\ DayOf(t) <= LAST_DAY /\ Date(t).year <= CapYear + 1
    /\ \A x \in cand .. t - 1 : ~matches(x)

(* The loop goes on: not beyond the cap, at a datetime of the calendar *)
Loops == SearchInv /\ phase = "search" /\ Date(cand).year <= CapYear

LEMMA LoopFacts ==
  ASSUME Loops
  PROVE  /\ InputsOK /\ cand \in Nat /\ DayOf(cand) \in Nat /\ DayOf(cand) <= LAST_DAY
         /\ DateOf[DayOf(cand)].year <= CapYear
         /\ Hrs(cand) \in Nat /\ Mins(cand) \in Nat
  BY Clock DEF Loops, SearchInv, Searching, Date

(* Skips of at most a day stay in the calendar. *)
LEMMA SkipInside ==
  ASSUME Loops, NEW t \in Nat, t > cand, DayOf(t) <= DayOf(cand) + 1,
         \A x \in Nat : cand <= x /\ x < t => ~matches(x)
  PROVE  SkipTo(t)
  <1>1. DayOf(t) \in Nat
    BY Clock
  <1>2. DayOf(t) <= LAST_DAY /\ DateOf[DayOf(t)].year <= CapYear + 1
    BY <1>1, LoopFacts, NextDayInside
  <1>3. \A x \in cand .. t - 1 : x \in Nat /\ cand <= x /\ x < t
    BY LoopFacts
  <1> QED
    BY <1>2, <1>3 DEF SkipTo, Date

----------------------------------------------------------------------------
(* No skip passes over a match *)

LEMMA SecondSkip ==
  ASSUME Loops, Second(cand) \notin sched.seconds
  PROVE  SkipTo(HourStart(cand) + Minute(cand) * SECONDS
                  + NextOrFirst(sched.seconds, Second(cand))
                  + IF Wraps(sched.seconds, Second(cand)) THEN SECONDS ELSE 0)
  <1> DEFINE t == Advance(sched.seconds, SECONDS, cand)
  <1>1. sched.seconds \subseteq 0 .. SECONDS - 1 /\ sched.seconds # {} /\ SECONDS \in Nat \ {0}
    BY LoopFacts, Units DEF InputsOK, SchedOK, FieldOK
  <1>2. /\ t \in Nat /\ t > cand /\ t \div SECONDS <= (cand \div SECONDS) + 1
        /\ \A x \in cand .. t - 1 : x % SECONDS \notin sched.seconds
    BY <1>1, LoopFacts, AdvancePasses, Zenon DEF Second
  <1>3. DayOf(t) <= DayOf(cand) + 1
    BY <1>2, LoopFacts, CountsCarry DEF Mins
  <1>4. ASSUME NEW x \in Nat, cand <= x, x < t
        PROVE  ~matches(x)
    <2>1. x \in cand .. t - 1
      BY <1>2, <1>4, LoopFacts
    <2> QED
      BY <1>2, <2>1 DEF matches, Second
  <1>5. SkipTo(t)
    BY <1>2, <1>3, <1>4, SkipInside
  <1>6. HourStart(cand) + Minute(cand) * SECONDS = Mins(cand) * SECONDS
    <2>1. HourStart(cand) = Hrs(cand) * MINUTES * SECONDS
      BY LoopFacts, Starts
    <2>2. Mins(cand) = Hrs(cand) * MINUTES + Minute(cand) /\ Minute(cand) \in Nat
      BY LoopFacts, Clock, Units, DivMod, Zenon DEF Hrs
    <2> QED
      BY <2>1, <2>2, LoopFacts, Units
  <1>7. t = Mins(cand) * SECONDS + Reach(sched.seconds, SECONDS, Second(cand))
    BY DEF Advance, Mins, Second
  <1> DEFINE next == NextOrFirst(sched.seconds, Second(cand))
             carry == IF Wraps(sched.seconds, Second(cand)) THEN SECONDS ELSE 0
  <1>8. next \in Nat /\ carry \in Nat
    <2>1. Second(cand) \in Nat
      BY LoopFacts, Units, DivMod DEF Second
    <2>2. sched.seconds \subseteq Nat
      BY <1>1
    <2>3. next \in sched.seconds
      BY <1>1, <2>1, <2>2, NextOrFirstIs, Zenon
    <2> QED
      BY <1>1, <2>2, <2>3
  <1>9. t = Mins(cand) * SECONDS + (next + carry)
    BY <1>7 DEF Reach
  <1> HIDE DEF next, carry, t
  <1>10. t = HourStart(cand) + Minute(cand) * SECONDS + next + carry
    BY <1>1, <1>6, <1>8, <1>9, LoopFacts
  <1> QED
    BY <1>5, <1>10 DEF next, carry

LEMMA MinuteSkip ==
  ASSUME Loops, Minute(cand) \notin sched.minutes
  PROVE  SkipTo(HourStart(cand) + NextOrFirst(sched.minutes, Minute(cand)) * SECONDS
                  + IF Wraps(sched.minutes, Minute(cand)) THEN MINUTES * SECONDS ELSE 0)
  <1> DEFINE n == Advance(sched.minutes, MINUTES, Mins(cand))
             t == n * SECONDS
  <1>1. sched.minutes \subseteq 0 .. MINUTES - 1 /\ sched.minutes # {} /\ MINUTES \in Nat \ {0}
    BY LoopFacts, Units DEF InputsOK, SchedOK, FieldOK
  <1>2. /\ n \in Nat /\ n > Mins(cand) /\ n \div MINUTES <= Hrs(cand) + 1
        /\ \A j \in Mins(cand) .. n - 1 : j % MINUTES \notin sched.minutes
    BY <1>1, LoopFacts, Clock, AdvancePasses, Zenon DEF Hrs
  <1>3. t \in Nat /\ Mins(t) = n
    BY <1>2, StartOfMinute
  <1> HIDE DEF t
  <1>4. t > cand
    BY <1>2, <1>3, LoopFacts, CountsInOrder
  <1>5. DayOf(t) <= DayOf(cand) + 1
    <2>1. Hrs(t) <= Hrs(cand) + 1
      BY <1>2, <1>3 DEF Hrs
    <2> QED
      BY <1>3, <2>1, LoopFacts, CountsCarry
  <1>6. ASSUME NEW x \in Nat, cand <= x, x < t
        PROVE  ~matches(x)
    <2>1. Mins(x) \in Nat /\ Mins(cand) <= Mins(x) /\ Mins(x) < n
      BY <1>2, <1>6, LoopFacts, Clock, CountsInOrder, BeforeStart DEF t
    <2>2. Mins(x) \in Mins(cand) .. n - 1
      BY <1>2, <2>1, LoopFacts
    <2>3. Minute(x) \notin sched.minutes
      BY <1>2, <2>2, Clock
    <2> QED
      BY <2>3 DEF matches
  <1>7. SkipTo(t)
    BY <1>3, <1>4, <1>5, <1>6, SkipInside
  <1>8. n = Hrs(cand) * MINUTES + Reach(sched.minutes, MINUTES, Minute(cand))
    BY LoopFacts, Clock DEF Advance, Hrs
  <1>9. HourStart(cand) = Hrs(cand) * MINUTES * SECONDS
    BY LoopFacts, Starts
  <1> DEFINE next == NextOrFirst(sched.minutes, Minute(cand))
             carry == IF Wraps(sched.minutes, Minute(cand)) THEN MINUTES ELSE 0
  <1>10. next \in Nat
    <2>1. Minute(cand) \in Nat
      BY LoopFacts, Clock, Units, DivMod, Zenon
    <2>2. sched.minutes \subseteq Nat
      BY <1>1
    <2>3. next \in sched.minutes
      BY <1>1, <2>1, <2>2, NextOrFirstIs, Zenon
    <2> QED
      BY <1>1, <2>2, <2>3
  <1>11. n = Hrs(cand) * MINUTES + (next + carry)
    BY <1>8 DEF Reach
  <1>12. carry \in Nat /\ carry * SECONDS = IF Wraps(sched.minutes, Minute(cand)) THEN MINUTES * SECONDS ELSE 0
    BY <1>1, Units
  <1> HIDE DEF next, carry, n
  <1>13. t = HourStart(cand) + next * SECONDS + carry * SECONDS
    BY <1>9, <1>10, <1>11, <1>12, LoopFacts, Units DEF t
  <1> QED
    BY <1>7, <1>12, <1>13 DEF next

LEMMA HourSkip ==
  ASSUME Loops, Hour(cand) \notin sched.hours
  PROVE  SkipTo((IF Wraps(sched.hours, Hour(cand)) THEN NextDay(cand) ELSE Midnight(cand))
                  + NextOrFirst(sched.hours, Hour(cand)) * MINUTES * SECONDS)
  <1> DEFINE n == Advance(sched.hours, HOURS, Hrs(cand))
             t == n * MINUTES * SECONDS
  <1>1. sched.hours \subseteq 0 .. HOURS - 1 /\ sched.hours # {} /\ HOURS \in Nat \ {0}
    BY LoopFacts, Units DEF InputsOK, SchedOK, FieldOK
  <1>2. /\ n \in Nat /\ n > Hrs(cand) /\ n \div HOURS <= DayOf(cand) + 1
        /\ \A j \in Hrs(cand) .. n - 1 : j % HOURS \notin sched.hours
    BY <1>1, LoopFacts, Clock, AdvancePasses, Zenon
  <1>3. t \in Nat /\ Hrs(t) = n
    BY <1>2, StartOfHour
  <1> HIDE DEF t
  <1>4. t > cand
    BY <1>2, <1>3, LoopFacts, CountsInOrder
  <1>5. DayOf(t) <= DayOf(cand) + 1
    BY <1>2, <1>3, Clock
  <1>6. ASSUME NEW x \in Nat, cand <= x, x < t
        PROVE  ~matches(x)
    <2>1. Hrs(x) \in Nat /\ Hrs(cand) <= Hrs(x) /\ Hrs(x) < n
      BY <1>2, <1>6, LoopFacts, Clock, CountsInOrder, BeforeStart DEF t
    <2>2. Hrs(x) \in Hrs(cand) .. n - 1
      BY <1>2, <2>1, LoopFacts
    <2>3. Hour(x) \notin sched.hours
      BY <1>2, <2>2, Clock
    <2> QED
      BY <2>3 DEF matches
  <1>7. SkipTo(t)
    BY <1>3, <1>4, <1>5, <1>6, SkipInside
  <1>8. n = DayOf(cand) * HOURS + Reach(sched.hours, HOURS, Hour(cand))
    BY LoopFacts, Clock DEF Advance
  <1>9. /\ Midnight(cand) = DayOf(cand) * HOURS * MINUTES * SECONDS
        /\ NextDay(cand) = (DayOf(cand) + 1) * HOURS * MINUTES * SECONDS
    BY LoopFacts, Starts
  <1> DEFINE next == NextOrFirst(sched.hours, Hour(cand))
  <1>10. next \in Nat
    <2>1. Hour(cand) \in Nat
      BY LoopFacts, Clock, Units, DivMod, Zenon
    <2>2. sched.hours \subseteq Nat
      BY <1>1
    <2>3. next \in sched.hours
      BY <1>1, <2>1, <2>2, NextOrFirstIs, Zenon
    <2> QED
      BY <1>1, <2>2, <2>3
  <1>11. /\ Wraps(sched.hours, Hour(cand)) => n = DayOf(cand) * HOURS + (next + HOURS)
         /\ ~Wraps(sched.hours, Hour(cand)) => n = DayOf(cand) * HOURS + (next + 0)
    BY <1>8 DEF Reach
  <1> HIDE DEF next, n
  <1>12. CASE Wraps(sched.hours, Hour(cand))
    <2>1. t = NextDay(cand) + next * MINUTES * SECONDS
      BY <1>9, <1>10, <1>11, <1>12, LoopFacts, Units DEF t
    <2> QED
      BY <1>7, <1>12, <2>1 DEF next
  <1>13. CASE ~Wraps(sched.hours, Hour(cand))
    <2>1. t = Midnight(cand) + next * MINUTES * SECONDS
      BY <1>9, <1>10, <1>11, <1>13, LoopFacts, Units DEF t
    <2> QED
      BY <1>7, <1>13, <2>1 DEF next
  <1> QED
    BY <1>12, <1>13

LEMMA DaySkip ==
  ASSUME Loops, ~cron_day_matches(cand)
  PROVE  SkipTo(NextDay(cand))
  <1> DEFINE t == (DayOf(cand) + 1) * HOURS * MINUTES * SECONDS
  <1>1. NextDay(cand) = t
    BY LoopFacts, Starts
  <1>2. DayOf(cand) + 1 \in Nat
    BY LoopFacts
  <1>3. t \in Nat /\ DayOf(t) = DayOf(cand) + 1
    BY <1>2, StartOfDay
  <1> HIDE DEF t
  <1>4. t > cand
    BY <1>3, LoopFacts, CountsInOrder
  <1>5. ASSUME NEW x \in Nat, cand <= x, x < t
        PROVE  ~matches(x)
    <2>1. DayOf(x) \in Nat /\ DayOf(cand) <= DayOf(x) /\ DayOf(x) < DayOf(cand) + 1
      BY <1>2, <1>5, LoopFacts, Clock, CountsInOrder, BeforeStart DEF t
    <2>2. DayOf(x) = DayOf(cand)
      BY <2>1, LoopFacts
    <2> QED
      BY <2>2 DEF matches, cron_day_matches, Date, Weekday
  <1>6. DayOf(t) <= DayOf(cand) + 1
    BY <1>2, <1>3
  <1> QED
    BY <1>1, <1>3, <1>4, <1>5, <1>6, SkipInside, Zenon

(* The date that skip_month goes to *)
NextMonth ==
    LET month == Date(cand).month
        year == Date(cand).year + IF Wraps(sched.months, month) THEN 1 ELSE 0
    IN  [year |-> year, month |-> NextOrFirst(sched.months, month), day |-> 1]

LEMMA MonthSkip ==
  ASSUME Loops, ~MonthFits
  PROVE  SkipTo(make_dt(NextMonth, 0, 0, 0)) /\ \E n \in 0 .. LAST_DAY : DateOf[n] = NextMonth
  <1> DEFINE d == Date(cand)
             set == sched.months
             next == NextOrFirst(set, d.month)
             year == d.year + IF Wraps(set, d.month) THEN 1 ELSE 0
             first == [year |-> year, month |-> next, day |-> 1]
  <1>1. /\ d.year \in Nat /\ d.month \in 1 .. MONTHS /\ d.day \in 1 .. DAYS
        /\ MONTHS \in Nat /\ DAYS \in Nat /\ LAST_DAY \in Nat
    <2>1. DayOf(cand) \in 0 .. LAST_DAY
      BY Bounds, LoopFacts
    <2> QED
      BY <2>1, Bounds, DateFields DEF Date
  <1>2. set \subseteq Nat /\ set \subseteq 1 .. MONTHS /\ set # {} /\ d.month \notin set
    BY <1>1, LoopFacts DEF InputsOK, SchedOK, FieldOK, MonthFits
  <1>3. d.year <= CapYear /\ CapYear \in Nat /\ CapYear + 1 < DateOf[LAST_DAY].year
    BY LoopFacts, StartsInside DEF Date
  <1>4. /\ next \in set
        /\ Wraps(set, d.month) => \A v \in set : next <= v /\ v < d.month
        /\ ~Wraps(set, d.month) => /\ d.month < next
                                   /\ \A v \in set : d.month <= v => next <= v
    <2>1. d.month \in Nat
      BY <1>1
    <2> HIDE DEF d, set
    <2> QED
      BY <1>2, <2>1, NextOrFirstIs, Zenon
  <1>5. /\ Wraps(set, d.month) => year = d.year + 1
        /\ ~Wraps(set, d.month) => year = d.year
    BY <1>1
  <1>6. first.year = year /\ first.month = next /\ first.day = 1
    OBVIOUS
  <1>7. d = DateOf[DayOf(cand)]
    BY DEF Date
  <1> HIDE DEF d, set, next, year
  <1>8. next \in 1 .. MONTHS /\ next \in Nat /\ year \in Nat /\ year <= CapYear + 1
    BY <1>1, <1>2, <1>3, <1>4, <1>5
  <1>9. Earlier(d, first)
    BY <1>1, <1>4, <1>5, <1>6, <1>8 DEF Earlier
  <1>10. DateOf[LAST_DAY].year \in Nat
    <2>1. LAST_DAY \in 0 .. LAST_DAY
      BY <1>1
    <2> QED
      BY <2>1, DateFields
  <1>11. PICK n \in Nat : DayOf(cand) < n /\ n <= LAST_DAY /\ DateOf[n] = first
    <2>1. year < DateOf[LAST_DAY].year
      BY <1>3, <1>8, <1>10
    <2> QED
      BY <1>7, <1>8, <1>9, <2>1, LoopFacts, FirstOfMonth, Zenon
  <1> HIDE DEF first
  <1> DEFINE t == n * HOURS * MINUTES * SECONDS
  <1>12. make_dt(first, 0, 0, 0) = t
    <2>1. n \in 0 .. LAST_DAY
      BY <1>1, <1>11
    <2>2. DayNumber(first) = n
      BY <1>11, <2>1, DayNumberIs
    <2>3. ((n * HOURS + 0) * MINUTES + 0) * SECONDS + 0 = t
      BY Units
    <2> QED
      BY <2>2, <2>3 DEF make_dt
  <1>13. t \in Nat /\ DayOf(t) = n
    BY StartOfDay
  <1> HIDE DEF t
  <1>14. t > cand
    BY <1>11, <1>13, LoopFacts, CountsInOrder
  <1>15. ASSUME NEW x \in cand .. t - 1
         PROVE  ~matches(x)
    <2> DEFINE e == Date(x)
    <2>1. x \in Nat /\ cand <= x /\ x < t
      BY <1>13, LoopFacts
    <2>2. DayOf(x) \in Nat /\ DayOf(cand) <= DayOf(x) /\ DayOf(x) < n
      BY <2>1, LoopFacts, Clock, CountsInOrder, BeforeStart DEF t
    <2>3. DayOf(x) \in 0 .. LAST_DAY
      BY <1>1, <1>11, <2>2
    <2>4. e.year \in Nat /\ e.month \in 1 .. MONTHS /\ e.day \in 1 .. DAYS
      BY <2>3, DateFields DEF Date
    <2>5. Earlier(e, first)
      BY <1>11, <2>2, CalendarOrder DEF Date
    <2>6. e = d \/ Earlier(d, e)
      <3>1. CASE DayOf(x) = DayOf(cand)
        BY <1>7, <3>1 DEF Date
      <3>2. CASE DayOf(cand) < DayOf(x)
        <4>1. DayOf(x) <= LAST_DAY
          BY <1>1, <1>11, <2>2
        <4> QED
          BY <1>7, <2>2, <3>2, <4>1, LoopFacts, CalendarOrder DEF Date
      <3> QED
        BY <2>2, <3>1, <3>2, LoopFacts
    <2> HIDE DEF e
    <2>7. e.month \notin set
      <3>1. CASE Wraps(set, d.month)
        <4>1. /\ d.year <= e.year /\ (e.year = d.year => d.month <= e.month)
              /\ e.year <= d.year + 1 /\ (e.year = d.year + 1 => e.month < next)
          BY <1>1, <1>5, <1>6, <1>8, <2>4, <2>5, <2>6, <3>1 DEF Earlier
        <4>2. e.year = d.year \/ e.year = d.year + 1
          BY <1>1, <2>4, <4>1
        <4>3. ~(e.month < d.month /\ d.month <= e.month) /\ ~(e.month < next /\ next <= e.month)
          BY <1>1, <1>8, <2>4
        <4> QED
          BY <1>4, <3>1, <4>1, <4>2, <4>3, Zenon
      <3>2. CASE ~Wraps(set, d.month)
        <4>1. d.month <= e.month /\ e.month < next
          BY <1>1, <1>5, <1>6, <1>8, <2>4, <2>5, <2>6, <3>2 DEF Earlier
        <4>2. ~(e.month < next /\ next <= e.month)
          BY <1>8, <2>4
        <4> QED
          BY <1>4, <3>2, <4>1, <4>2, Zenon
      <3> QED
        BY <3>1, <3>2
    <2> QED
      BY <2>7 DEF matches, e, set
  <1>16. Date(t) = first /\ DayOf(t) <= LAST_DAY /\ Date(t).year <= CapYear + 1
    BY <1>6, <1>8, <1>11, <1>13 DEF Date
  <1>17. SkipTo(t)
    BY <1>13, <1>14, <1>15, <1>16, Zenon DEF SkipTo
  <1>18. NextMonth = first
    BY DEF NextMonth, first, year, next, set, d
  <1>19. n \in 0 .. LAST_DAY
    BY <1>1, <1>11
  <1> QED
    BY <1>11, <1>12, <1>17, <1>18, <1>19, Zenon

----------------------------------------------------------------------------
(* The invariant holds initially, and every step keeps it. *)

LEMMA SchedulesOK ==
  ASSUME sched \in Schedules
  PROVE  SchedOK
  <1>1. /\ sched.seconds \in Field(0, SECONDS - 1) /\ sched.minutes \in Field(0, MINUTES - 1)
        /\ sched.hours \in Field(0, HOURS - 1) /\ sched.months \in Field(1, MONTHS)
    BY DEF Schedules
  <1> QED
    BY <1>1, ParsedField DEF SchedOK

LEMMA InitInv == CronInit => SearchInv
  <1> SUFFICES ASSUME CronInit PROVE SearchInv
    OBVIOUS
  <1>1. InputsOK
    BY SchedulesOK DEF CronInit, InputsOK
  <1>2. cand = Start /\ phase = "search"
    BY DEF CronInit, Start
  <1>3. Start \in Nat /\ DayOf(Start) <= LAST_DAY /\ CapYear \in Nat /\ Date(Start).year <= CapYear
    BY <1>1, StartsInside
  <1>4. Date(Start).year \in Nat
    <2>1. DayOf(Start) \in 0 .. LAST_DAY
      BY <1>1, <1>3, StartsInside, Bounds
    <2> QED
      BY <2>1, DateFields DEF Date
  <1>5. NoMatch(cand)
    BY <1>2, <1>3 DEF NoMatch
  <1>6. Searching(cand)
    BY <1>2, <1>3, <1>4, <1>5 DEF Searching
  <1>7. cand \in Nat /\ cand >= Start
    BY <1>2, <1>3
  <1> QED
    BY <1>1, <1>2, <1>6, <1>7 DEF SearchInv

(* What the inputs alone determine does not change. *)
LEMMA Frozen ==
  ASSUME UNCHANGED <<sched, zone, from_unix>>
  PROVE  /\ Start' = Start /\ CapYear' = CapYear /\ (InputsOK' <=> InputsOK)
         /\ \A x : matches(x)' <=> matches(x)
         /\ \A x : from_local_datetime(x)' = from_local_datetime(x)
  <1>1. Start' = Start /\ CapYear' = CapYear
    BY DEF Start, CapYear, Local, Date
  <1>2. InputsOK' <=> InputsOK
    BY DEF InputsOK, SchedOK
  <1>3. \A x : matches(x)' <=> matches(x)
    BY DEF matches
  <1>4. \A x : from_local_datetime(x)' = from_local_datetime(x)
    BY DEF from_local_datetime, Local
  <1> QED
    BY <1>1, <1>2, <1>3, <1>4

LEMMA Between ==
  ASSUME NEW a \in Nat, NEW b \in Nat, NEW c \in Nat, NEW x \in a .. c - 1
  PROVE  x \in a .. b - 1 \/ x \in b .. c - 1
  OBVIOUS

(* A skip that passes over no match keeps the invariant. *)
LEMMA SkipKeeps ==
  ASSUME Loops, SkipTo(cand'), UNCHANGED <<sched, zone, from_unix, phase>>
  PROVE  SearchInv'
  <1>1. /\ InputsOK' /\ phase' = "search" /\ cand' \in Nat /\ cand' > cand
        /\ cand \in Nat /\ cand >= Start /\ Start \in Nat
    BY Frozen, StartsInside DEF Loops, SearchInv, SkipTo
  <1>2. cand' >= Start'
    BY <1>1, Frozen
  <1>3. NoMatch(cand)'
    <2>1. ASSUME NEW x \in Start .. cand' - 1
          PROVE  ~matches(x)
      <3>1. x \in Start .. cand - 1 \/ x \in cand .. cand' - 1
        BY <1>1, Between, Zenon
      <3>2. \A y \in Start .. cand - 1 : ~matches(y)
        BY Zenon DEF Loops, SearchInv, Searching, NoMatch
      <3>3. \A y \in cand .. cand' - 1 : ~matches(y)
        BY Zenon DEF SkipTo
      <3> QED
        BY <3>1, <3>2, <3>3, Zenon
    <2> QED
      BY <2>1, Frozen DEF NoMatch
  <1>4. Searching(cand)'
    BY <1>3, Frozen DEF Searching, SkipTo
  <1> QED
    BY <1>1, <1>2, <1>4 DEF SearchInv

(* Each skip of the loop is one of those. *)
LEMMA SkipsForward ==
  ASSUME SearchInv, skip_month \/ skip_day \/ skip_hour \/ skip_minute \/ skip_second
  PROVE  Loops /\ SkipTo(cand') /\ UNCHANGED <<sched, zone, from_unix, phase>>
  <1>1. Loops /\ UNCHANGED <<sched, zone, from_unix, phase>>
    BY DEF skip_month, skip_day, skip_hour, skip_minute, skip_second, Continue, Loops
  <1>2. CASE skip_month
    BY <1>1, <1>2, MonthSkip DEF skip_month, Continue, NextMonth
  <1>3. CASE skip_day
    BY <1>1, <1>3, DaySkip DEF skip_day, Continue, DayFits
  <1>4. CASE skip_hour
    BY <1>1, <1>4, HourSkip DEF skip_hour, Continue, HourFits
  <1>5. CASE skip_minute
    BY <1>1, <1>5, MinuteSkip DEF skip_minute, Continue, MinuteFits
  <1>6. CASE skip_second
    BY <1>1, <1>6, SecondSkip DEF skip_second, Continue
  <1> QED
    BY <1>1, <1>2, <1>3, <1>4, <1>5, <1>6

(* The second look at a candidate that fits always agrees with the first. *)
LEMMA FitsMatches ==
  ASSUME match
  PROVE  matches(cand) /\ phase' = "zone" /\ UNCHANGED <<sched, zone, from_unix, cand>>
  <1>1. matches(cand)
    BY DEF match, matches, MinuteFits, HourFits, DayFits, MonthFits, cron_day_matches
  <1> QED
    BY <1>1 DEF match

LEMMA MatchKeeps ==
  ASSUME SearchInv, match
  PROVE  SearchInv'
  <1>1. /\ phase = "search" /\ phase' = "zone" /\ cand' = cand
        /\ UNCHANGED <<sched, zone, from_unix>> /\ matches(cand)
    BY FitsMatches DEF match
  <1>2. InputsOK /\ cand \in Nat /\ cand >= Start /\ Start \in Nat /\ NoMatch(cand)
    BY <1>1, StartsInside DEF SearchInv, Searching
  <1>3. cand \in Start .. cand /\ cand .. cand - 1 = {}
    BY <1>2
  <1>4. NoMatch(cand)' /\ matches(cand)' /\ cand' \in Start' .. cand'
    BY <1>1, <1>2, <1>3, Frozen DEF NoMatch
  <1>5. Resolving(cand)'
    BY <1>1, <1>3, <1>4 DEF Resolving, NoMatch
  <1> QED
    BY <1>1, <1>2, <1>5, Frozen DEF SearchInv

LEMMA GiveUpKeeps ==
  ASSUME SearchInv, give_up
  PROVE  SearchInv'
  <1>1. /\ phase = "search" /\ phase' = "failed" /\ cand' = cand /\ Date(cand).year > CapYear
        /\ UNCHANGED <<sched, zone, from_unix>>
    BY DEF give_up
  <1>2. /\ InputsOK /\ cand \in Nat /\ cand >= Start /\ NoMatch(cand) /\ DayOf(cand) <= LAST_DAY
    BY <1>1 DEF SearchInv, Searching
  <1>3. NoMatch(cand)'
    BY <1>1, <1>2, Frozen DEF NoMatch
  <1> QED
    BY <1>1, <1>2, <1>3, Frozen DEF SearchInv

LEMMA ResolveKeeps ==
  ASSUME SearchInv, resolve
  PROVE  SearchInv'
  <1>1. phase = "zone" /\ UNCHANGED <<sched, zone, from_unix>>
    BY DEF resolve
  <1>2. InputsOK /\ cand \in Nat /\ cand >= Start /\ Start \in Nat
    BY StartsInside DEF SearchInv
  <1>3. PICK first \in Start .. cand :
           /\ matches(first) /\ NoMatch(first)
           /\ \A x \in first .. cand - 1 : from_local_datetime(x) = {}
    BY <1>1 DEF SearchInv, Resolving
  <1>4. InputsOK' /\ Start' = Start /\ matches(first)' /\ NoMatch(first)'
    BY <1>1, <1>2, <1>3, Frozen DEF NoMatch
  <1>5. CASE from_local_datetime(cand) = {}
    <2>1. cand' = cand + 1 /\ phase' = "zone"
      BY <1>1, <1>5 DEF resolve
    <2>2. cand' \in Nat /\ cand' >= Start' /\ first \in Start' .. cand'
      BY <1>2, <1>4, <2>1
    <2>3. \A x \in first .. cand' - 1 : x \in first .. cand - 1 \/ x = cand
      BY <1>2, <2>1
    <2>4. \A x \in first .. cand' - 1 : from_local_datetime(x)' = {}
      BY <1>1, <1>3, <1>5, <2>3, Frozen
    <2>5. Resolving(cand)'
      BY <1>4, <2>2, <2>4, Zenon DEF Resolving
    <2> QED
      BY <1>4, <2>1, <2>2, <2>5 DEF SearchInv
  <1>6. CASE from_local_datetime(cand) # {}
    <2>1. cand' = cand /\ phase' = "found"
      BY <1>6 DEF resolve
    <2>2. from_local_datetime(cand)' # {}
      BY <1>1, <1>6, <2>1, Frozen DEF from_local_datetime, Local
    <2>3. \A x \in first .. cand' - 1 : from_local_datetime(x)' = {}
      BY <1>1, <1>3, <2>1, Frozen
    <2>4. Resolving(cand)'
      BY <1>3, <1>4, <2>1, <2>3 DEF Resolving
    <2> QED
      BY <1>2, <1>4, <2>1, <2>2, <2>4 DEF SearchInv
  <1> QED
    BY <1>5, <1>6

LEMMA StutterKeeps ==
  ASSUME SearchInv, UNCHANGED <<sched, zone, from_unix>>, cand' = cand, phase' = phase
  PROVE  SearchInv'
  <1>1. \A t : NoMatch(t)' <=> NoMatch(t)
    BY Frozen DEF NoMatch
  <1>2. NoMatch(cand)' <=> NoMatch(cand)
    BY Frozen DEF NoMatch
  <1>3. Searching(cand)' <=> Searching(cand)
    BY <1>2, Frozen DEF Searching
  <1>4. Resolving(cand)' <=> Resolving(cand)
    BY <1>1, Frozen DEF Resolving
  <1>5. from_local_datetime(cand)' = from_local_datetime(cand)
    BY DEF from_local_datetime, Local
  <1> QED
    BY <1>2, <1>3, <1>4, <1>5, Frozen DEF SearchInv

LEMMA StepInv == SearchInv /\ [CronNext]_cronvars => SearchInv'
  <1> SUFFICES ASSUME SearchInv, [CronNext]_cronvars PROVE SearchInv'
    OBVIOUS
  <1>1. CASE skip_month \/ skip_day \/ skip_hour \/ skip_minute \/ skip_second
    BY <1>1, SkipsForward, SkipKeeps
  <1>2. CASE match
    BY <1>2, MatchKeeps
  <1>3. CASE give_up
    BY <1>3, GiveUpKeeps
  <1>4. CASE resolve
    BY <1>4, ResolveKeeps
  <1>5. CASE UNCHANGED cronvars
    BY <1>5, StutterKeeps DEF cronvars
  <1> QED
    BY <1>1, <1>2, <1>3, <1>4, <1>5 DEF CronNext

----------------------------------------------------------------------------
(* The way back to unix time *)

LEMMA LeastAnswer ==
  ASSUME cand \in Nat, from_local_datetime(cand) # {}
  PROVE  next_after_unix \in Int /\ Local(next_after_unix) = cand
  <1> DEFINE S == from_local_datetime(cand)
  <1>1. SHIFT \in Nat
    BY Bounds
  <1>2. S \subseteq {cand, cand - SHIFT} /\ cand \in Int /\ cand - SHIFT \in Int
    BY <1>1 DEF from_local_datetime
  <1>3. \E u \in S : \A v \in S : u <= v
    BY <1>1, <1>2
  <1>4. next_after_unix \in S
    BY <1>3, Zenon DEF next_after_unix, Min
  <1> QED
    BY <1>2, <1>4 DEF from_local_datetime

(* The local time of u is beyond that of a later `from` only across the    *)
(* end of the shift, and then the local time of `from` is repeated.        *)
LEMMA ClocksGoBack ==
  ASSUME InputsOK, NEW u \in Int, u <= from_unix, Local(u) > Local(from_unix)
  PROVE  Repeated(from_unix)
  <1> DEFINE v == from_unix - SHIFT
  <1>1. /\ SHIFT \in Nat /\ from_unix \in Nat /\ zone.gap \in Nat /\ zone.fold \in Nat
        /\ zone.gap \in Gaps /\ zone.fold \in Folds
    BY Bounds, Zenon DEF InputsOK
  <1>2. zone.gap <= u /\ u < zone.fold /\ Local(u) = u + SHIFT
    BY <1>1 DEF Local
  <1>3. zone.gap + SHIFT <= zone.fold
    <2>1. zone.gap < zone.fold
      BY <1>1, <1>2
    <2> QED
      BY <1>1, <2>1, ZoneAssumption
  <1>4. ~(from_unix < zone.fold) /\ Local(from_unix) = from_unix
    BY <1>1, <1>2 DEF Local
  <1>5. v \in Int /\ v < from_unix /\ zone.gap <= v /\ v < zone.fold /\ v + SHIFT = from_unix
    BY <1>1, <1>2, <1>3, <1>4
  <1>6. Local(v) = from_unix
    BY <1>5 DEF Local
  <1>7. v \in from_local_datetime(Local(from_unix))
    BY <1>4, <1>6 DEF from_local_datetime
  <1> QED
    BY <1>5, <1>7 DEF Repeated

LEMMA InvAnswers == SearchInv => SearchIsRight
  <1> SUFFICES ASSUME SearchInv PROVE SearchIsRight
    OBVIOUS
  <1>1. NextIsLeast
    <2> SUFFICES ASSUME phase = "found" PROVE Resolving(cand)
      BY Zenon DEF NextIsLeast, Resolving, NoMatch, Start
    <2> QED
      BY DEF SearchInv
  <1>2. FailsWithoutMatch
    BY DEF FailsWithoutMatch, SearchInv, NoMatch, Start
  <1>3. FiresLater
    <2> SUFFICES ASSUME phase = "found", ~Repeated(from_unix) PROVE next_after_unix > from_unix
      BY DEF FiresLater
    <2>1. /\ InputsOK /\ cand \in Nat /\ cand >= Start /\ from_local_datetime(cand) # {}
          /\ from_unix \in Nat /\ Local(from_unix) \in Nat
      BY Bounds, StartsInside DEF SearchInv, InputsOK
    <2>2. next_after_unix \in Int /\ Local(next_after_unix) = cand
      BY <2>1, LeastAnswer
    <2>3. Local(next_after_unix) > Local(from_unix)
      BY <2>1, <2>2 DEF Start
    <2>4. ~(next_after_unix <= from_unix)
      BY <2>1, <2>2, <2>3, ClocksGoBack
    <2> QED
      BY <2>1, <2>2, <2>4
  <1> QED
    BY <1>1, <1>2, <1>3 DEF SearchIsRight

LEMMA InvHolds == CronSpec => []SearchInv
  BY InitInv, StepInv, PTL DEF CronSpec

(* For every calendar, zone and expression: the answer of next_after_unix  *)
(* is the first match after from_unix (moved to the end of the gap if the  *)
(* clocks skip it) and later than from_unix unless the clocks repeat that  *)
(* time; and the search fails only behind datetimes that do not match.     *)
THEOREM SearchRight == CronSpec => []SearchIsRight
  BY InvHolds, InvAnswers, PTL

----------------------------------------------------------------------------
(* The loop and its errors *)

(* A failed search has covered every datetime up to the year of the cap. *)
NothingToFind ==
    \A t \in Nat : /\ t >= Start
                   /\ DayOf(t) <= LAST_DAY /\ Date(t).year <= CapYear
                   => ~matches(t)

LEMMA FailedCovers ==
  ASSUME SearchInv, phase = "failed"
  PROVE  NothingToFind
  <1>1. /\ InputsOK /\ cand \in Nat /\ Start \in Nat /\ CapYear \in Nat /\ NoMatch(cand)
        /\ DayOf(cand) <= LAST_DAY /\ DateOf[DayOf(cand)].year > CapYear
    BY StartsInside DEF SearchInv, Date
  <1>2. SUFFICES ASSUME NEW t \in Nat, t >= Start, DayOf(t) <= LAST_DAY,
                        DateOf[DayOf(t)].year <= CapYear
                 PROVE  t \in Start .. cand - 1
    BY <1>1 DEF NothingToFind, NoMatch, Date
  <1>3. DayOf(t) \in Nat /\ DayOf(cand) \in Nat /\ LAST_DAY \in Nat
    BY <1>1, <1>2, Clock, Bounds
  <1>4. DayOf(t) \in 0 .. LAST_DAY /\ DayOf(cand) \in 0 .. LAST_DAY
    BY <1>1, <1>2, <1>3
  <1>5. DateOf[DayOf(t)].year \in Nat /\ DateOf[DayOf(cand)].year \in Nat
    BY <1>4, DateFields
  <1>6. ~(cand <= t)
    <2> SUFFICES ASSUME cand <= t PROVE FALSE
      OBVIOUS
    <2>1. DayOf(cand) <= DayOf(t)
      BY <1>1, <1>2, CountsInOrder
    <2>2. DateOf[DayOf(cand)].year <= DateOf[DayOf(t)].year
      BY <1>2, <1>3, <2>1, YearsInOrder
    <2> QED
      BY <1>1, <1>2, <1>5, <2>2
  <1> QED
    BY <1>1, <1>2, <1>6

(* "No match" is no mistake of the cap: when next_after_unix returns the   *)
(* error, nothing in the years from from_unix to the cap matches.          *)
THEOREM FailureComplete == CronSpec => [](phase = "failed" => NothingToFind)
  <1>1. SearchInv => (phase = "failed" => NothingToFind)
    BY FailedCovers
  <1> QED
    BY <1>1, InvHolds, PTL

(* The candidate stays in the calendar, at most a year beyond the cap, and *)
(* so does the month a skip goes to.                                       *)
StaysInside ==
    phase = "search" =>
      /\ DayOf(cand) <= LAST_DAY /\ Date(cand).year <= CapYear + 1
      /\ Date(cand).year <= CapYear /\ ~MonthFits => \E n \in 0 .. LAST_DAY : DateOf[n] = NextMonth

(* An iteration that does not end its loop moves the candidate on. *)
MovesOn == phase' # phase \/ cand' > cand

LEMMA StepMovesOn == SearchInv /\ CronNext => MovesOn
  <1> SUFFICES ASSUME SearchInv, CronNext PROVE MovesOn
    OBVIOUS
  <1>1. CASE skip_month \/ skip_day \/ skip_hour \/ skip_minute \/ skip_second
    BY <1>1, SkipsForward DEF SkipTo, MovesOn
  <1>2. CASE match
    BY <1>2, FitsMatches DEF match, MovesOn
  <1>3. CASE give_up
    BY <1>3 DEF give_up, MovesOn
  <1>4. CASE resolve
    BY <1>4 DEF resolve, SearchInv, MovesOn
  <1> QED
    BY <1>1, <1>2, <1>3, <1>4 DEF CronNext

(* The argument for the end of cron_next_after_naive's loop: no iteration  *)
(* leaves the candidate where it was or moves it back, and the candidate   *)
(* cannot leave the calendar. Every date given to make_dt exists, so that  *)
(* its expect("constructed invalid local datetime") never fails.           *)
THEOREM SearchMovesOn == CronSpec => []StaysInside /\ [][MovesOn]_cronvars
  <1>1. SearchInv => StaysInside
    BY MonthSkip DEF SearchInv, Searching, StaysInside, Loops
  <1>2. SearchInv /\ [CronNext]_cronvars => [MovesOn]_cronvars
    BY StepMovesOn
  <1> QED
    BY <1>1, <1>2, InvHolds, PTL DEF CronSpec
=============================================================================

------------------------- MODULE CalculationProofs -------------------------
(***************************************************************************)
(* What the operators compute, for every input: the next send slot, the    *)
(* next run of a campaign and the time of a nudge for every calendar and   *)
(* habit; the breaks and ranks of every population; what silence does to   *)
(* the reading of every history; the verdict of every rule and of its      *)
(* opposite; the copy of every brand. The last section concludes what the  *)
(* specification promises of the questions it is asked.                    *)
(*                                                                         *)
(* Induction goes by the smallest number a property fails at (`Smallest`), *)
(* over a set of numbers. What a recursive function computes is found by   *)
(* showing that some function meets its equation (`SumsExist`,             *)
(* `VerdictsExist`). A rule is a tree (`Tree`), and a rule is known from   *)
(* its parts (`PartsOf`).                                                  *)
(***************************************************************************)
EXTENDS MCCalculations, FiniteSetTheorems, SequenceTheorems, WellFoundedInduction, TLAPS

---------------------------------------------------------------------------
(* Days and hours. *)

LEMMA Constants ==
    /\ HoursPerDay \in Nat /\ HoursPerDay > 0 /\ DaysPerWeek \in Nat /\ DaysPerWeek > 0
    /\ Winter \in Int /\ Summer \in Int /\ Forward \in Int /\ Back \in Int
    /\ Summer = Winter \/ Summer = Winter + 1
    /\ Forward < Back
  BY CalendarAssumption

\* A local time is a day and an hour of it.
LEMMA DayAndHour ==
    ASSUME NEW x \in Int
    PROVE  /\ DayOf(x) \in Int /\ HourOf(x) \in 0 .. HoursPerDay - 1
           /\ x = At(DayOf(x), HourOf(x))
  BY Constants DEF DayOf, HourOf, At

LEMMA AtDayAndHour ==
    ASSUME NEW d \in Int, NEW h \in 0 .. HoursPerDay - 1
    PROVE  At(d, h) \in Int /\ DayOf(At(d, h)) = d /\ HourOf(At(d, h)) = h
  <1>1. At(d, h) \in Int
    BY Constants DEF At
  <1>2. At(d, h) = DayOf(At(d, h)) * HoursPerDay + HourOf(At(d, h))
        /\ DayOf(At(d, h)) \in Int /\ HourOf(At(d, h)) \in 0 .. HoursPerDay - 1
    BY <1>1, DayAndHour DEF At
  <1>3. ASSUME NEW e \in Int, NEW g \in 0 .. HoursPerDay - 1, d * HoursPerDay + h = e * HoursPerDay + g
        PROVE  d = e /\ h = g
    BY <1>3, Constants
  <1> QED
    BY <1>1, <1>2, <1>3 DEF At

\* Days come one after the other.
LEMMA DaysInOrder ==
    ASSUME NEW d \in Int, NEW e \in Int,
           NEW h \in 0 .. HoursPerDay - 1, NEW g \in 0 .. HoursPerDay - 1
    PROVE  At(d, h) < At(e, g) <=> d < e \/ (d = e /\ h < g)
  <1>1. ASSUME NEW a \in Int, NEW b \in Int, a < b PROVE a * HoursPerDay + HoursPerDay <= b * HoursPerDay
    BY <1>1, Constants
  <1>2. d * HoursPerDay \in Int /\ e * HoursPerDay \in Int
    BY Constants
  <1>3. CASE d < e
    BY <1>1, <1>2, <1>3, Constants DEF At
  <1>4. CASE d = e
    BY <1>2, <1>4, Constants DEF At
  <1>5. CASE e < d
    BY <1>1, <1>2, <1>5, Constants DEF At
  <1> QED
    BY <1>3, <1>4, <1>5

---------------------------------------------------------------------------
(* The clocks: the moment read from a local time is the first one that is   *)
(* not before it.                                                           *)

LEMMA Clocks ==
    ASSUME NEW moment \in Int, NEW local \in Int
    PROVE  /\ ToLocal(moment) \in Int /\ ToUtc(local) \in Int
           /\ moment < ToUtc(local) <=> ToLocal(moment) < local
  BY Constants DEF ToLocal, ToUtc

\* The hour that is left out in spring.
Missing(local) == Summer # Winter /\ local = Forward + Winter

LEMMA ThereAndBack ==
    ASSUME NEW local \in Int
    PROVE  /\ ~ Missing(local) => ToLocal(ToUtc(local)) = local
           /\ Missing(local) => /\ ToLocal(ToUtc(local)) = local + 1
                                /\ ToUtc(local + 1) = ToUtc(local)
  BY Constants DEF ToLocal, ToUtc, Missing

LEMMA LocalInOrder ==
    ASSUME NEW m \in Int, NEW n \in Int, m <= n PROVE ToLocal(m) <= ToLocal(n)
  BY Constants DEF ToLocal

\* A missing hour is taken as the next one without a special case.
LEMMA Combined ==
    ASSUME NEW d \in Int, NEW h \in 0 .. HoursPerDay - 1
    PROVE  CombineLocal(d, h) = ToUtc(At(d, h))
  <1> DEFINE local == At(d, h)
  <1>1. local \in Int /\ HourOf(local) = h
    BY AtDayAndHour
  <1>2. CASE Missing(local)
    BY <1>1, <1>2, ThereAndBack DEF CombineLocal
  <1>3. CASE ~ Missing(local)
    BY <1>1, <1>3, ThereAndBack DEF CombineLocal
  <1> QED
    BY <1>2, <1>3

\* A property of the numbers that fails fails at a smallest one.
LEMMA Smallest ==
    ASSUME NEW T \in SUBSET Nat, T # {}
    PROVE  \E x \in T : \A y \in T : x <= y
  <1> DEFINE R == OpToRel(<, Nat)
  <1>1. \A y, x \in Nat : y < x => <<y, x>> \in R
    BY DEF OpToRel
  <1>2. IsWellFoundedOn(R, Nat)
    BY NatLessThanWellFounded
  <1> HIDE DEF R
  <1>3. PICK x \in T : \A y \in T : ~ (<<y, x>> \in R)
    BY <1>2, WFMin
  <1>4. \A y \in T : ~ (y < x)
    BY <1>1, <1>3
  <1> QED BY <1>4

---------------------------------------------------------------------------
(* The next slot. *)

\* From a local time outside of the window, the local times up to the opening are.
LEMMA ClosedUntilOpening ==
    ASSUME NEW local \in Int, NEW start \in Nat, NEW end \in 1 .. HoursPerDay, start < end,
           ~ InWindow(HourOf(local), start, end)
    PROVE  /\ SlotDay(local, end) \in Int
           /\ local < At(SlotDay(local, end), start)
           /\ \A x \in local .. At(SlotDay(local, end), start) - 1 :
                ~ InWindow(HourOf(x), start, end)
  <1> DEFINE opening == At(SlotDay(local, end), start)
  <1>1. /\ DayOf(local) \in Int /\ HourOf(local) \in 0 .. HoursPerDay - 1
        /\ local = At(DayOf(local), HourOf(local))
    BY DayAndHour
  <1>2. start \in 0 .. HoursPerDay - 1 /\ HoursPerDay \in Nat
    BY Constants
  <1>3. HourOf(local) < start \/ HourOf(local) >= end
    BY <1>1, <1>2 DEF InWindow
  <1>4. SlotDay(local, end) \in Int
    BY <1>1 DEF SlotDay
  <1>5. opening \in Int
    BY <1>2, <1>4, AtDayAndHour
  <1>6. local < opening
    <2>1. DayOf(local) < SlotDay(local, end) \/ (DayOf(local) = SlotDay(local, end) /\ HourOf(local) < start)
      BY <1>1, <1>2, <1>3 DEF SlotDay
    <2> QED BY <1>1, <1>2, <1>4, <2>1, DaysInOrder
  <1>7. ASSUME NEW x \in local .. opening - 1 PROVE ~ InWindow(HourOf(x), start, end)
    <2>1. x \in Int /\ local <= x /\ x < opening
      BY <1>5
    <2>2. /\ DayOf(x) \in Int /\ HourOf(x) \in 0 .. HoursPerDay - 1
          /\ x = At(DayOf(x), HourOf(x))
      BY <2>1, DayAndHour
    <2>3. DayOf(x) < SlotDay(local, end) \/ (DayOf(x) = SlotDay(local, end) /\ HourOf(x) < start)
      BY <1>2, <1>4, <2>1, <2>2, DaysInOrder
    <2>4. ~ (At(DayOf(x), HourOf(x)) < At(DayOf(local), HourOf(local)))
      BY <1>1, <2>1, <2>2
    <2>5. ~ (DayOf(x) < DayOf(local) \/ (DayOf(x) = DayOf(local) /\ HourOf(x) < HourOf(local)))
      BY <1>1, <2>2, <2>4, DaysInOrder
    <2>6. HourOf(x) < start \/ HourOf(x) >= end
      BY <1>1, <1>2, <1>3, <2>2, <2>3, <2>5 DEF SlotDay
    <2> QED BY <1>2, <2>2, <2>6 DEF InWindow
  <1> QED
    BY <1>4, <1>6, <1>7

\* next_send_slot, for every offset, change of the clocks and length of a day: a
\* deferred message is for the first moment of the window from now on, in spring
\* and in autumn too, where the window is of two hours at least and does not wrap
\* around midnight.
THEOREM SlotIsNext ==
    ASSUME NEW moment \in Int, NEW start \in Nat, NEW end \in 1 .. HoursPerDay, start + 1 < end
    PROVE  IsSlot(moment, start, end, NextSendSlot(moment, start, end))
  <1> DEFINE local == ToLocal(moment)
             day == SlotDay(local, end)
             opening == At(day, start)
  <1>1. local \in Int
    BY Clocks
  <1>2. CASE InSendWindow(moment, start, end)
    BY <1>2 DEF NextSendSlot, IsSlot
  <1>3. CASE ~ InSendWindow(moment, start, end)
    <2>1. start \in 0 .. HoursPerDay - 1 /\ HoursPerDay \in Nat
      BY Constants
    <2>2. /\ day \in Int /\ local < opening
          /\ \A x \in local .. opening - 1 : ~ InWindow(HourOf(x), start, end)
      BY <1>1, <1>3, ClosedUntilOpening DEF InSendWindow
    <2>3. opening \in Int /\ HourOf(opening) = start
      BY <2>1, <2>2, AtDayAndHour
    <2>4. NextSendSlot(moment, start, end) = ToUtc(opening)
      BY <1>3, <2>1, <2>2, Combined DEF NextSendSlot
    <2>5. ToUtc(opening) \in Int /\ moment < ToUtc(opening)
      BY <2>2, <2>3, Clocks
    <2>6. InSendWindow(ToUtc(opening), start, end)
      <3>1. CASE ~ Missing(opening)
        BY <2>1, <2>3, <3>1, ThereAndBack DEF InSendWindow, InWindow
      <3>2. CASE Missing(opening)
        <4>1. start + 1 \in 0 .. HoursPerDay - 1 /\ opening + 1 = At(day, start + 1)
          BY <2>1, <2>2, Constants DEF At
        <4>2. HourOf(opening + 1) = start + 1
          BY <2>2, <4>1, AtDayAndHour
        <4>3. ToLocal(ToUtc(opening)) = opening + 1
          BY <2>3, <3>2, ThereAndBack
        <4> QED BY <2>1, <4>2, <4>3 DEF InSendWindow, InWindow
      <3> QED BY <3>1, <3>2
    <2>7. ASSUME NEW n \in moment .. ToUtc(opening) - 1 PROVE ~ InSendWindow(n, start, end)
      <3>1. n \in Int /\ moment <= n /\ n < ToUtc(opening)
        BY <2>5
      <3>2. ToLocal(n) \in Int /\ ToLocal(n) < opening
        BY <2>3, <3>1, Clocks
      <3>3. local <= ToLocal(n)
        BY <3>1, LocalInOrder
      <3> QED BY <1>1, <2>2, <2>3, <3>2, <3>3 DEF InSendWindow
    <2> QED BY <2>4, <2>5, <2>6, <2>7 DEF IsSlot
  <1> QED BY <1>2, <1>3
---------------------------------------------------------------------------
(* The next occurrence. *)

LEMMA Weeks ==
    ASSUME NEW d \in Int
    PROVE  /\ Weekday(d) \in 0 .. DaysPerWeek - 1
           /\ d = (d \div DaysPerWeek) * DaysPerWeek + Weekday(d) /\ d \div DaysPerWeek \in Int
  BY Constants DEF Weekday

\* Two days of one weekday are a number of weeks apart.
LEMMA SameWeekday ==
    ASSUME NEW q \in Int, NEW t \in 0 .. DaysPerWeek - 1
    PROVE  q * DaysPerWeek + t \in Int /\ Weekday(q * DaysPerWeek + t) = t
  <1>1. q * DaysPerWeek + t \in Int
    BY Constants
  <1>2. ASSUME NEW r \in Int, NEW u \in 0 .. DaysPerWeek - 1,
               q * DaysPerWeek + t = r * DaysPerWeek + u
        PROVE  u = t
    BY <1>2, Constants
  <1> QED BY <1>1, <1>2, Weeks

LEMMA WeeksLater ==
    ASSUME NEW d \in Int, NEW n \in Nat
    PROVE  d + n * DaysPerWeek \in Int /\ Weekday(d + n * DaysPerWeek) = Weekday(d)
  <1> DEFINE q == d \div DaysPerWeek
  <1>1. /\ q \in Int /\ n * DaysPerWeek \in Int /\ q * DaysPerWeek \in Int
        /\ (q + n) * DaysPerWeek = q * DaysPerWeek + n * DaysPerWeek
    BY Weeks, Constants
  <1>2. Weekday(d) \in 0 .. DaysPerWeek - 1 /\ d = q * DaysPerWeek + Weekday(d)
    BY Weeks
  <1> HIDE DEF q
  <1>3. d + n * DaysPerWeek = (q + n) * DaysPerWeek + Weekday(d)
    BY <1>1, <1>2
  <1> QED BY <1>1, <1>2, <1>3, SameWeekday

LEMMA NotThatWeekday ==
    ASSUME NEW d \in Int, NEW e \in Int, d < e, e < d + DaysPerWeek
    PROVE  Weekday(e) # Weekday(d)
  <1> SUFFICES ASSUME Weekday(e) = Weekday(d) PROVE FALSE
    OBVIOUS
  <1> DEFINE q == d \div DaysPerWeek
             r == e \div DaysPerWeek
  <1>1. /\ q \in Int /\ r \in Int
        /\ d = q * DaysPerWeek + Weekday(d) /\ e = r * DaysPerWeek + Weekday(d)
        /\ Weekday(d) \in 0 .. DaysPerWeek - 1
    BY Weeks
  <1> HIDE DEF q, r
  <1>2. q * DaysPerWeek \in Int /\ r * DaysPerWeek \in Int
    BY <1>1, Constants
  <1>3. q * DaysPerWeek < r * DaysPerWeek /\ r * DaysPerWeek < q * DaysPerWeek + DaysPerWeek
    BY <1>1, <1>2, Constants
  <1>4. ASSUME q < r PROVE q * DaysPerWeek + DaysPerWeek <= r * DaysPerWeek
    BY <1>1, <1>4, Constants
  <1>5. ASSUME r <= q PROVE r * DaysPerWeek <= q * DaysPerWeek
    BY <1>1, <1>5, Constants
  <1> QED BY <1>1, <1>2, <1>3, <1>4, <1>5, Constants

\* The next day of a weekday, today included.
LEMMA NextWeekday ==
    ASSUME NEW day \in Int, NEW target \in 0 .. DaysPerWeek - 1
    PROVE  LET delta == (target - Weekday(day)) % DaysPerWeek IN
           delta \in 0 .. DaysPerWeek - 1 /\ Weekday(day + delta) = target
  <1> DEFINE w == Weekday(day)
             delta == (target - w) % DaysPerWeek
             q == day \div DaysPerWeek
             p == (target - w) \div DaysPerWeek
  <1>1. /\ w \in 0 .. DaysPerWeek - 1 /\ q \in Int /\ day = q * DaysPerWeek + w
    BY Weeks
  <1>2. target - w \in Int
    BY <1>1, Constants
  <1>3. /\ delta \in 0 .. DaysPerWeek - 1 /\ p \in Int
        /\ target - w = p * DaysPerWeek + delta
    BY <1>2, Weeks DEF Weekday
  <1> HIDE DEF w, delta, p, q
  <1>4. /\ q - p \in Int /\ (q - p) * DaysPerWeek = q * DaysPerWeek - p * DaysPerWeek
        /\ q * DaysPerWeek \in Int /\ p * DaysPerWeek \in Int
    BY <1>1, <1>3, Constants
  <1>5. day + delta = (q - p) * DaysPerWeek + target
    BY <1>1, <1>3, <1>4, Constants
  <1>6. Weekday(day + delta) = target
    BY <1>4, <1>5, SameWeekday
  <1> QED BY <1>3, <1>6 DEF delta, w

\* An hour of a later day is still ahead.
LEMMA LaterDayIsAhead ==
    ASSUME NEW after \in Int, NEW day \in Int, NEW hour \in 0 .. HoursPerDay - 1,
           DayOf(ToLocal(after)) < day
    PROVE  CombineLocal(day, hour) \in Int /\ CombineLocal(day, hour) > after
  <1> DEFINE local == ToLocal(after)
  <1>1. local \in Int /\ At(day, hour) \in Int
    BY Clocks, AtDayAndHour
  <1>2. /\ DayOf(local) \in Int /\ HourOf(local) \in 0 .. HoursPerDay - 1
        /\ local = At(DayOf(local), HourOf(local))
    BY <1>1, DayAndHour
  <1>3. At(DayOf(local), HourOf(local)) < At(day, hour)
    BY <1>2, DaysInOrder
  <1>4. ToLocal(after) < At(day, hour)
    BY <1>2, <1>3
  <1> QED BY <1>1, <1>4, Clocks, Combined

\* What recurs by the day or the week.
LEMMA DailyOrWeekly ==
    ASSUME NEW kind \in {"DAILY", "WEEKLY"}, NEW hour \in 0 .. HoursPerDay - 1,
           NEW target \in 0 .. DaysPerWeek - 1, NEW ends \in Int, NEW after \in Int
    PROVE  \E day \in Int :
             /\ IsTurn(kind, hour, target, after, day)
             /\ NextOccurrence(kind, hour, target, ends, after) =
                  IF ends # Never /\ CombineLocal(day, hour) > ends THEN Never
                  ELSE CombineLocal(day, hour)
  <1> DEFINE today == DayOf(ToLocal(after))
             delta == (target - Weekday(today)) % DaysPerWeek
             first == IF kind = "DAILY" THEN today ELSE today + delta
             second == IF kind = "DAILY" THEN today + 1 ELSE today + delta + DaysPerWeek
             day == IF CombineLocal(first, hour) <= after THEN second ELSE first
  <1>1. today \in Int
    BY Clocks, DayAndHour
  <1>2. delta \in 0 .. DaysPerWeek - 1 /\ Weekday(today + delta) = target
    BY <1>1, NextWeekday
  <1>3. first \in Int /\ second \in Int /\ today <= first /\ today < second
    BY <1>1, <1>2, Constants
  <1>4. /\ CombineLocal(first, hour) \in Int
        /\ CombineLocal(second, hour) > after
    <2>1. CombineLocal(second, hour) > after
      BY <1>3, LaterDayIsAhead
    <2>2. At(first, hour) \in Int /\ CombineLocal(first, hour) = ToUtc(At(first, hour))
      BY <1>3, Combined, AtDayAndHour
    <2> QED BY <2>1, <2>2, Clocks
  <1>5. FallsOn(kind, target, first) /\ FallsOn(kind, target, second)
    <2>1. CASE kind = "DAILY"
      BY <2>1 DEF FallsOn
    <2>2. CASE kind = "WEEKLY"
      <3>1. second = today + delta + 1 * DaysPerWeek /\ today + delta \in Int
        BY <1>1, <1>2, <2>2, Constants
      <3>2. Weekday(second) = target
        BY <1>2, <3>1, WeeksLater
      <3> QED BY <1>2, <2>2, <3>2 DEF FallsOn
    <2> QED BY <2>1, <2>2
  <1>6. ASSUME NEW e \in today .. day - 1
        PROVE  ~ (FallsOn(kind, target, e) /\ CombineLocal(e, hour) > after)
    <2>1. e \in Int /\ today <= e /\ e < day
      BY <1>1, <1>3
    <2>2. CASE kind = "DAILY"
      <3>1. e = today /\ CombineLocal(first, hour) <= after /\ first = today
        BY <1>1, <2>1, <2>2
      <3> QED BY <1>4, <3>1
    <2>3. CASE kind = "WEEKLY"
      <3>1. first = today + delta /\ second = first + DaysPerWeek
        BY <2>3
      <3>2. CASE e < first
        <4>1. e < first /\ first < e + DaysPerWeek
          BY <1>1, <1>2, <2>1, <3>1, <3>2, Constants
        <4>2. Weekday(first) # Weekday(e)
          BY <1>3, <2>1, <4>1, NotThatWeekday
        <4> QED BY <1>2, <2>3, <3>1, <4>2 DEF FallsOn
      <3>3. CASE e = first
        BY <1>3, <1>4, <2>1, <3>3
      <3>4. CASE first < e
        <4>1. e < first + DaysPerWeek
          BY <1>3, <2>1, <3>1, <3>4
        <4>2. Weekday(e) # Weekday(first)
          BY <1>3, <2>1, <3>4, <4>1, NotThatWeekday
        <4> QED BY <1>2, <2>3, <3>1, <4>2 DEF FallsOn
      <3> QED BY <1>3, <2>1, <3>2, <3>3, <3>4
    <2> QED BY <2>2, <2>3
  <1>7. /\ day \in Int /\ FallsOn(kind, target, day) /\ CombineLocal(day, hour) > after
    BY <1>1, <1>3, <1>4, <1>5
  <1>8. IsTurn(kind, hour, target, after, day)
    BY <1>6, <1>7 DEF IsTurn
  <1>9. NextOccurrence(kind, hour, target, ends, after) =
          IF ends # Never /\ CombineLocal(day, hour) > ends THEN Never ELSE CombineLocal(day, hour)
    BY DEF NextOccurrence, Daily, Weekly
  <1> QED BY <1>7, <1>8, <1>9

(* The months follow each other. *)

MonthsFrom(n, f) ==
    \A m \in 1 .. n : f[m] = IF m = 1 THEN 0 ELSE f[m - 1] + MonthLengths[m - 1]

LEMMA CalendarExists ==
    ASSUME NEW n \in 0 .. Len(MonthLengths)
    PROVE  \E f \in [1 .. n -> Int] : MonthsFrom(n, f)
  <1> DEFINE T == {x \in 0 .. Len(MonthLengths) : ~ \E f \in [1 .. x -> Int] : MonthsFrom(x, f)}
  <1>1. MonthLengths \in Seq(Nat \ {0}) /\ Len(MonthLengths) \in Nat
    BY CalendarAssumption
  <1>2. ASSUME NEW x \in T, \A y \in T : x <= y PROVE FALSE
    <2>1. x \in 0 .. Len(MonthLengths) /\ ~ \E f \in [1 .. x -> Int] : MonthsFrom(x, f)
      BY <1>2
    <2>2. CASE x = 0
      <3> DEFINE none == [m \in 1 .. 0 |-> 0]
      <3>1. none \in [1 .. 0 -> Int] /\ MonthsFrom(0, none)
        BY DEF MonthsFrom
      <3> QED BY <2>1, <2>2, <3>1
    <2>3. CASE x # 0
      <3>1. x - 1 \in 0 .. Len(MonthLengths) /\ ~ (x <= x - 1)
        BY <1>1, <2>1, <2>3
      <3>2. x - 1 \notin T
        BY <1>2, <3>1
      <3>3. PICK f \in [1 .. x - 1 -> Int] : MonthsFrom(x - 1, f)
        BY <3>1, <3>2
      <3> DEFINE next == IF x = 1 THEN 0 ELSE f[x - 1] + MonthLengths[x - 1]
                 g == [m \in 1 .. x |-> IF m = x THEN next ELSE f[m]]
      <3>4. next \in Int
        <4>1. ASSUME x # 1 PROVE x - 1 \in 1 .. x - 1 /\ x - 1 \in 1 .. Len(MonthLengths)
          BY <1>1, <2>1, <2>3, <4>1
        <4> QED BY <1>1, <4>1
      <3>5. g \in [1 .. x -> Int]
        <4> HIDE DEF next
        <4>1. \A m \in 1 .. x : m # x => m \in 1 .. x - 1
          BY <1>1, <2>1
        <4> QED BY <3>4, <4>1
      <3>6. ASSUME NEW m \in 1 .. x
            PROVE  g[m] = IF m = 1 THEN 0 ELSE g[m - 1] + MonthLengths[m - 1]
        <4>1. m # 1 => m - 1 \in 1 .. x /\ m - 1 # x /\ g[m - 1] = f[m - 1]
          BY <1>1, <2>1
        <4>2. CASE m = x
          BY <4>1, <4>2
        <4>3. CASE m # x
          <5>1. m \in 1 .. x - 1 /\ g[m] = f[m]
            BY <1>1, <2>1, <4>3
          <5> QED BY <3>3, <4>1, <5>1 DEF MonthsFrom
        <4> QED BY <4>2, <4>3
      <3>7. MonthsFrom(x, g)
        <4> HIDE DEF g
        <4> QED BY <3>6 DEF MonthsFrom
      <3> QED BY <2>1, <3>5, <3>7
    <2> QED BY <2>2, <2>3
  <1>3. T \in SUBSET Nat
    BY <1>1
  <1> HIDE DEF T
  <1>4. T = {}
    BY <1>2, <1>3, Smallest
  <1> QED BY <1>4 DEF T

LEMMA MonthStarts ==
    /\ MonthStart \in [Months -> Int]
    /\ \A m \in Months : MonthStart[m] = IF m = 1 THEN 0 ELSE MonthStart[m - 1] + MonthLengths[m - 1]
  <1> DEFINE Def(f) == f = [m \in Months |-> IF m = 1 THEN 0 ELSE f[m - 1] + MonthLengths[m - 1]]
  <1>1. Len(MonthLengths) \in 0 .. Len(MonthLengths)
    BY CalendarAssumption
  <1>2. PICK f \in [Months -> Int] : MonthsFrom(Len(MonthLengths), f)
    BY <1>1, CalendarExists DEF Months
  <1>3. Def(f)
    BY <1>2 DEF MonthsFrom, Months
  <1>4. MonthStart = CHOOSE g : Def(g)
    BY DEF MonthStart
  <1>5. Def(MonthStart)
    <2> HIDE DEF Def
    <2> QED BY <1>3, <1>4
  <1>6. \A m \in Months : MonthStart[m] = IF m = 1 THEN 0 ELSE MonthStart[m - 1] + MonthLengths[m - 1]
    BY <1>5
  <1>7. MonthStart = [m \in Months |-> MonthStart[m]]
    BY <1>5
  <1> DEFINE T == {m \in Months : MonthStart[m] \notin Int}
  <1>8. ASSUME NEW x \in T, \A y \in T : x <= y PROVE FALSE
    <2>1. x \in Nat /\ x \in Months /\ MonthLengths \in Seq(Nat \ {0}) /\ x <= Len(MonthLengths)
      BY CalendarAssumption DEF Months
    <2>2. CASE x = 1
      BY <1>6, <1>8, <2>2
    <2>3. CASE x # 1
      <3>1. x - 1 \in 1 .. Len(MonthLengths) /\ ~ (x <= x - 1)
        BY <2>1, <2>3 DEF Months
      <3>2. MonthStart[x - 1] \in Int
        BY <1>8, <3>1 DEF Months
      <3>3. MonthLengths[x - 1] \in Int
        BY <2>1, <3>1
      <3>4. MonthStart[x] \in Int
        BY <1>6, <2>1, <2>3, <3>2, <3>3
      <3> QED BY <1>8, <3>4
    <2> QED BY <2>2, <2>3
  <1>9. T \in SUBSET Nat
    BY CalendarAssumption DEF Months
  <1>10. T = {}
    <2> HIDE DEF T
    <2> QED BY <1>8, <1>9, Smallest
  <1> QED BY <1>6, <1>7, <1>10

LEMMA MonthsTyped ==
    /\ Months = 1 .. Len(MonthLengths) /\ Len(MonthLengths) \in Nat
    /\ \A x \in Months : MonthLengths[x] \in Int /\ MonthLengths[x] > 0 /\ MonthStart[x] \in Int
  BY CalendarAssumption, MonthStarts DEF Months

\* A month ends where the next one starts, and months are apart.
LEMMA MonthsApart ==
    ASSUME NEW m \in Months, NEW n \in Months, m < n
    PROVE  MonthStart[m] + MonthLengths[m] <= MonthStart[n]
  <1> DEFINE T == {x \in Months : m < x /\ ~ (MonthStart[m] + MonthLengths[m] <= MonthStart[x])}
  <1>1. /\ Months = 1 .. Len(MonthLengths) /\ Len(MonthLengths) \in Nat
        /\ \A x \in Months : MonthLengths[x] \in Int /\ MonthLengths[x] > 0 /\ MonthStart[x] \in Int
    BY MonthsTyped
  <1>2. ASSUME NEW x \in T, \A y \in T : x <= y PROVE FALSE
    <2>1. x \in Months /\ m < x /\ x \in Int /\ m \in Int /\ x - 1 \in Months /\ x # 1
      BY <1>1
    <2>2. MonthStart[x] = MonthStart[x - 1] + MonthLengths[x - 1]
      BY <2>1, MonthStarts
    <2>3. CASE x - 1 = m
      BY <1>1, <1>2, <2>1, <2>2, <2>3
    <2>4. CASE x - 1 # m
      <3>1. m < x - 1 /\ ~ (x <= x - 1)
        BY <2>1, <2>4
      <3>2. MonthStart[m] + MonthLengths[m] <= MonthStart[x - 1]
        BY <1>2, <2>1, <3>1
      <3> QED BY <1>1, <1>2, <2>1, <2>2, <3>2
    <2> QED BY <2>3, <2>4
  <1>3. T \in SUBSET Nat
    BY <1>1
  <1>4. T = {}
    <2> HIDE DEF T
    <2> QED BY <1>2, <1>3, Smallest
  <1> QED BY <1>4

LEMMA TheMonth ==
    ASSUME NEW m \in Months, NEW day \in Int, InMonth(m, day)
    PROVE  MonthOf(day) = m
  <1>1. /\ Months = 1 .. Len(MonthLengths) /\ Len(MonthLengths) \in Nat
        /\ \A x \in Months : MonthLengths[x] \in Int /\ MonthLengths[x] > 0 /\ MonthStart[x] \in Int
    BY MonthsTyped
  <1>2. ASSUME NEW n \in Months, InMonth(n, day), n # m PROVE FALSE
    <2>1. CASE m < n
      BY <1>1, <1>2, <2>1, MonthsApart DEF InMonth
    <2>2. CASE n < m
      BY <1>1, <1>2, <2>2, MonthsApart DEF InMonth
    <2> QED BY <1>1, <1>2, <2>1, <2>2
  <1>3. MonthOf(day) = CHOOSE x \in Months : InMonth(x, day)
    BY DEF MonthOf, InMonth
  <1> QED BY <1>2, <1>3

\* The day of a recurrence in a month, and the only one.
LEMMA DayOfMonth ==
    ASSUME NEW m \in Months, NEW target \in Nat, target > 0
    PROVE  /\ ClampDay(m, target) \in Int /\ InMonth(m, ClampDay(m, target))
           /\ \A day \in Int : InMonth(m, day) =>
                (FallsOn("MONTHLY", target, day) <=> day = ClampDay(m, target))
  <1>1. MonthLengths[m] \in Int /\ MonthLengths[m] > 0 /\ MonthStart[m] \in Int
    BY MonthsTyped
  <1>2. ClampDay(m, target) \in Int /\ InMonth(m, ClampDay(m, target))
    BY <1>1 DEF ClampDay, InMonth, Earlier
  <1>3. ASSUME NEW day \in Int, InMonth(m, day)
        PROVE  FallsOn("MONTHLY", target, day) <=> day = ClampDay(m, target)
    <2>1. MonthOf(day) = m
      BY <1>3, TheMonth
    <2> DEFINE inMonth == day - MonthStart[m] + 1
    <2>2. FallsOn("MONTHLY", target, day) <=>
            inMonth = target \/ (inMonth = MonthLengths[m] /\ target > MonthLengths[m])
      BY <2>1 DEF FallsOn
    <2>3. /\ inMonth \in Int /\ 0 < inMonth /\ inMonth <= MonthLengths[m]
          /\ day = MonthStart[m] + inMonth - 1
      BY <1>1, <1>3 DEF InMonth
    <2> HIDE DEF inMonth
    <2>4. ClampDay(m, target) =
            MonthStart[m] + (IF target < MonthLengths[m] THEN target ELSE MonthLengths[m]) - 1
      BY DEF ClampDay, Earlier
    <2> QED BY <1>1, <2>2, <2>3, <2>4
  <1> QED BY <1>2, <1>3

LEMMA MonthlyIsNext ==
    ASSUME NEW hour \in 0 .. HoursPerDay - 1, NEW target \in Nat, target > 0,
           NEW ends \in Int, NEW after \in Int, MonthAhead(DayOf(ToLocal(after)))
    PROVE  \E day \in Int :
             /\ IsTurn("MONTHLY", hour, target, after, day)
             /\ NextOccurrence("MONTHLY", hour, target, ends, after) =
                  IF ends # Never /\ CombineLocal(day, hour) > ends THEN Never
                  ELSE CombineLocal(day, hour)
  <1> DEFINE today == DayOf(ToLocal(after))
  <1>1. today \in Int
    BY Clocks, DayAndHour
  <1>2. PICK m \in Months : m + 1 \in Months /\ InMonth(m, today)
    BY DEF MonthAhead
  <1> DEFINE first == ClampDay(m, target)
             second == ClampDay(m + 1, target)
             day == IF CombineLocal(first, hour) <= after THEN second ELSE first
  <1>3. /\ first \in Int /\ second \in Int
        /\ InMonth(m, first) /\ InMonth(m + 1, second) /\ MonthOf(today) = m
    BY <1>1, <1>2, DayOfMonth, TheMonth
  <1>4. /\ MonthStart[m] \in Int /\ MonthLengths[m] \in Int /\ MonthLengths[m + 1] \in Int
        /\ MonthStart[m + 1] = MonthStart[m] + MonthLengths[m]
    <2>1. m \in Nat /\ m + 1 # 1 /\ (m + 1) - 1 = m
      BY DEF Months
    <2>2. MonthStart[m + 1] = MonthStart[m] + MonthLengths[m]
      BY <1>2, <2>1, MonthStarts
    <2> QED BY <1>2, <2>2, MonthsTyped
  <1>5. today < second /\ CombineLocal(second, hour) > after
    <2>1. today < second
      <3> HIDE DEF today, second
      <3> QED BY <1>1, <1>2, <1>3, <1>4 DEF InMonth
    <2> QED BY <1>3, <2>1, LaterDayIsAhead
  <1>6. CombineLocal(first, hour) \in Int
    <2>1. At(first, hour) \in Int /\ CombineLocal(first, hour) = ToUtc(At(first, hour))
      BY <1>3, Combined, AtDayAndHour
    <2> QED BY <2>1, Clocks
  <1>7. FallsOn("MONTHLY", target, first) /\ FallsOn("MONTHLY", target, second)
    BY <1>2, <1>3, DayOfMonth
  <1>8. ASSUME NEW e \in today .. day - 1
        PROVE  ~ (FallsOn("MONTHLY", target, e) /\ CombineLocal(e, hour) > after)
    <2>1. e \in Int /\ today <= e /\ e < day /\ (day = first \/ (day = second /\ CombineLocal(first, hour) <= after))
      BY <1>1, <1>3
    <2>2. CASE InMonth(m, e)
      <3>1. FallsOn("MONTHLY", target, e) => e = first
        BY <2>1, <2>2, DayOfMonth
      <3>2. e = first => CombineLocal(first, hour) <= after
        BY <1>3, <2>1
      <3> QED BY <1>6, <3>1, <3>2
    <2>3. CASE ~ InMonth(m, e)
      <3>1. MonthStart[m + 1] <= e
        <4> HIDE DEF today, day, first, second
        <4> QED BY <1>1, <1>2, <1>4, <2>1, <2>3 DEF InMonth
      <3>2. day = second
        <4> HIDE DEF today, day, first, second
        <4> QED BY <1>3, <1>4, <2>1, <3>1 DEF InMonth
      <3>3. InMonth(m + 1, e) /\ e # second
        <4> HIDE DEF today, day, first, second
        <4> QED BY <1>3, <1>4, <2>1, <3>1, <3>2 DEF InMonth
      <3>4. ~ FallsOn("MONTHLY", target, e)
        BY <1>2, <2>1, <3>3, DayOfMonth
      <3> QED BY <3>4
    <2> QED BY <2>2, <2>3
  <1>9. /\ day \in Int /\ FallsOn("MONTHLY", target, day) /\ CombineLocal(day, hour) > after
    BY <1>3, <1>5, <1>6, <1>7
  <1>10. IsTurn("MONTHLY", hour, target, after, day)
    <2> HIDE DEF day
    <2> QED BY <1>8, <1>9 DEF IsTurn
  <1>11. NextOccurrence("MONTHLY", hour, target, ends, after) =
          IF ends # Never /\ CombineLocal(day, hour) > ends THEN Never ELSE CombineLocal(day, hour)
    BY <1>3 DEF NextOccurrence, Monthly
  <1> QED BY <1>9, <1>10, <1>11

\* next_occurrence: the first day of the recurrence whose hour is still ahead, today
\* included, whatever the clocks do, the last day of a month that is too short, and
\* none past the end date.
THEOREM OccurrenceIsNext ==
    ASSUME NEW kind \in Recurrence \ {"ONCE"}, NEW hour \in 0 .. HoursPerDay - 1,
           NEW target \in Nat, NEW ends \in Int, NEW after \in Int,
           kind = "WEEKLY" => target < DaysPerWeek,
           kind = "MONTHLY" => target > 0 /\ MonthAhead(DayOf(ToLocal(after)))
    PROVE  \E day \in Int :
             /\ IsTurn(kind, hour, target, after, day)
             /\ NextOccurrence(kind, hour, target, ends, after) =
                  IF ends # Never /\ CombineLocal(day, hour) > ends THEN Never
                  ELSE CombineLocal(day, hour)
  <1>1. CASE kind = "MONTHLY"
    BY <1>1, MonthlyIsNext
  <1>2. CASE kind = "WEEKLY"
    <2>1. target \in 0 .. DaysPerWeek - 1
      BY <1>2, Constants
    <2>2. \E day \in Int :
            /\ IsTurn("WEEKLY", hour, target, after, day)
            /\ NextOccurrence("WEEKLY", hour, target, ends, after) =
                 IF ends # Never /\ CombineLocal(day, hour) > ends THEN Never
                 ELSE CombineLocal(day, hour)
      BY <2>1, DailyOrWeekly
    <2> QED BY <1>2, <2>2
  <1>3. CASE kind = "DAILY"
    <2>1. 0 \in 0 .. DaysPerWeek - 1
      BY Constants
    <2>2. PICK day \in Int :
            /\ IsTurn("DAILY", hour, 0, after, day)
            /\ NextOccurrence("DAILY", hour, 0, ends, after) =
                 IF ends # Never /\ CombineLocal(day, hour) > ends THEN Never
                 ELSE CombineLocal(day, hour)
      BY <2>1, DailyOrWeekly
    <2>3. IsTurn("DAILY", hour, target, after, day)
      BY <2>2 DEF IsTurn, FallsOn
    <2>4. NextOccurrence("DAILY", hour, target, ends, after) = NextOccurrence("DAILY", hour, 0, ends, after)
      BY DEF NextOccurrence
    <2> QED BY <1>3, <2>2, <2>3, <2>4
  <1> QED BY <1>1, <1>2, <1>3 DEF Recurrence

---------------------------------------------------------------------------
(* The nudge. *)

\* clamp_to_window finds the last open hour that is not later.
LEMMA Clamped ==
    ASSUME OpenByDay, NEW due \in Int
    PROVE  LET c == ClampToWindow(due) IN
           /\ c \in Int /\ IsOpen(c) /\ c <= due /\ due < c + HoursPerDay
           /\ \A x \in c + 1 .. due : ~ IsOpen(x)
  <1> DEFINE d == DayOf(due)
             h == HourOf(due)
             c == ClampToWindow(due)
  <1>1. /\ d \in Int /\ h \in 0 .. HoursPerDay - 1 /\ due = At(d, h)
    BY DayAndHour
  <1>2. /\ OpenHour \in Nat /\ CloseHour \in Nat /\ LastSlot \in 0 .. HoursPerDay - 1
        /\ OpenHour <= LastSlot /\ LastSlot < CloseHour /\ LastSlot + 1 = CloseHour
    BY PatternAssumption, Constants DEF OpenByDay, LastSlot
  <1>3. CASE OpenHour <= h /\ h < CloseHour
    BY <1>1, <1>2, <1>3, Constants DEF ClampToWindow, IsOpen
  <1>4. ASSUME NEW e \in Int, c = At(e, LastSlot), c < due,
               (e = d /\ LastSlot < h) \/ (e = d - 1 /\ h < OpenHour)
        PROVE  /\ c \in Int /\ IsOpen(c) /\ due < c + HoursPerDay
               /\ \A x \in c + 1 .. due : ~ IsOpen(x)
    <2>1. c \in Int /\ IsOpen(c)
      BY <1>2, <1>4, AtDayAndHour DEF IsOpen
    <2>2. due < c + HoursPerDay
      <3>1. (d - 1) * HoursPerDay = d * HoursPerDay - HoursPerDay /\ d * HoursPerDay \in Int
        BY <1>1, Constants
      <3> QED BY <1>1, <1>2, <1>4, <3>1, Constants DEF At
    <2>3. ASSUME NEW x \in c + 1 .. due PROVE ~ IsOpen(x)
      <3>1. x \in Int /\ c < x /\ x <= due
        BY <2>1
      <3>2. /\ DayOf(x) \in Int /\ HourOf(x) \in 0 .. HoursPerDay - 1
            /\ x = At(DayOf(x), HourOf(x))
        BY <3>1, DayAndHour
      <3>3. e < DayOf(x) \/ (e = DayOf(x) /\ LastSlot < HourOf(x))
        BY <1>2, <1>4, <3>1, <3>2, DaysInOrder
      <3>4. ~ (At(d, h) < At(DayOf(x), HourOf(x)))
        BY <1>1, <3>1, <3>2
      <3>5. ~ (d < DayOf(x) \/ (d = DayOf(x) /\ h < HourOf(x)))
        BY <1>1, <3>2, <3>4, DaysInOrder
      <3> QED BY <1>1, <1>2, <1>4, <3>2, <3>3, <3>5 DEF IsOpen
    <2> QED BY <2>1, <2>2, <2>3
  <1>5. CASE h >= CloseHour
    <2>1. c = At(d, LastSlot) /\ LastSlot < h
      BY <1>1, <1>2, <1>5 DEF ClampToWindow
    <2>2. c < due
      BY <1>1, <1>2, <2>1, DaysInOrder
    <2>3. due \in Int /\ c \in Int
      BY <1>1, <1>2, <2>1, AtDayAndHour
    <2>4. c <= due
      BY <2>2, <2>3
    <2> QED BY <1>1, <1>4, <2>1, <2>2, <2>4
  <1>6. CASE h < OpenHour
    <2>1. c = At(d - 1, LastSlot) /\ d - 1 \in Int /\ d - 1 < d
      BY <1>1, <1>2, <1>6 DEF ClampToWindow
    <2>2. c < due
      BY <1>1, <1>2, <2>1, DaysInOrder
    <2>3. due \in Int /\ c \in Int
      BY <1>1, <1>2, <2>1, AtDayAndHour
    <2>4. c <= due
      BY <2>2, <2>3
    <2> QED BY <1>1, <1>4, <1>6, <2>1, <2>2, <2>4
  <1>7. h \in Int
    BY <1>1
  <1> HIDE DEF c
  <1>8. /\ c \in Int /\ IsOpen(c) /\ c <= due /\ due < c + HoursPerDay
        /\ \A x \in c + 1 .. due : ~ IsOpen(x)
    BY <1>2, <1>3, <1>5, <1>6, <1>7 DEF c
  <1> QED BY <1>8 DEF c
\* next_nudge_time: the usual hour of one of their days, ahead of `after`.
LEMMA Aimed ==
    ASSUME NEW pattern \in Pattern, NEW after \in Int, NEW leadDays \in Nat
    PROVE  \E day \in Int :
             /\ NextNudgeTime(pattern, after, leadDays) = At(day, pattern.hour)
             /\ Weekday(day) = (pattern.weekday - leadDays) % DaysPerWeek
             /\ after < At(day, pattern.hour)
  <1> DEFINE target == (pattern.weekday - leadDays) % DaysPerWeek
             today == DayOf(after)
             ahead == (target - Weekday(today)) % DaysPerWeek
             hour == pattern.hour
             candidate == At(today + ahead, hour)
  <1>1. /\ pattern.weekday - leadDays \in Int /\ hour \in 0 .. HoursPerDay - 1
        /\ HoursPerDay \in Nat /\ DaysPerWeek \in Nat /\ DaysPerWeek > 0
    BY Constants DEF Pattern
  <1>2. target \in 0 .. DaysPerWeek - 1
    BY <1>1, Weeks DEF Weekday
  <1>3. /\ today \in Int /\ HourOf(after) \in 0 .. HoursPerDay - 1
        /\ after = At(today, HourOf(after))
    BY DayAndHour
  <1>4. ahead \in 0 .. DaysPerWeek - 1 /\ Weekday(today + ahead) = target
    BY <1>2, <1>3, NextWeekday
  <1>5. candidate \in Int /\ today + ahead \in Int
    <2>1. today + ahead \in Int
      <3> HIDE DEF today, ahead
      <3> QED BY <1>1, <1>3, <1>4
    <2> HIDE DEF today, ahead, hour
    <2>2. candidate \in Int
      BY <1>1, <2>1, AtDayAndHour
    <2> QED BY <2>1, <2>2
  <1>6. NextNudgeTime(pattern, after, leadDays) =
          IF candidate <= after THEN candidate + DaysPerWeek * HoursPerDay ELSE candidate
    BY DEF NextNudgeTime
  <1>7. CASE candidate <= after
    <2> DEFINE day == today + ahead + 1 * DaysPerWeek
    <2>1. day \in Int /\ Weekday(day) = target
      BY <1>4, <1>5, WeeksLater
    <2>2. today < day
      BY <1>1, <1>3, <1>4
    <2>3. At(day, hour) = candidate + DaysPerWeek * HoursPerDay
      <3>1. \A a, b \in Int : (a + b) * HoursPerDay = a * HoursPerDay + b * HoursPerDay
        BY Constants
      <3>2. (today + ahead + 1 * DaysPerWeek) * HoursPerDay
              = (today + ahead) * HoursPerDay + DaysPerWeek * HoursPerDay
        BY <1>1, <1>5, <3>1
      <3>3. (today + ahead) * HoursPerDay \in Int /\ DaysPerWeek * HoursPerDay \in Int
        BY <1>1, <1>5
      <3> QED BY <1>1, <3>2, <3>3 DEF At
    <2>4. after < At(day, hour)
      BY <1>1, <1>3, <2>1, <2>2, DaysInOrder
    <2> QED BY <1>6, <1>7, <2>1, <2>3, <2>4
  <1>8. CASE ~ (candidate <= after)
    BY <1>4, <1>5, <1>6, <1>8
  <1> QED BY <1>7, <1>8

\* _due_from_pattern, for any pattern, leads and hours of business: the nudge goes
\* out ahead of now and in the open hours, in the last of them that is not later
\* than the customer's usual time on their day, less the lead, wherever the clocks
\* change outside of business hours.
THEOREM NudgeIsTimed ==
    ASSUME OpenByDay, NEW pattern \in Pattern, pattern.has, NEW after \in Int,
           NEW leadDays \in Nat, NEW leadHours \in Nat
    PROVE  IsTheirTime(pattern, after, leadDays, leadHours,
                       DueFromPattern(pattern, after, leadDays, leadHours))
  <1> DEFINE now == ToLocal(after)
             aimed == NextNudgeTime(pattern, now, leadDays) - leadHours
             week == DaysPerWeek * HoursPerDay
             Week(k) == ClampToWindow(aimed + k * DaysPerWeek * HoursPerDay)
             T == {k \in 0 .. leadHours + 2 : Week(k) > now}
             hour == pattern.hour
             target == (pattern.weekday - leadDays) % DaysPerWeek
  <1>1. /\ hour \in 0 .. HoursPerDay - 1 /\ now \in Int
        /\ HoursPerDay \in Nat /\ HoursPerDay > 0 /\ DaysPerWeek \in Nat /\ DaysPerWeek > 0
    BY Constants, Clocks DEF Pattern
  <1>2. PICK day \in Int :
          /\ NextNudgeTime(pattern, now, leadDays) = At(day, hour)
          /\ Weekday(day) = target /\ now < At(day, hour)
    BY <1>1, Aimed
  <1>3. aimed = At(day, hour) - leadHours /\ aimed \in Int /\ now - leadHours < aimed
    <2>1. At(day, hour) \in Int
      BY <1>1, <1>2, AtDayAndHour
    <2>2. aimed = At(day, hour) - leadHours
      BY <1>2
    <2> HIDE DEF aimed, now, hour
    <2> QED BY <1>1, <1>2, <2>1, <2>2
  <1>4. week \in Nat /\ week >= HoursPerDay
    BY <1>1
  <1>5. ASSUME NEW k \in Nat
        PROVE  /\ k * DaysPerWeek * HoursPerDay = k * week /\ k * week \in Nat /\ k * week >= k
               /\ aimed + k * DaysPerWeek * HoursPerDay \in Int
    <2>1. k * DaysPerWeek * HoursPerDay = k * week
      BY <1>1, <1>5
    <2> HIDE DEF week
    <2>2. k * week \in Nat /\ k * week >= k
      BY <1>1, <1>4, <1>5
    <2> HIDE DEF aimed
    <2> QED BY <1>3, <2>1, <2>2
  <1>6. ASSUME NEW k \in Nat
        PROVE  LET to == aimed + k * DaysPerWeek * HoursPerDay IN
               /\ Week(k) \in Int /\ IsOpen(Week(k)) /\ Week(k) <= to /\ to < Week(k) + HoursPerDay
               /\ \A x \in Week(k) + 1 .. to : ~ IsOpen(x)
    BY <1>5, <1>6, Clamped
  <1>7. leadHours + 2 \in T
    <2> DEFINE k == leadHours + 2
    <2>1. /\ k \in Nat /\ k * week = leadHours * week + 2 * week
          /\ leadHours * week \in Nat /\ leadHours * week >= leadHours /\ 2 * week = week + week
      <3> HIDE DEF week
      <3> QED BY <1>1, <1>4
    <2>2. Week(k) \in Int /\ aimed + k * week < Week(k) + HoursPerDay
      BY <1>5, <1>6, <2>1
    <2> HIDE DEF week, Week, k, aimed
    <2>3. Week(k) > now
      BY <1>1, <1>3, <1>4, <2>1, <2>2
    <2> QED BY <2>1, <2>3 DEF k
  <1>8. PICK weeks \in T : \A j \in T : weeks <= j
    <2>1. T \in SUBSET Nat
      BY <1>1
    <2> HIDE DEF T
    <2> QED BY <1>7, <2>1, Smallest
  <1>9. \E k \in 0 .. leadHours + 2 : Week(k) > now /\ \A j \in 0 .. k - 1 : Week(j) <= now
    <2>1. weeks \in 0 .. leadHours + 2 /\ Week(weeks) > now
      BY <1>8
    <2>2. ASSUME NEW j \in 0 .. weeks - 1 PROVE Week(j) <= now
      <3>1. j \in Nat /\ j \in 0 .. leadHours + 2 /\ ~ (weeks <= j)
        BY <2>1
      <3>2. j \notin T
        BY <1>8, <3>1
      <3>3. Week(j) \in Int /\ ~ (Week(j) > now)
        BY <1>6, <3>1, <3>2
      <3> HIDE DEF Week
      <3> QED BY <1>1, <3>3
    <2> QED BY <2>1, <2>2
  <1>10. PICK k \in 0 .. leadHours + 2 :
           /\ Week(k) > now
           /\ DueFromPattern(pattern, after, leadDays, leadHours) = ToUtc(Week(k))
    <2> DEFINE P(n) == Week(n) > now /\ \A j \in 0 .. n - 1 : Week(j) <= now
               chosen == CHOOSE n \in 0 .. leadHours + 2 : P(n)
    <2>1. chosen \in 0 .. leadHours + 2 /\ P(chosen)
      <3> HIDE DEF Week
      <3> QED BY <1>9
    <2>2. DueFromPattern(pattern, after, leadDays, leadHours) = ToUtc(Week(chosen))
      BY DEF DueFromPattern
    <2> HIDE DEF chosen
    <2> QED BY <2>1, <2>2
  <1> DEFINE local == Week(k)
             due == ToUtc(local)
             to == aimed + k * DaysPerWeek * HoursPerDay
  <1>11. /\ local \in Int /\ IsOpen(local) /\ local <= to /\ to < local + HoursPerDay
         /\ \A x \in local + 1 .. to : ~ IsOpen(x)
         /\ k \in Nat /\ to \in Int
    BY <1>1, <1>5, <1>6, <1>10
  <1>12. due > after /\ ToLocal(due) = local
    <2>1. due > after
      BY <1>10, <1>11, Clocks
    <2>2. ~ Missing(local)
      BY <1>11 DEF Missing, OpenByDay
    <2> QED BY <1>11, <2>1, <2>2, ThereAndBack
  <1> DEFINE on == day + k * DaysPerWeek
  <1>13. /\ on \in Int /\ Weekday(on) = target
         /\ to = At(on, hour) - leadHours /\ At(on, hour) \in Int
    <2>1. on \in Int /\ Weekday(on) = target
      BY <1>2, <1>11, WeeksLater
    <2>2. At(on, hour) = At(day, hour) + k * DaysPerWeek * HoursPerDay
      <3>1. \A a, b \in Int : (a + b) * HoursPerDay = a * HoursPerDay + b * HoursPerDay
        BY Constants
      <3>2. k * DaysPerWeek \in Int /\ day * HoursPerDay \in Int
            /\ (k * DaysPerWeek) * HoursPerDay \in Int
        BY <1>1, <1>11
      <3>3. on * HoursPerDay = day * HoursPerDay + (k * DaysPerWeek) * HoursPerDay
        BY <3>1, <3>2
      <3> HIDE DEF on
      <3> QED BY <1>1, <3>2, <3>3 DEF At
    <2>3. At(on, hour) \in Int /\ At(day, hour) \in Int /\ k * DaysPerWeek * HoursPerDay \in Int
      BY <1>1, <1>11, <2>1, AtDayAndHour
    <2> HIDE DEF on
    <2> QED BY <1>3, <2>1, <2>2, <2>3
  <1>14. on \in DayOf(local) .. DayOf(local) + leadHours + 2
    <2> DEFINE d == DayOf(local)
               h == HourOf(local)
    <2>1. d \in Int /\ h \in 0 .. HoursPerDay - 1 /\ local = At(d, h)
      BY <1>11, DayAndHour
    <2>2. At(d, h) <= At(on, hour) /\ At(on, hour) < At(d, h) + HoursPerDay + leadHours
      <3>1. At(d, h) <= to /\ to < At(d, h) + HoursPerDay /\ At(d, h) \in Int
        <4> HIDE DEF local, to
        <4> QED BY <1>11, <2>1
      <3>2. to = At(on, hour) - leadHours /\ At(on, hour) \in Int
        BY <1>13
      <3> HIDE DEF local, to, on, d, h, hour
      <3> QED BY <1>1, <1>11, <3>1, <3>2
    <2>3. d <= on
      <3>1. ~ (At(on, hour) < At(d, h))
        BY <1>1, <1>13, <2>1, <2>2, AtDayAndHour
      <3> HIDE DEF on, d, h
      <3> QED BY <1>1, <1>13, <2>1, <3>1, DaysInOrder
    <2>4. on <= d + leadHours + 2
      <3> DEFINE last == d + leadHours + 2
      <3>1. last \in Int /\ last * HoursPerDay = d * HoursPerDay + (leadHours + 2) * HoursPerDay
        BY <1>1, <2>1
      <3>2. (leadHours + 2) * HoursPerDay >= leadHours + HoursPerDay + HoursPerDay
        <4>1. leadHours * HoursPerDay >= leadHours /\ leadHours * HoursPerDay \in Int
          BY <1>1
        <4>2. (leadHours + 2) * HoursPerDay = leadHours * HoursPerDay + 2 * HoursPerDay
          BY <1>1
        <4> QED BY <1>1, <4>1, <4>2
      <3>3. /\ At(on, hour) < At(last, 0)
        <4> HIDE DEF last, on, d, h
        <4>1. d * HoursPerDay \in Int /\ last * HoursPerDay \in Int /\ (leadHours + 2) * HoursPerDay \in Int
          BY <1>1, <2>1, <3>1
        <4> QED BY <1>1, <1>13, <2>1, <2>2, <3>1, <3>2, <4>1 DEF At
      <3>4. on < last \/ (on = last /\ hour < 0)
        <4> HIDE DEF last, on
        <4> QED BY <1>1, <1>13, <3>1, <3>3, DaysInOrder
      <3> QED BY <1>1, <1>13, <2>1, <3>1, <3>4
    <2>5. on \in d .. d + leadHours + 2
      <3> HIDE DEF on, d
      <3> QED BY <1>13, <2>1, <2>3, <2>4
    <2> QED BY <2>5
  <1> HIDE DEF local, to, on, due
  <1>15. IsTheirTime(pattern, after, leadDays, leadHours, due)
    BY <1>11, <1>12, <1>13, <1>14 DEF IsTheirTime
  <1> QED BY <1>10, <1>15 DEF due, local
---------------------------------------------------------------------------
(* The ranking. *)

Ranking == [recency : Nat \union {NoDay}, frequency : Nat, money : Nat]
FourBreaks == [1 .. 4 -> Int]

LEMMA RankKeepsOrder ==
    ASSUME NEW v \in Int, NEW w \in Int, v <= w, NEW breaks \in FourBreaks
    PROVE  /\ Rank(v, breaks) \in 1 .. 5 /\ Rank(w, breaks) \in 1 .. 5
           /\ Rank(v, breaks) <= Rank(w, breaks)
  <1> DEFINE First(x, k) == (k < 5 => x <= breaks[k]) /\ \A j \in 1 .. k - 1 : x > breaks[j]
  <1>1. ASSUME NEW x \in Int
        PROVE  Rank(x, breaks) \in 1 .. 5 /\ First(x, Rank(x, breaks))
    <2>1. \E k \in 1 .. 5 : First(x, k)
      <3>1. CASE x <= breaks[1]
        BY <3>1
      <3>2. CASE x > breaks[1] /\ x <= breaks[2]
        BY <3>2
      <3>3. CASE x > breaks[1] /\ x > breaks[2] /\ x <= breaks[3]
        BY <3>3
      <3>4. CASE x > breaks[1] /\ x > breaks[2] /\ x > breaks[3] /\ x <= breaks[4]
        BY <3>4
      <3>5. CASE x > breaks[1] /\ x > breaks[2] /\ x > breaks[3] /\ x > breaks[4]
        BY <3>5
      <3> QED BY <3>1, <3>2, <3>3, <3>4, <3>5 DEF FourBreaks
    <2> QED BY <2>1 DEF Rank
  <1>2. ASSUME Rank(w, breaks) < Rank(v, breaks) PROVE FALSE
    <2>1. Rank(w, breaks) \in 1 .. 4 /\ w <= breaks[Rank(w, breaks)]
      BY <1>1, <1>2
    <2>2. v > breaks[Rank(w, breaks)]
      BY <1>1, <1>2, <2>1
    <2> QED BY <2>1, <2>2 DEF FourBreaks
  <1> QED BY <1>1, <1>2

\* Who is filed among the lost.
LEMMA Segments ==
    ASSUME NEW s, s.r \in 1 .. 5, s.f \in 1 .. 5, s.m \in 1 .. 5
    PROVE  RfmSegment(s) = "Lost" <=> s.r <= 2 /\ s.f + s.m < 4
  BY DEF RfmSegment

\* score_population and classify_rfm_segment, whatever the breaks of the three
\* dimensions are, quantiles or bands: who has ordered at least as recently, as
\* often and as much is scored no lower in any dimension, and never filed among
\* the lost while the other is not.
THEOREM RankingKeepsOrder ==
    ASSUME NEW a \in Ranking, NEW b \in Ranking, OrdersNoLess(a, b),
           NEW recency \in FourBreaks, NEW frequency \in FourBreaks, NEW money \in FourBreaks
    PROVE  LET A == Score(a, recency, frequency, money)
               B == Score(b, recency, frequency, money)
           IN /\ A.r >= B.r /\ A.f >= B.f /\ A.m >= B.m
              /\ SegmentOf(a, A) = "Lost" => SegmentOf(b, B) \in {"Lost", "Prospects"}
  <1> DEFINE A == Score(a, recency, frequency, money)
             B == Score(b, recency, frequency, money)
  <1>1. a.recency \in Int /\ a.frequency \in Int /\ a.money \in Int
        /\ b.recency \in Int /\ b.frequency \in Int /\ b.money \in Int
    BY DEF Ranking, NoDay
  <1>2. Scored(a)
    BY DEF OrdersNoLess
  <1>3. A = [r |-> 6 - Rank(a.recency, recency), f |-> Rank(a.frequency, frequency),
             m |-> Rank(a.money, money)]
    BY <1>2 DEF Score, ScoreDescending, ScoreAscending
  <1>4. A.r \in 1 .. 5 /\ A.f \in 1 .. 5 /\ A.m \in 1 .. 5
    BY <1>1, <1>3, RankKeepsOrder
  <1>5. /\ B.r \in 1 .. 5 /\ B.f \in 1 .. 5 /\ B.m \in 1 .. 5
        /\ A.r >= B.r /\ A.f >= B.f /\ A.m >= B.m
    <2>1. CASE ~ Scored(b)
      BY <1>4, <2>1 DEF Score
    <2>2. CASE Scored(b)
      <3>1. a.recency <= b.recency /\ b.frequency <= a.frequency /\ b.money <= a.money
        BY <1>1, <2>2 DEF OrdersNoLess
      <3>2. B = [r |-> 6 - Rank(b.recency, recency), f |-> Rank(b.frequency, frequency),
                 m |-> Rank(b.money, money)]
        BY <2>2 DEF Score, ScoreDescending, ScoreAscending
      <3>3. /\ Rank(a.recency, recency) \in 1 .. 5 /\ Rank(b.recency, recency) \in 1 .. 5
            /\ Rank(a.recency, recency) <= Rank(b.recency, recency)
        BY <1>1, <3>1, RankKeepsOrder
      <3>4. /\ Rank(a.frequency, frequency) \in 1 .. 5 /\ Rank(b.frequency, frequency) \in 1 .. 5
            /\ Rank(b.frequency, frequency) <= Rank(a.frequency, frequency)
        BY <1>1, <3>1, RankKeepsOrder
      <3>5. /\ Rank(a.money, money) \in 1 .. 5 /\ Rank(b.money, money) \in 1 .. 5
            /\ Rank(b.money, money) <= Rank(a.money, money)
        BY <1>1, <3>1, RankKeepsOrder
      <3> QED BY <1>3, <3>2, <3>3, <3>4, <3>5
    <2> QED BY <2>1, <2>2
  <1> HIDE DEF A, B
  <1>6. ASSUME RfmSegment(A) = "Lost" PROVE A.r <= 2 /\ A.f + A.m < 4
    BY <1>4, <1>6, Segments
  <1>7. B.r <= 2 /\ B.f + B.m < 4 => RfmSegment(B) = "Lost"
    BY <1>5, Segments
  <1>8. SegmentOf(a, A) = "Lost" => SegmentOf(b, B) \in {"Lost", "Prospects"}
    BY <1>2, <1>4, <1>5, <1>6, <1>7 DEF SegmentOf
  <1> QED BY <1>5, <1>8 DEF A, B
---------------------------------------------------------------------------
(* The silence of a customer. *)

\* What is read of a history.
History ==
    [total : Nat, completed : Nat, problems : Nat, revenue : Nat,
     sinceLast : Nat \union {NoDay}, sinceFirst : Nat \union {NoDay},
     median : Nat, average : Nat, last30 : Nat, last90 : Nat, prev90 : Nat, revenue90 : Nat,
     spendTrend : -100 .. 100, frequencyTrend : -100 .. 100, dependency : 0 .. 100,
     engagement : 0 .. 100]

\* The same orders, read as many days later.
ReadLater(m, later, days) ==
    /\ \A field \in {"total", "completed", "problems", "revenue", "median", "average"} :
          later[field] = m[field]
    /\ m.completed > 0 =>
          /\ m.sinceLast # NoDay /\ later.sinceLast = m.sinceLast + days
          /\ m.sinceFirst # NoDay /\ later.sinceFirst = m.sinceFirst + days

LEMMA Cycles ==
    ASSUME NEW m \in History
    PROVE  /\ ExpectedCycle(m) \in Nat
           /\ AtRiskCut(ExpectedCycle(m)) \in Int
           /\ DormantCut(ExpectedCycle(m)) \in Nat
           /\ ChurnedCut(ExpectedCycle(m)) \in Nat
           /\ DormantCut(ExpectedCycle(m)) >= 3 * ExpectedCycle(m)
           /\ DormantCut(ExpectedCycle(m)) >= 12000
           /\ DormantCut(ExpectedCycle(m)) <= ChurnedCut(ExpectedCycle(m))
  <1>1. ExpectedCycle(m) \in Nat
    BY DEF History, ExpectedCycle, Threshold
  <1> QED BY <1>1 DEF AtRiskCut, DormantCut, ChurnedCut, Larger, Threshold

\* How far gone a customer with an order is, by the days of silence alone.
LEMMA LapseBySilence ==
    ASSUME NEW m \in History, m.completed > 0, NEW tenure \in Int, NEW cameBack \in BOOLEAN
    PROVE  LET silent == 100 * m.sinceLast
               cycle == ExpectedCycle(m)
           IN Lapse[Lifecycle(m, tenure, cameBack)] =
                IF silent >= ChurnedCut(cycle) THEN 3
                ELSE IF silent >= DormantCut(cycle) THEN 2
                ELSE IF silent >= AtRiskCut(cycle) THEN 1 ELSE 0
  <1>1. Tier(m, cameBack) \in Stage \ {"CHURNED", "DORMANT", "AT_RISK"}
    BY DEF Tier, Stage
  <1>2. \A stage \in Stage \ {"CHURNED", "DORMANT", "AT_RISK"} : Lapse[stage] = 0
    BY DEF Lapse, Stage
  <1>3. /\ Lapse["CHURNED"] = 3 /\ Lapse["DORMANT"] = 2 /\ Lapse["AT_RISK"] = 1
    BY DEF Lapse, Stage
  <1> QED BY <1>1, <1>2, <1>3 DEF Lifecycle, History

LEMMA LargerDivisor ==
    ASSUME NEW n \in Nat, NEW a \in Nat, NEW b \in Nat, 0 < a, a <= b
    PROVE  n \div b \in Nat /\ n \div a \in Nat /\ n \div b <= n \div a
  <1> DEFINE p == n \div a
             q == n \div b
  <1>1. p \in Nat /\ q \in Nat
    OBVIOUS
  <1>2. n < a * (p + 1) /\ b * q <= n
    OBVIOUS
  <1>3. a * q <= b * q
    BY <1>1
  <1>4. ASSUME p < q PROVE FALSE
    <2>1. p + 1 <= q
      BY <1>1, <1>4
    <2>2. a * (p + 1) <= a * q
      BY <1>1, <2>1
    <2> QED BY <1>1, <1>2, <1>3, <2>2
  <1> QED BY <1>1, <1>4

LEMMA YearsBySilence ==
    ASSUME NEW interval \in Nat, 0 < interval, NEW late \in Int, NEW longer \in Int, late <= longer
    PROVE  /\ YearsLeft(late, interval) \in Nat /\ YearsLeft(longer, interval) \in Nat
           /\ YearsLeft(longer, interval) <= YearsLeft(late, interval)
  <1>1. ASSUME NEW x \in Int
        PROVE  YearsLeft(x, interval) =
                 IF x <= 0 THEN 200 ELSE IF x < interval THEN 125 ELSE IF x < 3 * interval THEN 60 ELSE 20
    BY DEF YearsLeft
  <1> QED BY <1>1

\* What a customer is worth shrinks with the silence.
LEMMA WorthBySilence ==
    ASSUME NEW m \in History, NEW later \in History, NEW days \in Nat, ReadLater(m, later, days)
    PROVE  EstimatedValue(later) <= EstimatedValue(m)
  <1> DEFINE interval == UsualInterval(m)
             Years(r) == YearsLeft(100 * r.sinceLast - interval, interval)
             perYear(r) == (m.revenue * 365) \div Larger(r.sinceFirst, 1)
             low == m.revenue \div (2 * m.completed)
             high == 60 * (m.revenue \div m.completed)
             Year(r) == Clamp(low, perYear(r), high)
  <1>1. /\ later.completed = m.completed /\ later.revenue = m.revenue /\ later.median = m.median
        /\ later.average = m.average
    BY DEF ReadLater
  <1>2. CASE m.completed = 0 \/ m.revenue <= 0
    BY <1>1, <1>2 DEF EstimatedValue
  <1>3. CASE ~ (m.completed = 0 \/ m.revenue <= 0)
    <2>1. /\ m.completed \in Nat /\ m.completed > 0 /\ m.revenue \in Nat /\ interval \in Nat
          /\ interval > 0 /\ UsualInterval(later) = interval
      BY <1>1, <1>3 DEF History, UsualInterval
    <2>2. /\ m.sinceLast \in Nat /\ later.sinceLast \in Nat /\ m.sinceLast <= later.sinceLast
          /\ m.sinceFirst \in Nat /\ later.sinceFirst \in Nat /\ m.sinceFirst <= later.sinceFirst
      BY <2>1 DEF History, ReadLater, NoDay
    <2>3. Years(later) \in Nat /\ Years(m) \in Nat /\ Years(later) <= Years(m)
      <3> HIDE DEF interval
      <3>1. /\ 100 * m.sinceLast - interval \in Int /\ 100 * later.sinceLast - interval \in Int
            /\ 100 * m.sinceLast - interval <= 100 * later.sinceLast - interval
        BY <2>1, <2>2
      <3>2. interval \in Nat /\ 0 < interval
        BY <2>1
      <3> QED BY <3>1, <3>2, YearsBySilence
    <2>4. perYear(later) \in Nat /\ perYear(m) \in Nat /\ perYear(later) <= perYear(m)
      <3> DEFINE T(r) == Larger(r.sinceFirst, 1)
      <3>1. T(m) \in Nat /\ T(later) \in Nat /\ 0 < T(m) /\ T(m) <= T(later)
        BY <2>2 DEF Larger
      <3> HIDE DEF T
      <3> QED BY <2>1, <3>1, LargerDivisor DEF T
    <2>5. low \in Nat /\ high \in Nat /\ low <= high
      <3> DEFINE each == m.revenue \div m.completed
      <3>1. 2 * m.completed \in Nat /\ m.completed <= 2 * m.completed
        BY <2>1
      <3>2. low \in Nat /\ each \in Nat /\ low <= each
        BY <2>1, <3>1, LargerDivisor
      <3> HIDE DEF low, each
      <3> QED BY <3>2 DEF each
    <2> HIDE DEF perYear, low, high
    <2>6. Year(later) \in Nat /\ Year(m) \in Nat /\ Year(later) <= Year(m)
      BY <2>4, <2>5 DEF Clamp
    <2>7. /\ EstimatedValue(m) = Larger((Year(m) * Years(m)) \div 100, m.revenue)
          /\ EstimatedValue(later) = Larger((Year(later) * Years(later)) \div 100, m.revenue)
      BY <1>1, <1>3, <2>1 DEF EstimatedValue, perYear, low, high
    <2> DEFINE x == Year(later) * Years(later)
               y == Year(m) * Years(m)
    <2> HIDE DEF Year, Years
    <2>8. x \in Nat /\ y \in Nat /\ x <= y
      <3>1. x <= Year(m) * Years(later)
        BY <2>3, <2>6
      <3>2. Year(m) * Years(later) <= y
        BY <2>3, <2>6
      <3> QED BY <2>3, <2>6, <3>1, <3>2
    <2>9. x \div 100 \in Nat /\ y \div 100 \in Nat /\ x \div 100 <= y \div 100
      <3> HIDE DEF x, y
      <3> QED BY <2>8
    <2>10. Larger(x \div 100, m.revenue) <= Larger(y \div 100, m.revenue)
      <3> HIDE DEF x, y
      <3> QED BY <2>1, <2>9 DEF Larger
    <2> QED BY <2>7, <2>10
  <1> QED BY <1>2, <1>3

\* classify_lifecycle and estimate_ltv: a customer with an order who stays silent
\* is never read as less lapsed than before, nor as worth more.
THEOREM SilenceIsNoRecovery ==
    ASSUME NEW m \in History, m.completed > 0, NEW days \in Nat, NEW later \in History,
           ReadLater(m, later, days), NEW tenure \in Int,
           NEW cameBack \in BOOLEAN, NEW cameBackLater \in BOOLEAN
    PROVE  /\ Lapse[Lifecycle(later, tenure + days, cameBackLater)]
                >= Lapse[Lifecycle(m, tenure, cameBack)]
           /\ EstimatedValue(later) <= EstimatedValue(m)
  <1> DEFINE cycle == ExpectedCycle(m)
  <1>1. /\ later.completed = m.completed /\ later.median = m.median /\ later.average = m.average
        /\ later.completed > 0
    BY DEF ReadLater
  <1>2. ExpectedCycle(later) = cycle
    BY <1>1 DEF ExpectedCycle
  <1>3. m.sinceLast \in Nat /\ later.sinceLast \in Nat /\ m.sinceLast <= later.sinceLast
    BY DEF History, ReadLater, NoDay
  <1>4. /\ ChurnedCut(cycle) \in Int /\ DormantCut(cycle) \in Int
        /\ AtRiskCut(cycle) \in Int
    BY Cycles
  <1> HIDE DEF cycle
  <1>5. Lapse[Lifecycle(m, tenure, cameBack)] =
          IF 100 * m.sinceLast >= ChurnedCut(cycle) THEN 3
          ELSE IF 100 * m.sinceLast >= DormantCut(cycle) THEN 2
          ELSE IF 100 * m.sinceLast >= AtRiskCut(cycle) THEN 1 ELSE 0
    BY LapseBySilence DEF cycle
  <1>6. Lapse[Lifecycle(later, tenure + days, cameBackLater)] =
          IF 100 * later.sinceLast >= ChurnedCut(cycle) THEN 3
          ELSE IF 100 * later.sinceLast >= DormantCut(cycle) THEN 2
          ELSE IF 100 * later.sinceLast >= AtRiskCut(cycle) THEN 1 ELSE 0
    <2>1. tenure + days \in Int
      OBVIOUS
    <2> QED BY <1>1, <1>2, <2>1, LapseBySilence DEF cycle
  <1> QED BY <1>3, <1>4, <1>5, <1>6, WorthBySilence

---------------------------------------------------------------------------
(* The risk of a customer who is gone. *)

LEMMA Quotient ==
    ASSUME NEW n \in Int, NEW d \in Nat, 0 < d, NEW k \in Nat, k * d <= n
    PROVE  n \div d \in Nat /\ k <= n \div d
  <1> DEFINE q == n \div d
  <1>1. q \in Int /\ n < d * (q + 1)
    OBVIOUS
  <1>2. ASSUME q < k PROVE FALSE
    <2>1. d * (q + 1) <= d * k
      BY <1>1, <1>2
    <2>2. d * k = k * d /\ d * k \in Int /\ d * (q + 1) \in Int
      BY <1>1
    <2> QED BY <1>1, <2>1, <2>2
  <1> HIDE DEF q
  <1>3. q \in Nat /\ k <= q
    BY <1>1, <1>2
  <1> QED BY <1>3 DEF q

LEMMA Severities ==
    ASSUME NEW m \in History, m.completed > 0, NEW sent \in Nat, NEW new \in BOOLEAN
    PROVE  /\ EngagementDecline(m, sent) \in Nat
           /\ SingleOrder(m, new) \in Nat
           /\ Clamp(0, 200 * (m.dependency - 50), Full) \in Nat
           /\ OrderProblems(m) \in Nat
  <1>1. EngagementDecline(m, sent) \in Nat
    <2>1. m.engagement \in 0 .. 100
      BY DEF History
    <2>2. ASSUME m.engagement < 40 PROVE (10000 * (40 - m.engagement)) \div 40 \in Nat
      BY <2>1, <2>2
    <2> QED BY <2>2 DEF EngagementDecline, Full
  <1>2. SingleOrder(m, new) \in Nat
    <2>1. m.completed \in Nat
      BY DEF History
    <2>2. CASE m.completed = 1
      BY <2>2 DEF SingleOrder
    <2>3. CASE m.completed > 1
      BY <2>1, <2>3 DEF SingleOrder
    <2> QED BY <2>1, <2>2, <2>3
  <1>3. Clamp(0, 200 * (m.dependency - 50), Full) \in Nat
    BY DEF History, Clamp, Full
  <1>4. OrderProblems(m) \in Nat
    <2>1. m.total \in Nat /\ m.problems \in Nat
      BY DEF History
    <2>2. ASSUME m.total > 0 PROVE (2 * 10000 * m.problems) \div m.total \in Int
      BY <2>1, <2>2
    <2> QED BY <2>1, <2>2 DEF OrderProblems, Clamp, Full
  <1> QED BY <1>1, <1>2, <1>3, <1>4

\* score_churn, from classify_lifecycle: a customer whose orders have stopped is
\* never at low or medium risk, although the trends of two empty windows are flat
\* and whatever their messages, discounts and problems say. Whose last order is
\* older than the window of 90 days has none in it.
THEOREM GoneIsAtRisk ==
    ASSUME NEW m \in History, m.completed > 0, m.sinceLast # NoDay,
           m.sinceLast >= 90 => m.last90 = 0 /\ m.revenue90 = 0,
           NEW tenure \in Int, NEW cameBack \in BOOLEAN, NEW sent \in Nat,
           Lapse[Lifecycle(m, tenure, cameBack)] >= 2
    PROVE  LET stage == Lifecycle(m, tenure, cameBack)
           IN RiskBand(ChurnScore(m, ExpectedCycle(m), stage = "NEW", tenure, sent))
                \in {"HIGH", "CRITICAL"}
  <1> DEFINE own == ExpectedCycle(m)
             cycle == Larger(own, 100)
             stage == Lifecycle(m, tenure, cameBack)
             new == stage = "NEW"
  <1>1. m.sinceLast \in Nat
    BY DEF History, NoDay
  <1>2. own \in Nat /\ cycle \in Nat /\ cycle >= 100
    BY Cycles DEF Larger
  <1>3. 100 * m.sinceLast >= 3 * own /\ 100 * m.sinceLast >= 12000
    <2>1. 100 * m.sinceLast >= DormantCut(own)
      BY <1>1, Cycles, LapseBySilence
    <2> HIDE DEF own
    <2>2. /\ DormantCut(own) \in Nat /\ DormantCut(own) >= 3 * own
          /\ DormantCut(own) >= 12000
      BY Cycles DEF own
    <2> QED BY <1>1, <1>2, <2>1, <2>2
  <1>4. 100 * m.sinceLast >= 3 * cycle /\ m.sinceLast >= 90
    <2> HIDE DEF own
    <2> QED BY <1>1, <1>2, <1>3 DEF Larger
  <1>5. new = FALSE
    BY DEF Lapse, Stage
  <1> HIDE DEF own, cycle
  <1>6. Overdue(m, cycle, tenure) \in Nat /\ Overdue(m, cycle, tenure) >= 3333
    <2> DEFINE n == 10000 * (100 * m.sinceLast - cycle)
    <2>1. n \in Int /\ 6 * cycle \in Nat /\ 0 < 6 * cycle /\ 3333 * (6 * cycle) <= n
      BY <1>1, <1>2, <1>4
    <2> HIDE DEF n
    <2>2. n \div (6 * cycle) \in Nat /\ 3333 <= n \div (6 * cycle)
      BY <2>1, Quotient
    <2>3. Overdue(m, cycle, tenure) = Clamp(0, n \div (6 * cycle), 10000)
      BY DEF Overdue, Full, Saturation, n
    <2> QED BY <2>2, <2>3 DEF Clamp
  <1>7. FrequencyDecline(m) = 10000 /\ SpendDecline(m) = 10000
    BY <1>4 DEF FrequencyDecline, SpendDecline, Full, History
  <1> DEFINE quiet == EngagementDecline(m, sent)
             single == SingleOrder(m, new)
             bought == Clamp(0, 200 * (m.dependency - 50), Full)
             trouble == OrderProblems(m)
             late == Overdue(m, cycle, tenure)
             points == 40 * late + 18 * 10000 + 16 * 10000 + 8 * quiet + 10 * single
                       + 4 * bought + 4 * trouble
             score == Clamp(0, (points + 500) \div 1000, 1000)
  <1>8. ChurnScore(m, own, new, tenure, sent) = score
    BY <1>5, <1>7 DEF ChurnScore, Weight, cycle
  <1>9. points \in Nat /\ points >= 470000
    <2> HIDE DEF stage
    <2>1. quiet \in Nat /\ single \in Nat /\ bought \in Nat /\ trouble \in Nat
      BY Severities
    <2>2. late \in Nat /\ late >= 3333
      BY <1>6
    <2> HIDE DEF quiet, single, bought, trouble, late
    <2> QED BY <2>1, <2>2
  <1> HIDE DEF points
  <1>10. score \in 470 .. 1000
    BY <1>9 DEF Clamp
  <1> HIDE DEF score
  <1>11. RiskBand(score) \in {"HIGH", "CRITICAL"}
    <2>1. CASE score >= 700
      BY <1>10, <2>1 DEF RiskBand
    <2>2. CASE score < 700
      BY <1>10, <2>2 DEF RiskBand
    <2> QED BY <1>10, <2>1, <2>2
  <1> QED BY <1>8, <1>11 DEF own

---------------------------------------------------------------------------
(* Families of numbers: the order of their values. *)

\* A finite family of numbers.
Family(values) == IsFiniteSet(DOMAIN values) /\ \A i \in DOMAIN values : values[i] \in Nat

LEMMA FamilyBounded ==
    ASSUME NEW values, Family(values)
    PROVE  \E b \in Nat : \A i \in DOMAIN values : values[i] <= b
  <1> DEFINE Bounded(S) == \E b \in Nat : \A i \in S : values[i] <= b
             T == {n \in Nat : \E S \in SUBSET DOMAIN values :
                                  IsFiniteSet(S) /\ Cardinality(S) = n /\ ~ Bounded(S)}
  <1>1. ASSUME NEW n \in T, \A m \in T : n <= m PROVE FALSE
    <2>1. PICK S \in SUBSET DOMAIN values : IsFiniteSet(S) /\ Cardinality(S) = n /\ ~ Bounded(S)
      BY <1>1
    <2>2. CASE S = {}
      <3>1. Bounded(S)
        BY <2>2
      <3> QED BY <2>1, <3>1
    <2>3. CASE S # {}
      <3>1. PICK x \in S : TRUE
        BY <2>3
      <3>2. IsFiniteSet(S \ {x}) /\ Cardinality(S \ {x}) = n - 1
        BY <2>1, <3>1, FS_RemoveElement
      <3>3. n - 1 \in Nat
        BY <3>2, FS_CardinalityType
      <3>4. n \in Nat /\ ~ (n <= n - 1)
        BY <1>1
      <3>5. n - 1 \notin T
        BY <1>1, <3>4
      <3>6. Bounded(S \ {x})
        BY <3>2, <3>3, <3>5
      <3>7. PICK b \in Nat : \A i \in S \ {x} : values[i] <= b
        BY <3>6
      <3>8. values[x] \in Nat
        BY <2>1, <3>1 DEF Family
      <3> DEFINE c == IF values[x] > b THEN values[x] ELSE b
      <3>9. c \in Nat /\ values[x] <= c /\ b <= c
        BY <3>8
      <3>10. ASSUME NEW i \in S PROVE values[i] <= c
        <4>1. values[i] \in Nat
          BY <2>1 DEF Family
        <4> HIDE DEF c
        <4> QED BY <3>7, <3>8, <3>9, <4>1
      <3>11. Bounded(S)
        BY <3>9, <3>10
      <3> QED BY <2>1, <3>11
    <2> QED BY <2>2, <2>3
  <1>2. T = {}
    <2>1. T \in SUBSET Nat
      OBVIOUS
    <2> HIDE DEF T
    <2> QED BY <1>1, <2>1, Smallest
  <1>3. IsFiniteSet(DOMAIN values) /\ Cardinality(DOMAIN values) \in Nat
    BY FS_CardinalityType DEF Family
  <1>4. Bounded(DOMAIN values)
    BY <1>2, <1>3
  <1> QED BY <1>4

\* How many values are less, or no greater, than a number.
LEMMA Counts ==
    ASSUME NEW values, Family(values), NEW v \in Nat
    PROVE  /\ Cardinality(Below(values, v)) \in Nat /\ Cardinality(UpTo(values, v)) \in Nat
           /\ v = 0 => Cardinality(Below(values, v)) = 0
           /\ v # 0 => Below(values, v) = UpTo(values, v - 1)
  <1>1. Below(values, v) \in SUBSET DOMAIN values /\ UpTo(values, v) \in SUBSET DOMAIN values
    BY DEF Below, UpTo
  <1>2. /\ IsFiniteSet(DOMAIN values) /\ \A i \in DOMAIN values : values[i] \in Nat
    BY DEF Family
  <1>3. IsFiniteSet(Below(values, v)) /\ IsFiniteSet(UpTo(values, v))
    BY <1>1, <1>2, FS_Subset
  <1>4. Cardinality(Below(values, v)) \in Nat /\ Cardinality(UpTo(values, v)) \in Nat
    BY <1>3, FS_CardinalityType
  <1>5. ASSUME v = 0 PROVE Below(values, v) = {}
    BY <1>2, <1>5 DEF Below
  <1>6. ASSUME v # 0 PROVE Below(values, v) = UpTo(values, v - 1)
    BY <1>2, <1>6 DEF Below, UpTo
  <1> QED BY <1>4, <1>5, <1>6, FS_EmptySet

\* The k-th value is one of them.
LEMMA NthFound ==
    ASSUME NEW values, Family(values), NEW k \in 1 .. Cardinality(DOMAIN values)
    PROVE  \E i \in DOMAIN values : Nth(values, k) = values[i]
  <1> DEFINE T == {v \in Nat : k <= Cardinality(UpTo(values, v))}
             Middle(j) == /\ Cardinality(Below(values, values[j])) < k
                          /\ k <= Cardinality(UpTo(values, values[j]))
  <1>1. IsFiniteSet(DOMAIN values) /\ Cardinality(DOMAIN values) \in Nat /\ k \in Nat /\ k > 0
    BY FS_CardinalityType DEF Family
  <1>2. PICK b \in Nat : \A i \in DOMAIN values : values[i] <= b
    BY FamilyBounded
  <1>3. b \in T
    <2>1. UpTo(values, b) = DOMAIN values
      BY <1>2 DEF UpTo
    <2> QED BY <1>1, <2>1
  <1>4. PICK v \in T : \A w \in T : v <= w
    <2>1. T \in SUBSET Nat
      OBVIOUS
    <2> HIDE DEF T
    <2> QED BY <1>3, <2>1, Smallest
  <1>5. v \in Nat /\ k <= Cardinality(UpTo(values, v))
    BY <1>4
  <1>6. Cardinality(Below(values, v)) < k
    <2>1. CASE v = 0
      BY <1>1, <1>5, <2>1, Counts
    <2>2. CASE v # 0
      <3>1. v - 1 \in Nat /\ ~ (v <= v - 1)
        BY <1>5, <2>2
      <3>2. ~ (k <= Cardinality(UpTo(values, v - 1)))
        BY <1>4, <3>1
      <3>3. Below(values, v) = UpTo(values, v - 1)
        BY <1>5, <2>2, Counts
      <3>4. Cardinality(UpTo(values, v - 1)) \in Nat
        BY <3>1, Counts
      <3> QED BY <1>1, <3>2, <3>3, <3>4
    <2> QED BY <2>1, <2>2
  <1>7. PICK j \in DOMAIN values : values[j] = v
    <2>1. ASSUME ~ \E j \in DOMAIN values : values[j] = v PROVE FALSE
      <3>1. \A i \in DOMAIN values : values[i] \in Nat
        BY DEF Family
      <3>2. UpTo(values, v) = Below(values, v)
        BY <1>5, <2>1, <3>1 DEF UpTo, Below
      <3> QED BY <1>1, <1>5, <1>6, <3>2, Counts
    <2> QED BY <2>1
  <1>8. Middle(j)
    BY <1>5, <1>6, <1>7
  <1>9. Nth(values, k) = values[CHOOSE i \in DOMAIN values : Middle(i)]
    BY DEF Nth
  <1> HIDE DEF Middle
  <1> QED BY <1>8, <1>9

\* Twice the median of a family that is not empty, of numbers in a range.
LEMMA MedianTyped ==
    ASSUME NEW values, Family(values), DOMAIN values # {},
           NEW low \in Nat, NEW high \in Nat,
           \A i \in DOMAIN values : low <= values[i] /\ values[i] <= high
    PROVE  MiddleTwo(values) \in 2 * low .. 2 * high
  <1> DEFINE n == Cardinality(DOMAIN values)
  <1>1. n \in Nat /\ n # 0
    BY FS_CardinalityType, FS_EmptySet DEF Family
  <1> HIDE DEF n
  <1>2. (n + 1) \div 2 \in 1 .. n /\ n \div 2 + 1 \in 1 .. n
    BY <1>1
  <1>3. PICK i \in DOMAIN values : Nth(values, (n + 1) \div 2) = values[i]
    BY <1>2, NthFound DEF n
  <1>4. PICK j \in DOMAIN values : Nth(values, n \div 2 + 1) = values[j]
    BY <1>2, NthFound DEF n
  <1>5. values[i] \in Nat /\ values[j] \in Nat
    BY DEF Family
  <1>6. MiddleTwo(values) = values[i] + values[j]
    BY <1>3, <1>4 DEF MiddleTwo, n
  <1> QED BY <1>5, <1>6

LEMMA BreaksTyped ==
    ASSUME NEW values, Family(values), NEW bands \in FourBreaks
    PROVE  Breaks(values, bands) \in FourBreaks
  <1> DEFINE n == Cardinality(DOMAIN values)
  <1>1. n \in Nat
    BY FS_CardinalityType DEF Family
  <1>2. ASSUME n >= MinPopulation PROVE QuantileBreaks(values) \in FourBreaks
    <2>1. n > 0
      BY <1>1, <1>2, ScoresAssumption
    <2>2. ASSUME NEW q \in 1 .. 4 PROVE Nth(values, 1 + ((2 * q * n) \div 10)) \in Int
      <3> HIDE DEF n
      <3>1. 1 + ((2 * q * n) \div 10) \in 1 .. n
        <4>1. q = 1 \/ q = 2 \/ q = 3 \/ q = 4
          OBVIOUS
        <4> QED BY <1>1, <2>1, <4>1
      <3>2. PICK i \in DOMAIN values : Nth(values, 1 + ((2 * q * n) \div 10)) = values[i]
        BY <3>1, NthFound DEF n
      <3> QED BY <3>2 DEF Family
    <2> QED BY <2>2 DEF QuantileBreaks, FourBreaks
  <1> QED BY <1>2 DEF Breaks

\* score_population of any finite population, large enough for quantiles or not:
\* who has ordered at least as recently, as often and as much as another is scored
\* no lower in any dimension, and never filed among the lost while the other is not.
THEOREM PopulationIsRanked ==
    ASSUME NEW population, IsFiniteSet(DOMAIN population),
           \A i \in DOMAIN population : population[i] \in Ranking,
           NEW i \in DOMAIN population, NEW j \in DOMAIN population,
           OrdersNoLess(population[i], population[j])
    PROVE  LET scores == ScorePopulation(population) IN
           /\ \A d \in {"r", "f", "m"} : scores[i][d] >= scores[j][d]
           /\ SegmentOf(population[i], scores[i]) = "Lost" =>
                SegmentOf(population[j], scores[j]) \in {"Lost", "Prospects"}
  <1> DEFINE known == {k \in DOMAIN population : Scored(population[k])}
             recency == [k \in known |-> population[k].recency]
             frequency == [k \in known |-> population[k].frequency]
             money == [k \in known |-> population[k].money]
             r == Breaks(recency, RecencyBands)
             f == Breaks(frequency, FrequencyBands)
             m == Breaks(money, MoneyBands)
             scores == ScorePopulation(population)
  <1>1. IsFiniteSet(known)
    BY FS_Subset
  <1>2. ASSUME NEW k \in known
        PROVE  /\ population[k].recency \in Nat /\ population[k].frequency \in Nat
               /\ population[k].money \in Nat
    BY DEF Ranking, Scored
  <1>3. Family(recency) /\ Family(frequency) /\ Family(money)
    BY <1>1, <1>2 DEF Family
  <1>4. RecencyBands \in FourBreaks /\ FrequencyBands \in FourBreaks /\ MoneyBands \in FourBreaks
    BY DEF FourBreaks, RecencyBands, FrequencyBands, MoneyBands
  <1> HIDE DEF recency, frequency, money
  <1>5. r \in FourBreaks /\ f \in FourBreaks /\ m \in FourBreaks
    BY <1>3, <1>4, BreaksTyped
  <1>6. \A k \in DOMAIN population : scores[k] = Score(population[k], r, f, m)
    BY DEF ScorePopulation, recency, frequency, money
  <1> HIDE DEF r, f, m
  <1>7. scores[i] = Score(population[i], r, f, m) /\ scores[j] = Score(population[j], r, f, m)
    BY <1>6
  <1> HIDE DEF scores
  <1>8. /\ scores[i].r >= scores[j].r /\ scores[i].f >= scores[j].f /\ scores[i].m >= scores[j].m
        /\ SegmentOf(population[i], scores[i]) = "Lost" =>
             SegmentOf(population[j], scores[j]) \in {"Lost", "Prospects"}
    BY <1>5, <1>7, RankingKeepsOrder
  <1> QED BY <1>8 DEF scores

---------------------------------------------------------------------------
(* The first day of a recurrence is not later than any day it falls on. *)

LEMMA TurnIsFirst ==
    ASSUME NEW kind, NEW hour \in 0 .. HoursPerDay - 1, NEW target, NEW after \in Int,
           NEW day \in Int, IsTurn(kind, hour, target, after, day),
           NEW other \in Int, DayOf(ToLocal(after)) < other, FallsOn(kind, target, other)
    PROVE  DayOf(ToLocal(after)) <= day /\ day <= other
  <1> DEFINE local == ToLocal(after)
             today == DayOf(local)
  <1>1. local \in Int /\ At(day, hour) \in Int
    BY Clocks, AtDayAndHour
  <1>2. today \in Int /\ HourOf(local) \in 0 .. HoursPerDay - 1 /\ local = At(today, HourOf(local))
    BY <1>1, DayAndHour
  <1>3. /\ CombineLocal(day, hour) > after
        /\ \A e \in today .. day - 1 : ~ (FallsOn(kind, target, e) /\ CombineLocal(e, hour) > after)
    BY DEF IsTurn
  <1>4. today <= day
    <2>1. CombineLocal(day, hour) = ToUtc(At(day, hour)) /\ ToUtc(At(day, hour)) \in Int
      BY <1>1, Combined, Clocks
    <2>2. local < At(day, hour)
      BY <1>1, <1>3, <2>1, Clocks
    <2>3. ~ (At(day, hour) < At(today, HourOf(local)))
      BY <1>1, <1>2, <2>2
    <2>4. ~ (day < today)
      BY <1>2, <2>3, DaysInOrder
    <2> QED BY <1>2, <2>4
  <1>5. day <= other
    <2>1. CombineLocal(other, hour) > after
      BY LaterDayIsAhead
    <2>2. other \notin today .. day - 1
      BY <1>3, <2>1
    <2>3. today < other
      OBVIOUS
    <2> HIDE DEF today
    <2> QED BY <1>2, <2>2, <2>3
  <1> QED BY <1>4, <1>5

\* A recurrence falls on one of the days ahead.
LEMMA FallsAhead ==
    ASSUME NEW kind \in Recurrence \ {"ONCE"}, NEW target \in Nat, NEW today \in Int,
           kind = "WEEKLY" => target < DaysPerWeek, kind = "MONTHLY" => target > 0,
           MonthAhead(today)
    PROVE  /\ Ahead(kind, today) \in SUBSET Int
           /\ \E other \in Int : /\ today < other /\ FallsOn(kind, target, other)
                                 /\ today .. other \subseteq Ahead(kind, today)
  <1> DEFINE last == Len(MonthLengths)
             end == MonthStart[last] + MonthLengths[last] - 1
             week == today + 2 * DaysPerWeek
  <1>1. PICK m \in Months : m + 1 \in Months /\ InMonth(m, today)
    BY DEF MonthAhead
  <1>2. /\ last \in Nat /\ Months = 1 .. last
        /\ \A x \in Months : MonthLengths[x] \in Int /\ MonthLengths[x] > 0 /\ MonthStart[x] \in Int
    BY MonthsTyped
  <1>3. last \in Months /\ m \in Int /\ m + 1 <= last
    BY <1>1, <1>2
  <1>4. end \in Int /\ week \in Int
    BY <1>2, <1>3, Constants
  <1>5. Ahead(kind, today) = today .. IF kind = "MONTHLY" THEN end ELSE week
    BY DEF Ahead
  <1> HIDE DEF end, week
  <1>6. Ahead(kind, today) \in SUBSET Int
    BY <1>4, <1>5
  <1>7. ASSUME NEW other \in Int, IF kind = "MONTHLY" THEN other <= end ELSE other <= week
        PROVE  today .. other \subseteq Ahead(kind, today)
    BY <1>4, <1>5, <1>7
  <1>8. CASE kind = "DAILY"
    <2>1. today < today + 1 /\ today + 1 <= week /\ FallsOn(kind, target, today + 1)
      BY <1>8, Constants DEF week, FallsOn
    <2> QED BY <1>6, <1>7, <1>8, <2>1
  <1>9. CASE kind = "WEEKLY"
    <2> DEFINE delta == (target - Weekday(today)) % DaysPerWeek
               other == today + delta + 1 * DaysPerWeek
    <2>1. target \in 0 .. DaysPerWeek - 1
      BY <1>9, Constants
    <2>2. delta \in 0 .. DaysPerWeek - 1 /\ Weekday(today + delta) = target
      BY <2>1, NextWeekday
    <2> HIDE DEF delta
    <2>3. Weekday(other) = target
      BY <2>2, WeeksLater
    <2>4. other \in Int /\ today < other /\ other <= week
      BY <2>2, Constants DEF week
    <2> QED BY <1>6, <1>7, <1>9, <2>3, <2>4 DEF FallsOn
  <1>10. CASE kind = "MONTHLY"
    <2> DEFINE other == ClampDay(m + 1, target)
    <2>1. other \in Int /\ InMonth(m + 1, other) /\ FallsOn("MONTHLY", target, other)
      BY <1>1, <1>10, DayOfMonth
    <2> HIDE DEF other
    <2>2. MonthStart[m] + MonthLengths[m] <= MonthStart[m + 1]
      BY <1>1, <1>3, MonthsApart
    <2>3. today < other
      BY <1>1, <1>2, <2>1, <2>2 DEF InMonth
    <2>4. MonthStart[m + 1] + MonthLengths[m + 1] <= end + 1
      <3>1. CASE m + 1 = last
        BY <1>2, <1>3, <3>1 DEF end
      <3>2. CASE m + 1 # last
        <4>1. MonthStart[m + 1] + MonthLengths[m + 1] <= MonthStart[last]
          BY <1>1, <1>2, <1>3, <3>2, MonthsApart
        <4> QED BY <1>1, <1>2, <1>3, <4>1 DEF end
      <3> QED BY <3>1, <3>2
    <2>5. other <= end
      BY <1>1, <1>2, <1>4, <2>1, <2>4 DEF InMonth
    <2> QED BY <1>6, <1>7, <1>10, <2>1, <2>3, <2>5
  <1> QED BY <1>8, <1>9, <1>10 DEF Recurrence

\* What is asked of the calendar is answered exactly.
LEMMA SlotsAreExact ==
    ASSUME NEW q \in SlotQuestions, q.start + 1 < q.end, q.defer
    PROVE  IsSlot(q.moment, q.start, q.end, SlotAnswer(q).when)
  <1>1. q.moment \in Int /\ q.start \in Nat /\ q.end \in 1 .. HoursPerDay
    BY Constants DEF SlotQuestions, Moments
  <1>2. SlotAnswer(q).when = NextSendSlot(q.moment, q.start, q.end)
    BY DEF SlotAnswer, ResolveSendTime
  <1> QED BY <1>1, <1>2, SlotIsNext

LEMMA OccurrencesAreExact ==
    ASSUME CalendarGoesOn, NEW q \in OccurrenceQuestions,
           q.recurrence = "WEEKLY" => q.target < DaysPerWeek,
           q.recurrence = "MONTHLY" => q.target > 0
    PROVE  IsOccurrence(q, OccurrenceAnswer(q).next)
  <1> DEFINE today == DayOf(ToLocal(q.after))
             next == NextOccurrence(q.recurrence, q.hour, q.target, q.ends, q.after)
  <1>1. /\ q.after \in Moments /\ q.after \in Int /\ q.hour \in 0 .. HoursPerDay - 1
        /\ q.target \in Nat /\ q.ends \in Int /\ q.recurrence \in Recurrence
    BY DEF OccurrenceQuestions, Moments, Never
  <1>2. OccurrenceAnswer(q).next = next
    BY DEF OccurrenceAnswer
  <1>3. CASE q.recurrence = "ONCE"
    BY <1>2, <1>3 DEF IsOccurrence, NextOccurrence
  <1>4. CASE q.recurrence # "ONCE"
    <2>1. MonthAhead(today) /\ today \in Int
      BY <1>1, Clocks, DayAndHour DEF CalendarGoesOn
    <2>2. PICK day \in Int :
            /\ IsTurn(q.recurrence, q.hour, q.target, q.after, day)
            /\ next = IF q.ends # Never /\ CombineLocal(day, q.hour) > q.ends THEN Never
                      ELSE CombineLocal(day, q.hour)
      BY <1>1, <1>4, <2>1, OccurrenceIsNext
    <2>3. PICK other \in Int : /\ today < other /\ FallsOn(q.recurrence, q.target, other)
                               /\ today .. other \subseteq Ahead(q.recurrence, today)
      BY <1>1, <1>4, <2>1, FallsAhead
    <2>4. today <= day /\ day <= other
      BY <1>1, <2>2, <2>3, TurnIsFirst
    <2>5. day \in Ahead(q.recurrence, today)
      BY <2>1, <2>2, <2>3, <2>4
    <2> QED BY <1>2, <1>4, <2>2, <2>5 DEF IsOccurrence
  <1> QED BY <1>3, <1>4

---------------------------------------------------------------------------
(* The pattern of a customer. *)

\* The most frequent value is one of them.
LEMMA MostCommonFound ==
    ASSUME NEW n \in Nat \ {0}, NEW values, DOMAIN values = 1 .. n
    PROVE  \E i \in 1 .. n : MostCommon(values) = values[i]
  <1> DEFINE H(i) == Hits(values, values[i])
             Best(i) == /\ \A j \in DOMAIN values : H(j) <= H(i)
                        /\ \A j \in 1 .. i - 1 : H(j) < H(i)
             T == {d \in 0 .. n : \E i \in 1 .. n : d = n - H(i)}
  <1>1. IsFiniteSet(1 .. n) /\ Cardinality(1 .. n) = n
    BY FS_Interval
  <1>2. ASSUME NEW i \in 1 .. n PROVE H(i) \in 0 .. n
    <2> DEFINE S == {j \in 1 .. n : values[j] = values[i]}
    <2>1. H(i) = Cardinality(S)
      BY DEF Hits
    <2>2. IsFiniteSet(S) /\ Cardinality(S) <= n
      BY <1>1, FS_Subset
    <2>3. Cardinality(S) \in Nat
      BY <2>2, FS_CardinalityType
    <2> QED BY <2>1, <2>2, <2>3
  <1> HIDE DEF H
  <1>3. PICK d \in T : \A e \in T : d <= e
    <2>1. n - H(1) \in T
      BY <1>2
    <2>2. T \in SUBSET Nat
      OBVIOUS
    <2> HIDE DEF T
    <2> QED BY <2>1, <2>2, Smallest
  <1> DEFINE M == {i \in 1 .. n : n - H(i) = d}
  <1>4. PICK i \in M : \A j \in M : i <= j
    <2>1. M # {} /\ M \in SUBSET Nat
      BY <1>3
    <2> HIDE DEF M
    <2> QED BY <2>1, Smallest
  <1>5. ASSUME NEW j \in 1 .. n PROVE H(j) <= H(i) /\ (j < i => H(j) < H(i))
    <2>1. H(j) \in 0 .. n /\ H(i) \in 0 .. n /\ n - H(j) \in T /\ n - H(i) = d /\ i \in Nat
      BY <1>2, <1>4
    <2>2. d <= n - H(j)
      BY <1>3, <2>1
    <2>3. ASSUME j < i PROVE n - H(j) # d
      <3>1. j \notin M
        BY <1>4, <2>1, <2>3
      <3> QED BY <3>1
    <2> QED BY <2>1, <2>2, <2>3
  <1>6. i \in 1 .. n /\ Best(i)
    BY <1>4, <1>5
  <1>7. MostCommon(values) = values[CHOOSE k \in DOMAIN values : Best(k)]
    BY DEF MostCommon, H
  <1> HIDE DEF Best
  <1> QED BY <1>6, <1>7

\* compute_order_pattern of enough orders: a day of the week and an hour of the day.
LEMMA PatternTyped ==
    ASSUME NEW n \in Nat, NEW orders \in [1 .. n -> Int], NEW minOrders \in Nat \ {0}
    PROVE  /\ n < minOrders => ComputePattern(orders, minOrders) = NoPattern
           /\ n >= minOrders => /\ ComputePattern(orders, minOrders) \in Pattern
                                /\ ComputePattern(orders, minOrders).has
  <1> DEFINE window == LastOrders(orders)
             weekdays == [i \in DOMAIN window |-> Weekday(DayOf(window[i]))]
             hours == [i \in DOMAIN window |-> HourOf(window[i])]
             buckets == [i \in DOMAIN window |-> BucketFor(hours[i])]
             inModal == {i \in DOMAIN hours : BucketFor(hours[i]) = MostCommon(buckets)}
             chosen == [i \in inModal |-> hours[i]]
             first == Later(1, n - WindowOrders + 1)
             k == n - first + 1
  <1>1. Len(orders) = n /\ orders \in Seq(Int)
    OBVIOUS
  <1>2. CASE n < minOrders
    BY <1>1, <1>2 DEF ComputePattern
  <1>3. CASE n >= minOrders
    <2>1. first \in 1 .. n /\ k \in Nat \ {0} /\ k <= n
      BY <1>3, PatternAssumption DEF Later
    <2> HIDE DEF first
    <2>2. window \in [1 .. k -> Int]
      <3>1. window = SubSeq(orders, first, n)
        BY <1>1 DEF LastOrders, first
      <3>2. SubSeq(orders, first, n) = [i \in 1 .. k |-> orders[i + first - 1]]
        BY <1>1, <2>1 DEF k
      <3>3. ASSUME NEW i \in 1 .. k PROVE orders[i + first - 1] \in Int
        BY <2>1
      <3> QED BY <3>1, <3>2, <3>3
    <2> HIDE DEF window, k
    <2>3. DOMAIN window = 1 .. k /\ \A i \in 1 .. k : window[i] \in Int
      BY <2>2
    <2>4. ASSUME NEW i \in 1 .. k
          PROVE  weekdays[i] \in 0 .. DaysPerWeek - 1 /\ hours[i] \in 0 .. HoursPerDay - 1
      <3>1. DayOf(window[i]) \in Int /\ HourOf(window[i]) \in 0 .. HoursPerDay - 1
        BY <2>3, DayAndHour
      <3> QED BY <2>3, <3>1, Weeks
    <2>5. PICK found \in 1 .. k : MostCommon(weekdays) = weekdays[found]
      <3>1. DOMAIN weekdays = 1 .. k
        BY <2>3
      <3> HIDE DEF weekdays
      <3> QED BY <2>1, <3>1, MostCommonFound
    <2>6. MostCommon(weekdays) \in 0 .. DaysPerWeek - 1
      BY <2>4, <2>5
    <2>7. PICK j \in 1 .. k : MostCommon(buckets) = buckets[j]
      <3>1. DOMAIN buckets = 1 .. k
        BY <2>3
      <3> HIDE DEF buckets
      <3> QED BY <2>1, <3>1, MostCommonFound
    <2>8. DOMAIN hours = 1 .. k /\ buckets[j] = BucketFor(hours[j])
      BY <2>3
    <2> HIDE DEF hours, buckets
    <2>9. j \in inModal /\ inModal \in SUBSET (1 .. k)
      BY <2>7, <2>8
    <2>10. IsFiniteSet(inModal)
      <3>1. k \in Int
        BY <2>1
      <3>2. IsFiniteSet(1 .. k)
        BY <3>1, FS_Interval
      <3> QED BY <2>9, <3>2, FS_Subset
    <2> HIDE DEF inModal
    <2>11. Family(chosen) /\ DOMAIN chosen # {}
           /\ \A i \in DOMAIN chosen : 0 <= chosen[i] /\ chosen[i] <= HoursPerDay - 1
      <3>1. DOMAIN chosen = inModal
        OBVIOUS
      <3>2. ASSUME NEW i \in inModal PROVE chosen[i] \in 0 .. HoursPerDay - 1
        <4>1. chosen[i] = hours[i] /\ i \in 1 .. k
          BY <2>9, <3>2
        <4> QED BY <2>4, <4>1
      <3> HIDE DEF chosen
      <3>3. HoursPerDay - 1 \in Int
        BY Constants
      <3>4. \A x \in DOMAIN chosen : chosen[x] \in 0 .. HoursPerDay - 1
        BY <3>1, <3>2
      <3>5. \A x \in DOMAIN chosen : chosen[x] \in Nat /\ 0 <= chosen[x] /\ chosen[x] <= HoursPerDay - 1
        BY <3>3, <3>4
      <3>6. IsFiniteSet(DOMAIN chosen) /\ DOMAIN chosen # {}
        BY <2>9, <2>10, <3>1
      <3> QED BY <3>5, <3>6 DEF Family
    <2> HIDE DEF chosen
    <2>12. MiddleTwo(chosen) \in 2 * 0 .. 2 * (HoursPerDay - 1)
      <3>1. HoursPerDay - 1 \in Nat /\ 0 \in Nat
        BY Constants
      <3> QED BY <2>11, <3>1, MedianTyped
    <2>13. Median(chosen) \in 0 .. HoursPerDay - 1
      BY <2>12, Constants DEF Median
    <2>14. ComputePattern(orders, minOrders) =
             [has |-> TRUE, weekday |-> MostCommon(weekdays), hour |-> Median(chosen)]
      BY <1>1, <1>3 DEF ComputePattern, window, weekdays, hours, buckets, inModal, chosen
    <2> QED BY <1>3, <2>6, <2>13, <2>14 DEF Pattern
  <1> QED BY <1>1, <1>2, <1>3

LEMMA NudgesAreTimed ==
    ASSUME OpenByDay, NEW q \in NudgeQuestions
    PROVE  LET a == NudgeAnswer(q)
           IN IF ~ a.pattern.has THEN a.due = Never /\ Len(q.orders) < 3
              ELSE IsTheirTime(a.pattern, q.after, q.leadDays, q.leadHours, a.due)
  <1> DEFINE pattern == ComputePattern(q.orders, 3)
             due == DueFromPattern(pattern, q.after, q.leadDays, q.leadHours)
  <1>1. /\ q.orders \in Histories /\ q.after \in Int /\ q.leadDays \in Nat /\ q.leadHours \in Nat
    BY DEF NudgeQuestions
  <1>2. PICK n \in 0 .. 4 : q.orders \in [1 .. n -> {9, 13, 17, 20, 30}]
    BY <1>1 DEF Histories
  <1>3. n \in Nat /\ q.orders \in [1 .. n -> Int] /\ Len(q.orders) = n
    BY <1>2
  <1>4. /\ n < 3 => pattern = NoPattern
        /\ n >= 3 => pattern \in Pattern /\ pattern.has
    BY <1>3, PatternTyped
  <1>5. NudgeAnswer(q).pattern = pattern /\ NudgeAnswer(q).due = due
    BY DEF NudgeAnswer
  <1>6. CASE n < 3
    <2>1. ~ pattern.has
      BY <1>4, <1>6 DEF NoPattern
    <2>2. due = Never
      BY <2>1 DEF DueFromPattern
    <2> QED BY <1>3, <1>5, <1>6, <2>1, <2>2
  <1>7. CASE n >= 3
    <2> HIDE DEF pattern
    <2>1. IsTheirTime(pattern, q.after, q.leadDays, q.leadHours, due)
      BY <1>1, <1>4, <1>7, NudgeIsTimed
    <2> QED BY <1>4, <1>5, <1>7, <2>1
  <1> QED BY <1>3, <1>6, <1>7

---------------------------------------------------------------------------
(* Sums. *)

\* How a sum goes on from one index to the next.
Sums(values, n, f) ==
    f = [k \in 0 .. n |->
            IF k = 0 THEN 0 ELSE f[k - 1] + (IF k \in DOMAIN values THEN values[k] ELSE 0)]

LEMMA SumsExist ==
    ASSUME NEW values, \A i \in DOMAIN values : values[i] \in Nat, NEW n \in Nat
    PROVE  \E f \in [0 .. n -> Nat] : Sums(values, n, f)
  <1> DEFINE T == {x \in Nat : ~ \E f \in [0 .. x -> Nat] : Sums(values, x, f)}
             Term(k) == IF k \in DOMAIN values THEN values[k] ELSE 0
  <1>1. ASSUME NEW x \in T, \A y \in T : x <= y PROVE FALSE
    <2>1. x \in Nat /\ ~ \E f \in [0 .. x -> Nat] : Sums(values, x, f)
      BY <1>1
    <2>2. CASE x = 0
      <3> DEFINE zero == [k \in 0 .. 0 |-> 0]
      <3>1. zero \in [0 .. 0 -> Nat] /\ Sums(values, 0, zero)
        BY DEF Sums
      <3> QED BY <2>1, <2>2, <3>1
    <2>3. CASE x # 0
      <3>1. x - 1 \in Nat /\ ~ (x <= x - 1)
        BY <2>1, <2>3
      <3>2. PICK f \in [0 .. x - 1 -> Nat] : Sums(values, x - 1, f)
        BY <1>1, <3>1
      <3> DEFINE g == [k \in 0 .. x |-> IF k = x THEN f[x - 1] + Term(x) ELSE f[k]]
      <3>3. Term(x) \in Nat /\ f[x - 1] \in Nat
        BY <3>1
      <3>4. g \in [0 .. x -> Nat]
        BY <2>1, <3>2, <3>3
      <3>5. ASSUME NEW k \in 0 .. x
            PROVE  g[k] = IF k = 0 THEN 0 ELSE g[k - 1] + Term(k)
        <4>1. CASE k = x
          BY <2>1, <2>3, <4>1
        <4>2. CASE k # x
          <5>1. k \in 0 .. x - 1
            BY <2>1, <4>2
          <5>2. f[k] = IF k = 0 THEN 0 ELSE f[k - 1] + Term(k)
            BY <3>2, <5>1 DEF Sums
          <5>3. k # 0 => k - 1 \in 0 .. x /\ k - 1 # x
            BY <2>1, <5>1
          <5> QED BY <4>2, <5>2, <5>3
        <4> QED BY <4>1, <4>2
      <3> HIDE DEF g
      <3>6. Sums(values, x, g)
        BY <3>4, <3>5 DEF Sums
      <3> QED BY <2>1, <3>4, <3>6
    <2> QED BY <2>2, <2>3
  <1>2. T = {}
    <2>1. T \in SUBSET Nat
      OBVIOUS
    <2> HIDE DEF T
    <2> QED BY <1>1, <2>1, Smallest
  <1> QED BY <1>2

\* A sum of numbers is a number, and the sum of none is zero.
LEMMA TotalTyped ==
    ASSUME NEW values, \A i \in DOMAIN values : values[i] \in Nat, NEW n \in Nat
    PROVE  Total(values, n) \in Nat /\ (DOMAIN values = {} => Total(values, n) = 0)
  <1> DEFINE sum == CHOOSE f : Sums(values, n, f)
  <1>1. Sums(values, n, sum)
    BY SumsExist
  <1>2. Total(values, n) = sum[n]
    BY DEF Total, Sums
  <1> HIDE DEF sum
  <1>3. \A k \in 0 .. n :
          sum[k] = IF k = 0 THEN 0
                   ELSE sum[k - 1] + (IF k \in DOMAIN values THEN values[k] ELSE 0)
    BY <1>1 DEF Sums
  <1> DEFINE Right(k) == sum[k] \in Nat /\ (DOMAIN values = {} => sum[k] = 0)
             T == {k \in 0 .. n : ~ Right(k)}
  <1>4. ASSUME NEW k \in T, \A j \in T : k <= j PROVE FALSE
    <2>1. CASE k = 0
      BY <1>3, <1>4, <2>1
    <2>2. CASE k # 0
      <3>1. k - 1 \in 0 .. n /\ ~ (k <= k - 1) /\ k \in 0 .. n
        BY <1>4, <2>2
      <3>2. Right(k - 1)
        BY <1>4, <3>1
      <3>3. Right(k)
        BY <1>3, <2>2, <3>1, <3>2
      <3> QED BY <1>4, <3>3
    <2> QED BY <2>1, <2>2
  <1>5. T = {}
    <2>1. T \in SUBSET Nat
      OBVIOUS
    <2> HIDE DEF T
    <2> QED BY <1>4, <2>1, Smallest
  <1>6. Right(n)
    BY <1>5
  <1> QED BY <1>2, <1>6

---------------------------------------------------------------------------
(* The greatest and the least index of some orders. *)

LEMMA Ends ==
    ASSUME NEW n \in Nat, NEW S \in SUBSET (1 .. n), S # {}
    PROVE  /\ Max(S) \in S /\ \A i \in S : i <= Max(S)
           /\ Min(S) \in S /\ \A i \in S : Min(S) <= i
  <1>1. PICK a \in S : \A i \in S : a <= i
    <2>1. S \in SUBSET Nat
      OBVIOUS
    <2> QED BY <2>1, Smallest
  <1>2. PICK b \in S : \A i \in S : i <= b
    <2> DEFINE T == {n - i : i \in S}
    <2>1. T \in SUBSET Nat /\ T # {}
      <3>1. \A i \in S : n - i \in Nat
        OBVIOUS
      <3>2. PICK i \in S : TRUE
        OBVIOUS
      <3>3. n - i \in T
        BY <3>2
      <3> QED BY <3>1, <3>3
    <2> HIDE DEF T
    <2>2. PICK d \in T : \A e \in T : d <= e
      BY <2>1, Smallest
    <2>3. PICK b \in S : d = n - b
      BY DEF T
    <2>4. ASSUME NEW i \in S PROVE i <= b
      <3>1. n - i \in T
        BY DEF T
      <3>2. d <= n - i /\ i \in Int /\ b \in Int
        BY <2>2, <3>1
      <3> QED BY <2>3, <3>2
    <2> QED BY <2>4
  <1>3. Min(S) = CHOOSE x \in S : \A y \in S : x =< y
    BY DEF Min
  <1>4. Max(S) = CHOOSE x \in S : \A y \in S : x >= y
    BY DEF Max
  <1>5. \A x, y \in S : x >= y <=> y <= x
    OBVIOUS
  <1>6. Max(S) \in S /\ \A y \in S : Max(S) >= y
    BY <1>2, <1>4, <1>5
  <1>7. Min(S) \in S /\ \A y \in S : Min(S) <= y
    BY <1>1, <1>3
  <1> QED BY <1>5, <1>6, <1>7

---------------------------------------------------------------------------
(* What is computed of a history of orders. *)

\* Orders in order of time, with whole amounts.
Timeline(orders) ==
    /\ Len(orders) \in Nat /\ DOMAIN orders = 1 .. Len(orders)
    /\ \A i \in DOMAIN orders :
          orders[i].at \in Nat /\ orders[i].total \in Nat /\ orders[i].discount \in Nat
    /\ \A i, j \in DOMAIN orders : i <= j => orders[i].at <= orders[j].at

Messages(e) == e.sent \in Nat /\ e.opened \in Nat /\ e.clicked \in Nat /\ e.replied \in Nat

LEMMA Shares ==
    ASSUME NEW n \in Nat, NEW d \in Nat, n < d
    PROVE  (100 * n) \div d \in 0 .. 100
  <1> DEFINE q == (100 * n) \div d
  <1>1. q \in Int /\ d * q <= 100 * n /\ 100 * n < d * (q + 1)
    OBVIOUS
  <1> HIDE DEF q
  <1>2. ASSUME 100 < q PROVE FALSE
    <2>1. d * 100 <= d * q
      BY <1>1, <1>2
    <2>2. d * q \in Int
      BY <1>1
    <2> QED BY <1>1, <2>1, <2>2
  <1>3. ASSUME q < 0 PROVE FALSE
    <2>1. d * (q + 1) <= d * 0
      BY <1>1, <1>3
    <2>2. d * (q + 1) \in Int
      BY <1>1
    <2> QED BY <1>1, <2>1, <2>2
  <1>4. q \in 0 .. 100
    BY <1>1, <1>2, <1>3
  <1> QED BY <1>4 DEF q

LEMMA EngagementTyped ==
    ASSUME NEW e, Messages(e), NEW n \in Nat
    PROVE  EngagementScore(e, n) \in 0 .. 100
  <1>1. ASSUME NEW count \in Nat PROVE Rate(count, e.sent) \in 0 .. 100
    BY Shares DEF Rate, Messages
  <1> DEFINE reading == (50 * Rate(e.opened, e.sent) + 30 * Rate(e.clicked, e.sent)
                            + 20 * Rate(e.replied, e.sent)) \div 100
             buying == (100 * Clamp(0, n, 6)) \div 6
  <1>2. reading \in 0 .. 100
    <2>1. /\ Rate(e.opened, e.sent) \in 0 .. 100 /\ Rate(e.clicked, e.sent) \in 0 .. 100
          /\ Rate(e.replied, e.sent) \in 0 .. 100
      BY <1>1 DEF Messages
    <2>2. ASSUME NEW a \in 0 .. 100, NEW b \in 0 .. 100, NEW c \in 0 .. 100
          PROVE  (50 * a + 30 * b + 20 * c) \div 100 \in 0 .. 100
      OBVIOUS
    <2> QED BY <2>1, <2>2
  <1>3. buying \in 0 .. 100
    BY DEF Clamp
  <1>4. EngagementScore(e, n) =
          IF e.sent > 0 THEN (55 * reading + 45 * buying) \div 100 ELSE buying
    BY DEF EngagementScore
  <1> HIDE DEF reading, buying
  <1>5. (55 * reading + 45 * buying) \div 100 \in 0 .. 100
    BY <1>2, <1>3
  <1> QED BY <1>3, <1>4, <1>5

LEMMA TrendTyped ==
    ASSUME NEW a \in Nat, NEW b \in Nat
    PROVE  Trend(a, b) \in -100 .. 100
  <1>1. ASSUME b > 0 PROVE (100 * (a - b)) \div b \in Int
    BY <1>1
  <1> QED BY <1>1 DEF Trend, Clamp

\* Some orders of a history: how many there are, and what they are worth.
LEMMA SomeOrders ==
    ASSUME NEW orders, Timeline(orders), NEW some \in SUBSET DOMAIN orders
    PROVE  /\ IsFiniteSet(some) /\ Cardinality(some) \in Nat
           /\ (Cardinality(some) = 0 <=> some = {})
           /\ Money(orders, some) \in Nat
           /\ some = {} => Money(orders, some) = 0
  <1>1. IsFiniteSet(some)
    <2>1. IsFiniteSet(1 .. Len(orders))
      BY FS_Interval DEF Timeline
    <2> QED BY <2>1, FS_Subset DEF Timeline
  <1>2. Cardinality(some) \in Nat /\ (Cardinality(some) = 0 <=> some = {})
    BY <1>1, FS_CardinalityType, FS_EmptySet
  <1> DEFINE values == [i \in some |-> orders[i].total]
  <1>3. DOMAIN values = some /\ \A i \in DOMAIN values : values[i] \in Nat
    BY DEF Timeline
  <1>4. Money(orders, some) = Total(values, Len(orders))
    BY DEF Money
  <1>5. Len(orders) \in Nat
    BY DEF Timeline
  <1> HIDE DEF values
  <1>6. Total(values, Len(orders)) \in Nat /\ (DOMAIN values = {} => Total(values, Len(orders)) = 0)
    BY <1>3, <1>5, TotalTyped
  <1> QED BY <1>1, <1>2, <1>3, <1>4, <1>6

LEMMA SubsetsOfOrders ==
    ASSUME NEW orders
    PROVE  /\ Completed(orders) \in SUBSET DOMAIN orders
           /\ Problems(orders) \in SUBSET DOMAIN orders
           /\ \A now, days, offset :
                /\ Window(orders, now, days, offset) \in SUBSET DOMAIN orders
                /\ Window(orders, now, days, offset) \in SUBSET Completed(orders)
  BY DEF Completed, Problems, Window

LEMMA GapsTyped ==
    ASSUME NEW orders, Timeline(orders), Cardinality(Completed(orders)) >= 2
    PROVE  MedianGap(Gaps(orders)) \in Nat /\ AverageGap(Gaps(orders), Len(orders)) \in Nat
  <1> DEFINE done == Completed(orders)
             gaps == Gaps(orders)
             D == {i \in done : Before(orders, i) # {}}
             last == Max(done)
  <1>1. /\ done \in SUBSET DOMAIN orders /\ DOMAIN orders = 1 .. Len(orders) /\ Len(orders) \in Nat
        /\ IsFiniteSet(done) /\ Cardinality(done) >= 2 /\ done # {}
    <2>1. done \in SUBSET DOMAIN orders /\ DOMAIN orders = 1 .. Len(orders) /\ Len(orders) \in Nat
      BY SubsetsOfOrders DEF Timeline
    <2>2. IsFiniteSet(done) /\ Cardinality(done) \in Nat /\ (Cardinality(done) = 0 <=> done = {})
      BY <2>1, SomeOrders
    <2> QED BY <2>1, <2>2
  <1>2. DOMAIN gaps = D /\ \A i \in D : gaps[i] = Gap(orders, i)
    BY DEF Gaps
  <1>3. IsFiniteSet(D)
    BY <1>1, FS_Subset
  <1>4. ASSUME NEW i \in D PROVE gaps[i] \in Nat
    <2> DEFINE b == Before(orders, i)
    <2>1. b \in SUBSET (1 .. Len(orders)) /\ b # {} /\ i \in 1 .. Len(orders)
      BY <1>1, <1>4 DEF Before
    <2>2. Max(b) \in b
      BY <1>1, <2>1, Ends
    <2>3. Max(b) \in 1 .. Len(orders) /\ Max(b) < i
      BY <2>1, <2>2 DEF Before
    <2>4. orders[Max(b)].at <= orders[i].at /\ orders[Max(b)].at \in Nat /\ orders[i].at \in Nat
      BY <2>1, <2>3 DEF Timeline
    <2> QED BY <1>2, <2>4 DEF Gap
  <1>5. D # {}
    <2>1. last \in done /\ \A i \in done : i <= last
      BY <1>1, Ends
    <2>2. IsFiniteSet(done \ {last}) /\ Cardinality(done \ {last}) = Cardinality(done) - 1
      BY <1>1, <2>1, FS_RemoveElement
    <2>3. done \ {last} # {}
      <3>1. Cardinality(done) \in Nat
        BY <1>1, FS_CardinalityType
      <3>2. Cardinality(done \ {last}) # 0
        BY <1>1, <2>2, <3>1
      <3> QED BY <3>2, FS_EmptySet
    <2>4. PICK j \in done : j # last
      BY <2>3
    <2>5. j < last
      BY <1>1, <2>1, <2>4
    <2>6. j \in Before(orders, last)
      BY <2>4, <2>5 DEF Before
    <2> QED BY <2>1, <2>6
  <1> HIDE DEF gaps, D, done
  <1>6. Family(gaps) /\ DOMAIN gaps # {}
    BY <1>2, <1>3, <1>4, <1>5 DEF Family
  <1>7. MiddleTwo(gaps) \in Nat
    <2>1. PICK b \in Nat : \A i \in DOMAIN gaps : gaps[i] <= b
      BY <1>6, FamilyBounded
    <2>2. \A i \in DOMAIN gaps : 0 <= gaps[i] /\ gaps[i] <= b
      BY <1>2, <1>4, <2>1
    <2>3. MiddleTwo(gaps) \in 2 * 0 .. 2 * b
      BY <1>6, <2>2, MedianTyped
    <2> QED BY <2>1, <2>3
  <1>8. Total(gaps, Len(orders)) \in Nat
    BY <1>1, <1>2, <1>4, TotalTyped
  <1>9. Cardinality(DOMAIN gaps) \in Nat /\ Cardinality(DOMAIN gaps) > 0
    <2>1. Cardinality(DOMAIN gaps) \in Nat /\ Cardinality(DOMAIN gaps) # 0
      BY <1>6, FS_CardinalityType, FS_EmptySet DEF Family
    <2> QED BY <2>1
  <1>10. (100 * Total(gaps, Len(orders))) \div Cardinality(DOMAIN gaps) \in Nat
    BY <1>8, <1>9, Quotient
  <1>11. 50 * MiddleTwo(gaps) \in Nat
    BY <1>7
  <1> QED BY <1>10, <1>11 DEF MedianGap, AverageGap, gaps

LEMMA DependencyTyped ==
    ASSUME NEW orders, Timeline(orders), Completed(orders) # {}
    PROVE  Dependency(orders) \in 0 .. 100
  <1> DEFINE done == Completed(orders)
             discounts == [i \in done |-> orders[i].discount]
             off == Total(discounts, Len(orders))
             gross == Money(orders, done) + off
             reduced == {i \in done : orders[i].discount > 0}
             share == (100 * Cardinality(reduced)) \div Cardinality(done)
             depth == IF gross > 0 THEN Clamp(0, (300 * off) \div gross, 100) ELSE 0
  <1>1. done \in SUBSET DOMAIN orders /\ reduced \in SUBSET DOMAIN orders /\ Len(orders) \in Nat
    BY SubsetsOfOrders DEF Timeline
  <1>2. off \in Nat
    <2>1. \A i \in DOMAIN discounts : discounts[i] \in Nat
      BY <1>1 DEF Timeline
    <2> HIDE DEF discounts
    <2> QED BY <1>1, <2>1, TotalTyped
  <1>3. Money(orders, done) \in Nat /\ Cardinality(done) \in Nat /\ Cardinality(done) > 0
    <2>1. Money(orders, done) \in Nat /\ Cardinality(done) \in Nat /\ Cardinality(done) # 0
      BY <1>1, SomeOrders
    <2> QED BY <2>1
  <1>4. Cardinality(reduced) \in Nat
    BY <1>1, SomeOrders
  <1>5. share \in Int
    BY <1>3, <1>4
  <1>6. gross \in Nat
    BY <1>2, <1>3
  <1> HIDE DEF share, gross, off
  <1>7. depth \in Int
    <2>1. ASSUME gross > 0 PROVE (300 * off) \div gross \in Int
      BY <1>2, <1>6, <2>1
    <2> QED BY <2>1 DEF Clamp
  <1> HIDE DEF depth
  <1>8. Dependency(orders) = Clamp(0, (7 * share + 3 * depth) \div 10, 100)
    BY DEF Dependency, share, depth, gross, off
  <1>9. (7 * share + 3 * depth) \div 10 \in Int
    BY <1>5, <1>7
  <1> QED BY <1>8, <1>9 DEF Clamp

---------------------------------------------------------------------------
(* A reading of a history after its last order. *)

\* The days since the first and since the last completed order.
LEMMA Sinces ==
    ASSUME NEW orders, Timeline(orders), Completed(orders) # {},
           NEW now \in Int, \A i \in DOMAIN orders : orders[i].at <= now
    PROVE  LET done == Completed(orders) IN
           /\ Max(done) \in done /\ Min(done) \in done
           /\ \A i \in done : orders[i].at <= orders[Max(done)].at
           /\ now - orders[Max(done)].at \in Nat /\ now - orders[Min(done)].at \in Nat
           /\ orders[Max(done)].at \in Nat
  <1> DEFINE done == Completed(orders)
  <1>1. done \in SUBSET (1 .. Len(orders)) /\ Len(orders) \in Nat
    BY SubsetsOfOrders DEF Timeline
  <1>2. /\ Max(done) \in done /\ Min(done) \in done
        /\ \A i \in done : i <= Max(done)
    BY <1>1, Ends
  <1>3. \A i \in done : orders[i].at <= orders[Max(done)].at
    BY <1>1, <1>2 DEF Timeline
  <1>4. /\ orders[Max(done)].at \in Nat /\ orders[Max(done)].at <= now
        /\ orders[Min(done)].at \in Nat /\ orders[Min(done)].at <= now
    BY <1>1, <1>2 DEF Timeline
  <1> QED BY <1>2, <1>3, <1>4

LEMMA Quiet ==
    ASSUME NEW orders, Timeline(orders), Completed(orders) # {},
           NEW now \in Int, \A i \in DOMAIN orders : orders[i].at <= now,
           now - orders[Max(Completed(orders))].at >= 90
    PROVE  Window(orders, now, 90, 0) = {}
  <1> DEFINE done == Completed(orders)
  <1>1. ASSUME NEW i \in Window(orders, now, 90, 0) PROVE FALSE
    <2>1. i \in done /\ i \in DOMAIN orders /\ now - 0 - 90 < orders[i].at
      BY <1>1, SubsetsOfOrders DEF Window
    <2>2. /\ orders[i].at <= orders[Max(done)].at /\ orders[i].at \in Nat
          /\ orders[Max(done)].at \in Nat
      BY <2>1, Sinces DEF Timeline
    <2> QED BY <2>1, <2>2
  <1> QED BY <1>1

\* compute_metrics, with a completed order.
LEMMA MetricsTyped ==
    ASSUME NEW orders, Timeline(orders), Completed(orders) # {}, NEW e, Messages(e),
           NEW now \in Int, \A i \in DOMAIN orders : orders[i].at <= now
    PROVE  LET m == Metrics(orders, now, e)
               done == Completed(orders)
           IN /\ m \in History
              /\ m.completed = Cardinality(done) /\ m.completed > 0 /\ m.total = Len(orders)
              /\ m.problems = Cardinality(Problems(orders)) /\ m.revenue = Money(orders, done)
              /\ m.median = IF m.completed >= 2 THEN MedianGap(Gaps(orders)) ELSE 0
              /\ m.average = IF m.completed >= 2 THEN AverageGap(Gaps(orders), Len(orders)) ELSE 0
              /\ m.sinceLast = now - orders[Max(done)].at
              /\ m.sinceFirst = now - orders[Min(done)].at
              /\ m.sinceLast >= 90 => m.last90 = 0 /\ m.revenue90 = 0
  <1> DEFINE done == Completed(orders)
             n == Cardinality(done)
             recent == Window(orders, now, 90, 0)
             before == Window(orders, now, 90, 90)
             month == Window(orders, now, 30, 0)
             last == now - orders[Max(done)].at
             first == now - orders[Min(done)].at
             median == IF n >= 2 THEN MedianGap(Gaps(orders)) ELSE 0
             average == IF n >= 2 THEN AverageGap(Gaps(orders), Len(orders)) ELSE 0
             m == Metrics(orders, now, e)
  <1>1. /\ Cardinality(done) \in Nat /\ Cardinality(done) # 0 /\ Money(orders, done) \in Nat
        /\ Cardinality(Problems(orders)) \in Nat
    BY SubsetsOfOrders, SomeOrders
  <1>2. /\ Cardinality(recent) \in Nat /\ Money(orders, recent) \in Nat
        /\ recent = {} => Cardinality(recent) = 0 /\ Money(orders, recent) = 0
        /\ Cardinality(before) \in Nat /\ Money(orders, before) \in Nat
        /\ Cardinality(month) \in Nat
    <2>1. /\ recent \in SUBSET DOMAIN orders /\ before \in SUBSET DOMAIN orders
          /\ month \in SUBSET DOMAIN orders
      BY SubsetsOfOrders
    <2> HIDE DEF recent, before, month
    <2> QED BY <2>1, SomeOrders
  <1>3. last \in Nat /\ first \in Nat
    BY Sinces
  <1>4. median \in Nat /\ average \in Nat
    BY GapsTyped
  <1>5. Dependency(orders) \in 0 .. 100 /\ EngagementScore(e, Cardinality(recent)) \in 0 .. 100
    BY <1>2, DependencyTyped, EngagementTyped
  <1>6. /\ Trend(Money(orders, recent), Money(orders, before)) \in -100 .. 100
        /\ Trend(Cardinality(recent), Cardinality(before)) \in -100 .. 100
    BY <1>2, TrendTyped
  <1>7. Larger(last, 0) = last /\ Larger(first, 0) = first
    BY <1>3 DEF Larger
  <1>8. last >= 90 => recent = {}
    BY Quiet
  <1>9. Len(orders) \in Nat
    BY DEF Timeline
  <1>10. m = [total |-> Len(orders), completed |-> n, problems |-> Cardinality(Problems(orders)),
              revenue |-> Money(orders, done), sinceLast |-> last, sinceFirst |-> first,
              median |-> median, average |-> average, last30 |-> Cardinality(month),
              last90 |-> Cardinality(recent), prev90 |-> Cardinality(before),
              revenue90 |-> Money(orders, recent),
              spendTrend |-> Trend(Money(orders, recent), Money(orders, before)),
              frequencyTrend |-> Trend(Cardinality(recent), Cardinality(before)),
              dependency |-> Dependency(orders),
              engagement |-> EngagementScore(e, Cardinality(recent))]
    BY <1>1, <1>7 DEF Metrics
  <1>11. m \in History
    <2> HIDE DEF m, n, recent, before, month, last, first, median, average, done
    <2> QED BY <1>1, <1>2, <1>3, <1>4, <1>5, <1>6, <1>9, <1>10 DEF History, n
  <1>12. /\ m.completed = n /\ n > 0 /\ m.total = Len(orders)
         /\ m.problems = Cardinality(Problems(orders)) /\ m.revenue = Money(orders, done)
         /\ m.median = median /\ m.average = average /\ m.sinceLast = last /\ m.sinceFirst = first
         /\ m.sinceLast >= 90 => m.last90 = 0 /\ m.revenue90 = 0
    <2> HIDE DEF m, recent, before, month, last, first, median, average, done
    <2> QED BY <1>1, <1>2, <1>8, <1>10
  <1> HIDE DEF m
  <1> QED BY <1>11, <1>12 DEF m

LEMMA DaysLater ==
    ASSUME NEW now \in Int, NEW days \in Int, NEW at \in Int, now - at \in Nat
    PROVE  now - at # NoDay /\ (now + days) - at = (now - at) + days
  BY DEF NoDay

\* compute_intelligence of any history of orders, at its last order or later and
\* again when more days have passed in silence: the customer is never read as less lapsed than
\* before, nor as worth more, and one whose orders have stopped for good is not at
\* low or medium risk.
THEOREM SilenceOfAHistory ==
    ASSUME NEW orders, Timeline(orders), NEW e, Messages(e), NEW cap \in Nat, NEW favourite \in BOOLEAN,
           NEW now \in Nat, NEW then \in Nat, now <= then,
           \A i \in DOMAIN orders : orders[i].at <= now,
           NEW c, NEW d, c.tenure \in Nat, d.tenure = c.tenure + (then - now)
    PROVE  LET this == Intelligence(c, orders, now, e, favourite, cap)
               later == Intelligence(d, orders, then, e, favourite, cap)
           IN /\ Lapse[later.stage] >= Lapse[this.stage]
              /\ later.value <= this.value
              /\ Lapse[this.stage] >= 2 /\ Completed(orders) # {} => this.band \in {"HIGH", "CRITICAL"}
  <1> DEFINE days == then - now
             m == Metrics(orders, now, e)
             l == Metrics(orders, then, e)
             this == Intelligence(c, orders, now, e, favourite, cap)
             later == Intelligence(d, orders, then, e, favourite, cap)
             stage == Lifecycle(m, c.tenure, CameBack(orders, m))
             longer == Lifecycle(l, c.tenure + days, CameBack(orders, l))
  <1>0. days \in Nat /\ then = now + days /\ d.tenure = c.tenure + days
    OBVIOUS
  <1>1. /\ this.stage = stage /\ later.stage = longer
        /\ this.value = EstimatedValue(m) /\ later.value = EstimatedValue(l)
        /\ this.band = RiskBand(ChurnScore(m, ExpectedCycle(m), stage = "NEW", c.tenure, e.sent))
    BY <1>0 DEF Intelligence
  <1> HIDE DEF days
  <1>2. CameBack(orders, m) \in BOOLEAN /\ CameBack(orders, l) \in BOOLEAN
    BY DEF CameBack
  <1>3. CASE Completed(orders) = {}
    <2>1. m = NoMetrics(orders, e) /\ l = NoMetrics(orders, e)
      BY <1>3, FS_EmptySet DEF Metrics
    <2>2. m.completed = 0 /\ l.completed = 0 /\ m.problems = l.problems
      BY <2>1 DEF NoMetrics
    <2> HIDE DEF m, l
    <2>3. stage = NeverOrdered(m, c.tenure) /\ longer = NeverOrdered(l, c.tenure + days)
      BY <2>2 DEF Lifecycle
    <2>4. Lapse["NEW"] = 0 /\ Lapse["CHURNED"] = 3 /\ Lapse["DORMANT"] = 2
      BY DEF Lapse, Stage
    <2>5. Lapse[longer] >= Lapse[stage]
      <3> HIDE DEF stage, longer
      <3> QED BY <1>0, <2>2, <2>3, <2>4 DEF NeverOrdered, Threshold, NoDay
    <2>6. EstimatedValue(m) = 0 /\ EstimatedValue(l) = 0
      BY <2>2 DEF EstimatedValue
    <2> HIDE DEF this, later, stage, longer
    <2> QED BY <1>1, <1>3, <2>5, <2>6 DEF this, later
  <1>4. CASE Completed(orders) # {}
    <2>0. now \in Int /\ then \in Int /\ \A i \in DOMAIN orders : orders[i].at <= then
      BY DEF Timeline
    <2>1. /\ m \in History /\ l \in History /\ m.completed > 0
          /\ m.sinceLast >= 90 => m.last90 = 0 /\ m.revenue90 = 0
      BY <1>4, <2>0, MetricsTyped
    <2>2. ReadLater(m, l, days)
      <3> DEFINE done == Completed(orders)
      <3>1. /\ m.completed = Cardinality(done) /\ m.total = Len(orders)
            /\ m.problems = Cardinality(Problems(orders)) /\ m.revenue = Money(orders, done)
            /\ m.median = IF m.completed >= 2 THEN MedianGap(Gaps(orders)) ELSE 0
            /\ m.average = IF m.completed >= 2 THEN AverageGap(Gaps(orders), Len(orders)) ELSE 0
            /\ m.sinceLast = now - orders[Max(done)].at
            /\ m.sinceFirst = now - orders[Min(done)].at
        BY <1>4, <2>0, MetricsTyped
      <3>2. /\ l.completed = Cardinality(done) /\ l.total = Len(orders)
            /\ l.problems = Cardinality(Problems(orders)) /\ l.revenue = Money(orders, done)
            /\ l.median = IF l.completed >= 2 THEN MedianGap(Gaps(orders)) ELSE 0
            /\ l.average = IF l.completed >= 2 THEN AverageGap(Gaps(orders), Len(orders)) ELSE 0
            /\ l.sinceLast = then - orders[Max(done)].at
            /\ l.sinceFirst = then - orders[Min(done)].at
        BY <1>4, <2>0, MetricsTyped
      <3>3. /\ now - orders[Max(done)].at \in Nat /\ now - orders[Min(done)].at \in Nat
            /\ orders[Max(done)].at \in Nat /\ orders[Min(done)].at \in Nat
        <4>1. Max(done) \in done /\ Min(done) \in done /\ done \in SUBSET DOMAIN orders
          BY <1>4, <2>0, Sinces, SubsetsOfOrders
        <4> QED BY <1>4, <2>0, <4>1, Sinces DEF Timeline
      <3> HIDE DEF m, l, done
      <3>4. /\ m.sinceLast # NoDay /\ l.sinceLast = m.sinceLast + days
            /\ m.sinceFirst # NoDay /\ l.sinceFirst = m.sinceFirst + days
        <4>1. \A at \in Nat : now - at \in Nat =>
                now - at # NoDay /\ then - at = (now - at) + days
          BY <1>0, DaysLater
        <4>2. /\ now - orders[Max(done)].at # NoDay
              /\ then - orders[Max(done)].at = (now - orders[Max(done)].at) + days
          BY <3>3, <4>1
        <4>3. /\ now - orders[Min(done)].at # NoDay
              /\ then - orders[Min(done)].at = (now - orders[Min(done)].at) + days
          BY <3>3, <4>1
        <4> QED BY <3>1, <3>2, <4>2, <4>3
      <3> QED BY <3>1, <3>2, <3>4 DEF ReadLater
    <2>3. m.sinceLast # NoDay
      BY <2>1, <2>2 DEF ReadLater
    <2> HIDE DEF m, l
    <2>4. c.tenure \in Int /\ e.sent \in Nat
      BY DEF Messages
    <2>5. Lapse[longer] >= Lapse[stage] /\ EstimatedValue(l) <= EstimatedValue(m)
      BY <1>0, <1>2, <2>1, <2>2, <2>4, SilenceIsNoRecovery
    <2>6. Lapse[stage] >= 2 =>
            RiskBand(ChurnScore(m, ExpectedCycle(m), stage = "NEW", c.tenure, e.sent))
              \in {"HIGH", "CRITICAL"}
      BY <1>2, <2>1, <2>3, <2>4, GoneIsAtRisk
    <2> HIDE DEF this, later, stage, longer
    <2> QED BY <1>1, <2>5, <2>6 DEF this, later, stage, longer
  <1> QED BY <1>3, <1>4

LEMMA HistoriesAreTimelines ==
    ASSUME NEW orders \in OrderHistories
    PROVE  /\ Timeline(orders) /\ LastDay(orders) \in Nat
           /\ \A i \in DOMAIN orders : orders[i].at <= LastDay(orders)
  <1> DEFINE Right(s) == /\ Timeline(s) /\ LastDay(s) \in Nat
                         /\ \A i \in DOMAIN s : s[i].at <= LastDay(s)
             Steady(n, gap, total, off) ==
                 [i \in 1 .. n |-> MCOrder((i - 1) * gap, total, off, "COMPLETED")]
  <1>1. ASSUME NEW at \in Nat, NEW total \in Nat, NEW discount \in Nat, NEW status
        PROVE  LET o == MCOrder(at, total, discount, status)
               IN o.at = at /\ o.total = total /\ o.discount = discount
    BY DEF MCOrder
  <1>2. Right(<<>>)
    BY DEF Timeline, LastDay
  <1>3. Right(<<MCOrder(0, 90, 0, "CANCELLED")>>)
    <2> DEFINE o == MCOrder(0, 90, 0, "CANCELLED")
    <2>1. o.at = 0 /\ o.total = 90 /\ o.discount = 0
      BY <1>1
    <2> DEFINE s == <<o>>
    <2>2. Len(s) = 1 /\ DOMAIN s = 1 .. 1 /\ s[1] = o /\ s # <<>>
      OBVIOUS
    <2> HIDE DEF o, s
    <2>3. LastDay(s) = 0
      BY <2>1, <2>2 DEF LastDay
    <2>4. Timeline(s)
      BY <2>1, <2>2 DEF Timeline
    <2>5. Right(s)
      BY <2>1, <2>2, <2>3, <2>4
    <2> QED BY <2>5 DEF s, o
  <1>4. ASSUME NEW n \in 1 .. 4, NEW gap \in {7, 40, 95}, NEW total \in {20, 500}, NEW off \in {0, 60}
        PROVE  Right(Steady(n, gap, total, off))
    <2> DEFINE O(i) == MCOrder((i - 1) * gap, total, off, "COMPLETED")
               s == [i \in 1 .. n |-> O(i)]
    <2>1. ASSUME NEW i \in 1 .. n
          PROVE  (i - 1) * gap \in Nat /\ O(i).at = (i - 1) * gap /\ O(i).total = total /\ O(i).discount = off
      <3>1. (i - 1) * gap \in Nat
        OBVIOUS
      <3> QED BY <1>1, <3>1
    <2>2. ASSUME NEW i \in 1 .. n, NEW j \in 1 .. n, i <= j PROVE (i - 1) * gap <= (j - 1) * gap
      BY <2>2
    <2> HIDE DEF O
    <2>3. Len(s) = n /\ DOMAIN s = 1 .. n /\ \A i \in 1 .. n : s[i] = O(i)
      OBVIOUS
    <2>4. s # <<>> /\ n \in 1 .. n
      BY <2>3
    <2> HIDE DEF s
    <2>5. LastDay(s) = (n - 1) * gap
      BY <2>1, <2>3, <2>4 DEF LastDay
    <2>6. Timeline(s)
      <3>1. \A i \in 1 .. n : s[i].at \in Nat /\ s[i].total \in Nat /\ s[i].discount \in Nat
        BY <2>1, <2>3
      <3>2. \A i, j \in 1 .. n : i <= j => s[i].at <= s[j].at
        BY <2>1, <2>2, <2>3
      <3> QED BY <2>3, <3>1, <3>2 DEF Timeline
    <2>7. Right(s)
      BY <2>1, <2>2, <2>3, <2>4, <2>5, <2>6
    <2> QED BY <2>7 DEF s, O
  <1>5. ASSUME NEW gap \in {10, 120}, NEW status \in {"REFUNDED", "PENDING"}
        PROVE  Right(<<MCOrder(0, 40, 0, "COMPLETED"), MCOrder(gap, 40, 0, status),
                       MCOrder(gap + 20, 900, 0, "COMPLETED")>>)
    <2> DEFINE a == MCOrder(0, 40, 0, "COMPLETED")
               b == MCOrder(gap, 40, 0, status)
               c == MCOrder(gap + 20, 900, 0, "COMPLETED")
    <2>1. /\ a.at = 0 /\ a.total = 40 /\ a.discount = 0
          /\ b.at = gap /\ b.total = 40 /\ b.discount = 0
          /\ c.at = gap + 20 /\ c.total = 900 /\ c.discount = 0
      BY <1>1
    <2> HIDE DEF a, b, c
    <2>2. Right(<<a, b, c>>)
      BY <2>1 DEF Timeline, LastDay
    <2> QED BY <2>2 DEF a, b, c
  <1>6. Right(orders)
    <2>1. CASE orders \in {<<>>, <<MCOrder(0, 90, 0, "CANCELLED")>>}
      <3> HIDE DEF Right
      <3> QED BY <1>2, <1>3, <2>1
    <2>2. CASE orders \in {[i \in 1 .. n |-> MCOrder((i - 1) * gap, total, off, "COMPLETED")] :
                             n \in 1 .. 4, gap \in {7, 40, 95}, total \in {20, 500}, off \in {0, 60}}
      <3>1. PICK n \in 1 .. 4, gap \in {7, 40, 95}, total \in {20, 500}, off \in {0, 60} :
              orders = [i \in 1 .. n |-> MCOrder((i - 1) * gap, total, off, "COMPLETED")]
        BY <2>2
      <3>2. n \in 1 .. 4 /\ gap \in {7, 40, 95} /\ total \in {20, 500} /\ off \in {0, 60}
        BY <3>1
      <3>3. orders = Steady(n, gap, total, off)
        BY <3>1
      <3> HIDE DEF Right, Steady
      <3> QED BY <1>4, <3>2, <3>3
    <2>3. CASE orders \in {<<MCOrder(0, 40, 0, "COMPLETED"), MCOrder(gap, 40, 0, status),
                              MCOrder(gap + 20, 900, 0, "COMPLETED")>> :
                                gap \in {10, 120}, status \in {"REFUNDED", "PENDING"}}
      <3> HIDE DEF Right
      <3> QED BY <1>5, <2>3
    <2> QED BY <2>1, <2>2, <2>3 DEF OrderHistories
  <1> QED BY <1>6

LEMMA SilencesAreRead ==
    ASSUME NEW q \in SilenceQuestions
    PROVE  LET a == SilenceAnswer(q)
           IN /\ Lapse[a.later.stage] >= Lapse[a.now.stage]
              /\ a.later.value <= a.now.value
              /\ \A read \in {a.now, a.later} :
                    Lapse[read.stage] >= 2 /\ Completed(q.orders) # {}
                      => read.band \in {"HIGH", "CRITICAL"}
  <1> DEFINE orders == q.orders
             read == q.read
             now == LastDay(orders) + q.after
             then == now + q.longer
             c == MCCustomer(now)
             d == MCCustomer(then)
             favourite == TRUE
             cap == 2
             this == Intelligence(c, orders, now, read, favourite, cap)
             later == Intelligence(d, orders, then, read, favourite, cap)
  <1>1. orders \in OrderHistories /\ read \in Readings /\ q.after \in Nat /\ q.longer \in Nat
    BY DEF SilenceQuestions
  <1>2. Timeline(orders) /\ Messages(read)
    BY <1>1, HistoriesAreTimelines DEF Readings, Messages
  <1>3. LastDay(orders) \in Nat /\ \A i \in DOMAIN orders : orders[i].at <= LastDay(orders)
    BY <1>1, HistoriesAreTimelines
  <1>4. \A i \in DOMAIN orders : orders[i].at \in Nat
    BY <1>2 DEF Timeline
  <1>5. now \in Nat /\ then \in Nat /\ now <= then
    BY <1>1, <1>3
  <1>6. \A i \in DOMAIN orders : orders[i].at <= now
    BY <1>1, <1>3, <1>4
  <1>7. \A i \in DOMAIN orders : orders[i].at <= then
    BY <1>1, <1>3, <1>4
  <1>8. SilenceAnswer(q).now = this /\ SilenceAnswer(q).later = later
    BY DEF SilenceAnswer
  <1>9. c.tenure = now /\ d.tenure = then
    BY DEF MCCustomer
  <1>10. c.tenure \in Nat /\ d.tenure = c.tenure + (then - now) /\ d.tenure \in Nat
         /\ d.tenure = d.tenure + (then - then) /\ then <= then
    BY <1>5, <1>9
  <1>11. favourite \in BOOLEAN /\ cap \in Nat
    OBVIOUS
  <1> HIDE DEF orders, read, now, then, c, d, favourite, cap
  <1>12. /\ Lapse[later.stage] >= Lapse[this.stage]
         /\ later.value <= this.value
         /\ Lapse[this.stage] >= 2 /\ Completed(orders) # {} => this.band \in {"HIGH", "CRITICAL"}
    BY <1>2, <1>5, <1>6, <1>10, <1>11, SilenceOfAHistory
  <1>13. Lapse[later.stage] >= 2 /\ Completed(orders) # {} => later.band \in {"HIGH", "CRITICAL"}
    BY <1>2, <1>5, <1>7, <1>10, <1>11, SilenceOfAHistory
  <1> HIDE DEF this, later
  <1> QED BY <1>8, <1>12, <1>13 DEF orders

---------------------------------------------------------------------------
(* Rules as trees. *)

Tree(rule) == DOMAIN rule \in SUBSET Seq(Nat) /\ <<>> \in DOMAIN rule

LEMMA Prefixed ==
    ASSUME NEW i \in Nat, NEW p \in Seq(Nat)
    PROVE  /\ <<i>> \o p \in Seq(Nat) /\ <<i>> \o p # <<>>
           /\ Len(<<i>> \o p) = Len(p) + 1
           /\ Head(<<i>> \o p) = i /\ Tail(<<i>> \o p) = p
           /\ (<<i>> \o p)[1] = i /\ \A j \in 1 .. Len(p) : (<<i>> \o p)[j + 1] = p[j]
  <1> DEFINE q == <<i>> \o p
  <1>1. <<i>> \in Seq(Nat) /\ Len(<<i>>) = 1 /\ <<i>>[1] = i
    OBVIOUS
  <1>2. /\ q \in Seq(Nat) /\ Len(q) = Len(p) + 1
        /\ q[1] = i /\ \A j \in 1 .. Len(p) : q[j + 1] = p[j]
    BY <1>1
  <1> HIDE DEF q
  <1>3. q # <<>>
    BY <1>2
  <1>4. /\ Head(q) = q[1] /\ Tail(q) \in Seq(Nat) /\ Len(Tail(q)) = Len(q) - 1
        /\ \A j \in 1 .. Len(Tail(q)) : Tail(q)[j] = q[j + 1]
    BY <1>2, <1>3, HeadTailProperties
  <1>5. Tail(q) = p
    <2>1. Len(Tail(q)) = Len(p) /\ \A j \in 1 .. Len(p) : Tail(q)[j] = p[j]
      BY <1>2, <1>4
    <2> QED BY <1>4, <2>1, SeqEqual
  <1> QED BY <1>2, <1>3, <1>4, <1>5 DEF q

\* The parts of a group are its own and those of its conditions.
Trees(s, n) == DOMAIN s = 1 .. n /\ \A i \in 1 .. n : Tree(s[i])
PartsOf(rule, op, s, n) ==
    /\ Tree(rule) /\ rule[<<>>] = [op |-> op]
    /\ \A i \in 1 .. n : \A p \in DOMAIN s[i] :
          <<i>> \o p \in DOMAIN rule /\ rule[<<i>> \o p] = s[i][p]
    /\ \A path \in DOMAIN rule :
          path = <<>> \/ \E i \in 1 .. n : \E p \in DOMAIN s[i] : path = <<i>> \o p

LEMMA GroupParts ==
    ASSUME NEW op, NEW n \in Nat, NEW s, Trees(s, n)
    PROVE  PartsOf(Group(op, s), op, s, n)
  <1> DEFINE rule == Group(op, s)
             inner == UNION {{<<i>> \o p : p \in DOMAIN s[i]} : i \in DOMAIN s}
  <1>1. DOMAIN s = 1 .. n /\ \A i \in 1 .. n : i \in Nat /\ \A p \in DOMAIN s[i] : p \in Seq(Nat)
    BY DEF Trees, Tree
  <1>2. DOMAIN rule = {<<>>} \union inner
    BY DEF Group
  <1>3. \A path \in inner : \E i \in 1 .. n : \E p \in DOMAIN s[i] : path = <<i>> \o p
    BY <1>1
  <1>4. \A i \in 1 .. n : \A p \in DOMAIN s[i] : <<i>> \o p \in inner
    BY <1>1
  <1>5. rule[<<>>] = [op |-> op]
    BY DEF Group
  <1>6. ASSUME NEW path \in inner PROVE rule[path] = IF path = <<>> THEN [op |-> op] ELSE s[Head(path)][Tail(path)]
    BY <1>6 DEF Group
  <1> HIDE DEF inner, rule
  <1>7. ASSUME NEW i \in 1 .. n, NEW p \in DOMAIN s[i] PROVE rule[<<i>> \o p] = s[i][p]
    <2>1. <<i>> \o p # <<>> /\ Head(<<i>> \o p) = i /\ Tail(<<i>> \o p) = p
      BY <1>1, Prefixed
    <2> QED BY <1>4, <1>6, <2>1
  <1>8. ASSUME NEW path \in inner PROVE path \in Seq(Nat)
    <2>1. PICK i \in 1 .. n : \E p \in DOMAIN s[i] : path = <<i>> \o p
      BY <1>3
    <2>2. PICK p \in DOMAIN s[i] : path = <<i>> \o p
      BY <2>1
    <2>3. i \in Nat /\ p \in Seq(Nat)
      BY <1>1
    <2> QED BY <2>2, <2>3, Prefixed
  <1>9. Tree(rule)
    <2>1. <<>> \in Seq(Nat)
      OBVIOUS
    <2>2. \A path \in DOMAIN rule : path = <<>> \/ path \in inner
      BY <1>2
    <2> QED BY <1>2, <1>8, <2>1, <2>2 DEF Tree
  <1>10. PartsOf(rule, op, s, n)
    BY <1>2, <1>3, <1>4, <1>5, <1>7, <1>9 DEF PartsOf
  <1> QED BY <1>10 DEF rule

LEMMA LeafParts ==
    ASSUME NEW part
    PROVE  Tree(Leaf(part)) /\ DOMAIN Leaf(part) = {<<>>} /\ Leaf(part)[<<>>] = part
  BY DEF Leaf, Tree

---------------------------------------------------------------------------
(* Copy. *)

\* check_targeting judges a group by its conditions, however deep they stand.
THEOREM TargetingIsByCondition ==
    ASSUME NEW op, NEW objective, NEW n \in Nat, NEW s, Trees(s, n)
    PROVE  Rules!Targeting(Group(op, s), objective) =
             UNION {Rules!Targeting(s[i], objective) : i \in 1 .. n}
  <1> DEFINE rule == Group(op, s)
  <1>1. /\ rule[<<>>] = [op |-> op]
        /\ \A i \in 1 .. n : \A p \in DOMAIN s[i] :
              <<i>> \o p \in DOMAIN rule /\ rule[<<i>> \o p] = s[i][p]
        /\ \A path \in DOMAIN rule :
              path = <<>> \/ \E i \in 1 .. n : \E p \in DOMAIN s[i] : path = <<i>> \o p
    BY GroupParts DEF PartsOf
  <1> HIDE DEF rule
  <1>2. Rules!IsGroup(rule[<<>>])
    BY <1>1 DEF Rules!IsGroup
  <1>3. \A r, x : x \in Rules!Targeting(r, objective) <=>
          \E p \in DOMAIN r : ~ Rules!IsGroup(r[p]) /\ x \in Rules!TargetingOf(r[p], objective)
    BY DEF Rules!Targeting
  <1>4. ASSUME NEW x
        PROVE  x \in Rules!Targeting(rule, objective) <=>
                 \E i \in 1 .. n : x \in Rules!Targeting(s[i], objective)
    <2>1. ASSUME x \in Rules!Targeting(rule, objective)
          PROVE  \E i \in 1 .. n : x \in Rules!Targeting(s[i], objective)
      <3>1. PICK path \in DOMAIN rule :
              ~ Rules!IsGroup(rule[path]) /\ x \in Rules!TargetingOf(rule[path], objective)
        BY <1>3, <2>1
      <3>2. PICK i \in 1 .. n : \E p \in DOMAIN s[i] : path = <<i>> \o p
        BY <1>1, <1>2, <3>1
      <3>3. PICK p \in DOMAIN s[i] : path = <<i>> \o p
        BY <3>2
      <3>4. rule[path] = s[i][p]
        BY <1>1, <3>2, <3>3
      <3> QED BY <1>3, <3>1, <3>2, <3>3, <3>4
    <2>2. ASSUME NEW i \in 1 .. n, x \in Rules!Targeting(s[i], objective)
          PROVE  x \in Rules!Targeting(rule, objective)
      <3>1. PICK p \in DOMAIN s[i] :
              ~ Rules!IsGroup(s[i][p]) /\ x \in Rules!TargetingOf(s[i][p], objective)
        BY <1>3, <2>2
      <3>2. <<i>> \o p \in DOMAIN rule /\ rule[<<i>> \o p] = s[i][p]
        BY <1>1
      <3> QED BY <1>3, <3>1, <3>2
    <2> QED BY <2>1, <2>2
  <1> QED BY <1>4 DEF rule

LEMMA TargetingOfLeaf ==
    ASSUME NEW c, ~ Rules!IsGroup(c), NEW objective
    PROVE  Rules!Targeting(Leaf(c), objective) = Rules!TargetingOf(c, objective)
  BY LeafParts DEF Rules!Targeting

---------------------------------------------------------------------------
(* What copy may say. *)

\* validate_message and check_campaign: a draft that is valid passes as the message
\* of any approved campaign whose audience passes.
THEOREM DraftIsFitToSend ==
    ASSUME NEW m, NEW context, NEW config, NEW rule, NEW objective,
           Rules!Valid(m, context, config),
           Rules!Passed(Rules!CheckTargeting(rule, objective, config))
    PROVE  Rules!Passed(Rules!CheckCampaign(m, rule, objective, config, TRUE))
  <1>1. Rules!Passed(Rules!CheckContent(m, config)) /\ Rules!DraftRules(m, context) = {}
    BY DEF Rules!Valid
  <1>2. m.body
    <2>1. ~ m.body => "EMPTY_BODY" \in Rules!DraftRules(m, context)
      BY DEF Rules!DraftRules
    <2> QED BY <1>1, <2>1
  <1>3. ~ (m.channel = "EMAIL" /\ ~ m.subject)
    <2>1. (m.channel = "EMAIL" /\ ~ m.subject) => "EMPTY_SUBJECT" \in Rules!DraftRules(m, context)
      BY DEF Rules!DraftRules
    <2> QED BY <1>1, <2>1
  <1>4. Rules!CheckCampaign(m, rule, objective, config, TRUE) =
          Rules!CheckContent(m, config) \union Rules!CheckTargeting(rule, objective, config)
    BY <1>2, <1>3 DEF Rules!CheckCampaign
  <1> QED BY <1>1, <1>4 DEF Rules!Passed

\* check_campaign with every rule switched on: a delivery that is promised is backed
\* by the brand's own promise and no faster, no amount is named on its own, and an
\* amount that is quoted is the one of an approved promotion.
THEOREM SentCopyIsBacked ==
    ASSUME NEW m, NEW config, NEW rule, NEW objective, NEW approved,
           m.delivery \in Int, config.promised \in Int, config.disabled = {},
           Rules!Passed(Rules!CheckCampaign(m, rule, objective, config, approved))
    PROVE  /\ m.delivery # Rules!Unsaid =>
                config.promised # Rules!Unsaid /\ config.promised <= m.delivery
           /\ m.prices \subseteq {0}
           /\ \A q \in m.quotes : q.over # 0 => q \in config.promotions
  <1> DEFINE findings == Rules!ContentRules(m, config)
  <1>1. \A x \in findings : x \in Rules!Warnings
    <2>1. Rules!CheckContent(m, config) = findings \union Rules!StatementRules(m, config)
      BY DEF Rules!CheckContent
    <2> HIDE DEF findings
    <2> QED BY <2>1 DEF Rules!CheckCampaign, Rules!Passed
  <1>2. /\ Rules!TooFast(m.delivery, config.promised) => "UNVERIFIED_DELIVERY_CLAIM" \in findings
        /\ Rules!PricesIn(m, config) # {} => "UNVERIFIED_PRICE_CLAIM" \in findings
    BY DEF Rules!ContentRules
  <1>3. ~ Rules!TooFast(m.delivery, config.promised) /\ Rules!PricesIn(m, config) = {}
    <2> HIDE DEF findings
    <2> QED BY <1>1, <1>2 DEF Rules!Warnings
  <1>4. m.prices \subseteq {0} /\ \A q \in m.quotes : q.over # 0 => q \in config.promotions
    BY <1>3 DEF Rules!PricesIn
  <1> QED BY <1>3, <1>4 DEF Rules!TooFast, Rules!Unsaid

\* decide_offer and check_content: the message of a nudge that quotes one approved
\* promotion, or none, passes.
THEOREM OfferPasses ==
    ASSUME NEW channel \in Rules!SpokenChannels, NEW config, NEW quotes,
           quotes \subseteq config.promotions
    PROVE  Rules!Passed(Rules!CheckContent(NudgeCopy(channel, quotes), config))
  <1> DEFINE m == NudgeCopy(channel, quotes)
  <1>1. /\ m.channel = channel /\ m.phrases = {"STOP", "DRINKING", "AGE"} /\ m.codes = {} /\ m.offers = {}
        /\ m.quotes = quotes /\ m.delivery = Rules!Unsaid /\ m.prices = {}
    BY DEF NudgeCopy, GoodPhrases
  <1> HIDE DEF m
  <1>2. \A o \in Rules!OffersIn(m) : \E p \in config.promotions : Rules!PromotionMatches(o, p)
    BY <1>1 DEF Rules!OffersIn, Rules!PromotionMatches, Rules!EndsWith
  <1>3. Rules!PricesIn(m, config) = {} /\ ~ Rules!TooFast(m.delivery, config.promised)
    BY <1>1 DEF Rules!PricesIn, Rules!TooFast
  <1>4. Rules!ContentRules(m, config) = {}
    BY <1>1, <1>2, <1>3 DEF Rules!ContentRules
  <1>5. Rules!StatementRules(m, config) = {}
    <2>1. channel = "EMAIL" \/ channel = "SMS" \/ channel = "WHATSAPP"
      BY DEF Rules!SpokenChannels
    <2> QED BY <1>1, <2>1 DEF Rules!StatementRules
  <1>6. Rules!CheckContent(m, config) = {}
    BY <1>4, <1>5 DEF Rules!CheckContent
  <1> QED BY <1>6 DEF Rules!Passed, m

LEMMA CopyIsFit ==
    ASSUME NEW q \in CopyQuestions
    PROVE  LET a == CopyAnswer(q) IN
           /\ a.valid => a.campaign
           /\ a.campaign /\ q.brand.disabled = {} =>
                /\ q.draft.delivery # Rules!Unsaid =>
                     q.brand.promised # Rules!Unsaid /\ q.brand.promised <= q.draft.delivery
                /\ q.draft.prices = {}
                /\ q.draft.quotes \subseteq q.brand.promotions
  <1> DEFINE rule == All(<<>>)
             findings == Rules!CheckCampaign(q.draft, rule, "REORDER", q.brand, TRUE)
  <1>1. q.draft \in Drafts /\ q.brand \in Brands
    BY DEF CopyQuestions
  <1>0. Rules!Unsaid \in Int
    BY DEF Rules!Unsaid
  <1>2. /\ q.draft.delivery \in Int /\ q.draft.prices \in {{}, {8}}
        /\ q.draft.quotes \in {{}, {Promotion(15, 80)}}
    <2>1. q.draft.delivery \in {Rules!Unsaid, 20, 60}
      BY <1>1 DEF Drafts
    <2>2. q.draft.prices \in {{}, {8}}
      BY <1>1 DEF Drafts
    <2>3. q.draft.quotes \in {{}, {Promotion(15, 80)}}
      BY <1>1 DEF Drafts
    <2> QED BY <1>0, <2>1, <2>2, <2>3
  <1>3. q.brand.promised \in Int
    <2>1. q.brand.promised \in {Rules!Unsaid, 60}
      BY <1>1 DEF Brands
    <2> QED BY <1>0, <2>1
  <1>4. Rules!Targeting(rule, "REORDER") = {}
    <2>1. Trees(<<>>, 0)
      BY DEF Trees
    <2>2. rule = Group("AND", <<>>)
      BY DEF All
    <2>3. Rules!Targeting(rule, "REORDER") = UNION {Rules!Targeting(<<>>[i], "REORDER") : i \in 1 .. 0}
      BY <2>1, <2>2, TargetingIsByCondition
    <2> QED BY <2>3
  <1>5. Rules!Passed(Rules!CheckTargeting(rule, "REORDER", q.brand))
    BY <1>4 DEF Rules!CheckTargeting, Rules!Passed
  <1>6. CopyAnswer(q).valid = Rules!Valid(q.draft, Told(q.told), q.brand)
        /\ CopyAnswer(q).campaign = Rules!Passed(findings)
    BY DEF CopyAnswer
  <1> HIDE DEF rule
  <1>7. Rules!Valid(q.draft, Told(q.told), q.brand) => Rules!Passed(findings)
    BY <1>5, DraftIsFitToSend
  <1>8. ASSUME Rules!Passed(findings), q.brand.disabled = {}
        PROVE  /\ q.draft.delivery # Rules!Unsaid =>
                     q.brand.promised # Rules!Unsaid /\ q.brand.promised <= q.draft.delivery
               /\ q.draft.prices \subseteq {0}
               /\ \A p \in q.draft.quotes : p.over # 0 => p \in q.brand.promotions
    BY <1>2, <1>3, <1>8, SentCopyIsBacked
  <1>9. Promotion(15, 80).over # 0
    BY DEF Promotion
  <1>10. ASSUME Rules!Passed(findings), q.brand.disabled = {}
         PROVE  q.draft.prices = {} /\ q.draft.quotes \subseteq q.brand.promotions
    BY <1>2, <1>8, <1>9, <1>10
  <1> HIDE DEF findings
  <1> QED BY <1>6, <1>7, <1>8, <1>10

LEMMA OffersPass ==
    ASSUME NEW q \in OfferQuestions, NEW quotes \in Quotable(q)
    PROVE  LET a == OfferAnswer(q, quotes)
           IN a.passed /\ (a.quotes # {} => q.dependency >= 40)
  <1>1. q.channel \in Rules!SpokenChannels
    BY DEF OfferQuestions
  <1>2. quotes \subseteq q.brand.promotions /\ (quotes # {} => q.dependency >= 40)
    BY DEF Quotable, DecideOffer
  <1>3. OfferAnswer(q, quotes).quotes = quotes
        /\ OfferAnswer(q, quotes).passed = Rules!Passed(Rules!CheckContent(NudgeCopy(q.channel, quotes), q.brand))
    BY DEF OfferAnswer
  <1> QED BY <1>1, <1>2, <1>3, OfferPasses

LEMMA TargetsAlike ==
    ASSUME NEW q \in TargetingQuestions
    PROVE  TargetingAnswer(q).alone = TargetingAnswer(q).nested
  <1> DEFINE city == Is("city", "eq", One("A"))
             rest == Leaf(city)
             heavy == Leaf(q.heavy)
             inner == Either(<<rest, heavy>>)
             whole == All(<<rest, inner>>)
             T(rule) == Rules!Targeting(rule, q.objective)
             brand == CHOOSE b \in Brands : TRUE
             Check(rule) ==
                Rules!Passed(Rules!CheckCampaign(NudgeCopy("SMS", {}), rule, q.objective, brand, TRUE))
  <1>1. ~ Rules!IsGroup(city) /\ Rules!TargetingOf(city, q.objective) = {}
    BY DEF Is, Rules!IsGroup, Rules!TargetingOf
  <1>2. T(rest) = {}
    BY <1>1, TargetingOfLeaf
  <1>3. Tree(rest) /\ Tree(heavy)
    BY LeafParts
  <1> HIDE DEF rest, heavy
  <1>4. Trees(<<rest, heavy>>, 2)
    BY <1>3 DEF Trees
  <1>5. Tree(inner)
    BY <1>4, GroupParts DEF Either, PartsOf
  <1>6. T(inner) = T(heavy)
    <2>1. T(inner) = UNION {T(<<rest, heavy>>[i]) : i \in 1 .. 2}
      BY <1>4, TargetingIsByCondition DEF Either
    <2> QED BY <1>2, <2>1
  <1> HIDE DEF inner
  <1>7. Trees(<<rest, inner>>, 2)
    BY <1>3, <1>5 DEF Trees
  <1>8. T(whole) = T(heavy)
    <2>1. T(whole) = UNION {T(<<rest, inner>>[i]) : i \in 1 .. 2}
      BY <1>7, TargetingIsByCondition DEF All
    <2> QED BY <1>2, <1>6, <2>1
  <1> HIDE DEF whole
  <1>9. Check(heavy) = Check(whole)
    <2>1. Rules!CheckTargeting(heavy, q.objective, brand) = Rules!CheckTargeting(whole, q.objective, brand)
      BY <1>8 DEF Rules!CheckTargeting
    <2> QED BY <2>1 DEF Rules!CheckCampaign
  <1>10. TargetingAnswer(q).alone = Check(heavy) /\ TargetingAnswer(q).nested = Check(whole)
    BY DEF TargetingAnswer, heavy, whole, inner, rest, city
  <1> QED BY <1>9, <1>10

---------------------------------------------------------------------------
(* Audiences: a rule and its opposite. *)

\* What evaluate makes of one part, from what it makes of the conditions in it.
Verdict(rule, customer, now, f, path) ==
    IF ~ Rules!IsGroup(rule[path]) THEN Rules!EvaluateCondition(rule[path], customer, now)
    ELSE IF Rules!Conditions(rule, path) = {} THEN TRUE
    ELSE IF rule[path].op = "AND" THEN \A p \in Rules!Conditions(rule, path) : f[p]
    ELSE \E p \in Rules!Conditions(rule, path) : f[p]

Verdicts(rule, customer, now, f) ==
    f = [path \in DOMAIN rule |-> Verdict(rule, customer, now, f, path)]

\* Paths of a bounded length.
Shallow(rule) == Tree(rule) /\ \A p \in DOMAIN rule : Len(p) <= Rules!MaxNestingDepth

LEMMA Deeper ==
    ASSUME NEW rule, Shallow(rule), NEW path \in DOMAIN rule, NEW p \in Rules!Conditions(rule, path)
    PROVE  p \in DOMAIN rule /\ Len(p) = Len(path) + 1 /\ Len(path) \in Nat /\ Len(p) \in Nat
  BY DEF Shallow, Tree, Rules!Conditions

LEMMA SameVerdict ==
    ASSUME NEW rule, Shallow(rule), NEW customer, NEW now, NEW path \in DOMAIN rule, NEW f, NEW g,
           \A p \in Rules!Conditions(rule, path) : f[p] = g[p]
    PROVE  Verdict(rule, customer, now, f, path) = Verdict(rule, customer, now, g, path)
  <1>1. (\A p \in Rules!Conditions(rule, path) : f[p]) = (\A p \in Rules!Conditions(rule, path) : g[p])
    OBVIOUS
  <1>2. (\E p \in Rules!Conditions(rule, path) : f[p]) = (\E p \in Rules!Conditions(rule, path) : g[p])
    OBVIOUS
  <1> QED BY <1>1, <1>2 DEF Verdict

LEMMA VerdictsExist ==
    ASSUME NEW rule, Shallow(rule), NEW customer, NEW now
    PROVE  \E f : Verdicts(rule, customer, now, f)
  <1> DEFINE N == Rules!MaxNestingDepth + 1
             V(f, path) == Verdict(rule, customer, now, f, path)
             From(f, k) == /\ f = [path \in DOMAIN rule |-> f[path]]
                           /\ \A path \in DOMAIN rule : N - k <= Len(path) => f[path] = V(f, path)
             T == {k \in 0 .. N : ~ \E f : From(f, k)}
  <1>1. N \in Nat
    BY DEF Rules!MaxNestingDepth
  <1>2. \A path \in DOMAIN rule : Len(path) \in Nat /\ Len(path) < N
    BY DEF Shallow, Tree, Rules!MaxNestingDepth
  <1> HIDE DEF N, V
  <1>3. ASSUME NEW k \in T, \A j \in T : k <= j PROVE FALSE
    <2>1. k \in 0 .. N /\ ~ \E f : From(f, k)
      BY <1>3
    <2>2. CASE k = 0
      <3> DEFINE f == [path \in DOMAIN rule |-> TRUE]
      <3>1. \A path \in DOMAIN rule : ~ (N - 0 <= Len(path))
        BY <1>1, <1>2
      <3>2. From(f, 0)
        BY <3>1
      <3> QED BY <2>1, <2>2, <3>2
    <2>3. CASE k # 0
      <3>1. k - 1 \in 0 .. N /\ ~ (k <= k - 1)
        BY <1>1, <2>1, <2>3
      <3>2. k - 1 \notin T
        BY <1>3, <3>1
      <3>3. PICK f : From(f, k - 1)
        BY <3>1, <3>2
      <3> DEFINE g == [path \in DOMAIN rule |-> IF Len(path) = N - k THEN V(f, path) ELSE f[path]]
      <3>4. \A path \in DOMAIN rule :
              g[path] = IF Len(path) = N - k THEN V(f, path) ELSE f[path]
        OBVIOUS
      <3>5. g = [path \in DOMAIN rule |-> g[path]]
        OBVIOUS
      <3> HIDE DEF g
      <3>6. ASSUME NEW path \in DOMAIN rule, N - k <= Len(path) PROVE g[path] = V(g, path)
        <4>1. ASSUME NEW p \in Rules!Conditions(rule, path) PROVE f[p] = g[p]
          <5>1. p \in DOMAIN rule /\ Len(p) = Len(path) + 1 /\ Len(path) \in Nat /\ Len(p) \in Nat
            BY Deeper
          <5>2. Len(p) # N - k
            BY <1>1, <2>1, <3>6, <5>1
          <5> QED BY <3>4, <5>1, <5>2
        <4>2. V(f, path) = V(g, path)
          BY <4>1, SameVerdict DEF V
        <4>3. g[path] = V(f, path)
          <5>1. CASE Len(path) = N - k
            BY <3>4, <5>1
          <5>2. CASE Len(path) # N - k
            <6>1. N - (k - 1) <= Len(path)
              BY <1>1, <1>2, <2>1, <3>6, <5>2
            <6> QED BY <3>3, <3>4, <5>2, <6>1
          <5> QED BY <5>1, <5>2
        <4> QED BY <4>2, <4>3
      <3>7. From(g, k)
        BY <3>5, <3>6
      <3> QED BY <2>1, <3>7
    <2> QED BY <2>2, <2>3
  <1>4. T = {}
    <2>1. T \in SUBSET Nat
      OBVIOUS
    <2> HIDE DEF T
    <2> QED BY <1>3, <2>1, Smallest
  <1>5. N \in 0 .. N
    BY <1>1
  <1>6. PICK f : From(f, N)
    BY <1>4, <1>5
  <1>7. \A path \in DOMAIN rule : N - N <= Len(path)
    BY <1>1, <1>2
  <1>8. \A path \in DOMAIN rule : f[path] = V(f, path)
    BY <1>6, <1>7
  <1>9. f = [path \in DOMAIN rule |-> f[path]]
    BY <1>6
  <1>10. [path \in DOMAIN rule |-> f[path]] = [path \in DOMAIN rule |-> V(f, path)]
    BY <1>8
  <1>11. Verdicts(rule, customer, now, f)
    BY <1>9, <1>10 DEF Verdicts, V
  <1> QED BY <1>11

LEMMA EvaluateIsVerdict ==
    ASSUME NEW rule, Shallow(rule), NEW customer, NEW now
    PROVE  \E f : /\ \A path \in DOMAIN rule : f[path] = Verdict(rule, customer, now, f, path)
                  /\ Rules!Evaluate(rule, customer, now) = f[<<>>]
  <1> DEFINE f == CHOOSE x : Verdicts(rule, customer, now, x)
  <1>1. Verdicts(rule, customer, now, f)
    BY VerdictsExist
  <1>2. Rules!Evaluate(rule, customer, now) = f[<<>>]
    BY DEF Rules!Evaluate, Verdicts, Verdict
  <1> HIDE DEF f
  <1>3. \A path \in DOMAIN rule : f[path] = Verdict(rule, customer, now, f, path)
    BY <1>1 DEF Verdicts
  <1> QED BY <1>2, <1>3

\* The operators that are opposites of each other, by the type of a field.
Opposites ==
    [number |-> {<<"eq", "neq">>, <<"is_null", "is_not_null">>},
     date |-> {<<"in_last_days", "not_in_last_days">>, <<"is_null", "is_not_null">>},
     string |-> {<<"eq", "neq">>, <<"contains", "not_contains">>, <<"in", "not_in">>,
                 <<"is_null", "is_not_null">>},
     enum |-> {<<"eq", "neq">>, <<"in", "not_in">>},
     boolean |-> {<<"is_true", "is_false">>},
     list |-> {<<"contains_any", "not_contains">>, <<"is_empty", "is_not_empty">>}]

\* Two conditions with opposite operators on one field and one value, which is a
\* number where one is compared.
Denies(c, d) ==
    /\ c.field \in DOMAIN Rules!FieldType /\ d.field = c.field /\ d.value = c.value
    /\ <<c.operator, d.operator>> \in Opposites[Rules!FieldType[c.field]]
    /\ c.operator \in {"eq", "in_last_days"} /\ Rules!FieldType[c.field] \in {"number", "date"} =>
          ~ c.value.list /\ Rules!Item(c.value) \in Int

Opposed(c, d) == Denies(c, d) \/ Denies(d, c)

\* The dates of a customer are dates.
Dated(customer) ==
    \A field \in DOMAIN Rules!FieldType :
        Rules!FieldType[field] = "date" => customer[field] \in SUBSET Int

LEMMA DeniedCondition ==
    ASSUME NEW c, NEW d, Denies(c, d), NEW customer, Dated(customer), NEW now \in Int
    PROVE  Rules!EvaluateCondition(d, customer, now) <=> ~ Rules!EvaluateCondition(c, customer, now)
  <1> DEFINE type == Rules!FieldType[c.field]
             actual == customer[c.field]
             one == CHOOSE v \in actual : TRUE
  <1>1. /\ c.field \in DOMAIN Rules!FieldType /\ d.field = c.field /\ d.value = c.value
        /\ <<c.operator, d.operator>> \in Opposites[type]
        /\ c.operator \in {"eq", "in_last_days"} /\ type \in {"number", "date"} =>
              ~ c.value.list /\ Rules!Item(c.value) \in Int
    BY DEF Denies
  <1>2. type \in {"number", "date", "string", "enum", "boolean", "list"}
    BY <1>1 DEF Rules!FieldType
  <1>3. type = "date" => actual \in SUBSET Int
    BY <1>1 DEF Dated
  <1> HIDE DEF type, actual
  <1>4. CASE c.operator = "is_null" /\ d.operator = "is_not_null"
    <2>1. type \in {"number", "date", "string"}
      BY <1>1, <1>2, <1>4 DEF Opposites
    <2>2. Rules!EvaluateCondition(c, customer, now) <=> actual = {}
      BY <1>1, <1>4, <2>1 DEF Rules!EvaluateCondition, type, actual
    <2>3. Rules!EvaluateCondition(d, customer, now) <=> actual # {}
      BY <1>1, <1>4, <2>1 DEF Rules!EvaluateCondition, type, actual
    <2> QED BY <2>2, <2>3
  <1>5. CASE type = "number" /\ ~ (c.operator = "is_null" /\ d.operator = "is_not_null")
    <2>1. c.operator = "eq" /\ d.operator = "neq"
      BY <1>1, <1>5 DEF Opposites
    <2> QED BY <1>1, <1>5, <2>1 DEF Rules!EvaluateCondition, Rules!CompareNumber,
                                   Rules!AbsenceSatisfies, type, actual
  <1>6. CASE type = "date" /\ ~ (c.operator = "is_null" /\ d.operator = "is_not_null")
    <2>1. c.operator = "in_last_days" /\ d.operator = "not_in_last_days"
      BY <1>1, <1>6 DEF Opposites
    <2>2. actual # {} => one \in Int
      BY <1>3, <1>6
    <2> HIDE DEF one
    <2>3. ~ c.value.list /\ Rules!Item(c.value) \in Int
      BY <1>1, <1>6, <2>1
    <2>4. /\ Rules!CompareDate("in_last_days", one, c.value, now) <=> now - one <= Rules!Item(c.value)
          /\ Rules!CompareDate("not_in_last_days", one, c.value, now) <=> now - one > Rules!Item(c.value)
      BY <2>3 DEF Rules!CompareDate
    <2>5. /\ Rules!AbsenceSatisfies("not_in_last_days") /\ ~ Rules!AbsenceSatisfies("in_last_days")
      BY DEF Rules!AbsenceSatisfies
    <2>6. Rules!EvaluateCondition(c, customer, now) <=>
            IF actual = {} THEN Rules!AbsenceSatisfies("in_last_days")
            ELSE Rules!CompareDate("in_last_days", one, c.value, now)
      BY <1>1, <1>6, <2>1 DEF Rules!EvaluateCondition, type, actual, one
    <2>7. Rules!EvaluateCondition(d, customer, now) <=>
            IF actual = {} THEN Rules!AbsenceSatisfies("not_in_last_days")
            ELSE Rules!CompareDate("not_in_last_days", one, c.value, now)
      BY <1>1, <1>6, <2>1 DEF Rules!EvaluateCondition, type, actual, one
    <2>8. actual # {} => (now - one > Rules!Item(c.value) <=> ~ (now - one <= Rules!Item(c.value)))
      BY <2>2, <2>3
    <2> QED BY <2>4, <2>5, <2>6, <2>7, <2>8
  <1>7. CASE type \in {"string", "enum"} /\ ~ (c.operator = "is_null" /\ d.operator = "is_not_null")
    <2>1. <<c.operator, d.operator>> \in {<<"eq", "neq">>, <<"contains", "not_contains">>, <<"in", "not_in">>}
      BY <1>1, <1>7 DEF Opposites
    <2>2. CASE c.operator = "eq" /\ d.operator = "neq"
      BY <1>1, <1>7, <2>2 DEF Rules!EvaluateCondition, Rules!CompareString, Rules!AbsenceSatisfies,
                              type, actual
    <2>3. CASE c.operator = "contains" /\ d.operator = "not_contains"
      BY <1>1, <1>7, <2>3 DEF Rules!EvaluateCondition, Rules!CompareString, Rules!AbsenceSatisfies,
                              type, actual
    <2>4. CASE c.operator = "in" /\ d.operator = "not_in"
      BY <1>1, <1>7, <2>4 DEF Rules!EvaluateCondition, Rules!CompareString, Rules!AbsenceSatisfies,
                              type, actual
    <2> QED BY <2>1, <2>2, <2>3, <2>4
  <1>8. CASE type = "boolean"
    <2>1. c.operator = "is_true" /\ d.operator = "is_false"
      BY <1>1, <1>8 DEF Opposites
    <2> QED BY <1>1, <1>8, <2>1 DEF Rules!EvaluateCondition, type, actual
  <1>9. CASE type = "list"
    <2>1. <<c.operator, d.operator>> \in {<<"contains_any", "not_contains">>, <<"is_empty", "is_not_empty">>}
      BY <1>1, <1>9 DEF Opposites
    <2>2. CASE c.operator = "contains_any" /\ d.operator = "not_contains"
      BY <1>1, <1>9, <2>2 DEF Rules!EvaluateCondition, Rules!CompareList, type, actual
    <2>3. CASE c.operator = "is_empty" /\ d.operator = "is_not_empty"
      BY <1>1, <1>9, <2>3 DEF Rules!EvaluateCondition, Rules!CompareList, type, actual
    <2> QED BY <2>1, <2>2, <2>3
  <1> QED BY <1>2, <1>4, <1>5, <1>6, <1>7, <1>8, <1>9

\* One rule is the other with every operator and group turned into its opposite; no
\* group is empty.
Mirrors(rule, other) ==
    /\ DOMAIN other = DOMAIN rule
    /\ \A path \in DOMAIN rule :
          \/ /\ Rules!IsGroup(rule[path]) /\ Rules!IsGroup(other[path])
             /\ Rules!Conditions(rule, path) # {}
             /\ \/ rule[path].op = "AND" /\ other[path].op = "OR"
                \/ rule[path].op = "OR" /\ other[path].op = "AND"
          \/ /\ ~ Rules!IsGroup(rule[path]) /\ ~ Rules!IsGroup(other[path])
             /\ Opposed(rule[path], other[path])

\* evaluate, for every rule that is nested no deeper than is allowed and every
\* customer, missing values, nested groups and dates ahead included: the rule with
\* every operator and group turned into its opposite matches exactly the customers
\* that the rule does not.
THEOREM ExclusionOfARule ==
    ASSUME NEW rule, NEW other, Shallow(rule), Mirrors(rule, other),
           NEW customer, Dated(customer), NEW now \in Int
    PROVE  Rules!Evaluate(other, customer, now) <=> ~ Rules!Evaluate(rule, customer, now)
  <1>1. DOMAIN other = DOMAIN rule /\ <<>> \in DOMAIN rule
    BY DEF Mirrors, Shallow, Tree
  <1>2. Shallow(other)
    BY <1>1 DEF Shallow, Tree
  <1>3. \A path : Rules!Conditions(other, path) = Rules!Conditions(rule, path)
    BY <1>1 DEF Rules!Conditions
  <1>4. PICK f : /\ \A path \in DOMAIN rule : f[path] = Verdict(rule, customer, now, f, path)
                 /\ Rules!Evaluate(rule, customer, now) = f[<<>>]
    BY EvaluateIsVerdict
  <1>5. PICK g : /\ \A path \in DOMAIN rule : g[path] = Verdict(other, customer, now, g, path)
                 /\ Rules!Evaluate(other, customer, now) = g[<<>>]
    BY <1>1, <1>2, EvaluateIsVerdict
  <1> DEFINE N == Rules!MaxNestingDepth
             Differ(path) == g[path] <=> ~ f[path]
             T == {k \in 0 .. N : \E path \in DOMAIN rule : k = N - Len(path) /\ ~ Differ(path)}
  <1>6. N \in Nat /\ \A path \in DOMAIN rule : Len(path) \in Nat /\ Len(path) <= N
    BY DEF Shallow, Tree, Rules!MaxNestingDepth
  <1> HIDE DEF N
  <1>7. ASSUME NEW k \in T, \A j \in T : k <= j PROVE FALSE
    <2>1. PICK path \in DOMAIN rule : k = N - Len(path) /\ ~ Differ(path)
      BY <1>7
    <2>2. ASSUME NEW p \in Rules!Conditions(rule, path) PROVE Differ(p)
      <3>1. p \in DOMAIN rule /\ Len(p) = Len(path) + 1
        BY Deeper
      <3>2. N - Len(p) \in 0 .. N /\ ~ (k <= N - Len(p))
        BY <1>6, <2>1, <3>1
      <3>3. N - Len(p) \notin T
        BY <1>7, <3>2
      <3> QED BY <3>1, <3>2, <3>3
    <2>3. /\ f[path] = Verdict(rule, customer, now, f, path)
          /\ g[path] = Verdict(other, customer, now, g, path)
      BY <1>4, <1>5
    <2>4. CASE Rules!IsGroup(rule[path])
      <3>1. /\ Rules!IsGroup(other[path]) /\ Rules!Conditions(rule, path) # {}
            /\ \/ rule[path].op = "AND" /\ other[path].op = "OR"
               \/ rule[path].op = "OR" /\ other[path].op = "AND"
        BY <2>4 DEF Mirrors
      <3>2. CASE rule[path].op = "AND" /\ other[path].op = "OR"
        <4>1. f[path] <=> \A p \in Rules!Conditions(rule, path) : f[p]
          BY <2>3, <2>4, <3>1, <3>2 DEF Verdict
        <4>2. g[path] <=> \E p \in Rules!Conditions(rule, path) : g[p]
          BY <1>3, <2>3, <3>1, <3>2 DEF Verdict
        <4> QED BY <2>1, <2>2, <4>1, <4>2
      <3>3. CASE rule[path].op = "OR" /\ other[path].op = "AND"
        <4>1. f[path] <=> \E p \in Rules!Conditions(rule, path) : f[p]
          BY <2>3, <2>4, <3>1, <3>3 DEF Verdict
        <4>2. g[path] <=> \A p \in Rules!Conditions(rule, path) : g[p]
          BY <1>3, <2>3, <3>1, <3>3 DEF Verdict
        <4> QED BY <2>1, <2>2, <4>1, <4>2
      <3> QED BY <3>1, <3>2, <3>3
    <2>5. CASE ~ Rules!IsGroup(rule[path])
      <3>1. ~ Rules!IsGroup(other[path]) /\ Opposed(rule[path], other[path])
        BY <2>5 DEF Mirrors
      <3>2. Rules!EvaluateCondition(other[path], customer, now)
              <=> ~ Rules!EvaluateCondition(rule[path], customer, now)
        BY <3>1, DeniedCondition DEF Opposed
      <3>3. f[path] <=> Rules!EvaluateCondition(rule[path], customer, now)
        BY <2>3, <2>5 DEF Verdict
      <3>4. g[path] <=> Rules!EvaluateCondition(other[path], customer, now)
        BY <2>3, <3>1 DEF Verdict
      <3> QED BY <2>1, <3>2, <3>3, <3>4
    <2> QED BY <2>4, <2>5
  <1>8. T = {}
    <2>1. T \in SUBSET Nat
      OBVIOUS
    <2> HIDE DEF T
    <2> QED BY <1>7, <2>1, Smallest
  <1>9. Differ(<<>>)
    <2>1. N - Len(<<>>) \in 0 .. N
      BY <1>1, <1>6
    <2> QED BY <1>1, <1>8, <2>1
  <1> QED BY <1>4, <1>5, <1>9

---------------------------------------------------------------------------
(* Rules that are built of their conditions. *)

Inverted(op, other) == (op = "AND" /\ other = "OR") \/ (op = "OR" /\ other = "AND")

\* A rule that is valid, of a depth.
Sound(rule, depth) ==
    /\ Tree(rule)
    /\ \A path \in DOMAIN rule :
          /\ Len(path) <= depth
          /\ IF Rules!IsGroup(rule[path]) THEN rule[path].op \in {"AND", "OR"}
             ELSE Rules!ValidCondition(rule[path])

LEMMA GroupIsSound ==
    ASSUME NEW op \in {"AND", "OR"}, NEW n \in Nat, NEW s, DOMAIN s = 1 .. n, NEW depth \in Nat,
           \A i \in 1 .. n : Sound(s[i], depth)
    PROVE  Sound(Group(op, s), depth + 1) /\ Trees(s, n)
  <1> DEFINE rule == Group(op, s)
  <1>1. Trees(s, n)
    BY DEF Trees, Sound
  <1>2. PartsOf(rule, op, s, n)
    BY <1>1, GroupParts
  <1> HIDE DEF rule
  <1>3. ASSUME NEW path \in DOMAIN rule
        PROVE  /\ Len(path) <= depth + 1
               /\ IF Rules!IsGroup(rule[path]) THEN rule[path].op \in {"AND", "OR"}
                  ELSE Rules!ValidCondition(rule[path])
    <2>1. CASE path = <<>>
      <3>1. Len(path) = 0 /\ rule[path] = [op |-> op]
        BY <1>2, <2>1 DEF PartsOf
      <3> QED BY <3>1 DEF Rules!IsGroup
    <2>2. CASE path # <<>>
      <3>1. PICK i \in 1 .. n : \E p \in DOMAIN s[i] : path = <<i>> \o p
        BY <1>2, <2>2 DEF PartsOf
      <3>2. PICK p \in DOMAIN s[i] : path = <<i>> \o p
        BY <3>1
      <3>3. rule[path] = s[i][p]
        BY <1>2, <3>2 DEF PartsOf
      <3>4. i \in Nat /\ p \in Seq(Nat) /\ Len(p) <= depth
        BY <3>2 DEF Sound, Tree
      <3>5. Len(path) = Len(p) + 1
        BY <3>2, <3>4, Prefixed
      <3> QED BY <3>2, <3>3, <3>4, <3>5 DEF Sound
    <2> QED BY <2>1, <2>2
  <1>4. Sound(rule, depth + 1)
    BY <1>2, <1>3 DEF Sound, PartsOf
  <1> QED BY <1>1, <1>4 DEF rule

\* What is in a part of a condition is in the same part of the group around it.
LEMMA InnerConditions ==
    ASSUME NEW op, NEW n \in Nat, NEW s, Trees(s, n), NEW i \in 1 .. n,
           NEW path \in DOMAIN s[i], NEW p \in Rules!Conditions(s[i], path)
    PROVE  <<i>> \o p \in Rules!Conditions(Group(op, s), <<i>> \o path)
  <1> DEFINE rule == Group(op, s)
             long == <<i>> \o p
             short == <<i>> \o path
  <1>1. PartsOf(rule, op, s, n)
    BY GroupParts
  <1> HIDE DEF rule
  <1>2. /\ p \in DOMAIN s[i] /\ Len(p) = Len(path) + 1 /\ \A j \in DOMAIN path : p[j] = path[j]
    BY DEF Rules!Conditions
  <1>3. p \in Seq(Nat) /\ path \in Seq(Nat) /\ i \in Nat
    BY <1>2 DEF Trees, Tree
  <1>4. /\ long \in Seq(Nat) /\ Len(long) = Len(p) + 1 /\ long[1] = i
        /\ \A j \in 1 .. Len(p) : long[j + 1] = p[j]
    BY <1>3, Prefixed
  <1>5. /\ short \in Seq(Nat) /\ Len(short) = Len(path) + 1 /\ short[1] = i
        /\ \A j \in 1 .. Len(path) : short[j + 1] = path[j]
    BY <1>3, Prefixed
  <1>6. long \in DOMAIN rule
    BY <1>1, <1>2 DEF PartsOf
  <1> HIDE DEF long, short
  <1>7. ASSUME NEW j \in DOMAIN short PROVE long[j] = short[j]
    <2>1. j \in 1 .. Len(path) + 1 /\ Len(path) \in Nat
      BY <1>3, <1>5
    <2>2. CASE j = 1
      BY <1>4, <1>5, <2>2
    <2>3. CASE j # 1
      <3>1. j - 1 \in 1 .. Len(path) /\ j - 1 \in 1 .. Len(p) /\ j = (j - 1) + 1
        BY <1>2, <1>3, <2>1, <2>3
      <3>2. long[j] = p[j - 1] /\ short[j] = path[j - 1]
        BY <1>4, <1>5, <3>1
      <3>3. j - 1 \in DOMAIN path
        BY <1>3, <3>1
      <3> QED BY <1>2, <3>2, <3>3
    <2> QED BY <2>2, <2>3
  <1>8. Len(long) = Len(short) + 1
    BY <1>2, <1>4, <1>5
  <1>9. long \in Rules!Conditions(rule, short)
    BY <1>6, <1>7, <1>8 DEF Rules!Conditions
  <1> QED BY <1>9 DEF rule, long, short

LEMMA GroupsMirror ==
    ASSUME NEW op, NEW inverse, Inverted(op, inverse), NEW n \in Nat \ {0}, NEW s, NEW t,
           Trees(s, n), Trees(t, n), \A i \in 1 .. n : Mirrors(s[i], t[i])
    PROVE  Mirrors(Group(op, s), Group(inverse, t))
  <1> DEFINE rule == Group(op, s)
             other == Group(inverse, t)
             In(path) == \E i \in 1 .. n : \E p \in DOMAIN s[i] : path = <<i>> \o p
  <1>1. PartsOf(rule, op, s, n) /\ PartsOf(other, inverse, t, n)
    BY GroupParts
  <1>2. \A i \in 1 .. n : DOMAIN t[i] = DOMAIN s[i] /\ <<>> \in DOMAIN s[i]
    BY DEF Mirrors, Trees, Tree
  <1>3. \A i \in 1 .. n : \A path \in DOMAIN s[i] : \A p \in Rules!Conditions(s[i], path) :
          <<i>> \o p \in Rules!Conditions(rule, <<i>> \o path)
    BY InnerConditions
  <1> HIDE DEF rule, other
  <1>4. \A path \in DOMAIN rule : path = <<>> \/ In(path)
    BY <1>1 DEF PartsOf
  <1>5. ASSUME NEW path \in DOMAIN other PROVE path = <<>> \/ In(path)
    <2>1. CASE path # <<>>
      <3>1. PICK i \in 1 .. n : \E p \in DOMAIN t[i] : path = <<i>> \o p
        BY <1>1, <2>1 DEF PartsOf
      <3>2. PICK p \in DOMAIN t[i] : path = <<i>> \o p
        BY <3>1
      <3>3. p \in DOMAIN s[i]
        BY <1>2, <3>2
      <3> QED BY <3>2, <3>3
    <2> QED BY <2>1
  <1>6. \A path : In(path) => path \in DOMAIN rule /\ path \in DOMAIN other
    BY <1>1, <1>2 DEF PartsOf
  <1>7. <<>> \in DOMAIN rule /\ <<>> \in DOMAIN other
    BY <1>1 DEF PartsOf, Tree
  <1>8. DOMAIN other = DOMAIN rule
    BY <1>4, <1>5, <1>6, <1>7
  <1>9. Rules!Conditions(rule, <<>>) # {}
    <2>4. 1 \in 1 .. n
      OBVIOUS
    <2>5. <<>> \in DOMAIN s[1]
      BY <1>2, <2>4
    <2>6. \A i \in 1 .. n : \A p \in DOMAIN s[i] : <<i>> \o p \in DOMAIN rule
      BY <1>1 DEF PartsOf
    <2>1. <<1>> \o <<>> \in DOMAIN rule
      BY <2>4, <2>5, <2>6
    <2>2. Len(<<1>> \o <<>>) = Len(<<>>) + 1 /\ DOMAIN <<>> = {}
      OBVIOUS
    <2>3. <<1>> \o <<>> \in Rules!Conditions(rule, <<>>)
      BY <2>1, <2>2 DEF Rules!Conditions
    <2> QED BY <2>3
  <1>10. ASSUME NEW path \in DOMAIN rule
         PROVE  \/ /\ Rules!IsGroup(rule[path]) /\ Rules!IsGroup(other[path])
                   /\ Rules!Conditions(rule, path) # {}
                   /\ Inverted(rule[path].op, other[path].op)
                \/ /\ ~ Rules!IsGroup(rule[path]) /\ ~ Rules!IsGroup(other[path])
                   /\ Opposed(rule[path], other[path])
    <2>1. CASE path = <<>>
      <3>1. rule[path] = [op |-> op] /\ other[path] = [op |-> inverse]
        BY <1>1, <2>1 DEF PartsOf
      <3> QED BY <1>9, <2>1, <3>1 DEF Rules!IsGroup
    <2>2. CASE path # <<>>
      <3>1. PICK i \in 1 .. n : \E p \in DOMAIN s[i] : path = <<i>> \o p
        BY <1>4, <2>2
      <3>2. PICK p \in DOMAIN s[i] : path = <<i>> \o p
        BY <3>1
      <3>3. rule[path] = s[i][p] /\ other[path] = t[i][p]
        BY <1>1, <1>2, <3>2 DEF PartsOf
      <3>4. Rules!Conditions(s[i], p) # {} => Rules!Conditions(rule, path) # {}
        BY <1>3, <3>2
      <3>5. Mirrors(s[i], t[i])
        OBVIOUS
      <3> QED BY <3>2, <3>3, <3>4, <3>5 DEF Mirrors, Inverted
    <2> QED BY <2>1, <2>2
  <1>11. Mirrors(rule, other)
    BY <1>8, <1>10 DEF Mirrors, Inverted
  <1> QED BY <1>11 DEF rule, other

LEMMA LeavesMirror ==
    ASSUME NEW c, NEW d, ~ Rules!IsGroup(c), ~ Rules!IsGroup(d), Opposed(c, d)
    PROVE  Mirrors(Leaf(c), Leaf(d))
  BY LeafParts DEF Mirrors

LEMMA LeafIsSound ==
    ASSUME NEW c, ~ Rules!IsGroup(c), Rules!ValidCondition(c)
    PROVE  Sound(Leaf(c), 0)
  BY LeafParts DEF Sound

---------------------------------------------------------------------------
(* Ranking, of the populations that are asked about. *)

LEMMA RanksAreFair ==
    ASSUME NEW q \in RankQuestions,
           NEW i \in DOMAIN q.population, NEW j \in DOMAIN q.population,
           OrdersNoLess(q.population[i], q.population[j])
    PROVE  LET a == RankAnswer(q) IN
           /\ \A d \in {"r", "f", "m"} : a.scores[i][d] >= a.scores[j][d]
           /\ a.segments[i] = "Lost" => a.segments[j] \in {"Lost", "Prospects"}
  <1> DEFINE population == q.population
             scores == ScorePopulation(population)
             a == RankAnswer(q)
  <1>1. Ranked \subseteq Ranking
    BY DEF Ranked, Ranking
  <1>2. /\ DOMAIN population = 1 .. 2 \/ DOMAIN population = 1 .. 5
        /\ \A k \in DOMAIN population : population[k] \in Ranking
    <2>1. CASE q \in [kind : {"rank"}, population : [1 .. 2 -> Ranked]]
      BY <1>1, <2>1
    <2>2. CASE q \notin [kind : {"rank"}, population : [1 .. 2 -> Ranked]]
      <3>1. PICK x \in Ranked, y \in Ranked, c \in {[recency |-> 60, frequency |-> 5, money |-> 900]},
                 d \in {[recency |-> 9, frequency |-> 2, money |-> 120]} :
              population = <<x, y, c, x, d>>
        BY <2>2 DEF RankQuestions
      <3>2. c \in Ranking /\ d \in Ranking /\ x \in Ranking /\ y \in Ranking
        BY <1>1, <3>1 DEF Ranking
      <3>3. DOMAIN population = 1 .. 5
        BY <3>1
      <3>4. \A k \in 1 .. 5 : k \in {1, 2, 3, 4, 5}
        OBVIOUS
      <3>5. \A k \in {1, 2, 3, 4, 5} : population[k] \in {x, y, c, d}
        BY <3>1
      <3> QED BY <3>2, <3>3, <3>4, <3>5
    <2> QED BY <2>1, <2>2
  <1>3. IsFiniteSet(1 .. 2) /\ IsFiniteSet(1 .. 5)
    <2> DEFINE two == 2  five == 5  one == 1
    <2>1. one \in Int /\ two \in Int /\ five \in Int
      OBVIOUS
    <2> HIDE DEF one, two, five
    <2>2. IsFiniteSet(one .. two) /\ IsFiniteSet(one .. five)
      BY <2>1, FS_Interval
    <2> QED BY <2>2 DEF one, two, five
  <1>4. IsFiniteSet(DOMAIN population)
    <2>1. CASE DOMAIN population = 1 .. 2
      BY <1>3, <2>1
    <2>2. CASE DOMAIN population = 1 .. 5
      BY <1>3, <2>2
    <2> QED BY <1>2, <2>1, <2>2
  <1>5. /\ \A d \in {"r", "f", "m"} : scores[i][d] >= scores[j][d]
        /\ SegmentOf(population[i], scores[i]) = "Lost" =>
             SegmentOf(population[j], scores[j]) \in {"Lost", "Prospects"}
    BY <1>2, <1>4, PopulationIsRanked
  <1>6. DOMAIN scores = DOMAIN population
    BY DEF ScorePopulation
  <1>7. /\ a.scores = scores
        /\ a.segments[i] = SegmentOf(population[i], scores[i])
        /\ a.segments[j] = SegmentOf(population[j], scores[j])
    BY <1>6 DEF RankAnswer
  <1> HIDE DEF a, scores, population
  <1>8. /\ \A d \in {"r", "f", "m"} : a.scores[i][d] >= a.scores[j][d]
        /\ a.segments[i] = "Lost" => a.segments[j] \in {"Lost", "Prospects"}
    BY <1>5, <1>7
  <1> QED BY <1>8 DEF a

\* The rules that are asked about, with their opposites.

\* A literal is a valid condition, and so is its denial.
Deniable(c, d) ==
    /\ ~ Rules!IsGroup(c) /\ ~ Rules!IsGroup(d)
    /\ Rules!ValidCondition(c) /\ Rules!ValidCondition(d)
    /\ Denies(c, d)

LEMMA DeniedLiteral ==
    ASSUME NEW f \in DOMAIN Rules!FieldType, NEW o \in DOMAIN Opposite, NEW v,
           o \in Rules!OperatorsByType[Rules!FieldType[f]],
           Opposite[o] \in Rules!OperatorsByType[Rules!FieldType[f]],
           <<o, Opposite[o]>> \in Opposites[Rules!FieldType[f]],
           o \in {"in", "contains_any"} => v.list,
           o \in {"eq", "in_last_days"} /\ Rules!FieldType[f] \in {"number", "date"} =>
              ~ v.list /\ Rules!Item(v) \in Int
    PROVE  Deniable(Is(f, o, v), Literal(Is(f, o, v), TRUE))
  <1> DEFINE c == Is(f, o, v)
             d == Literal(c, TRUE)
  <1>1. /\ DOMAIN c = {"field", "operator", "value"} /\ DOMAIN d = {"field", "operator", "value"}
        /\ c.field = f /\ c.operator = o /\ c.value = v
        /\ d.field = f /\ d.operator = Opposite[o] /\ d.value = v
    BY DEF Is, Literal
  <1>2. o \in {"eq", "in", "contains", "contains_any", "in_last_days", "is_null", "is_true", "is_empty"}
    BY DEF Opposite
  <1>3. Opposite[o] \notin {"between", "in", "not_in", "contains_any", "contains_all"} \/ o = "in"
    BY <1>2 DEF Opposite
  <1> HIDE DEF c, d
  <1>4. ~ Rules!IsGroup(c) /\ ~ Rules!IsGroup(d)
    BY <1>1 DEF Rules!IsGroup
  <1>5. Rules!ValidCondition(c)
    BY <1>1, <1>2 DEF Rules!ValidCondition, Rules!TakesList
  <1>6. Rules!ValidCondition(d)
    <2>1. o = "in" => Opposite[o] = "not_in" /\ v.list
      BY DEF Opposite
    <2>2. Opposite[o] # "between"
      BY <1>2 DEF Opposite
    <2> QED BY <1>1, <1>3, <2>1, <2>2 DEF Rules!ValidCondition, Rules!TakesList
  <1>7. Denies(c, d)
    BY <1>1 DEF Denies
  <1> QED BY <1>4, <1>5, <1>6, <1>7 DEF Deniable, c, d

LEMMA LiteralsAreDeniable ==
    ASSUME NEW c \in Literals
    PROVE  Deniable(c, Literal(c, TRUE)) /\ Literal(c, FALSE) = c
  <1>1. Literal(c, FALSE) = c
    BY DEF Literal
  <1>2. \E f, o, v :
          /\ c = Is(f, o, v)
          /\ \/ f \in {"purchase_frequency_per_month", "discount_dependency"} /\ o \in {"eq", "is_null"}
             \/ f = "signup_date" /\ o = "in_last_days"
             \/ f = "city" /\ o \in {"eq", "contains", "in"}
             \/ f = "lifecycle_stage" /\ o \in {"eq", "in"}
             \/ f = "marketing_consent" /\ o = "is_true"
             \/ f = "preferred_categories" /\ o \in {"contains_any", "is_empty"}
          /\ o \in {"in", "contains_any"} => v.list
          /\ o \in {"eq", "in_last_days"}
               /\ f \in {"purchase_frequency_per_month", "discount_dependency", "signup_date"} =>
                 ~ v.list /\ Rules!Item(v) \in Int
    <2> DEFINE Fits(f, o, v) ==
          /\ \/ f \in {"purchase_frequency_per_month", "discount_dependency"} /\ o \in {"eq", "is_null"}
             \/ f = "signup_date" /\ o = "in_last_days"
             \/ f = "city" /\ o \in {"eq", "contains", "in"}
             \/ f = "lifecycle_stage" /\ o \in {"eq", "in"}
             \/ f = "marketing_consent" /\ o = "is_true"
             \/ f = "preferred_categories" /\ o \in {"contains_any", "is_empty"}
          /\ o \in {"in", "contains_any"} => v.list
          /\ o \in {"eq", "in_last_days"}
               /\ f \in {"purchase_frequency_per_month", "discount_dependency", "signup_date"} =>
                 ~ v.list /\ Rules!Item(v) \in Int
    <2>1. \A x : ~ One(x).list /\ Rules!Item(One(x)) = x
      BY DEF One, Rules!Item
    <2>2. \A s : Many(s).list
      BY DEF Many
    <2>3. /\ Fits("purchase_frequency_per_month", "eq", One(3))
          /\ Fits("purchase_frequency_per_month", "is_null", One(0))
          /\ Fits("discount_dependency", "eq", One(70))
          /\ Fits("signup_date", "in_last_days", One(5)) /\ Fits("signup_date", "in_last_days", One(0))
      BY <2>1
    <2>4. /\ Fits("city", "eq", One("A")) /\ Fits("city", "contains", One("B"))
          /\ Fits("city", "in", Many(<<"A">>)) /\ Fits("lifecycle_stage", "in", Many(<<"NEW", "VIP">>))
          /\ Fits("lifecycle_stage", "eq", One("NEW")) /\ Fits("marketing_consent", "is_true", One(0))
          /\ Fits("preferred_categories", "contains_any", Many(<<"Wine", "Gin">>))
          /\ Fits("preferred_categories", "is_empty", One(0))
      BY <2>2
    <2> HIDE DEF Fits
    <2>5. \E f, o, v : c = Is(f, o, v) /\ Fits(f, o, v)
      BY <2>3, <2>4, ZenonT(60) DEF Literals
    <2> QED BY <2>5 DEF Fits
  <1>3. PICK f, o, v :
          /\ c = Is(f, o, v)
          /\ \/ f \in {"purchase_frequency_per_month", "discount_dependency"} /\ o \in {"eq", "is_null"}
             \/ f = "signup_date" /\ o = "in_last_days"
             \/ f = "city" /\ o \in {"eq", "contains", "in"}
             \/ f = "lifecycle_stage" /\ o \in {"eq", "in"}
             \/ f = "marketing_consent" /\ o = "is_true"
             \/ f = "preferred_categories" /\ o \in {"contains_any", "is_empty"}
          /\ o \in {"in", "contains_any"} => v.list
          /\ o \in {"eq", "in_last_days"}
               /\ f \in {"purchase_frequency_per_month", "discount_dependency", "signup_date"} =>
                 ~ v.list /\ Rules!Item(v) \in Int
    BY <1>2
  <1>4. /\ f \in DOMAIN Rules!FieldType /\ o \in DOMAIN Opposite
        /\ Rules!FieldType[f] \in {"number", "date"} =>
             f \in {"purchase_frequency_per_month", "discount_dependency", "signup_date"}
    BY <1>3 DEF Rules!FieldType, Opposite
  <1>5. /\ o \in Rules!OperatorsByType[Rules!FieldType[f]]
        /\ Opposite[o] \in Rules!OperatorsByType[Rules!FieldType[f]]
    BY <1>3 DEF Rules!FieldType, Opposite, Rules!OperatorsByType, Rules!NumberOperators,
       Rules!StringOperators, Rules!DateOperators, Rules!ListOperators
  <1>6. <<o, Opposite[o]>> \in Opposites[Rules!FieldType[f]]
    BY <1>3 DEF Rules!FieldType, Opposite, Opposites
  <1>7. o \in {"eq", "in_last_days"} /\ Rules!FieldType[f] \in {"number", "date"} =>
              ~ v.list /\ Rules!Item(v) \in Int
    BY <1>3, <1>4
  <1>8. Deniable(Is(f, o, v), Literal(Is(f, o, v), TRUE))
    BY <1>3, <1>4, <1>5, <1>6, <1>7, DeniedLiteral
  <1> QED BY <1>1, <1>3, <1>8

\* A rule and its opposite, both valid and of a depth.
Twins(rule, other, depth) == Sound(rule, depth) /\ Sound(other, depth) /\ Mirrors(rule, other)

LEMMA TwinLeaves ==
    ASSUME NEW c \in Literals, NEW this \in BOOLEAN, NEW other \in BOOLEAN, this # other
    PROVE  Twins(Leaf(Literal(c, this)), Leaf(Literal(c, other)), 0)
  <1> DEFINE x == Literal(c, this)
             y == Literal(c, other)
  <1>1. \/ x = c /\ y = Literal(c, TRUE)
        \/ y = c /\ x = Literal(c, TRUE)
    <2>1. (this /\ ~ other) \/ (other /\ ~ this)
      OBVIOUS
    <2>2. Literal(c, FALSE) = c
      BY LiteralsAreDeniable
    <2> QED BY <2>1, <2>2
  <1>2. Deniable(x, y) \/ Deniable(y, x)
    BY <1>1, LiteralsAreDeniable
  <1> HIDE DEF x, y
  <1>3. /\ ~ Rules!IsGroup(x) /\ ~ Rules!IsGroup(y)
        /\ Rules!ValidCondition(x) /\ Rules!ValidCondition(y) /\ Opposed(x, y)
    BY <1>2 DEF Deniable, Opposed
  <1>4. Sound(Leaf(x), 0) /\ Sound(Leaf(y), 0) /\ Mirrors(Leaf(x), Leaf(y))
    BY <1>3, LeafIsSound, LeavesMirror
  <1> QED BY <1>4 DEF Twins, x, y

LEMMA TwinsAreDeeper ==
    ASSUME NEW rule, NEW other, NEW depth \in Nat, NEW more \in Nat, depth <= more,
           Twins(rule, other, depth)
    PROVE  Twins(rule, other, more)
  <1>1. ASSUME NEW r, Sound(r, depth) PROVE Sound(r, more)
    <2>1. \A path \in DOMAIN r : path \in Seq(Nat) /\ Len(path) <= depth
      BY <1>1 DEF Sound, Tree
    <2>2. \A path \in DOMAIN r : Len(path) \in Nat /\ Len(path) <= depth
      BY <2>1
    <2>3. \A path \in DOMAIN r : Len(path) <= more
      BY <2>2
    <2> QED BY <1>1, <2>3 DEF Sound
  <1> QED BY <1>1 DEF Twins

LEMMA TwinGroups ==
    ASSUME NEW op, NEW inverse, Inverted(op, inverse), NEW n \in Nat \ {0}, NEW s, NEW t,
           DOMAIN s = 1 .. n, DOMAIN t = 1 .. n, NEW depth \in Nat,
           \A i \in 1 .. n : Twins(s[i], t[i], depth)
    PROVE  Twins(Group(op, s), Group(inverse, t), depth + 1)
  <1>1. op \in {"AND", "OR"} /\ inverse \in {"AND", "OR"} /\ n \in Nat
    BY DEF Inverted
  <1>2. \A i \in 1 .. n : Sound(s[i], depth) /\ Sound(t[i], depth) /\ Mirrors(s[i], t[i])
    BY DEF Twins
  <1>3. Sound(Group(op, s), depth + 1) /\ Trees(s, n)
    BY <1>1, <1>2, GroupIsSound
  <1>4. Sound(Group(inverse, t), depth + 1) /\ Trees(t, n)
    BY <1>1, <1>2, GroupIsSound
  <1>5. Mirrors(Group(op, s), Group(inverse, t))
    BY <1>2, <1>3, <1>4, GroupsMirror
  <1> QED BY <1>3, <1>4, <1>5 DEF Twins

LEMMA TwinPairs ==
    ASSUME NEW op, NEW inverse, Inverted(op, inverse), NEW a, NEW b, NEW c, NEW d,
           NEW depth \in Nat, Twins(a, c, depth), Twins(b, d, depth)
    PROVE  Twins(Group(op, <<a, b>>), Group(inverse, <<c, d>>), depth + 1)
  <1> DEFINE s == <<a, b>>
             t == <<c, d>>
             n == 2
  <1>1. n \in Nat \ {0} /\ DOMAIN s = 1 .. n /\ DOMAIN t = 1 .. n
    OBVIOUS
  <1>2. \A i \in 1 .. n : i = 1 \/ i = 2
    OBVIOUS
  <1>3. s[1] = a /\ s[2] = b /\ t[1] = c /\ t[2] = d
    OBVIOUS
  <1>4. \A i \in 1 .. n : Twins(s[i], t[i], depth)
    BY <1>2, <1>3
  <1> HIDE DEF s, t, n
  <1>5. Twins(Group(op, s), Group(inverse, t), depth + 1)
    BY <1>1, <1>4, TwinGroups
  <1> QED BY <1>5 DEF s, t

LEMMA TwinTriples ==
    ASSUME NEW op, NEW inverse, Inverted(op, inverse), NEW a, NEW b, NEW e, NEW c, NEW d, NEW f,
           NEW depth \in Nat, Twins(a, c, depth), Twins(b, d, depth), Twins(e, f, depth)
    PROVE  Twins(Group(op, <<a, b, e>>), Group(inverse, <<c, d, f>>), depth + 1)
  <1> DEFINE s == <<a, b, e>>
             t == <<c, d, f>>
             n == 3
  <1>1. n \in Nat \ {0} /\ DOMAIN s = 1 .. n /\ DOMAIN t = 1 .. n
    OBVIOUS
  <1>2. \A i \in 1 .. n : i = 1 \/ i = 2 \/ i = 3
    OBVIOUS
  <1>3. s[1] = a /\ s[2] = b /\ s[3] = e /\ t[1] = c /\ t[2] = d /\ t[3] = f
    OBVIOUS
  <1>4. \A i \in 1 .. n : Twins(s[i], t[i], depth)
    BY <1>2, <1>3
  <1> HIDE DEF s, t, n
  <1>5. Twins(Group(op, s), Group(inverse, t), depth + 1)
    BY <1>1, <1>4, TwinGroups
  <1> QED BY <1>5 DEF s, t

LEMMA AudienceTwins ==
    ASSUME NEW q \in AudienceQuestions
    PROVE  Twins(AudienceRule(q, FALSE), AudienceRule(q, TRUE), 3)
  <1> DEFINE Part(c, denied) == Leaf(Literal(c, denied))
             one == Part(q.first, q.denied[1] # FALSE)
             one2 == Part(q.first, q.denied[1] # TRUE)
             two == Part(q.second, q.denied[2] # FALSE)
             two2 == Part(q.second, q.denied[2] # TRUE)
             three == Part(q.third, FALSE)
             three2 == Part(q.third, TRUE)
             op == q.op
             op2 == IF q.op = "AND" THEN "OR" ELSE "AND"
             zero == 0
  <1>1. /\ q.first \in Literals /\ q.second \in Literals /\ q.third \in Literals
        /\ q.denied[1] \in BOOLEAN /\ q.denied[2] \in BOOLEAN /\ q.op \in {"AND", "OR"}
        /\ q.deep \in BOOLEAN
    BY DEF AudienceQuestions, Literals
  <1>2. Inverted(op, op2) /\ Inverted("AND", "OR") /\ Inverted("OR", "AND")
    BY <1>1 DEF Inverted
  <1>3. Twins(one, one2, zero) /\ Twins(two, two2, zero) /\ Twins(three, three2, zero)
    <2>1. Twins(one, one2, 0)
      BY <1>1, TwinLeaves
    <2>2. Twins(two, two2, 0)
      BY <1>1, TwinLeaves
    <2>3. Twins(three, three2, 0)
      BY <1>1, TwinLeaves
    <2> QED BY <2>1, <2>2, <2>3
  <1>4. /\ ~ q.deep => /\ AudienceRule(q, FALSE) = Group(op, <<one, two, three>>)
                       /\ AudienceRule(q, TRUE) = Group(op2, <<one2, two2, three2>>)
        /\ q.deep => /\ AudienceRule(q, FALSE) =
                          Group(op, <<one, Group("OR", <<two, Group("AND", <<three, one>>)>>)>>)
                     /\ AudienceRule(q, TRUE) =
                          Group(op2, <<one2, Group("AND", <<two2, Group("OR", <<three2, one2>>)>>)>>)
    BY DEF AudienceRule
  <1> HIDE DEF one, one2, two, two2, three, three2, op, op2
  <1>5. /\ Twins(one, one2, 1) /\ Twins(two, two2, 1) /\ Twins(one, one2, 2)
    <2> DEFINE d1 == 1  d2 == 2
    <2>1. zero \in Nat /\ d1 \in Nat /\ d2 \in Nat /\ zero <= d1 /\ zero <= d2
      OBVIOUS
    <2> HIDE DEF zero, d1, d2
    <2>2. Twins(one, one2, d1) /\ Twins(two, two2, d1) /\ Twins(one, one2, d2)
      BY <1>3, <2>1, TwinsAreDeeper
    <2> QED BY <2>2 DEF d1, d2
  <1> DEFINE and == "AND"  or == "OR"  d1 == 1  d2 == 2
             in == Group(and, <<three, one>>)
             in2 == Group(or, <<three2, one2>>)
             mid == Group(or, <<two, in>>)
             mid2 == Group(and, <<two2, in2>>)
  <1>6. /\ zero \in Nat /\ d1 \in Nat /\ d2 \in Nat /\ zero + 1 = d1 /\ d1 + 1 = d2 /\ d2 + 1 = 3
        /\ Inverted(and, or) /\ Inverted(or, and)
        /\ Twins(one, one2, d1) /\ Twins(two, two2, d1) /\ Twins(one, one2, d2)
    BY <1>2, <1>5
  <1> HIDE DEF zero, d1, d2, and, or
  <1>7. Twins(in, in2, zero + 1)
    BY <1>3, <1>6, TwinPairs
  <1> HIDE DEF in, in2
  <1>8. Twins(mid, mid2, d1 + 1)
    BY <1>6, <1>7, TwinPairs
  <1> HIDE DEF mid, mid2
  <1>9. Twins(Group(op, <<one, mid>>), Group(op2, <<one2, mid2>>), d2 + 1)
    BY <1>2, <1>6, <1>8, TwinPairs
  <1>10. Twins(Group(op, <<one, two, three>>), Group(op2, <<one2, two2, three2>>), zero + 1)
    BY <1>2, <1>3, <1>6, TwinTriples
  <1>11. Twins(Group(op, <<one, two, three>>), Group(op2, <<one2, two2, three2>>), 3)
    <2> DEFINE r == Group(op, <<one, two, three>>)
               t == Group(op2, <<one2, two2, three2>>)
               d3 == 3
    <2>1. d3 \in Nat /\ d1 <= d3 /\ Twins(r, t, d1)
      BY <1>6, <1>10 DEF d1
    <2> HIDE DEF r, t, d3
    <2>2. Twins(r, t, d3)
      BY <1>6, <2>1, TwinsAreDeeper
    <2> QED BY <2>2 DEF r, t, d3
  <1>12. Twins(Group(op, <<one, mid>>), Group(op2, <<one2, mid2>>), 3)
    BY <1>6, <1>9
  <1> QED BY <1>4, <1>11, <1>12 DEF mid, mid2, in, in2, and, or

\* The members of a rule and of its opposite are all customers, and none are both.
LEMMA AudiencesExclude ==
    ASSUME NEW q \in AudienceQuestions
    PROVE  LET a == AudienceAnswer(q) IN
           /\ a.valid
           /\ a.members \intersect a.others = {}
           /\ a.members \union a.others = CustomerViews
  <1> DEFINE rule == AudienceRule(q, FALSE)
             other == AudienceRule(q, TRUE)
             a == AudienceAnswer(q)
             now == 6
  <1>1. a.valid = Rules!ValidRule(rule) /\ a.members = Members(rule) /\ a.others = Members(other)
    BY DEF AudienceAnswer
  <1>2. Twins(rule, other, 3)
    BY AudienceTwins
  <1> HIDE DEF rule, other
  <1>3. Shallow(rule) /\ Rules!ValidRule(rule) /\ Mirrors(rule, other)
    <2>1. \A path \in DOMAIN rule : path \in Seq(Nat) /\ Len(path) <= 3
      BY <1>2 DEF Twins, Sound, Tree
    <2>2. \A path \in DOMAIN rule : Len(path) \in Nat /\ Len(path) <= 5
      BY <2>1
    <2> QED BY <1>2, <2>2 DEF Twins, Sound, Shallow, Rules!ValidRule, Rules!MaxNestingDepth
  <1>4. \A customer \in CustomerViews : Dated(customer)
    BY DEF CustomerViews, Dated, Rules!FieldType
  <1>5. now \in Int
    OBVIOUS
  <1> HIDE DEF now
  <1>6. \A customer \in CustomerViews :
          Rules!Evaluate(other, customer, now) <=> ~ Rules!Evaluate(rule, customer, now)
    BY <1>3, <1>4, <1>5, ExclusionOfARule
  <1>7. /\ Members(rule) \intersect Members(other) = {}
        /\ Members(rule) \union Members(other) = CustomerViews
    BY <1>6 DEF Members, now
  <1> QED BY <1>1, <1>3, <1>7

---------------------------------------------------------------------------
(* The specification: what is asked stays, and an answer is the one that   *)
(* its computation works out.                                              *)

Asked(q) ==
    /\ q.kind = "slot" => q \in SlotQuestions /\ q.start + 1 < q.end
    /\ q.kind = "occurrence" =>
         /\ q \in OccurrenceQuestions
         /\ q.recurrence = "WEEKLY" => q.target < DaysPerWeek
         /\ q.recurrence = "MONTHLY" => q.target > 0
    /\ q.kind = "nudge" => q \in NudgeQuestions
    /\ q.kind = "silence" => q \in SilenceQuestions
    /\ q.kind = "rank" => q \in RankQuestions
    /\ q.kind = "audience" => q \in AudienceQuestions
    /\ q.kind = "copy" => q \in CopyQuestions
    /\ q.kind = "offer" => q \in OfferQuestions
    /\ q.kind = "targeting" => q \in TargetingQuestions

Worked(q, a) ==
    /\ q.kind = "slot" => a = SlotAnswer(q)
    /\ q.kind = "occurrence" => a = OccurrenceAnswer(q)
    /\ q.kind = "nudge" => a = NudgeAnswer(q)
    /\ q.kind = "silence" => a = SilenceAnswer(q)
    /\ q.kind = "rank" => a = RankAnswer(q)
    /\ q.kind = "audience" => a = AudienceAnswer(q)
    /\ q.kind = "copy" => a = CopyAnswer(q)
    /\ q.kind = "offer" => \E quotes \in Quotable(q) : a = OfferAnswer(q, quotes)
    /\ q.kind = "targeting" => a = TargetingAnswer(q)

Consistent == Asked(question) /\ (answer = Unanswered \/ Worked(question, answer))

LEMMA QuestionKinds ==
    /\ \A q \in SlotQuestions : q.kind = "slot"
    /\ \A q \in OccurrenceQuestions : q.kind = "occurrence"
    /\ \A q \in NudgeQuestions : q.kind = "nudge"
    /\ \A q \in SilenceQuestions : q.kind = "silence"
    /\ \A q \in RankQuestions : q.kind = "rank"
    /\ \A q \in AudienceQuestions : q.kind = "audience"
    /\ \A q \in CopyQuestions : q.kind = "copy"
    /\ \A q \in OfferQuestions : q.kind = "offer"
    /\ \A q \in TargetingQuestions : q.kind = "targeting"
    /\ \A q \in LoadQuestions : q.kind = "load"
    /\ \A q \in ConsentQuestions : q.kind = "consent"
  <1>1. \A q \in SlotQuestions : q.kind = "slot"
    BY DEF SlotQuestions
  <1>2. \A q \in OccurrenceQuestions : q.kind = "occurrence"
    BY DEF OccurrenceQuestions
  <1>3. \A q \in NudgeQuestions : q.kind = "nudge"
    BY DEF NudgeQuestions
  <1>4. \A q \in SilenceQuestions : q.kind = "silence"
    BY DEF SilenceQuestions
  <1>5. \A q \in RankQuestions : q.kind = "rank"
    BY DEF RankQuestions
  <1>6. \A q \in AudienceQuestions : q.kind = "audience"
    BY DEF AudienceQuestions
  <1>7. \A q \in CopyQuestions : q.kind = "copy"
    BY DEF CopyQuestions
  <1>8. \A q \in OfferQuestions : q.kind = "offer"
    BY DEF OfferQuestions
  <1>9. \A q \in TargetingQuestions : q.kind = "targeting"
    BY DEF TargetingQuestions
  <1>10. \A q \in LoadQuestions : q.kind = "load"
    BY DEF LoadQuestions
  <1>11. \A q \in ConsentQuestions : q.kind = "consent"
    BY DEF ConsentQuestions
  <1> QED BY <1>1, <1>2, <1>3, <1>4, <1>5, <1>6, <1>7, <1>8, <1>9, <1>10, <1>11

LEMMA ConsistentInit == Init => Consistent
  <1> SUFFICES ASSUME Init PROVE Consistent
    OBVIOUS
  <1>1. /\ question \in SlotQuestions \union OccurrenceQuestions \union NudgeQuestions
                    \union SilenceQuestions \union RankQuestions \union AudienceQuestions
                    \union CopyQuestions \union OfferQuestions \union TargetingQuestions
                    \union LoadQuestions \union ConsentQuestions
        /\ question.kind = "slot" => question.start + 1 < question.end
        /\ question.kind = "occurrence" =>
             /\ question.recurrence = "WEEKLY" => question.target < DaysPerWeek
             /\ question.recurrence = "MONTHLY" => question.target > 0
        /\ answer = Unanswered
    BY DEF Init
  <1>2. Asked(question)
    BY <1>1, QuestionKinds DEF Asked
  <1> QED BY <1>1, <1>2 DEF Consistent

LEMMA ConsistentNext == Consistent /\ [Next]_vars => Consistent'
  <1> SUFFICES ASSUME Consistent, [Next]_vars PROVE Consistent'
    OBVIOUS
  <1>1. Asked(question)
    BY DEF Consistent
  <1>2. ASSUME question' = question, Worked(question, answer') PROVE Consistent'
    BY <1>1, <1>2 DEF Consistent
  <1>3. CASE AnswerSlot
    BY <1>2, <1>3 DEF AnswerSlot, Worked
  <1>4. CASE AnswerOccurrence
    BY <1>2, <1>4 DEF AnswerOccurrence, Worked
  <1>5. CASE AnswerNudge
    BY <1>2, <1>5 DEF AnswerNudge, Worked
  <1>6. CASE AnswerSilence
    BY <1>2, <1>6 DEF AnswerSilence, Worked
  <1>7. CASE AnswerRank
    BY <1>2, <1>7 DEF AnswerRank, Worked
  <1>8. CASE AnswerAudience
    BY <1>2, <1>8 DEF AnswerAudience, Worked
  <1>9. CASE AnswerCopy
    BY <1>2, <1>9 DEF AnswerCopy, Worked
  <1>10. CASE AnswerOffer
    BY <1>2, <1>10 DEF AnswerOffer, Worked
  <1>11. CASE AnswerTargeting
    BY <1>2, <1>11 DEF AnswerTargeting, Worked
  <1>12. CASE AnswerLoad
    BY <1>2, <1>12 DEF AnswerLoad, Worked
  <1>13. CASE AnswerConsent
    BY <1>2, <1>13 DEF AnswerConsent, Worked
  <1>14. CASE UNCHANGED vars
    BY <1>14 DEF vars, Consistent
  <1>15. CASE Rest
    BY <1>14, <1>15 DEF Rest
  <1> QED BY <1>3, <1>4, <1>5, <1>6, <1>7, <1>8, <1>9, <1>10, <1>11, <1>12, <1>13, <1>14, <1>15
          DEF Next

LEMMA AlwaysConsistent == Spec => []Consistent
  BY ConsistentInit, ConsistentNext, PTL DEF Spec

\* next_send_slot, combine_local and next_occurrence, in every calendar: the slot that is
\* given for a moment is the first open one from then on, and a campaign runs next on the
\* first day of its recurrence that is still ahead and not past its end.
THEOREM CalendarAlwaysExact == Spec => []CalendarIsExact
  <1>1. Consistent => CalendarIsExact
    <2> SUFFICES ASSUME Consistent PROVE CalendarIsExact
      OBVIOUS
    <2>1. ASSUME Answered("slot"), question.defer
          PROVE  IsSlot(question.moment, question.start, question.end, answer.when)
      <3>1. /\ question \in SlotQuestions /\ question.start + 1 < question.end
            /\ answer = SlotAnswer(question)
        BY <2>1 DEF Consistent, Asked, Worked, Answered
      <3> QED BY <2>1, <3>1, SlotsAreExact
    <2>2. ASSUME Answered("occurrence") PROVE IsOccurrence(question, answer.next)
      <3>1. /\ question \in OccurrenceQuestions
            /\ question.recurrence = "WEEKLY" => question.target < DaysPerWeek
            /\ question.recurrence = "MONTHLY" => question.target > 0
            /\ answer = OccurrenceAnswer(question)
        BY <2>2 DEF Consistent, Asked, Worked, Answered
      <3> QED BY <3>1, CalculationsAssumption, OccurrencesAreExact
    <2> QED BY <2>1, <2>2 DEF CalendarIsExact
  <1> QED BY <1>1, AlwaysConsistent, PTL

\* compute_order_pattern, _due_from_pattern and clamp_to_window, in every calendar with
\* hours by day and for every way to divide the day: a pattern is found exactly when there
\* are orders enough, and the nudge is due ahead, in open hours, on a day of the pattern
\* less its lead.
THEOREM AlwaysNudgedOnTheirDay == Spec => []NudgedOnTheirDay
  <1>1. Consistent => NudgedOnTheirDay
    <2> SUFFICES ASSUME Consistent, Answered("nudge")
                 PROVE  IF ~answer.pattern.has THEN answer.due = Never /\ Len(question.orders) < 3
                        ELSE IsTheirTime(answer.pattern, question.after, question.leadDays,
                                         question.leadHours, answer.due)
      BY DEF NudgedOnTheirDay
    <2>1. question \in NudgeQuestions /\ answer = NudgeAnswer(question)
      BY DEF Consistent, Asked, Worked, Answered
    <2> QED BY <2>1, CalculationsAssumption, NudgesAreTimed
  <1> QED BY <1>1, AlwaysConsistent, PTL

\* compute_metrics, classify_lifecycle, estimate_ltv and score_churn: a history read later
\* is no less lapsed and worth no more, and one that reads as lapsed is at high risk.
THEOREM SilenceIsAlwaysRead == Spec => []SilenceIsRead
  <1>1. Consistent => SilenceIsRead
    <2> SUFFICES ASSUME Consistent, Answered("silence")
                 PROVE  /\ Lapse[answer.later.stage] >= Lapse[answer.now.stage]
                        /\ answer.later.value <= answer.now.value
                        /\ \A read \in {answer.now, answer.later} :
                              Lapse[read.stage] >= 2 /\ Completed(question.orders) # {}
                                => read.band \in {"HIGH", "CRITICAL"}
      BY DEF SilenceIsRead
    <2>1. question \in SilenceQuestions /\ answer = SilenceAnswer(question)
      BY DEF Consistent, Asked, Worked, Answered
    <2> QED BY <2>1, SilencesAreRead
  <1> QED BY <1>1, AlwaysConsistent, PTL

\* score_population, whatever size of a population quantiles are taken from on: who has
\* ordered no less is scored no lower, and never filed among the lost while others are not.
THEOREM RankingIsAlwaysFair == Spec => []RankingIsFair
  <1>1. Consistent => RankingIsFair
    <2> SUFFICES ASSUME Consistent, Answered("rank"),
                        NEW i \in DOMAIN question.population, NEW j \in DOMAIN question.population,
                        OrdersNoLess(question.population[i], question.population[j])
                 PROVE  /\ \A d \in {"r", "f", "m"} : answer.scores[i][d] >= answer.scores[j][d]
                        /\ answer.segments[i] = "Lost" => answer.segments[j] \in {"Lost", "Prospects"}
      BY DEF RankingIsFair
    <2>1. question \in RankQuestions /\ answer = RankAnswer(question)
      BY DEF Consistent, Asked, Worked, Answered
    <2> QED BY <2>1, RanksAreFair
  <1> QED BY <1>1, AlwaysConsistent, PTL

\* validate_rule and evaluate: a rule that is asked about is valid, and every customer is
\* matched by it or by its opposite, and by one of them only.
THEOREM ExclusionIsAlwaysComplement == Spec => []ExclusionIsComplement
  <1>1. Consistent => ExclusionIsComplement
    <2> SUFFICES ASSUME Consistent, Answered("audience")
                 PROVE  /\ answer.valid
                        /\ answer.members \intersect answer.others = {}
                        /\ answer.members \union answer.others = CustomerViews
      BY DEF ExclusionIsComplement
    <2>1. question \in AudienceQuestions /\ answer = AudienceAnswer(question)
      BY DEF Consistent, Asked, Worked, Answered
    <2> QED BY <2>1, AudiencesExclude
  <1> QED BY <1>1, AlwaysConsistent, PTL

\* validate_message, check_content, check_campaign, check_targeting and decide_offer: copy a
\* draft is accepted with is accepted for a campaign, what it promises and quotes is backed
\* by the brand, the offer of a nudge passes, and a condition is judged alike wherever it
\* stands in the audience.
THEOREM CopyIsAlwaysBacked == Spec => []CopyIsBacked
  <1>1. Consistent => CopyIsBacked
    <2> SUFFICES ASSUME Consistent PROVE CopyIsBacked
      OBVIOUS
    <2>1. ASSUME Answered("copy")
          PROVE  /\ answer.valid => answer.campaign
                 /\ answer.campaign /\ question.brand.disabled = {} =>
                      /\ question.draft.delivery # Rules!Unsaid =>
                           question.brand.promised # Rules!Unsaid
                           /\ question.brand.promised <= question.draft.delivery
                      /\ question.draft.prices = {}
                      /\ question.draft.quotes \subseteq question.brand.promotions
      <3>1. question \in CopyQuestions /\ answer = CopyAnswer(question)
        BY <2>1 DEF Consistent, Asked, Worked, Answered
      <3> QED BY <3>1, CopyIsFit
    <2>2. ASSUME Answered("offer")
          PROVE  answer.passed /\ (answer.quotes # {} => question.dependency >= 40)
      <3>1. question \in OfferQuestions
            /\ \E quotes \in Quotable(question) : answer = OfferAnswer(question, quotes)
        BY <2>2 DEF Consistent, Asked, Worked, Answered
      <3> QED BY <3>1, OffersPass
    <2>3. ASSUME Answered("targeting") PROVE answer.alone = answer.nested
      <3>1. question \in TargetingQuestions /\ answer = TargetingAnswer(question)
        BY <2>3 DEF Consistent, Asked, Worked, Answered
      <3> QED BY <3>1, TargetsAlike
    <2> QED BY <2>1, <2>2, <2>3 DEF CopyIsBacked
  <1> QED BY <1>1, AlwaysConsistent, PTL

=============================================================================

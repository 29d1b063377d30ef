---------------------------- MODULE OrderPattern ----------------------------
(***************************************************************************)
(* When a customer usually orders, and when to nudge them:                 *)
(* backend/app/analytics/order_patterns.py and the timing helpers of       *)
(* backend/app/automations/nudge.py, as operators over local hours.        *)
(*                                                                         *)
(* An order is the local hour it was placed at, oldest first. The          *)
(* confidences, which nothing decides on, and the wording of the reasons   *)
(* are left out.                                                           *)
(***************************************************************************)
EXTENDS Calendar, Statistics

CONSTANTS
    WindowOrders,  \* orders considered: DEFAULT_WINDOW_ORDERS
    Buckets,       \* names of the parts of a day
    BucketStart, BucketEnd,  \* the hours of each bucket
    OpenHour, CloseHour      \* settings.send_window

ASSUME PatternAssumption ==
    /\ WindowOrders \in Nat \ {0}
    /\ OpenHour \in Nat /\ CloseHour \in Nat
    /\ \A b \in Buckets : BucketStart[b] \in Nat /\ BucketEnd[b] \in Nat

NoPattern == [has |-> FALSE, weekday |-> 0, hour |-> 0]
Pattern == [has : BOOLEAN, weekday : 0 .. DaysPerWeek - 1, hour : 0 .. HoursPerDay - 1]

BucketFor(hour) ==
    CHOOSE b \in Buckets : BucketStart[b] <= hour /\ hour < BucketEnd[b]

Hits(values, v) == Cardinality({i \in DOMAIN values : values[i] = v})

\* Counter.most_common(1): the most frequent value; among equals, the one met first.
MostCommon(values) ==
    LET best == CHOOSE i \in DOMAIN values :
                    /\ \A j \in DOMAIN values : Hits(values, values[j]) <= Hits(values, values[i])
                    /\ \A j \in 1 .. i - 1 : Hits(values, values[j]) < Hits(values, values[i])
    IN values[best]

\* int(statistics.median(...)): the middle value, or the mean of the middle two.
Median(values) == MiddleTwo(values) \div 2

LastOrders(orders) ==
    SubSeq(orders, Later(1, Len(orders) - WindowOrders + 1), Len(orders))

\* compute_order_pattern, of the completed orders in order of time.
ComputePattern(orders, minOrders) ==
    LET window == LastOrders(orders)
        weekdays == [i \in DOMAIN window |-> Weekday(DayOf(window[i]))]
        hours == [i \in DOMAIN window |-> HourOf(window[i])]
        modal == MostCommon([i \in DOMAIN window |-> BucketFor(hours[i])])
        inModal == {i \in DOMAIN hours : BucketFor(hours[i]) = modal}
    IN IF Len(orders) < minOrders THEN NoPattern
       ELSE [has |-> TRUE, weekday |-> MostCommon(weekdays),
             hour |-> Median([i \in inModal |-> hours[i]])]

\* should_recompute: no pattern yet, or one past its refresh age in days.
ShouldRecompute(computed, now, maxAge) ==
    computed = Never \/ (now - computed) \div HoursPerDay >= maxAge

\* decide_offer: a discount only for those who respond to one, and only an
\* approved promotion. Dependency and threshold in percent.
DecideOffer(dependency, threshold, promotions) ==
    dependency >= threshold /\ promotions # {}

-----------------------------------------------------------------------------
(* From a pattern to a due time.                                           *)

\* next_nudge_time: the next local hour of the pattern, the day moved ahead.
NextNudgeTime(pattern, after, leadDays) ==
    LET target == (pattern.weekday - leadDays) % DaysPerWeek
        ahead == (target - Weekday(DayOf(after))) % DaysPerWeek
        candidate == At(DayOf(after) + ahead, pattern.hour)
    IN IF candidate <= after THEN candidate + DaysPerWeek * HoursPerDay ELSE candidate

LastSlot == CloseHour - 1

\* Too early is put off to the opening of the same day, after their usual time.
BugClampToWindow(due) ==
    IF HourOf(due) >= CloseHour THEN At(DayOf(due), LastSlot)
    ELSE IF HourOf(due) < OpenHour THEN At(DayOf(due), OpenHour)
    ELSE due

\* clamp_to_window: pulled into business hours on the customer's own day, or
\* onto the evening before when it is too early.
ClampToWindow(due) ==
    IF HourOf(due) >= CloseHour THEN At(DayOf(due), LastSlot)
    ELSE IF HourOf(due) < OpenHour THEN At(DayOf(due) - 1, LastSlot)
    ELSE due

\* _due_from_pattern: a week on, while clamping has put it into the past.
DueFromPattern(pattern, after, leadDays, leadHours) ==
    LET localAfter == ToLocal(after)
        aimed == NextNudgeTime(pattern, localAfter, leadDays) - leadHours
        Week(k) == ClampToWindow(aimed + k * DaysPerWeek * HoursPerDay)
        weeks == CHOOSE k \in 0 .. leadHours + 2 :
                    Week(k) > localAfter /\ \A j \in 0 .. k - 1 : Week(j) <= localAfter
    IN IF pattern.has THEN ToUtc(Week(weeks)) ELSE Never

IsOpen(local) == OpenHour <= HourOf(local) /\ HourOf(local) < CloseHour

\* What a nudge is for: ahead of `after`, in the last open hour that is not later
\* than the customer's usual hour on one of their days, less the lead.
IsTheirTime(pattern, after, leadDays, leadHours, due) ==
    LET local == ToLocal(due)
        Usual(k) == At(k, pattern.hour) - leadHours
    IN /\ due > after
       /\ IsOpen(local)
       /\ \E k \in DayOf(local) .. DayOf(local) + leadHours + 2 :
             /\ Weekday(k) = (pattern.weekday - leadDays) % DaysPerWeek
             /\ local <= Usual(k)
             /\ \A x \in local + 1 .. Usual(k) : ~ IsOpen(x)

=============================================================================

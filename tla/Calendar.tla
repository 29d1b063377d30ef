------------------------------ MODULE Calendar ------------------------------
(***************************************************************************)
(* Local time, the send window and the recurrence of a campaign:           *)
(* backend/app/core/timezones.py, `resolve_send_time` of runtime.py and    *)
(* `next_occurrence` of cohort.py, as operators.                           *)
(*                                                                         *)
(* A moment is a number of hours. The database counts in UTC, customers    *)
(* live in local time, `Summer` hours ahead from the moment `Forward` to   *)
(* the moment `Back` and `Winter` hours otherwise: a local hour may not    *)
(* exist, or exist twice. A window is a pair of hours of the day,          *)
(* [start, end); a day is the number of the local day, and day 0 is the    *)
(* first day of a week and of a month.                                     *)
(***************************************************************************)
EXTENDS Integers, Sequences

CONSTANTS
    HoursPerDay,    \* 24
    DaysPerWeek,    \* 7
    Winter, Summer, \* hours local time is ahead of UTC
    Forward, Back,  \* the UTC hours the clocks are changed at
    MonthLengths    \* days of the months of the calendar, in order

ASSUME CalendarAssumption ==
    /\ HoursPerDay \in Nat \ {0} /\ DaysPerWeek \in Nat \ {0}
    /\ Winter \in Nat /\ Summer \in {Winter, Winter + 1}
    /\ Forward \in Nat /\ Back \in Nat /\ Forward < Back
    /\ MonthLengths \in Seq(Nat \ {0})

Later(a, b) == IF a > b THEN a ELSE b
Earlier(a, b) == IF a < b THEN a ELSE b

Never == -1           \* no further occurrence: None in the code
HourOf(local) == local % HoursPerDay
DayOf(local) == local \div HoursPerDay
Weekday(day) == day % DaysPerWeek
At(day, hour) == day * HoursPerDay + hour

ToLocal(moment) ==
    moment + (IF Forward <= moment /\ moment < Back THEN Summer ELSE Winter)

\* A local hour that does not exist, and the first of two equal ones, are read
\* with the offset before the change (zoneinfo, fold = 0).
ToUtc(local) ==
    local - (IF Forward + Summer <= local /\ local < Back + Summer THEN Summer ELSE Winter)

-----------------------------------------------------------------------------
(* The send window.                                                        *)

InWindow(hour, start, end) ==
    IF start <= end THEN start <= hour /\ hour < end
                    ELSE hour >= start \/ hour < end

InSendWindow(moment, start, end) == InWindow(HourOf(ToLocal(moment)), start, end)

\* A local day and hour as a moment; where that hour is missing, the next one.
CombineLocal(day, hour) ==
    LET utc == ToUtc(At(day, hour))
    IN IF HourOf(ToLocal(utc)) = hour THEN utc ELSE ToUtc(At(day, hour) + 1)

\* Past the window of today, the next slot is tomorrow's opening.
SlotDay(local, end) == DayOf(local) + (IF HourOf(local) >= end THEN 1 ELSE 0)

NextSendSlot(moment, start, end) ==
    IF InSendWindow(moment, start, end) THEN moment
    ELSE CombineLocal(SlotDay(ToLocal(moment), end), start)

\* resolve_send_time: the moment a message is for, and whether it was moved.
\* Without deferring, a moment outside the window is reported and kept.
ResolveSendTime(moment, start, end, defer) ==
    [when |-> IF defer THEN NextSendSlot(moment, start, end) ELSE moment,
     moved |-> ~InSendWindow(moment, start, end)]

-----------------------------------------------------------------------------
(* Recurrence of a cohort campaign.                                        *)

Recurrence == {"ONCE", "DAILY", "WEEKLY", "MONTHLY"}
Months == 1 .. Len(MonthLengths)

MonthStart[m \in Months] ==
    IF m = 1 THEN 0 ELSE MonthStart[m - 1] + MonthLengths[m - 1]

MonthOf(day) ==
    CHOOSE m \in Months : MonthStart[m] <= day /\ day < MonthStart[m] + MonthLengths[m]

\* A month without that day is not clamped.
BugClampDay(month, target) == MonthStart[month] + target - 1

\* Month-end safe: the 31st is the 30th in a month of 30 days.
ClampDay(month, target) ==
    MonthStart[month] + Earlier(target, MonthLengths[month]) - 1

\* The first moment of the recurrence and the one to take when that has passed.
Daily(day, hour) == <<CombineLocal(day, hour), CombineLocal(day + 1, hour)>>

Weekly(day, hour, target) ==
    LET delta == (target - Weekday(day)) % DaysPerWeek
    IN <<CombineLocal(day + delta, hour), CombineLocal(day + delta + DaysPerWeek, hour)>>

Monthly(day, hour, target) ==
    LET month == MonthOf(day)
    IN <<CombineLocal(ClampDay(month, target), hour),
         CombineLocal(ClampDay(month + 1, target), hour)>>

NextOccurrence(kind, hour, target, ends, after) ==
    LET day == DayOf(ToLocal(after))
        turn == CASE kind = "DAILY" -> Daily(day, hour)
                  [] kind = "WEEKLY" -> Weekly(day, hour, target)
                  [] kind = "MONTHLY" -> Monthly(day, hour, target)
        next == IF turn[1] <= after THEN turn[2] ELSE turn[1]
    IN IF kind = "ONCE" THEN Never
       ELSE IF ends # Never /\ next > ends THEN Never
       ELSE next

-----------------------------------------------------------------------------
(* What the two are for.                                                   *)

\* The first moment from now on in the window.
IsSlot(moment, start, end, when) ==
    /\ when >= moment
    /\ InSendWindow(when, start, end)
    /\ \A n \in moment .. when - 1 : ~InSendWindow(n, start, end)

\* The days a recurrence falls on.
FallsOn(kind, target, day) ==
    LET month == MonthOf(day)
        inMonth == day - MonthStart[month] + 1
    IN CASE kind = "DAILY" -> TRUE
         [] kind = "WEEKLY" -> Weekday(day) = target
         [] kind = "MONTHLY" ->
               \/ inMonth = target
               \/ inMonth = MonthLengths[month] /\ target > MonthLengths[month]
         [] kind = "ONCE" -> FALSE

\* The first day of a recurrence whose hour is still ahead.
IsTurn(kind, hour, target, after, day) ==
    LET Due(d) == FallsOn(kind, target, d) /\ CombineLocal(d, hour) > after
    IN Due(day) /\ \A e \in DayOf(ToLocal(after)) .. day - 1 : ~Due(e)

=============================================================================

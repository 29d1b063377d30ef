--------------------------- MODULE CustomerScores ---------------------------
(***************************************************************************)
(* What the platform computes about one customer, as operators:            *)
(*   backend/app/analytics/metrics.py      Metrics and the estimated value *)
(*   backend/app/services/lifecycle.py     Lifecycle                       *)
(*   backend/app/churn/engine.py           Churn                           *)
(*   backend/app/rfm/engine.py             Rfm                             *)
(*   backend/app/services/channel_priority.py, recommendations/engine.py   *)
(*                                         ResolveChannel, Recommend       *)
(*                                                                         *)
(* A moment is a day. An order is [at, total, discount, status], a history *)
(* a sequence of them in order of time. Shares are whole percent, cycles   *)
(* hundredths of a day, points of the churn score ten-thousandths; where   *)
(* the code rounds, a share is rounded down. The wording of explanations,  *)
(* and item counts, which nothing here decides on, are left out: all that  *)
(* remains of the items is whether a favourite category is known.          *)
(***************************************************************************)
EXTENDS Statistics, FiniteSetsExt, Sequences

NoDay == -1   \* None, where a number of days is expected

Clamp(low, n, high) == IF n < low THEN low ELSE IF n > high THEN high ELSE n
Larger(a, b) == IF a > b THEN a ELSE b

-----------------------------------------------------------------------------
(* Metrics. Some orders of a history are the set of their places in it.    *)

Completed(orders) == {i \in DOMAIN orders : orders[i].status = "COMPLETED"}

Problems(orders) == {i \in DOMAIN orders : orders[i].status \in {"CANCELLED", "REFUNDED"}}

Window(orders, now, days, offset) ==
    {i \in Completed(orders) : now - offset - days < orders[i].at /\ orders[i].at <= now - offset}

Money(orders, some) == Total([i \in some |-> orders[i].total], Len(orders))

\* The completed orders before one, and the days since the last of them.
Before(orders, i) == {j \in Completed(orders) : j < i}
Gap(orders, i) == orders[i].at - orders[Max(Before(orders, i))].at

Gaps(orders) ==
    [i \in {j \in Completed(orders) : Before(orders, j) # {}} |-> Gap(orders, i)]

MedianGap(gaps) == 50 * MiddleTwo(gaps)

AverageGap(gaps, n) == (100 * Total(gaps, n)) \div Cardinality(DOMAIN gaps)

\* _trend: from -100 (gone) to 100; flat when there is nothing to compare with.
Trend(current, previous) ==
    IF previous <= 0 THEN (IF current <= 0 THEN 0 ELSE 100)
    ELSE Clamp(-100, (100 * (current - previous)) \div previous, 100)

Rate(count, sent) == IF count >= sent THEN 100 ELSE (100 * count) \div sent

\* _engagement_score of the messages and the orders of the last 90 days.
EngagementScore(e, recentOrders) ==
    LET buying == (100 * Clamp(0, recentOrders, 6)) \div 6
        reading == (50 * Rate(e.opened, e.sent) + 30 * Rate(e.clicked, e.sent)
                        + 20 * Rate(e.replied, e.sent)) \div 100
    IN IF e.sent > 0 THEN (55 * reading + 45 * buying) \div 100 ELSE buying

Dependency(orders) ==
    LET done == Completed(orders)
        off == Total([i \in done |-> orders[i].discount], Len(orders))
        gross == Money(orders, done) + off
        reduced == {i \in done : orders[i].discount > 0}
        share == (100 * Cardinality(reduced)) \div Cardinality(done)
        depth == IF gross > 0 THEN Clamp(0, (300 * off) \div gross, 100) ELSE 0
    IN Clamp(0, (7 * share + 3 * depth) \div 10, 100)

\* What compute_metrics leaves for a customer without a completed order.
NoMetrics(orders, e) ==
    [total |-> Len(orders), completed |-> 0, problems |-> Cardinality(Problems(orders)),
     revenue |-> 0, sinceLast |-> NoDay, sinceFirst |-> NoDay, median |-> 0, average |-> 0,
     last30 |-> 0, last90 |-> 0, prev90 |-> 0, revenue90 |-> 0, spendTrend |-> 0,
     frequencyTrend |-> 0, dependency |-> 0, engagement |-> EngagementScore(e, 0)]

Metrics(orders, now, e) ==
    LET done == Completed(orders)
        n == Cardinality(done)
        recent == Window(orders, now, 90, 0)
        before == Window(orders, now, 90, 90)
    IN IF n = 0 THEN NoMetrics(orders, e)
       ELSE [total |-> Len(orders), completed |-> n, problems |-> Cardinality(Problems(orders)),
             revenue |-> Money(orders, done),
             sinceLast |-> Larger(now - orders[Max(done)].at, 0),
             sinceFirst |-> Larger(now - orders[Min(done)].at, 0),
             median |-> IF n >= 2 THEN MedianGap(Gaps(orders)) ELSE 0,
             average |-> IF n >= 2 THEN AverageGap(Gaps(orders), Len(orders)) ELSE 0,
             last30 |-> Cardinality(Window(orders, now, 30, 0)),
             last90 |-> Cardinality(recent), prev90 |-> Cardinality(before),
             revenue90 |-> Money(orders, recent),
             spendTrend |-> Trend(Money(orders, recent), Money(orders, before)),
             frequencyTrend |-> Trend(Cardinality(recent), Cardinality(before)),
             dependency |-> Dependency(orders),
             engagement |-> EngagementScore(e, Cardinality(recent))]

UsualInterval(m) == IF m.median > 0 THEN m.median ELSE IF m.average > 0 THEN m.average ELSE 6000

\* In hundredths, by how far past the next order a customer is.
YearsLeft(late, interval) ==
    CASE late <= 0 -> 200
      [] late > 0 /\ late < interval -> 125
      [] late >= interval /\ late < 3 * interval -> 60
      [] late >= 3 * interval -> 20

\* estimate_ltv: value of an order, times orders a year, times the years left,
\* which shrink as the customer goes quiet; never below what was already spent.
\* Orders a year times the average order is what was
\* spent per year, in the range of half an order to sixty a year.
EstimatedValue(m) ==
    LET tenure == Larger(m.sinceFirst, 1)
        interval == UsualInterval(m)
        years == YearsLeft(100 * m.sinceLast - interval, interval)
        perYear == Clamp(m.revenue \div (2 * m.completed),
                         (m.revenue * 365) \div tenure,
                         60 * (m.revenue \div m.completed))
    IN IF m.completed = 0 \/ m.revenue <= 0 THEN 0
       ELSE Larger((perYear * years) \div 100, m.revenue)

-----------------------------------------------------------------------------
(* Lifecycle.                                                              *)

Stage == {"NEW", "ACTIVATING", "REGULAR", "HIGH_VALUE", "VIP", "AT_RISK", "DORMANT",
          "CHURNED", "REACTIVATED"}

\* How far gone a stage reads.
Lapse == [stage \in Stage |->
             CASE stage = "CHURNED" -> 3 [] stage = "DORMANT" -> 2
               [] stage = "AT_RISK" -> 1 [] OTHER -> 0]

\* LifecycleThresholds.
Threshold ==
    [newWindow |-> 30, cycle |-> 4500, atRisk |-> 150, dormant |-> 3, churned |-> 6,
     dormantFloor |-> 120, churnedFloor |-> 240, regular |-> 3, highValue |-> 600,
     vip |-> 1500, vipOrders |-> 10, gap |-> 90, recent |-> 30, personal |-> 3]

\* expected_cycle_days: their own cadence from three orders on, a blend from two.
ExpectedCycle(m) ==
    IF m.completed >= Threshold.personal /\ m.median > 0 THEN m.median
    ELSE IF m.completed >= 2 /\ m.average > 0 THEN (m.average + Threshold.cycle) \div 2
    ELSE Threshold.cycle

\* detect_reactivation_from_history, and the last order is recent enough.
CameBack(orders, m) ==
    LET last == Max(Completed(orders))
    IN m.completed >= 2 /\ Gap(orders, last) >= Threshold.gap /\ m.sinceLast <= Threshold.recent

AtRiskCut(cycle) == (cycle * Threshold.atRisk) \div 100
DormantCut(cycle) == Larger(Threshold.dormant * cycle, 100 * Threshold.dormantFloor)
ChurnedCut(cycle) == Larger(Threshold.churned * cycle, 100 * Threshold.churnedFloor)

NeverOrdered(m, tenure) ==
    IF tenure # NoDay /\ tenure <= Threshold.newWindow THEN "NEW"
    ELSE IF m.problems > 0 THEN "CHURNED"
    ELSE "DORMANT"

\* The value tiers of a customer who still orders.
Tier(m, cameBack) ==
    IF cameBack /\ m.sinceLast <= Threshold.recent THEN "REACTIVATED"
    ELSE IF m.revenue >= Threshold.vip /\ m.completed >= Threshold.vipOrders THEN "VIP"
    ELSE IF m.revenue >= Threshold.highValue THEN "HIGH_VALUE"
    ELSE IF m.completed >= Threshold.regular THEN "REGULAR"
    ELSE IF m.completed = 1 /\ m.sinceFirst <= Threshold.newWindow THEN "NEW"
    ELSE "ACTIVATING"

\* classify_lifecycle; tenure is days since signup. Lapse comes before value.
Lifecycle(m, tenure, cameBack) ==
    LET silent == 100 * m.sinceLast
        cycle == ExpectedCycle(m)
    IN IF m.completed = 0 THEN NeverOrdered(m, tenure)
       ELSE IF silent >= ChurnedCut(cycle) THEN "CHURNED"
       ELSE IF silent >= DormantCut(cycle) THEN "DORMANT"
       ELSE IF silent >= AtRiskCut(cycle) THEN "AT_RISK"
       ELSE Tier(m, cameBack)

-----------------------------------------------------------------------------
(* Churn. A severity is in ten-thousandths, weights add up to 100.         *)

Full == 10000
Band == {"LOW", "MEDIUM", "HIGH", "CRITICAL"}
Weight == [overdue |-> 40, frequency |-> 18, spend |-> 16, engagement |-> 8,
           single |-> 10, discount |-> 4, problems |-> 4]

Saturation == 6   \* CADENCE_SATURATION_MULTIPLE

Overdue(m, cycle, tenure) ==
    IF m.completed = 0
    THEN Clamp(0, (Full * 100 * Larger(tenure, 0)) \div (3 * cycle), Full)
    ELSE Clamp(0, (Full * (100 * m.sinceLast - cycle)) \div (Saturation * cycle), Full)

\* Only the trend is read, and a customer who stopped looks flat.
BugFrequencyDecline(m) == 100 * Larger(-m.frequencyTrend, 0)

\* A customer who stopped has nothing in both windows, which a trend reads as flat.
FrequencyDecline(m) ==
    IF m.completed = 0 THEN 0
    ELSE IF m.last90 = 0 THEN Full ELSE 100 * Larger(-m.frequencyTrend, 0)

SpendDecline(m) ==
    IF m.completed = 0 THEN 0
    ELSE IF m.revenue90 = 0 THEN Full ELSE 100 * Larger(-m.spendTrend, 0)

EngagementDecline(m, sent) ==
    IF sent > 0 /\ m.engagement < 40 THEN (Full * (40 - m.engagement)) \div 40 ELSE 0

SingleOrder(m, new) ==
    CASE m.completed = 0 -> Full
      [] m.completed = 1 -> IF new THEN 5000 ELSE 9000
      [] m.completed > 1 -> 0

OrderProblems(m) ==
    IF m.total > 0 THEN Clamp(0, (2 * Full * m.problems) \div m.total, Full) ELSE 0

\* score_churn, in tenths of a point. A new customer inside the first cycle
\* does not look risky.
ChurnScore(m, ownCycle, new, tenure, sent) ==
    LET cycle == Larger(ownCycle, 100)
        points == Weight.overdue * Overdue(m, cycle, tenure)
                + Weight.frequency * FrequencyDecline(m) + Weight.spend * SpendDecline(m)
                + Weight.engagement * EngagementDecline(m, sent)
                + Weight.single * SingleOrder(m, new)
                + Weight.discount * Clamp(0, 200 * (m.dependency - 50), Full)
                + Weight.problems * OrderProblems(m)
        score == Clamp(0, (points + 500) \div 1000, 1000)
    IN IF new /\ m.sinceLast # NoDay /\ 100 * m.sinceLast <= cycle
       THEN Clamp(0, score, 200) ELSE score

\* BAND_THRESHOLDS.
RiskBand(score) ==
    CASE score >= 700 -> "CRITICAL"
      [] score >= 450 /\ score < 700 -> "HIGH"
      [] score >= 250 /\ score < 450 -> "MEDIUM"
      [] score < 250 -> "LOW"

-----------------------------------------------------------------------------
(* Recency, frequency and money, scored within a population of customers   *)
(* [recency, frequency, money]; a recency of NoDay is a customer without a *)
(* completed order.                                                        *)

CONSTANT MinPopulation   \* MIN_POPULATION_FOR_QUANTILES

ASSUME ScoresAssumption == MinPopulation \in Nat \ {0}

RecencyBands == <<14, 30, 60, 120>>
FrequencyBands == <<1, 2, 4, 8>>
MoneyBands == <<80, 200, 500, 1200>>

Scored(c) == c.frequency > 0 /\ c.recency # NoDay

\* The 20/40/60/80th percentile of a family of values.
QuantileBreaks(values) ==
    [q \in 1 .. 4 |-> Nth(values, 1 + ((2 * q * Cardinality(DOMAIN values)) \div 10))]

Usable(breaks) == \A i, j \in 1 .. 4 : i # j => breaks[i] # breaks[j]

\* The first break a value does not exceed; 5 when it exceeds all.
Rank(value, breaks) ==
    CHOOSE k \in 1 .. 5 : (k < 5 => value <= breaks[k]) /\ \A j \in 1 .. k - 1 : value > breaks[j]

ScoreAscending(value, breaks) == Rank(value, breaks)
BugScoreDescending(value, breaks) == Rank(value, breaks)
ScoreDescending(value, breaks) == 6 - Rank(value, breaks)

\* The breaks of one dimension: quantiles of a population large and varied
\* enough, the absolute bands otherwise.
Breaks(values, bands) ==
    IF Cardinality(DOMAIN values) >= MinPopulation /\ Usable(QuantileBreaks(values))
    THEN QuantileBreaks(values) ELSE bands

\* The scores of a customer among the breaks of the three dimensions.
Score(c, recency, frequency, money) ==
    IF Scored(c) THEN [r |-> ScoreDescending(c.recency, recency),
                       f |-> ScoreAscending(c.frequency, frequency),
                       m |-> ScoreAscending(c.money, money)]
    ELSE [r |-> 1, f |-> 1, m |-> 1]

ScorePopulation(population) ==
    LET known == {i \in DOMAIN population : Scored(population[i])}
        r == Breaks([i \in known |-> population[i].recency], RecencyBands)
        f == Breaks([i \in known |-> population[i].frequency], FrequencyBands)
        m == Breaks([i \in known |-> population[i].money], MoneyBands)
    IN [i \in DOMAIN population |-> Score(population[i], r, f, m)]

\* classify_rfm_segment; fm is twice the mean of frequency and money.
RfmSegment(s) ==
    LET fm == s.f + s.m
    IN CASE s.r >= 4 /\ fm >= 8 -> "Champions"
         [] s.r = 3 /\ fm >= 8 -> "Loyal Customers"
         [] s.r >= 4 /\ 4 <= fm /\ fm < 8 -> "Potential Loyalists"
         [] s.r = 5 /\ fm < 4 /\ s.f <= 1 -> "New Customers"
         [] s.r >= 4 /\ fm < 4 /\ ~(s.r = 5 /\ s.f <= 1) -> "Promising"
         [] s.r = 3 /\ 4 <= fm /\ fm < 8 -> "Needs Attention"
         [] s.r = 3 /\ fm < 4 -> "About To Sleep"
         [] s.r <= 2 /\ fm >= 8 -> "Cannot Lose Them"
         [] s.r = 2 /\ 4 <= fm /\ fm < 8 -> "At Risk"
         [] s.r = 1 /\ 4 <= fm /\ fm < 8 -> "Hibernating"
         [] s.r <= 2 /\ fm < 4 -> "Lost"

\* Customers without a completed order are not classified.
SegmentOf(c, s) == IF Scored(c) THEN RfmSegment(s) ELSE "Prospects"

\* a has ordered at least as recently, as often and as much as b.
OrdersNoLess(a, b) ==
    /\ Scored(a)
    /\ Scored(b) => a.recency <= b.recency /\ a.frequency >= b.frequency /\ a.money >= b.money

-----------------------------------------------------------------------------
(* Channels and the next best action. A customer is [suppressed, marketing,*)
(* consents, suppressedOn, reachableOn, preferred].                        *)

Nowhere == "NOWHERE"   \* no channel: None
Fallback == <<"WHATSAPP", "SMS", "EMAIL">>
Channels == {"WHATSAPP", "SMS", "EMAIL"}

\* consent_map: marketing consent is the master switch of all channels.
ConsentMap(channels, marketing) == IF marketing THEN channels ELSE {}

\* resolve_channel. A requested channel is used or nothing is.
ResolveChannel(consents, preferred, suppressedOn, reachableOn, requested, fallback) ==
    LET usable == (consents \ suppressedOn) \intersect reachableOn
        open == SelectSeq(Fallback, LAMBDA c : c \in usable)
    IN IF "ALL" \in suppressedOn THEN Nowhere
       ELSE IF requested # Nowhere THEN (IF requested \in usable THEN requested ELSE Nowhere)
       ELSE IF preferred \in usable THEN preferred
       ELSE IF preferred # Nowhere /\ ~fallback THEN Nowhere
       ELSE IF open = <<>> THEN Nowhere ELSE open[1]

\* choose_channel knows the consents and the preference, and nothing else.
ChooseChannel(c) ==
    ResolveChannel(ConsentMap(c.consents, TRUE), c.preferred, {}, Channels, Nowhere, TRUE)

DueToReorder(m, cycle) == m.sinceLast # NoDay /\ 400 * m.sinceLast >= 3 * cycle

\* The action of recommend once nothing blocks it, for customers who have gone
\* quiet and for those who order.
LapsedAction ==
    [CHURNED |-> "WIN_BACK", DORMANT |-> "REACTIVATION", AT_RISK |-> "REORDER_REMINDER"]

ActionOf(stage, m, cycle, favourite) ==
    CASE stage \in DOMAIN LapsedAction -> LapsedAction[stage]
      [] stage = "REACTIVATED" -> "PERSONALIZED_RECOMMENDATION"
      [] stage = "NEW" -> IF m.completed = 0 THEN "WELCOME" ELSE "ENCOURAGE_SECOND_ORDER"
      [] stage = "ACTIVATING" ->
            IF m.completed <= 1 THEN "ENCOURAGE_SECOND_ORDER" ELSE "PERSONALIZED_RECOMMENDATION"
      [] stage \in {"VIP", "HIGH_VALUE", "REGULAR"} ->
            IF DueToReorder(m, cycle) THEN "REORDER_REMINDER"
            ELSE IF stage = "VIP" THEN "VIP_APPRECIATION"
            ELSE IF stage = "HIGH_VALUE" THEN "LOYALTY_RECOGNITION"
            ELSE IF favourite THEN "CATEGORY_MESSAGE" ELSE "REQUEST_FEEDBACK"

Recommend(c, stage, m, favourite, recentMessages, cap) ==
    [channel |-> ChooseChannel(c),
     action |-> IF c.suppressed \/ ~c.marketing THEN "SUPPRESS_COMMUNICATION"
                ELSE IF recentMessages >= cap THEN "NO_ACTION"
                ELSE ActionOf(stage, m, ExpectedCycle(m), favourite)]

-----------------------------------------------------------------------------
(* Everything at once: compute_intelligence.                               *)

Intelligence(c, orders, now, e, favourite, cap) ==
    LET m == Metrics(orders, now, e)
        stage == Lifecycle(m, c.tenure, CameBack(orders, m))
        score == ChurnScore(m, ExpectedCycle(m), stage = "NEW", c.tenure, e.sent)
        heard == [c EXCEPT !.suppressed = @ \/ "ALL" \in c.suppressedOn]
    IN [stage |-> stage, score |-> score, band |-> RiskBand(score), value |-> EstimatedValue(m),
        advice |-> Recommend(heard, stage, m, favourite, e.last30, cap)]

=============================================================================

--------------------------- MODULE MCCalculations ---------------------------
(***************************************************************************)
(* Every pure computation of the backend, asked every question of a small  *)
(* set and compared with what it is meant to compute. `Init` chooses the   *)
(* question, one action per computation works out the answer, and the      *)
(* properties relate the two. Days have eight hours here, weeks three days *)
(* and months four to six days: the arithmetic is the same and every hour, *)
(* day and change of offset is reached.                                    *)
(***************************************************************************)
EXTENDS OrderPattern, CustomerScores

VARIABLES question, answer

Unanswered == [kind |-> "none"]
vars == <<question, answer>>

MCBuckets == {"early", "peak", "late"}
MCBucketStart == [b \in MCBuckets |-> CASE b = "early" -> 0 [] b = "peak" -> 3 [] b = "late" -> 6]
MCBucketEnd == [b \in MCBuckets |-> CASE b = "early" -> 3 [] b = "peak" -> 6 [] b = "late" -> 8]
MCMonths == <<4, 6, 5, 4, 6>>

-----------------------------------------------------------------------------
(* The calendar: when a message may go, and when a campaign is due again.  *)

Moments == 10 .. 70

\* The calendar has another month after that of each moment, and the clocks change
\* outside of the open hours.
InMonth(m, day) == MonthStart[m] <= day /\ day < MonthStart[m] + MonthLengths[m]
MonthAhead(day) == \E m \in Months : m + 1 \in Months /\ InMonth(m, day)
CalendarGoesOn == \A moment \in Moments : MonthAhead(DayOf(ToLocal(moment)))
OpenByDay ==
    /\ OpenHour < CloseHour /\ CloseHour <= HoursPerDay
    /\ Summer # Winter => ~IsOpen(Forward + Winter)

ASSUME CalculationsAssumption == CalendarGoesOn /\ OpenByDay

SlotQuestions ==
    [kind : {"slot"}, moment : Moments, start : 0 .. HoursPerDay - 2, end : 1 .. HoursPerDay - 1,
     defer : BOOLEAN]
OccurrenceQuestions ==
    [kind : {"occurrence"}, recurrence : Recurrence, hour : 0 .. HoursPerDay - 1,
     target : 0 .. 6, ends : {Never, 60}, after : Moments]

SlotAnswer(q) == ResolveSendTime(q.moment, q.start, q.end, q.defer)
OccurrenceAnswer(q) == [next |-> NextOccurrence(q.recurrence, q.hour, q.target, q.ends, q.after)]

AnswerSlot ==
    /\ question.kind = "slot" /\ answer = Unanswered
    /\ answer' = SlotAnswer(question)
    /\ UNCHANGED question

AnswerOccurrence ==
    /\ question.kind = "occurrence" /\ answer = Unanswered
    /\ answer' = OccurrenceAnswer(question)
    /\ UNCHANGED question

\* The days a next occurrence may be on: of two weeks, or of the whole calendar.
Ahead(kind, today) ==
    LET last == Len(MonthLengths)
    IN today .. IF kind = "MONTHLY" THEN MonthStart[last] + MonthLengths[last] - 1
                ELSE today + 2 * DaysPerWeek

IsOccurrence(q, next) ==
    IF q.recurrence = "ONCE" THEN next = Never
    ELSE \E first \in Ahead(q.recurrence, DayOf(ToLocal(q.after))) :
            /\ IsTurn(q.recurrence, q.hour, q.target, q.after, first)
            /\ next = IF q.ends # Never /\ CombineLocal(first, q.hour) > q.ends THEN Never
                      ELSE CombineLocal(first, q.hour)

-----------------------------------------------------------------------------
(* The nudge: when a customer is messaged, from their orders.              *)

Histories == UNION {[1 .. n -> {9, 13, 17, 20, 30}] : n \in 0 .. 4}
Ordered(s) == \A i \in 1 .. Len(s) - 1 : s[i] <= s[i + 1]
NudgeQuestions ==
    [kind : {"nudge"}, orders : {s \in Histories : Ordered(s)}, after : 34 .. 64,
     leadDays : 0 .. 2, leadHours : {0, 1, 5}]

NudgeAnswer(q) ==
    LET pattern == ComputePattern(q.orders, 3)
    IN [pattern |-> pattern, due |-> DueFromPattern(pattern, q.after, q.leadDays, q.leadHours)]

AnswerNudge ==
    /\ question.kind = "nudge" /\ answer = Unanswered
    /\ answer' = NudgeAnswer(question)
    /\ UNCHANGED question

-----------------------------------------------------------------------------
(* The scores of a customer: what the same history says at two moments.    *)

MCOrder(at, total, discount, status) ==
    [at |-> at, total |-> total, discount |-> discount, status |-> status]
OrderHistories ==
    {<<>>, <<MCOrder(0, 90, 0, "CANCELLED")>>}
    \union {[i \in 1 .. n |-> MCOrder((i - 1) * gap, total, off, "COMPLETED")] :
                n \in 1 .. 4, gap \in {7, 40, 95}, total \in {20, 500}, off \in {0, 60}}
    \union {<<MCOrder(0, 40, 0, "COMPLETED"), MCOrder(gap, 40, 0, status),
              MCOrder(gap + 20, 900, 0, "COMPLETED")>> :
                gap \in {10, 120}, status \in {"REFUNDED", "PENDING"}}

Readings == {[sent |-> 0, opened |-> 0, clicked |-> 0, replied |-> 0, last30 |-> 0],
             [sent |-> 4, opened |-> 3, clicked |-> 1, replied |-> 0, last30 |-> 3],
             [sent |-> 4, opened |-> 0, clicked |-> 0, replied |-> 0, last30 |-> 1]}

MCCustomer(tenure) ==
    [tenure |-> tenure, suppressed |-> FALSE, marketing |-> TRUE,
     consents |-> {"SMS"}, suppressedOn |-> {}, reachableOn |-> {"SMS"}, preferred |-> "EMAIL"]

SilenceQuestions ==
    [kind : {"silence"}, orders : OrderHistories, read : Readings, after : {0, 20, 50, 130, 250},
     longer : {15, 70, 200}]

LastDay(orders) == IF orders = <<>> THEN 0 ELSE orders[Len(orders)].at

SilenceAnswer(q) ==
    LET now == LastDay(q.orders) + q.after
        Reading(day) == Intelligence(MCCustomer(day), q.orders, day, q.read, TRUE, 2)
    IN [now |-> Reading(now), later |-> Reading(now + q.longer)]

AnswerSilence ==
    /\ question.kind = "silence" /\ answer = Unanswered
    /\ answer' = SilenceAnswer(question)
    /\ UNCHANGED question

\* Populations with and without quantiles, and one without an order.
Ranked == [recency : {3, 20, 200}, frequency : {1, 3}, money : {50, 300}]
           \union {[recency |-> NoDay, frequency |-> 0, money |-> 0]}
RankQuestions == [kind : {"rank"}, population : [1 .. 2 -> Ranked]]
                 \union [kind : {"rank"}, population :
                            {<<a, b, c, a, d>> : a \in Ranked, b \in Ranked,
                             c \in {[recency |-> 60, frequency |-> 5, money |-> 900]},
                             d \in {[recency |-> 9, frequency |-> 2, money |-> 120]}}]

RankAnswer(q) ==
    LET scores == ScorePopulation(q.population)
    IN [scores |-> scores,
        segments |-> [i \in DOMAIN scores |-> SegmentOf(q.population[i], scores[i])]]

AnswerRank ==
    /\ question.kind = "rank" /\ answer = Unanswered
    /\ answer' = RankAnswer(question)
    /\ UNCHANGED question

-----------------------------------------------------------------------------
(* Audiences: whom a rule matches, and whom its negation matches.          *)

Rules == INSTANCE MessageRules

One(v) == [list |-> FALSE, items |-> <<v>>]
Many(s) == [list |-> TRUE, items |-> s]
Is(field, operator, value) == [field |-> field, operator |-> operator, value |-> value]

Leaf(part) == [path \in {<<>>} |-> part]
Group(op, s) ==
    [path \in {<<>>} \union UNION {{<<i>> \o p : p \in DOMAIN s[i]} : i \in DOMAIN s} |->
        IF path = <<>> THEN [op |-> op] ELSE s[Head(path)][Tail(path)]]
All(s) == Group("AND", s)
Either(s) == Group("OR", s)

Opposite ==
    [eq |-> "neq", in |-> "not_in", contains |-> "not_contains", contains_any |-> "not_contains",
     in_last_days |-> "not_in_last_days", is_null |-> "is_not_null", is_true |-> "is_false",
     is_empty |-> "is_not_empty"]

Literals ==
    {Is("purchase_frequency_per_month", "eq", One(3)),
     Is("purchase_frequency_per_month", "is_null", One(0)),
     Is("discount_dependency", "eq", One(70)),
     Is("signup_date", "in_last_days", One(5)), Is("signup_date", "in_last_days", One(0)),
     Is("city", "eq", One("A")), Is("city", "contains", One("B")), Is("city", "in", Many(<<"A">>)),
     Is("lifecycle_stage", "in", Many(<<"NEW", "VIP">>)), Is("lifecycle_stage", "eq", One("NEW")),
     Is("marketing_consent", "is_true", One(0)),
     Is("preferred_categories", "contains_any", Many(<<"Wine", "Gin">>)),
     Is("preferred_categories", "is_empty", One(0))}
Literal(c, denied) == IF denied THEN [c EXCEPT !.operator = Opposite[@]] ELSE c

CustomerViews ==
    [purchase_frequency_per_month : {{}, {3}}, discount_dependency : {{70}},
     signup_date : {{}, {2}, {12}}, city : {{}, {"A"}}, lifecycle_stage : {{"NEW"}, {"VIP"}},
     marketing_consent : {{TRUE}, {FALSE}}, preferred_categories : {{}, {"Wine"}, {"Wine", "Beer"}}]

AudienceQuestions ==
    [kind : {"audience"}, first : Literals, second : Literals, third : {
        Is("city", "eq", One("A")), Is("signup_date", "in_last_days", One(5))},
     denied : BOOLEAN \X BOOLEAN, op : {"AND", "OR"}, deep : BOOLEAN]

\* A rule of three conditions, flat or with a group in it; with `not`, the same
\* rule with every operator turned into its opposite.
AudienceRule(q, not) ==
    LET Op(op) == IF not THEN (IF op = "AND" THEN "OR" ELSE "AND") ELSE op
        first == Leaf(Literal(q.first, q.denied[1] # not))
        second == Leaf(Literal(q.second, q.denied[2] # not))
        third == Leaf(Literal(q.third, not))
    IN IF q.deep
       THEN Group(Op(q.op), <<first, Group(Op("OR"), <<second, Group(Op("AND"), <<third, first>>)>>)>>)
       ELSE Group(Op(q.op), <<first, second, third>>)

Members(rule) == {v \in CustomerViews : Rules!Evaluate(rule, v, 6)}
AudienceAnswer(q) ==
    LET rule == AudienceRule(q, FALSE)
    IN [valid |-> Rules!ValidRule(rule), members |-> Members(rule),
        others |-> Members(AudienceRule(q, TRUE))]

AnswerAudience ==
    /\ question.kind = "audience" /\ answer = Unanswered
    /\ answer' = AudienceAnswer(question)
    /\ UNCHANGED question

-----------------------------------------------------------------------------
(* Copy: a good message with one thing more or less, under a brand's rules.*)

GoodPhrases == {"STOP", "DRINKING", "AGE"}
Promotion(offer, over) == [offer |-> offer, over |-> over]
Brands ==
    [codes : {{"A"}}, promised : {Rules!Unsaid, 60}, requireStop : {TRUE}, requireDrinking : {TRUE},
     promotions : {{}, {Promotion(15, 80)}, {Promotion(10, 0), Promotion(15, 80)}},
     disabled : {{}, {"UNVERIFIED_PRICE_CLAIM"}}]
Drafts ==
    [channel : Rules!SpokenChannels, subject : {TRUE}, body : {TRUE}, long : {FALSE},
     phrases : {GoodPhrases} \union {GoodPhrases \ {p} : p \in GoodPhrases}
                   \union {GoodPhrases \union {p} : p \in Rules!Phrase},
     codes : {{}, {"A", "B"}}, products : {{"Ale"}}, offers : {{}, {5}, {15}, {20}},
     quotes : {{}, {Promotion(15, 80)}}, delivery : {Rules!Unsaid, 20, 60}, prices : {{}, {8}}]
    \union
    [channel : Rules!SpokenChannels, subject : BOOLEAN, body : BOOLEAN, long : BOOLEAN,
     phrases : {GoodPhrases}, codes : {{}}, products : {{}, {"Ale", "Rum"}},
     offers : {{}}, quotes : {{}}, delivery : {Rules!Unsaid}, prices : {{}}]

\* The author may have been told of promotions that have been withdrawn since.
Told(promotions) == [products |-> {"Ale"}, promotions |-> promotions]

CopyQuestions ==
    [kind : {"copy"}, draft : Drafts, brand : Brands, told : {{}, {Promotion(15, 80)}}]

CopyAnswer(q) ==
    LET findings == Rules!CheckCampaign(q.draft, All(<<>>), "REORDER", q.brand, TRUE)
    IN [valid |-> Rules!Valid(q.draft, Told(q.told), q.brand), campaign |-> Rules!Passed(findings)]

AnswerCopy ==
    /\ question.kind = "copy" /\ answer = Unanswered
    /\ answer' = CopyAnswer(question)
    /\ UNCHANGED question

\* The nudge to a customer who answers to discounts quotes a promotion.
OfferQuestions ==
    [kind : {"offer"}, dependency : {0, 39, 40, 100}, brand : Brands, channel : Rules!SpokenChannels]

NudgeCopy(channel, quotes) ==
    [channel |-> channel, subject |-> TRUE, body |-> TRUE, long |-> FALSE, phrases |-> GoodPhrases,
     codes |-> {}, products |-> {}, offers |-> {}, quotes |-> quotes,
     delivery |-> Rules!Unsaid, prices |-> {}]

Quotable(q) ==
    IF DecideOffer(q.dependency, 40, q.brand.promotions)
    THEN {{p} : p \in q.brand.promotions} ELSE {{}}

OfferAnswer(q, quotes) ==
    LET findings == Rules!CheckContent(NudgeCopy(q.channel, quotes), q.brand)
    IN [quotes |-> quotes, passed |-> Rules!Passed(findings)]

AnswerOffer ==
    /\ question.kind = "offer" /\ answer = Unanswered
    /\ \E quotes \in Quotable(question) : answer' = OfferAnswer(question, quotes)
    /\ UNCHANGED question

\* A condition on heavy buyers, on its own and deep in an audience rule.
TargetingQuestions ==
    [kind : {"targeting"}, objective : {"REORDER", "WINBACK"},
     heavy : {Is("purchase_frequency_per_month", o, One(n)) : o \in {"gt", "gte"}, n \in {11, 12}}
             \union {Is("discount_dependency", "between", Many(<<70, 90>>))}]

TargetingAnswer(q) ==
    LET rest == Leaf(Is("city", "eq", One("A")))
        brand == CHOOSE b \in Brands : TRUE
        Check(rule) ==
            Rules!Passed(Rules!CheckCampaign(NudgeCopy("SMS", {}), rule, q.objective, brand, TRUE))
    IN [alone |-> Check(Leaf(q.heavy)),
        nested |-> Check(All(<<rest, Either(<<rest, Leaf(q.heavy)>>)>>))]

AnswerTargeting ==
    /\ question.kind = "targeting" /\ answer = Unanswered
    /\ answer' = TargetingAnswer(question)
    /\ UNCHANGED question

-----------------------------------------------------------------------------
(* A file of customers, orders and lines, on two states of the database.   *)

CONSTANT None
Imports == INSTANCE ImportRules

Blank == [customer |-> None, order |-> None, item |-> None, product |-> None, quantity |-> 1,
          email |-> None, phone |-> "mobile", signup |-> None, age |-> None, consent |-> None,
          channel |-> None, placed |-> "dated", status |-> None]
Line(customer, order, product) ==
    [Blank EXCEPT !.customer = customer, !.order = order, !.product = product]

FileLines ==
    {Line("C1", "O1", "Ale"), Line("C1", "O2", None), Line("C2", "O1", "Ale"),
     Line("C2", None, None), Line(None, "O2", "Ale"), Line(Imports!ExampleId, "O1", "Ale"),
     [Line("C1", "O1", "Ale") EXCEPT !.item = "I1", !.consent = FALSE, !.phone = "spaced mobile"],
     [Line("C1", "O2", "Ale") EXCEPT !.phone = "landline"],
     [Line("C2", "O1", None) EXCEPT !.phone = "landline"],
     [Line("C2", "O2", "Ale") EXCEPT !.phone = "landline", !.email = "good", !.age = TRUE],
     [Line("C2", "O2", "Rum") EXCEPT !.item = "I1", !.status = "LOST"],
     [Line("C2", "O1", "Rum") EXCEPT !.quantity = 0, !.consent = TRUE],
     [Line("C1", "O1", None) EXCEPT !.item = "I1", !.status = "REFUNDED", !.channel = "SMS"]}

EmptyTables ==
    [customers |-> [c \in {"C1", "C2"} |-> None], orders |-> [o \in {"O1", "O2"} |-> None],
     items |-> [i \in ({"O1", "O2"} \X (1 .. 3)) \union {<<"I1", 0>>, <<None, 1>>} |-> None]]
UsedTables ==
    [EmptyTables EXCEPT
        !.customers["C1"] = [email |-> "good", phone |-> "mobile", signup |-> None, age |-> FALSE,
                             consent |-> FALSE, channel |-> "SMS"],
        !.orders["O1"] = [customer |-> "C1", placed |-> "dated", status |-> "REFUNDED"]]

LoadQuestions ==
    [kind : {"load"}, file : UNION {[1 .. n -> FileLines] : n \in 1 .. 3},
     before : {EmptyTables, UsedTables}, assume : BOOLEAN, short : BOOLEAN]

\* A short report keeps one error for each table, and fewer than a file may have.
LoadAnswer(q) ==
    LET assumed == [age |-> q.assume, consent |-> q.assume]
        max == IF q.short THEN 1 ELSE 3
        Load(db) == Imports!IngestCombined(db, q.file, assumed, max)
        report == Load(q.before)
    IN [report |-> report, again |-> Load(report.db),
        apart |-> Imports!IngestApart(q.before, q.file, assumed, max)]

AnswerLoad ==
    /\ question.kind = "load" /\ answer = Unanswered
    /\ answer' = LoadAnswer(question)
    /\ UNCHANGED question

\* A file of consent events about one customer.
ConsentQuestions ==
    [kind : {"consent"}, before : {{}, Imports!ConsentTypes},
     events : UNION {[1 .. n -> [type : {"MARKETING", "EMAIL", "SMS"}, granted : BOOLEAN]] :
                        n \in 1 .. 3}]

AnswerConsent ==
    /\ question.kind = "consent" /\ answer = Unanswered
    /\ answer' = [consents |-> Imports!IngestConsent(question.before, question.events)]
    /\ UNCHANGED question

-----------------------------------------------------------------------------
Init ==
    /\ question \in SlotQuestions \union OccurrenceQuestions \union NudgeQuestions
                    \union SilenceQuestions \union RankQuestions \union AudienceQuestions
                    \union CopyQuestions \union OfferQuestions \union TargetingQuestions
                    \union LoadQuestions \union ConsentQuestions
    /\ question.kind = "slot" => question.start + 1 < question.end
    /\ question.kind = "occurrence" =>
         /\ question.recurrence = "WEEKLY" => question.target < DaysPerWeek
         /\ question.recurrence = "MONTHLY" => question.target > 0
    /\ answer = Unanswered

Rest == answer # Unanswered /\ UNCHANGED vars

Next == AnswerSlot \/ AnswerOccurrence \/ AnswerNudge \/ AnswerSilence \/ AnswerRank
        \/ AnswerAudience \/ AnswerCopy \/ AnswerOffer \/ AnswerTargeting \/ AnswerLoad \/ AnswerConsent
        \/ Rest

Spec == Init /\ [][Next]_vars

Answered(kind) == answer # Unanswered /\ question.kind = kind

\* A deferred message is for the first moment of the window from now on, across
\* midnight and the change of the clocks, and a campaign runs next on the first
\* day of its recurrence that is still ahead, month ends and its end date
\* included: next_send_slot, combine_local, next_occurrence.
CalendarIsExact ==
    /\ Answered("slot") /\ question.defer =>
         IsSlot(question.moment, question.start, question.end, answer.when)
    /\ Answered("occurrence") => IsOccurrence(question, answer.next)

\* A nudge is due in the open hours, after now, and not later than the customer
\* usually orders on that day (or the evening before), less the lead that is
\* configured; and no later than the next time that is possible.
NudgedOnTheirDay ==
    Answered("nudge") =>
      IF ~answer.pattern.has THEN answer.due = Never /\ Len(question.orders) < 3
      ELSE IsTheirTime(answer.pattern, question.after, question.leadDays, question.leadHours,
                       answer.due)

\* A customer who stays silent is never read as less lapsed than before, nor as
\* worth more; and one whose orders have stopped for good is not at low risk,
\* although the trends of two empty windows are flat: classify_lifecycle,
\* estimate_ltv, score_churn.
SilenceIsRead ==
    Answered("silence") =>
      /\ Lapse[answer.later.stage] >= Lapse[answer.now.stage]
      /\ answer.later.value <= answer.now.value
      /\ \A read \in {answer.now, answer.later} :
            Lapse[read.stage] >= 2 /\ Completed(question.orders) # {}
              => read.band \in {"HIGH", "CRITICAL"}

\* Who has ordered at least as recently, as often and as much is scored no lower
\* in any dimension and never filed among the lost while the other is not.
RankingIsFair ==
    Answered("rank") =>
      \A i, j \in DOMAIN question.population :
        OrdersNoLess(question.population[i], question.population[j]) =>
             /\ \A d \in {"r", "f", "m"} : answer.scores[i][d] >= answer.scores[j][d]
             /\ answer.segments[i] = "Lost" => answer.segments[j] \in {"Lost", "Prospects"}

\* A rule and the rule with every operator and group turned into its opposite
\* share no customer and leave none out, missing values, nested groups and dates
\* ahead included: validate_rule, evaluate.
ExclusionIsComplement ==
    Answered("audience") =>
      /\ answer.valid
      /\ answer.members \intersect answer.others = {}
      /\ answer.members \union answer.others = CustomerViews

\* Copy that a draft is accepted with is accepted for a campaign too. With no rule
\* switched off it promises no faster delivery than the brand does, and no amount
\* but the one of an approved promotion that it quotes, whatever its author was
\* told; the offer a nudge picks passes, and an audience is judged alike wherever
\* the condition stands: validate_message, check_content, check_campaign,
\* check_targeting, decide_offer.
CopyIsBacked ==
    /\ Answered("copy") /\ answer.valid => answer.campaign
    /\ Answered("copy") /\ answer.campaign /\ question.brand.disabled = {} =>
         /\ question.draft.delivery # Rules!Unsaid =>
              question.brand.promised # Rules!Unsaid
              /\ question.brand.promised <= question.draft.delivery
         /\ question.draft.prices = {}
         /\ question.draft.quotes \subseteq question.brand.promotions
    /\ Answered("offer") =>
         answer.passed /\ (answer.quotes # {} => question.dependency >= 40)
    /\ Answered("targeting") => answer.alone = answer.nested

LinesOf(file, column, id) == {i \in DOMAIN file : file[i][column] = id}

\* The last event of a file that decides on a type of consent, 0 without one: one
\* of that type, or a refusal of marketing.
LastWord(events, type) ==
    Max({0} \union {i \in DOMAIN events :
            events[i].type = type \/ (events[i].type = "MARKETING" /\ ~events[i].granted)})

\* A load writes what it is counted for and nothing else: a consent or an age check
\* changes only by what the file says, or is assumed of a new customer; unless a
\* table has refused more rows than the report keeps errors, which its count of
\* refusals shows, a line that is not reported, nor any line of its customer and its
\* order, has landed whole; however few errors are kept, a file with a refused row is
\* never reported as clean, loading it again changes nothing, and one combined file
\* does what three files do, unless it reports the line of a customer who is already on
\* record, or whose order is, or two lines name the same item. A file of consents leaves each as the last line
\* that decides on it: ingest_customers, ingest_orders, ingest_order_items,
\* ingest_combined, ingest_consent_events.
LoadIsFaithful ==
    /\ Answered("consent") =>
         \A type \in Imports!ConsentTypes :
           LET last == LastWord(question.events, type)
           IN (type \in answer.consents) =
                IF last = 0 THEN type \in question.before
                ELSE question.events[last].granted
    /\ Answered("load") =>
      LET file == question.file  before == question.before
          report == answer.report  after == answer.report.db
          Reported(column, id) == LinesOf(file, column, id) \intersect report.failed # {}
      IN /\ \A c \in {"C1", "C2"}, flag \in {"age", "consent"} :
              LET old == before.customers[c]  new == after.customers[c]
              IN new # None =>
                   \/ \E i \in LinesOf(file, "customer", c) : new[flag] = file[i][flag]
                   \/ IF old = None THEN new[flag] = question.assume ELSE new[flag] = old[flag]
         /\ report.accepted + report.rejected = report.total
         /\ report.cut => report.rejected > 0
         /\ ~report.cut => \A i \in DOMAIN file :
              LET line == file[i]
              IN /\ line.customer \in {"C1", "C2"} /\ i \notin report.failed
                 /\ \A j \in LinesOf(file, "order", line.order) : file[j].customer = line.customer
                 /\ ~Reported("customer", line.customer) /\ ~Reported("order", line.order)
                 => /\ after.customers[line.customer] # None
                    /\ line.order # None => after.orders[line.order] # None
                    /\ line.product # None =>
                          after.items[Imports!ItemId(line, i)] # None
         /\ answer.again.db = after /\ answer.again.created = {}
         /\ /\ \A c \in {"C1", "C2"} : Reported("customer", c) =>
                   /\ before.customers[c] = None
                   /\ \A i \in LinesOf(file, "customer", c) :
                        file[i].order = None \/ before.orders[file[i].order] = None
            /\ Cardinality(LinesOf(file, "item", "I1")) <= 1
            => after = answer.apart

\* "Every rejection is reported with its row number and reason", and a line that is
\* counted as accepted has its customer on record, however many rows are refused.
EveryRejectionIsReported ==
    Answered("load") =>
      \A i \in DOMAIN question.file :
        /\ question.file[i].customer \in {"C1", "C2"} /\ i \notin answer.report.failed
        /\ LinesOf(question.file, "customer", question.file[i].customer)
             \intersect answer.report.failed = {}
        => answer.report.db.customers[question.file[i].customer] # None

\* "A combined upload and three separate ones accept exactly the same data".
CombinedIsThreeLoads == Answered("load") => answer.report.db = answer.apart

\* "A blank column in an update file must not wipe existing data": the channel a
\* customer prefers stays what it was when no line of the file names one.
BlankLeavesStored ==
    Answered("load") =>
      \A c \in {"C1", "C2"} :
        /\ question.before.customers[c] # None
        /\ \A i \in LinesOf(question.file, "customer", c) : question.file[i].channel = None
        => answer.report.db.customers[c].channel = question.before.customers[c].channel

\* "Discounts / promotions that are not on the approved list" are refused: every
\* percentage in the copy is the one of an approved promotion.
OnlyApprovedOffers ==
    Answered("copy") /\ answer.valid =>
      \A o \in Rules!OffersIn(question.draft) :
        \E p \in question.brand.promotions : p.offer = o
=============================================================================

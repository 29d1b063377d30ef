---------------------------- MODULE MessageRules ----------------------------
(***************************************************************************)
(* What may be said to whom: the content and targeting rules of            *)
(* backend/app/compliance/engine.py and the validator of drafted copy,     *)
(* backend/app/llm/validator.py.                                           *)
(*                                                                         *)
(* A message is what the patterns find in its text:                        *)
(*   channel, subject, body   (whether subject and body are not empty)     *)
(*   phrases   wordings that are forbidden or required (see Phrase)        *)
(*   codes, products          coupon codes and products that are named     *)
(*   offers    percentages "off";  quotes  promotions, word for word       *)
(*   delivery  the minutes promised, Unsaid without a promise              *)
(*   prices    amounts stated on their own;  long  whether over the limit  *)
(* with at most one price of its own, ahead of the promotion it may quote. *)
(* A promotion is [offer, over]: a percentage off, and the amount named in *)
(* its text (0 without one). What the code compares as text ("5% off" is   *)
(* part of "15% off") is compared digit by digit here.                     *)
(***************************************************************************)
EXTENDS SegmentRules

Unsaid == -1
SpokenChannels == {"EMAIL", "SMS", "WHATSAPP"}

\* Wordings with a pattern of their own. CLAIM stands for the prohibited claims.
Phrase == {"CLAIM", "BRAND_CLAIM", "STOCK", "PLACEHOLDER", "STOP", "DRINKING", "AGE", "FACT"}

\* A number whose last digits are the other number: its text ends with that text.
EndsWith(whole, part) ==
    \/ whole = part
    \/ part < 10 /\ whole % 10 = part
    \/ 10 <= part /\ part < 100 /\ whole % 100 = part

StartsWith(whole, part) == \E k \in {1, 10, 100} : whole \div k = part

PromotionMatches(offer, promotion) ==
    \/ EndsWith(promotion.offer, offer)
    \/ EndsWith(offer, promotion.offer)

\* What a text says, quoted promotions included.
OffersIn(m) == m.offers \union {q.offer : q \in m.quotes}
PricesIn(m, config) == (m.prices \union {q.over : q \in m.quotes \ config.promotions}) \ {0}

\* A claim is refused only when no promise is configured.
BugTooFast(claimed, promised) == claimed # Unsaid /\ promised = Unsaid

\* 5. A delivery claim must be backed by the promise and no faster.
TooFast(claimed, promised) == claimed # Unsaid /\ (promised = Unsaid \/ claimed < promised)

-----------------------------------------------------------------------------
(* check_content: the codes of the findings.                               *)

ContentRules(m, config) ==
    (IF "CLAIM" \in m.phrases THEN {"PROHIBITED_CLAIM"} ELSE {})
    \union (IF "BRAND_CLAIM" \in m.phrases THEN {"BRAND_PROHIBITED_CLAIM"} ELSE {})
    \union (IF m.codes \subseteq config.codes THEN {} ELSE {"UNVERIFIED_COUPON_CODE"})
    \union (IF \A o \in OffersIn(m) : \E p \in config.promotions : PromotionMatches(o, p)
            THEN {} ELSE {"UNVERIFIED_PROMOTION"})
    \union (IF TooFast(m.delivery, config.promised) THEN {"UNVERIFIED_DELIVERY_CLAIM"} ELSE {})
    \union (IF "STOCK" \in m.phrases THEN {"UNVERIFIED_STOCK_CLAIM"} ELSE {})
    \union (IF PricesIn(m, config) = {} THEN {} ELSE {"UNVERIFIED_PRICE_CLAIM"})
    \union (IF "PLACEHOLDER" \in m.phrases THEN {"UNRESOLVED_PLACEHOLDER"} ELSE {})

\* Statements that only a whole message must carry, by channel.
StatementRules(m, config) ==
    CASE m.channel = "SMS" ->
            IF config.requireStop /\ "STOP" \notin m.phrases THEN {"MISSING_SMS_OPT_OUT"} ELSE {}
      [] m.channel = "EMAIL" ->
            (IF config.requireDrinking /\ "DRINKING" \notin m.phrases
             THEN {"MISSING_RESPONSIBLE_DRINKING"} ELSE {})
            \union (IF "AGE" \notin m.phrases THEN {"MISSING_AGE_STATEMENT"} ELSE {})
      [] m.channel = "WHATSAPP" -> {}

CheckContent(m, config) == (ContentRules(m, config) \union StatementRules(m, config)) \ config.disabled

Warnings == {"MISSING_AGE_STATEMENT", "VULNERABILITY_TARGETING", "REQUIRES_HUMAN_APPROVAL"}

-----------------------------------------------------------------------------
(* check_targeting: every condition of the rule, wherever it stands.       *)

\* A list is read as its first item for the dependency, and as no number for
\* the frequency.
TargetingOf(c, objective) ==
    (IF /\ c.field = "discount_dependency" /\ c.operator \in {"gt", "gte", "between"}
        /\ Item(c.value) >= 70
     THEN {"VULNERABILITY_TARGETING"} ELSE {})
    \union
    (IF /\ c.field = "purchase_frequency_per_month" /\ c.operator \in {"gt", "gte"}
        /\ objective \in {"REORDER", "RETENTION"}
        /\ ~c.value.list /\ Item(c.value) >= 12
     THEN {"HEAVY_CONSUMPTION_TARGETING"} ELSE {})

Targeting(rule, objective) ==
    UNION {TargetingOf(rule[p], objective) : p \in {q \in DOMAIN rule : ~IsGroup(rule[q])}}

CheckTargeting(rule, objective, config) == Targeting(rule, objective) \ config.disabled

\* check_campaign: the empty-message findings cannot be disabled.
CheckCampaign(m, rule, objective, config, approved) ==
    (IF m.body THEN {} ELSE {"EMPTY_MESSAGE"})
    \union (IF m.channel = "EMAIL" /\ ~m.subject THEN {"EMPTY_SUBJECT"} ELSE {})
    \union CheckContent(m, config)
    \union CheckTargeting(rule, objective, config)
    \union (IF approved THEN {} ELSE {"REQUIRES_HUMAN_APPROVAL"})

Passed(findings) == findings \subseteq Warnings

-----------------------------------------------------------------------------
(* validate_message, of a draft against what its author was told: the      *)
(* grounding context [products, promotions].                               *)

\* A price is verified when it is part of an amount the context names; only the
\* first one of a text is looked at.
PriceIsVerified(price, context) ==
    \E p \in context.promotions : p.over # 0 /\ StartsWith(p.over, price)

FirstPrice(m) ==
    IF m.prices # {} THEN m.prices ELSE {q.over : q \in m.quotes} \ {0}

DraftRules(m, context) ==
    (IF "FACT" \in m.phrases THEN {"INVENTED_CUSTOMER_FACT"} ELSE {})
    \union (IF m.products \subseteq context.products THEN {} ELSE {"UNVERIFIED_PRODUCT"})
    \union (IF m.long /\ m.channel # "EMAIL" THEN {"BODY_EXCEEDS_CHANNEL_LIMIT"} ELSE {})
    \union (IF m.body THEN {} ELSE {"EMPTY_BODY"})
    \union (IF m.channel = "EMAIL" /\ ~m.subject THEN {"EMPTY_SUBJECT"} ELSE {})

Valid(m, context, config) ==
    /\ Passed(CheckContent(m, config))
    /\ DraftRules(m, context) = {}
    /\ \A price \in FirstPrice(m) : PriceIsVerified(price, context)

=============================================================================

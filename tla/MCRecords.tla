----------------------------- MODULE MCRecords -----------------------------
(***************************************************************************)
(* The records that every part of the system relies on, each kept by       *)
(* several requests and jobs at once: consent, the messages under review,  *)
(* what became of messages that went out, and what is computed from        *)
(* imported orders. No request writes two of them in one transaction but   *)
(* the webhook, whose consent and events touch different rows; a behaviour *)
(* follows one of the four, so that each meets everything that can happen. *)
(***************************************************************************)
EXTENDS ConsentRecord, Naturals, TLC

CONSTANTS
    a1, a2, c1, c2,                                          \* what MCFiles are made of
    Draft, Copy, Operator, Run, MaxRules,                    \* MessageDraft: the rows, and more
    Message, Order, MaxUntimed,                              \* Engagement
    Customer, Inbox, Upload, Refresh, Files, MaxImports, MaxCrashes   \* Intake

\* Orders are imported by the inbox and by uploads.
Importer == {Inbox} \cup Upload

\* Reports, runs, imports and people are threads of their own.
ASSUME RecordsAssumption ==
    /\ Webhook # Run /\ Webhook \notin Importer /\ Run \notin Importer /\ Run \notin Operator
    /\ MaxRules \in Nat

VARIABLES
    scene,
    row, rules, changes, session, agreed, crossed, handed,                     \* MessageDraft
    out, events, counted, recipient, records, threads, pending, untimed,       \* Engagement
    orders, scores, board, work, jobs, inbox, crashes                          \* Intake

MCChanges == {Marketing :> TRUE, Marketing :> FALSE, Marketing :> TRUE @@ Sms :> TRUE}

D == INSTANCE MessageDraft WITH Message <- Draft

E == INSTANCE Engagement WITH work <- threads, orders <- pending

Row(owner, status) == [owner |-> owner, status |-> status]

\* A new order that is not completed yet; it is completed beside a new one; it
\* turns out to be another customer's.
MCFiles ==
    {[kind |-> "orders", rows |-> a1 :> Row(c1, "PENDING")],
     [kind |-> "orders", rows |-> a1 :> Row(c1, "COMPLETED") @@ a2 :> Row(c2, "COMPLETED")],
     [kind |-> "combined", rows |-> a1 :> Row(c2, "COMPLETED")]}

I == INSTANCE Intake

drafts == <<row, rules, changes, session, agreed, crossed, handed>>
engagement == <<out, events, counted, recipient, records, threads, pending, untimed>>
intake == <<orders, scores, board, work, jobs, inbox, crashes>>
all == <<scene, vars, drafts, engagement, intake>>

SomeCopy == CHOOSE copy \in Copy : TRUE
SomeMessage == CHOOSE m \in Message : TRUE

\* Where nothing happens in a scene, its record starts in one state. The copies
\* are interchangeable: one of them passes validation, or more. No message has
\* orders to come, or one of them all.
MCInit ==
    /\ Init /\ D!Init /\ E!Init /\ I!Init
    /\ scene \in {"consent", "drafts", "engagement", "intake"}
    /\ scene # "consent" => \A f \in Flag : consent[f]
    /\ SomeCopy \in rules /\ (scene # "drafts" => rules = {SomeCopy})
    /\ IF scene = "engagement"
       THEN \/ pending = {} /\ \A m \in Message : out[m] = "none"
            \/ pending = Order /\ \A m \in Message : out[m] = "none" <=> m = SomeMessage
       ELSE pending = {} /\ \A m \in Message : out[m] = "excluded"
    /\ scene # "intake" => inbox = {}

MCNext ==
    \/ scene = "consent" /\ Next /\ UNCHANGED <<scene, drafts, engagement, intake>>
    \/ scene = "drafts" /\ D!Next /\ UNCHANGED <<scene, vars, engagement, intake>>
    \/ scene = "engagement" /\ E!Next /\ UNCHANGED <<scene, vars, drafts, intake>>
    \/ scene = "intake" /\ I!Next /\ UNCHANGED <<scene, vars, drafts, engagement>>

MCSpec == MCInit /\ [][MCNext]_all /\ (scene = "intake" => I!Fairness)

\* A message on record as approved or as sent says what was approved or sent
\* (MessageDraft).
DraftsAreTrue == D!DraftsAreTrue

\* Counters, recipients and attribution agree with the events (Engagement).
CountedOnce == E!CountedOnce

\* What is computed from orders catches up with them (Intake).
ScoresCatchUp == scene = "intake" => I!ScoresCatchUp

\* docs/compliance.md:144 on editing an approved message (MessageDraft).
EditRevokesApproval == D!EditRevokesApproval
=============================================================================

----------------------------- MODULE Engagement -----------------------------
(***************************************************************************)
(* What is known of the messages of one campaign after they went out: the  *)
(* communication events (services/events.py) and what they are rolled up   *)
(* to, the recipients' rows and the campaign's counters. They are written  *)
(* by the campaign's run (campaigns/service.py), by the provider's webhook *)
(* (api/v1/integrations.py) and by the attribution of orders               *)
(* (services/attribution.py).                                              *)
(*                                                                         *)
(* The provider reports in any order and as often as it likes. Webhook     *)
(* bodies are handled one after the other; the run and the imports that    *)
(* attribute orders are threads of their own. Every counter is read,       *)
(* increased and written back, without a lock.                             *)
(***************************************************************************)
EXTENDS FiniteSets, Naturals

CONSTANTS
    Message,        \* the campaign's messages, one per recipient
    Order,          \* completed orders of the recipients
    Webhook, Run,   \* the coroutine that handles reports; the campaign's run
    Importer,       \* the threads that import orders
    MaxUntimed,     \* bound: reports that carry no time of their own
    Null

Writer == {Webhook, Run} \cup Importer

\* What a provider reports of a message.
Kind == {"sent", "delivered", "opened", "failed"}
Counter == Kind \cup {"conversions"}

VARIABLES
    out,        \* "none", "handed" to the provider, "booked" by a commit, or "excluded"
    events,     \* CommunicationEvent: message, kind, and what tells two of a kind apart
    counted,    \* messages_sent, messages_delivered, ... and conversions of the campaign
    recipient,  \* of each message: the status, and the kinds whose first time is known
    records,    \* AttributionRecord: the orders attributed
    work,       \* what each thread has read and is going to write, or Null
    orders,     \* the orders still to be imported
    untimed     \* reports without a time that were handled so far

vars == <<out, events, counted, recipient, records, work, orders, untimed>>

Init ==
    /\ out \in [Message -> {"none", "excluded"}]
    /\ orders \in SUBSET Order
    /\ events = {} /\ records = {} /\ untimed = 0
    /\ counted = [c \in Counter |-> 0]
    /\ recipient = [m \in Message |-> [status |-> "ELIGIBLE", times |-> {}]]
    /\ work = [t \in Writer |-> Null]

\* Mutant: the counters go up whether or not the event is known already.
BugCountsAgain(event) == TRUE

\* record_communication_event: a key that is already there changes nothing.
IsNew(event) == event \notin events

\* A failure counts as such only; "sent" does not take back a later status.
StatusAfter(kind, status) ==
    CASE kind = "delivered" -> "DELIVERED"
      [] kind = "sent" /\ status \notin {"DELIVERED", "CONVERTED"} -> "SENT"
      [] OTHER -> status

Timed(kind) == {kind} \cap {"sent", "delivered", "opened"}

(***************************************************************************)
(* The campaign's run                                                      *)
(***************************************************************************)
RunSends(m) ==
    /\ work[Run] = Null /\ out[m] = "none"
    /\ out' = [out EXCEPT ![m] = "handed"]
    /\ work' = [work EXCEPT ![Run] = [msg |-> m, step |-> "read"]]
    /\ UNCHANGED <<events, counted, recipient, records, orders, untimed>>

\* A refused message is counted by the run and once more for its event.
RunReads(kind) ==
    /\ work[Run] # Null /\ work[Run].step = "read"
    /\ work' = [work EXCEPT ![Run] = [msg |-> @.msg, step |-> "commit", kind |-> kind,
            total |-> counted[kind] + IF kind = "failed" THEN 2 ELSE 1]]
    /\ UNCHANGED <<out, events, counted, recipient, records, orders, untimed>>

RunCommits ==
    /\ work[Run] # Null /\ work[Run].step = "commit"
    /\ LET m == work[Run].msg
           kind == work[Run].kind IN
        /\ out' = [out EXCEPT ![m] = "booked"]
        /\ events' = events \cup {<<m, kind, <<"run">>>>}
        /\ counted' = [counted EXCEPT ![kind] = work[Run].total]
        /\ recipient' = [recipient EXCEPT ![m] =
                [status |-> IF kind = "sent" THEN "SENT" ELSE "FAILED", times |-> @.times \cup Timed(kind)]]
    /\ work' = [work EXCEPT ![Run] = Null]
    /\ UNCHANGED <<records, orders, untimed>>

\* The transaction is lost; nobody will know the message the provider has.
RunIsLost ==
    /\ work[Run] # Null
    /\ work' = [work EXCEPT ![Run] = Null]
    /\ UNCHANGED <<out, events, counted, recipient, records, orders, untimed>>

(***************************************************************************)
(* The provider's webhook                                                  *)
(***************************************************************************)
\* A report without a time is told from an earlier one by when it was handled.
Key(m, kind, timed) == IF timed THEN <<m, kind, <<"report">>>> ELSE <<m, kind, <<"untimed", untimed>>>>

\* A report on a message whose provider id is not committed finds no message.
Reports(m, kind, timed) ==
    /\ work[Webhook] = Null /\ out[m] \in {"handed", "booked"}
    /\ ~timed => untimed < MaxUntimed
    /\ untimed' = (IF timed THEN untimed ELSE untimed + 1)
    /\ work' = [work EXCEPT ![Webhook] =
            IF out[m] = "booked" /\ IsNew(Key(m, kind, timed))
            THEN [msg |-> m, event |-> Key(m, kind, timed), total |-> counted[kind] + 1,
                  status |-> {StatusAfter(kind, recipient[m].status)} \ {recipient[m].status}]
            ELSE Null]
    /\ UNCHANGED <<out, events, counted, recipient, records, orders>>

WebhookCommits ==
    /\ work[Webhook] # Null
    /\ LET m == work[Webhook].msg
           kind == work[Webhook].event[2] IN
        /\ events' = events \cup {work[Webhook].event}
        /\ counted' = [counted EXCEPT ![kind] = work[Webhook].total]
        /\ recipient' = [recipient EXCEPT
                ![m].status = IF work[Webhook].status = {} THEN @ ELSE CHOOSE s \in work[Webhook].status : TRUE,
                ![m].times = @ \cup Timed(kind)]
    /\ work' = [work EXCEPT ![Webhook] = Null]
    /\ UNCHANGED <<out, records, orders, untimed>>

(***************************************************************************)
(* Orders arrive                                                           *)
(***************************************************************************)
\* Whichever of a message's events lie in the window of the order.
Touches(m) == {e \in events : e[1] = m /\ e[2] \in {"sent", "delivered", "opened"}}

\* process_new_order, for an order the import has just created: it may follow a
\* touch of the campaign, or none inside the window.
Attributes(i, o, m) ==
    /\ work[i] = Null /\ o \in orders
    /\ orders' = orders \ {o}
    /\ work' = [work EXCEPT ![i] =
            IF Touches(m) # {} /\ o \notin records
            THEN [order |-> o, msg |-> m, total |-> counted["conversions"] + 1]
            ELSE Null]
    /\ UNCHANGED <<out, events, counted, recipient, records, untimed>>

ImporterCommits(i) ==
    /\ work[i] # Null
    /\ LET m == work[i].msg IN
        /\ records' = records \cup {work[i].order}
        /\ counted' = [counted EXCEPT !["conversions"] = work[i].total]
        /\ recipient' = [recipient EXCEPT ![m].status = "CONVERTED"]
        /\ events' = events \cup {<<m, "conversion", <<"order", work[i].order>>>>}
    /\ work' = [work EXCEPT ![i] = Null]
    /\ UNCHANGED <<out, orders, untimed>>

Next ==
    \/ \E m \in Message : RunSends(m)
    \/ \E kind \in {"sent", "failed"} : RunReads(kind)
    \/ RunCommits \/ RunIsLost
    \/ \E m \in Message, kind \in Kind, timed \in BOOLEAN : Reports(m, kind, timed)
    \/ WebhookCommits
    \/ \E i \in Importer, o \in Order, m \in Message : Attributes(i, o, m)
    \/ \E i \in Importer : ImporterCommits(i)

Spec == Init /\ [][Next]_vars

(***************************************************************************)
(* Properties                                                              *)
(***************************************************************************)
Of(kind) == {e \in events : e[2] = kind}

\* What only the webhook counts is counted exactly: once per event, however often
\* it was reported and whatever the run and the imports commit meanwhile, and the
\* recipient knows a time for precisely what was counted. What two threads count
\* may lose an increment, but nothing is counted that is not on record; an order
\* is credited once.
CountedOnce ==
    /\ \A kind \in {"delivered", "opened"} :
        /\ counted[kind] = Cardinality(Of(kind))
        /\ \A m \in Message : kind \in recipient[m].times <=> \E e \in Of(kind) : e[1] = m
    /\ counted["sent"] <= Cardinality(Of("sent"))
    /\ counted["conversions"] <= Cardinality(records)
    /\ Cardinality(Of("conversion")) = Cardinality(records)
=============================================================================

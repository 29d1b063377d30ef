--------------------------- MODULE ConsentRecord ---------------------------
(***************************************************************************)
(* What is on record about the permission to contact one customer, and     *)
(* everyone who writes it: replies to a message (services/optout.py, from  *)
(* api/v1/integrations.py and campaigns/service.py), the dashboard         *)
(* (api/v1/customers.py, api/v1/system.py) and imported files              *)
(* (services/ingestion.py).                                                *)
(*                                                                         *)
(* A request reads the customer, then the suppression rows, and commits.   *)
(* No row is locked, and the session writes only the columns it gave       *)
(* another value than the one it read. Requests interleave between these   *)
(* steps, except that replies are handled by one coroutine with no await   *)
(* after the body was read, so that two of them never overlap.             *)
(***************************************************************************)
EXTENDS FiniteSets

CONSTANTS
    Channel, Sms,  \* the channels; opting in by reply restores Sms
    Marketing,     \* the blanket consent
    All,           \* the suppression of every channel
    Webhook,       \* the coroutine that handles replies
    Thread,        \* the threads that serve requests, imports and campaign runs
    Changes,       \* what a request or a file may state: consents and their values
    Null

Flag == {Marketing} \cup Channel
Scope == {All} \cup Channel
Requester == {Webhook} \cup Thread

\* What has to be done on purpose before a customer who said STOP is written
\* to again: lift the suppression, and grant consent.
Release == {"listing", "consent"}

\* The values for some columns.
Values(columns, V) == UNION {[S -> V] : S \in SUBSET columns}

ASSUME ConsentAssumption ==
    /\ Sms \in Channel /\ Marketing \notin Channel /\ All \notin Channel
    /\ Webhook \notin Thread
    /\ Changes \subseteq Values(Flag, BOOLEAN)

VARIABLES
    consent,     \* marketing_consent, email_consent, sms_consent, whatsapp_consent
    suppressed,  \* is_suppressed
    listed,      \* the SuppressionList row of each scope: "none", "active" or "inactive"
    request,     \* the unit of work of each requester, or Null
    stopped,     \* the last reply that was honoured was a STOP
    undone       \* the releases committed since that STOP arrived

record == <<consent, suppressed, listed>>
vars == <<record, request, stopped, undone>>

Op == [kind : {"stop", "start"}]
      \cup [kind : {"suppress", "unsuppress"}, on : Scope]
      \cup [kind : {"patch", "rows", "file"}, change : Changes]

\* What a request is going to write: the columns, the suppression rows to look
\* for, then those to change and those to add.
Work == [reply : {"stop", "start", "none"}, step : {"look", "write"},
         flags : Values(Flag, BOOLEAN), listing : SUBSET BOOLEAN,
         suppress : SUBSET Scope, lift : SUBSET Scope,
         rows : Values(Scope, {"active", "inactive"}), new : SUBSET Scope, undone : SUBSET Release]

Init ==
    /\ consent \in [Flag -> BOOLEAN]
    /\ suppressed = FALSE
    /\ listed = [s \in Scope |-> "none"]
    /\ request = [q \in Requester |-> Null]
    /\ stopped = FALSE /\ undone = {}

(***************************************************************************)
(* A request reads, and decides what to write                              *)
(***************************************************************************)
\* Only a reply opts in. A campaign run in mock mode records a simulated
\* opt-out as a reply does.
Permitted(q, op) == op.kind = "start" => q = Webhook

Stated(change) == [f \in Flag |-> IF f \in DOMAIN change THEN change[f] ELSE consent[f]]

\* Revoking the blanket consent revokes every channel.
Cascade(change) ==
    IF Marketing \in DOMAIN change /\ ~change[Marketing] THEN [f \in Flag |-> FALSE] ELSE Stated(change)

\* Mutant: a STOP suppresses and leaves the consents as they are.
BugStopKeepsConsent(op) ==
    CASE op.kind = "start" -> [f \in Flag |-> f \in {Marketing, Sms} \/ consent[f]]
      [] op.kind \in {"patch", "rows"} -> Cascade(op.change)
      [] op.kind = "file" -> Stated(op.change)
      [] OTHER -> consent

WantedConsent(op) ==
    CASE op.kind = "stop" -> [f \in Flag |-> FALSE]
      [] op.kind = "start" -> [f \in Flag |-> f \in {Marketing, Sms} \/ consent[f]]
      [] op.kind \in {"patch", "rows"} -> Cascade(op.change)
      [] op.kind = "file" -> Stated(op.change)
      [] OTHER -> consent

WantedSuppressed(op) ==
    CASE op.kind = "stop" -> TRUE
      [] op.kind = "start" -> FALSE
      [] op.kind = "suppress" -> op.on = All \/ suppressed
      [] op.kind = "unsuppress" -> op.on # All /\ suppressed
      [] OTHER -> suppressed

Changed(wanted) == {f \in Flag : wanted[f] # consent[f]}

Suppresses(op) ==
    CASE op.kind = "stop" -> {All}
      [] op.kind = "suppress" -> {op.on}
      [] OTHER -> {}

Lifts(op) ==
    CASE op.kind = "start" -> Scope
      [] op.kind = "unsuppress" -> {op.on}
      [] OTHER -> {}

Asks(q, op) ==
    /\ request[q] = Null
    /\ Permitted(q, op)
    /\ request' = [request EXCEPT ![q] =
            [reply |-> IF op.kind \in {"stop", "start"} THEN op.kind ELSE "none",
             step |-> IF op.kind \in {"patch", "rows", "file"} THEN "write" ELSE "look",
             flags |-> [f \in Changed(WantedConsent(op)) |-> WantedConsent(op)[f]],
             listing |-> {WantedSuppressed(op)} \ {suppressed},
             suppress |-> Suppresses(op), lift |-> Lifts(op),
             rows |-> [s \in {} |-> "active"], new |-> {}, undone |-> {}]]
    /\ UNCHANGED <<record, stopped, undone>>

\* The suppression rows are a query of their own.
Looks(q) ==
    /\ request[q] # Null /\ request[q].step = "look"
    /\ LET work == request[q]
           revived == {s \in work.suppress : listed[s] = "inactive"}
           lifted == {s \in work.lift : listed[s] = "active"} IN
        request' = [request EXCEPT ![q] =
            [work EXCEPT !.step = "write", !.suppress = {}, !.lift = {},
                !.rows = [s \in revived \cup lifted |-> IF s \in revived THEN "active" ELSE "inactive"],
                !.new = {s \in work.suppress : listed[s] = "none"}]]
    /\ UNCHANGED <<record, stopped, undone>>

(***************************************************************************)
(* It commits                                                              *)
(***************************************************************************)
\* The session believes a row is missing that somebody has added since.
Collides(work) == \E s \in work.new : listed[s] # "none"

Released(work) ==
    (IF FALSE \in work.listing THEN {"listing"} ELSE {})
    \cup (IF \E f \in DOMAIN work.flags : work.flags[f] THEN {"consent"} ELSE {})

\* Every STOP under way takes note of what is released meanwhile.
Overlapping(q, released) == [r \in Requester |->
    IF r = q \/ request[r] = Null THEN Null
    ELSE IF request[r].reply = "stop" THEN [request[r] EXCEPT !.undone = @ \cup released]
    ELSE request[r]]

Commits(q) ==
    /\ request[q] # Null /\ request[q].step = "write"
    /\ LET work == request[q] IN
        /\ ~Collides(work)
        /\ consent' = [f \in Flag |-> IF f \in DOMAIN work.flags THEN work.flags[f] ELSE consent[f]]
        /\ suppressed' = (IF work.listing = {} THEN suppressed ELSE TRUE \in work.listing)
        /\ listed' = [s \in Scope |->
                IF s \in work.new THEN "active" ELSE IF s \in DOMAIN work.rows THEN work.rows[s] ELSE listed[s]]
        /\ request' = Overlapping(q, Released(work))
        /\ stopped' = (work.reply = "stop" \/ (stopped /\ work.reply # "start"))
        /\ undone' = (IF work.reply = "stop" THEN work.undone
                      ELSE IF stopped' THEN undone \cup Released(work) ELSE {})

\* The unique constraint refuses the second row, and nothing of the request is
\* kept: a STOP that meets a suppression by hand is lost until it is sent again.
Fails(q) ==
    /\ request[q] # Null /\ request[q].step = "write"
    /\ Collides(request[q])
    /\ request' = [request EXCEPT ![q] = Null]
    /\ UNCHANGED <<record, stopped, undone>>

\* One UPDATE over every customer, whatever was read before.
MakeContactable(q) ==
    /\ request[q] = Null
    /\ consent' = [f \in Flag |-> TRUE]
    /\ request' = Overlapping(q, {"consent"})
    /\ undone' = (IF stopped THEN undone \cup {"consent"} ELSE {})
    /\ UNCHANGED <<suppressed, listed, stopped>>

Next ==
    \/ \E q \in Requester :
        \/ \E op \in Op : Asks(q, op)
        \/ Looks(q)
        \/ Commits(q)
        \/ Fails(q)
    \/ \E q \in Thread : MakeContactable(q)

Spec == Init /\ [][Next]_vars

(***************************************************************************)
(* Properties                                                              *)
(***************************************************************************)
\* check_recipient: suppression first, then the blanket and the channel's consent.
Contactable(channel) ==
    /\ ~suppressed
    /\ listed[channel] # "active" /\ listed[All] # "active"
    /\ consent[Marketing] /\ consent[channel]

TypeOK ==
    /\ consent \in [Flag -> BOOLEAN] /\ suppressed \in BOOLEAN
    /\ listed \in [Scope -> {"none", "active", "inactive"}]
    /\ request \in [Requester -> Work \cup {Null}]
    /\ stopped \in BOOLEAN /\ undone \subseteq Release

\* After a STOP nobody is written to on any channel until the customer says
\* START, or until the suppression was lifted and consent was granted, both after
\* the STOP arrived. A request that was under way undoes neither half: one of
\* them always outlasts the other's overwriting.
StopHolds == stopped /\ (\E channel \in Channel : Contactable(channel)) => undone = Release
=============================================================================

------------------------------ MODULE Campaign ------------------------------
(***************************************************************************)
(* One campaign: drafted, checked, approved, scheduled, sent, paused and   *)
(* cancelled.  backend/app/campaigns/service.py, update_campaign of        *)
(* backend/app/api/v1/campaigns.py and the scheduler's job.                *)
(*                                                                         *)
(* A request loads the row, decides, and commits the columns it changed.   *)
(* A run marks the campaign RUNNING, reads its recipients once and commits *)
(* after each of them; it does not look at the status again.  By default a *)
(* run has a message drafted for each customer, commits the draft and      *)
(* sends its text; an operator may have the campaign's own copy sent, which *)
(* is read anew after each commit, as that expires the session's objects.  *)
(*                                                                         *)
(* The statuses AI_GENERATED, VALIDATED and FAILED are never assigned.     *)
(***************************************************************************)
EXTENDS Naturals, Sequences, FiniteSets

CONSTANTS
    Scheduler,     \* the scheduler's thread
    Operator,      \* request threads that run campaigns
    Request,       \* request threads that change the campaign
    Customer,
    Ops,           \* what operators ask for, of Operations
    Passing,       \* copies without blocking compliance findings
    MaxEdits,      \* changes of the copy
    MaxSnapshots,  \* snapshots of the audience
    MaxChanges,    \* other requests
    MaxOptOuts,
    MaxFailures,   \* drafts that fail, and messages that the provider refuses
    MaxCrashes,    \* runs lost to a restart or another exception
    Null           \* an idle thread

Operations ==
    {"check", "submit", "approve", "schedule", "pause", "cancel", "edit", "snapshot"}
Editable == {"DRAFT", "COMPLIANCE_CHECKED", "AWAITING_APPROVAL"}
Status == Editable \cup
    {"APPROVED", "SCHEDULED", "RUNNING", "PAUSED", "COMPLETED", "CANCELLED"}
Sendable == {"APPROVED", "SCHEDULED"}
RecipientStatus == {"ELIGIBLE", "EXCLUDED", "SENT", "FAILED"}
Frozen == {"SENT", "FAILED"}
Gone == "no row"
Copy == 0 .. MaxEdits
Drafted == MaxEdits + 1  \* a text of its own for one customer, which has passed validation
Sender == {Scheduler} \cup Operator

ASSUME CampaignAssumption ==
    /\ Ops \subseteq Operations
    /\ Passing \subseteq Copy
    /\ MaxEdits \in Nat /\ MaxSnapshots \in Nat /\ MaxChanges \in Nat
    /\ MaxOptOuts \in Nat /\ MaxFailures \in Nat /\ MaxCrashes \in Nat

CampaignRow == [status : Status, passed : BOOLEAN, copy : Copy]
Recipients == [Customer -> RecipientStatus \cup {Gone}]

VARIABLES
    row,         \* the committed campaign
    recipients,  \* committed campaign_recipients
    optedOut,    \* customers who have opted out
    request,     \* per request thread: its operation and what it loaded
    run,         \* per sender: the run in progress
    calls,       \* per customer: what the provider accepted, in order: its body, and
                 \* the copy of the campaign when the run was let through
    approved,    \* copies that a human has approved
    aborted,     \* a run has failed for want of a recipient's row
    spent        \* how much of each bound is used up

vars == <<row, recipients, optedOut, request, run, calls, approved, aborted, spent>>

Init ==
    /\ row = [status |-> "DRAFT", passed |-> FALSE, copy |-> 0]
    /\ recipients = [c \in Customer |-> Gone]
    /\ optedOut = {}
    /\ request = [r \in Request |-> Null]
    /\ run = [u \in Sender |-> Null]
    /\ calls = [c \in Customer |-> << >>]
    /\ approved = {}
    /\ aborted = FALSE
    /\ spent = [edits |-> 0, snapshots |-> 0, changes |-> 0, optOuts |-> 0,
                failures |-> 0, crashes |-> 0]

Spend(x, max) == spent[x] < max /\ spent' = [spent EXCEPT ![x] = @ + 1]

---------------------------------------------------------------------------
(* Requests. *)

Bound(op) ==
    CASE op = "edit" -> Spend("edits", MaxEdits)
      [] op = "snapshot" -> Spend("snapshots", MaxSnapshots)
      [] OTHER -> Spend("changes", MaxChanges)

Load(r, op) ==
    /\ request[r] = Null
    /\ Bound(op)
    /\ request' = [request EXCEPT ![r] =
         [op |-> op, read |-> row, new |-> spent.edits + 1,
          seen |-> IF op = "snapshot" THEN recipients ELSE Null]]
    /\ UNCHANGED <<row, recipients, optedOut, run, calls, approved, aborted>>

\* run_compliance_check.
Checked(read) ==
    [read EXCEPT
        !.passed = read.copy \in Passing,
        !.status = IF @ \in {"DRAFT", "COMPLIANCE_CHECKED"}
                   THEN "COMPLIANCE_CHECKED" ELSE @]

\* submit_for_approval: whatever the status, if the check passes. The check
\* commits on its own, so that the new status is written in any case.
Submitted(read) ==
    IF read.copy \in Passing
    THEN [Checked(read) EXCEPT !.status = "AWAITING_APPROVAL"]
    ELSE Checked(read)

MayApprove(read) == read.status \in {"AWAITING_APPROVAL", "COMPLIANCE_CHECKED"}

\* approve_campaign, which checks the copy itself.
Approved(read) ==
    IF ~ MayApprove(read) THEN read
    ELSE IF read.copy \in Passing
         THEN [read EXCEPT !.passed = TRUE, !.status = "APPROVED"]
         ELSE [read EXCEPT !.passed = FALSE]

\* As if an approved campaign could be edited and stayed approved.
BugEditKeepsApproval(read, new) == [read EXCEPT !.copy = new]

\* update_campaign, of the subject or the body.
Edited(read, new) ==
    IF read.status \notin Editable THEN read
    ELSE [status |-> "DRAFT", passed |-> FALSE, copy |-> new]

Paused(read) ==
    IF read.status \in {"RUNNING", "SCHEDULED"}
    THEN [read EXCEPT !.status = "PAUSED"] ELSE read

Cancelled(read) ==
    IF read.status \in {"COMPLETED", "CANCELLED"} THEN read
    ELSE [read EXCEPT !.status = "CANCELLED"]

Scheduled(read) ==
    IF read.status = "APPROVED" THEN [read EXCEPT !.status = "SCHEDULED"] ELSE read

\* What the operation makes of the row it loaded; a refusal leaves it alone.
Outcome(op, read, new) ==
    CASE op = "check" -> Checked(read)
      [] op = "submit" -> Submitted(read)
      [] op = "approve" -> Approved(read)
      [] op = "schedule" -> Scheduled(read)
      [] op = "pause" -> Paused(read)
      [] op = "cancel" -> Cancelled(read)
      [] op = "edit" -> Edited(read, new)
      [] op = "snapshot" -> read

\* The row once a session that loaded `read` has committed `new`: the columns
\* it did not change keep what others have written.
Flush(read, new) ==
    [col \in DOMAIN row |-> IF new[col] # read[col] THEN new[col] ELSE row[col]]

Saved(op, read, new) ==
    IF op = "submit" /\ read.copy \in Passing
    THEN [Flush(read, new) EXCEPT !.status = "AWAITING_APPROVAL"]
    ELSE Flush(read, new)

\* What snapshot_audience makes of the recipient it has seen.
Snapshot(seen, audience, c) ==
    IF seen[c] \in Frozen THEN seen[c]
    ELSE IF c \in audience THEN IF c \in optedOut THEN "EXCLUDED" ELSE "ELIGIBLE"
    ELSE Gone

\* Two sessions cannot both insert a recipient: the second insert fails.
Conflict(seen, new) ==
    \E c \in Customer : seen[c] = Gone /\ new[c] # Gone /\ recipients[c] # Gone

SaveRecipients(seen) ==
    \E audience \in SUBSET Customer :
        LET new == [c \in Customer |-> Snapshot(seen, audience, c)] IN
        recipients' =
            IF Conflict(seen, new) THEN recipients
            ELSE [c \in Customer |->
                    IF new[c] # seen[c] THEN new[c] ELSE recipients[c]]

Save(r) ==
    /\ request[r] # Null
    /\ LET op == request[r].op
           read == request[r].read
           new == Outcome(op, read, request[r].new)
       IN /\ row' = Saved(op, read, new)
          /\ approved' = IF op = "approve" /\ new.status = "APPROVED"
                            /\ read.status # "APPROVED"
                         THEN approved \cup {read.copy} ELSE approved
          /\ IF op = "snapshot" THEN SaveRecipients(request[r].seen)
             ELSE UNCHANGED recipients
    /\ request' = [request EXCEPT ![r] = Null]
    /\ UNCHANGED <<optedOut, run, calls, aborted, spent>>

Serve(r) == (\E op \in Ops : Load(r, op)) \/ Save(r)

---------------------------------------------------------------------------
(* Runs. *)

\* The guards of run_campaign, on the row as loaded; the scheduler looks for
\* scheduled campaigns only, and has each message drafted.
LoadRun(u) ==
    /\ run[u] = Null
    /\ row.status \in Sendable
    /\ u = Scheduler => row.status = "SCHEDULED"
    /\ row.passed
    /\ \E generate \in IF u = Scheduler THEN {TRUE} ELSE BOOLEAN :
         run' = [run EXCEPT ![u] =
           [pc |-> "loaded", generate |-> generate, under |-> row.copy, text |-> Null,
            todo |-> {}, cur |-> Null, skipped |-> {},
            first |-> TRUE, ok |-> FALSE, before |-> {}]]
    /\ UNCHANGED <<row, recipients, optedOut, request, calls, approved, aborted, spent>>

\* As if a run took up the recipients it has sent to already.
BugTodoAll == {c \in Customer : recipients[c] \in {"ELIGIBLE", "SENT"}}

Todo == {c \in Customer : recipients[c] = "ELIGIBLE"}

\* RUNNING is committed, the campaign is loaded again, and the recipients are read.
MarkRunning(u) ==
    /\ run[u] # Null
    /\ run[u].pc = "loaded"
    /\ row' = [row EXCEPT !.status = "RUNNING"]
    /\ run' = [run EXCEPT ![u].pc = "next", ![u].todo = Todo, ![u].text = row.copy,
                          ![u].before = optedOut]
    /\ UNCHANGED <<recipients, optedOut, request, calls, approved, aborted, spent>>

Abort(u) == run' = [run EXCEPT ![u] = Null]

\* A recipient's row is not there any more: ObjectDeletedError, or StaleDataError.
Fail(u) == Abort(u) /\ aborted' = TRUE

\* As if consent were taken from the audience snapshot.
BugTrustsSnapshot(c) == FALSE

Ineligible(c) == c \in optedOut

\* personalise: the campaign is loaded again if a commit has expired it.
Text(u) == IF run[u].text = Null THEN row.copy ELSE run[u].text

\* The eligibility check before each recipient. After the first commit the
\* recipient is read again, which fails when a snapshot has deleted it.
Gate(u) ==
    /\ run[u] # Null
    /\ run[u].pc = "next"
    /\ \E c \in run[u].todo :
         IF recipients[c] = Gone /\ ~ run[u].first THEN Fail(u)
         ELSE /\ run' = IF Ineligible(c)
                        THEN [run EXCEPT ![u].todo = @ \ {c}, ![u].skipped = @ \cup {c}]
                        ELSE [run EXCEPT ![u].todo = @ \ {c}, ![u].cur = c,
                                         ![u].text = Text(u), ![u].pc = "gated"]
              /\ UNCHANGED aborted
    /\ UNCHANGED <<row, recipients, optedOut, request, calls, approved, spent>>

\* The recipients once the exclusions of the session have been flushed.
Excluded(u) ==
    [c \in Customer |-> IF c \in run[u].skipped THEN "EXCLUDED" ELSE recipients[c]]

SkippedGone(u) == \E c \in run[u].skipped : recipients[c] = Gone

\* generate_message: the draft is committed, with what the session has changed so
\* far. One that the model does not answer or that fails validation is not sent.
Draft(u) ==
    /\ run[u] # Null
    /\ run[u].pc = "gated" /\ run[u].generate
    /\ IF SkippedGone(u) THEN Fail(u) /\ UNCHANGED <<recipients, spent>>
       ELSE /\ recipients' = Excluded(u)
            /\ \/ /\ run' = [run EXCEPT ![u].pc = "drafted", ![u].skipped = {},
                                        ![u].first = FALSE]
                  /\ UNCHANGED spent
               \/ /\ Spend("failures", MaxFailures)
                  /\ run' = [run EXCEPT ![u].pc = "sent", ![u].skipped = {},
                                        ![u].first = FALSE, ![u].ok = FALSE]
            /\ UNCHANGED aborted
    /\ UNCHANGED <<row, optedOut, request, calls, approved>>

\* What is handed to the provider: the draft, or the copy of the campaign.
Body(u) == IF run[u].generate THEN Drafted ELSE run[u].text

Accept(u) ==
    calls' = [calls EXCEPT ![run[u].cur] =
                Append(@, [body |-> Body(u), under |-> run[u].under])]

\* adapter.send_message: accepted; or it fails; or the answer is lost, which counts
\* as a failure. After the commit of a draft the recipient is read again first.
Send(u) ==
    /\ run[u] # Null
    /\ run[u].pc = IF run[u].generate THEN "drafted" ELSE "gated"
    /\ \/ /\ run[u].generate /\ recipients[run[u].cur] = Gone
          /\ Fail(u)
          /\ UNCHANGED <<calls, spent>>
       \/ /\ ~ (run[u].generate /\ recipients[run[u].cur] = Gone)
          /\ \/ /\ Accept(u)
                /\ run' = [run EXCEPT ![u].pc = "sent", ![u].ok = TRUE]
                /\ UNCHANGED spent
             \/ /\ Spend("failures", MaxFailures)
                /\ Accept(u) \/ UNCHANGED calls
                /\ run' = [run EXCEPT ![u].pc = "sent", ![u].ok = FALSE]
          /\ UNCHANGED aborted
    /\ UNCHANGED <<row, recipients, optedOut, request, approved>>

\* The recipients once the session of the run has been flushed.
Recorded(u) ==
    [c \in Customer |->
        IF c = run[u].cur THEN IF run[u].ok THEN "SENT" ELSE "FAILED"
        ELSE IF c \in run[u].skipped THEN "EXCLUDED"
        ELSE recipients[c]]

\* An update of a recipient that has been deleted aborts the run.
Lost(u) == \E c \in run[u].skipped \cup ({run[u].cur} \ {Null}) : recipients[c] = Gone

CommitOne(u) ==
    /\ run[u] # Null
    /\ run[u].pc = "sent"
    /\ IF Lost(u) THEN Fail(u) /\ UNCHANGED recipients
       ELSE /\ recipients' = Recorded(u)
            /\ run' = [run EXCEPT ![u].pc = "next", ![u].cur = Null, ![u].text = Null,
                                  ![u].skipped = {}, ![u].first = FALSE, ![u].ok = FALSE]
            /\ UNCHANGED aborted
    /\ UNCHANGED <<row, optedOut, request, calls, approved, spent>>

\* As if the end of the run were not written to the campaign.
BugNeverCompleted == row

Completed == [row EXCEPT !.status = "COMPLETED"]

Finish(u) ==
    /\ run[u] # Null
    /\ run[u].pc = "next"
    /\ run[u].todo = {}
    /\ IF Lost(u) THEN Fail(u) /\ UNCHANGED <<row, recipients>>
       ELSE /\ row' = Completed /\ recipients' = Recorded(u)
            /\ Abort(u) /\ UNCHANGED aborted
    /\ UNCHANGED <<optedOut, request, calls, approved, spent>>

Crash(u) ==
    /\ run[u] # Null
    /\ Spend("crashes", MaxCrashes)
    /\ Abort(u)
    /\ UNCHANGED <<row, recipients, optedOut, request, calls, approved, aborted>>

GoOn(u) == MarkRunning(u) \/ Gate(u) \/ Draft(u) \/ Send(u) \/ CommitOne(u) \/ Finish(u)

RunStep(u) == LoadRun(u) \/ GoOn(u)

---------------------------------------------------------------------------
\* apply_global_opt_out, as far as the campaign sees it.
OptOut(c) ==
    /\ c \notin optedOut
    /\ Spend("optOuts", MaxOptOuts)
    /\ optedOut' = optedOut \cup {c}
    /\ UNCHANGED <<row, recipients, request, run, calls, approved, aborted>>

\* The scheduler finds nothing due.
Idle ==
    /\ \A r \in Request : request[r] = Null
    /\ \A u \in Sender : run[u] = Null
    /\ UNCHANGED vars

Next ==
    \/ \E r \in Request : Serve(r)
    \/ \E u \in Sender : RunStep(u) \/ Crash(u)
    \/ \E c \in Customer : OptOut(c)
    \/ Idle

\* The scheduler's job fires every minute and a run that began goes on; no
\* operator has to run anything.
Fairness ==
    /\ WF_vars(RunStep(Scheduler))
    /\ \A u \in Operator : WF_vars(GoOn(u))

Spec == Init /\ [][Next]_vars /\ Fairness

---------------------------------------------------------------------------
(* Properties. *)

Loaded ==
    [op : Ops, read : CampaignRow, new : 1 .. (MaxEdits + 1),
     seen : Recipients \cup {Null}]

Runs ==
    [pc : {"loaded", "next", "gated", "drafted", "sent"}, generate : BOOLEAN,
     under : Copy, text : Copy \cup {Null}, todo : SUBSET Customer,
     cur : Customer \cup {Null}, skipped : SUBSET Customer,
     first : BOOLEAN, ok : BOOLEAN, before : SUBSET Customer]

Messages == [body : Copy \cup {Drafted}, under : Copy]

TypeOK ==
    /\ row \in CampaignRow
    /\ recipients \in Recipients
    /\ optedOut \subseteq Customer
    /\ request \in [Request -> Loaded \cup {Null}]
    /\ run \in [Sender -> {Null} \cup Runs]
    /\ calls \in [Customer -> Seq(Messages)]
    /\ approved \subseteq Copy
    /\ aborted \in BOOLEAN
    /\ spent \in [{"edits", "snapshots", "changes", "optOuts", "failures",
                   "crashes"} -> Nat]

\* A campaign reaches each customer at most once, however often it is paused,
\* approved again and run again.
SentOnce == \A c \in Customer : Len(calls[c]) <= 1

\* "No campaign can send without an explicit human approval action": a message goes
\* out only under a copy that a human has approved and that passed the compliance
\* check, and what goes out is that copy, as it was when the run was let through, or
\* a text drafted for the customer, whatever is edited while the run goes on.
ApprovedCopySent ==
    \A c \in Customer : \A i \in 1 .. Len(calls[c]) :
        /\ calls[c][i].under \in approved \cap Passing
        /\ calls[c][i].body \in {calls[c][i].under, Drafted}

\* Somebody has approved each text that goes out.
ApprovedTextSent ==
    \A c \in Customer : \A i \in 1 .. Len(calls[c]) : calls[c][i].body \in approved

\* Consent revoked after the snapshot is honoured: nobody who had opted out when
\* a run read its recipients is sent anything by that run.
RevokedConsentHonoured ==
    \A u \in Sender :
        run[u] # Null /\ run[u].pc \in {"gated", "drafted", "sent"} => run[u].cur \notin run[u].before

\* The delivery record is not rewritten: whom the provider accepted a message
\* for stays SENT once that is recorded.
RecordIsFrozen ==
    [][\A c \in Customer :
         recipients[c] = "SENT" => recipients'[c] = "SENT"]_vars

\* A paused or cancelled campaign sends nothing.
PausedSendsNothing ==
    [][row.status \in {"PAUSED", "CANCELLED"} => calls' = calls]_vars

\* A run that has set the campaign RUNNING takes it out of RUNNING again, unless a
\* run is lost, or fails because a snapshot of the audience has deleted a recipient
\* under it: both leave the campaign RUNNING for good.
RunSettles ==
    row.status = "RUNNING" ~> row.status # "RUNNING" \/ spent.crashes > 0 \/ aborted

=============================================================================

------------------------ MODULE AutomationLifecycle -------------------------
(***************************************************************************)
(* The life of one automation: drafted, approved, activated, edited,       *)
(* paused, run and deleted.  backend/app/automations/service.py (approve,  *)
(* activate, pause, resume, apply_update, replace_steps, due_automations,  *)
(* run_due), the end of cohort.run and sequences.run, and the routes of    *)
(* backend/app/api/v1/automations.py.                                      *)
(*                                                                         *)
(* A request loads the row in its own session, decides on what it loaded,  *)
(* and its commit writes only the columns it changed: SQLAlchemy compares  *)
(* each attribute with the loaded value.  There is no version column.      *)
(* A run loads the row, may commit its stop pass and load the row again,   *)
(* builds its candidates (a cohort from the copy in the row it loaded, a   *)
(* sequence from the steps it queries then), is refused or sends, commits  *)
(* in execute_candidates, and settles the next run in another commit.      *)
(***************************************************************************)
EXTENDS Naturals

CONSTANTS
    Request,          \* threads serving API requests
    Scheduler,        \* the scheduler's thread, which runs what is due
    Operator,         \* threads serving POST /automations/{id}/run
    Kinds,            \* of "once", "recurring" (cohorts) and "sequence"
    RequireApproval,  \* the automation's require_approval
    Editable,         \* what operators edit: "edit template", "edit variants", "edit steps"
    MaxEdits,         \* edits that operators ask for
    MaxCrashes,
    Null              \* what an idle thread holds

\* Of the editable fields, those whose change withdraws approval: the fields of
\* APPROVAL_SENSITIVE_FIELDS, and the steps (replace_steps).
Sensitive == {"edit template", "edit steps"}
RowStatus == {"DRAFT", "ACTIVE", "PAUSED", "COMPLETED", "DELETED"}
NextRun == {"none", "due", "later"}

ASSUME LifecycleAssumption ==
    /\ Kinds \subseteq {"once", "recurring", "sequence"}
    /\ RequireApproval \in BOOLEAN
    /\ Editable \subseteq {"edit template", "edit variants", "edit steps"}
    /\ MaxEdits \in Nat /\ MaxCrashes \in Nat

Runner == {Scheduler} \cup Operator
Copy == 0 .. MaxEdits

\* The columns of the automations row that matter; copy is a version number.
AutomationRow ==
    [status : RowStatus, approved : BOOLEAN, next_run : NextRun, copy : Copy]

Op == {"approve", "activate", "pause", "resume", "delete"}
        \cup Editable

VARIABLES
    kind,      \* of the automation, for good
    row,       \* the committed row
    enrolled,  \* a customer has joined the sequence
    over,      \* the end date has passed
    request,   \* per request thread: its operation, the row it loaded, its new copy
    run,       \* per runner: where its run is, whether the row it loaded may send
    covered,   \* the copy that the last approval was given to
    sent,      \* of the last run that sent: the copies of its two reads, and what
               \* approval covered at the first
    spent      \* edits and crashes so far

vars == <<kind, row, enrolled, over, request, run, covered, sent, spent>>

Init ==
    /\ kind \in Kinds
    /\ row = [status |-> "DRAFT", approved |-> FALSE, next_run |-> "none", copy |-> 0]
    /\ enrolled = FALSE
    /\ over = FALSE
    /\ request = [r \in Request |-> Null]
    /\ run = [u \in Runner |-> Null]
    /\ covered = Null
    /\ sent = Null
    /\ spent = [edits |-> 0, crashes |-> 0]

---------------------------------------------------------------------------
(* Requests. *)

IsEdit(op) == op \in {"edit template", "edit variants", "edit steps"}

\* What a kind of automation sends: the steps of a sequence, or what the row says.
Changes(op) == IF kind = "sequence" THEN op = "edit steps"
               ELSE op \in {"edit template", "edit variants"}

Load(r, op) ==
    /\ request[r] = Null
    /\ row.status # "DELETED"
    /\ IsEdit(op) => spent.edits < MaxEdits
    /\ request' = [request EXCEPT ![r] =
         [op |-> op, read |-> row, counted |-> FALSE,
          new |-> IF IsEdit(op) /\ Changes(op) THEN spent.edits + 1 ELSE row.copy]]
    /\ spent' = IF IsEdit(op) THEN [spent EXCEPT !.edits = @ + 1] ELSE spent
    /\ UNCHANGED <<kind, row, enrolled, over, run, covered, sent>>

\* The row after a session that loaded `read` and set `new` has committed:
\* only the changed columns are written.
Flush(read, new) ==
    [col \in DOMAIN row |-> IF new[col] # read[col] THEN new[col] ELSE row[col]]

Answered(r) == request' = [request EXCEPT ![r] = Null]

\* replace_steps looks for enrollments before it rewrites the steps.
Count(r) ==
    /\ request[r] # Null
    /\ request[r].op = "edit steps" /\ ~ request[r].counted
    /\ IF enrolled THEN Answered(r)
       ELSE request' = [request EXCEPT ![r].counted = TRUE]
    /\ UNCHANGED <<kind, row, enrolled, over, run, covered, sent, spent>>

\* As if an approved automation were not asked for on activation.
BugActivateUnapproved(read) == TRUE

MayActivate(read) == ~ RequireApproval \/ read.approved

\* activate; a recurring campaign whose end date has passed has no next run.
Activated(read) ==
    [read EXCEPT
        !.status = "ACTIVE",
        !.next_run = IF kind = "recurring"
                     THEN IF over THEN "none" ELSE "later"
                     ELSE "due"]

\* As if approval survived an edit of the copy.
BugKeepApproval(read) == read

\* revoke_approval: an active automation is paused as well.
Revoked(read) ==
    IF RequireApproval /\ read.approved
    THEN IF read.status = "ACTIVE"
         THEN [read EXCEPT !.approved = FALSE, !.status = "PAUSED",
                           !.next_run = "none"]
         ELSE [read EXCEPT !.approved = FALSE]
    ELSE read

Edited(op, read, new) ==
    [(IF op \in Sensitive THEN Revoked(read) ELSE read) EXCEPT !.copy = new]

\* What the request leaves of the row it loaded, or Null when it is refused.
Outcome(op, read, new) ==
    CASE op = "approve" -> [read EXCEPT !.approved = TRUE]
      [] op = "activate" -> IF MayActivate(read) THEN Activated(read) ELSE Null
      [] op = "resume" -> IF read.status = "PAUSED" /\ MayActivate(read)
                          THEN Activated(read) ELSE Null
      [] op = "pause" -> [read EXCEPT !.status = "PAUSED"]
      [] op = "delete" -> IF read.status = "ACTIVE" THEN Null
                          ELSE [read EXCEPT !.status = "DELETED"]
      [] IsEdit(op) -> Edited(op, read, new)

\* approve stamps approved_at with the time, which always differs.
Saved(op, read, new) ==
    IF op = "approve"
    THEN [row EXCEPT !.approved = TRUE]
    ELSE Flush(read, Outcome(op, read, new))

\* Runs that have loaded the row and have not read their copy yet: the steps of a
\* sequence are rewritten under them.
Crossed(op) ==
    [u \in Runner |->
        IF op = "edit steps" /\ kind = "sequence" /\ run[u] # Null
             /\ run[u].pc \in {"taken", "reread"}
        THEN [run[u] EXCEPT !.crossed = TRUE] ELSE run[u]]

Save(r) ==
    /\ request[r] # Null
    /\ request[r].op = "edit steps" => request[r].counted
    /\ LET op == request[r].op
           read == request[r].read
           new == request[r].new
       IN IF row.status = "DELETED" \/ Outcome(op, read, new) = Null
          THEN UNCHANGED <<row, covered, run>>
          ELSE /\ row' = Saved(op, read, new)
               /\ covered' = IF op = "approve" THEN read.copy ELSE covered
               /\ run' = Crossed(op)
    /\ Answered(r)
    /\ UNCHANGED <<kind, enrolled, over, sent, spent>>

Serve(r) == (\E op \in Op : Load(r, op)) \/ Count(r) \/ Save(r)

---------------------------------------------------------------------------
(* Runs. *)

Sendable(read) ==
    read.status = "ACTIVE" /\ (RequireApproval => read.approved)

\* What a run knows of the row, from the moment it loads it.
Taken(pc) ==
    [pc |-> pc, ok |-> Sendable(row), copy |-> row.copy, loaded |-> row.copy,
     covered |-> covered, crossed |-> FALSE]

\* due_automations for the scheduler, the route for an operator.
TakeUp(u) ==
    /\ run[u] = Null
    /\ row.status # "DELETED"
    /\ u = Scheduler => row.status = "ACTIVE" /\ row.next_run = "due"
    /\ run' = [run EXCEPT ![u] = Taken("taken")]
    /\ UNCHANGED <<kind, row, enrolled, over, request, covered, sent, spent>>

\* A sequence has enrolled who matches. If its stop conditions end anybody's place,
\* it commits, even when it may not send, and the session forgets the row.
StopPass(u) ==
    /\ run[u] # Null
    /\ run[u].pc = "taken" /\ kind = "sequence"
    /\ IF row.status = "DELETED"
       THEN run' = [run EXCEPT ![u] = Null] /\ UNCHANGED enrolled
       ELSE run' = [run EXCEPT ![u] = [pc |-> "stopped"]] /\ enrolled' = TRUE
    /\ UNCHANGED <<kind, row, over, request, covered, sent, spent>>

Reread(u) ==
    /\ run[u] # Null
    /\ run[u].pc = "stopped"
    /\ run' = [run EXCEPT ![u] = IF row.status = "DELETED" THEN Null ELSE Taken("reread")]
    /\ UNCHANGED <<kind, row, enrolled, over, request, covered, sent, spent>>

\* build_candidates, and _assert_sendable of the row that the session holds. The steps
\* of a sequence are queried now (the template is the row's, for a cohort), and are
\* gone with a deleted row. A run that is refused is rolled back.
Build(u) ==
    /\ run[u] # Null
    /\ run[u].pc \in {"taken", "reread"}
    /\ run' = [run EXCEPT ![u] =
         IF ~ run[u].ok \/ (kind = "sequence" /\ row.status = "DELETED") THEN Null
         ELSE [run[u] EXCEPT !.pc = "sending",
                             !.copy = IF kind = "sequence" THEN row.copy ELSE @]]
    /\ UNCHANGED <<kind, row, enrolled, over, request, covered, sent, spent>>

SendAll(u) ==
    /\ run[u] # Null
    /\ run[u].pc = "sending"
    /\ sent' = [copy |-> run[u].copy, loaded |-> run[u].loaded,
                covered |-> run[u].covered, crossed |-> run[u].crossed]
    /\ run' = [run EXCEPT ![u] = [pc |-> "sent"]]
    /\ UNCHANGED <<kind, row, enrolled, over, request, covered, spent>>

\* The commit of execute_candidates, with what enroll added. The UPDATE of a
\* deleted row matches nothing, which aborts the transaction.
CommitRun(u) ==
    /\ run[u] # Null
    /\ run[u].pc = "sent"
    /\ IF row.status = "DELETED"
       THEN run' = [run EXCEPT ![u] = Null] /\ UNCHANGED enrolled
       ELSE /\ run' = [run EXCEPT ![u] = [pc |-> "settle"]]
            /\ enrolled' = (enrolled \/ kind = "sequence")
    /\ UNCHANGED <<kind, row, over, request, covered, sent, spent>>

\* As if a finished campaign kept its schedule entry.
BugNeverRescheduled(last) == row

\* The end of cohort.run and of sequences.run, on a row loaded anew. A locked
\* cohort is finished when its last enrollment is.
SettledRow(last) ==
    CASE kind = "once" -> [row EXCEPT !.next_run = "none", !.status = "COMPLETED"]
      [] kind = "recurring" ->
           IF over THEN [row EXCEPT !.next_run = "none", !.status = "COMPLETED"]
           ELSE [row EXCEPT !.next_run = "later"]
      [] kind = "sequence" ->
           IF over \/ last THEN [row EXCEPT !.status = "COMPLETED"] ELSE row

Settle(u) ==
    /\ run[u] # Null
    /\ run[u].pc = "settle"
    /\ IF row.status = "DELETED" THEN UNCHANGED row
       ELSE \E last \in BOOLEAN : row' = SettledRow(last)
    /\ run' = [run EXCEPT ![u] = Null]
    /\ UNCHANGED <<kind, enrolled, over, request, covered, sent, spent>>

Crash(u) ==
    /\ run[u] # Null
    /\ spent.crashes < MaxCrashes
    /\ run' = [run EXCEPT ![u] = Null]
    /\ spent' = [spent EXCEPT !.crashes = @ + 1]
    /\ UNCHANGED <<kind, row, enrolled, over, request, covered, sent>>

GoOn(u) == StopPass(u) \/ Reread(u) \/ Build(u) \/ SendAll(u) \/ CommitRun(u) \/ Settle(u)

RunStep(u) == TakeUp(u) \/ GoOn(u)

---------------------------------------------------------------------------
(* Time. *)

ComesDue ==
    /\ row.next_run = "later"
    /\ row' = [row EXCEPT !.next_run = "due"]
    /\ UNCHANGED <<kind, enrolled, over, request, run, covered, sent, spent>>

EndDatePasses ==
    /\ ~ over
    /\ over' = TRUE
    /\ UNCHANGED <<kind, row, enrolled, request, run, covered, sent, spent>>

\* Nothing is due and nobody calls.
Idle ==
    /\ \A r \in Request : request[r] = Null
    /\ \A u \in Runner : run[u] = Null
    /\ UNCHANGED vars

Next ==
    \/ \E r \in Request : Serve(r)
    \/ \E u \in Runner : RunStep(u) \/ Crash(u)
    \/ ComesDue
    \/ EndDatePasses
    \/ Idle

\* The scheduler's job fires every few minutes and a run that was taken up goes on; no
\* operator has to run anything.
Fairness ==
    /\ WF_vars(RunStep(Scheduler))
    /\ \A u \in Operator : WF_vars(GoOn(u))

Spec == Init /\ [][Next]_vars /\ Fairness

---------------------------------------------------------------------------
(* Properties. *)

Loaded == [op : Op, read : AutomationRow, counted : BOOLEAN, new : Copy]
Running ==
    [pc : {"taken", "reread", "sending"}, ok : BOOLEAN,
     copy : Copy, loaded : Copy, covered : Copy \cup {Null}, crossed : BOOLEAN]
    \cup [pc : {"stopped", "sent", "settle"}]
Sent == [copy : Copy, loaded : Copy, covered : Copy \cup {Null}, crossed : BOOLEAN]

TypeOK ==
    /\ kind \in Kinds
    /\ row \in AutomationRow
    /\ enrolled \in BOOLEAN /\ over \in BOOLEAN
    /\ request \in [Request -> {Null} \cup Loaded]
    /\ run \in [Runner -> {Null} \cup Running]
    /\ covered \in Copy \cup {Null}
    /\ sent \in {Null} \cup Sent
    /\ spent \in [edits : 0 .. MaxEdits, crashes : 0 .. MaxCrashes]

\* An automation is live only while it is approved: it never looks active and
\* silently sends nothing for want of approval.
ActiveIsApproved ==
    RequireApproval /\ row.status = "ACTIVE" => row.approved

\* An active automation has a next run, unless its end date has passed.
ActiveIsScheduled ==
    row.status = "ACTIVE" /\ ~ over => row.next_run # "none"

\* Both: an active automation never looks live and silently sends nothing.
ActiveIsReady == ActiveIsApproved /\ ActiveIsScheduled

\* "Approval attaches to the message": the copy in the row that a run loads and
\* checks is the one that the last approval was given to, and that is what the run
\* sends, whatever is edited, approved or paused since. The exception is a sequence
\* whose steps were rewritten after its run loaded the row and before it queried the
\* steps: _assert_sendable looks at the row.
SentCopyApproved ==
    RequireApproval /\ sent # Null =>
        sent.loaded = sent.covered /\ (sent.copy = sent.covered \/ sent.crossed)

\* "Approval attaches to the message", without exception: what a run sends is what
\* was approved when it was let through.
SentStepsApproved ==
    RequireApproval /\ sent # Null => sent.copy = sent.covered

\* An automation is not deleted while one of its runs is under way.
DeleteSparesRuns ==
    row.status = "DELETED" =>
        \A u \in Runner : run[u] # Null => run[u].pc = "settle"

\* An active sequence gets its run: it stays due, and is taken up again and
\* again for as long as it is active.
DueIsRun ==
    kind = "sequence" /\ row.status = "ACTIVE" /\ row.next_run = "due"
        ~> row.status # "ACTIVE" \/ run[Scheduler] # Null

\* A one-off or recurring campaign that has come due is run, unless it is paused
\* first: it does not stay active and due for ever, crashes notwithstanding.
DueIsServed ==
    kind # "sequence" /\ row.status = "ACTIVE" /\ row.next_run = "due"
        ~> row.status # "ACTIVE" \/ row.next_run # "due"

\* Both, for every kind of automation.
DueIsNotForgotten == DueIsRun /\ DueIsServed

=============================================================================

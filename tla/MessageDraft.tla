---------------------------- MODULE MessageDraft ----------------------------
(***************************************************************************)
(* The rows of messages: generated for review or by a campaign's run       *)
(* (services/messaging.py, campaigns/service.py), then edited, checked     *)
(* again, approved and rejected through the dashboard                      *)
(* (api/v1/messages.py) while the brand's rules change.                    *)
(*                                                                         *)
(* A request loads the row, commits, loads it again and commits again; no  *)
(* row is locked, and a commit writes only the columns it gave another     *)
(* value than the one it read. The approval is written after a commit that *)
(* forgot what was read, so that it is written whatever the row says.      *)
(***************************************************************************)
EXTENDS FiniteSets, Naturals

CONSTANTS
    Message,     \* the rows
    Copy,        \* the texts a message may have
    Operator,    \* those who work on messages through the dashboard
    Run,         \* the run of a campaign or journey
    MaxRules,    \* bound: how often the brand's rules change
    Null

Status == {"GENERATED", "EDITED", "VALIDATION_FAILED", "APPROVED", "REJECTED", "SENT", "FAILED"}

VARIABLES
    row,       \* status, copy, original copy and approver of each message, or Null
    rules,     \* the copies that pass validation
    changes,   \* how often the rules changed
    session,   \* what each operator, and the run, is doing, or Null
    agreed,    \* the copy an approver saw pass, per message
    crossed,   \* the messages two requests worked on at once
    handed     \* the copy the provider was given for each message, or Null

history == <<agreed, crossed, handed>>
vars == <<row, rules, changes, session, history>>

Row == [status : Status, copy : Copy, original : Copy, approver : Operator \cup {Null}]

Init ==
    /\ row = [m \in Message |-> Null]
    /\ rules \in SUBSET Copy /\ changes = 0
    /\ session = [p \in Operator \cup {Run} |-> Null]
    /\ agreed = [m \in Message |-> Null] /\ crossed = {} /\ handed = [m \in Message |-> Null]

Checked(copy) == IF copy \in rules THEN "GENERATED" ELSE "VALIDATION_FAILED"

New(copy, status) == [status |-> status, copy |-> copy, original |-> copy, approver |-> Null]

\* Somebody else has loaded the row and not yet finished with it.
Others(p, m) == \E r \in DOMAIN session \ {p} : session[r] # Null /\ session[r].msg = m
Crossing(p, m) == crossed' = (IF Others(p, m) THEN crossed \cup {m} ELSE crossed)

(***************************************************************************)
(* Messages come to be                                                     *)
(***************************************************************************)
\* generate_message, for an operator to review.
Generate(m, copy) ==
    /\ row[m] = Null
    /\ row' = [row EXCEPT ![m] = New(copy, Checked(copy))]
    /\ UNCHANGED <<rules, changes, session, history>>

\* generate_message within a run: the row is committed, visible and open to
\* requests before the message goes out. What failed validation is never sent.
RunGenerates(m, copy) ==
    /\ row[m] = Null /\ session[Run] = Null
    /\ row' = [row EXCEPT ![m] = New(copy, Checked(copy))]
    /\ session' = [session EXCEPT ![Run] =
            IF copy \in rules THEN [msg |-> m, op |-> "hand", copy |-> copy] ELSE Null]
    /\ UNCHANGED <<rules, changes, history>>

\* The provider is given the copy the run has in memory.
RunHands ==
    /\ session[Run] # Null /\ session[Run].op = "hand"
    /\ handed' = [handed EXCEPT ![session[Run].msg] = session[Run].copy]
    /\ session' = [session EXCEPT ![Run].op = "book"]
    /\ UNCHANGED <<row, rules, changes, agreed, crossed>>

\* Only the outcome is written, over whatever status the row has by now.
RunBooks ==
    /\ session[Run] # Null /\ session[Run].op = "book"
    /\ LET m == session[Run].msg IN
        /\ \E outcome \in {"SENT", "FAILED"} : row' = [row EXCEPT ![m].status = outcome]
        /\ Crossing(Run, m)
    /\ session' = [session EXCEPT ![Run] = Null]
    /\ UNCHANGED <<rules, changes, agreed, handed>>

\* A lost run leaves the row as it was generated, though the message may be out.
RunIsLost ==
    /\ session[Run] # Null
    /\ session' = [session EXCEPT ![Run] = Null]
    /\ UNCHANGED <<row, rules, changes, history>>

(***************************************************************************)
(* Requests                                                                *)
(***************************************************************************)
\* A column is in the unit of work when it is given another value than the one read.
Another(wanted, read) == {wanted} \ {read}

\* revalidate_message: a status a person or a run gave is kept when the copy passes.
Revalidated(got) ==
    IF got.copy \notin rules THEN "VALIDATION_FAILED"
    ELSE IF got.status \in {"VALIDATION_FAILED", "GENERATED"}
         THEN IF got.copy # got.original THEN "EDITED" ELSE "GENERATED"
         ELSE got.status

Validating(op, m, got) ==
    [msg |-> m, op |-> op, status |-> Another(Revalidated(got), got.status), copy |-> {}, withdraws |-> FALSE,
     seen |-> IF op = "approve" /\ got.copy \in rules THEN got.copy ELSE Null]

\* Mutant: an edit leaves the approval.
BugEditKeepsApproval(m, got, copy) ==
    [msg |-> m, op |-> "edit", status |-> {}, copy |-> Another(copy, got.copy), withdraws |-> FALSE, seen |-> Null]

Editing(m, got, copy) ==
    [msg |-> m, op |-> "edit", status |-> {}, copy |-> Another(copy, got.copy), withdraws |-> got.approver # Null,
     seen |-> Null]

Rejecting(m, got) ==
    [msg |-> m, op |-> "reject", status |-> Another("REJECTED", got.status), copy |-> {},
     withdraws |-> got.approver # Null, seen |-> Null]

Loads(o, m, work) ==
    /\ session[o] = Null /\ row[m] # Null
    /\ session' = [session EXCEPT ![o] = work]
    /\ UNCHANGED <<row, rules, changes, history>>

\* A sent message cannot be edited.
Edit(o, m, copy) ==
    /\ row[m] # Null /\ row[m].status # "SENT"
    /\ Loads(o, m, Editing(m, row[m], copy))

Validate(o, m) == row[m] # Null /\ Loads(o, m, Validating("validate", m, row[m]))
Approve(o, m) == row[m] # Null /\ Loads(o, m, Validating("approve", m, row[m]))
Reject(o, m) == row[m] # Null /\ Loads(o, m, Rejecting(m, row[m]))

Value(column, now) == IF column = {} THEN now ELSE CHOOSE v \in column : TRUE

Updated(work) ==
    [row[work.msg] EXCEPT !.status = Value(work.status, @), !.copy = Value(work.copy, @),
                          !.approver = IF work.withdraws THEN Null ELSE @]

\* After an edit the row is read again and validated; after a validation that
\* passed the approval is to be written.
Commits(o) ==
    /\ session[o] # Null /\ session[o].op # "agree"
    /\ LET work == session[o]
           m == work.msg IN
        /\ row' = [row EXCEPT ![m] = Updated(work)]
        /\ session' = [session EXCEPT ![o] =
                CASE work.op = "edit" -> Validating("validate", m, Updated(work))
                  [] work.op = "approve" /\ work.seen # Null -> [work EXCEPT !.op = "agree"]
                  [] OTHER -> Null]
        /\ Crossing(o, m)
    /\ UNCHANGED <<rules, changes, agreed, handed>>

\* Whatever the row has become since it was validated.
CommitsApproval(o) ==
    /\ session[o] # Null /\ session[o].op = "agree"
    /\ LET m == session[o].msg IN
        /\ row' = [row EXCEPT ![m].status = "APPROVED", ![m].approver = o]
        /\ agreed' = [agreed EXCEPT ![m] = session[o].seen]
        /\ Crossing(o, m)
    /\ session' = [session EXCEPT ![o] = Null]
    /\ UNCHANGED <<rules, changes, handed>>

\* The brand settings are saved: validation reads them anew each time.
ChangeRules(new) ==
    /\ changes < MaxRules /\ new # rules
    /\ rules' = new /\ changes' = changes + 1
    /\ UNCHANGED <<row, session, history>>

Next ==
    \/ \E m \in Message, c \in Copy : Generate(m, c) \/ RunGenerates(m, c)
    \/ RunHands \/ RunBooks \/ RunIsLost
    \/ \E new \in SUBSET Copy : ChangeRules(new)
    \/ \E o \in Operator, m \in Message :
        Validate(o, m) \/ Approve(o, m) \/ Reject(o, m) \/ (\E c \in Copy : Edit(o, m, c))
    \/ \E o \in Operator : Commits(o) \/ CommitsApproval(o)

Spec == Init /\ [][Next]_vars

(***************************************************************************)
(* Properties                                                              *)
(***************************************************************************)
\* What a run and what an operator is doing.
RunWork == [msg : Message, op : {"hand", "book"}, copy : Copy]
Request == [msg : Message, op : {"edit", "validate", "approve", "agree", "reject"},
            status : SUBSET Status, copy : SUBSET Copy, withdraws : BOOLEAN, seen : Copy \cup {Null}]

TypeOK ==
    /\ row \in [Message -> Row \cup {Null}]
    /\ rules \subseteq Copy /\ changes \in 0 .. MaxRules
    /\ session = [p \in Operator \cup {Run} |-> session[p]]
    /\ session[Run] \in RunWork \cup {Null}
    /\ \A o \in Operator : session[o] \in Request \cup {Null}
    /\ agreed \in [Message -> Copy \cup {Null}] /\ handed \in [Message -> Copy \cup {Null}]
    /\ crossed \subseteq Message

\* Who is on record as approver approved the words on record, unless requests
\* overlapped on the message: an edit withdraws the approval even when the rules
\* or a rejection moved the status in between, and nothing brings it back.
ApprovalIsOfCopy == \A m \in Message \ crossed :
    row[m] # Null /\ row[m].approver # Null => row[m].copy = agreed[m]

\* What is on record as sent is what the provider was given, unless requests
\* overlapped: the copy of a message changes only while its status is another one,
\* and nothing but sending makes it SENT.
SentIsOnRecord == \A m \in Message \ crossed :
    row[m] # Null /\ row[m].status = "SENT" => row[m].copy = handed[m]

\* Both: the record of a message is about the words it shows.
DraftsAreTrue == ApprovalIsOfCopy /\ SentIsOnRecord

\* docs/compliance.md:144: "editing an approved message revokes that approval",
\* once nobody is working on the message any more.
EditRevokesApproval ==
    \A m \in Message : row[m] # Null /\ row[m].status = "APPROVED"
        /\ (\A o \in Operator : session[o] = Null \/ session[o].msg # m) => row[m].approver # Null
=============================================================================

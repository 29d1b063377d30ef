--------------------------- MODULE CampaignProofs ---------------------------
(***************************************************************************)
(* What a campaign promises its customers, proved for any audience, any    *)
(* number of senders that run it at once unless a theorem says one, and    *)
(* any bounds.                                                             *)
(***************************************************************************)
EXTENDS Campaign, SequenceTheorems, TLAPS

\* One request at a time, and none that submits a campaign again.
OneByOne == (\A r, s \in Request : r = s) /\ "submit" \notin Ops

Counts == [{"edits", "snapshots", "changes", "optOuts", "failures", "crashes"} -> Nat]

---------------------------------------------------------------------------
(* Types. *)

\* An edit finds a number for its copy, a snapshot has seen the recipients, and a
\* message has a text.
Prepared ==
    /\ spent["edits"] <= MaxEdits
    /\ \A r \in Request :
         request[r] # Null =>
            /\ request[r].op = "edit" => request[r].new \in Copy
            /\ request[r].op = "snapshot" => request[r].seen \in Recipients
    /\ \A u \in Sender :
         run[u] # Null /\ run[u].pc \in {"gated", "drafted"} => run[u].text \in Copy

TypeInv == TypeOK /\ Prepared

LEMMA Bounds == MaxEdits \in Nat /\ Ops \subseteq Operations /\ Passing \subseteq Copy
  BY CampaignAssumption

LEMMA SpentTyped ==
    ASSUME spent \in Counts, NEW x \in DOMAIN spent, NEW max, Spend(x, max)
    PROVE  spent' \in Counts /\ \A y \in DOMAIN spent : y # x => spent'[y] = spent[y]
  BY DEF Counts, Spend

LEMMA BoundTyped ==
    ASSUME TypeInv, NEW op \in Ops, Bound(op)
    PROVE  /\ spent' \in Counts
           /\ spent'["edits"] <= MaxEdits
           /\ op = "edit" => spent["edits"] + 1 \in Copy
           /\ spent["edits"] + 1 \in 1 .. (MaxEdits + 1)
  <1>1. spent \in Counts /\ spent["edits"] \in Nat /\ spent["edits"] <= MaxEdits
    BY DEF TypeInv, TypeOK, Counts, Prepared
  <1>2. spent["edits"] + 1 \in 1 .. (MaxEdits + 1) BY <1>1, Bounds
  <1>3. CASE op = "edit"
    <2>1. Spend("edits", MaxEdits) BY <1>3 DEF Bound
    <2>2. spent' = [spent EXCEPT !["edits"] = @ + 1] /\ spent["edits"] < MaxEdits
      BY <2>1 DEF Spend
    <2>3. spent'["edits"] = spent["edits"] + 1 BY <1>1, <2>2 DEF Counts
    <2>4. spent' \in Counts BY <1>1, <2>2 DEF Counts
    <2> QED BY <1>1, <1>2, <2>2, <2>3, <2>4, Bounds DEF Copy
  <1>4. CASE op = "snapshot"
    <2>1. Spend("snapshots", MaxSnapshots) BY <1>4 DEF Bound
    <2> QED BY <1>1, <1>2, <1>4, <2>1 DEF Counts, Spend
  <1>5. CASE op \notin {"edit", "snapshot"}
    <2>1. Spend("changes", MaxChanges) BY <1>5 DEF Bound
    <2> QED BY <1>1, <1>2, <1>5, <2>1 DEF Counts, Spend
  <1> QED BY <1>3, <1>4, <1>5

LEMMA OutcomeTyped ==
    ASSUME NEW op \in Operations, NEW read \in CampaignRow, NEW new, op = "edit" => new \in Copy
    PROVE  Outcome(op, read, new) \in CampaignRow
  <1> USE DEF CampaignRow, Status, Editable
  <1>1. Checked(read) \in CampaignRow
    <2> DEFINE passes == read.copy \in Passing
    <2>1. passes \in BOOLEAN OBVIOUS
    <2>2. Checked(read) = [read EXCEPT !.passed = passes,
            !.status = IF @ \in {"DRAFT", "COMPLIANCE_CHECKED"} THEN "COMPLIANCE_CHECKED" ELSE @]
      BY DEF Checked
    <2> HIDE DEF passes
    <2> QED BY <2>1, <2>2
  <1>2. Submitted(read) \in CampaignRow BY <1>1 DEF Submitted
  <1>3. Approved(read) \in CampaignRow BY DEF Approved
  <1>4. Scheduled(read) \in CampaignRow /\ Paused(read) \in CampaignRow /\ Cancelled(read) \in CampaignRow
    BY DEF Scheduled, Paused, Cancelled
  <1>5. op = "edit" => Edited(read, new) \in CampaignRow BY DEF Edited
  <1> QED BY <1>1, <1>2, <1>3, <1>4, <1>5 DEF Outcome, Operations

LEMMA FlushedRow ==
    ASSUME NEW read \in CampaignRow, NEW new \in CampaignRow, row \in CampaignRow
    PROVE  /\ Flush(read, new) \in CampaignRow
           /\ Flush(read, new).status = IF new.status # read.status THEN new.status ELSE row.status
           /\ Flush(read, new).passed = IF new.passed # read.passed THEN new.passed ELSE row.passed
           /\ Flush(read, new).copy = IF new.copy # read.copy THEN new.copy ELSE row.copy
  <1>1. DOMAIN row = {"status", "passed", "copy"} BY DEF CampaignRow
  <1>2. Flush(read, new) =
          [status |-> IF new.status # read.status THEN new.status ELSE row.status,
           passed |-> IF new.passed # read.passed THEN new.passed ELSE row.passed,
           copy |-> IF new.copy # read.copy THEN new.copy ELSE row.copy]
    BY <1>1 DEF Flush
  <1> QED BY <1>2 DEF CampaignRow

LEMMA SavedTyped ==
    ASSUME NEW op \in Operations, NEW read \in CampaignRow, NEW new \in CampaignRow, row \in CampaignRow
    PROVE  Saved(op, read, new) \in CampaignRow
  <1>1. Flush(read, new) \in CampaignRow BY FlushedRow
  <1> QED BY <1>1 DEF Saved, CampaignRow, Status, Editable

LEMMA SnapshotTyped ==
    ASSUME recipients \in Recipients, NEW seen \in Recipients, SaveRecipients(seen)
    PROVE  recipients' \in Recipients
  <1>1. ASSUME NEW audience, NEW c \in Customer
        PROVE  Snapshot(seen, audience, c) \in RecipientStatus \cup {Gone}
    BY DEF Snapshot, Recipients, RecipientStatus
  <1> QED BY <1>1 DEF SaveRecipients, Recipients

LEMMA TypesStart == ASSUME Init PROVE TypeInv
  <1>1. 0 \in Copy /\ 0 <= MaxEdits BY Bounds DEF Copy
  <1>2. row \in CampaignRow BY <1>1 DEF Init, CampaignRow, Status, Editable
  <1>3. spent \in Counts /\ spent["edits"] = 0 BY DEF Init, Counts
  <1>4. calls \in [Customer -> Seq(Messages)] BY DEF Init
  <1>5. recipients \in Recipients BY DEF Init, Recipients
  <1> QED BY <1>1, <1>2, <1>3, <1>4, <1>5 DEF Init, TypeInv, TypeOK, Prepared, Counts

LEMMA TypesOfRequests ==
    ASSUME TypeInv, NEW r \in Request, Serve(r)
    PROVE  TypeInv'
  <1> USE DEF TypeInv
  <1>1. ASSUME NEW op \in Ops, Load(r, op) PROVE TypeInv'
    <2>1. /\ spent' \in Counts
          /\ spent'["edits"] <= MaxEdits
          /\ op = "edit" => spent["edits"] + 1 \in Copy
          /\ spent["edits"] + 1 \in 1 .. (MaxEdits + 1)
      BY <1>1, BoundTyped DEF Load
    <2> DEFINE loaded == [op |-> op, read |-> row, new |-> spent["edits"] + 1,
                          seen |-> IF op = "snapshot" THEN recipients ELSE Null]
    <2>2. loaded \in Loaded BY <2>1 DEF Loaded, TypeOK
    <2>3. request' = [request EXCEPT ![r] = loaded] BY <1>1 DEF Load
    <2>4. TypeOK' BY <1>1, <2>1, <2>2, <2>3 DEF Load, TypeOK, Counts
    <2>5. Prepared' BY <2>1, <2>3, <1>1 DEF Load, Prepared, TypeOK
    <2> QED BY <2>4, <2>5
  <1>2. CASE Save(r)
    <2> DEFINE op == request[r].op
               read == request[r].read
               new == Outcome(op, read, request[r].new)
    <2>1. request[r] \in Loaded BY <1>2 DEF Save, TypeOK
    <2>2. op \in Ops /\ op \in Operations /\ read \in CampaignRow /\ request[r].seen \in Recipients \cup {Null}
      BY <2>1, Bounds DEF Loaded
    <2>3. op = "edit" => request[r].new \in Copy BY <1>2 DEF Save, Prepared
    <2>4. new \in CampaignRow BY <2>2, <2>3, OutcomeTyped
    <2>5. row' \in CampaignRow BY <1>2, <2>2, <2>4, SavedTyped DEF Save, TypeOK
    <2>6. approved' \subseteq Copy BY <1>2, <2>2 DEF Save, TypeOK, CampaignRow
    <2>7. recipients' \in Recipients
      <3>1. op = "snapshot" => request[r].seen \in Recipients
        BY <1>2 DEF Save, Prepared
      <3> QED BY <1>2, <3>1, SnapshotTyped DEF Save, TypeOK
    <2>8. request' \in [Request -> Loaded \cup {Null}] BY <1>2 DEF Save, TypeOK
    <2>9. TypeOK' BY <1>2, <2>5, <2>6, <2>7, <2>8 DEF Save, TypeOK
    <2>10. Prepared' BY <1>2 DEF Save, Prepared, TypeOK
    <2> QED BY <2>9, <2>10
  <1> QED BY <1>1, <1>2 DEF Serve

LEMMA TypesOfRuns ==
    ASSUME TypeInv, NEW u \in Sender, RunStep(u) \/ Crash(u)
    PROVE  TypeInv'
  <1> USE DEF TypeInv
  <1>1. spent["edits"] \in Nat /\ spent \in Counts /\ row.copy \in Copy
    BY DEF TypeOK, Counts, CampaignRow
  <1>2. ASSUME UNCHANGED request, spent'["edits"] = spent["edits"],
               run'[u] # Null /\ run'[u].pc \in {"gated", "drafted"} => run'[u].text \in Copy,
               \A v \in Sender \ {u} : run'[v] = run[v]
        PROVE  Prepared'
    BY <1>2 DEF Prepared
  <1>3. run[u] # Null => run[u] \in Runs BY DEF TypeOK
  <1>4. \A new \in {Null} \cup Runs :
          run' = [run EXCEPT ![u] = new] =>
            /\ run' \in [Sender -> {Null} \cup Runs] /\ run'[u] = new
            /\ \A v \in Sender \ {u} : run'[v] = run[v]
    BY DEF TypeOK
  <1>5. Fail(u) => run' = [run EXCEPT ![u] = Null] /\ aborted' \in BOOLEAN BY DEF Fail, Abort
  <1>6. CASE LoadRun(u)
    <2>1. PICK generate \in BOOLEAN : run' = [run EXCEPT ![u] =
            [pc |-> "loaded", generate |-> generate, under |-> row.copy, text |-> Null,
             todo |-> {}, cur |-> Null, skipped |-> {},
             first |-> TRUE, ok |-> FALSE, before |-> {}]]
      BY <1>6 DEF LoadRun
    <2> DEFINE new == [pc |-> "loaded", generate |-> generate, under |-> row.copy, text |-> Null,
             todo |-> {}, cur |-> Null, skipped |-> {},
             first |-> TRUE, ok |-> FALSE, before |-> {}]
    <2>2. new \in Runs /\ new.pc = "loaded" BY <1>1 DEF Runs
    <2> HIDE DEF new
    <2>3. run' = [run EXCEPT ![u] = new] BY <2>1 DEF new
    <2> QED BY <1>2, <1>4, <1>6, <2>2, <2>3 DEF LoadRun, TypeOK
  <1>7. CASE MarkRunning(u)
    <2>1. row' \in CampaignRow BY <1>7 DEF MarkRunning, TypeOK, CampaignRow, Status
    <2>2. Todo \in SUBSET Customer BY DEF Todo
    <2> DEFINE new == [run[u] EXCEPT !.pc = "next", !.todo = Todo, !.text = row.copy,
                                     !.before = optedOut]
    <2>3. new \in Runs /\ new.pc = "next" BY <1>1, <1>3, <1>7, <2>2 DEF MarkRunning, TypeOK, Runs
    <2>4. run' = [run EXCEPT ![u] = new] BY <1>7 DEF MarkRunning, TypeOK
    <2> HIDE DEF new
    <2> QED BY <1>2, <1>4, <1>7, <2>1, <2>3, <2>4 DEF MarkRunning, TypeOK
  <1>8. CASE Gate(u)
    <2>1. PICK c \in run[u].todo :
            IF recipients[c] = Gone /\ ~ run[u].first THEN Fail(u)
            ELSE /\ run' = IF Ineligible(c)
                        THEN [run EXCEPT ![u].todo = @ \ {c}, ![u].skipped = @ \cup {c}]
                        ELSE [run EXCEPT ![u].todo = @ \ {c}, ![u].cur = c,
                                         ![u].text = Text(u), ![u].pc = "gated"]
                 /\ UNCHANGED aborted
      BY <1>8 DEF Gate
    <2>2. c \in Customer /\ run[u] \in Runs /\ run[u].pc = "next" BY <1>3, <1>8 DEF Gate, Runs
    <2>3. Text(u) \in Copy BY <1>1, <2>2 DEF Text, Runs
    <2>4. PICK new \in {Null} \cup Runs :
            /\ run' = [run EXCEPT ![u] = new]
            /\ new # Null /\ new.pc \in {"gated", "drafted"} => new.text \in Copy
      <3>1. CASE Fail(u) BY <1>5, <3>1
      <3>2. CASE run' = [run EXCEPT ![u].todo = @ \ {c}, ![u].skipped = @ \cup {c}]
        <4> DEFINE skips == [run[u] EXCEPT !.todo = @ \ {c}, !.skipped = @ \cup {c}]
        <4>1. skips \in Runs /\ skips.pc = "next" BY <2>2 DEF Runs
        <4>2. run' = [run EXCEPT ![u] = skips] BY <3>2 DEF TypeOK
        <4> HIDE DEF skips
        <4> QED BY <4>1, <4>2
      <3>3. CASE run' = [run EXCEPT ![u].todo = @ \ {c}, ![u].cur = c,
                                    ![u].text = Text(u), ![u].pc = "gated"]
        <4> DEFINE text == Text(u)
                   takes == [run[u] EXCEPT !.todo = @ \ {c}, !.cur = c, !.text = text, !.pc = "gated"]
        <4>1. text \in Copy BY <2>3
        <4>2. run' = [run EXCEPT ![u] = takes] BY <3>3 DEF TypeOK
        <4> HIDE DEF text
        <4>3. takes \in Runs /\ takes.text \in Copy BY <2>2, <4>1 DEF Runs
        <4> HIDE DEF takes
        <4> QED BY <4>2, <4>3
      <3> QED BY <2>1, <3>1, <3>2, <3>3
    <2>5. aborted' \in BOOLEAN BY <1>5, <2>1 DEF TypeOK
    <2> QED BY <1>2, <1>4, <1>8, <2>4, <2>5 DEF Gate, TypeOK
  <1>9. CASE Draft(u)
    <2>1. run[u] \in Runs /\ run[u].text \in Copy BY <1>3, <1>9 DEF Draft, Prepared
    <2>2. PICK new \in {Null} \cup Runs :
            /\ run' = [run EXCEPT ![u] = new]
            /\ new # Null /\ new.pc \in {"gated", "drafted"} => new.text \in Copy
      <3>1. CASE Fail(u) BY <1>5, <3>1
      <3>2. CASE run' = [run EXCEPT ![u].pc = "drafted", ![u].skipped = {}, ![u].first = FALSE]
        <4> DEFINE has == [run[u] EXCEPT !.pc = "drafted", !.skipped = {}, !.first = FALSE]
        <4>1. has \in Runs /\ has.text \in Copy BY <2>1 DEF Runs
        <4>2. run' = [run EXCEPT ![u] = has] BY <3>2 DEF TypeOK
        <4> HIDE DEF has
        <4> QED BY <4>1, <4>2
      <3>3. CASE run' = [run EXCEPT ![u].pc = "sent", ![u].skipped = {}, ![u].first = FALSE,
                                    ![u].ok = FALSE]
        <4> DEFINE lacks == [run[u] EXCEPT !.pc = "sent", !.skipped = {}, !.first = FALSE, !.ok = FALSE]
        <4>1. lacks \in Runs /\ lacks.pc = "sent" BY <2>1 DEF Runs
        <4>2. run' = [run EXCEPT ![u] = lacks] BY <3>3 DEF TypeOK
        <4> HIDE DEF lacks
        <4> QED BY <4>1, <4>2
      <3> QED BY <1>9, <3>1, <3>2, <3>3 DEF Draft
    <2>3. recipients' \in Recipients
      BY <1>9 DEF Draft, Excluded, TypeOK, Recipients, RecipientStatus
    <2>4. aborted' \in BOOLEAN BY <1>5, <1>9 DEF Draft, TypeOK
    <2>5. spent' \in Counts /\ spent'["edits"] = spent["edits"]
      <3>1. CASE UNCHANGED spent BY <1>1, <3>1
      <3>2. CASE Spend("failures", MaxFailures) BY <1>1, <3>2 DEF Counts, Spend
      <3> QED BY <1>9, <3>1, <3>2 DEF Draft
    <2> QED BY <1>2, <1>4, <1>9, <2>2, <2>3, <2>4, <2>5 DEF Draft, TypeOK, Counts
  <1>10. CASE Send(u)
    <2>1. run[u] \in Runs /\ run[u].text \in Copy
      BY <1>3, <1>10 DEF Send, Prepared
    <2>2. PICK new \in {Null} \cup Runs :
            run' = [run EXCEPT ![u] = new] /\ (new # Null => new.pc = "sent")
      <3>1. CASE Fail(u) BY <1>5, <3>1
      <3>2. CASE ~ Fail(u)
        <4>1. PICK ok \in BOOLEAN : run' = [run EXCEPT ![u].pc = "sent", ![u].ok = ok]
          BY <1>10, <3>2 DEF Send
        <4> DEFINE gone == [run[u] EXCEPT !.pc = "sent", !.ok = ok]
        <4>2. gone \in Runs /\ gone.pc = "sent" BY <2>1 DEF Runs
        <4>3. run' = [run EXCEPT ![u] = gone] BY <4>1 DEF TypeOK
        <4> HIDE DEF gone
        <4> QED BY <4>2, <4>3
      <3> QED BY <3>1, <3>2
    <2>3. calls' \in [Customer -> Seq(Messages)]
      <3> DEFINE message == [body |-> Body(u), under |-> run[u].under]
      <3>1. message \in Messages BY <2>1 DEF Messages, Body, Runs
      <3>2. CASE Accept(u)
        <4>1. calls' = [calls EXCEPT ![run[u].cur] = Append(@, message)] BY <3>2 DEF Accept
        <4> HIDE DEF message
        <4>2. \A c \in Customer : Append(calls[c], message) \in Seq(Messages)
          BY <3>1, AppendProperties DEF TypeOK
        <4> QED BY <4>1, <4>2 DEF TypeOK
      <3>3. CASE UNCHANGED calls BY <3>3 DEF TypeOK
      <3> QED BY <1>10, <3>2, <3>3 DEF Send
    <2>4. spent' \in Counts /\ spent'["edits"] = spent["edits"]
      <3>1. CASE UNCHANGED spent BY <1>1, <3>1
      <3>2. CASE Spend("failures", MaxFailures) BY <1>1, <3>2 DEF Counts, Spend
      <3> QED BY <1>10, <3>1, <3>2 DEF Send
    <2>5. aborted' \in BOOLEAN BY <1>5, <1>10 DEF Send, TypeOK
    <2> QED BY <1>2, <1>4, <1>10, <2>2, <2>3, <2>4, <2>5 DEF Send, TypeOK, Counts
  <1>11. CASE CommitOne(u)
    <2>1. PICK new \in {Null} \cup Runs :
            run' = [run EXCEPT ![u] = new] /\ (new # Null => new.pc = "next")
      <3>1. CASE Fail(u) BY <1>5, <3>1
      <3>2. CASE ~ Fail(u)
        <4>1. run' = [run EXCEPT ![u].pc = "next", ![u].cur = Null, ![u].text = Null,
                                 ![u].skipped = {}, ![u].first = FALSE, ![u].ok = FALSE]
          BY <1>11, <3>2 DEF CommitOne
        <4> DEFINE over == [run[u] EXCEPT !.pc = "next", !.cur = Null, !.text = Null,
                                          !.skipped = {}, !.first = FALSE, !.ok = FALSE]
        <4>2. over \in Runs /\ over.pc = "next" BY <1>3, <1>11 DEF CommitOne, Runs
        <4>3. run' = [run EXCEPT ![u] = over] BY <4>1 DEF TypeOK
        <4> HIDE DEF over
        <4> QED BY <4>2, <4>3
      <3> QED BY <3>1, <3>2
    <2>2. recipients' \in Recipients
      <3>1. Recorded(u) \in Recipients
        BY DEF Recorded, TypeOK, Recipients, RecipientStatus
      <3> QED BY <1>11, <3>1 DEF CommitOne, TypeOK
    <2>3. aborted' \in BOOLEAN BY <1>5, <1>11 DEF CommitOne, TypeOK
    <2> QED BY <1>2, <1>4, <1>11, <2>1, <2>2, <2>3 DEF CommitOne, TypeOK
  <1>12. CASE Finish(u)
    <2>1. run' = [run EXCEPT ![u] = Null] /\ aborted' \in BOOLEAN
      BY <1>5, <1>12 DEF Finish, Abort, TypeOK
    <2>2. recipients' \in Recipients
      BY <1>12 DEF Finish, Recorded, TypeOK, Recipients, RecipientStatus
    <2>3. row' \in CampaignRow BY <1>12 DEF Finish, Completed, TypeOK, CampaignRow, Status
    <2> QED BY <1>2, <1>4, <1>12, <2>1, <2>2, <2>3 DEF Finish, TypeOK
  <1>13. CASE Crash(u)
    <2>1. run' = [run EXCEPT ![u] = Null] BY <1>13 DEF Crash, Abort
    <2>2. Spend("crashes", MaxCrashes) BY <1>13 DEF Crash
    <2>3. spent' \in Counts /\ spent'["edits"] = spent["edits"] BY <1>1, <2>2 DEF Counts, Spend
    <2> QED BY <1>2, <1>4, <1>13, <2>1, <2>3 DEF Crash, TypeOK, Counts
  <1> QED BY <1>6, <1>7, <1>8, <1>9, <1>10, <1>11, <1>12, <1>13 DEF RunStep, GoOn

LEMMA TypesKept == ASSUME TypeInv, [Next]_vars PROVE TypeInv'
  <1> USE DEF TypeInv
  <1>1. ASSUME NEW c \in Customer, OptOut(c) PROVE TypeInv'
    <2>1. Spend("optOuts", MaxOptOuts) BY <1>1 DEF OptOut
    <2>2. spent \in Counts BY DEF TypeOK, Counts
    <2>3. spent' \in Counts /\ spent'["edits"] = spent["edits"] BY <2>1, <2>2 DEF Counts, Spend
    <2>4. Prepared' BY <1>1, <2>3 DEF OptOut, Prepared
    <2> QED BY <1>1, <2>3, <2>4 DEF OptOut, TypeOK, Counts
  <1>2. CASE UNCHANGED vars BY <1>2 DEF vars, TypeOK, Prepared
  <1> QED BY <1>1, <1>2, TypesOfRequests, TypesOfRuns DEF Next, Idle

\* Every variable of the campaign keeps its type, however many requests and runs
\* cross.
THEOREM CampaignTyped == Spec => []TypeOK
  <1>1. Init => TypeInv BY TypesStart
  <1>2. TypeInv /\ [Next]_vars => TypeInv' BY TypesKept
  <1>3. TypeInv => TypeOK BY DEF TypeInv
  <1> QED BY <1>1, <1>2, <1>3, PTL DEF Spec

---------------------------------------------------------------------------
(* Consent. *)

\* Whoever a run found opted out still is, and is not the one it sends to.
Respected(u) == run[u] # Null =>
    /\ run[u].before \subseteq optedOut
    /\ run[u].pc \in {"gated", "drafted", "sent"} => run[u].cur \notin run[u].before

ConsentInv == TypeInv /\ \A u \in Sender : Respected(u)

LEMMA ConsentKept == ASSUME ConsentInv, [Next]_vars PROVE ConsentInv'
  <1> USE DEF ConsentInv
  <1>1. TypeInv' BY TypesKept
  <1>2. optedOut \subseteq optedOut'
    BY DEF Next, Serve, Load, Save, RunStep, LoadRun, GoOn, MarkRunning, Gate, Draft, Send, CommitOne, Finish,
           Crash, OptOut, Idle, vars
  <1>3. ASSUME UNCHANGED run PROVE \A u \in Sender : Respected(u)'
    BY <1>2, <1>3 DEF Respected
  <1>4. ASSUME NEW u \in Sender, RunStep(u) \/ Crash(u) PROVE \A v \in Sender : Respected(v)'
    <2>1. run[u] # Null => run[u] \in Runs BY DEF TypeInv, TypeOK, Runs
    <2>2. run \in [Sender -> {Null} \cup Runs] BY DEF TypeInv, TypeOK, Runs
    <2>3. \A v \in Sender \ {u} : run'[v] = run[v]
      BY <1>4, <2>2 DEF RunStep, GoOn, LoadRun, MarkRunning, Gate, Draft, Send, CommitOne, Finish, Crash, Fail, Abort
    <2>4. \A v \in Sender \ {u} : Respected(v)' BY <1>2, <2>3 DEF Respected
    <2>5. Respected(u)'
      <3>1. CASE LoadRun(u) BY <2>2, <3>1 DEF LoadRun, Respected
      <3>2. CASE MarkRunning(u) BY <2>1, <2>2, <3>2 DEF MarkRunning, Respected, Runs
      <3>3. CASE Gate(u)
        <4>1. PICK c \in run[u].todo :
                IF recipients[c] = Gone /\ ~ run[u].first THEN Fail(u)
                ELSE /\ run' = IF Ineligible(c)
                        THEN [run EXCEPT ![u].todo = @ \ {c}, ![u].skipped = @ \cup {c}]
                        ELSE [run EXCEPT ![u].todo = @ \ {c}, ![u].cur = c,
                                         ![u].text = Text(u), ![u].pc = "gated"]
                     /\ UNCHANGED aborted
          BY <3>3 DEF Gate
        <4>2. CASE Fail(u) BY <2>2, <4>2 DEF Fail, Abort, Respected
        <4>3. CASE run' = [run EXCEPT ![u].todo = @ \ {c}, ![u].skipped = @ \cup {c}]
          BY <1>2, <2>1, <2>2, <3>3, <4>3 DEF Gate, Respected, Runs
        <4>4. CASE ~ Ineligible(c) /\ run' = [run EXCEPT ![u].todo = @ \ {c}, ![u].cur = c,
                                                ![u].text = Text(u), ![u].pc = "gated"]
          BY <1>2, <2>1, <2>2, <3>3, <4>4 DEF Gate, Ineligible, Respected, Runs
        <4> QED BY <4>1, <4>2, <4>3, <4>4
      <3>4. CASE Draft(u)
        <4>1. CASE Fail(u) BY <2>2, <4>1 DEF Fail, Abort, Respected
        <4>2. CASE ~ Fail(u) BY <1>2, <2>1, <2>2, <3>4, <4>2 DEF Draft, Respected, Runs
        <4> QED BY <4>1, <4>2
      <3>5. CASE Send(u)
        <4>1. CASE Fail(u) BY <2>2, <4>1 DEF Fail, Abort, Respected
        <4>2. CASE ~ Fail(u)
          <5>1. PICK ok \in BOOLEAN : run' = [run EXCEPT ![u].pc = "sent", ![u].ok = ok]
            BY <3>5, <4>2 DEF Send
          <5> QED BY <1>2, <2>1, <2>2, <3>5, <5>1 DEF Send, Respected, Runs
        <4> QED BY <4>1, <4>2
      <3>6. CASE CommitOne(u) BY <1>2, <2>1, <2>2, <3>6 DEF CommitOne, Fail, Abort, Respected, Runs
      <3>7. CASE Finish(u) BY <2>2, <3>7 DEF Finish, Fail, Abort, Respected
      <3>8. CASE Crash(u) BY <2>2, <3>8 DEF Crash, Abort, Respected
      <3> QED BY <1>4, <3>1, <3>2, <3>3, <3>5, <3>6, <3>7, <3>8, <3>4 DEF RunStep, GoOn
    <2> QED BY <2>4, <2>5
  <1>5. (\E r \in Request : Serve(r)) \/ (\E c \in Customer : OptOut(c)) \/ UNCHANGED vars => UNCHANGED run
    BY DEF Serve, Load, Save, OptOut, vars
  <1> QED BY <1>1, <1>3, <1>4, <1>5 DEF Next, Idle

\* "Consent revoked after the snapshot is honoured": whoever had opted out when a
\* run read its recipients gets nothing from that run, whatever requests, other
\* runs and snapshots of the audience come in between.
THEOREM ConsentHonoured == Spec => []RevokedConsentHonoured
  <1>1. Init => ConsentInv BY TypesStart DEF Init, ConsentInv, Respected
  <1>2. ConsentInv /\ [Next]_vars => ConsentInv' BY ConsentKept
  <1>3. ConsentInv => RevokedConsentHonoured BY DEF ConsentInv, Respected, RevokedConsentHonoured
  <1> QED BY <1>1, <1>2, <1>3, PTL DEF Spec

---------------------------------------------------------------------------
(* Approval. *)

Good == approved \cap Passing

\* Statuses in which nobody relies on an approval.
Open == Editable \cup {"CANCELLED"}

\* While the copy may still change nobody sends it; while a run or a status
\* vouches for it, it is approved.
Closed ==
    /\ row.status \in Editable => \A u \in Sender : run[u] = Null
    /\ row.status \notin Open \/ (\E u \in Sender : run[u] # Null) => row.copy \in Good

\* A request that may change the copy has loaded the row as it is; the others have
\* loaded one that nobody can edit any more.
Fresh(r) == request[r] # Null =>
    LET read == request[r].read IN
    /\ request[r].op # "submit"
    /\ read.status \in Editable => row = read
    /\ read.status \notin Editable => row.status \notin Editable
    /\ read.status \notin Open => row.copy \in Good
    /\ read.copy = row.copy

\* A run was let through under the copy as it still is, and carries that one.
Carried(u) == run[u] # Null =>
    /\ run[u].under = row.copy /\ run[u].text \in {Null, row.copy}
    /\ run[u].pc \in {"gated", "drafted"} => run[u].text = row.copy

ApprovalInv ==
    /\ TypeInv /\ ApprovedCopySent /\ Closed
    /\ \A r \in Request : Fresh(r)
    /\ \A u \in Sender : Carried(u)

\* What is left of it once the types are known.
Sound ==
    /\ ApprovedCopySent /\ Closed
    /\ \A r \in Request : Fresh(r)
    /\ \A u \in Sender : Carried(u)

LEMMA ApprovalStarts == ASSUME Init PROVE ApprovalInv
  <1>1. ApprovedCopySent BY DEF Init, ApprovedCopySent
  <1>2. Closed BY DEF Init, Closed, Open, Editable
  <1>3. (\A r \in Request : Fresh(r)) /\ (\A u \in Sender : Carried(u)) BY DEF Init, Fresh, Carried
  <1> QED BY <1>1, <1>2, <1>3, TypesStart DEF ApprovalInv

LEMMA LoadKeepsApproval ==
    ASSUME ApprovalInv, OneByOne, NEW r \in Request, NEW op \in Ops, Load(r, op)
    PROVE  Sound'
  <1> USE DEF ApprovalInv
  <1> DEFINE loaded == [op |-> op, read |-> row, new |-> spent["edits"] + 1,
                        seen |-> IF op = "snapshot" THEN recipients ELSE Null]
  <1>1. request' = [q \in Request |-> loaded] BY DEF Load, OneByOne, TypeInv, TypeOK
  <1>2. \A q \in Request : Fresh(q)' BY <1>1 DEF Load, OneByOne, Fresh, Closed, Good
  <1> QED BY <1>2 DEF Load, Sound, ApprovedCopySent, Closed, Carried, Good

\* What a request leaves of the row it loaded, when nobody else has touched it.
LEMMA OutcomeOfOpen ==
    ASSUME NEW op \in Operations \ {"submit"}, NEW read \in CampaignRow, NEW new, read.status \in Editable
    PROVE  LET left == Outcome(op, read, new) IN
           \/ left.status \in Open
           \/ /\ op = "approve" /\ left.status = "APPROVED"
              /\ left.copy = read.copy /\ read.copy \in Passing
  BY DEF Operations, Outcome, Checked, Approved, MayApprove, Edited, Paused, Cancelled, Scheduled,
         CampaignRow, Status, Editable, Open

\* And when the row could not be edited any more.
LEMMA OutcomeOfClosed ==
    ASSUME NEW op \in Operations \ {"submit"}, NEW read \in CampaignRow, NEW new, read.status \notin Editable
    PROVE  LET left == Outcome(op, read, new) IN
           /\ left.copy = read.copy
           /\ left.status = read.status \/ left.status = "CANCELLED"
              \/ (left.status \notin Editable /\ read.status \notin Open)
           /\ op = "approve" => left.status = read.status
  BY DEF Operations, Outcome, Checked, Approved, MayApprove, Edited, Paused, Cancelled, Scheduled,
         CampaignRow, Status, Editable, Open

LEMMA SaveKeepsApproval ==
    ASSUME ApprovalInv, OneByOne, NEW r \in Request, Save(r)
    PROVE  Sound'
  <1> USE DEF ApprovalInv
  <1> DEFINE op == request[r].op
             read == request[r].read
             left == Outcome(op, read, request[r].new)
  <1>1. request' = [q \in Request |-> Null] BY DEF Save, OneByOne, TypeInv, TypeOK
  <1>2. \A q \in Request : Fresh(q)' BY <1>1 DEF Fresh
  <1>3. request[r] \in Loaded /\ row \in CampaignRow /\ request[r] # Null BY DEF Save, TypeInv, TypeOK
  <1>4. op \in Operations \ {"submit"} /\ read \in CampaignRow
    BY <1>3, Bounds DEF Loaded, OneByOne
  <1>5. op = "edit" => request[r].new \in Copy BY <1>3 DEF TypeInv, Prepared
  <1>6. left \in CampaignRow BY <1>4, <1>5, OutcomeTyped
  <1>7. /\ row'.status = IF left.status # read.status THEN left.status ELSE row.status
        /\ row'.copy = IF left.copy # read.copy THEN left.copy ELSE row.copy
        /\ row' \in CampaignRow
    <2>1. row' = Flush(read, left) BY <1>4 DEF Save, Saved
    <2> QED BY <1>3, <1>4, <1>6, <2>1, FlushedRow
  <1>8. /\ approved \subseteq approved' /\ UNCHANGED <<run, calls>>
        /\ op = "approve" /\ left.status = "APPROVED" /\ read.status # "APPROVED" => read.copy \in approved'
    BY DEF Save
  <1>9. ApprovedCopySent' BY <1>8 DEF ApprovedCopySent
  <1>10. CASE read.status \in Editable
    <2>1. row = read BY <1>3, <1>10 DEF Fresh
    <2>2. \A u \in Sender : run'[u] = Null BY <1>8, <1>10, <2>1 DEF Closed
    <2>3. row'.status = left.status /\ row'.copy = left.copy BY <1>7, <2>1
    <2>4. \A u \in Sender : Carried(u)' BY <2>2 DEF Carried
    <2>5. row'.status \notin Open => row'.copy \in Good'
      <3>1. read.status # "APPROVED" BY <1>10 DEF Editable
      <3> QED BY <1>4, <1>8, <1>10, <2>3, <3>1, OutcomeOfOpen DEF Good
    <2> QED BY <1>2, <1>9, <2>2, <2>5, <2>4 DEF Closed, Sound
  <1>11. CASE read.status \notin Editable
    <2>1. /\ left.copy = read.copy
          /\ left.status = read.status \/ left.status = "CANCELLED"
             \/ (left.status \notin Editable /\ read.status \notin Open)
      BY <1>4, <1>11, OutcomeOfClosed
    <2>2. row.status \notin Editable /\ (read.status \notin Open => row.copy \in Good)
      BY <1>3, <1>11 DEF Fresh
    <2>3. row'.copy = row.copy /\ row'.status \notin Editable
      BY <1>7, <2>1, <2>2 DEF Editable
    <2>4. row'.status \notin Open \/ (\E u \in Sender : run'[u] # Null) => row'.copy \in Good'
      <3>1. ASSUME row'.status \notin Open PROVE row.copy \in Good
        <4>1. CASE left.status = read.status BY <1>7, <3>1, <4>1 DEF Closed
        <4>2. CASE left.status # read.status BY <1>7, <2>1, <2>2, <3>1, <4>2 DEF Open
        <4> QED BY <4>1, <4>2
      <3>2. ASSUME \E u \in Sender : run'[u] # Null PROVE row.copy \in Good
        BY <1>8, <3>2 DEF Closed
      <3> QED BY <1>8, <2>3, <3>1, <3>2 DEF Good
    <2>5. \A u \in Sender : Carried(u)' BY <1>8, <2>3 DEF Carried
    <2> QED BY <1>2, <1>9, <2>3, <2>4, <2>5 DEF Closed, Sound
  <1> QED BY <1>10, <1>11

LEMMA RunsKeepApproval ==
    ASSUME ApprovalInv, NEW u \in Sender, RunStep(u) \/ Crash(u)
    PROVE  Sound'
  <1> USE DEF ApprovalInv
  <1>1. UNCHANGED <<request, approved>>
    BY DEF RunStep, GoOn, LoadRun, MarkRunning, Gate, Draft, Send, CommitOne, Finish, Crash
  <1>2. /\ row \in CampaignRow /\ row' \in CampaignRow /\ row'.copy = row.copy
        /\ row'.status \in {row.status, "RUNNING", "COMPLETED"}
    BY DEF RunStep, GoOn, LoadRun, MarkRunning, Gate, Draft, Send, CommitOne, Finish, Completed, Crash,
           TypeInv, TypeOK, CampaignRow, Status
  <1>3. /\ row.status \notin Editable
        /\ row.copy \in Good
    <2>1. CASE LoadRun(u) BY <2>1 DEF LoadRun, Sendable, Closed, Open, Editable
    <2>2. CASE ~ LoadRun(u)
      <3>1. run[u] # Null BY <2>2 DEF RunStep, GoOn, MarkRunning, Gate, Draft, Send, CommitOne, Finish, Crash
      <3> QED BY <3>1 DEF Closed
    <2> QED BY <2>1, <2>2
  <1>4. Closed' BY <1>1, <1>2, <1>3 DEF Closed, Good, Editable
  <1>5. \A q \in Request : Fresh(q)' BY <1>1, <1>2, <1>3 DEF Fresh, Good, Editable
  <1>6. ApprovedCopySent'
    <2>1. CASE UNCHANGED calls BY <1>1, <2>1 DEF ApprovedCopySent
    <2>2. CASE Send(u) /\ Accept(u)
      <3> DEFINE message == [body |-> Body(u), under |-> run[u].under]
      <3>1. /\ message \in Messages
            /\ message.under \in Good /\ message.body \in {message.under, Drafted}
        <4>1. run[u] \in Runs /\ run[u].under = row.copy
          BY <2>2 DEF Send, Carried, TypeInv, TypeOK
        <4>2. ~ run[u].generate => run[u].text = row.copy
          BY <2>2 DEF Send, Carried
        <4> QED BY <1>2, <1>3, <4>1, <4>2 DEF Messages, Body, CampaignRow
      <3>2. calls' = [calls EXCEPT ![run[u].cur] = Append(@, message)] BY <2>2 DEF Accept
      <3> HIDE DEF message
      <3> SUFFICES ASSUME NEW c \in Customer, NEW i \in 1 .. Len(calls'[c])
                   PROVE  calls'[c][i].under \in Good /\ calls'[c][i].body \in {calls'[c][i].under, Drafted}
        BY <1>1 DEF ApprovedCopySent, Good
      <3>3. calls[c] \in Seq(Messages) BY DEF TypeInv, TypeOK
      <3>4. calls'[c] \in {calls[c], Append(calls[c], message)} BY <3>2 DEF TypeInv, TypeOK
      <3>5. CASE calls'[c] = calls[c] BY <3>5 DEF ApprovedCopySent, Good
      <3>6. CASE calls'[c] = Append(calls[c], message)
        <4>1. i \in 1 .. Len(calls[c]) \/ i = Len(calls[c]) + 1 BY <3>1, <3>3, <3>6, AppendProperties
        <4>2. CASE i = Len(calls[c]) + 1
          <5>1. calls'[c][i] = message BY <3>1, <3>3, <3>6, <4>2, AppendProperties
          <5> QED BY <3>1, <5>1
        <4>3. CASE i \in 1 .. Len(calls[c])
          <5>1. calls'[c][i] = calls[c][i] BY <3>1, <3>3, <3>6, <4>3, AppendProperties
          <5> QED BY <4>3, <5>1 DEF ApprovedCopySent, Good
        <4> QED BY <4>1, <4>2, <4>3
      <3> QED BY <3>4, <3>5, <3>6
    <2> QED BY <2>1, <2>2 DEF RunStep, GoOn, LoadRun, MarkRunning, Gate, Draft, Send, CommitOne, Finish, Crash
  <1>7. \A v \in Sender : Carried(v)'
    <2>1. run \in [Sender -> {Null} \cup Runs] BY DEF TypeInv, TypeOK
    <2>2. \A v \in Sender \ {u} : run'[v] = run[v]
      BY <2>1 DEF RunStep, GoOn, LoadRun, MarkRunning, Gate, Draft, Send, CommitOne, Finish, Crash, Fail, Abort
    <2>3. Carried(u)'
      <3>1. run[u] # Null => run[u] \in Runs BY <2>1
      <3>2. CASE Abort(u) BY <2>1, <3>2 DEF Abort, Carried
      <3>3. CASE LoadRun(u)
        <4>1. PICK generate \in BOOLEAN : run' = [run EXCEPT ![u] =
                [pc |-> "loaded", generate |-> generate, under |-> row.copy, text |-> Null,
                 todo |-> {}, cur |-> Null, skipped |-> {},
                 first |-> TRUE, ok |-> FALSE, before |-> {}]]
          BY <3>3 DEF LoadRun
        <4> QED BY <1>2, <2>1, <4>1 DEF Carried
      <3>4. CASE MarkRunning(u) BY <1>2, <2>1, <3>1, <3>4 DEF MarkRunning, Carried, Runs
      <3>5. CASE Gate(u) /\ ~ Abort(u)
        <4>1. PICK c \in run[u].todo :
                \/ run' = [run EXCEPT ![u].todo = @ \ {c}, ![u].skipped = @ \cup {c}]
                \/ run' = [run EXCEPT ![u].todo = @ \ {c}, ![u].cur = c,
                                      ![u].text = Text(u), ![u].pc = "gated"]
          BY <3>5 DEF Gate, Fail
        <4>2. run[u] \in Runs /\ run[u].pc = "next" BY <3>1, <3>5 DEF Gate
        <4>3. Text(u) = row.copy BY <3>5 DEF Gate, Text, Carried
        <4>4. CASE run' = [run EXCEPT ![u].todo = @ \ {c}, ![u].skipped = @ \cup {c}]
          <5>1. /\ run'[u].under = run[u].under /\ run'[u].text = run[u].text
                /\ run'[u].pc = run[u].pc
            BY <2>1, <4>2, <4>4 DEF Runs
          <5> QED BY <1>2, <3>5, <5>1 DEF Gate, Carried
        <4>5. CASE run' = [run EXCEPT ![u].todo = @ \ {c}, ![u].cur = c,
                                      ![u].text = Text(u), ![u].pc = "gated"]
          BY <1>2, <2>1, <4>2, <4>3, <4>5 DEF Carried, Runs
        <4> QED BY <4>1, <4>4, <4>5
      <3>6. CASE Draft(u) /\ ~ Abort(u)
        BY <1>2, <2>1, <3>1, <3>6 DEF Draft, Fail, Carried, Runs
      <3>7. CASE Send(u) /\ ~ Abort(u)
        <4>1. PICK ok \in BOOLEAN : run' = [run EXCEPT ![u].pc = "sent", ![u].ok = ok]
          BY <3>7 DEF Send, Fail
        <4> QED BY <1>2, <2>1, <3>1, <3>7, <4>1 DEF Send, Carried, Runs
      <3>8. CASE CommitOne(u) /\ ~ Abort(u)
        BY <1>2, <2>1, <3>1, <3>8 DEF CommitOne, Fail, Carried, Runs
      <3> QED BY <3>2, <3>3, <3>4, <3>5, <3>6, <3>7, <3>8 DEF RunStep, GoOn, Finish, Fail, Crash
    <2> QED BY <1>2, <2>2, <2>3 DEF Carried
  <1> QED BY <1>4, <1>5, <1>6, <1>7 DEF Sound

LEMMA ApprovalKept == ASSUME ApprovalInv, OneByOne, [Next]_vars PROVE ApprovalInv'
  <1>1. TypeInv' BY TypesKept DEF ApprovalInv
  <1>2. ASSUME NEW c \in Customer, OptOut(c)
        PROVE  Sound'
    BY <1>2 DEF OptOut, ApprovalInv, Sound, ApprovedCopySent, Closed, Fresh, Carried, Good
  <1>3. CASE UNCHANGED vars
    BY <1>1, <1>3 DEF vars, ApprovalInv, ApprovedCopySent, Closed, Fresh, Carried, Good
  <1> QED BY <1>1, <1>2, <1>3, LoadKeepsApproval, SaveKeepsApproval, RunsKeepApproval
          DEF Next, Serve, Idle, ApprovalInv, Sound

\* "No campaign can send without an explicit human approval action"
\* (docs/compliance.md:132): with one request at a time, and no campaign submitted
\* again, each message that goes out was approved and had passed the check, however
\* many senders run the campaign.
THEOREM OnlyApprovedCopyIsSent == ASSUME OneByOne PROVE Spec => []ApprovedCopySent
  <1>1. Init => ApprovalInv BY ApprovalStarts
  <1>2. ApprovalInv /\ [Next]_vars => ApprovalInv' BY ApprovalKept
  <1>3. ApprovalInv => ApprovedCopySent BY DEF ApprovalInv
  <1> QED BY <1>1, <1>2, <1>3, PTL DEF Spec

---------------------------------------------------------------------------
(* Once per customer.  A run takes up ELIGIBLE customers only and turns each *)
(* one it has sent to into SENT or FAILED, which no snapshot changes back,   *)
(* provided no snapshot that read the recipients before is still under way.  *)

\* One thread at a time runs the campaign.
Alone == \A u, v \in Sender : run[u] # Null /\ run[v] # Null => u = v

\* An idle thread is neither a run nor the name of a customer.
Named == Null \notin Customer \cup Runs

\* No audience is taken while a run goes on.
Apart == \A r \in Request, u \in Sender :
    request[r] # Null /\ request[r].op = "snapshot" => run[u] = Null

\* The provider may have the message of c, and its row does not say so yet.
Handed(c) == \E u \in Sender : run[u] # Null /\ run[u].pc = "sent" /\ run[u].cur = c

Done(c) == recipients[c] \in Frozen \/ Handed(c)

\* Whoever a run may still take up has only what lost runs have sent.
OnceEach == \A c \in Customer :
    Len(calls[c]) <= spent["crashes"] + IF Done(c) THEN 1 ELSE 0

Undecided(u) == run[u].todo \cup run[u].skipped \cup ({run[u].cur} \ {Null})

Working(u) == run[u] # Null =>
    /\ \A c \in Undecided(u) : recipients[c] = "ELIGIBLE"
    /\ run[u].cur \notin run[u].todo \cup run[u].skipped
    /\ run[u].todo \cap run[u].skipped = {}
    /\ run[u].pc \in {"gated", "drafted", "sent"} <=> run[u].cur # Null
    /\ run[u].pc = "loaded" => run[u].skipped = {}

\* A snapshot knows who has been dealt with.
Aware(r) == request[r] # Null /\ request[r].op = "snapshot" =>
    \A c \in Customer : recipients[c] \in Frozen => request[r].seen[c] \in Frozen

OnceInv ==
    /\ TypeInv /\ OnceEach /\ spent["crashes"] <= MaxCrashes
    /\ \A u \in Sender : Working(u)
    /\ \A r \in Request : Aware(r)

LEMMA Numbers ==
    ASSUME TypeInv
    PROVE  /\ spent["crashes"] \in Nat
           /\ \A c \in Customer : Len(calls[c]) \in Nat
           /\ \A u \in Sender : run[u] \in {Null} \cup Runs
  BY LenProperties DEF TypeInv, TypeOK

\* A step that sends nothing and takes nobody back keeps the count.
LEMMA OnceEachKept ==
    ASSUME TypeInv, OnceEach, UNCHANGED calls, spent'["crashes"] = spent["crashes"],
           \A c \in Customer : Done(c) => Done(c)'
    PROVE  OnceEach'
  BY Numbers DEF OnceEach

LEMMA LoadOnce ==
    ASSUME OnceInv, NEW r \in Request, NEW op \in Ops, Load(r, op)
    PROVE  OnceInv'
  <1> USE DEF OnceInv
  <1>1. /\ UNCHANGED <<row, recipients, optedOut, run, calls, approved>>
        /\ \A q \in Request \ {r} : request'[q] = request[q]
        /\ request'[r].op = "snapshot" => request'[r].seen = recipients
    BY DEF Load, TypeInv, TypeOK
  <1>2. spent'["crashes"] = spent["crashes"]
    BY DEF Load, Bound, Spend, TypeInv, TypeOK
  <1>3. TypeInv'
    BY TypesKept DEF Next, Serve
  <1>4. OnceEach'
    BY <1>1, <1>2, OnceEachKept DEF Done, Handed
  <1>5. \A q \in Request : Aware(q)'
    BY <1>1 DEF Aware
  <1> QED
    BY <1>1, <1>2, <1>3, <1>4, <1>5 DEF Working, Undecided

\* A snapshot leaves alone whom it has seen dealt with, and deals with nobody.
LEMMA SnapshotOnce ==
    ASSUME OnceInv, NEW r \in Request, request[r] # Null, request[r].op = "snapshot",
           SaveRecipients(request[r].seen)
    PROVE  \A c \in Customer :
             recipients'[c] \in Frozen <=> recipients[c] \in Frozen
  <1> DEFINE seen == request[r].seen
  <1>1. PICK audience \in SUBSET Customer :
          LET new == [c \in Customer |-> Snapshot(seen, audience, c)] IN
          recipients' =
            IF Conflict(seen, new) THEN recipients
            ELSE [c \in Customer |->
                    IF new[c] # seen[c] THEN new[c] ELSE recipients[c]]
    BY DEF SaveRecipients
  <1>2. \A c \in Customer : recipients'[c] \in {recipients[c], Snapshot(seen, audience, c)}
    BY <1>1
  <1>3. \A c \in Customer : Snapshot(seen, audience, c) = seen[c] => recipients'[c] = recipients[c]
    BY <1>1
  <1>4. \A c \in Customer :
          IF seen[c] \in Frozen THEN Snapshot(seen, audience, c) = seen[c]
          ELSE Snapshot(seen, audience, c) \notin Frozen
    BY DEF Snapshot, Frozen, Gone
  <1>5. \A c \in Customer : recipients[c] \in Frozen => seen[c] \in Frozen
    BY DEF OnceInv, Aware
  <1> HIDE DEF seen
  <1> QED
    BY <1>2, <1>3, <1>4, <1>5

LEMMA SaveOnce ==
    ASSUME OnceInv, Apart, NEW r \in Request, Save(r) PROVE OnceInv'
  <1> USE DEF OnceInv
  <1>1. /\ UNCHANGED <<run, calls, spent>> /\ request[r] # Null
        /\ request' = [request EXCEPT ![r] = Null]
        /\ IF request[r].op = "snapshot" THEN SaveRecipients(request[r].seen)
           ELSE UNCHANGED recipients
    BY DEF Save
  <1>2. TypeInv'
    BY TypesKept DEF Next, Serve
  <1>3. \A c \in Customer : recipients'[c] \in Frozen <=> recipients[c] \in Frozen
    BY <1>1, SnapshotOnce
  <1>4. OnceEach'
    BY <1>1, <1>3, OnceEachKept DEF Done, Handed
  <1>5. \A q \in Request : Aware(q)'
    BY <1>1, <1>3 DEF Aware, TypeInv, TypeOK
  <1>6. \A u \in Sender : Working(u)'
    <2>1. CASE request[r].op = "snapshot"
      BY <1>1, <2>1 DEF Apart, Working
    <2>2. CASE request[r].op # "snapshot"
      BY <1>1, <2>2 DEF Working, Undecided
    <2> QED
      BY <2>1, <2>2
  <1> QED
    BY <1>1, <1>2, <1>4, <1>5, <1>6

LEMMA SendOnce ==
    ASSUME OnceInv, Alone, Named, NEW u \in Sender, Send(u)
    PROVE  OnceInv'
  <1> USE DEF OnceInv
  <1>1. /\ run[u] \in Runs /\ run[u].pc \in {"gated", "drafted"} /\ run[u] # Null
        /\ UNCHANGED <<recipients, request>>
        /\ \A v \in Sender : v # u => run[v] = Null
    BY Numbers DEF Send, Alone
  <1>2. PICK d \in Customer : run[u].cur = d /\ recipients[d] = "ELIGIBLE"
    <2>1. run[u].cur # Null /\ run[u].cur \in Customer
      BY <1>1 DEF Working, Runs
    <2> QED
      BY <1>1, <2>1 DEF Working, Undecided
  <1>3. /\ Accept(u) \/ UNCHANGED calls
        /\ run'[u] # Null /\ run'[u].pc = "sent" /\ run'[u].cur = run[u].cur
        /\ run'[u].todo = run[u].todo /\ run'[u].skipped = run[u].skipped
        /\ \A v \in Sender : v # u => run'[v] = Null
    <2>1. run \in [Sender -> {Null} \cup Runs]
      BY DEF TypeInv, TypeOK
    <2>2. PICK ok \in BOOLEAN : run' = [run EXCEPT ![u].pc = "sent", ![u].ok = ok]
      BY <1>2 DEF Send, Gone
    <2>3. run'[u] \in Runs /\ run'[u] = [run[u] EXCEPT !.pc = "sent", !.ok = ok]
      BY <1>1, <2>1, <2>2 DEF Runs
    <2>4. run'[u] # Null
      BY <2>3 DEF Named
    <2>5. Accept(u) \/ UNCHANGED calls
      BY <1>2 DEF Send, Gone
    <2> QED
      BY <1>1, <2>1, <2>2, <2>3, <2>4, <2>5 DEF Runs
  <1>4. spent'["crashes"] = spent["crashes"]
    BY DEF Send, Spend, TypeInv, TypeOK
  <1>5. ~ Done(d) /\ Done(d)' /\ \A c \in Customer : Done(c) => Done(c)'
    BY <1>1, <1>2, <1>3 DEF Done, Handed, Frozen
  <1>6. OnceEach'
    <2> SUFFICES ASSUME NEW c \in Customer
                 PROVE  Len(calls'[c]) <= spent["crashes"] + IF Done(c)' THEN 1 ELSE 0
      BY <1>4 DEF OnceEach
    <2>1. Len(calls[c]) <= spent["crashes"] + IF Done(c) THEN 1 ELSE 0
      BY DEF OnceEach
    <2>2. Len(calls[c]) \in Nat /\ spent["crashes"] \in Nat
      BY Numbers
    <2>3. CASE c = d
      <3>1. Len(calls'[d]) <= Len(calls[d]) + 1
        <4>1. calls[d] \in Seq(Messages)
          BY <1>2 DEF TypeInv, TypeOK
        <4>2. CASE Accept(u)
          <5>1. calls'[d] = Append(calls[d], [body |-> Body(u), under |-> run[u].under])
            BY <1>2, <4>2 DEF Accept, TypeInv, TypeOK
          <5> QED
            BY <4>1, <5>1
        <4>3. CASE UNCHANGED calls
          BY <2>2, <2>3, <4>3
        <4> QED
          BY <1>3, <4>2, <4>3
      <3>2. Len(calls'[d]) \in Nat
        BY <1>2, TypesKept, LenProperties DEF Next, RunStep, GoOn, TypeInv, TypeOK
      <3>3. ~ Done(c) /\ Done(c)' /\ Len(calls'[c]) <= Len(calls[c]) + 1 /\ Len(calls'[c]) \in Nat
        <4>1. ~ Done(d) /\ Done(d)'
          BY <1>5
        <4> QED
          BY <2>3, <3>1, <3>2, <4>1
      <3> QED
        BY <2>1, <2>2, <3>3
    <2>4. CASE c # d
      <3>1. calls'[c] = calls[c]
        BY <1>2, <1>3, <2>4 DEF Accept, TypeInv, TypeOK
      <3> QED
        BY <1>5, <2>1, <2>2, <3>1
    <2> QED
      BY <2>3, <2>4
  <1>7. TypeInv'
    BY TypesKept DEF Next, RunStep, GoOn
  <1>8. \A v \in Sender : Working(v)'
    BY <1>1, <1>2, <1>3 DEF Working, Undecided
  <1> QED
    BY <1>1, <1>4, <1>6, <1>7, <1>8 DEF Aware

LEMMA GateOnce ==
    ASSUME OnceInv, Alone, Named, NEW u \in Sender, Gate(u)
    PROVE  OnceInv'
  <1> USE DEF OnceInv
  <1>1. /\ run[u] \in Runs /\ run[u] # Null /\ run[u].pc = "next"
        /\ UNCHANGED <<recipients, request, calls, spent>>
        /\ \A v \in Sender : v # u => run[v] = Null
    BY Numbers DEF Gate, Alone
  <1>2. PICK c \in run[u].todo :
          \/ run' = [run EXCEPT ![u].todo = @ \ {c}, ![u].skipped = @ \cup {c}]
          \/ run' = [run EXCEPT ![u].todo = @ \ {c}, ![u].cur = c, ![u].text = Text(u), ![u].pc = "gated"]
    <2>1. \A c \in run[u].todo : recipients[c] # Gone
      BY <1>1 DEF Working, Undecided, Gone
    <2> QED
      BY <2>1 DEF Gate
  <1>3. c \in Customer /\ run[u].cur = Null /\ recipients[c] = "ELIGIBLE"
    BY <1>1, <1>2 DEF Working, Undecided, Runs
  <1>4. Working(u)'
    <2>1. CASE run' = [run EXCEPT ![u].todo = @ \ {c}, ![u].skipped = @ \cup {c}]
      <3>1. /\ run'[u].todo = run[u].todo \ {c} /\ run'[u].skipped = run[u].skipped \cup {c}
            /\ run'[u].cur = Null /\ run'[u].pc = "next"
        BY <1>1, <1>3, <2>1 DEF Runs, TypeInv, TypeOK
      <3>2. Null \notin run[u].todo \cup run[u].skipped
        BY <1>1 DEF Runs, Named
      <3> QED
        BY <1>1, <1>2, <1>3, <3>1, <3>2 DEF Working, Undecided
    <2>2. CASE run' = [run EXCEPT ![u].todo = @ \ {c}, ![u].cur = c, ![u].text = Text(u), ![u].pc = "gated"]
      <3>1. /\ run'[u].todo = run[u].todo \ {c} /\ run'[u].skipped = run[u].skipped
            /\ run'[u].cur = c /\ run'[u].pc = "gated"
        BY <1>1, <2>2 DEF Runs, TypeInv, TypeOK
      <3>2. c \notin run[u].skipped
        BY <1>1, <1>2 DEF Working
      <3> QED
        BY <1>1, <1>2, <1>3, <3>1, <3>2 DEF Working, Undecided
    <2> QED
      BY <1>2, <2>1, <2>2
  <1>5. \A v \in Sender : Working(v)'
    <2>1. \A v \in Sender : v # u => run'[v] = Null
      BY <1>1, <1>2 DEF TypeInv, TypeOK
    <2> QED
      BY <1>4, <2>1 DEF Working
  <1>6. OnceEach'
    <2>1. \A d \in Customer : Done(d) => Done(d)'
      BY <1>1 DEF Done, Handed
    <2> QED
      BY <1>1, <2>1, OnceEachKept
  <1>7. TypeInv'
    BY TypesKept DEF Next, RunStep, GoOn
  <1> QED
    BY <1>1, <1>5, <1>6, <1>7 DEF Aware

\* A draft leaves whom the run has yet to decide on alone.
LEMMA DraftOnce ==
    ASSUME OnceInv, Alone, Named, NEW u \in Sender, Draft(u)
    PROVE  OnceInv'
  <1> USE DEF OnceInv
  <1>1. /\ run[u] \in Runs /\ run[u] # Null /\ run[u].pc = "gated"
        /\ UNCHANGED <<request, calls>>
        /\ \A v \in Sender : v # u => run[v] = Null
    BY Numbers DEF Draft, Alone
  <1>2. ~ SkippedGone(u)
    BY <1>1 DEF SkippedGone, Working, Undecided, Gone
  <1>3. recipients' = Excluded(u) /\ spent'["crashes"] = spent["crashes"]
    BY <1>2 DEF Draft, Spend, TypeInv, TypeOK
  <1>4. /\ run'[u].pc \in {"drafted", "sent"} /\ run'[u].cur = run[u].cur
        /\ run'[u].todo = run[u].todo /\ run'[u].skipped = {}
        /\ \A v \in Sender : v # u => run'[v] = Null
    <2>1. PICK pc \in {"drafted", "sent"}, ok \in BOOLEAN :
            run' = [run EXCEPT ![u] = [run[u] EXCEPT !.pc = pc, !.skipped = {}, !.first = FALSE, !.ok = ok]]
      <3>1. CASE run' = [run EXCEPT ![u].pc = "drafted", ![u].skipped = {}, ![u].first = FALSE]
        <4>1. run' = [run EXCEPT ![u] = [run[u] EXCEPT !.pc = "drafted", !.skipped = {}, !.first = FALSE, !.ok = run[u].ok]]
          <5>1. [run[u] EXCEPT !.pc = "drafted", !.skipped = {}, !.first = FALSE]
                  = [run[u] EXCEPT !.pc = "drafted", !.skipped = {}, !.first = FALSE, !.ok = run[u].ok]
            BY <1>1 DEF Runs
          <5>2. run' = [run EXCEPT ![u] = [run[u] EXCEPT !.pc = "drafted", !.skipped = {}, !.first = FALSE]]
            BY <3>1 DEF TypeInv, TypeOK
          <5> QED
            BY <5>1, <5>2
        <4>2. run[u].ok \in BOOLEAN
          BY <1>1 DEF Runs
        <4> QED
          BY <4>1, <4>2
      <3>2. CASE run' = [run EXCEPT ![u].pc = "sent", ![u].skipped = {}, ![u].first = FALSE, ![u].ok = FALSE]
        <4>1. run' = [run EXCEPT ![u] = [run[u] EXCEPT !.pc = "sent", !.skipped = {}, !.first = FALSE, !.ok = FALSE]]
          BY <3>2 DEF TypeInv, TypeOK
        <4> QED
          BY <4>1
      <3> QED
        BY <1>2, <3>1, <3>2 DEF Draft
    <2> QED
      BY <1>1, <2>1 DEF Runs, TypeInv, TypeOK
  <1>5. PICK d \in Customer : run[u].cur = d /\ d \notin run[u].skipped
    BY <1>1 DEF Working, Runs
  <1>6. \A v \in Sender : Working(v)'
    <2>1. \A c \in run[u].todo \cup {d} : recipients'[c] = "ELIGIBLE"
      BY <1>1, <1>3, <1>5 DEF Excluded, Working, Undecided, Runs, Named
    <2>2. d # Null /\ d \notin run[u].todo
      BY <1>1, <1>5 DEF Working, Named
    <2>3. Working(u)'
      BY <1>4, <1>5, <2>1, <2>2 DEF Working, Undecided
    <2> QED
      BY <1>4, <2>3 DEF Working
  <1>7. \A c \in Customer : recipients'[c] \in Frozen <=> recipients[c] \in Frozen
    BY <1>1, <1>3 DEF Excluded, Frozen, Working, Undecided, Runs, Named
  <1>8. OnceEach'
    <2>1. \A c \in Customer : Done(c) => Done(c)'
      BY <1>1, <1>7 DEF Done, Handed
    <2> QED
      BY <1>1, <1>3, <2>1, OnceEachKept
  <1>9. TypeInv'
    BY TypesKept DEF Next, RunStep, GoOn
  <1> QED
    BY <1>1, <1>3, <1>6, <1>7, <1>8, <1>9 DEF Aware

\* The recipients a run writes are those it decided on.
LEMMA CommitOnce ==
    ASSUME OnceInv, Apart, Alone, Named, NEW u \in Sender,
           CommitOne(u) \/ Finish(u)
    PROVE  OnceInv'
  <1> USE DEF OnceInv
  <1>1. /\ run[u] \in Runs /\ run[u] # Null /\ UNCHANGED <<request, calls, spent>>
        /\ \A v \in Sender : v # u => run[v] = Null /\ run'[v] = Null
    BY Numbers DEF CommitOne, Finish, Fail, Abort, Alone, TypeInv, TypeOK
  <1>2. Working(u)
    OBVIOUS
  <1>3. ~ Lost(u)
    BY <1>1, <1>2 DEF Lost, Working, Undecided, Gone
  <1>4. recipients' = Recorded(u)
    BY <1>3 DEF CommitOne, Finish
  <1>5. \A c \in Customer : Done(c) => Done(c)'
    <2> SUFFICES ASSUME NEW c \in Customer, Done(c) PROVE recipients'[c] \in Frozen
      BY DEF Done
    <2>1. CASE run[u].cur = c
      BY <1>4, <2>1 DEF Recorded, Frozen
    <2>2. CASE run[u].cur # c
      <3>1. recipients[c] \in Frozen
        BY <1>1, <2>2 DEF Done, Handed
      <3>2. c \notin run[u].skipped
        BY <1>1, <1>2, <3>1 DEF Working, Undecided, Frozen
      <3> QED
        BY <1>4, <2>2, <3>1, <3>2 DEF Recorded
    <2> QED
      BY <2>1, <2>2
  <1>6. OnceEach'
    BY <1>1, <1>5, OnceEachKept
  <1>7. \A r \in Request : Aware(r)'
    BY <1>1 DEF Aware, Apart
  <1>8. Working(u)'
    <2>1. CASE Finish(u)
      BY <1>3, <2>1 DEF Finish, Abort, Working, TypeInv, TypeOK
    <2>2. CASE CommitOne(u)
      <3>1. /\ run'[u].todo = run[u].todo /\ run'[u].skipped = {}
            /\ run'[u].cur = Null /\ run'[u].pc = "next"
        BY <1>1, <1>3, <2>2 DEF CommitOne, Runs, TypeInv, TypeOK
      <3>2. \A c \in run[u].todo : recipients'[c] = "ELIGIBLE"
        BY <1>1, <1>2, <1>4 DEF Recorded, Working, Undecided, Runs
      <3> QED
        BY <1>1, <3>1, <3>2 DEF Working, Undecided, Runs, Named
    <2> QED
      BY <2>1, <2>2
  <1>9. TypeInv'
    BY TypesKept DEF Next, RunStep, GoOn
  <1> QED
    BY <1>1, <1>6, <1>7, <1>8, <1>9 DEF Working

LEMMA StartOnce ==
    ASSUME OnceInv, Apart, Named, NEW u \in Sender,
           LoadRun(u) \/ MarkRunning(u)
    PROVE  OnceInv'
  <1> USE DEF OnceInv
  <1>1. /\ UNCHANGED <<recipients, request, calls, spent>>
        /\ \A v \in Sender : v # u => run'[v] = run[v]
    BY DEF LoadRun, MarkRunning, TypeInv, TypeOK
  <1>2. Working(u)'
    <2>1. CASE LoadRun(u)
      BY <2>1 DEF LoadRun, Working, Undecided, TypeInv, TypeOK
    <2>2. CASE MarkRunning(u)
      <3>1. /\ run[u] \in Runs /\ run[u].cur = Null /\ run[u].skipped = {}
        BY <2>2, Numbers DEF MarkRunning, Working
      <3>2. /\ run'[u].todo = Todo /\ run'[u].skipped = {}
            /\ run'[u].cur = Null /\ run'[u].pc = "next"
        BY <2>2, <3>1 DEF MarkRunning, Runs, TypeInv, TypeOK
      <3> QED
        BY <1>1, <3>2 DEF Working, Undecided, Todo, Named
    <2> QED
      BY <2>1, <2>2
  <1>3. OnceEach'
    <2>1. \A d \in Customer : Done(d) => Done(d)'
      <3>1. run[u] = Null \/ run[u].pc # "sent"
        BY DEF LoadRun, MarkRunning
      <3>2. \A v \in Sender : run[v] # Null /\ run[v].pc = "sent" => run'[v] = run[v]
        BY <1>1, <3>1
      <3> QED
        BY <1>1, <3>2 DEF Done, Handed
    <2> QED
      BY <1>1, <2>1, OnceEachKept
  <1>4. TypeInv'
    BY TypesKept DEF Next, RunStep, GoOn
  <1>5. \A v \in Sender : Working(v)'
    BY <1>1, <1>2 DEF Working, Undecided
  <1> QED
    BY <1>1, <1>3, <1>4, <1>5 DEF Aware

\* A lost run leaves at most the one message it had not recorded.
LEMMA CrashOnce ==
    ASSUME OnceInv, Alone, NEW u \in Sender, Crash(u)
    PROVE  OnceInv'
  <1> USE DEF OnceInv
  <1>1. /\ UNCHANGED <<recipients, request, calls>>
        /\ spent["crashes"] < MaxCrashes /\ spent'["crashes"] = spent["crashes"] + 1
        /\ \A v \in Sender : run'[v] = Null
    BY DEF Crash, Abort, Spend, Alone, TypeInv, TypeOK
  <1>2. OnceEach'
    BY <1>1, Numbers DEF OnceEach
  <1>3. TypeInv'
    BY TypesKept DEF Next
  <1>4. spent'["crashes"] <= MaxCrashes
    BY <1>1, Numbers, CampaignAssumption
  <1> QED
    BY <1>1, <1>2, <1>3, <1>4 DEF Aware, Working

LEMMA OnceStarts == ASSUME Init PROVE OnceInv
  <1>1. spent["crashes"] = 0 /\ 0 <= MaxCrashes
    BY CampaignAssumption DEF Init
  <1>2. OnceEach
    BY <1>1 DEF Init, OnceEach
  <1> QED
    BY <1>1, <1>2, TypesStart DEF Init, OnceInv, Working, Aware

LEMMA OnceKept ==
    ASSUME OnceInv, Apart, Alone, Named, [Next]_vars
    PROVE  OnceInv'
  <1>1. ASSUME NEW c \in Customer, OptOut(c) PROVE OnceInv'
    <2>1. UNCHANGED <<recipients, request, run, calls>> /\ spent'["crashes"] = spent["crashes"]
      BY <1>1 DEF OptOut, Spend, OnceInv, TypeInv, TypeOK
    <2>2. TypeInv'
      BY <1>1, TypesKept DEF Next, OnceInv
    <2> QED
      BY <2>1, <2>2 DEF OnceInv, OnceEach, Done, Handed, Working, Undecided, Aware
  <1>2. CASE UNCHANGED vars
    <2>1. TypeInv'
      BY <1>2, TypesKept DEF OnceInv
    <2> QED
      BY <1>2, <2>1 DEF vars, OnceInv, OnceEach, Done, Handed, Working, Undecided, Aware
  <1> QED
    BY <1>1, <1>2, LoadOnce, SaveOnce, StartOnce, GateOnce, DraftOnce, SendOnce, CommitOnce, CrashOnce
    DEF Next, Serve, RunStep, GoOn, Idle

\* As long as one thread at a time runs the campaign and no audience is taken while
\* it does, a customer receives more than one message only for runs that were lost
\* between a message and its commit, one for each.
THEOREM OnlyLostRunsRepeat ==
    ASSUME Named
    PROVE  Spec /\ [](Apart /\ Alone) =>
             [](\A c \in Customer : Len(calls[c]) <= spent["crashes"] + 1)
  <1> DEFINE AtMost == \A c \in Customer : Len(calls[c]) <= spent["crashes"] + 1
  <1>1. Init => OnceInv
    BY OnceStarts
  <1>2. OnceInv /\ Apart /\ Alone /\ [Next]_vars => OnceInv'
    BY OnceKept
  <1>3. OnceInv => AtMost
    BY Numbers DEF OnceInv, OnceEach
  <1> HIDE DEF AtMost
  <1>4. Spec /\ [](Apart /\ Alone) => []AtMost
    BY <1>1, <1>2, <1>3, PTL DEF Spec
  <1> QED
    BY <1>4 DEF AtMost

\* And where no run is lost a campaign reaches each customer at most once, however
\* often it is paused, approved again and run again, and its audience retaken.
THEOREM RerunsSendOnce ==
    ASSUME Named, MaxCrashes = 0
    PROVE  Spec /\ [](Apart /\ Alone) => []SentOnce
  <1>1. Init => OnceInv
    BY OnceStarts
  <1>2. OnceInv /\ Apart /\ Alone /\ [Next]_vars => OnceInv'
    BY OnceKept
  <1>3. OnceInv => SentOnce
    BY Numbers DEF OnceInv, OnceEach, SentOnce
  <1> QED
    BY <1>1, <1>2, <1>3, PTL DEF Spec
=============================================================================

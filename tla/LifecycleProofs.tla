-------------------------- MODULE LifecycleProofs ---------------------------
(***************************************************************************)
(* What operators may rely on in the life of an automation, proved for any *)
(* number of edits, runners, runs and crashes. The types hold for any      *)
(* requests at once; the rest while one request at a time is served.       *)
(***************************************************************************)
EXTENDS AutomationLifecycle, TLAPS

\* One request at a time; what is edited is the template or the steps; and the
\* automation is not of kind "once", whose run may end after it was activated again.
OneByOne ==
    /\ \A r, s \in Request : r = s
    /\ Editable \subseteq Sensitive
    /\ "once" \notin Kinds

---------------------------------------------------------------------------
(* The inductive invariant. *)

\* Approval is of the copy in the row.
Covers == RequireApproval /\ row.approved => covered = row.copy

\* What a request has loaded still holds, but for the end of a run and time.
Fresh(r) == request[r] # Null =>
    LET read == request[r].read IN
    /\ read.approved = row.approved /\ read.copy = row.copy
    /\ row.status \in {read.status, "COMPLETED"}
    /\ row.next_run = "none" /\ ~ over => read.next_run = "none"

\* Only a rewrite of its steps brings a sequence another copy.
OnlySteps(r) ==
    request[r] # Null /\ kind = "sequence" /\ request[r].op # "edit steps"
        => request[r].new = request[r].read.copy

\* What a run loaded was approved when it did, and until it reads its copy that is
\* still what it will read, unless the steps were rewritten under it.
Covered(u) == run[u] # Null /\ run[u].pc \in {"taken", "reread", "sending"} =>
    /\ RequireApproval /\ run[u].ok => run[u].loaded = run[u].covered
    /\ run[u].pc = "sending" =>
         run[u].ok /\ (run[u].copy = run[u].loaded \/ run[u].crossed)
    /\ run[u].pc # "sending" =>
         /\ run[u].copy = run[u].loaded
         /\ kind = "sequence" => row.copy = run[u].loaded \/ run[u].crossed

Safe ==
    /\ ActiveIsReady /\ SentCopyApproved
    /\ Covers
    /\ \A r \in Request : Fresh(r) /\ OnlySteps(r)
    /\ \A u \in Runner : Covered(u)

IInv == TypeOK /\ Safe

---------------------------------------------------------------------------
(* The row that a request leaves. *)

LEMMA FlushedRow ==
    ASSUME NEW read \in AutomationRow, NEW new \in AutomationRow, row \in AutomationRow
    PROVE  /\ Flush(read, new) \in AutomationRow
           /\ Flush(read, new).status = IF new.status # read.status THEN new.status ELSE row.status
           /\ Flush(read, new).approved = IF new.approved # read.approved THEN new.approved ELSE row.approved
           /\ Flush(read, new).next_run = IF new.next_run # read.next_run THEN new.next_run ELSE row.next_run
           /\ Flush(read, new).copy = IF new.copy # read.copy THEN new.copy ELSE row.copy
  <1>1. DOMAIN row = {"status", "approved", "next_run", "copy"} BY DEF AutomationRow
  <1>2. Flush(read, new) =
          [status |-> IF new.status # read.status THEN new.status ELSE row.status,
           approved |-> IF new.approved # read.approved THEN new.approved ELSE row.approved,
           next_run |-> IF new.next_run # read.next_run THEN new.next_run ELSE row.next_run,
           copy |-> IF new.copy # read.copy THEN new.copy ELSE row.copy]
    BY <1>1 DEF Flush
  <1> QED BY <1>2 DEF AutomationRow

LEMMA Bounds == MaxEdits \in Nat /\ MaxCrashes \in Nat
  BY Zenon, LifecycleAssumption

LEMMA Room ==
    ASSUME TypeOK
    PROVE  /\ spent.edits < MaxEdits =>
                spent.edits + 1 \in Copy
                /\ [spent EXCEPT !.edits = @ + 1] \in [edits : 0 .. MaxEdits, crashes : 0 .. MaxCrashes]
           /\ spent.crashes < MaxCrashes =>
                [spent EXCEPT !.crashes = @ + 1] \in [edits : 0 .. MaxEdits, crashes : 0 .. MaxCrashes]
  <1>1. spent \in [edits : 0 .. MaxEdits, crashes : 0 .. MaxCrashes] BY DEF TypeOK
  <1>2. spent.edits \in 0 .. MaxEdits /\ spent.crashes \in 0 .. MaxCrashes BY <1>1
  <1>3. spent.edits < MaxEdits => spent.edits + 1 \in 0 .. MaxEdits BY <1>2, Bounds
  <1>4. spent.crashes < MaxCrashes => spent.crashes + 1 \in 0 .. MaxCrashes BY <1>2, Bounds
  <1> QED BY <1>1, <1>3, <1>4 DEF Copy

LEMMA Ops == ASSUME NEW op \in Op
             PROVE  op \in {"approve", "activate", "pause", "resume", "delete"} \/ IsEdit(op)
  BY LifecycleAssumption DEF Op, IsEdit

\* What an operation leaves of the row it loaded is a row, whatever it loaded.
LEMMA OutcomeTyped ==
    ASSUME NEW op \in Op, NEW read \in AutomationRow, NEW new \in Copy,
           Outcome(op, read, new) # Null
    PROVE  Outcome(op, read, new) \in AutomationRow
  <1>1. CASE op = "approve" BY <1>1 DEF Outcome, IsEdit, AutomationRow
  <1>2. CASE op = "activate"
    BY <1>2 DEF Outcome, IsEdit, Activated, AutomationRow, RowStatus, NextRun
  <1>3. CASE op = "resume"
    BY <1>3 DEF Outcome, IsEdit, Activated, AutomationRow, RowStatus, NextRun
  <1>4. CASE op \in {"pause", "delete"} BY <1>4 DEF Outcome, IsEdit, AutomationRow, RowStatus
  <1>5. CASE IsEdit(op)
    <2>1. Revoked(read) \in AutomationRow BY DEF Revoked, AutomationRow, RowStatus, NextRun
    <2>2. Outcome(op, read, new) = Edited(op, read, new) BY <1>5 DEF Outcome, IsEdit
    <2> QED BY <2>1, <2>2 DEF Edited, AutomationRow
  <1> QED BY Ops, <1>1, <1>2, <1>3, <1>4, <1>5

\* What of it is approved, scheduled and live.
LEMMA OutcomeRow ==
    ASSUME NEW op \in Op, NEW read \in AutomationRow, NEW new \in Copy, OneByOne,
           Outcome(op, read, new) # Null
    PROVE  LET left == Outcome(op, read, new) IN
           /\ ~ IsEdit(op) => left.copy = read.copy
           /\ IsEdit(op) => left.copy = new
           /\ op # "approve" => left.approved = (read.approved /\ ~ (IsEdit(op) /\ RequireApproval))
           /\ IsEdit(op) /\ RequireApproval /\ read.approved => left.status # "ACTIVE"
           /\ left.status = "ACTIVE" => read.status = "ACTIVE" \/ (MayActivate(read) /\ ~ IsEdit(op))
           /\ left.status = "ACTIVE" /\ ~ over =>
                left.next_run # "none" \/ (left.next_run = read.next_run /\ read.status = "ACTIVE")
  <1> USE LifecycleAssumption
  <1>1. Op = {"approve", "activate", "pause", "resume", "delete"} \cup Editable BY DEF Op
  <1>2. CASE op = "approve" BY <1>2 DEF Outcome, AutomationRow, IsEdit
  <1>3. CASE op = "activate"
    BY <1>3 DEF Outcome, Activated, AutomationRow, IsEdit, RowStatus, NextRun
  <1>4. CASE op = "resume"
    BY <1>4 DEF Outcome, Activated, AutomationRow, IsEdit, RowStatus, NextRun
  <1>5. CASE op = "pause" BY <1>5 DEF Outcome, AutomationRow, IsEdit, RowStatus
  <1>6. CASE op = "delete" BY <1>6 DEF Outcome, AutomationRow, IsEdit, RowStatus
  <1>7. CASE op \in Editable
    <2>1. op \in Sensitive /\ IsEdit(op) /\ op # "approve" BY <1>7 DEF OneByOne, Sensitive, IsEdit
    <2>2. Outcome(op, read, new) = [Revoked(read) EXCEPT !.copy = new]
      BY <2>1 DEF Outcome, Edited, IsEdit
    <2>3. Revoked(read) \in AutomationRow BY DEF Revoked, AutomationRow, RowStatus, NextRun
    <2>4. /\ Revoked(read).approved = (read.approved /\ ~ RequireApproval)
          /\ RequireApproval /\ read.approved => Revoked(read).status # "ACTIVE"
          /\ Revoked(read).status = "ACTIVE" => read.status = "ACTIVE" /\ Revoked(read).next_run = read.next_run
      BY DEF Revoked, AutomationRow
    <2> QED BY <2>1, <2>2, <2>3, <2>4 DEF AutomationRow
  <1> QED BY <1>1, <1>2, <1>3, <1>4, <1>5, <1>6, <1>7

---------------------------------------------------------------------------
(* Types, whatever is served at once. *)

LEMMA StartsTyped == ASSUME Init PROVE TypeOK
  <1>1. row \in AutomationRow
    BY Bounds DEF Init, AutomationRow, RowStatus, NextRun, Copy
  <1>2. spent \in [edits : 0 .. MaxEdits, crashes : 0 .. MaxCrashes]
    <2>1. 0 \in 0 .. MaxEdits /\ 0 \in 0 .. MaxCrashes BY Bounds
    <2> QED BY <2>1 DEF Init
  <1> QED BY <1>1, <1>2 DEF Init, TypeOK

LEMMA TakenTyped == ASSUME TypeOK, NEW pc \in {"taken", "reread"} PROVE Taken(pc) \in Running
  <1>1. Sendable(row) \in BOOLEAN BY DEF Sendable
  <1> QED BY <1>1 DEF TypeOK, Taken, Running, AutomationRow

LEMMA ServeTyped == ASSUME TypeOK, NEW r \in Request, Serve(r) PROVE TypeOK'
  <1>1. ASSUME NEW op \in Op, Load(r, op) PROVE TypeOK'
    <2>1. row.copy \in Copy BY DEF TypeOK, AutomationRow
    <2>2. (IF IsEdit(op) /\ Changes(op) THEN spent.edits + 1 ELSE row.copy) \in Copy
      BY <1>1, <2>1, Room DEF Load
    <2>3. [op |-> op, read |-> row, counted |-> FALSE,
           new |-> IF IsEdit(op) /\ Changes(op) THEN spent.edits + 1 ELSE row.copy] \in Loaded
      BY <2>2 DEF TypeOK, Loaded
    <2>4. request' \in [Request -> {Null} \cup Loaded] BY <1>1, <2>3 DEF Load, TypeOK
    <2>5. spent' \in [edits : 0 .. MaxEdits, crashes : 0 .. MaxCrashes]
      BY <1>1, Room DEF Load, TypeOK
    <2> QED BY <1>1, <2>4, <2>5 DEF Load, TypeOK
  <1>2. CASE Count(r)
    <2>1. request[r] \in Loaded BY <1>2 DEF Count, TypeOK
    <2>2. [request[r] EXCEPT !.counted = TRUE] \in Loaded BY <2>1 DEF Loaded
    <2>3. request' = [request EXCEPT ![r] = Null]
          \/ request' = [request EXCEPT ![r] = [request[r] EXCEPT !.counted = TRUE]]
      BY <1>2 DEF Count, Answered
    <2>4. request' \in [Request -> {Null} \cup Loaded]
      BY <2>2, <2>3 DEF TypeOK
    <2> QED BY <1>2, <2>4 DEF Count, TypeOK
  <1>3. CASE Save(r)
    <2> DEFINE op == request[r].op
               read == request[r].read
               new == request[r].new
    <2>1. op \in Op /\ read \in AutomationRow /\ new \in Copy BY <1>3 DEF Save, TypeOK, Loaded
    <2>2. request' \in [Request -> {Null} \cup Loaded] BY <1>3 DEF Save, Answered, TypeOK
    <2>3. CASE row.status = "DELETED" \/ Outcome(op, read, new) = Null
      <3>1. UNCHANGED <<row, covered, run>> BY <1>3, <2>3 DEF Save
      <3> QED BY <1>3, <2>2, <3>1 DEF Save, TypeOK
    <2>4. CASE ~ (row.status = "DELETED" \/ Outcome(op, read, new) = Null)
      <3>1. /\ row' = Saved(op, read, new)
            /\ covered' = IF op = "approve" THEN read.copy ELSE covered
            /\ run' = Crossed(op)
        BY <1>3, <2>4 DEF Save
      <3>2. row \in AutomationRow /\ covered \in Copy \cup {Null} /\ read.copy \in Copy
        BY <2>1 DEF TypeOK, AutomationRow
      <3>3. Outcome(op, read, new) \in AutomationRow BY <2>1, <2>4, OutcomeTyped
      <3>4. Flush(read, Outcome(op, read, new)) \in AutomationRow
        BY <2>1, <3>2, <3>3, FlushedRow
      <3>5. row' \in AutomationRow BY <3>1, <3>2, <3>4 DEF Saved, AutomationRow
      <3>6. run' \in [Runner -> {Null} \cup Running]
        <4>1. ASSUME NEW u \in Runner, run[u] # Null, run[u].pc \in {"taken", "reread"}
              PROVE  [run[u] EXCEPT !.crossed = TRUE] \in Running
          BY <4>1 DEF TypeOK, Running
        <4>2. run \in [Runner -> {Null} \cup Running] BY DEF TypeOK
        <4> QED BY <3>1, <4>1, <4>2 DEF Crossed
      <3> QED BY <1>3, <2>2, <3>1, <3>2, <3>5, <3>6 DEF Save, TypeOK
    <2> QED BY <2>3, <2>4
  <1> QED BY <1>1, <1>2, <1>3 DEF Serve

LEMMA RunTyped == ASSUME TypeOK, NEW u \in Runner, RunStep(u) \/ Crash(u) PROVE TypeOK'
  <1>1. run \in [Runner -> {Null} \cup Running] /\ row \in AutomationRow BY DEF TypeOK
  <1>2. CASE TakeUp(u)
    <2>1. run' \in [Runner -> {Null} \cup Running] BY <1>1, <1>2, TakenTyped DEF TakeUp
    <2> QED BY <1>2, <2>1 DEF TakeUp, TypeOK
  <1>3. CASE StopPass(u)
    <2>1. [pc |-> "stopped"] \in Running BY DEF Running
    <2>2. run' \in [Runner -> {Null} \cup Running] BY <1>1, <1>3, <2>1 DEF StopPass
    <2>3. enrolled' \in BOOLEAN BY <1>3 DEF StopPass, TypeOK
    <2> QED BY <1>3, <2>2, <2>3 DEF StopPass, TypeOK
  <1>4. CASE Reread(u)
    <2>1. run' \in [Runner -> {Null} \cup Running] BY <1>1, <1>4, TakenTyped DEF Reread
    <2> QED BY <1>4, <2>1 DEF Reread, TypeOK
  <1>5. CASE Build(u)
    <2>1. [run[u] EXCEPT !.pc = "sending", !.copy = IF kind = "sequence" THEN row.copy ELSE @] \in Running
      BY <1>1, <1>5 DEF Build, Running, AutomationRow
    <2>2. run' \in [Runner -> {Null} \cup Running] BY <1>1, <1>5, <2>1 DEF Build
    <2> QED BY <1>5, <2>2 DEF Build, TypeOK
  <1>6. CASE SendAll(u)
    <2>1. [pc |-> "sent"] \in Running BY DEF Running
    <2>2. run' \in [Runner -> {Null} \cup Running] BY <1>1, <1>6, <2>1 DEF SendAll
    <2>3. sent' \in Sent BY <1>1, <1>6 DEF SendAll, Running, Sent
    <2> QED BY <1>6, <2>2, <2>3 DEF SendAll, TypeOK
  <1>7. CASE CommitRun(u)
    <2>1. [pc |-> "settle"] \in Running BY DEF Running
    <2>2. run' \in [Runner -> {Null} \cup Running] BY <1>1, <1>7, <2>1 DEF CommitRun
    <2>3. enrolled' \in BOOLEAN BY <1>7, Zenon DEF CommitRun, TypeOK
    <2> QED BY <1>7, <2>2, <2>3 DEF CommitRun, TypeOK
  <1>8. CASE Settle(u)
    <2>1. ASSUME NEW last \in BOOLEAN, row' = SettledRow(last) PROVE row' \in AutomationRow
      <3>1. kind \in {"once", "recurring", "sequence"} BY LifecycleAssumption DEF TypeOK
      <3> QED BY <1>1, <2>1, <3>1 DEF SettledRow, AutomationRow, RowStatus, NextRun
    <2>2. row' \in AutomationRow BY <1>1, <1>8, <2>1 DEF Settle
    <2> QED BY <1>1, <1>8, <2>2 DEF Settle, TypeOK
  <1>9. CASE Crash(u)
    BY <1>1, <1>9, Room DEF Crash, TypeOK
  <1> QED BY <1>2, <1>3, <1>4, <1>5, <1>6, <1>7, <1>8, <1>9 DEF RunStep, GoOn

LEMMA TypeKeeps == ASSUME TypeOK, [Next]_vars PROVE TypeOK'
  <1>1. CASE ComesDue BY <1>1 DEF ComesDue, TypeOK, AutomationRow, NextRun
  <1>2. CASE EndDatePasses BY <1>2 DEF EndDatePasses, TypeOK
  <1>3. CASE UNCHANGED vars BY <1>3 DEF vars, TypeOK
  <1> QED BY <1>1, <1>2, <1>3, ServeTyped, RunTyped DEF Next, Idle

\* Every variable of the lifecycle keeps its type, whatever requests and runs
\* overlap: the bounds of a run are kept by what the actions check.
THEOREM LifecycleTyped == Spec => []TypeOK
  <1>1. Init => TypeOK BY StartsTyped
  <1>2. TypeOK /\ [Next]_vars => TypeOK' BY TypeKeeps
  <1> QED BY <1>1, <1>2, PTL DEF Spec

---------------------------------------------------------------------------
(* The steps. *)

LEMMA Starts == ASSUME Init PROVE Safe
  BY DEF Init, Safe, ActiveIsReady, ActiveIsApproved, ActiveIsScheduled, SentCopyApproved, Covers, Fresh,
         OnlySteps, Covered

LEMMA LoadKeeps ==
    ASSUME IInv, OneByOne, NEW r \in Request, NEW op \in Op, Load(r, op)
    PROVE  Safe'
  <1> USE DEF IInv, Safe
  <1>1. request' = [q \in Request |->
            [op |-> op, read |-> row, counted |-> FALSE,
             new |-> IF IsEdit(op) /\ Changes(op) THEN spent.edits + 1 ELSE row.copy]]
    BY DEF Load, OneByOne, TypeOK
  <1>2. UNCHANGED <<kind, row, enrolled, over, run, covered, sent>> BY DEF Load
  <1>3. ASSUME NEW q \in Request PROVE Fresh(q)' /\ OnlySteps(q)'
    BY <1>1, <1>2 DEF Fresh, OnlySteps, Changes
  <1> QED BY <1>2, <1>3 DEF ActiveIsReady, ActiveIsApproved, ActiveIsScheduled, SentCopyApproved, Covers, Covered

LEMMA CountKeeps ==
    ASSUME IInv, NEW r \in Request, Count(r)
    PROVE  Safe'
  <1> USE DEF IInv, Safe
  <1>1. request[r] \in Loaded /\ request \in [Request -> {Null} \cup Loaded] BY DEF Count, TypeOK
  <1>2. UNCHANGED <<kind, row, enrolled, over, run, covered, sent>> BY DEF Count
  <1>3. ASSUME NEW q \in Request PROVE Fresh(q)' /\ OnlySteps(q)'
    <2>1. request' = [request EXCEPT ![r] = Null]
          \/ request' = [request EXCEPT ![r] = [request[r] EXCEPT !.counted = TRUE]]
      BY DEF Count, Answered
    <2>2. [request[r] EXCEPT !.counted = TRUE].op = request[r].op
          /\ [request[r] EXCEPT !.counted = TRUE].read = request[r].read
          /\ [request[r] EXCEPT !.counted = TRUE].new = request[r].new
      BY <1>1 DEF Loaded
    <2>3. request'[q] = Null \/ request'[q] = request[q]
          \/ (q = r /\ request'[q] = [request[r] EXCEPT !.counted = TRUE])
      BY <1>1, <2>1
    <2>4. request[r] # Null BY DEF Count
    <2>5. Fresh(q) /\ OnlySteps(q) OBVIOUS
    <2> QED BY <1>2, <2>2, <2>3, <2>4, <2>5 DEF Fresh, OnlySteps
  <1> QED BY <1>2, <1>3 DEF ActiveIsReady, ActiveIsApproved, ActiveIsScheduled, SentCopyApproved, Covers, Covered

LEMMA SaveKeeps ==
    ASSUME IInv, OneByOne, NEW r \in Request, Save(r)
    PROVE  Safe'
  <1> USE DEF IInv, Safe
  <1> DEFINE op == request[r].op
             read == request[r].read
             new == request[r].new
             left == Outcome(op, read, new)
  <1>1. op \in Op /\ read \in AutomationRow /\ new \in Copy BY DEF Save, TypeOK, Loaded
  <1>2. request' = [q \in Request |-> Null] BY DEF Save, Answered, OneByOne, TypeOK
  <1>3. \A q \in Request : Fresh(q)' /\ OnlySteps(q)' BY <1>2 DEF Fresh, OnlySteps
  <1>4. UNCHANGED <<kind, enrolled, over, sent, spent>> BY DEF Save
  <1>5. SentCopyApproved' BY <1>4 DEF SentCopyApproved
  <1>6. CASE row.status = "DELETED" \/ left = Null
    <2>1. UNCHANGED <<row, covered, run>> BY <1>6 DEF Save
    <2> QED BY <1>3, <1>4, <1>5, <2>1
            DEF ActiveIsReady, ActiveIsApproved, ActiveIsScheduled, Covers, Covered
  <1>7. CASE ~ (row.status = "DELETED" \/ left = Null)
    <2>1. /\ row' = Saved(op, read, new)
          /\ covered' = IF op = "approve" THEN read.copy ELSE covered
          /\ run' = Crossed(op)
      BY <1>7 DEF Save
    <2>2. /\ read.approved = row.approved /\ read.copy = row.copy
          /\ row.status \in {read.status, "COMPLETED"}
          /\ row.next_run = "none" /\ ~ over => read.next_run = "none"
      BY DEF Save, Fresh
    <2>3. row \in AutomationRow BY DEF TypeOK
    <2>4. /\ op = "approve" => row' = [row EXCEPT !.approved = TRUE]
          /\ op # "approve" =>
               /\ row'.status = IF left.status # read.status THEN left.status ELSE row.status
               /\ row'.approved = IF left.approved # read.approved THEN left.approved ELSE row.approved
               /\ row'.next_run = IF left.next_run # read.next_run THEN left.next_run ELSE row.next_run
               /\ row'.copy = IF left.copy # read.copy THEN left.copy ELSE row.copy
      <3>1. op = "approve" => row' = [row EXCEPT !.approved = TRUE] BY <2>1 DEF Saved
      <3>2. left \in AutomationRow BY <1>1, <1>7, OutcomeTyped
      <3>3. op # "approve" => row' = Flush(read, left) BY <2>1 DEF Saved
      <3> HIDE DEF op, read, new, left
      <3> QED BY <1>1, <2>3, <3>1, <3>2, <3>3, FlushedRow
    <2>5. /\ ~ IsEdit(op) => left.copy = read.copy
          /\ IsEdit(op) => left.copy = new
          /\ op # "approve" => left.approved = (read.approved /\ ~ (IsEdit(op) /\ RequireApproval))
          /\ IsEdit(op) /\ RequireApproval /\ read.approved => left.status # "ACTIVE"
          /\ left.status = "ACTIVE" => read.status = "ACTIVE" \/ (MayActivate(read) /\ ~ IsEdit(op))
          /\ left.status = "ACTIVE" /\ ~ over =>
               left.next_run # "none" \/ (left.next_run = read.next_run /\ read.status = "ACTIVE")
      BY <1>1, <1>7, OutcomeRow
    <2>6. op = "approve" => ~ IsEdit(op) BY DEF IsEdit
    <2>7. kind = "sequence" /\ op # "edit steps" => row'.copy = row.copy
      <3>1. kind = "sequence" /\ op # "edit steps" => new = read.copy BY DEF Save, OnlySteps
      <3> QED BY <2>2, <2>3, <2>4, <2>5, <2>6, <3>1 DEF AutomationRow
    <2>8. ASSUME NEW u \in Runner PROVE Covered(u)'
      <3> SUFFICES ASSUME run'[u] # Null, run'[u].pc \in {"taken", "reread", "sending"}
                   PROVE  Covered(u)' BY DEF Covered
      <3>1. run[u] \in {Null} \cup Running BY DEF TypeOK
      <3>2. run'[u] = IF op = "edit steps" /\ kind = "sequence" /\ run[u] # Null
                           /\ run[u].pc \in {"taken", "reread"}
                      THEN [run[u] EXCEPT !.crossed = TRUE] ELSE run[u]
        BY <2>1 DEF Crossed
      <3>3. CASE op = "edit steps" /\ kind = "sequence" /\ run[u] # Null
                 /\ run[u].pc \in {"taken", "reread"}
        BY <1>4, <3>1, <3>2, <3>3 DEF Covered, Running
      <3>4. CASE ~ (op = "edit steps" /\ kind = "sequence" /\ run[u] # Null
                    /\ run[u].pc \in {"taken", "reread"})
        <4>1. run'[u] = run[u] BY <3>2, <3>4
        <4>2. kind = "sequence" /\ run[u].pc # "sending" => row'.copy = row.copy
          BY <2>7, <3>4, <4>1
        <4> QED BY <1>4, <4>1, <4>2 DEF Covered
      <3> QED BY <3>3, <3>4
    <2>9. CASE op = "approve"
      <3>1. row' = [row EXCEPT !.approved = TRUE] BY <2>4, <2>9
      <3>2. Covers' BY <2>1, <2>2, <2>3, <2>9, <3>1 DEF Covers, AutomationRow
      <3> QED BY <1>3, <1>4, <1>5, <2>3, <2>8, <3>1, <3>2
              DEF ActiveIsReady, ActiveIsApproved, ActiveIsScheduled, AutomationRow
    <2>10. CASE op # "approve"
      <3>1. row'.approved = left.approved BY <2>2, <2>4, <2>10
      <3>2. Covers' BY <2>1, <2>2, <2>4, <2>5, <2>10, <3>1 DEF Covers
      <3>3. row'.status = "ACTIVE" => left.status = "ACTIVE" /\ row.status \in {"ACTIVE", read.status, "COMPLETED"}
        BY <2>2, <2>4, <2>10
      <3>4. ActiveIsApproved'
        <4> SUFFICES ASSUME RequireApproval, row'.status = "ACTIVE" PROVE row'.approved
          BY DEF ActiveIsApproved
        <4>1. CASE read.status = "ACTIVE" /\ ~ IsEdit(op)
          <5>1. row.status = "ACTIVE" BY <2>2, <2>4, <2>10, <3>3, <4>1
          <5> QED BY <2>2, <2>5, <2>10, <3>1, <4>1, <5>1 DEF ActiveIsReady, ActiveIsApproved
        <4>2. CASE read.status = "ACTIVE" /\ IsEdit(op)
          <5>1. ~ read.approved BY <2>5, <3>3, <4>2
          <5>2. row.status = "ACTIVE" BY <2>2, <2>4, <2>10, <3>3, <4>2
          <5> QED BY <2>2, <5>1, <5>2 DEF ActiveIsReady, ActiveIsApproved
        <4>3. CASE read.status # "ACTIVE"
          BY <2>2, <2>5, <2>10, <3>1, <3>3, <4>3 DEF MayActivate
        <4> QED BY <4>1, <4>2, <4>3
      <3>5. ActiveIsScheduled'
        <4> SUFFICES ASSUME row'.status = "ACTIVE", ~ over PROVE row'.next_run # "none"
          BY <1>4 DEF ActiveIsScheduled
        <4>1. CASE left.next_run # "none"
          BY <2>2, <2>4, <2>10, <4>1
        <4>2. CASE left.next_run = read.next_run /\ read.status = "ACTIVE"
          <5>1. row.status = "ACTIVE" BY <2>2, <2>4, <2>10, <3>3, <4>2
          <5> QED BY <2>4, <2>10, <4>2, <5>1 DEF ActiveIsReady, ActiveIsScheduled
        <4> QED BY <2>5, <3>3, <4>1, <4>2
      <3> QED BY <1>3, <1>5, <2>8, <3>2, <3>4, <3>5 DEF ActiveIsReady
    <2> QED BY <2>9, <2>10
  <1> QED BY <1>6, <1>7

\* A run that loads the row: TakeUp, and the second load of a sequence.
LEMMA TakenCovered ==
    ASSUME IInv, NEW pc \in {"taken", "reread"}
    PROVE  /\ RequireApproval /\ Taken(pc).ok => Taken(pc).loaded = Taken(pc).covered
           /\ Taken(pc).pc = pc /\ Taken(pc).copy = Taken(pc).loaded
           /\ row.copy = Taken(pc).loaded
  BY DEF IInv, Safe, Taken, Sendable, Covers

LEMMA RunKeeps ==
    ASSUME IInv, OneByOne, NEW u \in Runner, RunStep(u) \/ Crash(u), ~ Settle(u)
    PROVE  Safe'
  <1> USE DEF IInv, Safe
  <1>1. run \in [Runner -> {Null} \cup Running] BY DEF TypeOK
  <1>2. UNCHANGED <<kind, row, over, request, covered>>
    BY DEF RunStep, GoOn, TakeUp, StopPass, Reread, Build, SendAll, CommitRun, Crash
  <1>3. \A v \in Runner \ {u} : run'[v] = run[v]
    BY <1>1 DEF RunStep, GoOn, TakeUp, StopPass, Reread, Build, SendAll, CommitRun, Crash
  <1>4. Covered(u)'
    <2>1. CASE TakeUp(u) BY <1>1, <1>2, <2>1, TakenCovered DEF TakeUp, Covered
    <2>2. CASE Reread(u)
      <3>1. run'[u] = IF row.status = "DELETED" THEN Null ELSE Taken("reread")
        BY <1>1, <2>2 DEF Reread
      <3> QED BY <1>2, <3>1, TakenCovered DEF Covered
    <2>3. CASE Build(u)
      <3>1. run[u] \in Running /\ run[u].pc \in {"taken", "reread"} BY <1>1, <2>3 DEF Build
      <3>2. run'[u] = IF ~ run[u].ok \/ (kind = "sequence" /\ row.status = "DELETED") THEN Null
                      ELSE [run[u] EXCEPT !.pc = "sending",
                                          !.copy = IF kind = "sequence" THEN row.copy ELSE @]
        BY <1>1, <2>3 DEF Build
      <3>3. Covered(u) OBVIOUS
      <3>4. CASE run'[u] = Null BY <3>4 DEF Covered
      <3>5. CASE run'[u] = [run[u] EXCEPT !.pc = "sending",
                                          !.copy = IF kind = "sequence" THEN row.copy ELSE @]
                 /\ run[u].ok
        <4>1. /\ run'[u].pc = "sending" /\ run'[u].ok /\ run'[u].loaded = run[u].loaded
              /\ run'[u].covered = run[u].covered /\ run'[u].crossed = run[u].crossed
              /\ run'[u].copy = IF kind = "sequence" THEN row.copy ELSE run[u].copy
          BY <3>1, <3>5 DEF Running
        <4> QED BY <2>3, <3>1, <3>3, <3>5, <4>1 DEF Covered, Build
      <3> QED BY <3>2, <3>4, <3>5
    <2>4. CASE StopPass(u) BY <1>1, <2>4 DEF StopPass, Covered
    <2>5. CASE SendAll(u) BY <1>1, <2>5 DEF SendAll, Covered
    <2>6. CASE CommitRun(u) BY <1>1, <2>6 DEF CommitRun, Covered
    <2>7. CASE Crash(u) BY <1>1, <2>7 DEF Crash, Covered
    <2> QED BY <2>1, <2>2, <2>3, <2>4, <2>5, <2>6, <2>7 DEF RunStep, GoOn
  <1>5. \A v \in Runner : Covered(v)' BY <1>2, <1>3, <1>4 DEF Covered
  <1>6. SentCopyApproved'
    <2>1. CASE SendAll(u)
      <3>1. sent' = [copy |-> run[u].copy, loaded |-> run[u].loaded,
                     covered |-> run[u].covered, crossed |-> run[u].crossed]
        BY <2>1 DEF SendAll
      <3> QED BY <2>1, <3>1 DEF SendAll, Covered, SentCopyApproved
    <2>2. CASE UNCHANGED sent BY <2>2 DEF SentCopyApproved
    <2> QED BY <2>1, <2>2 DEF RunStep, GoOn, TakeUp, StopPass, Reread, Build, CommitRun, Crash
  <1>7. \A r \in Request : Fresh(r)' /\ OnlySteps(r)' BY <1>2 DEF Fresh, OnlySteps
  <1> QED BY <1>2, <1>5, <1>6, <1>7 DEF ActiveIsReady, ActiveIsApproved, ActiveIsScheduled, Covers

LEMMA SettleKeeps ==
    ASSUME IInv, OneByOne, NEW u \in Runner, Settle(u)
    PROVE  Safe'
  <1> USE DEF IInv, Safe
  <1>1. row \in AutomationRow BY DEF TypeOK
  <1>2. kind \in {"recurring", "sequence"} BY LifecycleAssumption DEF TypeOK, OneByOne
  <1>3. /\ row'.approved = row.approved /\ row'.copy = row.copy
        /\ row'.status \in {row.status, "COMPLETED"}
        /\ row'.next_run = row.next_run \/ over \/ row'.next_run = "later"
    <2>1. CASE row' = row BY <1>1, <2>1
    <2>2. ASSUME NEW last \in BOOLEAN, row' = SettledRow(last)
          PROVE  <1>3!1 /\ <1>3!2 /\ <1>3!3
      BY <1>1, <1>2, <2>2 DEF SettledRow, AutomationRow, RowStatus, NextRun
    <2> QED BY <2>1, <2>2 DEF Settle
  <1>4. UNCHANGED <<kind, enrolled, over, request, covered, sent, spent>> BY DEF Settle
  <1>5. \A r \in Request : Fresh(r)' /\ OnlySteps(r)' BY <1>3, <1>4 DEF Fresh, OnlySteps
  <1>6. run' = [run EXCEPT ![u] = Null] BY DEF Settle
  <1>7. \A v \in Runner : Covered(v)' BY <1>3, <1>4, <1>6 DEF Covered, TypeOK
  <1> QED BY <1>3, <1>4, <1>5, <1>7
          DEF ActiveIsReady, ActiveIsApproved, ActiveIsScheduled, SentCopyApproved, Covers

LEMMA TimeKeeps ==
    ASSUME IInv, ComesDue \/ EndDatePasses
    PROVE  Safe'
  <1> USE DEF IInv, Safe
  <1>1. CASE ComesDue
    BY <1>1 DEF ComesDue, ActiveIsReady, ActiveIsApproved, ActiveIsScheduled, SentCopyApproved,
                Covers, Covered, Fresh, OnlySteps, TypeOK, AutomationRow
  <1>2. CASE EndDatePasses
    BY <1>2 DEF EndDatePasses, TypeOK, ActiveIsReady, ActiveIsApproved, ActiveIsScheduled, SentCopyApproved,
                Covers, Covered, Fresh, OnlySteps
  <1> QED BY <1>1, <1>2

LEMMA StepKeeps == ASSUME IInv, OneByOne, [Next]_vars PROVE IInv'
  <1>1. TypeOK' BY TypeKeeps DEF IInv
  <1>2. ASSUME NEW r \in Request, Serve(r) PROVE Safe'
    BY <1>2, LoadKeeps, CountKeeps, SaveKeeps DEF Serve
  <1>3. ASSUME NEW u \in Runner, RunStep(u) \/ Crash(u) PROVE Safe'
    BY <1>3, RunKeeps, SettleKeeps
  <1>4. ASSUME UNCHANGED vars PROVE Safe'
    <2>1. UNCHANGED <<kind, row, over, request, run, covered, sent>> BY <1>4 DEF vars
    <2>2. /\ ActiveIsReady' /\ SentCopyApproved' /\ Covers'
      BY <2>1 DEF IInv, Safe, ActiveIsReady, ActiveIsApproved, ActiveIsScheduled, SentCopyApproved, Covers
    <2>3. \A r \in Request : Fresh(r)' /\ OnlySteps(r)'
      BY <2>1 DEF IInv, Safe, Fresh, OnlySteps
    <2>4. \A u \in Runner : Covered(u)' BY <2>1 DEF IInv, Safe, Covered
    <2> QED BY <2>2, <2>3, <2>4 DEF Safe
  <1>5. Safe' BY <1>2, <1>3, <1>4, TimeKeeps DEF Next, Idle
  <1> QED BY <1>1, <1>5 DEF IInv

LEMMA Always == ASSUME OneByOne PROVE Spec => []IInv
  <1>1. Init => IInv BY Starts, StartsTyped DEF IInv
  <1>2. IInv /\ [Next]_vars => IInv' BY StepKeeps
  <1> QED BY <1>1, <1>2, PTL DEF Spec

\* An automation never looks live and silently sends nothing: while it is active
\* it is approved, if that is required, and has a next run until its end date,
\* whatever runs, crashes and requests come in between.
THEOREM ActiveIsAlwaysReady == ASSUME OneByOne PROVE Spec => []ActiveIsReady
  <1>1. IInv => ActiveIsReady BY DEF IInv, Safe
  <1> QED BY <1>1, Always, PTL

\* "Approval attaches to the message": each run loads and checks a row with the copy
\* that the last approval was given to, and sends that copy, unless it is a sequence
\* whose steps were rewritten between that load and its query of them. A request may
\* load, count and commit at any point of any number of runs.
THEOREM SentCopyIsApproved == ASSUME OneByOne PROVE Spec => []SentCopyApproved
  <1>1. IInv => SentCopyApproved BY DEF IInv, Safe
  <1> QED BY <1>1, Always, PTL
=============================================================================

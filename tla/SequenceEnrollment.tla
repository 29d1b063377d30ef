------------------------- MODULE SequenceEnrollment -------------------------
(***************************************************************************)
(* Recurring sequences: who is enrolled, which step each customer is at,   *)
(* and how runs, requests and crashes move them.                           *)
(* backend/app/automations/sequences.py, with set_enrollment_paused and    *)
(* enroll_customers of service.py and _stop_enrollments of optout.py.      *)
(*                                                                         *)
(* A run has up to three commits: after the stop pass when it stopped      *)
(* somebody, at the end of execute_candidates, and after _advance.  What   *)
(* execute_candidates does with one candidate is reduced here to what the  *)
(* enrollment sees of it (SendPipeline has the detail): let through or     *)
(* not, and then sent or not.                                              *)
(*                                                                         *)
(* A request that pauses or resumes an enrollment loads the row, looks at  *)
(* its status and commits the new one over whatever has been committed in  *)
(* between; nobody locks the row.                                          *)
(*                                                                         *)
(* The clock counts days and every event of a day is at the same hour, so  *)
(* a step is due on its day.  Quiet hours and lost answers of the provider *)
(* are left to SendPipeline.                                               *)
(***************************************************************************)
EXTENDS Naturals, Sequences

CONSTANTS
    Worker,      \* threads that run this automation: the scheduler, requests
    Operator,    \* request threads that pause and resume enrollments
    Customer,
    Offset,      \* offset_days of the steps, by position
    Rolling,     \* enrollment_mode: ROLLING or FIXED_COHORT
    BackDating,  \* days by which trigger_at may precede enrolled_at
    CatchUp,     \* catch_up_days
    StopOnOrder, \* stop_on_order
    Modes,       \* of a run: FALSE is live, TRUE is dry
    EndDay,      \* ends_at; after MaxDay when there is none
    MaxDay,      \* this day stands for itself and every later one
    MaxCrashes,  \* runs lost to an exception or a restart
    MaxControls, \* operators' pauses, resumes, activations; opt-outs
    MaxOptIns,   \* customers who opt in again
    MaxOthers,   \* messages of other automations
    MaxHeld,     \* messages that fail the content rules or the provider
    MaxOrders,   \* orders placed
    Null         \* no enrollment; an idle worker

N == Len(Offset)
Status == {"ACTIVE", "PAUSED", "STOPPED", "COMPLETED"}
Done == {"STOPPED", "COMPLETED"}  \* the system has decided so

ASSUME SequenceAssumption ==
    /\ Offset \in Seq(Nat) /\ N > 0
    /\ BackDating \subseteq Nat /\ CatchUp \in Nat /\ EndDay \in Nat
    /\ Rolling \in BOOLEAN /\ StopOnOrder \in BOOLEAN /\ Modes \subseteq BOOLEAN
    /\ MaxDay \in Nat /\ MaxCrashes \in Nat /\ MaxControls \in Nat
    /\ MaxOptIns \in Nat /\ MaxOthers \in Nat /\ MaxHeld \in Nat /\ MaxOrders \in Nat

\* enrolled_at, and by how much trigger_at precedes it; current_step counts
\* the steps that are behind the customer.
Enrollment ==
    [status : Status, step : 0 .. N, joined : 0 .. MaxDay, back : BackDating]

VARIABLES
    clock,     \* today
    status,    \* of the automation
    enr,       \* committed enrollments
    optedOut,  \* suppressed customers
    ordered,   \* customers with an order since they joined
    claimed,   \* committed (customer, day) claims of the ledger
    recorded,  \* committed (customer, step) sends of the ledger
    calls,     \* messages the provider accepted, per customer and step
    run,       \* per worker: Null or the run in progress
    holding,   \* per operator: Null or the request, and the status it has loaded
    revived,   \* customers whose enrollment an operator's request took up when done
    spent      \* how much of each bound is used up

people == <<enr, optedOut, ordered>>
ledger == <<claimed, recorded>>
requests == <<holding, revived>>
vars == <<clock, status, people, ledger, calls, run, requests, spent>>

\* A run in progress: the day it started on, what it inserted, stopped and
\* skipped but has not committed, per customer the step to send and the step
\* sent, and whose message has been let through.
Run == [pc : {"sending", "advance"}, dry : BOOLEAN, now : 0 .. MaxDay,
        new : [Customer -> Enrollment \cup {Null}],
        stop : SUBSET Customer,
        skip : [Customer -> (0 .. N) \cup {Null}],
        todo : [Customer -> (1 .. N) \cup {Null}],
        claims : SUBSET (Customer \X (0 .. MaxDay)),
        cur : Customer \cup {Null},
        out : [Customer -> (1 .. N) \cup {Null}]]

Held == [customer : Customer, read : Status, to : {"ACTIVE", "PAUSED"}]

Spend(x, max) == spent[x] < max /\ spent' = [spent EXCEPT ![x] = @ + 1]

Init ==
    /\ clock = 0
    /\ status = "ACTIVE"
    /\ enr = [c \in Customer |-> Null]
    /\ optedOut = {}
    /\ ordered = {}
    /\ claimed = {}
    /\ recorded = {}
    /\ calls = [c \in Customer |-> [i \in 1 .. N |-> 0]]
    /\ run = [w \in Worker |-> Null]
    /\ holding = [o \in Operator |-> Null]
    /\ revived = {}
    /\ spent = [crashes |-> 0, controls |-> 0, optIns |-> 0, others |-> 0, held |-> 0,
                orders |-> 0]

---------------------------------------------------------------------------
(* Enrolling. *)

Enrolled == {c \in Customer : enr[c] # Null}

\* Customers inserted by a run that has not committed: another insert of the
\* same key waits, and fails once the first has committed.
Inserting ==
    {c \in Customer : \E w \in Worker : run[w] # Null /\ run[w].new[c] # Null}

NewEnrollment(b) == [status |-> "ACTIVE", step |-> 0, joined |-> clock, back |-> b]

\* Bound: customers join while their last step is still within the days modelled.
RoomToJoin == clock + Offset[N] <= MaxDay

\* Whom enroll adds: some of the customers who are not enrolled, each with a
\* trigger; of a locked cohort, nobody once there is an enrollment.
Joining ==
    IF (~ Rolling /\ Enrolled # {}) \/ ~ RoomToJoin THEN {[c \in Customer |-> Null]}
    ELSE {f \in [Customer -> {Null} \cup {NewEnrollment(b) : b \in BackDating}] :
             \A c \in Enrolled \cup Inserting : f[c] = Null}

---------------------------------------------------------------------------
(* Stopping, and choosing the steps. *)

\* apply_stop_conditions.
MustStop(c) ==
    \/ c \in optedOut
    \/ StopOnOrder /\ c \in ordered \cap Enrolled
    \/ EndDay <= clock

\* The grace before joining in which a step is still worth sending.
Stale(e, i) == Offset[i] + CatchUp < e.back

Due(e, i) == e.joined + Offset[i] <= clock + e.back

\* current_step after the steps that are too stale have been passed over.
FreshStep(e) ==
    CHOOSE k \in e.step .. N :
        /\ \A i \in (e.step + 1) .. k : Stale(e, i)
        /\ k = N \/ ~ Stale(e, k + 1)

\* What run w works on after the stop pass: enrollments as it sees them.
Candidate(e) ==
    IF e # Null /\ e.status = "ACTIVE" /\ FreshStep(e) < N /\ Due(e, FreshStep(e) + 1)
    THEN FreshStep(e) + 1
    ELSE Null

\* The stop pass commits when it stopped somebody, then the candidates are
\* built. A live run of an automation that is not active is refused after that.
Begin(w, dry, joining) ==
    LET seen == [c \in Customer |->
                   IF dry \/ joining[c] = Null THEN enr[c] ELSE joining[c]]
        active == {c \in Customer : seen[c] # Null /\ seen[c].status = "ACTIVE"}
        stopped == {c \in active : MustStop(c)}
        after == [c \in Customer |->
                    IF c \in stopped THEN [seen[c] EXCEPT !.status = "STOPPED"]
                    ELSE seen[c]]
        commits == ~ dry /\ stopped # {}
        going == active \ stopped
    IN
    /\ run[w] = Null
    /\ ordered' = IF dry THEN ordered
                  ELSE ordered \ {c \in Customer : joining[c] # Null}
    /\ enr' = IF commits THEN after ELSE enr
    /\ run' =
         IF ~ dry /\ status # "ACTIVE" THEN run
         ELSE [run EXCEPT ![w] =
                 [pc |-> "sending", dry |-> dry, now |-> clock,
                  new |-> IF dry \/ commits THEN [c \in Customer |-> Null] ELSE joining,
                  stop |-> IF dry THEN stopped ELSE {},
                  skip |-> [c \in Customer |->
                              IF c \in going /\ FreshStep(seen[c]) # seen[c].step
                              THEN FreshStep(seen[c]) ELSE Null],
                  todo |-> [c \in Customer |->
                              IF c \in going THEN Candidate(seen[c]) ELSE Null],
                  claims |-> claimed, cur |-> Null,
                  out |-> [c \in Customer |-> Null]]]
    /\ UNCHANGED <<clock, status, optedOut, ledger, calls, spent, requests>>

BeginLive(w) == \E joining \in Joining : Begin(w, FALSE, joining)

\* A dry run adds nobody: those who would join exist in memory only.
BeginDry(w) == TRUE \in Modes /\ Begin(w, TRUE, [c \in Customer |-> Null])

---------------------------------------------------------------------------
(* Sending. *)

\* As if consent were looked at only when the run starts.
BugConsentAtStart(w, c) == <<c, run[w].now>> \notin run[w].claims

\* The gates that close on their own: consent as it is now, and claims as they
\* were read at the start.
MayReceive(w, c) ==
    c \notin optedOut /\ <<c, run[w].now>> \notin run[w].claims

\* execute_candidates for one customer, the gates: one that closes (opted out, day
\* claimed) ends the customer's turn, and so does a dry run before the provider.
Gate(w) ==
    /\ run[w] # Null
    /\ run[w].pc = "sending" /\ run[w].cur = Null
    /\ \E c \in Customer :
         /\ run[w].todo[c] # Null
         /\ run' = IF run[w].dry \/ ~ MayReceive(w, c)
                   THEN [run EXCEPT ![w].todo[c] = Null]
                   ELSE [run EXCEPT ![w].cur = c]
    /\ UNCHANGED <<clock, status, people, ledger, calls, requests, spent>>

\* And then the provider: the message goes out, or the content rules or the
\* provider hold it back. Nobody asks for the consent again.
Call(w) ==
    /\ run[w] # Null
    /\ run[w].pc = "sending" /\ run[w].cur # Null
    /\ LET c == run[w].cur IN
       \/ /\ calls' = [calls EXCEPT ![c][run[w].todo[c]] = @ + 1]
          /\ run' = [run EXCEPT ![w].cur = Null, ![w].todo[c] = Null,
                                ![w].out[c] = run[w].todo[c]]
          /\ UNCHANGED spent
       \/ /\ Spend("held", MaxHeld)
          /\ run' = [run EXCEPT ![w].cur = Null, ![w].todo[c] = Null]
          /\ UNCHANGED calls
    /\ UNCHANGED <<clock, status, people, ledger, requests>>

Sent(u) == {c \in Customer : u.out[c] # Null}

\* The row of customer c once the session of run u has been flushed.
Flushed(u, c) ==
    IF u.new[c] # Null
    THEN [u.new[c] EXCEPT !.step = IF u.skip[c] = Null THEN @ ELSE u.skip[c]]
    ELSE IF enr[c] = Null THEN Null
    ELSE [enr[c] EXCEPT
            !.status = IF c \in u.stop THEN "STOPPED" ELSE @,
            !.step = IF u.skip[c] = Null THEN @ ELSE u.skip[c]]

\* The commit of execute_candidates, also of a dry run.
CommitSends(w) ==
    /\ run[w] # Null
    /\ run[w].pc = "sending"
    /\ \A c \in Customer : run[w].todo[c] = Null
    /\ enr' = [c \in Customer |-> Flushed(run[w], c)]
    /\ claimed' = claimed \cup {<<c, run[w].now>> : c \in Sent(run[w])}
    /\ recorded' = recorded \cup {<<c, run[w].out[c]>> : c \in Sent(run[w])}
    /\ run' = IF run[w].dry THEN [run EXCEPT ![w] = Null]
              ELSE [run EXCEPT ![w] =
                      [@ EXCEPT !.pc = "advance",
                                !.new = [c \in Customer |-> Null],
                                !.skip = [c \in Customer |-> Null]]]
    /\ UNCHANGED <<clock, status, optedOut, ordered, calls, spent, requests>>

\* As if a step were consumed whether or not its message went.
BugConsumesSkipped(u, c) ==
    LET e == enr[c] IN
    IF e = Null \/ e.status # "ACTIVE" \/ e.step >= N THEN e
    ELSE [e EXCEPT !.step = @ + 1,
                   !.status = IF e.step + 1 >= N THEN "COMPLETED" ELSE @]

\* As if a sent step were not put behind the customer.
BugForgetsAdvance(u, c) == enr[c]

\* _advance, on rows read anew after the commit.
Advanced(u, c) ==
    IF c \notin Sent(u) THEN enr[c]
    ELSE [enr[c] EXCEPT
            !.step = IF @ < N THEN @ + 1 ELSE @,
            !.status = IF enr[c].step + 1 >= N THEN "COMPLETED" ELSE @]

\* As if a customer who was stopped counted as unfinished.
BugStoppedUnfinished(rows) ==
    /\ \E c \in Customer : rows[c] # Null
    /\ \A c \in Customer : rows[c] # Null => rows[c].status = "COMPLETED"

\* _has_enrollments and _all_enrollments_finished.
AllFinished(rows) ==
    /\ \E c \in Customer : rows[c] # Null
    /\ \A c \in Customer : rows[c] # Null => rows[c].status # "ACTIVE"

\* _advance and the end of run: the third commit.
Advance(w) ==
    /\ run[w] # Null
    /\ run[w].pc = "advance"
    /\ enr' = [c \in Customer |-> Advanced(run[w], c)]
    /\ status' = IF EndDay <= run[w].now \/ (~ Rolling /\ AllFinished(enr'))
                 THEN "COMPLETED" ELSE status
    /\ run' = [run EXCEPT ![w] = Null]
    /\ UNCHANGED <<clock, optedOut, ordered, ledger, calls, spent, requests>>

\* An exception or a restart: what is not committed is gone.
Crash(w) ==
    /\ run[w] # Null
    /\ Spend("crashes", MaxCrashes)
    /\ run' = [run EXCEPT ![w] = Null]
    /\ UNCHANGED <<clock, status, people, ledger, calls, requests>>

RunStep(w) ==
    BeginLive(w) \/ BeginDry(w) \/ Gate(w) \/ Call(w) \/ CommitSends(w) \/ Advance(w)

---------------------------------------------------------------------------
(* Requests. *)

SetStatus(c, s) == enr' = [enr EXCEPT ![c].status = s]

\* The request has loaded the row of c and found the status it asks for.
Ask(o, c, to) ==
    /\ holding[o] = Null
    /\ Spend("controls", MaxControls)
    /\ holding' = [holding EXCEPT ![o] =
                     [customer |-> c, read |-> enr[c].status, to |-> to]]
    /\ UNCHANGED <<clock, status, people, ledger, calls, run, revived>>

MayPause(c) == enr[c].status = "ACTIVE"

PauseEnrollment(o, c) == c \in Enrolled /\ MayPause(c) /\ Ask(o, c, "PAUSED")

\* As if anybody who is not active could be resumed.
BugResumeAnything(c) == enr[c].status # "ACTIVE"

MayResume(c) == enr[c].status = "PAUSED"

ResumeEnrollment(o, c) == c \in Enrolled /\ MayResume(c) /\ Ask(o, c, "ACTIVE")

\* The commit of set_enrollment_paused, over the status as it is by now.
Answer(o) ==
    /\ holding[o] # Null
    /\ LET c == holding[o].customer IN
       /\ SetStatus(c, holding[o].to)
       /\ revived' = IF enr[c].status \in Done THEN revived \cup {c} ELSE revived
    /\ holding' = [holding EXCEPT ![o] = Null]
    /\ UNCHANGED <<clock, status, optedOut, ordered, ledger, calls, run, spent>>

\* Already-enrolled customers are left exactly as they are.
MayAdd(c) == c \notin Enrolled \cup Inserting

\* enroll_customers, for one customer; enroll, called by POST .../enroll, adds
\* the same rows.
AddEnrollment(c) ==
    /\ MayAdd(c)
    /\ RoomToJoin
    /\ \E b \in BackDating : enr' = [enr EXCEPT ![c] = NewEnrollment(b)]
    /\ ordered' = ordered \ {c}
    /\ Spend("controls", MaxControls)
    /\ UNCHANGED <<clock, status, optedOut, ledger, calls, run, requests>>

\* apply_global_opt_out stops the active enrollments that are committed.
OptOut(c) ==
    /\ c \notin optedOut
    /\ Spend("controls", MaxControls)
    /\ optedOut' = optedOut \cup {c}
    /\ IF enr[c] # Null /\ enr[c].status = "ACTIVE"
       THEN SetStatus(c, "STOPPED") ELSE UNCHANGED enr
    /\ UNCHANGED <<clock, status, ordered, ledger, calls, run, requests>>

\* apply_opt_in leaves the enrollments as they are.
OptIn(c) ==
    /\ c \in optedOut
    /\ Spend("optIns", MaxOptIns)
    /\ optedOut' = optedOut \ {c}
    /\ UNCHANGED <<clock, status, enr, ordered, ledger, calls, run, requests>>

PlaceOrder(c) ==
    /\ Spend("orders", MaxOrders)
    /\ ordered' = ordered \cup {c}
    /\ UNCHANGED <<clock, status, enr, optedOut, ledger, calls, run, requests>>

\* pause, activate and resume of the automation: activate asks for no status.
SetAutomation ==
    /\ status' \in {"ACTIVE", "PAUSED"} \ {status}
    /\ Spend("controls", MaxControls)
    /\ UNCHANGED <<clock, people, ledger, calls, run, requests>>

\* Another automation messages the customer and takes the day.
OtherMessage(c) ==
    /\ <<c, clock>> \notin claimed
    /\ claimed' = claimed \cup {<<c, clock>>}
    /\ Spend("others", MaxOthers)
    /\ UNCHANGED <<clock, status, people, recorded, calls, run, requests>>

\* The next day begins; after MaxDay it is MaxDay again, with nothing claimed.
Tick ==
    /\ IF clock < MaxDay
       THEN clock' = clock + 1 /\ UNCHANGED claimed
       ELSE claimed' = claimed \ (Customer \X {MaxDay}) /\ UNCHANGED clock
    /\ UNCHANGED <<status, people, recorded, calls, run, spent, requests>>

Request(c) ==
    \/ \E o \in Operator : PauseEnrollment(o, c) \/ ResumeEnrollment(o, c)
    \/ AddEnrollment(c) \/ OptOut(c) \/ OptIn(c) \/ PlaceOrder(c) \/ OtherMessage(c)

Next ==
    \/ \E w \in Worker : RunStep(w) \/ Crash(w)
    \/ \E c \in Customer : Request(c)
    \/ \E o \in Operator : Answer(o)
    \/ SetAutomation
    \/ Tick

\* The scheduler runs an active automation every few minutes, previews of it or
\* not, and time passes.
Fairness ==
    /\ \A w \in Worker : WF_vars(RunStep(w)) /\ SF_vars(BeginLive(w))
    /\ WF_vars(Tick)

Spec == Init /\ [][Next]_vars /\ Fairness

---------------------------------------------------------------------------
(* Properties. *)

TypeOK ==
    /\ clock \in 0 .. MaxDay
    /\ status \in {"ACTIVE", "PAUSED", "COMPLETED"}
    /\ enr \in [Customer -> Enrollment \cup {Null}]
    /\ optedOut \subseteq Customer /\ ordered \subseteq Customer
    /\ claimed \subseteq Customer \X (0 .. MaxDay)
    /\ recorded \subseteq Customer \X (1 .. N)
    /\ calls \in [Customer -> [1 .. N -> Nat]]
    /\ run \in [Worker -> Run \cup {Null}]
    /\ holding \in [Operator -> Held \cup {Null}]
    /\ revived \subseteq Customer
    /\ spent \in [{"crashes", "controls", "optIns", "others", "held", "orders"} -> Nat]

\* A step that lost a contest or was held back is retried, not consumed: every
\* step behind a customer was either sent or already stale when they joined.
NoStepSwallowed ==
    \A c \in Enrolled :
        \A i \in 1 .. enr[c].step : calls[c][i] > 0 \/ Stale(enr[c], i)

\* The provider accepts each step at most once for a customer, and once more for
\* each run that is lost after sending.
StepSentOnce ==
    \A c \in Customer : \A i \in 1 .. N : calls[c][i] <= 1 + spent.crashes

\* A step that the ledger records as sent is not sent again, after a crash of
\* the run either.
RecordedNotResent ==
    [][\A c \in Customer, i \in 1 .. N :
         calls'[c][i] # calls[c][i] => <<c, i>> \notin recorded]_vars

\* Nobody gets the backlog: a step whose moment passed longer before joining
\* than the grace allows is not sent (a customer whose enrollment is lost with a
\* run may join again with another moment).
NoBacklog ==
    \A c \in Enrolled : \A i \in 1 .. N :
        calls[c][i] > 0 => ~ Stale(enr[c], i) \/ spent.crashes > 0

\* Both hold at once: each step of an enrollment is sent in its turn or was too
\* old when the customer joined, never both and never neither.
StepsAccountedFor == NoStepSwallowed /\ NoBacklog

\* "They get nothing and the enrollment completes": an enrollment with no step
\* left is not active.
NothingLeftIsFinished ==
    \A c \in Enrolled : enr[c].step = N => enr[c].status # "ACTIVE"

InHand(w, c) == run[w] # Null /\ run[w].cur = c

\* A stopped enrollment receives no later step: no gate lets anything through for
\* it, and the provider gets for it at most what a run had let through before it
\* was stopped, unless the customer opts in again while a run is under way.
StoppedGetsNothing ==
    [][\A c \in Enrolled :
         enr[c].status = "STOPPED" /\ spent.optIns = 0 =>
             /\ \A w \in Worker : InHand(w, c)' => InHand(w, c)
             /\ calls'[c] # calls[c] => \E w \in Worker : InHand(w, c) /\ ~ InHand(w, c)']_vars

\* Nothing at all, not even what was let through before.
NothingAfterStop ==
    [][\A c \in Enrolled :
         enr[c].status = "STOPPED" /\ spent.optIns = 0 => calls'[c] = calls[c]]_vars

\* A customer is enrolled at most once and keeps the clock they joined with.
EnrolledOnce ==
    [][\A c \in Enrolled :
         /\ enr'[c] # Null
         /\ enr'[c].joined = enr[c].joined /\ enr'[c].back = enr[c].back
         /\ enr'[c].step >= enr[c].step]_vars

\* The operator answers for c, on a status from before the enrollment was done.
Overtaken(o, c) ==
    /\ holding[o] # Null /\ holding'[o] = Null
    /\ holding[o].customer = c /\ holding[o].read \notin Done

\* Stopped or completed is the system deciding that the customer is done: no
\* request that finds the enrollment done and no late commit of a run takes it up
\* again, only a pause or a resume that was overtaken by the decision.
NeverRevived ==
    [][\A c \in Enrolled :
         enr[c].status \in Done =>
             enr'[c].status \in Done \/ \E o \in Operator : Overtaken(o, c)]_vars

\* Nothing takes it up again.
DoneStaysDone == revived = {}

\* A dry run must not change state.
DryRunIsInert ==
    [][(\E w \in Worker : run[w] # Null /\ run[w].dry /\ run'[w] = Null)
         => enr' = enr]_vars

\* A pause is reversible: an automation does not complete while a customer who
\* has steps left is paused.
PausedKeepsPlace ==
    status = "COMPLETED" /\ clock < EndDay =>
        \A c \in Enrolled : enr[c].status # "PAUSED"

InProgress(c) == c \in Enrolled /\ enr[c].status = "ACTIVE"

\* Nothing will end the enrollment: every step was stale when the customer joined,
\* or a request took it up again with every step behind it.
Endless(c) ==
    \/ \A i \in 1 .. N : Stale(enr[c], i)
    \/ c \in revived /\ enr[c].step = N

\* Every active enrollment comes to an end, but for those two: its steps go out, or
\* it is stopped or paused, or its automation is.
EnrollmentEnds ==
    \A c \in Customer :
        InProgress(c) /\ status = "ACTIVE" ~>
            ~ InProgress(c) \/ Endless(c) \/ status # "ACTIVE"

NobodyLeft == Enrolled # {} /\ \A c \in Customer : ~ InProgress(c)

\* A locked cohort whose customers are all done completes its automation.
CohortCompletes ==
    NobodyLeft ~> status # "ACTIVE" \/ ~ NobodyLeft

\* Both: nobody is left active, and the automation that is done completes.
EnrollmentsEnd == EnrollmentEnds /\ CohortCompletes
=============================================================================

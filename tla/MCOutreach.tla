----------------------------- MODULE MCOutreach -----------------------------
(***************************************************************************)
(* The two schedules that reach customers beside campaigns and sequences:  *)
(* the nudge automation and the journey, over the same customers and the   *)
(* same opt-outs. The code keeps no other state in common between them; a  *)
(* behaviour follows one of the two, so that each meets everything that    *)
(* can happen to it.                                                       *)
(***************************************************************************)
EXTENDS NudgeSchedule, Sequences

CONSTANTS Programs, N, AllowReentry, MaxDays, MaxEdits, MaxReentries   \* of the journey

VARIABLES scene, status, program, edition, place, age, session, calls, tried, displaced, spent

Step(kind) == [kind |-> kind, days |-> 0]
WaitFor(days) == [kind |-> "wait", days |-> days]

\* Every kind of step, waits before and between messages, ends early and late.
MCPrograms ==
    {<<Step("send"), WaitFor(2), Step("send")>>,
     <<WaitFor(1), Step("check"), Step("send"), Step("end")>>,
     <<Step("trigger"), Step("until"), Step("do"), Step("send")>>,
     <<Step("check")>>}

\* One run of a journey at a time: runs are requests, and nothing keeps two
\* that overlap from each sending a step.
Runner == {Scheduler}

J == INSTANCE Journey

ASSUME JourneyAssumption ==
    /\ Programs \subseteq Seq([kind : J!Kinds, days : Nat])
    /\ N \in Nat /\ MaxDays \in Nat

journey == <<status, program, edition, place, age, session, calls, tried, displaced, spent>>
nudge == <<today, enr, claims, since, unsure, run, ran, crashes>>
all == <<scene, journey, nudge, optedOut>>

MCInit ==
    /\ Init /\ J!Init
    /\ \/ scene = "nudge" /\ program = (CHOOSE p \in Programs : J!Valid(p))
       \/ scene = "journey"

MCNext ==
    \/ scene = "nudge" /\ Next /\ UNCHANGED <<scene, journey>>
    \/ scene = "journey" /\ J!Next /\ UNCHANGED <<scene, nudge>>

MCSpec == MCInit /\ [][MCNext]_all /\ (scene = "nudge" => Fairness)

\* "Reliable execution" of a journey (docs/architecture.md:186): no step is left
\* out or repeated.
StepsTakenOnce == J!EachStepOnce

\* A journey waits as long as it says, and lets go of whoever has left it.
WaitsAreKept == [][J!InTime]_journey
=============================================================================

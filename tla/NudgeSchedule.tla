--------------------------- MODULE NudgeSchedule ----------------------------
(***************************************************************************)
(* The standing audience of a nudge automation                             *)
(* (backend/app/automations/nudge.py): who is enrolled, when each customer *)
(* is next due, and what the runs, the refresh of the patterns and the     *)
(* opt-outs do to that.                                                    *)
(*                                                                         *)
(* The calendar is a week of `Week` days with one slot each; time goes     *)
(* from slot to slot. A habit is the weekday whose slot the customer's     *)
(* nudge falls on (OrderPattern computes it from orders). Moments are kept *)
(* relative to today: `due` is the number of days until a nudge is due,    *)
(* zero or less once it is; `last` the days since last_sent_at, no more    *)
(* than `Gap`. A run is over before the next slot.                         *)
(* Orders and the age of a pattern are inputs of each refresh: the habit   *)
(* the orders show, the patterns that are old, the orders in flight.       *)
(* Whether a message goes is the send pipeline's decision (SendPipeline):  *)
(* here a candidate is sent or not, but a claimed day is never sent again. *)
(***************************************************************************)
EXTENDS Integers, FiniteSets

CONSTANTS
    Customer,
    Scheduler,   \* the worker whose job fires every few minutes
    Operator,    \* workers that run the automation when asked to
    Week,        \* days of a week
    Gap,         \* min_gap_days
    Late,        \* bound: how many days a nudge that is overdue is counted
    MaxCrashes,  \* bound: runs that are lost
    Null

ASSUME NudgeAssumption ==
    /\ Week \in Nat \ {0} /\ Gap \in Nat \ {0} /\ Late \in Nat /\ MaxCrashes \in Nat
    /\ Scheduler \notin Operator

Worker == {Scheduler} \cup Operator
Weekday == 0 .. Week - 1
Pattern == Weekday \cup {Null}   \* Null where the orders show none
Habits == [Customer -> Pattern]

VARIABLES
    today,      \* the day of the week
    optedOut,   \* customers who are suppressed or withdrew marketing consent
    enr,        \* the enrollment of each customer, or Null
    claims,     \* the days, relative to today, the ledger claims for a nudge
    since,      \* days since the ledger last recorded a nudge as sent
    unsure,     \* customers whose last_sent_at was lost with a run
    run,        \* what each worker is doing
    ran,        \* the workers that have run the automation today
    crashes

ledger == <<claims, since>>
vars == <<today, optedOut, enr, claims, since, unsure, run, ran, crashes>>

EnrollmentStatus == {"ACTIVE", "PAUSED", "STOPPED"}
Relative == -Late .. Week
Enrollment ==
    [status : EnrollmentStatus, pattern : Pattern, due : Relative \cup {Null}, last : (0 .. Gap) \cup {Null}]

Init ==
    /\ today = 0
    /\ optedOut = {}
    /\ enr = [c \in Customer |-> Null]
    /\ claims = [c \in Customer |-> {}]
    /\ since = [c \in Customer |-> Gap]
    /\ unsure = {}
    /\ run = [w \in Worker |-> Null] /\ ran = {}
    /\ crashes = 0

---------------------------------------------------------------------------
(* Enrolling, refreshing and stopping. *)

\* _due_from_pattern: the next day of the pattern, never today.
DueFromPattern(pattern) ==
    CHOOSE k \in 1 .. Week : (today + k) % Week = pattern

\* enroll: customers without a pattern are left for a later run.
Enroll(rows, habit) ==
    [c \in Customer |->
        IF rows[c] # Null \/ habit[c] = Null THEN rows[c]
        ELSE [status |-> "ACTIVE", pattern |-> habit[c],
              due |-> DueFromPattern(habit[c]), last |-> Null]]

IsActive(e) == e # Null /\ e.status = "ACTIVE"
Stopped(e) == [e EXCEPT !.status = "STOPPED", !.due = Null]

\* refresh_patterns: of the active enrollments, those whose pattern is old.
Refresh(rows, habit, old) ==
    [c \in Customer |->
        IF ~ IsActive(rows[c]) \/ c \notin old THEN rows[c]
        ELSE IF habit[c] = Null THEN [Stopped(rows[c]) EXCEPT !.pattern = Null]
        ELSE [rows[c] EXCEPT !.pattern = habit[c], !.due = DueFromPattern(habit[c])]]

\* _stop_opted_out.
StopOptedOut(rows) ==
    [c \in Customer |->
        IF IsActive(rows[c]) /\ c \in optedOut
        THEN Stopped(rows[c]) ELSE rows[c]]

Active == {c \in Customer : IsActive(enr[c])}

---------------------------------------------------------------------------
(* A live run. *)

\* enroll, refresh_patterns and _stop_opted_out, in one commit.
Prepare(w) ==
    /\ run[w] = Null /\ w \notin ran
    /\ \E habit \in Habits, old \in SUBSET Customer :
         enr' = StopOptedOut(Refresh(Enroll(enr, habit), habit, old))
    /\ run' = [run EXCEPT ![w] = [pc |-> "prepared"]]
    /\ ran' = ran \cup {w}
    /\ UNCHANGED <<today, optedOut, ledger, unsure, crashes>>

\* As if the gap were not looked at.
BugNeverTooSoon(e) == FALSE

TooSoon(e) == e.last # Null /\ e.last < Gap

\* build_candidates: what has come due, with whom to spare for an open order.
Build(w) ==
    /\ run[w] # Null /\ run[w].pc = "prepared"
    /\ LET due == {c \in Active : enr[c].due # Null /\ enr[c].due <= 0 /\ ~ TooSoon(enr[c])}
       IN \E pending \in SUBSET due :
            run' = [run EXCEPT ![w] =
                      [pc |-> "sending", due |-> [c \in due |-> enr[c].due],
                       spared |-> pending, sent |-> {}]]
    /\ UNCHANGED <<today, optedOut, enr, ledger, unsure, ran, crashes>>

\* execute_candidates, up to the commit: each candidate whose day nobody claims
\* may be sent. The customers are read before the first message goes.
Send(w) ==
    /\ run[w] # Null /\ run[w].pc = "sending"
    /\ \E sent \in SUBSET {c \in DOMAIN run[w].due \ run[w].spared :
                             run[w].due[c] \notin claims[c] /\ c \notin optedOut} :
         run' = [run EXCEPT ![w] = [@ EXCEPT !.pc = "sent", !.sent = sent]]
    /\ UNCHANGED <<today, optedOut, enr, ledger, unsure, ran, crashes>>

\* The commit of the batch: a message whose day another run has claimed since
\* collides, and is recorded as a duplicate.
Commit(w) ==
    /\ run[w] # Null /\ run[w].pc = "sent"
    /\ LET kept == {c \in run[w].sent : run[w].due[c] \notin claims[c]}
       IN /\ claims' = [c \in Customer |->
                          IF c \in kept THEN claims[c] \cup {run[w].due[c]} ELSE claims[c]]
          /\ since' = [c \in Customer |-> IF c \in kept THEN 0 ELSE since[c]]
          /\ run' = [run EXCEPT ![w] = [@ EXCEPT !.pc = "committed", !.sent = kept]]
    /\ UNCHANGED <<today, optedOut, enr, unsure, ran, crashes>>

\* As if only a nudge that was sent were put off to the next slot.
BugOnlySentMoves(w, c) ==
    IF c \in run[w].sent /\ enr[c].pattern # Null
    THEN [enr[c] EXCEPT !.last = 0, !.due = DueFromPattern(enr[c].pattern)]
    ELSE enr[c]

\* _reschedule, on the enrollment as it is now.
Rescheduled(w, c) ==
    LET e == enr[c]
    IN [e EXCEPT !.due = IF e.pattern = Null THEN Null ELSE DueFromPattern(e.pattern),
                 !.last = IF c \in run[w].sent THEN 0 ELSE @]

\* The skips for open orders, _reschedule and the last commit.
Reschedule(w) ==
    /\ run[w] # Null /\ run[w].pc = "committed"
    /\ enr' = [c \in Customer |->
                 IF c \in DOMAIN run[w].due THEN Rescheduled(w, c) ELSE enr[c]]
    /\ unsure' = unsure \ run[w].sent
    /\ run' = [run EXCEPT ![w] = Null]
    /\ UNCHANGED <<today, optedOut, ledger, ran, crashes>>

\* The process is lost. What the run sent and committed is not remembered by
\* the enrollments it did not get to.
Crash(w) ==
    /\ run[w] # Null
    /\ crashes < MaxCrashes
    /\ crashes' = crashes + 1
    /\ unsure' = IF run[w].pc = "committed" THEN unsure \cup run[w].sent ELSE unsure
    /\ run' = [run EXCEPT ![w] = Null]
    /\ ran' = ran \ {w}
    /\ UNCHANGED <<today, optedOut, enr, ledger>>

GoOn(w) == Build(w) \/ Send(w) \/ Commit(w) \/ Reschedule(w)
RunStep(w) == Prepare(w) \/ GoOn(w)

---------------------------------------------------------------------------
(* Requests and jobs. *)

Unmoved == <<today, ledger, unsure, run, ran, crashes>>

\* POST .../enroll.
EnrollNow ==
    /\ \E habit \in Habits : enr' = Enroll(enr, habit)
    /\ UNCHANGED <<optedOut, Unmoved>>

\* The daily job, or POST .../refresh-patterns, which may force it: then all are old.
RefreshNow ==
    /\ \E habit \in Habits, old \in SUBSET Customer : enr' = Refresh(enr, habit, old)
    /\ UNCHANGED <<optedOut, Unmoved>>

\* set_enrollment_paused.
Pause(c) ==
    /\ c \in Active
    /\ enr' = [enr EXCEPT ![c].status = "PAUSED"]
    /\ UNCHANGED <<optedOut, Unmoved>>

Resume(c) ==
    /\ enr[c] # Null /\ enr[c].status = "PAUSED"
    /\ enr' = [enr EXCEPT ![c].status = "ACTIVE"]
    /\ UNCHANGED <<optedOut, Unmoved>>

\* _stop_enrollments of apply_global_opt_out: the due date stays.
OptOut(c) ==
    /\ c \notin optedOut
    /\ optedOut' = optedOut \cup {c}
    /\ enr' = IF c \in Active THEN [enr EXCEPT ![c].status = "STOPPED"] ELSE enr
    /\ UNCHANGED Unmoved

\* apply_opt_in leaves the enrollments as they are.
OptIn(c) ==
    /\ c \in optedOut
    /\ optedOut' = optedOut \ {c}
    /\ UNCHANGED <<enr, Unmoved>>

---------------------------------------------------------------------------
(* Time. *)

Earlier(day) == IF day > -Late THEN day - 1 ELSE day
More(days) == IF days < Gap THEN days + 1 ELSE days

DayPasses ==
    /\ \A w \in Worker : run[w] = Null
    /\ today' = (today + 1) % Week
    /\ enr' = [c \in Customer |->
                 IF enr[c] = Null THEN Null
                 ELSE [enr[c] EXCEPT !.due = IF @ = Null THEN Null ELSE Earlier(@),
                                     !.last = IF @ = Null THEN Null ELSE More(@)]]
    /\ claims' = [c \in Customer |-> {Earlier(d) : d \in claims[c]}]
    /\ since' = [c \in Customer |-> More(since[c])]
    /\ ran' = {}
    /\ UNCHANGED <<optedOut, unsure, run, crashes>>

Next ==
    \/ \E w \in Worker : RunStep(w) \/ Crash(w)
    \/ \E c \in Customer :
         Pause(c) \/ Resume(c) \/ OptOut(c) \/ OptIn(c)
    \/ EnrollNow \/ RefreshNow
    \/ DayPasses

\* The scheduler's job fires every few minutes (bound: one run a day that is not
\* lost), a run that began goes on, and days pass between runs.
Fairness ==
    /\ WF_vars(RunStep(Scheduler))
    /\ \A w \in Operator : WF_vars(GoOn(w))
    /\ WF_vars(DayPasses)

Spec == Init /\ [][Next]_vars /\ Fairness

---------------------------------------------------------------------------
(* Properties. *)

Run ==
    UNION {[pc : {"prepared"}],
           UNION {[pc : {"sending", "sent", "committed"}, due : [D -> Relative],
                   spared : SUBSET D, sent : SUBSET D] : D \in SUBSET Customer}}

TypeOK ==
    /\ today \in Weekday
    /\ optedOut \subseteq Customer /\ ran \subseteq Worker
    /\ enr \in [Customer -> Enrollment \cup {Null}]
    /\ claims \in [Customer -> SUBSET Relative]
    /\ since \in [Customer -> 0 .. Gap]
    /\ unsure \subseteq Customer
    /\ run \in [Worker -> Run \cup {Null}]
    /\ crashes \in 0 .. MaxCrashes

\* What the automation promises: nobody is nudged more often than the gap allows,
\* whichever runs, refreshes and pauses come between (`_too_soon` and
\* `_reschedule`), except where a run is lost after it sent.
Promise == INSTANCE SpacedContact WITH forgotten <- unsure
NudgesApart == Promise!Spec

\* A nudge that has come due does not stay due: it is sent, put off to another
\* slot, or its enrollment is paused or stopped.
IsDue(c) == c \in Active /\ enr[c].due # Null /\ enr[c].due <= 0
DueIsHandled == \A c \in Customer : IsDue(c) ~> ~ IsDue(c)

=============================================================================

------------------------------ MODULE Journey -------------------------------
(***************************************************************************)
(* A journey (backend/app/journeys/engine.py, api/v1/journeys.py): an      *)
(* ordered list of steps, and the place each customer holds in it.         *)
(*                                                                         *)
(* A run is one database session. It loads the active customers and the    *)
(* steps, takes one customer after another as far as they go, and commits  *)
(* at the end; but drafting a message commits too (`Draft`), and after a   *)
(* commit the session reads rows again when it next needs them. What a run *)
(* has changed and not committed is its `changed`: a field it has not set  *)
(* is not written. Requests commit at once. Days pass between runs only.   *)
(***************************************************************************)
EXTENDS Integers, Sequences

CONSTANTS
    Customer, Runner,
    Programs,     \* the lists of steps an operator may give the journey
    N,            \* the length of the longest
    AllowReentry, \* allow_reentry
    MaxDays,      \* bound: days counted since a customer entered
    MaxEdits, MaxReentries, MaxCrashes,  \* bounds
    Null

VARIABLES
    status,     \* of the journey
    program,    \* its steps
    edition,    \* how often they were replaced: every step is a new row then
    place,      \* JourneyCustomerState of each customer, or Null
    optedOut,
    age,        \* days since each customer entered
    session,    \* what each runner is doing
    calls,      \* per customer and step, messages the provider took this entry
    tried,      \* steps of this entry that were worked on
    displaced,  \* who entered again during a run, or had the steps replaced
    spent

history == <<calls, tried, displaced>>
vars == <<status, program, edition, place, optedOut, age, session, history, spent>>

\* Steps: a trigger, a wait of some days, a wait for a date or for the usual
\* purchase, a condition, a message, another action, and the end.
Kinds == {"trigger", "wait", "until", "check", "send", "do", "end"}

\* validate_journey: a journey needs an action.
Valid(p) ==
    /\ \A i \in 1 .. Len(p) : p[i].kind \in Kinds
    /\ \E i \in 1 .. Len(p) : p[i].kind \in {"send", "do", "end"}

JourneyStatus == {"DRAFT", "ACTIVE", "PAUSED"}
PlaceStatus == {"ACTIVE", "COMPLETED", "EXITED"}
Field == {"status", "position", "resume"}
JourneyCustomerState ==
    [status : PlaceStatus, position : 0 .. N, resume : 0 .. MaxDays]

Entered == [status |-> "ACTIVE", position |-> 0, resume |-> 0]

Init ==
    /\ status = "DRAFT" /\ program \in {p \in Programs : Valid(p)} /\ edition = 0
    /\ place = [c \in Customer |-> Null]
    /\ optedOut = {}
    /\ age = [c \in Customer |-> 0]
    /\ session = [w \in Runner |-> Null]
    /\ calls = [c \in Customer |-> [i \in 1 .. N |-> 0]]
    /\ tried = [c \in Customer |-> {}]
    /\ displaced = {}
    /\ spent = [edits |-> 0, reentries |-> 0, crashes |-> 0]

Spend(what, most) ==
    /\ spent[what] < most
    /\ spent' = [spent EXCEPT ![what] = @ + 1]

Idle == \A w \in Runner : session[w] = Null
Journeying(c) == place[c] # Null /\ place[c].status = "ACTIVE"

---------------------------------------------------------------------------
(* Requests. *)

\* create, activate and pause; activate asks for no status.
SetStatus ==
    /\ status' \in (IF Valid(program) THEN {"ACTIVE", "PAUSED"} ELSE {"PAUSED"}) \ {status}
    /\ UNCHANGED <<program, edition, place, optedOut, age, session, history, spent>>

\* update, with new steps: the places customers hold stay as they are.
ReplaceNodes ==
    /\ Spend("edits", MaxEdits)
    /\ program' \in {p \in Programs : Valid(p)}
    /\ edition' = edition + 1
    /\ displaced' = displaced \cup {c \in Customer : place[c] # Null}
    /\ calls' = [c \in Customer |-> [i \in 1 .. N |-> 0]]
    /\ tried' = [c \in Customer |-> {}]
    /\ UNCHANGED <<status, place, optedOut, age, session>>

MayEnter(c) == place[c] = Null \/ AllowReentry

\* enrol_customers, of some who match the trigger: whoever enters again starts
\* over, from wherever they are.
Enrol ==
    /\ status = "ACTIVE"
    /\ \E eligible \in SUBSET {c \in Customer : MayEnter(c)} :
         /\ eligible # {}
         /\ IF \A c \in eligible : place[c] = Null THEN UNCHANGED spent
            ELSE Spend("reentries", MaxReentries)
         /\ place' = [c \in Customer |-> IF c \in eligible THEN Entered ELSE place[c]]
         /\ age' = [c \in Customer |-> IF c \in eligible THEN 0 ELSE age[c]]
         /\ calls' = [c \in Customer |->
                        IF c \in eligible THEN [i \in 1 .. N |-> 0] ELSE calls[c]]
         /\ tried' = [c \in Customer |-> IF c \in eligible THEN {} ELSE tried[c]]
         /\ displaced' = IF Idle THEN displaced \ eligible ELSE displaced \cup eligible
    /\ UNCHANGED <<status, program, edition, optedOut, session>>

\* apply_global_opt_out and apply_opt_in, which know nothing of journeys.
OptOutOrIn(c) ==
    /\ optedOut' = IF c \in optedOut THEN optedOut \ {c} ELSE optedOut \cup {c}
    /\ UNCHANGED <<status, program, edition, place, age, session, history, spent>>

DayPasses ==
    /\ Idle
    /\ \E c \in Customer : age[c] < MaxDays
    /\ age' = [c \in Customer |-> IF age[c] < MaxDays THEN age[c] + 1 ELSE MaxDays]
    /\ place' = [c \in Customer |->
                   IF place[c] = Null \/ place[c].resume = 0 THEN place[c]
                   ELSE [place[c] EXCEPT !.resume = @ - 1]]
    /\ UNCHANGED <<status, program, edition, optedOut, session, history, spent>>

---------------------------------------------------------------------------
(* A run. *)

World == <<status, program, edition, optedOut, age>>

At(w, pc) == session[w] # Null /\ session[w].pc = pc
Mine(w) == session[w].customer

\* The row of customer c as the session has it.
Seen(w, c) == IF session[w].loaded[c] = Null THEN place[c] ELSE session[w].loaded[c]

Update(w, s) == session' = [session EXCEPT ![w] = s]

\* The session once it has set some fields of the row it works on.
With(w, fields, row, pc) ==
    [session[w] EXCEPT !.pc = pc, !.loaded[Mine(w)] = row, !.changed[Mine(w)] = @ \cup fields]

\* A step that is done is logged.
Logged(s) == [s EXCEPT !.logged = TRUE]

\* The rows as a commit of w leaves them.
Written(w) ==
    [c \in Customer |->
        IF place[c] = Null \/ session[w].changed[c] = {} THEN place[c]
        ELSE LET Of(f) == IF f \in session[w].changed[c]
                          THEN session[w].loaded[c][f] ELSE place[c][f]
             IN [status |-> Of("status"), position |-> Of("position"),
                 resume |-> Of("resume")]]

Expired == [c \in Customer |-> Null]
Clean == [c \in Customer |-> {}]

\* Something fails that nobody catches, or the process is lost.
Abort(w) == Update(w, Null)

\* The status is read once, the customers and the steps as they are now.
BeginRun(w) ==
    /\ session[w] = Null
    /\ status = "ACTIVE"
    /\ Update(w,
         [pc |-> "next", todo |-> {c \in Customer : Journeying(c)}, customer |-> Null,
          nodes |-> program, edition |-> edition, reread |-> FALSE, logged |-> FALSE,
          loaded |-> place, changed |-> Clean])
    /\ UNCHANGED <<World, place, history, spent>>

\* Takes up a customer whose wait is over, and passes over one who waits.
Visit(w) ==
    /\ At(w, "next")
    /\ \E c \in session[w].todo :
         LET row == Seen(w, c)
             awake == row.resume = 0
         IN Update(w, [session[w] EXCEPT
                !.todo = @ \ {c}, !.loaded[c] = row,
                !.customer = IF awake THEN c ELSE Null,
                !.pc = IF awake THEN "step" ELSE "next"])
    /\ UNCHANGED <<World, place, history, spent>>

Row(w) == Seen(w, Mine(w))
Position(w) == Row(w).position + 1   \* of the next step, counted from one
Node(w) == session[w].nodes[Position(w)]

\* The steps were loaded before a commit and have been replaced since.
Gone(w) == session[w].edition # edition /\ session[w].reread

OnStep(w, kind) ==
    /\ At(w, "step")
    /\ Position(w) <= Len(session[w].nodes)
    /\ ~ Gone(w)
    /\ Node(w).kind = kind

Forward(w) == [Row(w) EXCEPT !.position = @ + 1]

\* The steps the session holds are no longer there.
StepGone(w) ==
    /\ At(w, "step") \/ At(w, "drafted")
    /\ Gone(w)
    /\ Abort(w)
    /\ UNCHANGED <<World, place, history, spent>>

PastTheEnd(w) ==
    /\ At(w, "step")
    /\ Position(w) > Len(session[w].nodes)
    /\ Update(w, With(w, {"status"}, [Row(w) EXCEPT !.status = "COMPLETED"], "next"))
    /\ UNCHANGED <<World, place, history, spent>>

\* As if the day the customer entered counted as a whole day.
BugCountsEntryDay(w, c) == Node(w).days - age[c] - 1

\* _delay_until, from the moment the customer entered.
WaitLeft(w, c) == Node(w).days - age[c]

Wait(w) ==
    /\ OnStep(w, "wait") \/ OnStep(w, "until") \/ OnStep(w, "trigger")
    /\ \E left \in CASE Node(w).kind = "wait" -> {WaitLeft(w, Mine(w))}
                    [] Node(w).kind = "until" -> 0 .. MaxDays
                    [] Node(w).kind = "trigger" -> {0} :
         IF left > 0
         THEN Update(w, Logged(With(w, {"resume"}, [Row(w) EXCEPT !.resume = left], "next")))
         ELSE Update(w, With(w, {"position"}, Forward(w), "step"))
    /\ UNCHANGED <<World, place, history, spent>>

\* A condition that fails is the way out of the journey.
Condition(w) ==
    /\ OnStep(w, "check")
    /\ \E passed \in BOOLEAN :
         Update(w, Logged(
           IF passed THEN With(w, {"position"}, Forward(w), "step")
           ELSE With(w, {"status"}, [Row(w) EXCEPT !.status = "EXITED"], "next")))
    /\ UNCHANGED <<World, place, history, spent>>

EndJourney(w) ==
    /\ OnStep(w, "end")
    /\ Update(w, Logged(With(w, {"position", "status"},
                             [Forward(w) EXCEPT !.status = "COMPLETED"], "next")))
    /\ UNCHANGED <<World, place, history, spent>>

\* As if the customer stayed at a step that was not sent.
BugStays(w, c) == Seen(w, c)

\* The step is behind the customer, sent or not.
Passed(w, c) == [Seen(w, c) EXCEPT !.position = @ + 1]

Advance(w) == Update(w, Logged(With(w, {"position"}, Passed(w, Mine(w)), "step")))

Try(w) == tried' = [tried EXCEPT ![Mine(w)] = @ \cup {Position(w)}]

\* A segment is changed, or an alert is raised.
Act(w) == OnStep(w, "do") /\ Advance(w) /\ UNCHANGED <<World, place, history, spent>>

\* check_recipient refuses: opted out, or another rule.
Blocked(w) ==
    /\ OnStep(w, "send")
    /\ Advance(w)
    /\ Try(w)
    /\ UNCHANGED <<World, place, calls, displaced, spent>>

\* generate_message commits the draft, and everything else the session holds;
\* that fails if it has logged a step that was replaced.
Draft(w) ==
    /\ OnStep(w, "send")
    /\ Mine(w) \notin optedOut
    /\ IF session[w].logged /\ session[w].edition # edition
       THEN Abort(w) /\ UNCHANGED place
       ELSE /\ place' = Written(w)
            /\ Update(w, [session[w] EXCEPT !.pc = "drafted", !.reread = TRUE, !.logged = FALSE,
                                             !.loaded = Expired, !.changed = Clean])
    /\ UNCHANGED <<World, history, spent>>

\* The message is sent, or refused by validation or the provider.
Deliver(w) ==
    /\ At(w, "drafted")
    /\ ~ Gone(w)
    /\ \E accepted \in {0, 1} :
         calls' = [calls EXCEPT ![Mine(w)][Position(w)] = @ + accepted]
    /\ Try(w)
    /\ Advance(w)
    /\ UNCHANGED <<World, place, displaced, spent>>

\* The commit at the end.
Finish(w) ==
    /\ At(w, "next") /\ session[w].todo = {}
    /\ place' = IF session[w].logged /\ session[w].edition # edition THEN place
                ELSE Written(w)
    /\ Abort(w)
    /\ UNCHANGED <<World, history, spent>>

Crash(w) ==
    /\ session[w] # Null
    /\ Spend("crashes", MaxCrashes)
    /\ Abort(w)
    /\ UNCHANGED <<World, place, history>>

RunStep(w) ==
    \/ BeginRun(w) \/ Visit(w) \/ StepGone(w) \/ PastTheEnd(w)
    \/ Wait(w) \/ Condition(w) \/ Act(w) \/ EndJourney(w)
    \/ Blocked(w) \/ Draft(w) \/ Deliver(w) \/ Finish(w)

Next ==
    \/ \E w \in Runner : RunStep(w) \/ Crash(w)
    \/ SetStatus \/ ReplaceNodes \/ Enrol
    \/ \E c \in Customer : OptOutOrIn(c)
    \/ DayPasses

Spec == Init /\ [][Next]_vars

---------------------------------------------------------------------------
(* Properties. *)

Sent(c, i) == calls'[c][i] > calls[c][i]

\* While nobody moves a customer about, a step is behind them only once it was
\* worked on, and the provider takes it once, and once more for each run that
\* is lost.
EachStepOnce ==
    \A c \in Customer \ displaced : place[c] # Null =>
      /\ \A i \in 1 .. Len(program) :
           program[i].kind = "send" /\ i <= place[c].position => i \in tried[c]
      /\ \A i \in 1 .. N : calls[c][i] <= 1 + spent.crashes

\* No message goes before the waits ahead of it are over, counted from when the
\* customer entered, and none goes to a customer who has left the journey.
InTime ==
    \A c \in Customer, i \in 1 .. N :
        Sent(c, i) /\ c \notin displaced =>
            /\ \A j \in 1 .. i - 1 : program[j].kind = "wait" => age[c] >= program[j].days
            /\ place[c].status = "ACTIVE"

KeepsTime == [][InTime]_vars

=============================================================================

# Verification of the Gimme retention platform

TLA+ models, model-checking runs and machine-checked proofs of the parts of
this repository that decide **who receives which message, what is known of a
customer, and who is charged for what**. The reference is the code; each
definition of a model names the lines it stands for in `PROJECT.json` (`map`).

* [1. The system](#1-the-system)
* [2. Modules](#2-modules)
* [3. Runs](#3-runs)
* [4. Bounds](#4-bounds)
* [5. Fairness](#5-fairness)
* [6. Theorems](#6-theorems)
* [7. Where the code and its documentation part](#7-where-the-code-and-its-documentation-part)
* [8. What is not modelled](#8-what-is-not-modelled)
* [9. What is left](#9-what-is-left)

To reproduce a run: `tlc -config <run>.cfg <module>.tla`; to check the proofs of
a module: `tlapm <module>Proofs.tla`.

## 1. The system

Two programs share the repository. `backend/` is a FastAPI service over a SQL
database: it stores customers and orders, computes scores from them, and sends
messages through campaigns, automations and journeys; an APScheduler thread runs
what is due while request threads serve the API. `voice-commerce/` is a
TypeScript service that lets a voice assistant build a basket, confirm it, pay
for it and place the order. `frontend/` displays the first and holds no state of
its own.

### Inventory

Paths are under `backend/app/` unless they begin with `voice-commerce/`.

| component | state it keeps | operations | interacts with | what makes it correct |
|---|---|---|---|---|
| send pipeline (`automations/runtime.py`, `core/timezones.py`) | `automation_sends` (the ledger), its open transaction | `execute_candidates`: read claims, gate, dispatch, record, commit; `resolve_send_time` | called by cohorts, nudges, sequences; calls compliance, adapters, events | one message per customer and day, no duplicate, cap and consent honoured, everything sent is on record |
| delivery reports (`automations/delivery.py`, `api/v1/integrations.py`) | status of ledger rows, events | `apply_delivery_event`, the webhook | called by providers | progress goes one way; a report counts once |
| automation lifecycle (`automations/service.py`) | `automations` row: status, approval, next run, copy | approve, activate, pause, resume, update, replace steps, delete, run due | API, scheduler, the three runners | what is sent was approved; active means scheduled; due means run |
| cohort campaigns (`automations/cohort.py`) | next run | `run`, `next_occurrence`, `variant_for` | pipeline | runs once per occurrence |
| recurring sequences (`automations/sequences.py`) | `automation_enrollments` | enrol, stop, choose and advance steps | pipeline, opt-out, API | steps in order, once, none lost, none to who was stopped; everything ends |
| behavioural nudges (`automations/nudge.py`) | enrollments with due times, order patterns | enrol, refresh, send, reschedule | pipeline | nobody more often than the gap; what is due is handled |
| campaigns (`campaigns/service.py`) | `campaigns`, `campaign_recipients` | check, submit, approve, schedule, snapshot, run, pause, cancel | scheduler, API, compliance | only approved and checked copy, consent at send time, once per customer |
| consent and opt-out (`services/optout.py`, `api/v1/customers.py`) | suppressions, consent flags, enrollments | opt out, opt in, preferences, suppress, import | all senders | nobody who said stop is written to |
| scheduler (`jobs/scheduler.py`) | none | one job per engine | all engines | a failing job does not stop the others |
| compliance engine (`compliance/engine.py`) | none | `check_recipient`, content, targeting and campaign rules | all senders | verdict on current consent and counts; what one check accepts the other does too |
| customer intelligence (`services/intelligence.py`, `churn/`, `rfm/`, `recommendations/`, `segmentation/`, …) | scores, RFM, segments | recompute, rank, evaluate rules | reads orders and events | agrees with the orders; monotone where it ranks |
| communication events, attribution (`services/events.py`, `services/attribution.py`) | events, attributed orders, counters | record, roll up, attribute | senders, webhook, imports | idempotent by key |
| ingestion (`services/ingestion.py`) | customers, orders, items, jobs | import, merge, recompute | API, inbox job | a file does what it says, once; scores follow |
| journeys (`journeys/engine.py`) | places of customers, steps | create, activate, enrol, run | API, senders | every step once, no step early |
| message drafting (`services/messaging.py`, `api/v1/messages.py`, `llm/`) | `messages` | generate, edit, validate, approve, reject | senders | the record is about the words it shows |
| integrations (`integrations/`) | settings | `send_message`, inbox | senders | accepted, refused or no answer |
| order patterns, dashboards (`analytics/`) | none | queries | nudges, API | numeric |
| database, configuration, identity (`core/`, `models/`) | the schema | session per request or job | everything | transactions |
| voice ordering (`voice-commerce/src/core/`, `store/`, `backend/sandbox/`) | sessions, intents, payment records, locks; at the backend holds, orders, reservations | basket to intent, confirm, decline, authorise, place | payment provider, OMS, inventory, pricing | charged only on a yes, for that amount; nothing left behind |
| voice channels, security (`voice-commerce/src/{mcp,adapters,security,audit,events}`) | tokens, audit chain | requests from assistants | voice ordering | allowed or refused |
| frontend (`frontend/src`) | none | API calls | API | – |

### What is hard in it

* **One commit for many outside effects.** `execute_candidates` calls a provider
  per customer and commits once at the end. What the provider has accepted stays
  accepted when the transaction is lost.
* **Read, then act.** Claims, consent flags, enrollments, campaign recipients and
  the rows behind every API request are read at the start of a session and acted
  upon later; there is no version column and no `SELECT … FOR UPDATE`. SQLAlchemy
  writes back only the columns that changed, so crossing requests merge.
* **Two senders of one thing.** The scheduler's job and `POST …/run` run the same
  automation or campaign at once.
* **Several commits in one operation.** A sequence run has up to three, a campaign
  run one per recipient, a journey run one per message it drafts, an import one
  for its rows, one for its result and one per attributed order.
* **Blind writes of what was computed earlier.** Scores, due times and an approval
  are written from what was read before a commit, whatever the row says now.
* **Awaits under a lock, and one without.** In voice ordering an intent is
  protected by `intent:<id>`; the session that points to it is not.
* **Calls that take effect and whose answer is lost**, at message providers,
  payment provider and OMS.

`PROJECT.json` lists each such place under `hazards`, with the properties about it.

## 2. Modules

| module | models | state |
|---|---|---|
| `SendPipeline` | `automations/runtime.py` `execute_candidates`; `delivery.py` `apply_delivery_event`; opt-outs as the pipeline sees them | ledger, events, opt-outs, provider's calls, clock, per worker a session |
| `AutomationLifecycle` | `automations/service.py`, the routes of `api/v1/automations.py`, the ends of `cohort.run` and `sequences.run` | the automation's row, requests with the row they loaded, runs |
| `SequenceEnrollment` | `automations/sequences.py`, the enrollment parts of `service.py` and `optout.py` | enrollments, claims and sends, per worker a run with its uncommitted changes |
| `NudgeSchedule` | `automations/nudge.py`, the enrollment parts of `service.py` and `optout.py` | enrollments with due days, claimed days, runs |
| `SpacedContact` | what a nudge promises (`nudge.py:74`), the abstract specification | days since the last recorded message, what is forgotten |
| `Journey` | `journeys/engine.py`, `api/v1/journeys.py` | steps, customers' places, a session with what it has changed |
| `Campaign` | `campaigns/service.py`, `update_campaign`, the scheduler's campaign job | the campaign's row, recipients, requests, runs, calls |
| `ConsentRecord` | every writer of consent flags and suppressions: `optout.py`, `api/v1/customers.py`, `system.py`, `integrations.py`, imports | flags, suppression rows, requests with what they will write |
| `MessageDraft` | `services/messaging.py`, `api/v1/messages.py`, the drafts of a campaign run | rows of messages, rules, sessions |
| `Engagement` | `services/events.py`, `services/attribution.py`, the webhook, the events of a run | events, recipients, counters, attributed orders, open transactions |
| `Intake` | the commits of `ingest_file` and `ingest_orders`, `attribution.py`, `intelligence.py`, `segments.py`, the scheduler's jobs | orders, scores, ranking, jobs, inbox |
| `VoiceOrder` | `voice-commerce-service.ts` over `state-machine.ts`, `store.ts`, `sandbox-backend.ts` | intents, session, records, locks, requests; holds, orders, reservations, price |
| `Purchase` | what ordering by voice promises for one basket, the abstract specification | stage, amount agreed, money, goods |
| `Calendar` | `core/timezones.py`, `resolve_send_time`, `next_occurrence` | operators |
| `OrderPattern` | `analytics/order_patterns.py`, the timing and the offer of `nudge.py` | operators |
| `Statistics` | sorting, the median and sums, as `OrderPattern` and `CustomerScores` take them from Python | operators |
| `CustomerScores` | `analytics/metrics.py`, `services/lifecycle.py`, `churn/`, `rfm/`, `channel_priority.py`, `recommendations/` | operators |
| `SegmentRules` | `segmentation/rules.py`; a rule is a function of the paths of its parts | operators |
| `MessageRules` | `compliance/engine.py`, `llm/validator.py` | operators |
| `ImportRules` | the rows of `services/ingestion.py` | operators |
| `MCCalculations` | extends `Calendar`, `OrderPattern` and `CustomerScores`, takes an instance of each rules module, and asks every question of small sets | question, answer |
| `MCOutreach` | `NudgeSchedule` and `Journey` over the same customers and their opt-outs | the state of both |
| `MCRecords` | `ConsentRecord`, `MessageDraft`, `Engagement`, `Intake` beside each other | the state of all four |
| `MCSendPipeline`, `MCSequenceEnrollment`, `MCVoiceOrder` | instances: symmetry sets and step offsets | |
| `SendPipelineProofs`, `LifecycleProofs`, `SequenceProofs`, `OutreachProofs`, `CampaignProofs`, `RecordsProofs`, `VoiceOrderProofs`, `CalculationProofs` | the theorems of section 6 | |

Each module is closed by itself and stands for one consistency boundary (one
ledger, one automation, one campaign, one customer's consent, one session). They
meet in abstractions that are stated where they are made: `SequenceEnrollment` and
`NudgeSchedule` reduce what `execute_candidates` does with a candidate to *sent or
not* and *day claimed or not*; `AutomationLifecycle` reduces a run to the copy it
built and its two commits; `SendPipeline` takes candidates as they are proposed,
`Calendar` says when they may go, and `OrderPattern` computes the habit that
`NudgeSchedule` chooses. `MCOutreach` and `MCRecords` run several of them from
one initial state; as the code keeps no other state in common between them, a
behaviour follows one, so that the state spaces add up and do not multiply.

### SendPipeline

A worker is a session: `StartRun` is the prologue of `execute_candidates` (resolve
times, read claims and customers, once); `Gate` one turn of the loop down to the
provider call, with the gates in the order of the code (consent, cap, dedup,
validation); `Send` the adapter call, whose answer may be lost; `Record` the
insert in a savepoint and the communication event; `Commit` the single commit, of
dry runs too. `Rollback` is an exception or a restart, `DeadlockVictim` what the
database does with two transactions that wait for each other. `Receipt`,
`OptOut`, `OptIn` and `Tick` are the rest of the system.

* The database is PostgreSQL at READ COMMITTED: an insert of a key that another
  open transaction has inserted waits (`WaitsFor`). SQLite, which the tests use,
  allows a subset of these histories.
* A customer's local day has three parts: before, in and after the send window.
  `LandingDay` is what `resolve_send_time` decides at that grain.
* A nudge's candidates may be for a moment that has passed (`Backdated`).
* A batch may name a customer twice (`Repeats`): no caller does today, and
  `batch` is there for exactly that case.
* No code path leaves a ledger row `SCHEDULED`, so `_displace` and the priorities
  decide nothing and are not modelled.

### AutomationLifecycle

A request is two steps, `Load` and `Save`: the row is loaded, the decision is made
on the loaded row, and the commit writes the columns that differ from it
(`Flush`); `replace_steps` looks for enrollments in between (`Count`). A run reads
twice. `TakeUp` loads the row (`due_automations`, or the route); `StopPass` is the
commit of a sequence that stopped somebody, after which the session loads the row
again (`Reread`); `Build` reads the copy. For a cohort that is the template in the
row the session holds; for a sequence it is the steps, queried only now
(`sequences.py:319`), while `_assert_sendable` looks at the row loaded before
(`runtime.py:524`). `crossed` marks a run whose sequence had its steps rewritten
between the two. Then `SendAll`, `CommitRun` (`execute_candidates`' commit) and
`Settle` (status and next run). `ComesDue` and `EndDatePasses` are time. The copy is
a version number: what an operator approves and what a run sends are compared by it.

### SequenceEnrollment

`Begin` is everything up to the candidates, with the stop pass's own commit when
it stopped somebody. For each candidate `Gate` is the consent gate and the claims
(`runtime.py:392`–`482`) and `Call` the provider (`:732`): an opt-out may come between
the two, as it may in `SendPipeline`. `CommitSends` is the commit in
`execute_candidates`; `Advance` `_advance` and the last commit.

A pause or a resume is a request of two steps: `PauseEnrollment` and
`ResumeEnrollment` load the row and look at its status, `Answer` commits the new
status over whatever a run or an opt-out has committed since. `holding` is the
request in between, `revived` remembers whose finished enrollment such a request took
up again. Operators also add; customers opt out, opt in and order; another automation
may take a day. The clock counts days; `FreshStep` is the catch-up loop as the first step
that is not stale.

### Campaign

Requests load and save as in the lifecycle. A run is `LoadRun`, `MarkRunning` (the
first commit, and the one read of the recipients), then per recipient `Gate`,
`Draft`, `Send` and `CommitOne`, and `Finish`. The scheduler runs with
`generate_per_customer`, which defaults to true (`campaigns/service.py:435`): `Draft`
is `generate_message`, with its commit, and what is sent is the text drafted for that
customer (`Drafted`), which the validator has accepted and nobody has seen. An
operator may turn that off, and then the campaign's own copy is sent, read anew for
each recipient, because a commit expires the session's objects. A message is kept with
the copy the run was let through under (`under`). A snapshot decides on the
recipients it loaded and saves its decisions later; when it deletes a recipient
under a run, the next read of that row or the commit fails and the run ends without
another write (`Fail`, `aborted`).

### NudgeSchedule and SpacedContact

A run is `Prepare` (enrol, refresh, stop, first commit), `Build`, `Send`, `Commit`
(`execute_candidates`) and `Reschedule` (last commit, on the enrollments as they
are then). Operators pause, resume, enrol and refresh meanwhile, customers opt out
and in, `DayPasses` is the calendar. `Crash` loses a run; when it has committed its
messages and not rescheduled, the enrollments do not know of them: `unsure`.
`SpacedContact` knows only the days since the last recorded message and whom the
system forgot; `NudgeSchedule` implements it (`NudgesApart`, an `INSTANCE` with
`forgotten <- unsure`).

### Journey

A run is one session with one commit at its end, but drafting a message commits
too, and after a commit rows are read again: `session` holds what was loaded, what
was changed, and whether it will be read anew. One action per kind of step:
`Wait`, `Condition`, `Act`, `Draft` and `Deliver`, `EndJourney`; `StepGone` and
`PastTheEnd` are the ways a customer leaves a list of steps that was replaced.
A step changes what the session holds of the customer (`With`), and a commit writes
the columns that were changed.
There is no scheduler job for journeys: runs happen when somebody asks for them,
here one after the other. Nothing in `POST /journeys/{id}/run` keeps two of them
apart; two that overlap each send the step they both loaded.

### ConsentRecord

A request reads the customer (`Asks`), then the suppression rows (`Looks`), and
writes the columns it gave another value (`Commits`). Two first suppressions of
one customer collide on the unique row and the later is rolled back, whole
(`Fails`). The variables `stopped` and `undone` remember a STOP that has arrived
and which half of its effect has been released on purpose since.

### MessageDraft

Editing is two transactions, the second of which validates; approval validates in
one and writes in the other what it decided in the first. Generation, hand-over and
booking are a campaign run's. `crossed` are messages on which two requests
overlapped: nothing is claimed about them.

### Engagement

The run, the webhook and the importers each have an open transaction with the
events they add and the counters they read. `Key` is the idempotency key: a report
without a time of its own has a new one every time.

### Intake

A job is `Begins`, `ReadsRows`, `CommitsRows` (or fails on a collision),
`Completes`, one `CommitsScores` per customer it touched and one `CommitsBoard`
for ranking and segments; the scheduler's refresh recomputes everybody. A score is
abstracted to the set of orders it was computed from. `Crash` ends all threads.

### VoiceOrder and Purchase

A thread is a request; JavaScript runs one piece at a time, so a step is the code
between two awaits that others can tell apart. `pc` names the await it is at.
`StartCreate`–`Quote`–`Supersede`–`SaveIntent` turn a basket into an intent;
`Confirm`, `Decline`, `BeginAuthorization` take the intent's lock and end in
`Touch`, which writes the session back as it was read; `StartPayment` leads to
`Authorized`, `Declined` or `TimedOut`; `StartPlacing` through `Check`,
`Reserve`, `Requote`, `CreateOrder`, `Captured` or `NotCaptured` to
`RecordPlaced`, or by `Release` and `Void` to the end. `LoseCall` is a call
of which only the answer is lost, `Throw` one that had no effect. Outside, prices
change, intents expire, the OMS packs, customers cancel.

`Purchase` knows no requests, locks, records or sessions: of each basket how far it is
(open, agreed, paying, closed), the amount agreed, the money on the card, and the
goods. The mapping reads the first off the intent's status (`StageOf`) and takes the
others from the customer's yes, the provider and the order system; most steps of a
request are stutters. The seven awaits of `finalizeOrder` become three steps (`Order`,
`Capture`, `Settle`), a payment that timed out a `Hold` after which the customer may
try again, and a compensation that runs twice is one `Settle` that changes nothing.

Constants are small sets or bounds with a named assumption in each module where
something depends on them (`ConstantsAssumption`, `LifecycleAssumption`,
`SequenceAssumption`, `NudgeAssumption`, `CampaignAssumption`, `VoiceAssumption`,
`CalendarAssumption`, …), which TLC evaluates in each run. Operators whose name
begins with `Bug` are not part of a specification: each is a plausible mistake in
one definition and shows, put in its place, that a property notices it
(`PROJECT.json`, `mutants`).

## 3. Runs

| run | question | properties | distinct states |
|---|---|---|---|
| `pipeline_single` | one worker and no lost transaction or call: is the ledger exact, against opt-outs, opt-ins, a delivery report and an overdue nudge? | `OneCallPerLandingDay`, `EveryCallClaimed`, `CapHeld`, `OneClaimPerDay`, `OptOutBound`, `TypeOK` | 486,903 |
| `pipeline_race` | two workers whose inserts wait for each other, live or dry, a lost transaction, a failed call: do keys stay unique, does every refused message have a winner, does every run end? | `UniqueKeys`, `DedupedHasWinner`, `RunsEnd` | 459,427 |
| `lifecycle` | one request at a time against the scheduler, an operator's run and a crash, whose runs load the row and read their copy apart: is what is live approved and scheduled, is only the approved copy sent, is what is due run? | `ActiveIsReady`, `SentCopyApproved`, `DueIsNotForgotten` | 249,246 |
| `sequence` | one worker, triggers that leave none, one or both steps stale, live and dry runs, a lost run, against every request, overtaken pauses included: is each step worth sending sent once and in turn, does a stopped customer get no more than was let through before, is nobody who is done taken up again but by an overtaken request, and does everything end? | `StepsAccountedFor`, `StepSentOnce`, `NeverRevived`, `StoppedGetsNothing`, `EnrollmentsEnd` | 434,006 |
| `campaign_two_runs` | the scheduler, with drafts, and an operator, with or without, run one campaign at once; an edit, an opt-out, two snapshots, a lost run | `ApprovedCopySent`, `RevokedConsentHonoured` | 2,096,766 |
| `campaign_rerun` | submitted, approved and run again after a run, with two snapshots, also under a run | `SentOnce`, `RunSettles` | 363,650 |
| `order_flow` | two requests at a time on two baskets, a price change, expiry, a lost call, refusals at every turn, the OMS and the customer acting on the order | `KeepsThePurchase`, `ChargedAsConfirmed`, `PaidIsPlaced`, `NothingKept` | 2,690,363 |
| `outreach` | nudges under a scheduler, an operator's run, refreshes, pauses, opt-outs and a lost run; a journey under a lost run, replaced steps, re-entries | `NudgesApart`, `DueIsHandled`, `StepsTakenOnce`, `WaitsAreKept` | 365,612 |
| `records` | consent, drafts, reports and imports, each written by requests and jobs whose reads and commits interleave | `StopHolds`, `DraftsAreTrue`, `CountedOnce`, `ScoresCatchUp` | 1,359,942 |
| `calculations` | the pure computations over every small input | `CalendarIsExact`, `NudgedOnTheirDay`, `SilenceIsRead`, `RankingIsFair`, `ExclusionIsComplement`, `CopyIsBacked`, `LoadIsFaithful` | 302,108 |

Two more runs each show one statement of the documentation violated by what the
code does; they are the findings of section 7: `v_crash_resend`
(`NoDuplicateSend`: a transaction is lost after the provider accepted its
messages) and `v_edited_stays_approved` (`EditRevokesApproval`: the edit of an
approved message leaves it approved).

What the properties say, where it is not plain from the name:

* `EveryCallClaimed`: for each message the provider accepted there is a row, in
  the ledger, in an open transaction or about to be inserted, that claims its day.
  It is what a later run needs in order not to send again.
* `DedupedHasWinner`: a customer is told to wait only for a message that exists.
* `CapHeld` counts the provider's calls, not the events the code counts.
* `OptOutBound`: between an opt-out and the end of a run, at most the message that
  had already passed the gates goes out, one per worker.
* `SentCopyApproved` compares the copy in the row a run loaded, and the copy it sent,
  with the copy the last approval before that load was given to. A sequence whose
  steps were rewritten between its two reads is exempt (section 7,
  `SentStepsApproved`). `ActiveIsReady` is approved and scheduled at once.
* `DueIsNotForgotten`: what has come due runs, and an automation does not stay due.
* `StepsAccountedFor`: a step behind a customer was sent to them or was stale when
  they joined, and not both. Skips, failures and lost contests never count as
  progress.
* `StoppedGetsNothing`: once an enrollment is stopped, no gate lets anything through
  for it, and the provider gets at most what a run had let through before, unless the
  customer opts in again. `NeverRevived`: what was decided stays decided unless a pause
  or resume that had loaded the row before the decision commits after it.
* `EnrollmentsEnd`: every ACTIVE enrollment ends, and a locked cohort completes.
  Exempt (`Endless`) is a customer whose every step was stale at joining, and one who
  was taken up again with every step behind them: the code leaves both ACTIVE for ever
  (section 7).
* `ApprovedCopySent`: a message leaves only under copy that a human approved and the
  check passed, and is that copy or a draft for its customer. That a human saw the draft
  is not so (section 7, `ApprovedTextSent`).
* `RunSettles` exempts a run that is lost and one that a snapshot took a recipient
  from (`aborted`); in both the code leaves the campaign RUNNING.
* `RevokedConsentHonoured` is about those who had opted out when a run read its
  recipients; one who opts out later is caught by the gate, or by its message.
* `KeepsThePurchase` is `Purchase!Spec` of every basket: no request, however late its
  answer, holds money without a yes, takes it for goods that were given up or asks
  again for what was returned.
* `PaidIsPlaced` and `NothingKept` exempt intents that a request is working on, and
  those for which a call was lost (section 7, `NoStrandedHold`).
* `NudgesApart` is `SpacedContact!Spec`: what a run that was lost forgot is exempt
  until the system learns it again.
* `StepsTakenOnce`, `WaitsAreKept` exempt customers whom an operator moves while a
  run is under way (`displaced`); for the others, a run that is lost may repeat a
  message, never leave one out.
* `StopHolds`: not even one channel is open again after a STOP, until suppression
  *and* consent have been released after it. It holds although neither half alone
  does: a request under way overwrites the one or the other, never both.
* `DraftsAreTrue`: the approver approved the words on record, and `SENT` stands
  for the words the provider was given, unless requests overlapped on the message.
* `CountedOnce`: what only the webhook writes is counted exactly; what two threads
  write is never counted more often than it happened.
* `ScoresCatchUp`: eventually always, scores agree with orders and the ranking with
  scores, once imports stop.
* `LoadIsFaithful` is asked of reports that keep every error and of reports that keep
  one for each table. Where a table refused more rows than were kept (`cut`), it asks for
  what the code still guarantees: the count of refusals, and a second load that changes
  nothing.
* The seven of `calculations` compare with a definition that shares no text with
  the operators: the first open moment, the complement of a rule, three files for
  one combined file, a monotone ranking.

`MCRecords` runs with `CHECK_DEADLOCK FALSE`: its records rest when nobody asks for
anything. Everywhere else deadlock is checked; where the system may rest, an
`Idle` action, a self-loop or the clock says so.

## 4. Bounds

Every unbounded counter has a named bound in a guard (`MaxRuns`, `MaxCrashes`,
`MaxFailures`, `MaxReceipts`, `MaxConsents`, `MaxEdits`, `MaxChanges`, `MaxRules`,
`MaxUntimed`, `MaxImports`, `MaxPriceChanges`, `MaxLost`, …). When a bound is used
up the action is disabled and the rest of the system goes on.

* *Two runs in a row or at once* are what the pipeline's claims are about: one run
  writes what the next reads. A third meets the ledger in a state the second
  could have met.
* *Two customers* in the races make transactions wait in both orders; *one* in
  `pipeline_single` leaves room for two automations, two days and two candidates.
* *Cap 2* is reached by a batch of two, across runs and within one.
* *Days:* a landing day and the next one in the pipeline. In the sequences
  `MaxDay` is 1 and stands for itself and every later day; nobody joins when their
  last step would be past it (`RoomToJoin`). Two steps, on days 0 and 1, with
  back-dating by 0, 2 or 3 days and a grace of 1 make none, the first and both of them
  stale at joining.
* *Nudges:* a week of two days and a gap of three, so that the habit's next day is
  too soon; days overdue are counted to `Late`. One customer, since neither nudges
  nor journeys relate customers to each other.
* *Journeys:* four programs hold every kind of step, waits before and between
  messages, an early and a late end; one replacement, one re-entry, one lost run.
* *Campaigns:* two recipients and two snapshots, so that the second can remove a
  recipient the first has made eligible, under a run too; `campaign_two_runs` leaves
  `submit` out (section 7) and `campaign_rerun` has it, with one sender.
* *Imports:* files of up to three lines, and reports that keep three errors for each
  table or one, so that the limit is reached and passed.
* *Records:* one channel beside the blanket consent and one thread beside the
  webhook; one message with two texts and two operators; two messages, or one and
  two orders imported at once; two orders, three files, two imports and one
  restart. The theorems on consent and drafts have no such bounds.
* *Two intents, two requests, two prices* give a basket and its replacement, two
  requests on one intent, and a price that differs from the confirmed one. They
  are only compared, so they are symmetric; the one action property checked with
  symmetry looks at single steps, and no liveness property is checked with it.
* *Calculations:* days of eight hours, weeks of three days and months of four to
  six days keep the arithmetic and let every hour, day, month end and both changes
  of the clock be reached; windows that wrap around midnight or hold a single hour
  at a change of the clock are not asked for where a slot is compared.
* *One request at a time* in `lifecycle` and in the campaign runs is a restriction
  of the environment and not of the code: with two, the properties fail
  (section 7). In the same way `pipeline_single` and `sequence` have one worker.

## 5. Fairness

* `SendPipeline`: weak fairness of the steps of a started run. The loop waits for
  nothing but the database, which resolves deadlocks. Nobody is obliged to start a
  run, to report a delivery or to opt out.
* `AutomationLifecycle`, `Campaign`: weak fairness of the scheduler's steps, the
  beginning of a run included, because its job fires at an interval; and of the
  steps of an operator's run that has begun. Requests are free, and no operator
  has to run anything.
* `SequenceEnrollment`: weak fairness of each worker's run and of the clock; strong
  fairness of beginning a live run, because previews may be asked for again and
  again and keep the one worker of this run busy in between, while the scheduler
  comes round regardless of them.
* `NudgeSchedule`: weak fairness of the scheduler's run, which comes round every few
  minutes and therefore at least once a day; of an operator's run that has begun;
  of the days.
* `Intake`: weak fairness of a job that has begun and of the refresh, which has an
  interval. No file has to arrive.
* `Journey`, `ConsentRecord`, `MessageDraft`, `Engagement`, `VoiceOrder`: none; only
  safety is stated. Journeys are run on request alone, and `v_crossed_locks.cfg`
  shows that a voice request need not end.

Crashes, failures and requests are never fair, and they are bounded, so a liveness
property says: once they stop, the thing happens.

## 6. Theorems

For every value of the constants, checked by TLAPS to the last leaf. Hypotheses on
constants are stated in the theorem (`ASSUME … PROVE`), so that the same
specification can be checked outside of them, or named in `MCCalculations`. `Named` says no more than that
`Null` is none of the values it stands for the absence of.

| module | theorem | property | assumes |
|---|---|---|---|
| `SendPipelineProofs` | `TypeCorrect` | `TypeOK` | – |
| | `KeysAreUnique` | `UniqueKeys` | – |
| | `OneClaimPerDayHolds` | `OneClaimPerDay` | one worker, no FAILED reports |
| | `OneCallPerLandingDayHolds` | `OneCallPerLandingDay` | also no lost transaction, no failed call (`ExactLedger`) |
| | `EveryCallClaimedHolds` | `EveryCallClaimed` | `ExactLedger` |
| | `LosersHaveWinners` | `DedupedHasWinner` | `OnePerCustomer`: a batch names a customer once, no FAILED reports; any number of workers, crashes, failed calls |
| | `OptOutIsPrompt` | `OptOutBound` | finitely many workers |
| | `CapIsKept` | `CapHeld` | `NoLoss`: one worker, no lost transaction, no failed call |
| `LifecycleProofs` | `LifecycleTyped` | `TypeOK` | – |
| | `ActiveIsAlwaysReady`, `SentCopyIsApproved` | `ActiveIsReady`, `SentCopyApproved` | `OneByOne`: one request at a time, edits of what approval covers, not kind *once* |
| `SequenceProofs` | `SequenceTyped`, `DoneIsForGood` | `TypeOK`, `NeverRevived` | `Named`; any number of runs and requests at once |
| | `StepsAreAccountedFor`, `StepsAreSentOnce`, `StopMeansNothing` | `StepsAccountedFor`, `StepSentOnce`, `StoppedGetsNothing` | also one runner |
| `OutreachProofs` | `ScheduleTyped`, `NudgesAreSpaced` | `TypeOK`, `NudgesApart` | `Named`; any number of runs at once |
| | `StepsOnce`, `StepsOnceBesideNudges` | `StepsTakenOnce` | `JourneyNamed`; one run after the other, as `MCOutreach` has them |
| | `WaitsKept`, `WaitsKeptBesideNudges` | `WaitsAreKept` | the same |
| `CampaignProofs` | `CampaignTyped`, `ConsentHonoured` | `TypeOK`, `RevokedConsentHonoured` | – |
| | `OnlyApprovedCopyIsSent` | `ApprovedCopySent` | one request at a time, nothing submitted again |
| | `OnlyLostRunsRepeat` | – | `Named`; of behaviours with `[](Apart /\ Alone)`: one run at a time, whoever's, and no audience taken during it |
| | `RerunsSendOnce` | `SentOnce` | also no lost run |
| `RecordsProofs` | `RecordTyped`, `StopsHold` | `TypeOK`, `StopHolds` | – |
| | `EventsCountOnce`, `EventsCountOnceAmongRecords` | `CountedOnce` | – |
| | `RecordsAreTrue`, `DraftsAreTrueAmongRecords` | `DraftsAreTrue` | `DraftsNamed`: the run is no operator, `Null` is no row, a bound on rule changes |
| `VoiceOrderProofs` | `VoiceImplementsPurchase` | `KeepsThePurchase` | – |
| | `OrdersForTheAgreedAmount`, `MoneyOnlyOnAYes` | `ChargedAsConfirmed`, `OnlyConfirmedCharged` (no run) | – |
| | `PaidForIsPlaced`, `WhatIsGivenUpIsReturned` | `PaidIsPlaced`, `NothingKept` | – |
| | `VoiceTypes` | `TypeOK` | – |
| `CalculationProofs` | `CalendarAlwaysExact` | `CalendarIsExact` | `CalendarGoesOn`: the calendar has another month after each moment that is asked about |
| | `AlwaysNudgedOnTheirDay` | `NudgedOnTheirDay` | `OpenByDay`: opening before closing on one day, and no clock changed while open |
| | `SilenceIsAlwaysRead`, `RankingIsAlwaysFair`, `ExclusionIsAlwaysComplement`, `CopyIsAlwaysBacked` | `SilenceIsRead`, `RankingIsFair`, `ExclusionIsComplement`, `CopyIsBacked` | – |
| | `SlotIsNext` | for every input: half of `CalendarIsExact` | a window inside a day, of two hours or more |
| | `OccurrenceIsNext` | the other half | a day of the month from 1, weekdays of the week; a calendar that goes on for a month |
| | `NudgeIsTimed` | the timing of `NudgedOnTheirDay` | `OpenByDay` |
| | `RankingKeepsOrder`, `PopulationIsRanked` | `RankingIsFair` | a finite population of whole numbers |
| | `SilenceIsNoRecovery`, `GoneIsAtRisk`, `SilenceOfAHistory` | `SilenceIsRead` | orders in order of time, of whole amounts; both moments after the last |
| | `ExclusionOfARule` | `ExclusionIsComplement` | no group without a condition, opposite operators, numbers compared with numbers |
| | `DraftIsFitToSend`, `SentCopyIsBacked`, `OfferPasses`, `TargetingIsByCondition` | `CopyIsBacked` | – |

None of these properties is inductive. What is added to each, and why it is
needed:

### SendPipelineProofs

* `TypeInv` adds to `TypeOK` where a worker stands: with a row in `cur` there is a
  candidate left, and a row to be sent is live, `SENT` and has no provider id yet.
* `KeysInv` adds to `UniqueKeys` that the rows of open transactions have new and
  distinct keys, within one transaction and between any two. The last part is
  where the waiting insert is needed: without it two workers commit one key.
* `ClaimInv` says why one read of the claims is enough for one worker: `claims` and
  `batch` together know all claims on the days still to process, and a row about
  to be recorded is the first of its day. With two workers it is false.
  FAILED reports are excluded because they free a day that has been used.
* `CallInv` relates provider and ledger. The exclusion of lost transactions and
  failed calls is not a convenience: with either of them `EveryCallClaimed` is
  false, which is the finding `v_crash_resend`.
* `DedupInv`: whoever is skipped as a duplicate has their day claimed in the
  ledger (`RowOK`), of rows in hand and in open transactions too, and a worker's
  `claims` stay a part of what the ledger claims. A batch that named a customer
  twice could refuse them for a message of its own that is rolled back, and a
  FAILED report takes the claim away: the two hypotheses.
* `OptOutInv` counts along: what went out since the opt-out and the workers that
  hold a message for the customer (`Going`) are together no more than the workers.
  An opt-out finds each worker with one message in hand at most, a send moves one
  from the second to the first, and the gate adds none.
* `CapInv`: the calls for a customer are the events, what the open transaction has
  tallied and the message in hand (`Counted`), and these three have room under the
  cap (`Room`). The code counts events; a lost transaction or answer makes the
  calls more than those, which is why both are excluded.

### LifecycleProofs

The types hold whatever requests, runs and edits cross; the invariant of the other two
theorems is for one request at a time. `Covers`: the approval on the row is of the copy on the row. `Fresh(r)`: what a
request loaded still holds, except that a run may have completed the automation
and time may have passed; it is what one request at a time buys, and what fails
with two. `Covered(u)`: a row that a run loaded and may send was approved, and until
the run reads its copy, what it will read is what that row said, unless the steps of
its sequence were rewritten (`crossed`). `OnlySteps(r)` is needed for it: no other
request changes what a sequence sends. Kind *once* is excluded because a pause during its run, the
end of the run and a resumption leave an ACTIVE automation without a next run;
edits of `message_variants` are, because the code does not count them as copy.

### SequenceProofs

`Inv`, for any number of runs, is about what a run has not committed: nobody else
inserts whom it inserts (`Inserts`), whom it works on it will find (`Knows`), once
it advances nothing is left to commit (`Advancing`), a preview sends and
inserts nothing (`Previews`), and whom a gate has let through still has their step to
come (`Through`). `Asked` says of a request that what it loaded was not done: a
request that writes over what is done was therefore overtaken. With one runner, `Accounts` adds to the two
properties that a step ahead of a customer was sent only by runs that were lost or
are under way (`Ahead`), and that nobody is sent anything before they are enrolled
or about to be (`Untouched`); `WorkInv` says that what a run skips is stale and what
it sends is next. `Stops` adds that whoever is stopped while a run holds a step
for them was stopped by an opt-out, the only stop that does not go through the run;
the gates ask for it again, so that nothing more is let through. With two runners the other
run's stop pass is a third way (section 7). That the
catch-up loop finds a first fresh step uses the library's well-foundedness of the
naturals (`Smallest`).

### OutreachProofs

Of the nudges a refinement, proved step by step: initial states map to initial states, and each
step to a step of `SpacedContact` or a stutter. The code looks at `last_sent_at`
and the promise is about the ledger; the two differ while a run is between its
commits. `Alike`: all runs that took a customer up took the same day; `Booked`:
what a run has committed claims that day; `Spaced`: a day that may still be sent
was not preceded by a message within the gap; `Remembered`: outside of that
interval `last_sent_at` is the ledger's, or is in `unsure`. Together they say that
the unique key on the day protects the interval in which the memory is behind.

Of a journey, `JourneyInv`: what a run sees of a customer, loaded or changed, is what
is on record or what it did itself (`Follows`), so that a commit writes the row as the
run has it (`WrittenAsSeen`); behind the place it sees, every message was worked on and
every wait is over (`Traced`); and the provider took a step once if it is behind the
customer in the row or in the run, and once more per lost run (`Repeats`). It is
claimed of customers nobody has moved during a run (`Steady`). The reads after a commit
are where it could fail: a run that went on with the steps it had loaded would put a
position of the new list on the old.

### CampaignProofs

`Respected`: whom a run found opted out still is, and is not the one it has let
through the gate, whatever happens to the recipient's row. `Closed`: while the copy
may still change nobody sends it, and while a run or a status vouches for it, it
is checked and approved; resubmission breaks this. `Carried`: the copy a run was let
through under, and the text it has read, are still the campaign's. `Fresh`: a request that may
change the copy has loaded the row as it is, the others have loaded one that
nobody can edit any more.

`OnceInv` is about the number of messages, drafted or not: whom a run may still take up is ELIGIBLE
(`Working`), whom it has sent to is SENT or FAILED or in its hand (`Done`), and a
customer has one call if they are done and one per lost run (`OnceEach`). `Aware` says
that a snapshot under way knows who is done; it is what `Apart` is assumed for. Without
that, TLC finds the counterexample with three snapshots: one has
left a customer out, a second loads that and is slow, a third makes the customer eligible;
a run sends to them, and then the second writes eligible over the record.

### RecordsProofs

Of consent, `Kept`: after a STOP, for each of the two halves (flags, suppression) either it still
stands or it was released on purpose. It is not kept by a request alone but by
the pair: `Pending` says what a STOP that has not committed yet will still revoke,
and `Noted` expresses both, over what a request will write (`flags`, `listing`) and
what was released since (`released`).

Of events, `CountInv`: each counter is read in one step and written in another. What
only the webhook writes is what it read, plus one (`Reporting`); the message the run
is at has no event of the run on record (`Booked`, `Running`), and an order under way is
one that nobody else has taken or will (`Importing`): so the counter that both write may
lose an increment and gains none.

Of drafts, `DraftInv`, by three notions. `Modest`: no request writes `SENT`, and none but an edit writes copy; `Agrees`: unless
requests crossed, what a session loaded is what the row says, or differs only in
what it does not rely on; `Fresh` applies both to every session.

Each is proved of its record alone, and carried over to the behaviours in which the
records run beside each other.

### VoiceOrderProofs

The invariant `IInv` has three parts beside the types. `Working`: a request that
works on an intent holds its lock, and the intent is still in the state the
request found it in (`CONFIRMED` while it asks for the hold, `PAYMENT_AUTHORIZED`
from the first check to the record), and what it is about to order was quoted at
the intent's total. `Building`: the id of an intent under construction is
unused and belongs to one request. `Agreement`: yes, total and order agree.

Neither of the first two properties is inductive: both depend on nobody else having moved an intent
between two awaits. That argument is made once, for any step: `Shape(t)` says what
a step of request `t` may do to other requests' threads and locks and to each
intent, `StepKeeps` that a step of this shape keeps the invariant, and every action
is then shown to have the shape. The lock enters in `OthersWork`: an intent
somebody works on is locked, and a step moves only intents that are unlocked or
its own. `Supersede` looks at the lock of the session's intent, and this is what
the argument hangs on: without it (`BugSupersedeUnlocked`) an intent is superseded
under a payment.

`Ledger` is a second invariant on top, about the books of an intent: its record, the
hold, the order and the reserved stock. While somebody places it they are those of the
await the placement is at (`BeingPlaced`), and of an intent at rest those of its status
(`AtRest`); an intent that lost a call is exempt, as the call leaves it. `Stocked` says
that stock is only given back where some was reserved, which the type of the count
rests on. Again only the placement itself moves the books of a locked intent, and
others move the status of an intent at rest in few ways (`Kept`).

The refinement needs of the first invariant that a placement finds its intent paying
and its quote agreed, and adds `Purse`: of every basket, that goods come only with a
payment, that money is untouched before one and not held for cancelled goods
(`Purchased`), and of a request, that it captures for goods that were ordered and
records as placed what was captured (`Paying`). One lemma per action names the step of
`Purchase` it is or shows that nothing the customer sees has moved (`Unseen`). That
`Purchased` is kept is then argued of the eight abstract steps and not of the
twenty-five concrete ones, and that goods and captured money stay (`PurchaseForward`)
is what a request may count on after an await.

### CalculationProofs

Two layers. The lower one is about operators: for every input, the reference
definition that the run `calculations` compares with (`IsSlot`, `IsTurn`,
`IsTheirTime`, `OrdersNoLess`, `Lapse`, the complement of a rule) holds of what is
computed. The upper one is about the specification, for every value of its
constants: the invariant `Consistent` says that what is asked stays one of the
questions and that an answer is what its computation makes of it, and each property
of the run follows by the lemma of its computation (`SlotsAreExact`,
`NudgesAreTimed`, `SilencesAreRead`, `RanksAreFair`, `AudiencesExclude`, `CopyIsFit`,
…), which applies the lower layer to the questions. The two assumptions on constants
are named in `MCCalculations` (`CalculationsAssumption`) and TLC evaluates them: the
business has hours by day and no clock changes in them, and the table of months does
not end, which the calendar of the code never does.

The calendar rests on one lemma, `Clocks`: the moment that is read from a local time is
the first one at which local time is not before it. It holds through both changes of
the clocks, an hour that is missing and one that comes twice included, so that *not
before* can be argued in local days and hours (`DaysInOrder`), where there are no
changes. A send window of a single hour is excluded: where that hour is left out in
spring, the next slot falls after it closed. Months rest on `MonthStarts`: that the
recursive definition has a solution, on which tlapm insists; that months do not
overlap (`MonthsApart`) and that a day is in one of them (`TheMonth`) follow by the
smallest month that contradicts.

A nudge is moved on by weeks until its slot is ahead, and `NudgeIsTimed` first shows
that some week among those the loop may reach is (`leadHours + 2`). It excludes
business hours over midnight, which `clamp_to_window` is not written for, and clocks
that change in business hours.

The pattern of a customer has a weekday and an hour of one of the orders: the most
common value exists (`MostCommonFound`), and the median of a family lies between its
ends (`MedianTyped`). That rests on `NthFound`, which finds the k-th value of any finite
family by the smallest bound that k of them are not above.

The ranking is fair because `Rank` keeps the order of values for any four breaks, also
such that are not sorted; that a population has four, of numbers, is `BreaksTyped`.
Of a history, `SilenceOfAHistory` first shows that its metrics are of the type the
cases are about (`MetricsTyped`), by the sums that exist (`SumsExist`) and the gaps
that are none of them negative (`GapsTyped`), that reading it later changes what
depends on the day and nothing else, and that no order is in the last 90 days when the
last one is older (`Quiet`). The reading of silence is by cases of the three
thresholds (`LapseBySilence`), which depend on the cycle and so not on the silence;
for the worth, by a quotient that falls with the days and the years that are left. Gone
customers are at risk by the weights: overdue by three cycles, no orders and no money
in the window make up 470 of 1000 points by themselves, where *high* starts at 450.

A rule is a function of paths, and `evaluate` a recursive function over them, so that
it has a solution has to be shown, from the longest paths to the shortest
(`VerdictsExist`). `DeniedCondition` goes through the pairs of opposite operators: they
differ on every value, the missing one included. `ExclusionOfARule` then follows by the
longest path on which rule and opposite would agree, as on all conditions in it they
differ. An empty group is excluded, which the code takes to match
everybody, and so would its opposite. That the rules of the run are such trees and
mirror each other is built up group by group (`TwinGroups`).

### What stays with TLC

* Liveness under fairness, and everything that needs `ENABLED`: `RunsEnd`,
  `EnrollmentsEnd`, `RunSettles`, `DueIsHandled`, `DueIsNotForgotten`, `ScoresCatchUp`.
* `LoadIsFaithful`: a file is loaded by a fold over its lines, and the library's folds
  are defined by a recursion over sets whose theorems take an operator as parameter,
  which these provers cannot instantiate.
* `SentOnce` where an audience is taken during a run (`campaign_rerun` has one
  snapshot request at a time and finds it kept); snapshots that cross each other and a
  run violate it.

## 7. Where the code and its documentation part

Two are listed as findings, each with a run. The other configurations of this
table are kept beside the modules as reproductions; each checks the one property
named, with the module its properties belong to (`MCSendPipeline`,
`AutomationLifecycle`, `MCSequenceEnrollment`, `Campaign`, `MCVoiceOrder`,
`MCRecords`), and TLC reports it violated. Rows without a configuration name a
property that is defined in its module and violated in the same way, or a
behaviour that is a part of the model.

| configuration | property | the code | the statement |
|---|---|---|---|
| `v_crash_resend` | `NoDuplicateSend` | one commit after the whole batch (`runtime.py:510`) | "a re-run or a crash mid-batch cannot produce a duplicate message" (`docs/automations.md:98`) |
| `v_edited_stays_approved` | `EditRevokesApproval` | an edit clears the approver and leaves APPROVED when the copy passes (`messaging.py:187`) | "editing an approved message revokes that approval" (`docs/compliance.md:144`) |
| `v_quiet_hours` | `SentInWindow` | `_dispatch` ignores the resolved time (`runtime.py:492`) | "deferred to the next open slot" (`docs/automations.md:50`) |
| `v_submit_reopens` | `ApprovedCopySent` | `submit_for_approval` accepts any status (`campaigns/service.py:291`); a run of an operator with the campaign's own copy sends what was edited after | "No campaign can send without an explicit human approval action" (`docs/compliance.md:132`) |
| – | `ApprovedTextSent` | a scheduled run sends the text drafted for each customer, after validation and before anybody saw it (`campaigns/service.py:509`, `jobs/scheduler.py:74`) | the same: "an explicit human approval action"; the approval is of the campaign's copy |
| `v_order_left_unpaid` | `NeverUnpaid` | the answer of `orders.cancel` is dropped (`voice-commerce-service.ts:719`) | "If capture fails the order is cancelled, never left unpaid" (`:706`) |
| `v_retry_releases_day` | `OneMessagePerDay` | a call whose answer is lost is FAILED, and FAILED holds no day (`tnz.py:204`) | "One automated message per customer per local day" (`docs/automations.md:67`) |
| – | `OneMessagePerDay`, a nudge and a cohort | an overdue nudge is booked under the day it was due (`runtime.py:376`) | the same, and "the day a message would actually land on" (`:45`) |
| `v_edit_races_approval` | `SentCopyApproved` | `approve` does not ask which copy was seen (`automations/service.py:300`) | "Approval attaches to the message" (`:164`) |
| – | `SentStepsApproved` | the steps of a sequence are queried after the row that is checked was loaded (`sequences.py:319`, `runtime.py:524`); `replace_steps` commits in between | the same |
| `v_crash_repeats_step` | `RecordedNotResent` | sends are committed before the advance (`sequences.py:447`) | "a crash mid-batch cannot produce a duplicate message" |
| – | `NoStepSwallowed`, two workers | `_advance` adds one whatever was sent (`sequences.py:517`) | "silently swallow a message" (`:505`) |
| `v_backlog_never_completes` | `NothingLeftIsFinished` | only a sent step completes (`sequences.py:340`) | "they get nothing and the enrollment completes" (`docs/automations.md:220`) |
| `v_stopped_gets_step` | `StoppedGetsNothing` | two runs: stop conditions are looked at once (`sequences.py:435`) | "checked at send time rather than trusted from a flag" (`:17`) |
| – | `NothingAfterStop` | an opt-out after the consent gate (`runtime.py:423`) and before the call (`:773`) is not seen | the same |
| – | `DoneStaysDone` | a pause or resume writes over what was committed since it loaded the row (`automations/service.py:373`): PAUSED over STOPPED, from where a resume makes it ACTIVE | "Distinct from STOPPED, which is the system deciding they are done" (`:360`) |
| `v_dry_run_stops` | `DryRunIsInert` | the preview's stops are committed (`sequences.py:421`) | "a dry run must not change state" (`:469`) |
| `v_pause_keeps_sending` | `PausedSendsNothing` | the status is read once (`campaigns/service.py:490`) | "Only a running or scheduled campaign can be paused" (`:689`) |
| `v_two_baskets` | `OneUnconfirmedIntent` | placing an order clears the session's intent whichever it is (`voice-commerce-service.ts:731`) | "One live intent per session" (`:961`) |
| `v_crossed_locks` | `NoCrossedLocks` | a replacement takes the lock of the session's intent under its own (`:676`); locks have no timeout | – |
| – | `PausedKeepsPlace` | only ACTIVE counts as unfinished (`sequences.py:535`) | a pause "keeps their progress" (`docs/automations.md:240`) |
| – | `DeliveredIsFinal` | DELIVERED and FAILED have one rank (`delivery.py:66`) | "progress is one-way" (`delivery.py:36`) |
| – | `DeleteSparesRuns` | only ACTIVE refuses deletion (`api/v1/automations.py:198`) | "so no send is interrupted mid-run" (`:201`) |
| – | `RecordIsFrozen` | decided on recipients loaded earlier (`campaigns/service.py:238`) | "must not rewrite the delivery record" (`:222`) |
| – | `NoDuplicateSend`, two workers | the provider is called before the key is inserted (`runtime.py:773`) | "two workers racing, cannot produce a duplicate send" (`runtime.py:603`) |
| – | `SentCopyApproved`, variants | `message_variants` is not approval-sensitive (`automations/service.py:167`) | "editing any of these withdraws it" (`:164`) |
| – | `CancelledNotCharged` | a captured hold stays captured (`sandbox-backend.ts:286`) | "You won't be charged." (`voice-commerce-service.ts:810`) |
| – | `NoStrandedHold` | a hold made by a call that timed out is not recorded, an expired intent is not swept (`:553`) | – |
| – | `BlankLeavesStored` | a blank channel cell is read as the default channel (`ingestion.py:409`) | "A blank column in an update file must not wipe existing data" (`ingestion.py:453`) |
| – | `CombinedIsThreeLoads` | the order of a known customer whose line is refused is dropped from a combined file, and lands from a file of orders | "a combined upload and three separate ones accept exactly the same data" (`ingestion.py:747`) |
| – | `EveryRejectionIsReported` | of each table 500 errors are kept (`ingestion.py:235`), and a combined file takes every line without one for accepted (`:825`, `:883`) | "every rejection is reported with its row number and reason" (`ingestion.py:6`) |
| – | `OnlyApprovedOffers` | "5% off" is found in an approved "15% off" (`engine.py:603`) | "Discounts / promotions that are not on the approved list" (`:420`) |

Met while modelling, and part of the models without a property of their own:

* *Messages.* A SENT message can be rejected, approved or fail a revalidation and is
  then open to edits, in spite of "A sent message cannot be edited"
  (`messages.py:124`). A failed revalidation keeps the approver. The approval is
  written blind, across an edit.
* *Consent.* A STOP that collides with an operator's first suppression is rolled
  back with the whole webhook body, until the provider delivers it again. A START
  that is delivered again after a STOP restores consent: nothing compares times.
  `apply_opt_in` restores marketing and SMS whatever the channel ("the channel the
  request arrived on", `optout.py:201`). Revoking marketing revokes the channels
  without an event for each ("an audit trail entry for each change",
  `customers.py:522`).
* *Campaigns.* A snapshot that removes a recipient under a run makes the run fail at its
  next read of that row or its next commit, and the campaign stays RUNNING
  (`campaigns/service.py:490`), as after a crash; nothing resets it.
* *Sequences.* A customer whose every step was stale at joining stays ACTIVE for ever
  (`sequences.py:334`–`341`) and keeps a locked cohort open; so does one who was
  taken up again by an overtaken resume with every step behind them.
* *Events.* A refused campaign send is counted as failed twice
  (`campaigns/service.py:571` and the event's own effect). A delivery overwrites
  CONVERTED (`events.py:173`). A report without a time counts again on redelivery;
  the run's and the provider's SENT both count; a report before the commit is
  dropped; two threads may lose an increment.
* *Intake.* An order that is completed later, or whose import is lost after its
  commit, is never attributed. An order that moves to another customer, and in a
  mixed file any updated one, leaves scores stale until the scheduled refresh
  ("correct the moment the order lands, not on the next scheduled run",
  `docs/architecture.md:74`). One colliding insert loses a whole file and leaves
  its job RUNNING ("one bad row never rejects the file", `ingestion.py:5`). A crash
  before the file is moved imports it again (`scheduler.py:160`).
* *Nudges.* A refresh pushes an unsent due day by a week; a nudge that is too soon
  leaves its weekday; a run lost between its commits forgets `last_sent_at`.
* *Journeys.* Replacing steps makes a run in progress fail, and what it had
  delivered and not committed goes again; a customer who enters again during a run
  keeps the place of the run.
* *Audit.* The assumed age verification is said to be written to the audit log
  (`config.py:93`); the import writes nothing there.
* *Targeting.* Audiences of heavy consumers are refused for `gt` and `gte` and let
  through for `between` (`engine.py:659`).

## 8. What is not modelled

* Wording: prompts, templates, explanations, the rendering of variants. A text is
  what the rules find in it.
* The precision of floats: scores are integers in fixed units.
* `send_test`, simulated engagement and the limit of a campaign run; creation and
  statistics of automations.
* Parsing of CSV bytes and cells, event files, previews, templates for import, the
  seeds and scripts.
* Dashboards, predictions, readiness, prediction accuracy: queries without state of
  their own.
* Editing segments and brand settings through the API, authentication, tenancy,
  schemas, configuration, the providers' HTTP clients and their settings.
* Attribution windows and amounts, reactivation, the recognition of keywords in
  replies and of a customer by phone number.
* In voice ordering: product search, baskets' lines, several sessions, tokens,
  idempotency records (they repeat an answer), the audit chain. Security code is
  outside the purpose of these models.
* The frontend, which keeps no state of the system.

## 9. What is left

* *Refinements:* an abstract *outbox* (each message at most once, each accepted
  message recorded) that `SendPipeline` with one worker implements; an abstract *enrollment*
  (steps in order) that `SequenceEnrollment` implements; `LandingDay` of the pipeline as an image of `Calendar`.
* *Theorems:* what loading a file does, for every file; kind *once* in the lifecycle's
  invariants.
* *Models:* event files and the rest of the import; segments edited while they are
  evaluated; several voice sessions and their idempotency records.

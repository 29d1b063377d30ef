---------------------------- MODULE SendPipeline ----------------------------
(***************************************************************************)
(* The shared send pipeline of the automations:                            *)
(* backend/app/automations/runtime.py, `execute_candidates` and the        *)
(* helpers it calls, run by several workers (the scheduler's job and the   *)
(* request threads of POST /automations/{id}/run) against one database.    *)
(*                                                                         *)
(* A worker reads the days already claimed and the customers once, gates   *)
(* each candidate, hands the message to the provider, adds a ledger row to *)
(* its open transaction, and commits everything at the end of the batch.   *)
(* What the provider accepted stays accepted when the transaction is lost. *)
(*                                                                         *)
(* The database is the production one (PostgreSQL, READ COMMITTED): an     *)
(* INSERT of a key another transaction has inserted and not yet committed  *)
(* waits for that transaction; SQLite allows a subset of these histories.  *)
(*                                                                         *)
(* No code path leaves a row SCHEDULED in the ledger, so every row that    *)
(* claims a day is immovable, `_dedup_detail` always finds a reason and    *)
(* `_displace` and the priorities decide nothing: they are not modelled.   *)
(* `_assert_sendable` rejects a run before it does anything; here a run    *)
(* simply starts only for an automation that may send.                     *)
(***************************************************************************)
EXTENDS Naturals, Sequences, FiniteSets

CONSTANTS
    Worker,       \* threads that may run an automation
    Automation,   \* automations that may send
    Step,         \* steps of an automation (a cohort or a nudge has one)
    Customer,
    Backdated,    \* automations (nudges) whose candidates may be overdue
    Modes,        \* of a run: FALSE is live, TRUE is dry
    Null,         \* what a session holds when it is closed
    Repeats,      \* whether a batch may name a customer twice
    SlowRuns,     \* whether the part of the day may change during a run
    Cap,          \* frequency cap: messages a customer may get in 7 days
    ReceiptKind,  \* delivery reports the provider may post
    MaxDay,       \* the clock stops in the evening of this local day
    MaxBatch,     \* candidates of one run
    MaxRuns,      \* runs, of all workers together
    MaxCrashes,   \* transactions lost to an exception or a restart
    MaxFailures,  \* provider calls reported as failed
    MaxReceipts,  \* delivery reports processed
    MaxConsents   \* opt-outs and opt-ins

Status == {"SENT", "DELIVERED", "FAILED", "SKIPPED", "PREVIEW"}
Claiming == {"SENT", "DELIVERED"}                   \* IMMOVABLE_STATUSES
SkipReason == {"CONSENT", "FREQUENCY_CAP", "DEDUPED", "VALIDATION_FAILED"}
NoReason == "NONE"
Part == {"early", "open", "late"}                   \* of a local day

ASSUME ConstantsAssumption ==
    /\ MaxDay \in Nat /\ MaxBatch \in Nat /\ MaxRuns \in Nat
    /\ MaxCrashes \in Nat /\ MaxFailures \in Nat
    /\ MaxReceipts \in Nat /\ MaxConsents \in Nat
    /\ Cap \in Nat
    /\ Backdated \subseteq Automation
    /\ Modes \subseteq BOOLEAN
    /\ Repeats \in BOOLEAN
    /\ SlowRuns \in BOOLEAN
    /\ ReceiptKind \subseteq {"DELIVERED", "FAILED"}

Day == 0 .. MaxDay
Moment == [day : Day, part : Part]
LocalDate == 0 .. (MaxDay + 1)                      \* a day to land on

Candidate == [s : Step, c : Customer, d : LocalDate]

\* One row of automation_sends: the run that wrote it, the fields of its
\* idempotency key, its status, and whether the provider returned an id.
Row == [run : Nat, dry : BOOLEAN, a : Automation, s : Step, c : Customer,
        d : LocalDate, why : SkipReason \cup {NoReason},
        status : Status, pid : BOOLEAN]

\* What the provider accepted, when, and the day it was meant for.
Call == [a : Automation, s : Step, c : Customer, d : LocalDate, at : Moment]

VARIABLES
    ledger,    \* committed rows of automation_sends
    events,    \* committed *_SENT communication events, per customer
    optedOut,  \* customers suppressed on every channel (flags and rows)
    calls,     \* what the provider has accepted, in order
    clock,     \* local time
    pc,        \* per worker: "idle", "gate", "send" or "record"
    job,       \* per worker: the number of its run, its automation, dry or not
    todo,      \* per worker: candidates still to process
    cur,       \* per worker: the row being built for Head(todo)
    claims,    \* per worker: (customer, day) pairs read at the start
    batch,     \* per worker: (customer, day) pairs taken in this run
    loaded,    \* per worker: opted-out customers as loaded at the start
    pending,   \* per worker: rows of its open transaction
    tally,     \* per worker: *_SENT events of its open transaction
    late,      \* per customer: messages accepted since the last opt-out
    spent      \* how much of each bound is used up

db == <<ledger, events, optedOut>>
session == <<pc, job, todo, cur, claims, batch, loaded, pending, tally>>
vars == <<ledger, events, optedOut, calls, clock, pc, job, todo, cur, claims,
          batch, loaded, pending, tally, late, spent>>

---------------------------------------------------------------------------
(* Timing. *)

InSendWindow(m) == m.part = "open"

\* The local day on which a message proposed for moment m lands: before the
\* window opens it waits for it, after it closed it waits for tomorrow's.
LandingDay(m) ==
    IF InSendWindow(m) \/ m.part = "early" THEN m.day ELSE m.day + 1

PartsUntil(p) ==
    CASE p = "early" -> {"early"}
      [] p = "open"  -> {"early", "open"}
      [] p = "late"  -> Part

\* Moments a candidate of automation a may be proposed for. Cohorts and
\* sequences propose now; a nudge proposes its due time, which has passed.
ScheduledFor(a) ==
    IF a \in Backdated
    THEN {m \in Moment :
            \/ m.day < clock.day
            \/ m.day = clock.day /\ m.part \in PartsUntil(clock.part)}
    ELSE {clock}

Candidates(a) ==
    {[s |-> s, c |-> c, d |-> LandingDay(m)] :
        s \in Step, c \in Customer, m \in ScheduledFor(a)}

---------------------------------------------------------------------------
(* The ledger. *)

\* As if the key of a send left out the day.
BugKeyWithoutDay(r, q) ==
    /\ r.dry = q.dry /\ r.a = q.a /\ r.s = q.s
    /\ r.c = q.c /\ r.why = q.why

\* send_idempotency_key: dry or live, automation, step, customer, day and, for
\* a skip, its reason. Never the status.
SameKey(r, q) ==
    /\ r.dry = q.dry /\ r.a = q.a /\ r.s = q.s
    /\ r.c = q.c /\ r.d = q.d /\ r.why = q.why

\* A row that reserves its day: live, and gone out as far as it says.
IsClaim(r) == ~ r.dry /\ r.status \in Claiming

\* As if a skipped candidate reserved the day.
BugSkipsClaim(rows) == {<<r.c, r.d>> : r \in {q \in rows : ~ q.dry}}

\* claimed_days.
ClaimedDays(rows) == {<<r.c, r.d>> : r \in {q \in rows : IsClaim(q)}}

\* As if the database let two transactions insert one key.
BugNoWait(w, v) == FALSE

\* Worker v holds the uncommitted row worker w is about to insert.
WaitsFor(w, v) ==
    /\ v # w
    /\ pc[w] = "record"
    /\ \E r \in pending[v] : SameKey(r, cur[w])

Exhausted(x, max) == spent[x] >= max
Spend(x) == spent' = [spent EXCEPT ![x] = @ + 1]

---------------------------------------------------------------------------
Init ==
    /\ ledger = {}
    /\ events = [c \in Customer |-> 0]
    /\ optedOut = {}
    /\ calls = << >>
    /\ clock = [day |-> 0, part |-> "early"]
    /\ pc = [w \in Worker |-> "idle"]
    /\ job = [w \in Worker |-> Null]
    /\ todo = [w \in Worker |-> << >>]
    /\ cur = [w \in Worker |-> Null]
    /\ claims = [w \in Worker |-> {}]
    /\ batch = [w \in Worker |-> {}]
    /\ loaded = [w \in Worker |-> {}]
    /\ pending = [w \in Worker |-> {}]
    /\ tally = [w \in Worker |-> [c \in Customer |-> 0]]
    /\ late = [c \in Customer |-> 0]
    /\ spent = [runs |-> 0, crashes |-> 0, failures |-> 0,
                receipts |-> 0, consents |-> 0]

\* The session of worker w is closed: its objects and its transaction go.
EndSession(w) ==
    /\ pc' = [pc EXCEPT ![w] = "idle"]
    /\ job' = [job EXCEPT ![w] = Null]
    /\ todo' = [todo EXCEPT ![w] = << >>]
    /\ cur' = [cur EXCEPT ![w] = Null]
    /\ claims' = [claims EXCEPT ![w] = {}]
    /\ batch' = [batch EXCEPT ![w] = {}]
    /\ loaded' = [loaded EXCEPT ![w] = {}]
    /\ pending' = [pending EXCEPT ![w] = {}]
    /\ tally' = [tally EXCEPT ![w] = [c \in Customer |-> 0]]

\* The start of execute_candidates: resolve the timing of the candidates, read
\* the claimed days and the customers, once for the whole batch. The callers
\* build one candidate per customer; execute_candidates does not rely on it.
StartRun(w) ==
    /\ pc[w] = "idle"
    /\ ~ Exhausted("runs", MaxRuns)
    /\ \E a \in Automation, dry \in Modes, n \in 1 .. MaxBatch :
         \E cs \in [1 .. n -> Candidates(a)] :
            /\ Repeats \/ \A i, j \in 1 .. n : cs[i].c = cs[j].c => i = j
            /\ job' = [job EXCEPT ![w] =
                 [run |-> spent.runs + 1, a |-> a, dry |-> dry]]
            /\ todo' = [todo EXCEPT ![w] = cs]
            /\ claims' = [claims EXCEPT ![w] =
                 ClaimedDays(ledger) \cap {<<cs[i].c, cs[i].d>> : i \in 1 .. n}]
            /\ loaded' = [loaded EXCEPT ![w] =
                 optedOut \cap {cs[i].c : i \in 1 .. n}]
    /\ pc' = [pc EXCEPT ![w] = "gate"]
    /\ Spend("runs")
    /\ UNCHANGED <<db, calls, clock, cur, batch, pending, tally, late>>

\* As if suppression were read once per run.
BugStaleConsent(w, c) == c \in loaded[w]

\* The gates. Suppression rows and the events that the cap counts are queried
\* now; the customer's own flags are those loaded at the start.
BlockedByConsent(w, c) == c \in loaded[w] \/ c \in optedOut

\* As if the cap let one message more through.
BugCapOffByOne(w, c) == events[c] + tally[w][c] > Cap

BlockedByCap(w, c) == events[c] + tally[w][c] >= Cap

\* As if one of the two sources of claims were forgotten.
BugIgnoreBatch(w, key) == key \in claims[w]
BugIgnoreClaims(w, key) == key \in batch[w]

Deduped(w, key) == key \in claims[w] \/ key \in batch[w]

\* As if the row kept the status a decision starts with.
BugInitialStatus(w, x, why, status) ==
    [run |-> job[w].run, dry |-> job[w].dry, a |-> job[w].a,
     s |-> x.s, c |-> x.c, d |-> x.d,
     why |-> why, status |-> "SCHEDULED", pid |-> FALSE]

RowFor(w, x, why, status) ==
    [run |-> job[w].run, dry |-> job[w].dry, a |-> job[w].a,
     s |-> x.s, c |-> x.c, d |-> x.d,
     why |-> why, status |-> status, pid |-> FALSE]

Skip(w, x, why) ==
    /\ cur' = [cur EXCEPT ![w] = RowFor(w, x, why, "SKIPPED")]
    /\ pc' = [pc EXCEPT ![w] = "record"]
    /\ UNCHANGED batch

Pass(w, x) ==
    /\ batch' = [batch EXCEPT ![w] = @ \cup {<<x.c, x.d>>}]
    /\ cur' = [cur EXCEPT ![w] =
         RowFor(w, x, NoReason, IF job[w].dry THEN "PREVIEW" ELSE "SENT")]
    /\ pc' = [pc EXCEPT ![w] = IF job[w].dry THEN "record" ELSE "send"]

\* One turn of the loop over the candidates, down to the provider call. The
\* body may or may not clear the content rules.
Gate(w) ==
    /\ pc[w] = "gate"
    /\ todo[w] # << >>
    /\ LET x == Head(todo[w])
           key == <<x.c, x.d>>
       IN IF BlockedByConsent(w, x.c) THEN Skip(w, x, "CONSENT")
          ELSE IF BlockedByCap(w, x.c) THEN Skip(w, x, "FREQUENCY_CAP")
          ELSE IF Deduped(w, key) THEN Skip(w, x, "DEDUPED")
          ELSE Pass(w, x) \/ Skip(w, x, "VALIDATION_FAILED")
    /\ UNCHANGED <<db, calls, clock, job, todo, claims, loaded, pending, tally,
                   late, spent>>

\* _dispatch, up to the answer of adapter.send_message: the provider accepts;
\* or it refuses; or it accepts and the answer is lost (a timeout), which the
\* adapter reports as a failure. Nothing here looks at the clock.
ProviderAccepts(w) ==
    LET r == cur[w] IN
    /\ calls' = Append(calls,
         [a |-> r.a, s |-> r.s, c |-> r.c, d |-> r.d, at |-> clock])
    /\ late' = [late EXCEPT ![r.c] = IF r.c \in optedOut THEN @ + 1 ELSE @]

Send(w) ==
    /\ pc[w] = "send"
    /\ \/ /\ ProviderAccepts(w)
          /\ cur' = [cur EXCEPT ![w].pid = TRUE]
          /\ UNCHANGED spent
       \/ /\ ~ Exhausted("failures", MaxFailures)
          /\ \/ ProviderAccepts(w)
             \/ UNCHANGED <<calls, late>>
          /\ cur' = [cur EXCEPT ![w].status = "FAILED"]
          /\ Spend("failures")
    /\ pc' = [pc EXCEPT ![w] = "record"]
    /\ UNCHANGED <<db, clock, job, todo, claims, batch, loaded, pending, tally>>

\* As if a row that exists were tried again instead of dropped.
BugRetryCollision(w) ==
    /\ pc[w] = "record"
    /\ \A v \in Worker : ~ WaitsFor(w, v)
    /\ pc' = [pc EXCEPT ![w] = "gate"]
    /\ \/ /\ \E r \in ledger \cup pending[w] : SameKey(r, cur[w])
          /\ UNCHANGED <<pending, todo>>
       \/ /\ ~ \E r \in ledger \cup pending[w] : SameKey(r, cur[w])
          /\ pending' = [pending EXCEPT ![w] = @ \cup {cur[w]}]
          /\ todo' = [todo EXCEPT ![w] = Tail(@)]
    /\ UNCHANGED <<db, calls, clock, job, cur, claims, batch, loaded, tally,
                   late, spent>>

\* _record, then record_communication_event for a sent message. A row whose
\* key exists is dropped; a key held by another transaction is waited for.
Record(w) ==
    /\ pc[w] = "record"
    /\ \A v \in Worker : ~ WaitsFor(w, v)
    /\ pending' =
         IF \E r \in ledger \cup pending[w] : SameKey(r, cur[w])
         THEN pending
         ELSE [pending EXCEPT ![w] = @ \cup {cur[w]}]
    /\ tally' = IF cur[w].status = "SENT"
                THEN [tally EXCEPT ![w][cur[w].c] = @ + 1]
                ELSE tally
    /\ pc' = [pc EXCEPT ![w] = "gate"]
    /\ todo' = [todo EXCEPT ![w] = Tail(@)]
    /\ cur' = [cur EXCEPT ![w] = Null]
    /\ UNCHANGED <<db, calls, clock, job, claims, batch, loaded, late, spent>>

\* The one commit of execute_candidates, a dry run's too.
Commit(w) ==
    /\ pc[w] = "gate"
    /\ todo[w] = << >>
    /\ ledger' = ledger \cup pending[w]
    /\ events' = [c \in Customer |-> events[c] + tally[w][c]]
    /\ EndSession(w)
    /\ UNCHANGED <<optedOut, calls, clock, late, spent>>

\* run_due's rollback after an exception, or the restart of the process.
Rollback(w) ==
    /\ pc[w] # "idle"
    /\ ~ Exhausted("crashes", MaxCrashes)
    /\ EndSession(w)
    /\ Spend("crashes")
    /\ UNCHANGED <<db, calls, clock, late>>

\* Two transactions wait for each other: the database aborts one of them.
DeadlockVictim(w) ==
    /\ \E v \in Worker : WaitsFor(w, v) /\ WaitsFor(v, w)
    /\ EndSession(w)
    /\ UNCHANGED <<db, calls, clock, late, spent>>

WorkerStep(w) ==
    StartRun(w) \/ Gate(w) \/ Send(w) \/ Record(w) \/ Commit(w)
        \/ Rollback(w) \/ DeadlockVictim(w)

---------------------------------------------------------------------------
(* The rest of the system, as far as it touches this state. *)

Rank == [SENT |-> 2, DELIVERED |-> 3, FAILED |-> 3]

\* apply_delivery_event: the webhook finds a committed row by the provider's
\* id and moves it on unless the report ranks below what the row says.
Receipt ==
    /\ ~ Exhausted("receipts", MaxReceipts)
    /\ \E r \in ledger, kind \in ReceiptKind :
          /\ r.pid
          /\ Rank[kind] >= Rank[r.status]
          /\ ledger' = (ledger \ {r}) \cup {[r EXCEPT !.status = kind]}
    /\ Spend("receipts")
    /\ UNCHANGED <<events, optedOut, calls, clock, session, late>>

\* apply_global_opt_out and apply_opt_in, as the pipeline sees them.
OptOut(c) ==
    /\ c \notin optedOut
    /\ ~ Exhausted("consents", MaxConsents)
    /\ optedOut' = optedOut \cup {c}
    /\ late' = [late EXCEPT ![c] = 0]
    /\ Spend("consents")
    /\ UNCHANGED <<ledger, events, calls, clock, session>>

OptIn(c) ==
    /\ c \in optedOut
    /\ ~ Exhausted("consents", MaxConsents)
    /\ optedOut' = optedOut \ {c}
    /\ late' = [late EXCEPT ![c] = 0]
    /\ Spend("consents")
    /\ UNCHANGED <<ledger, events, calls, clock, session>>

Tick ==
    /\ SlowRuns \/ \A w \in Worker : pc[w] = "idle"
    /\ \/ /\ clock.part = "early"
          /\ clock' = [clock EXCEPT !.part = "open"]
       \/ /\ clock.part = "open"
          /\ clock' = [clock EXCEPT !.part = "late"]
       \/ /\ clock.part = "late"
          /\ clock.day < MaxDay
          /\ clock' = [day |-> clock.day + 1, part |-> "early"]
    /\ UNCHANGED <<db, calls, session, late, spent>>

\* The scheduler wakes up and finds nothing due.
Idle ==
    /\ \A w \in Worker : pc[w] = "idle"
    /\ UNCHANGED vars

Next ==
    \/ \E w \in Worker : WorkerStep(w)
    \/ Receipt
    \/ \E c \in Customer : OptOut(c) \/ OptIn(c)
    \/ Tick
    \/ Idle

\* A started run goes on: the loop has no wait other than for the database,
\* and the database resolves deadlocks.
Fairness ==
    \A w \in Worker :
        WF_vars(Gate(w) \/ Send(w) \/ Record(w) \/ Commit(w) \/ DeadlockVictim(w))

Spec == Init /\ [][Next]_vars /\ Fairness

---------------------------------------------------------------------------
(* Properties. *)

TypeOK ==
    /\ ledger \subseteq Row
    /\ events \in [Customer -> Nat]
    /\ optedOut \subseteq Customer
    /\ calls \in Seq(Call)
    /\ clock \in Moment
    /\ pc \in [Worker -> {"idle", "gate", "send", "record"}]
    /\ job \in [Worker -> [run : Nat, a : Automation, dry : BOOLEAN] \cup {Null}]
    /\ todo \in [Worker -> Seq(Candidate)]
    /\ cur \in [Worker -> Row \cup {Null}]
    /\ claims \in [Worker -> SUBSET (Customer \X LocalDate)]
    /\ batch \in [Worker -> SUBSET (Customer \X LocalDate)]
    /\ loaded \in [Worker -> SUBSET Customer]
    /\ pending \in [Worker -> SUBSET Row]
    /\ tally \in [Worker -> [Customer -> Nat]]
    /\ late \in [Customer -> Nat]
    /\ spent \in [{"runs", "crashes", "failures", "receipts", "consents"} -> Nat]

\* Two rows of the ledger never share an idempotency key, whoever wrote them
\* and whenever they were committed (the savepoint around the insert).
UniqueKeys ==
    \A r, q \in ledger : SameKey(r, q) => r = q

\* At most one committed row claims a customer's local day: what the dedup
\* query and the batch's own claims are for.
OneClaimPerDay ==
    \A r, q \in ledger :
        IsClaim(r) /\ IsClaim(q) /\ r.c = q.c /\ r.d = q.d => r = q

\* The provider accepts at most one message for a customer and a landing day.
OneCallPerLandingDay ==
    \A i, j \in 1 .. Len(calls) :
        calls[i].c = calls[j].c /\ calls[i].d = calls[j].d => i = j

\* "One automated message per customer per local day": of the messages that
\* go out while the window is open, at most one reaches a customer on the day
\* it is really sent (whatever day the ledger books it under).
OneMessagePerDay ==
    \A i, j \in 1 .. Len(calls) :
        /\ calls[i].c = calls[j].c
        /\ calls[i].at = calls[j].at /\ InSendWindow(calls[i].at)
        => i = j

SentTwice(i, j) ==
    /\ calls[i].a = calls[j].a /\ calls[i].s = calls[j].s
    /\ calls[i].c = calls[j].c /\ calls[i].d = calls[j].d

\* The idempotency key of a send (automation, step, customer, day) is used for
\* at most one accepted message, after a crash and with racing workers too.
NoDuplicateSend ==
    \A i, j \in 1 .. Len(calls) : SentTwice(i, j) => i = j

\* A message is sent only while the customer's send window is open: what
\* resolve_send_time defers is not handed over before its slot.
SentInWindow ==
    \A i \in 1 .. Len(calls) : InSendWindow(calls[i].at)

Booked(c, d) ==
    \/ \E r \in ledger : IsClaim(r) /\ r.c = c /\ r.d = d
    \/ \E w \in Worker :
          \/ \E r \in pending[w] : IsClaim(r) /\ r.c = c /\ r.d = d
          \/ /\ pc[w] = "record" /\ IsClaim(cur[w])
             /\ cur[w].c = c /\ cur[w].d = d

\* Every message the provider has accepted is booked: a row, committed or about
\* to be written, claims its day, so that the next run will know about it.
EveryCallClaimed ==
    \A i \in 1 .. Len(calls) : Booked(calls[i].c, calls[i].d)

\* A customer is told to wait (DEDUPED) only for a message that was sent for
\* that day: the loser of a contest always has a winner.
DedupedHasWinner ==
    \A r \in ledger :
        r.why = "DEDUPED" /\ ~ r.dry =>
            \E q \in ledger : IsClaim(q) /\ q.c = r.c /\ q.d = r.d

\* The provider never accepts more messages for a customer within the 7 days
\* the cap looks back (all of the modelled days) than the cap allows.
CapHeld ==
    \A c \in Customer :
        Cardinality({i \in 1 .. Len(calls) : calls[i].c = c}) <= Cap

\* After an opt-out, each running worker gets at most one message to that
\* customer out: the one it had already let through the gates.
OptOutBound ==
    \A c \in optedOut : late[c] <= Cardinality(Worker)

\* Delivery progress is one-way: a row that says DELIVERED goes on saying so.
DeliveredIsFinal ==
    [][\A r \in ledger : r.status = "DELIVERED" =>
          \E q \in ledger' : SameKey(q, r) /\ q.status = "DELIVERED"]_vars

\* A run that has started ends, by its commit or by a rollback.
RunsEnd ==
    \A w \in Worker : pc[w] # "idle" ~> pc[w] = "idle"

=============================================================================

------------------------- MODULE SendPipelineProofs -------------------------
(***************************************************************************)
(* Theorems about SendPipeline, for every value of its constants.          *)
(***************************************************************************)
EXTENDS SendPipeline, SequenceTheorems, FiniteSetTheorems, TLAPS

---------------------------------------------------------------------------
(* Type correctness.  TypeOK is not inductive: that Send finds a row in cur *)
(* and that Gate finds a job follows from where the worker stands.          *)

SessionOK ==
    \A w \in Worker :
        /\ pc[w] # "idle" => job[w] \in [run : Nat, a : Automation, dry : BOOLEAN]
        /\ pc[w] \in {"send", "record"} => cur[w] \in Row /\ todo[w] # << >>
        /\ pc[w] = "send" => cur[w].status = "SENT" /\ ~ cur[w].dry /\ ~ cur[w].pid

TypeInv == TypeOK /\ SessionOK

LEMMA LandingDayType ==
    ASSUME NEW m \in Moment PROVE LandingDay(m) \in LocalDate
  BY ConstantsAssumption DEF LandingDay, Moment, LocalDate, Day, InSendWindow

LEMMA CandidatesType ==
    ASSUME clock \in Moment, NEW a \in Automation
    PROVE  Candidates(a) \subseteq Candidate
  <1>1. ScheduledFor(a) \subseteq Moment
    BY DEF ScheduledFor
  <1> QED
    BY <1>1, LandingDayType DEF Candidates, Candidate

LEMMA TypeInvInit == Init => TypeInv
  BY ConstantsAssumption
  DEF Init, TypeInv, TypeOK, SessionOK, Moment, Day, Part

LEMMA StartRunType ==
    ASSUME TypeInv, NEW w \in Worker, StartRun(w) PROVE TypeInv'
  <1> USE DEF TypeInv
  <1>1. PICK a \in Automation, dry \in Modes, n \in 1 .. MaxBatch :
          \E cs \in [1 .. n -> Candidates(a)] :
            /\ Repeats \/ \A i, j \in 1 .. n : cs[i].c = cs[j].c => i = j
            /\ job' = [job EXCEPT ![w] =
                 [run |-> spent.runs + 1, a |-> a, dry |-> dry]]
            /\ todo' = [todo EXCEPT ![w] = cs]
            /\ claims' = [claims EXCEPT ![w] =
                 ClaimedDays(ledger) \cap {<<cs[i].c, cs[i].d>> : i \in 1 .. n}]
            /\ loaded' = [loaded EXCEPT ![w] =
                 optedOut \cap {cs[i].c : i \in 1 .. n}]
    BY DEF StartRun
  <1>2. PICK cs \in [1 .. n -> Candidates(a)] :
            /\ job' = [job EXCEPT ![w] =
                 [run |-> spent.runs + 1, a |-> a, dry |-> dry]]
            /\ todo' = [todo EXCEPT ![w] = cs]
            /\ claims' = [claims EXCEPT ![w] =
                 ClaimedDays(ledger) \cap {<<cs[i].c, cs[i].d>> : i \in 1 .. n}]
            /\ loaded' = [loaded EXCEPT ![w] =
                 optedOut \cap {cs[i].c : i \in 1 .. n}]
    BY <1>1
  <1>3. cs \in [1 .. n -> Candidate] /\ n \in Nat /\ dry \in BOOLEAN
    BY CandidatesType, ConstantsAssumption DEF TypeOK
  <1>4. cs \in Seq(Candidate)
    BY <1>3
  <1>5. ClaimedDays(ledger) \subseteq Customer \X LocalDate
    BY DEF ClaimedDays, TypeOK, Row
  <1>6. job' \in [Worker -> [run : Nat, a : Automation, dry : BOOLEAN] \cup {Null}]
    BY <1>2, <1>3 DEF TypeOK
  <1>7. /\ claims' \in [Worker -> SUBSET (Customer \X LocalDate)]
        /\ loaded' \in [Worker -> SUBSET Customer]
        /\ todo' \in [Worker -> Seq(Candidate)]
    BY <1>2, <1>4, <1>5 DEF TypeOK
  <1>8. TypeOK'
    BY <1>6, <1>7 DEF StartRun, TypeOK, Spend, db
  <1>9. SessionOK'
    BY <1>2, <1>3 DEF StartRun, TypeOK, SessionOK, db
  <1> QED
    BY <1>8, <1>9

LEMMA EndSessionType ==
    ASSUME TypeInv, NEW w \in Worker, EndSession(w),
           ledger' \subseteq Row, events' \in [Customer -> Nat],
           spent' \in [{"runs", "crashes", "failures", "receipts", "consents"} -> Nat],
           UNCHANGED <<optedOut, calls, clock, late>>
    PROVE  TypeInv'
  <1>1. TypeOK'
    <2>1. << >> \in Seq(Candidate)
      BY EmptySeq
    <2>2. /\ todo' \in [Worker -> Seq(Candidate)]
          /\ cur' \in [Worker -> Row \cup {Null}]
          /\ pc' \in [Worker -> {"idle", "gate", "send", "record"}]
          /\ job' \in [Worker -> [run : Nat, a : Automation, dry : BOOLEAN] \cup {Null}]
      BY <2>1 DEF EndSession, TypeInv, TypeOK
    <2>3. /\ claims' \in [Worker -> SUBSET (Customer \X LocalDate)]
          /\ batch' \in [Worker -> SUBSET (Customer \X LocalDate)]
          /\ loaded' \in [Worker -> SUBSET Customer]
          /\ pending' \in [Worker -> SUBSET Row]
          /\ tally' \in [Worker -> [Customer -> Nat]]
      BY DEF EndSession, TypeInv, TypeOK
    <2> QED
      BY <2>2, <2>3 DEF TypeInv, TypeOK
  <1>2. SessionOK'
    BY DEF EndSession, TypeInv, TypeOK, SessionOK
  <1> QED
    BY <1>1, <1>2 DEF TypeInv

LEMMA SpendType ==
    ASSUME TypeOK,
           NEW x \in {"runs", "crashes", "failures", "receipts", "consents"},
           Spend(x)
    PROVE  spent' \in [{"runs", "crashes", "failures", "receipts", "consents"} -> Nat]
  BY DEF TypeOK, Spend

LEMMA GateType ==
    ASSUME TypeInv, NEW w \in Worker, Gate(w) PROVE TypeInv'
  <1> DEFINE x == Head(todo[w])
  <1>1. x \in Candidate /\ job[w] \in [run : Nat, a : Automation, dry : BOOLEAN]
    BY HeadTailProperties DEF Gate, TypeInv, TypeOK, SessionOK
  <1>2. ASSUME NEW why \in SkipReason \cup {NoReason}, NEW status \in Status
        PROVE  RowFor(w, x, why, status) \in Row
    BY <1>1 DEF RowFor, Row, Candidate
  <1>3. (\E why \in SkipReason : Skip(w, x, why)) \/ Pass(w, x)
    BY DEF Gate, SkipReason
  <1>4. CASE \E why \in SkipReason : Skip(w, x, why)
    <2>1. PICK why \in SkipReason : Skip(w, x, why)
      BY <1>4
    <2>2. RowFor(w, x, why, "SKIPPED") \in Row
      BY <1>2 DEF Status
    <2>3. TypeOK'
      BY <2>1, <2>2 DEF Skip, Gate, TypeInv, TypeOK, db
    <2>4. SessionOK'
      BY <2>1, <2>2 DEF Skip, Gate, TypeInv, TypeOK, SessionOK, db
    <2> QED
      BY <2>3, <2>4 DEF TypeInv
  <1>5. CASE Pass(w, x)
    <2>1. RowFor(w, x, NoReason, IF job[w].dry THEN "PREVIEW" ELSE "SENT") \in Row
      BY <1>2 DEF Status
    <2>2. <<x.c, x.d>> \in Customer \X LocalDate
      BY <1>1 DEF Candidate
    <2>3. TypeOK'
      BY <1>5, <2>1, <2>2 DEF Pass, Gate, TypeInv, TypeOK, db
    <2>4. SessionOK'
      BY <1>1, <1>5, <2>1
      DEF Pass, Gate, TypeInv, TypeOK, SessionOK, db, RowFor
    <2> QED
      BY <2>3, <2>4 DEF TypeInv
  <1> QED
    BY <1>3, <1>4, <1>5

LEMMA SendType ==
    ASSUME TypeInv, NEW w \in Worker, Send(w) PROVE TypeInv'
  <1>1. cur[w] \in Row /\ cur[w].status = "SENT" /\ ~ cur[w].dry /\ todo[w] # << >>
    BY DEF Send, TypeInv, SessionOK
  <1>2. ASSUME ProviderAccepts(w)
        PROVE  calls' \in Seq(Call) /\ late' \in [Customer -> Nat]
    <2>1. [a |-> cur[w].a, s |-> cur[w].s, c |-> cur[w].c, d |-> cur[w].d,
           at |-> clock] \in Call
      BY <1>1 DEF Row, Call, TypeInv, TypeOK
    <2>2. calls' \in Seq(Call)
      BY <1>2, <2>1 DEF ProviderAccepts, TypeInv, TypeOK
    <2>3. late' \in [Customer -> Nat]
      BY <1>1, <1>2 DEF ProviderAccepts, TypeInv, TypeOK, Row
    <2> QED
      BY <2>2, <2>3
  <1>3. calls' \in Seq(Call) /\ late' \in [Customer -> Nat]
    BY <1>2 DEF Send, TypeInv, TypeOK
  <1>4. PICK row \in Row : cur' = [cur EXCEPT ![w] = row]
    <2>1. [cur[w] EXCEPT !.pid = TRUE] \in Row
      BY <1>1 DEF Row
    <2>2. [cur[w] EXCEPT !.status = "FAILED"] \in Row
      BY <1>1 DEF Row, Status
    <2> QED
      BY <2>1, <2>2 DEF Send
  <1>5. spent' \in [{"runs", "crashes", "failures", "receipts", "consents"} -> Nat]
    BY SpendType DEF Send, TypeInv, TypeOK
  <1>6. TypeOK'
    BY <1>3, <1>4, <1>5 DEF Send, TypeInv, TypeOK, db
  <1>7. SessionOK'
    BY <1>1, <1>4 DEF Send, TypeInv, TypeOK, SessionOK, db
  <1> QED
    BY <1>6, <1>7 DEF TypeInv

LEMMA RecordType ==
    ASSUME TypeInv, NEW w \in Worker, Record(w) PROVE TypeInv'
  <1>1. cur[w] \in Row /\ todo[w] # << >>
    BY DEF Record, TypeInv, SessionOK
  <1>2. pending' \in [Worker -> SUBSET Row]
    BY <1>1 DEF Record, TypeInv, TypeOK
  <1>3. tally' \in [Worker -> [Customer -> Nat]]
    <2>1. cur[w].c \in Customer
      BY <1>1 DEF Row
    <2>2. \/ tally' = tally
          \/ tally' = [tally EXCEPT ![w] = [tally[w] EXCEPT ![cur[w].c] = @ + 1]]
      BY DEF Record
    <2>3. [tally[w] EXCEPT ![cur[w].c] = @ + 1] \in [Customer -> Nat]
      BY <2>1 DEF TypeInv, TypeOK
    <2> QED
      BY <2>2, <2>3 DEF TypeInv, TypeOK
  <1>4. todo' \in [Worker -> Seq(Candidate)]
    BY <1>1, HeadTailProperties DEF Record, TypeInv, TypeOK
  <1>5. TypeOK'
    BY <1>2, <1>3, <1>4 DEF Record, TypeInv, TypeOK, db
  <1>6. SessionOK'
    BY DEF Record, TypeInv, TypeOK, SessionOK, db
  <1> QED
    BY <1>5, <1>6 DEF TypeInv

LEMMA CommitType ==
    ASSUME TypeInv, NEW w \in Worker, Commit(w) PROVE TypeInv'
  <1>1. ledger' \subseteq Row /\ events' \in [Customer -> Nat]
    BY DEF Commit, TypeInv, TypeOK
  <1>2. spent' \in [{"runs", "crashes", "failures", "receipts", "consents"} -> Nat]
    BY DEF Commit, TypeInv, TypeOK
  <1> QED
    BY <1>1, <1>2, EndSessionType DEF Commit

LEMMA RollbackType ==
    ASSUME TypeInv, NEW w \in Worker, Rollback(w) \/ DeadlockVictim(w)
    PROVE  TypeInv'
  <1>1. spent' \in [{"runs", "crashes", "failures", "receipts", "consents"} -> Nat]
    BY SpendType DEF Rollback, DeadlockVictim, TypeInv, TypeOK
  <1>2. /\ ledger' \subseteq Row /\ events' \in [Customer -> Nat]
        /\ EndSession(w) /\ UNCHANGED <<optedOut, calls, clock, late>>
    BY DEF Rollback, DeadlockVictim, TypeInv, TypeOK, db
  <1> QED
    BY <1>1, <1>2, EndSessionType

LEMMA ReceiptType ==
    ASSUME TypeInv, Receipt PROVE TypeInv'
  <1>1. spent' \in [{"runs", "crashes", "failures", "receipts", "consents"} -> Nat]
    BY SpendType DEF Receipt, TypeInv, TypeOK
  <1>2. PICK r \in ledger, kind \in ReceiptKind :
          ledger' = (ledger \ {r}) \cup {[r EXCEPT !.status = kind]}
    BY DEF Receipt
  <1>3. [r EXCEPT !.status = kind] \in Row
    <2>1. r \in Row /\ kind \in Status
      BY ConstantsAssumption DEF TypeInv, TypeOK, Status
    <2> QED
      BY <2>1 DEF Row
  <1>4. TypeOK'
    BY <1>1, <1>2, <1>3 DEF Receipt, TypeInv, TypeOK, session
  <1>5. SessionOK'
    BY DEF Receipt, TypeInv, SessionOK, session
  <1> QED
    BY <1>4, <1>5 DEF TypeInv

LEMMA ConsentType ==
    ASSUME TypeInv, NEW c \in Customer, OptOut(c) \/ OptIn(c) PROVE TypeInv'
  <1>1. spent' \in [{"runs", "crashes", "failures", "receipts", "consents"} -> Nat]
    BY SpendType DEF OptOut, OptIn, TypeInv, TypeOK
  <1>2. TypeOK'
    <2>1. optedOut' \subseteq Customer
      BY DEF OptOut, OptIn, TypeInv, TypeOK
    <2>3. late' = [late EXCEPT ![c] = 0]
      BY DEF OptOut, OptIn
    <2>4. late' \in [Customer -> Nat]
      BY <2>3 DEF TypeInv, TypeOK
    <2>2. UNCHANGED <<ledger, events, calls, clock, session>>
      BY DEF OptOut, OptIn
    <2> QED
      BY <1>1, <2>1, <2>2, <2>4 DEF TypeInv, TypeOK, session
  <1>3. SessionOK'
    BY DEF OptOut, OptIn, TypeInv, SessionOK, session
  <1> QED
    BY <1>2, <1>3 DEF TypeInv

LEMMA TickType ==
    ASSUME TypeInv, Tick PROVE TypeInv'
  <1>1. clock' \in Moment
    <2>1. clock \in Moment
      BY DEF TypeInv, TypeOK
    <2>2. CASE clock.part \in {"early", "open"}
      BY <2>1, <2>2 DEF Tick, Moment, Part
    <2>3. CASE clock.part = "late"
      <3>1. clock.day + 1 \in Day
        BY <2>1, <2>3, ConstantsAssumption DEF Tick, Moment, Day
      <3> QED
        BY <2>3, <3>1 DEF Tick, Moment, Part
    <2> QED
      BY <2>1, <2>2, <2>3 DEF Moment, Part
  <1>2. TypeOK'
    BY <1>1 DEF Tick, TypeInv, TypeOK, session, db
  <1>3. SessionOK'
    BY DEF Tick, TypeInv, SessionOK, session
  <1> QED
    BY <1>2, <1>3 DEF TypeInv

LEMMA TypeInvStep == TypeInv /\ [Next]_vars => TypeInv'
  <1> SUFFICES ASSUME TypeInv, [Next]_vars PROVE TypeInv'
    OBVIOUS
  <1>1. CASE UNCHANGED vars
    BY <1>1 DEF vars, TypeInv, TypeOK, SessionOK
  <1>2. ASSUME NEW w \in Worker, WorkerStep(w) PROVE TypeInv'
    BY <1>2, StartRunType, GateType, SendType, RecordType, CommitType, RollbackType
    DEF WorkerStep
  <1>3. ASSUME NEW c \in Customer, OptOut(c) \/ OptIn(c) PROVE TypeInv'
    BY <1>3, ConsentType
  <1> QED
    BY <1>1, <1>2, <1>3, ReceiptType, TickType DEF Next, Idle

\* The variables always hold values of their types, whatever the workers, the
\* provider and the customers do.
THEOREM TypeCorrect == Spec => []TypeOK
  <1>1. TypeInv => TypeOK
    BY DEF TypeInv
  <1> QED
    BY <1>1, TypeInvInit, TypeInvStep, PTL DEF Spec

\* The strengthening of TypeOK that says where a worker stands.
THEOREM TypeInvariant == Spec => []TypeInv
  BY TypeInvInit, TypeInvStep, PTL DEF Spec

---------------------------------------------------------------------------
(* Unique keys, for any number of workers.  A committed ledger stays free of *)
(* double keys because the open transactions are: no two hold the same key,  *)
(* and none holds a committed one.                                           *)

PendingKeysUnique ==
    \A w \in Worker : \A r, q \in pending[w] : SameKey(r, q) => r = q

PendingKeysNew ==
    \A w \in Worker : \A r \in ledger, q \in pending[w] : ~ SameKey(r, q)

PendingKeysApart ==
    \A v, w \in Worker : v # w =>
        \A r \in pending[v], q \in pending[w] : ~ SameKey(r, q)

KeysInv == UniqueKeys /\ PendingKeysUnique /\ PendingKeysNew /\ PendingKeysApart

LEMMA KeysInvInit == Init => KeysInv
  BY DEF Init, KeysInv, UniqueKeys, PendingKeysUnique, PendingKeysNew, PendingKeysApart

LEMMA SameKeyIsEquivalence ==
    ASSUME NEW r, NEW q, NEW t, SameKey(r, q)
    PROVE  SameKey(q, r) /\ (SameKey(q, t) => SameKey(r, t))
  BY DEF SameKey

LEMMA RecordKeys ==
    ASSUME TypeInv, KeysInv, NEW w \in Worker, Record(w) PROVE KeysInv'
  <1>1. CASE \E r \in ledger \cup pending[w] : SameKey(r, cur[w])
    BY <1>1 DEF Record, db, KeysInv, UniqueKeys, PendingKeysUnique,
                PendingKeysNew, PendingKeysApart, SameKey
  <1>2. CASE \A r \in ledger \cup pending[w] : ~ SameKey(r, cur[w])
    <2>1. /\ ledger' = ledger
          /\ pending' = [pending EXCEPT ![w] = pending[w] \cup {cur[w]}]
      BY <1>2 DEF Record, db
    <2>2. \A v \in Worker : v # w => \A r \in pending[v] : ~ SameKey(r, cur[w])
      BY DEF Record, WaitsFor
    <2>3. UniqueKeys'
      BY <2>1 DEF KeysInv, UniqueKeys, SameKey
    <2>4. PendingKeysUnique'
      BY <1>2, <2>1, SameKeyIsEquivalence DEF KeysInv, PendingKeysUnique, TypeInv, TypeOK, SameKey
    <2>5. PendingKeysNew'
      <3> SUFFICES ASSUME NEW v \in Worker, NEW r \in ledger, NEW q \in pending'[v]
                   PROVE  ~ SameKey(r, q)
        BY <2>1 DEF PendingKeysNew, SameKey
      <3>1. q \in pending[v] \/ q = cur[w]
        BY <2>1 DEF TypeInv, TypeOK
      <3> QED
        BY <1>2, <3>1 DEF KeysInv, PendingKeysNew
    <2>6. PendingKeysApart'
      <3> SUFFICES ASSUME NEW u \in Worker, NEW v \in Worker, u # v,
                          NEW r \in pending'[u], NEW q \in pending'[v]
                   PROVE  ~ SameKey(r, q)
        BY DEF PendingKeysApart, SameKey
      <3>1. /\ r \in pending[u] \/ (u = w /\ r = cur[w])
            /\ q \in pending[v] \/ (v = w /\ q = cur[w])
        BY <2>1 DEF TypeInv, TypeOK
      <3> QED
        BY <2>2, <3>1, SameKeyIsEquivalence DEF KeysInv, PendingKeysApart
    <2> QED
      BY <2>3, <2>4, <2>5, <2>6 DEF KeysInv
  <1> QED
    BY <1>1, <1>2

LEMMA EndSessionKeys ==
    ASSUME TypeInv, KeysInv, NEW w \in Worker, EndSession(w),
           ledger' = ledger \/ ledger' = ledger \cup pending[w]
    PROVE  KeysInv'
  <1>1. pending' = [pending EXCEPT ![w] = {}]
    BY DEF EndSession
  <1>2. UniqueKeys'
    BY SameKeyIsEquivalence
    DEF KeysInv, UniqueKeys, PendingKeysUnique, PendingKeysNew, SameKey
  <1>3. PendingKeysUnique' /\ PendingKeysApart'
    BY <1>1 DEF KeysInv, PendingKeysUnique, PendingKeysApart, TypeInv, TypeOK, SameKey
  <1>4. PendingKeysNew'
    BY <1>1 DEF KeysInv, PendingKeysNew, PendingKeysApart, TypeInv, TypeOK, SameKey
  <1> QED
    BY <1>2, <1>3, <1>4 DEF KeysInv

LEMMA ReceiptKeys ==
    ASSUME TypeInv, KeysInv, Receipt PROVE KeysInv'
  <1>1. PICK r \in ledger, kind \in ReceiptKind :
          ledger' = (ledger \ {r}) \cup {[r EXCEPT !.status = kind]}
    BY DEF Receipt
  <1> DEFINE moved == [r EXCEPT !.status = kind]
  <1>2. \A q : /\ SameKey(moved, q) <=> SameKey(r, q)
               /\ SameKey(q, moved) <=> SameKey(q, r)
    <2>1. r \in Row
      BY DEF TypeInv, TypeOK
    <2> QED
      BY <2>1 DEF SameKey, Row
  <1>3. pending' = pending
    BY DEF Receipt, session
  <1> HIDE DEF moved
  <1>4. ledger' = (ledger \ {r}) \cup {moved}
    BY <1>1 DEF moved
  <1>5. UniqueKeys'
    BY <1>2, <1>4 DEF KeysInv, UniqueKeys, SameKey
  <1>6. PendingKeysNew'
    BY <1>2, <1>3, <1>4 DEF KeysInv, PendingKeysNew, SameKey
  <1> QED
    BY <1>3, <1>5, <1>6 DEF KeysInv, PendingKeysUnique, PendingKeysApart, SameKey

LEMMA KeysInvStep == TypeInv /\ KeysInv /\ [Next]_vars => KeysInv'
  <1> SUFFICES ASSUME TypeInv, KeysInv, [Next]_vars PROVE KeysInv'
    OBVIOUS
  <1>1. ASSUME UNCHANGED <<ledger, pending>> PROVE KeysInv'
    BY <1>1 DEF KeysInv, UniqueKeys, PendingKeysUnique, PendingKeysNew,
                PendingKeysApart, SameKey
  <1>2. ASSUME NEW w \in Worker, WorkerStep(w) PROVE KeysInv'
    <2>1. CASE StartRun(w) \/ Gate(w) \/ Send(w)
      BY <1>1, <2>1 DEF StartRun, Gate, Send, db
    <2>2. CASE Record(w)
      BY <2>2, RecordKeys
    <2>3. CASE Commit(w) \/ Rollback(w) \/ DeadlockVictim(w)
      BY <2>3, EndSessionKeys DEF Commit, Rollback, DeadlockVictim, db
    <2> QED
      BY <1>2, <2>1, <2>2, <2>3 DEF WorkerStep
  <1>3. ASSUME NEW c \in Customer, OptOut(c) \/ OptIn(c) PROVE KeysInv'
    BY <1>1, <1>3 DEF OptOut, OptIn, session
  <1>4. CASE Tick \/ Idle \/ UNCHANGED vars
    BY <1>1, <1>4 DEF Tick, Idle, vars, session, db
  <1> QED
    BY <1>2, <1>3, <1>4, ReceiptKeys DEF Next

\* Whatever the workers do concurrently and whichever transactions are lost,
\* the committed ledger never holds two rows with one idempotency key.
THEOREM KeysAreUnique == Spec => []UniqueKeys
  <1>1. KeysInv => UniqueKeys
    BY DEF KeysInv
  <1> QED
    BY <1>1, KeysInvInit, KeysInvStep, TypeInvariant, PTL DEF Spec

\* The strengthening of UniqueKeys that mentions the open transactions.
THEOREM KeysInvariant == Spec => []KeysInv
  BY KeysInvInit, KeysInvStep, TypeInvariant, PTL DEF Spec

---------------------------------------------------------------------------
(* One claim per day, for a single worker (the scheduler alone) and reports  *)
(* that never turn a message into a failure.  The ledger does not grow while *)
(* the worker's run is open, so what it read at the start (claims) and took  *)
(* since (batch) is everything that claims a day: a row that is about to be  *)
(* recorded is the first of its day.                                         *)

SingleWorker == \A v, w \in Worker : v = w

DayOf(r) == <<r.c, r.d>>

\* Of the committed rows and those of an open transaction, one claims a day.
OneOpenClaim ==
    \A w \in Worker : \A r, q \in ledger \cup pending[w] :
        IsClaim(r) /\ IsClaim(q) /\ r.c = q.c /\ r.d = q.d => r = q

\* A worker knows every committed claim on the days it still has to process.
ClaimsKnown ==
    \A w \in Worker : \A i \in 1 .. Len(todo[w]) : \A r \in ledger :
        IsClaim(r) /\ r.c = todo[w][i].c /\ r.d = todo[w][i].d
            => <<r.c, r.d>> \in claims[w]

\* It remembers the days its own transaction claims.
BatchKnown ==
    \A w \in Worker : \A r \in pending[w] :
        IsClaim(r) => <<r.c, r.d>> \in batch[w]

\* A day that is about to be claimed is free, and marked as taken.
CurIsFirst ==
    \A w \in Worker : pc[w] \in {"send", "record"} /\ IsClaim(cur[w]) =>
        /\ <<cur[w].c, cur[w].d>> \in batch[w]
        /\ \A r \in ledger \cup pending[w] :
              ~ (IsClaim(r) /\ r.c = cur[w].c /\ r.d = cur[w].d)

\* Only a sent message has a provider id to report on.
PidClaims ==
    /\ \A r \in ledger : r.pid => IsClaim(r)
    /\ \A w \in Worker : \A r \in pending[w] : r.pid => IsClaim(r)
    /\ \A w \in Worker :
          pc[w] \in {"send", "record"} /\ cur[w].pid => IsClaim(cur[w])

ClaimInv ==
    /\ OneClaimPerDay /\ OneOpenClaim /\ ClaimsKnown
    /\ BatchKnown /\ CurIsFirst /\ PidClaims

LEMMA ClaimInvInit == Init => ClaimInv
  BY DEF Init, ClaimInv, OneClaimPerDay, OneOpenClaim, ClaimsKnown, BatchKnown,
         CurIsFirst, PidClaims

LEMMA StartRunClaims ==
    ASSUME SingleWorker, TypeInv, ClaimInv, NEW w \in Worker, StartRun(w)
    PROVE  ClaimInv'
  <1>1. PICK a \in Automation, dry \in Modes, n \in 1 .. MaxBatch :
          \E cs \in [1 .. n -> Candidates(a)] :
            /\ Repeats \/ \A i, j \in 1 .. n : cs[i].c = cs[j].c => i = j
            /\ job' = [job EXCEPT ![w] =
                 [run |-> spent.runs + 1, a |-> a, dry |-> dry]]
            /\ todo' = [todo EXCEPT ![w] = cs]
            /\ claims' = [claims EXCEPT ![w] =
                 ClaimedDays(ledger) \cap {<<cs[i].c, cs[i].d>> : i \in 1 .. n}]
            /\ loaded' = [loaded EXCEPT ![w] =
                 optedOut \cap {cs[i].c : i \in 1 .. n}]
    BY DEF StartRun
  <1>2. PICK cs \in [1 .. n -> Candidates(a)] :
            /\ job' = [job EXCEPT ![w] =
                 [run |-> spent.runs + 1, a |-> a, dry |-> dry]]
            /\ todo' = [todo EXCEPT ![w] = cs]
            /\ claims' = [claims EXCEPT ![w] =
                 ClaimedDays(ledger) \cap {<<cs[i].c, cs[i].d>> : i \in 1 .. n}]
            /\ loaded' = [loaded EXCEPT ![w] =
                 optedOut \cap {cs[i].c : i \in 1 .. n}]
    BY <1>1
  <1>3. /\ \A v \in Worker : v = w
        /\ todo'[w] = cs /\ Len(cs) = n /\ n \in Nat
        /\ claims'[w] = ClaimedDays(ledger) \cap {<<cs[i].c, cs[i].d>> : i \in 1 .. n}
    BY <1>2, ConstantsAssumption DEF SingleWorker, TypeInv, TypeOK
  <1>4. /\ UNCHANGED <<ledger, pending, batch>>
        /\ pc' = [pc EXCEPT ![w] = "gate"]
    BY DEF StartRun, db
  <1>5. ClaimsKnown'
    BY <1>3, <1>4 DEF ClaimsKnown, ClaimedDays, IsClaim
  <1>6. CurIsFirst'
    BY <1>3, <1>4 DEF CurIsFirst, TypeInv, TypeOK
  <1>7. PidClaims'
    BY <1>3, <1>4 DEF ClaimInv, PidClaims, IsClaim, TypeInv, TypeOK
  <1>8. (OneClaimPerDay /\ OneOpenClaim /\ BatchKnown)'
    BY <1>4 DEF ClaimInv, OneClaimPerDay, OneOpenClaim, BatchKnown, IsClaim
  <1> QED
    BY <1>5, <1>6, <1>7, <1>8 DEF ClaimInv

LEMMA GateClaims ==
    ASSUME SingleWorker, TypeInv, ClaimInv, NEW w \in Worker, Gate(w)
    PROVE  ClaimInv'
  <1> DEFINE x == Head(todo[w])
  <1>1. UNCHANGED <<ledger, pending, claims, todo>>
    BY DEF Gate, db
  <1>2. (\E why \in SkipReason : Skip(w, x, why))
          \/ (Pass(w, x) /\ ~ Deduped(w, <<x.c, x.d>>))
    BY DEF Gate, SkipReason
  <1>3. /\ \A v \in Worker : v = w
        /\ x = todo[w][1] /\ 1 \in 1 .. Len(todo[w])
    BY HeadTailProperties, EmptySeq DEF Gate, SingleWorker, TypeInv, TypeOK
  <1>4. (OneClaimPerDay /\ OneOpenClaim /\ ClaimsKnown)'
    BY <1>1 DEF ClaimInv, OneClaimPerDay, OneOpenClaim, ClaimsKnown, IsClaim
  <1>5. CASE \E why \in SkipReason : Skip(w, x, why)
    <2>1. cur'[w].status = "SKIPPED" /\ ~ cur'[w].pid /\ batch' = batch
      BY <1>5 DEF Skip, RowFor, TypeInv, TypeOK
    <2>2. CurIsFirst' /\ PidClaims' /\ BatchKnown'
      BY <1>1, <1>3, <2>1
      DEF ClaimInv, CurIsFirst, PidClaims, BatchKnown, IsClaim, Claiming
    <2> QED
      BY <1>4, <2>2 DEF ClaimInv
  <1>6. CASE Pass(w, x) /\ ~ Deduped(w, <<x.c, x.d>>)
    <2>1. /\ cur'[w].c = x.c /\ cur'[w].d = x.d /\ ~ cur'[w].pid
          /\ batch'[w] = batch[w] \cup {<<x.c, x.d>>}
      BY <1>6 DEF Pass, RowFor, TypeInv, TypeOK
    <2>2. <<x.c, x.d>> \notin claims[w] \cup batch[w]
      BY <1>6 DEF Deduped
    <2>3. \A r \in ledger \cup pending[w] :
            ~ (IsClaim(r) /\ r.c = x.c /\ r.d = x.d)
      BY <1>3, <2>2 DEF ClaimInv, ClaimsKnown, BatchKnown
    <2>4. CurIsFirst'
      BY <1>1, <1>3, <2>1, <2>3 DEF CurIsFirst, IsClaim
    <2>5. PidClaims' /\ BatchKnown'
      BY <1>1, <1>3, <2>1 DEF ClaimInv, PidClaims, BatchKnown, IsClaim
    <2> QED
      BY <1>4, <2>4, <2>5 DEF ClaimInv
  <1> QED
    BY <1>2, <1>5, <1>6

LEMMA SendClaims ==
    ASSUME SingleWorker, TypeInv, ClaimInv, NEW w \in Worker, Send(w)
    PROVE  ClaimInv'
  <1>1. /\ UNCHANGED <<ledger, pending, claims, todo, batch>>
        /\ pc[w] = "send" /\ pc'[w] = "record"
        /\ \A v \in Worker : v = w
    BY DEF Send, db, SingleWorker, TypeInv, TypeOK
  <1>2. cur[w] \in Row /\ IsClaim(cur[w])
    BY <1>1 DEF TypeInv, SessionOK, IsClaim, Claiming
  <1>3. /\ cur'[w].c = cur[w].c /\ cur'[w].d = cur[w].d
        /\ cur'[w].pid => IsClaim(cur'[w])
    <2>1. CASE cur' = [cur EXCEPT ![w].pid = TRUE]
      BY <1>2, <2>1 DEF Row, IsClaim, TypeInv, TypeOK
    <2>2. CASE cur' = [cur EXCEPT ![w].status = "FAILED"]
      <3>1. cur[w].pid = FALSE
        BY <1>1, <1>2 DEF TypeInv, SessionOK, Row
      <3> QED
        BY <1>2, <2>2, <3>1 DEF Row, IsClaim, TypeInv, TypeOK
    <2> QED
      BY <2>1, <2>2 DEF Send
  <1>4. CurIsFirst'
    BY <1>1, <1>2, <1>3 DEF ClaimInv, CurIsFirst, IsClaim
  <1>5. PidClaims'
    BY <1>1, <1>3 DEF ClaimInv, PidClaims, IsClaim
  <1>6. (OneClaimPerDay /\ OneOpenClaim /\ ClaimsKnown /\ BatchKnown)'
    BY <1>1 DEF ClaimInv, OneClaimPerDay, OneOpenClaim, ClaimsKnown, BatchKnown, IsClaim
  <1> QED
    BY <1>4, <1>5, <1>6 DEF ClaimInv

LEMMA RecordClaims ==
    ASSUME SingleWorker, TypeInv, ClaimInv, NEW w \in Worker, Record(w)
    PROVE  ClaimInv'
  <1>1. /\ UNCHANGED <<ledger, claims, batch>>
        /\ pc[w] = "record" /\ pc'[w] = "gate"
        /\ todo[w] # << >> /\ todo'[w] = Tail(todo[w])
        /\ pending'[w] = pending[w] \/ pending'[w] = pending[w] \cup {cur[w]}
        /\ \A v \in Worker : v = w
    BY DEF Record, db, SingleWorker, TypeInv, TypeOK, SessionOK
  <1>2. OneOpenClaim' /\ OneClaimPerDay'
    <2>1. OneClaimPerDay'
      BY <1>1 DEF ClaimInv, OneClaimPerDay, IsClaim
    <2>2. OneOpenClaim'
      <3> SUFFICES ASSUME NEW r \in ledger \cup pending'[w],
                          NEW q \in ledger \cup pending'[w],
                          IsClaim(r), IsClaim(q), r.c = q.c, r.d = q.d
                   PROVE  r = q
        BY <1>1 DEF OneOpenClaim, IsClaim
      <3>1. /\ r \in ledger \cup pending[w] \/ r = cur[w]
            /\ q \in ledger \cup pending[w] \/ q = cur[w]
        BY <1>1
      <3>2. IsClaim(cur[w]) => \A t \in ledger \cup pending[w] :
                ~ (IsClaim(t) /\ t.c = cur[w].c /\ t.d = cur[w].d)
        BY <1>1 DEF ClaimInv, CurIsFirst
      <3>3. r \in ledger \cup pending[w] /\ q \in ledger \cup pending[w] => r = q
        BY DEF ClaimInv, OneOpenClaim
      <3> QED
        BY <3>1, <3>2, <3>3
    <2> QED
      BY <2>1, <2>2
  <1>3. ClaimsKnown'
    <2>1. \A i \in 1 .. Len(todo'[w]) :
            i + 1 \in 1 .. Len(todo[w]) /\ todo'[w][i] = todo[w][i + 1]
      BY <1>1, HeadTailProperties, LenProperties DEF TypeInv, TypeOK
    <2> QED
      <3> SUFFICES ASSUME NEW i \in 1 .. Len(todo'[w]), NEW r \in ledger, IsClaim(r),
                          r.c = todo'[w][i].c, r.d = todo'[w][i].d
                   PROVE  <<r.c, r.d>> \in claims[w]
        BY <1>1 DEF ClaimsKnown, IsClaim
      <3> QED
        BY <2>1 DEF ClaimInv, ClaimsKnown
  <1>4. BatchKnown' /\ PidClaims' /\ CurIsFirst'
    BY <1>1 DEF ClaimInv, BatchKnown, PidClaims, CurIsFirst, IsClaim
  <1> QED
    BY <1>2, <1>3, <1>4 DEF ClaimInv

LEMMA EndSessionClaims ==
    ASSUME SingleWorker, TypeInv, ClaimInv, NEW w \in Worker, EndSession(w),
           ledger' = ledger \/ ledger' = ledger \cup pending[w]
    PROVE  ClaimInv'
  <1>1. /\ pc'[w] = "idle" /\ todo'[w] = << >> /\ pending'[w] = {}
        /\ \A v \in Worker : v = w
    BY DEF EndSession, SingleWorker, TypeInv, TypeOK
  <1>2. OneClaimPerDay' /\ OneOpenClaim'
    BY <1>1 DEF ClaimInv, OneClaimPerDay, OneOpenClaim, IsClaim
  <1>3. (ClaimsKnown /\ BatchKnown /\ CurIsFirst /\ PidClaims)'
    BY <1>1, EmptySeq
    DEF ClaimInv, ClaimsKnown, BatchKnown, CurIsFirst, PidClaims, IsClaim
  <1> QED
    BY <1>2, <1>3 DEF ClaimInv

LEMMA ReceiptClaims ==
    ASSUME TypeInv, KeysInv, ClaimInv, "FAILED" \notin ReceiptKind, Receipt
    PROVE  ClaimInv'
  <1>1. PICK r \in ledger, kind \in ReceiptKind :
          /\ r.pid
          /\ ledger' = (ledger \ {r}) \cup {[r EXCEPT !.status = kind]}
    BY DEF Receipt
  <1> DEFINE moved == [r EXCEPT !.status = kind]
  <1>2. /\ IsClaim(r) /\ IsClaim(moved)
        /\ moved.c = r.c /\ moved.d = r.d
    <2>1. IsClaim(r) /\ r \in Row /\ kind = "DELIVERED"
      BY <1>1, ConstantsAssumption DEF ClaimInv, PidClaims, TypeInv, TypeOK
    <2> QED
      BY <2>1 DEF IsClaim, Claiming, Row
  <1>3. UNCHANGED <<pc, todo, cur, claims, batch, pending>>
    BY DEF Receipt, session
  <1> HIDE DEF moved
  <1>4. ledger' = (ledger \ {r}) \cup {moved}
    BY <1>1 DEF moved
  <1>5. OneClaimPerDay'
    BY <1>2, <1>4 DEF ClaimInv, OneClaimPerDay, IsClaim
  <1>6. OneOpenClaim'
    <2> SUFFICES ASSUME NEW w \in Worker,
                        NEW p \in ledger' \cup pending[w], NEW q \in ledger' \cup pending[w],
                        IsClaim(p), IsClaim(q), p.c = q.c, p.d = q.d
                 PROVE  p = q
      BY <1>3 DEF OneOpenClaim, IsClaim
    <2>1. \A t \in ledger \cup pending[w] :
            IsClaim(t) /\ t.c = r.c /\ t.d = r.d => t = r
      BY <1>2 DEF ClaimInv, OneOpenClaim
    <2>4. r \notin pending[w]
      BY DEF KeysInv, PendingKeysNew, SameKey
    <2>2. p = moved \/ (p \in ledger /\ p # r) \/ p \in pending[w]
      BY <1>4
    <2>3. q = moved \/ (q \in ledger /\ q # r) \/ q \in pending[w]
      BY <1>4
    <2> QED
      <3>1. CASE p = moved \/ q = moved
        BY <1>2, <2>1, <2>2, <2>3, <2>4, <3>1
      <3>2. CASE p # moved /\ q # moved
        BY <2>2, <2>3, <3>2 DEF ClaimInv, OneOpenClaim
      <3> QED
        BY <3>1, <3>2
  <1>7. (ClaimsKnown /\ BatchKnown /\ CurIsFirst /\ PidClaims)'
    BY <1>2, <1>3, <1>4
    DEF ClaimInv, ClaimsKnown, BatchKnown, CurIsFirst, PidClaims, IsClaim
  <1> QED
    BY <1>5, <1>6, <1>7 DEF ClaimInv

LEMMA ClaimInvStep ==
    ASSUME SingleWorker, "FAILED" \notin ReceiptKind
    PROVE  TypeInv /\ KeysInv /\ ClaimInv /\ [Next]_vars => ClaimInv'
  <1> SUFFICES ASSUME TypeInv, KeysInv, ClaimInv, [Next]_vars PROVE ClaimInv'
    OBVIOUS
  <1>1. ASSUME NEW w \in Worker, WorkerStep(w) PROVE ClaimInv'
    <2>1. CASE Commit(w) \/ Rollback(w) \/ DeadlockVictim(w)
      BY <2>1, EndSessionClaims DEF Commit, Rollback, DeadlockVictim, db
    <2> QED
      BY <1>1, <2>1, StartRunClaims, GateClaims, SendClaims, RecordClaims
      DEF WorkerStep
  <1>2. ASSUME UNCHANGED <<ledger, pc, todo, cur, claims, batch, pending>>
        PROVE  ClaimInv'
    BY <1>2 DEF ClaimInv, OneClaimPerDay, OneOpenClaim, ClaimsKnown, BatchKnown,
                CurIsFirst, PidClaims, IsClaim
  <1>3. ASSUME NEW c \in Customer, OptOut(c) \/ OptIn(c) PROVE ClaimInv'
    BY <1>2, <1>3 DEF OptOut, OptIn, session
  <1>4. CASE Tick \/ Idle \/ UNCHANGED vars
    BY <1>2, <1>4 DEF Tick, Idle, vars, session, db
  <1> QED
    BY <1>1, <1>3, <1>4, ReceiptClaims DEF Next

\* With the scheduler as the only worker, and whatever is lost or refused, at
\* most one committed row claims a customer's local day.
THEOREM OneClaimPerDayHolds ==
    ASSUME SingleWorker, "FAILED" \notin ReceiptKind
    PROVE  Spec => []OneClaimPerDay
  <1>1. ClaimInv => OneClaimPerDay
    BY DEF ClaimInv
  <1>2. TypeInv /\ KeysInv /\ ClaimInv /\ [Next]_vars => ClaimInv'
    BY ClaimInvStep
  <1> QED
    BY <1>1, <1>2, ClaimInvInit, TypeInvariant, KeysInvariant, PTL DEF Spec

---------------------------------------------------------------------------
(* One accepted message per landing day, when moreover no transaction is     *)
(* lost and no call is reported as failed: then each accepted message has a  *)
(* row that claims its day, or is about to have it.                          *)

ExactLedger ==
    /\ SingleWorker
    /\ "FAILED" \notin ReceiptKind
    /\ MaxCrashes = 0 /\ MaxFailures = 0

\* Under the key of a send there is no other row than a sent message.
SendsClaim(r) == ~ r.dry /\ r.why = NoReason => IsClaim(r)

SendRowsClaim ==
    /\ \A r \in ledger : SendsClaim(r)
    /\ \A w \in Worker : \A r \in pending[w] : SendsClaim(r)
    /\ \A w \in Worker : pc[w] \in {"send", "record"} =>
          SendsClaim(cur[w]) /\ (IsClaim(cur[w]) => cur[w].why = NoReason)

NothingLost == spent.crashes = 0 /\ spent.failures = 0

CallInv == OneCallPerLandingDay /\ EveryCallClaimed /\ SendRowsClaim /\ NothingLost

LEMMA CallInvInit == Init => CallInv
  BY EmptySeq DEF Init, CallInv, OneCallPerLandingDay, EveryCallClaimed, SendRowsClaim, NothingLost

LEMMA SendCalls ==
    ASSUME ExactLedger, TypeInv, ClaimInv, CallInv, NEW w \in Worker, Send(w)
    PROVE  CallInv'
  <1>1. /\ ProviderAccepts(w) /\ cur' = [cur EXCEPT ![w].pid = TRUE]
        /\ UNCHANGED <<spent, ledger, pending>>
    BY DEF Send, Exhausted, CallInv, NothingLost, ExactLedger, db
  <1>2. /\ pc[w] = "send" /\ pc'[w] = "record" /\ \A v \in Worker : v = w
        /\ cur[w] \in Row /\ IsClaim(cur[w])
    BY DEF Send, ExactLedger, SingleWorker, TypeInv, TypeOK, SessionOK, IsClaim, Claiming
  <1>3. /\ IsClaim(cur'[w]) /\ cur'[w].c = cur[w].c /\ cur'[w].d = cur[w].d
        /\ cur'[w].why = cur[w].why
    BY <1>1, <1>2 DEF IsClaim, Row, TypeInv, TypeOK
  <1>4. ~ Booked(cur[w].c, cur[w].d)
    BY <1>2 DEF Booked, ClaimInv, CurIsFirst
  <1> DEFINE new == [a |-> cur[w].a, s |-> cur[w].s, c |-> cur[w].c,
                     d |-> cur[w].d, at |-> clock]
  <1>5. calls' = Append(calls, new) /\ calls \in Seq(Call) /\ new \in Call
    BY <1>1, <1>2 DEF ProviderAccepts, Row, Call, TypeInv, TypeOK
  <1>6. /\ Len(calls) \in Nat /\ Len(calls') = Len(calls) + 1
        /\ \A i \in 1 .. Len(calls) : calls'[i] = calls[i]
        /\ calls'[Len(calls) + 1] = new
    BY <1>5
  <1>7. new.c = cur[w].c /\ new.d = cur[w].d
    OBVIOUS
  <1> HIDE DEF new
  <1>8. OneCallPerLandingDay'
    <2> SUFFICES ASSUME NEW i \in 1 .. Len(calls'), NEW j \in 1 .. Len(calls'),
                        calls'[i].c = calls'[j].c, calls'[i].d = calls'[j].d
                 PROVE  i = j
      BY DEF OneCallPerLandingDay
    <2>1. \A k \in 1 .. Len(calls) :
            ~ (calls[k].c = cur[w].c /\ calls[k].d = cur[w].d)
      BY <1>4 DEF CallInv, EveryCallClaimed
    <2>2. i \in 1 .. Len(calls) \/ i = Len(calls) + 1
      BY <1>6
    <2>3. j \in 1 .. Len(calls) \/ j = Len(calls) + 1
      BY <1>6
    <2> QED
      BY <1>6, <1>7, <2>1, <2>2, <2>3 DEF CallInv, OneCallPerLandingDay
  <1>9. EveryCallClaimed'
    <2> SUFFICES ASSUME NEW i \in 1 .. Len(calls')
                 PROVE  Booked(calls[i].c, calls[i].d)'
      BY DEF EveryCallClaimed
    <2>1. CASE i = Len(calls) + 1
      BY <1>2, <1>3, <1>6, <1>7, <2>1 DEF Booked
    <2>2. CASE i \in 1 .. Len(calls)
      <3>1. Booked(calls[i].c, calls[i].d)
        BY <2>2 DEF CallInv, EveryCallClaimed
      <3> QED
        BY <1>1, <1>2, <1>6, <2>2, <3>1 DEF Booked, IsClaim
    <2> QED
      BY <1>6, <2>1, <2>2
  <1>10. SendRowsClaim'
    BY <1>1, <1>2, <1>3 DEF CallInv, SendRowsClaim, SendsClaim, IsClaim
  <1> QED
    BY <1>1, <1>8, <1>9, <1>10 DEF CallInv, NothingLost

LEMMA RecordCalls ==
    ASSUME ExactLedger, TypeInv, ClaimInv, CallInv, NEW w \in Worker, Record(w)
    PROVE  CallInv'
  <1>1. /\ UNCHANGED <<ledger, calls, spent>>
        /\ pc[w] = "record" /\ pc'[w] = "gate"
        /\ \A v \in Worker : v = w
        /\ pending'[w] = IF \E r \in ledger \cup pending[w] : SameKey(r, cur[w])
                         THEN pending[w] ELSE pending[w] \cup {cur[w]}
    BY DEF Record, db, ExactLedger, SingleWorker, TypeInv, TypeOK
  <1>2. IsClaim(cur[w]) => pending'[w] = pending[w] \cup {cur[w]}
    <2> SUFFICES ASSUME IsClaim(cur[w]), NEW r \in ledger \cup pending[w],
                        SameKey(r, cur[w])
                 PROVE  FALSE
      BY <1>1
    <2>1. ~ r.dry /\ r.why = NoReason /\ r.c = cur[w].c /\ r.d = cur[w].d
      BY <1>1 DEF SameKey, IsClaim, CallInv, SendRowsClaim
    <2>2. IsClaim(r)
      BY <2>1 DEF CallInv, SendRowsClaim, SendsClaim
    <2> QED
      BY <1>1, <2>1, <2>2 DEF ClaimInv, CurIsFirst
  <1>3. pending[w] \subseteq pending'[w]
    BY <1>1
  <1>4. EveryCallClaimed'
    <2> SUFFICES ASSUME NEW i \in 1 .. Len(calls)
                 PROVE  Booked(calls[i].c, calls[i].d)'
      BY <1>1 DEF EveryCallClaimed
    <2>1. Booked(calls[i].c, calls[i].d)
      BY DEF CallInv, EveryCallClaimed
    <2> QED
      BY <1>1, <1>2, <1>3, <2>1 DEF Booked, IsClaim
  <1>5. SendRowsClaim'
    BY <1>1 DEF CallInv, SendRowsClaim, SendsClaim, IsClaim
  <1> QED
    BY <1>1, <1>4, <1>5 DEF CallInv, OneCallPerLandingDay, NothingLost

LEMMA QuietCalls ==
    ASSUME CallInv, UNCHANGED <<ledger, calls, pc, cur, pending>>,
           spent'.crashes = spent.crashes, spent'.failures = spent.failures
    PROVE  CallInv'
  BY DEF CallInv, OneCallPerLandingDay, EveryCallClaimed, Booked, SendRowsClaim,
         SendsClaim, IsClaim, NothingLost

LEMMA GateCalls ==
    ASSUME ExactLedger, TypeInv, CallInv, NEW w \in Worker, StartRun(w) \/ Gate(w)
    PROVE  CallInv'
  <1>1. /\ UNCHANGED <<ledger, calls, pending>>
        /\ pc[w] \notin {"send", "record"} /\ pc'[w] # "idle"
        /\ \A v \in Worker : v = w
    BY DEF StartRun, Gate, Skip, Pass, db, ExactLedger, SingleWorker, TypeInv, TypeOK
  <1>2. spent'.crashes = spent.crashes /\ spent'.failures = spent.failures
    BY DEF StartRun, Gate, Spend, TypeInv, TypeOK
  <1>3. EveryCallClaimed'
    BY <1>1 DEF CallInv, EveryCallClaimed, Booked, IsClaim
  <1>4. pc'[w] \in {"send", "record"} =>
          /\ IsClaim(cur'[w]) => cur'[w].why = NoReason
          /\ SendsClaim(cur'[w])
    <2>1. CASE StartRun(w)
      BY <2>1 DEF StartRun, TypeInv, TypeOK
    <2>2. CASE Gate(w)
      <3> DEFINE x == Head(todo[w])
      <3>1. job[w].dry \in BOOLEAN
        BY <2>2 DEF Gate, TypeInv, SessionOK
      <3>2. (\E why \in SkipReason : Skip(w, x, why)) \/ Pass(w, x)
        BY <2>2 DEF Gate, SkipReason
      <3>3. CASE Pass(w, x)
        BY <3>1, <3>3 DEF Pass, RowFor, IsClaim, SendsClaim, Claiming, TypeInv, TypeOK
      <3>4. CASE \E why \in SkipReason : Skip(w, x, why)
        BY <3>4 DEF Skip, RowFor, IsClaim, SendsClaim, Claiming, SkipReason,
                    NoReason, TypeInv, TypeOK
      <3> QED
        BY <3>2, <3>3, <3>4
    <2> QED
      BY <2>1, <2>2
  <1>5. SendRowsClaim'
    BY <1>1, <1>4 DEF CallInv, SendRowsClaim, SendsClaim, IsClaim
  <1> QED
    BY <1>1, <1>2, <1>3, <1>5 DEF CallInv, OneCallPerLandingDay, NothingLost

LEMMA CommitCalls ==
    ASSUME ExactLedger, TypeInv, CallInv, NEW w \in Worker, Commit(w)
    PROVE  CallInv'
  <1>1. /\ ledger' = ledger \cup pending[w] /\ pending'[w] = {}
        /\ pc[w] = "gate" /\ pc'[w] = "idle"
        /\ \A v \in Worker : v = w
        /\ UNCHANGED <<calls, spent>>
    BY DEF Commit, EndSession, ExactLedger, SingleWorker, TypeInv, TypeOK
  <1>2. EveryCallClaimed'
    BY <1>1 DEF CallInv, EveryCallClaimed, Booked, IsClaim
  <1>3. SendRowsClaim'
    BY <1>1 DEF CallInv, SendRowsClaim, SendsClaim, IsClaim
  <1> QED
    BY <1>1, <1>2, <1>3 DEF CallInv, OneCallPerLandingDay, NothingLost

LEMMA ReceiptCalls ==
    ASSUME ExactLedger, TypeInv, ClaimInv, CallInv, Receipt PROVE CallInv'
  <1>1. PICK r \in ledger, kind \in ReceiptKind :
          /\ r.pid
          /\ ledger' = (ledger \ {r}) \cup {[r EXCEPT !.status = kind]}
    BY DEF Receipt
  <1> DEFINE moved == [r EXCEPT !.status = kind]
  <1>2. /\ IsClaim(r) /\ IsClaim(moved)
        /\ moved.c = r.c /\ moved.d = r.d
    <2>1. IsClaim(r) /\ r \in Row /\ kind = "DELIVERED"
      BY <1>1, ConstantsAssumption
      DEF ExactLedger, ClaimInv, PidClaims, TypeInv, TypeOK
    <2> QED
      BY <2>1 DEF IsClaim, Claiming, Row
  <1>3. UNCHANGED <<pc, cur, pending, calls>>
    BY DEF Receipt, session
  <1> HIDE DEF moved
  <1>4. ledger' = (ledger \ {r}) \cup {moved}
    BY <1>1 DEF moved
  <1>5. spent'.crashes = spent.crashes /\ spent'.failures = spent.failures
    BY DEF Receipt, Spend, TypeInv, TypeOK
  <1>6. EveryCallClaimed'
    <2> SUFFICES ASSUME NEW i \in 1 .. Len(calls)
                 PROVE  Booked(calls[i].c, calls[i].d)'
      BY <1>3 DEF EveryCallClaimed
    <2>1. Booked(calls[i].c, calls[i].d)
      BY DEF CallInv, EveryCallClaimed
    <2> QED
      BY <1>2, <1>3, <1>4, <2>1 DEF Booked, IsClaim
  <1>7. SendRowsClaim'
    BY <1>2, <1>3, <1>4 DEF CallInv, SendRowsClaim, SendsClaim, IsClaim
  <1> QED
    BY <1>3, <1>5, <1>6, <1>7 DEF CallInv, OneCallPerLandingDay, NothingLost

LEMMA CallInvStep ==
    ASSUME ExactLedger
    PROVE  TypeInv /\ ClaimInv /\ CallInv /\ [Next]_vars => CallInv'
  <1> SUFFICES ASSUME TypeInv, ClaimInv, CallInv, [Next]_vars PROVE CallInv'
    OBVIOUS
  <1>1. ASSUME NEW w \in Worker, WorkerStep(w) PROVE CallInv'
    <2>1. ~ Rollback(w)
      BY DEF Rollback, Exhausted, CallInv, NothingLost, ExactLedger
    <2>2. ~ DeadlockVictim(w)
      BY DEF DeadlockVictim, WaitsFor, ExactLedger, SingleWorker
    <2> QED
      BY <1>1, <2>1, <2>2, GateCalls, SendCalls, RecordCalls, CommitCalls
      DEF WorkerStep
  <1>2. ASSUME NEW c \in Customer, OptOut(c) \/ OptIn(c) PROVE CallInv'
    BY <1>2, QuietCalls DEF OptOut, OptIn, session, Spend, TypeInv, TypeOK
  <1>3. CASE Tick \/ Idle \/ UNCHANGED vars
    BY <1>3, QuietCalls DEF Tick, Idle, vars, session, db
  <1> QED
    BY <1>1, <1>2, <1>3, ReceiptCalls DEF Next

\* With one worker, no lost transaction and no failed call, the provider
\* accepts at most one automated message per customer and landing day.
THEOREM OneCallPerLandingDayHolds ==
    ASSUME ExactLedger PROVE Spec => []OneCallPerLandingDay
  <1>1. CallInv => OneCallPerLandingDay
    BY DEF CallInv
  <1>2. /\ TypeInv /\ ClaimInv /\ CallInv /\ [Next]_vars => CallInv'
        /\ TypeInv /\ KeysInv /\ ClaimInv /\ [Next]_vars => ClaimInv'
    BY CallInvStep, ClaimInvStep DEF ExactLedger
  <1> QED
    BY <1>1, <1>2, ClaimInvInit, CallInvInit, TypeInvariant, KeysInvariant, PTL DEF Spec

\* Under the same conditions every accepted message has a row that claims its
\* day, committed or in the open transaction.
THEOREM EveryCallClaimedHolds ==
    ASSUME ExactLedger PROVE Spec => []EveryCallClaimed
  <1>1. CallInv => EveryCallClaimed
    BY DEF CallInv
  <1>2. /\ TypeInv /\ ClaimInv /\ CallInv /\ [Next]_vars => CallInv'
        /\ TypeInv /\ KeysInv /\ ClaimInv /\ [Next]_vars => ClaimInv'
    BY CallInvStep, ClaimInvStep DEF ExactLedger
  <1> QED
    BY <1>1, <1>2, ClaimInvInit, CallInvInit, TypeInvariant, KeysInvariant, PTL DEF Spec

---------------------------------------------------------------------------
(* The loser of a contest for a day has a winner, for any number of workers  *)
(* whose batches name a customer once.  A worker says DEDUPED because of a   *)
(* claim it read when it started, never because of one of its own batch, and *)
(* a committed claim is never taken back.                                    *)

OnePerCustomer == ~ Repeats /\ "FAILED" \notin ReceiptKind

Loser(r) == r.why = "DEDUPED" /\ ~ r.dry

\* Only a sent message has a provider id, and a loser's day is claimed.
RowOK(r) ==
    /\ r.pid => IsClaim(r)
    /\ Loser(r) => DayOf(r) \in ClaimedDays(ledger)

\* The customers still to come are all different, and none of them but the
\* one in hand has been taken in this batch.
NewAhead(w) ==
    /\ \A i, j \in 1 .. Len(todo[w]) : todo[w][i].c = todo[w][j].c => i = j
    /\ \A c \in Customer, d \in LocalDate : \A i \in 1 .. Len(todo[w]) :
          <<c, d>> \in batch[w] /\ todo[w][i].c = c => i = 1 /\ pc[w] # "gate"

DedupOK(w) ==
    /\ claims[w] \subseteq ClaimedDays(ledger)
    /\ \A r \in pending[w] : RowOK(r)
    /\ pc[w] \in {"send", "record"} => RowOK(cur[w])
    /\ pc[w] = "idle" => batch[w] = {}
    /\ NewAhead(w)

DedupInv == (\A r \in ledger : RowOK(r)) /\ \A w \in Worker : DedupOK(w)

LEMMA DedupInvInit == Init => DedupInv
  <1> SUFFICES ASSUME Init, NEW w \in Worker PROVE DedupOK(w)
    BY DEF Init, DedupInv
  <1>1. /\ Len(todo[w]) = 0 /\ pending[w] = {} /\ claims[w] = {} /\ batch[w] = {}
        /\ pc[w] = "idle"
    BY EmptySeq DEF Init
  <1> QED
    BY <1>1 DEF DedupOK, NewAhead

LEMMA RowStaysOK ==
    ASSUME ClaimedDays(ledger) \subseteq ClaimedDays(ledger)', NEW r, RowOK(r)
    PROVE  RowOK(r)'
  BY DEF RowOK, IsClaim, Loser, DayOf

\* What one worker does leaves the others' sessions alone.
LEMMA DedupByOne ==
    ASSUME DedupInv, NEW w \in Worker,
           ClaimedDays(ledger) \subseteq ClaimedDays(ledger)',
           \A r \in ledger' : RowOK(r)', DedupOK(w)',
           \A v \in Worker \ {w} :
              UNCHANGED <<pc[v], todo[v], cur[v], claims[v], batch[v], pending[v]>>
    PROVE  DedupInv'
  <1>1. ASSUME NEW v \in Worker \ {w} PROVE DedupOK(v)'
    <2>1. DedupOK(v)
      BY DEF DedupInv
    <2>2. /\ claims'[v] \subseteq ClaimedDays(ledger)'
          /\ \A r \in pending'[v] : RowOK(r)'
      BY <2>1, RowStaysOK DEF DedupOK
    <2>3. NewAhead(v)'
      BY <2>1 DEF DedupOK, NewAhead
    <2>4. pc'[v] \in {"send", "record"} => RowOK(cur[v])'
      BY <2>1, RowStaysOK DEF DedupOK, RowOK, IsClaim, Loser, DayOf
    <2> QED
      BY <2>1, <2>2, <2>3, <2>4 DEF DedupOK
  <1> QED
    BY <1>1 DEF DedupInv

\* The ledger alone may change.
LEMMA DedupByNone ==
    ASSUME DedupInv, ClaimedDays(ledger) \subseteq ClaimedDays(ledger)',
           \A r \in ledger' : RowOK(r)',
           UNCHANGED <<pc, todo, cur, claims, batch, pending>>
    PROVE  DedupInv'
  <1>1. CASE Worker = {}
    BY <1>1 DEF DedupInv
  <1>2. ASSUME NEW w \in Worker PROVE DedupOK(w)'
    <2>1. DedupOK(w)
      BY DEF DedupInv
    <2>2. pc'[w] \in {"send", "record"} => RowOK(cur[w])'
      BY <2>1, RowStaysOK DEF DedupOK, RowOK, IsClaim, Loser, DayOf
    <2> QED
      BY <2>1, <2>2, RowStaysOK DEF DedupOK, NewAhead
  <1> QED
    BY <1>2 DEF DedupInv

LEMMA StartRunDedup ==
    ASSUME OnePerCustomer, TypeInv, DedupInv, NEW w \in Worker, StartRun(w)
    PROVE  DedupInv'
  <1>1. PICK a \in Automation, dry \in Modes, n \in 1 .. MaxBatch :
          \E cs \in [1 .. n -> Candidates(a)] :
            /\ Repeats \/ \A i, j \in 1 .. n : cs[i].c = cs[j].c => i = j
            /\ job' = [job EXCEPT ![w] =
                 [run |-> spent.runs + 1, a |-> a, dry |-> dry]]
            /\ todo' = [todo EXCEPT ![w] = cs]
            /\ claims' = [claims EXCEPT ![w] =
                 ClaimedDays(ledger) \cap {<<cs[i].c, cs[i].d>> : i \in 1 .. n}]
            /\ loaded' = [loaded EXCEPT ![w] =
                 optedOut \cap {cs[i].c : i \in 1 .. n}]
    BY DEF StartRun
  <1>2. PICK cs \in [1 .. n -> Candidates(a)] :
            /\ Repeats \/ \A i, j \in 1 .. n : cs[i].c = cs[j].c => i = j
            /\ job' = [job EXCEPT ![w] =
                 [run |-> spent.runs + 1, a |-> a, dry |-> dry]]
            /\ todo' = [todo EXCEPT ![w] = cs]
            /\ claims' = [claims EXCEPT ![w] =
                 ClaimedDays(ledger) \cap {<<cs[i].c, cs[i].d>> : i \in 1 .. n}]
            /\ loaded' = [loaded EXCEPT ![w] =
                 optedOut \cap {cs[i].c : i \in 1 .. n}]
    BY <1>1
  <1>3. /\ todo'[w] = cs /\ Len(cs) = n
        /\ claims'[w] \subseteq ClaimedDays(ledger)
        /\ UNCHANGED <<ledger, pending, batch, cur>> /\ pc[w] = "idle" /\ pc'[w] = "gate"
        /\ \A v \in Worker \ {w} : UNCHANGED <<pc[v], todo[v], claims[v]>>
    BY <1>2, ConstantsAssumption DEF StartRun, TypeInv, TypeOK, db
  <1>4. batch[w] = {} /\ \A r \in pending[w] : RowOK(r)
    BY <1>3 DEF DedupInv, DedupOK
  <1>5. NewAhead(w)'
    BY <1>2, <1>3, <1>4 DEF NewAhead, OnePerCustomer
  <1>6. ClaimedDays(ledger)' = ClaimedDays(ledger)
    BY <1>3
  <1>7. DedupOK(w)' /\ \A r \in ledger' : RowOK(r)'
    BY <1>3, <1>4, <1>5, <1>6, RowStaysOK DEF DedupOK, DedupInv
  <1> QED
    BY <1>3, <1>6, <1>7, DedupByOne

LEMMA GateDedup ==
    ASSUME OnePerCustomer, TypeInv, DedupInv, NEW w \in Worker, Gate(w)
    PROVE  DedupInv'
  <1> DEFINE x == Head(todo[w])
  <1>1. /\ UNCHANGED <<ledger, pending, claims, todo>> /\ pc[w] = "gate" /\ todo[w] # << >>
        /\ \A v \in Worker \ {w} : UNCHANGED <<pc[v], cur[v], batch[v]>>
    BY DEF Gate, Skip, Pass, TypeInv, TypeOK, db
  <1>2. /\ x = todo[w][1] /\ 1 \in 1 .. Len(todo[w]) /\ x \in Candidate
        /\ job[w] \in [run : Nat, a : Automation, dry : BOOLEAN]
    BY <1>1, HeadTailProperties, EmptySeq DEF TypeInv, TypeOK, SessionOK
  <1>3. DedupOK(w)
    BY DEF DedupInv
  <1>4. <<x.c, x.d>> \notin batch[w]
    BY <1>1, <1>2, <1>3 DEF DedupOK, NewAhead, Candidate
  <1>5. ClaimedDays(ledger)' = ClaimedDays(ledger)
    BY <1>1
  <1>6. /\ pc'[w] \in {"send", "record"} /\ RowOK(cur[w])'
        /\ batch'[w] \subseteq batch[w] \cup {<<x.c, x.d>>}
    <2>1. CASE Pass(w, x)
      <3>1. /\ pc'[w] \in {"send", "record"} /\ batch'[w] = batch[w] \cup {<<x.c, x.d>>}
            /\ cur'[w].pid = FALSE /\ cur'[w].why = NoReason
        BY <2>1 DEF Pass, RowFor, TypeInv, TypeOK
      <3> QED
        BY <3>1 DEF RowOK, Loser, NoReason
    <2>2. ASSUME NEW why \in SkipReason, Skip(w, x, why),
                 why = "DEDUPED" => Deduped(w, <<x.c, x.d>>)
          PROVE  /\ pc'[w] = "record" /\ RowOK(cur[w])' /\ batch'[w] = batch[w]
      <3>1. /\ pc'[w] = "record" /\ batch'[w] = batch[w]
            /\ cur'[w].pid = FALSE /\ cur'[w].why = why
            /\ cur'[w].c = x.c /\ cur'[w].d = x.d
        BY <2>2 DEF Skip, RowFor, TypeInv, TypeOK
      <3>2. why = "DEDUPED" => <<x.c, x.d>> \in ClaimedDays(ledger)'
        BY <1>3, <1>4, <1>5, <2>2 DEF Deduped, DedupOK
      <3> QED
        BY <3>1, <3>2 DEF RowOK, Loser, DayOf
    <2>3. \/ Pass(w, x)
          \/ Skip(w, x, "CONSENT") \/ Skip(w, x, "FREQUENCY_CAP")
          \/ Skip(w, x, "VALIDATION_FAILED")
          \/ Skip(w, x, "DEDUPED") /\ Deduped(w, <<x.c, x.d>>)
      BY DEF Gate
    <2> QED
      BY <2>1, <2>2, <2>3 DEF SkipReason
  <1>7. NewAhead(w)'
    <2> SUFFICES ASSUME NEW c \in Customer, NEW d \in LocalDate,
                        NEW i \in 1 .. Len(todo[w]),
                        <<c, d>> \in batch'[w], todo[w][i].c = c
                 PROVE  i = 1
      BY <1>1, <1>3, <1>6 DEF DedupOK, NewAhead
    <2>1. CASE <<c, d>> \in batch[w]
      BY <1>3, <2>1 DEF DedupOK, NewAhead
    <2>2. CASE <<c, d>> = <<x.c, x.d>>
      BY <1>2, <1>3, <2>2 DEF DedupOK, NewAhead
    <2> QED
      BY <1>6, <2>1, <2>2
  <1>8. DedupOK(w)'
    BY <1>1, <1>3, <1>5, <1>6, <1>7, RowStaysOK DEF DedupOK
  <1>9. \A r \in ledger' : RowOK(r)'
    BY <1>1, <1>5, RowStaysOK DEF DedupInv
  <1> QED
    BY <1>1, <1>5, <1>8, <1>9, DedupByOne

LEMMA SendDedup ==
    ASSUME TypeInv, DedupInv, NEW w \in Worker, Send(w) PROVE DedupInv'
  <1>1. /\ UNCHANGED <<ledger, pending, claims, todo, batch>>
        /\ pc[w] = "send" /\ pc'[w] = "record"
        /\ \A v \in Worker \ {w} : UNCHANGED <<pc[v], cur[v]>>
        /\ cur[w] \in Row /\ cur[w].status = "SENT" /\ ~ cur[w].dry /\ ~ cur[w].pid
    BY DEF Send, TypeInv, TypeOK, SessionOK, db
  <1>2. DedupOK(w) /\ ClaimedDays(ledger)' = ClaimedDays(ledger)
    BY <1>1 DEF DedupInv
  <1>3. RowOK(cur[w])'
    <2>1. /\ cur'[w].why = cur[w].why /\ cur'[w].dry = cur[w].dry
          /\ cur'[w].c = cur[w].c /\ cur'[w].d = cur[w].d
          /\ cur'[w].pid => cur'[w].status = "SENT"
      <3>1. CASE cur' = [cur EXCEPT ![w].pid = TRUE]
        BY <1>1, <3>1 DEF Row, TypeInv, TypeOK
      <3>2. CASE cur' = [cur EXCEPT ![w].status = "FAILED"]
        <4>1. cur[w].pid = FALSE
          BY <1>1 DEF Row
        <4> QED
          BY <1>1, <3>2, <4>1 DEF Row, TypeInv, TypeOK
      <3> QED
        BY <3>1, <3>2 DEF Send
    <2>2. RowOK(cur[w])
      BY <1>1, <1>2 DEF DedupOK
    <2> QED
      BY <1>1, <1>2, <2>1, <2>2 DEF RowOK, IsClaim, Claiming, Loser, DayOf
  <1>4. NewAhead(w)'
    BY <1>1, <1>2 DEF DedupOK, NewAhead
  <1>5. DedupOK(w)'
    BY <1>1, <1>2, <1>3, <1>4, RowStaysOK DEF DedupOK
  <1>6. \A r \in ledger' : RowOK(r)'
    BY <1>1, <1>2, RowStaysOK DEF DedupInv
  <1> QED
    BY <1>1, <1>2, <1>5, <1>6, DedupByOne

LEMMA RecordDedup ==
    ASSUME TypeInv, DedupInv, NEW w \in Worker, Record(w) PROVE DedupInv'
  <1>1. /\ UNCHANGED <<ledger, claims, batch>>
        /\ pc[w] = "record" /\ pc'[w] = "gate"
        /\ todo[w] # << >> /\ todo'[w] = Tail(todo[w])
        /\ pending'[w] = pending[w] \/ pending'[w] = pending[w] \cup {cur[w]}
        /\ \A v \in Worker \ {w} : UNCHANGED <<pc[v], todo[v], cur[v], pending[v]>>
    BY DEF Record, db, TypeInv, TypeOK, SessionOK
  <1>2. DedupOK(w) /\ ClaimedDays(ledger)' = ClaimedDays(ledger)
    BY <1>1 DEF DedupInv
  <1>3. \A r \in pending'[w] : RowOK(r)'
    BY <1>1, <1>2, RowStaysOK DEF DedupOK
  <1>4. NewAhead(w)'
    <2>1. /\ Len(todo[w]) \in Nat /\ Len(todo'[w]) = Len(todo[w]) - 1
          /\ \A i \in 1 .. Len(todo'[w]) :
                i + 1 \in 1 .. Len(todo[w]) /\ todo'[w][i] = todo[w][i + 1]
      BY <1>1, HeadTailProperties, LenProperties DEF TypeInv, TypeOK
    <2>2. \A i, j \in 1 .. Len(todo'[w]) : todo'[w][i].c = todo'[w][j].c => i = j
      <3> SUFFICES ASSUME NEW i \in 1 .. Len(todo'[w]), NEW j \in 1 .. Len(todo'[w]),
                          todo'[w][i].c = todo'[w][j].c
                   PROVE  i = j
        OBVIOUS
      <3>1. /\ i + 1 \in 1 .. Len(todo[w]) /\ j + 1 \in 1 .. Len(todo[w])
            /\ todo[w][i + 1].c = todo[w][j + 1].c
        BY <2>1
      <3>2. i + 1 = j + 1
        BY <1>2, <3>1 DEF DedupOK, NewAhead
      <3> QED
        BY <2>1, <3>2
    <2>3. \A c \in Customer, d \in LocalDate : \A i \in 1 .. Len(todo'[w]) :
            ~ (<<c, d>> \in batch[w] /\ todo'[w][i].c = c)
      <3> SUFFICES ASSUME NEW c \in Customer, NEW d \in LocalDate,
                          NEW i \in 1 .. Len(todo'[w]),
                          <<c, d>> \in batch[w], todo'[w][i].c = c
                   PROVE  FALSE
        OBVIOUS
      <3>1. PICK k \in 1 .. Len(todo[w]) : k = i + 1 /\ todo[w][k].c = c
        BY <2>1
      <3>2. k = 1
        BY <1>2, <3>1 DEF DedupOK, NewAhead
      <3> QED
        BY <2>1, <3>1, <3>2
    <2> QED
      BY <1>1, <2>2, <2>3 DEF NewAhead
  <1>5. DedupOK(w)'
    BY <1>1, <1>2, <1>3, <1>4 DEF DedupOK
  <1>6. \A r \in ledger' : RowOK(r)'
    BY <1>1, <1>2, RowStaysOK DEF DedupInv
  <1> QED
    BY <1>1, <1>2, <1>5, <1>6, DedupByOne

LEMMA EndSessionDedup ==
    ASSUME TypeInv, DedupInv, NEW w \in Worker, EndSession(w),
           ledger' = ledger \/ ledger' = ledger \cup pending[w]
    PROVE  DedupInv'
  <1>1. /\ pc'[w] = "idle" /\ todo'[w] = << >> /\ pending'[w] = {}
        /\ batch'[w] = {} /\ claims'[w] = {}
        /\ \A v \in Worker \ {w} :
              UNCHANGED <<pc[v], todo[v], cur[v], claims[v], batch[v], pending[v]>>
    BY DEF EndSession, TypeInv, TypeOK
  <1>2. ClaimedDays(ledger) \subseteq ClaimedDays(ledger)'
    BY DEF ClaimedDays, IsClaim
  <1>3. \A r \in ledger' : RowOK(r)'
    BY <1>2, RowStaysOK DEF DedupInv, DedupOK
  <1>4. DedupOK(w)'
    BY <1>1, EmptySeq DEF DedupOK, NewAhead
  <1> QED
    BY <1>1, <1>2, <1>3, <1>4, DedupByOne

LEMMA ReceiptDedup ==
    ASSUME OnePerCustomer, TypeInv, DedupInv, Receipt PROVE DedupInv'
  <1>1. PICK r \in ledger, kind \in ReceiptKind :
          /\ r.pid
          /\ ledger' = (ledger \ {r}) \cup {[r EXCEPT !.status = kind]}
    BY DEF Receipt
  <1> DEFINE moved == [r EXCEPT !.status = kind]
  <1>2. /\ IsClaim(r) /\ IsClaim(moved) /\ r.why = moved.why
        /\ moved.c = r.c /\ moved.d = r.d
    <2>1. IsClaim(r) /\ r \in Row /\ kind = "DELIVERED"
      BY <1>1, ConstantsAssumption DEF OnePerCustomer, DedupInv, RowOK, TypeInv, TypeOK
    <2> QED
      BY <2>1 DEF IsClaim, Claiming, Row
  <1> HIDE DEF moved
  <1>3. ledger' = (ledger \ {r}) \cup {moved}
    BY <1>1 DEF moved
  <1>4. ClaimedDays(ledger) \subseteq ClaimedDays(ledger)'
    BY <1>2, <1>3 DEF ClaimedDays, IsClaim
  <1>5. \A q \in ledger' : RowOK(q)'
    <2>1. DayOf(moved) \in ClaimedDays(ledger)'
      BY <1>2, <1>3 DEF DayOf, ClaimedDays, IsClaim
    <2>2. RowOK(moved)'
      BY <1>2, <2>1 DEF RowOK, IsClaim, DayOf, Loser
    <2> QED
      BY <1>3, <1>4, <2>2, RowStaysOK DEF DedupInv
  <1> QED
    BY <1>4, <1>5, DedupByNone DEF Receipt, session

LEMMA DedupInvStep ==
    ASSUME OnePerCustomer PROVE TypeInv /\ DedupInv /\ [Next]_vars => DedupInv'
  <1> SUFFICES ASSUME TypeInv, DedupInv, [Next]_vars PROVE DedupInv'
    OBVIOUS
  <1>1. ASSUME NEW w \in Worker, WorkerStep(w) PROVE DedupInv'
    <2>1. CASE Commit(w) \/ Rollback(w) \/ DeadlockVictim(w)
      BY <2>1, EndSessionDedup DEF Commit, Rollback, DeadlockVictim, db
    <2> QED
      BY <1>1, <2>1, StartRunDedup, GateDedup, SendDedup, RecordDedup DEF WorkerStep
  <1>2. ASSUME UNCHANGED <<ledger, pc, todo, cur, claims, batch, pending>>
        PROVE  DedupInv'
    <2>1. ClaimedDays(ledger)' = ClaimedDays(ledger)
      BY <1>2
    <2>2. \A r \in ledger' : RowOK(r)'
      BY <1>2, <2>1, RowStaysOK DEF DedupInv
    <2> QED
      BY <1>2, <2>1, <2>2, DedupByNone
  <1>3. ASSUME NEW c \in Customer, OptOut(c) \/ OptIn(c) PROVE DedupInv'
    BY <1>2, <1>3 DEF OptOut, OptIn, session
  <1>4. CASE Tick \/ Idle \/ UNCHANGED vars
    BY <1>2, <1>4 DEF Tick, Idle, vars, session, db
  <1> QED
    BY <1>1, <1>3, <1>4, ReceiptDedup DEF Next

\* When a batch names a customer once and no report turns a message into a
\* failure, whoever is skipped as a duplicate in the committed ledger has a
\* message claiming the day, however workers interleave, crash or fail.
THEOREM LosersHaveWinners ==
    ASSUME OnePerCustomer PROVE Spec => []DedupedHasWinner
  <1>1. DedupInv => DedupedHasWinner
    BY DEF DedupInv, DedupedHasWinner, RowOK, Loser, DayOf, ClaimedDays
  <1>2. TypeInv /\ DedupInv /\ [Next]_vars => DedupInv'
    BY DedupInvStep
  <1> QED
    BY <1>1, <1>2, DedupInvInit, TypeInvariant, PTL DEF Spec

---------------------------------------------------------------------------
(* The opt-out, for any finite number of workers: each worker that had let   *)
(* the customer through the gates when the opt-out came may still send; a    *)
(* worker that comes to the gates later is stopped there.                    *)

\* Workers past the gates with a message for c that is not yet handed over.
Going(c) == {w \in Worker : pc[w] = "send" /\ cur[w].c = c}

OptOutInv ==
    \A c \in optedOut : late[c] + Cardinality(Going(c)) <= Cardinality(Worker)

LEMMA GoingFinite ==
    ASSUME IsFiniteSet(Worker), NEW c
    PROVE  /\ IsFiniteSet(Going(c)) /\ Cardinality(Going(c)) \in Nat
           /\ Cardinality(Worker) \in Nat
           /\ Cardinality(Going(c)) <= Cardinality(Worker)
  <1>1. Going(c) \subseteq Worker
    BY DEF Going
  <1> QED
    BY <1>1, FS_Subset, FS_CardinalityType

\* Fewer workers on their way, fewer opted-out customers.
LEMMA FewerGoing ==
    ASSUME IsFiniteSet(Worker), TypeOK, OptOutInv, optedOut' \subseteq optedOut,
           \A c \in optedOut' : late'[c] = late[c] /\ Going(c)' \subseteq Going(c)
    PROVE  OptOutInv'
  <1> SUFFICES ASSUME NEW c \in optedOut'
               PROVE  late'[c] + Cardinality(Going(c)') <= Cardinality(Worker)
    BY DEF OptOutInv
  <1>1. late[c] + Cardinality(Going(c)) <= Cardinality(Worker)
    BY DEF OptOutInv
  <1>2. Cardinality(Going(c)') <= Cardinality(Going(c)) /\ Cardinality(Going(c)') \in Nat
    BY GoingFinite, FS_Subset, FS_CardinalityType
  <1>3. late[c] \in Nat
    BY DEF TypeOK
  <1> QED
    BY <1>1, <1>2, <1>3, GoingFinite

LEMMA GateOptOut ==
    ASSUME IsFiniteSet(Worker), TypeInv, OptOutInv, NEW w \in Worker, Gate(w)
    PROVE  OptOutInv'
  <1> DEFINE x == Head(todo[w])
  <1>1. UNCHANGED <<optedOut, late>>
    BY DEF Gate, db
  <1>2. ASSUME NEW c \in optedOut PROVE Going(c)' \subseteq Going(c)
    <2>1. CASE Pass(w, x) /\ x.c \notin optedOut
      BY <1>2, <2>1 DEF Pass, RowFor, Going, TypeInv, TypeOK
    <2>2. CASE \E why \in SkipReason : Skip(w, x, why)
      BY <2>2 DEF Skip, Going, TypeInv, TypeOK
    <2> QED
      BY <2>1, <2>2 DEF Gate, BlockedByConsent, SkipReason
  <1> QED
    BY <1>1, <1>2, FewerGoing DEF TypeInv

LEMMA SendOptOut ==
    ASSUME IsFiniteSet(Worker), TypeInv, OptOutInv, NEW w \in Worker, Send(w)
    PROVE  OptOutInv'
  <1> DEFINE s == cur[w].c
  <1>1. /\ UNCHANGED optedOut /\ pc[w] = "send" /\ pc' = [pc EXCEPT ![w] = "record"]
        /\ \A v \in Worker \ {w} : cur'[v] = cur[v]
        /\ \/ late' = late
           \/ late' = [late EXCEPT ![s] = IF s \in optedOut THEN @ + 1 ELSE @]
    BY DEF Send, ProviderAccepts, db, TypeInv, TypeOK
  <1>2. \A c : Going(c)' = Going(c) \ {w}
    BY <1>1 DEF Going, TypeInv, TypeOK
  <1> SUFFICES ASSUME NEW c \in optedOut
               PROVE  late'[c] + Cardinality(Going(c)') <= Cardinality(Worker)
    BY <1>1 DEF OptOutInv
  <1>3. late[c] + Cardinality(Going(c)) <= Cardinality(Worker) /\ late[c] \in Nat
    BY DEF OptOutInv, TypeInv, TypeOK
  <1>4. /\ Cardinality(Going(c)') \in Nat
        /\ Cardinality(Going(c)') <= Cardinality(Going(c))
        /\ c = s => Cardinality(Going(c)') = Cardinality(Going(c)) - 1
    <2>1. c = s => w \in Going(c)
      BY <1>1 DEF Going
    <2>2. Cardinality(Going(c) \ {w}) =
            IF w \in Going(c) THEN Cardinality(Going(c)) - 1 ELSE Cardinality(Going(c))
      BY GoingFinite, FS_RemoveElement
    <2>3. Cardinality(Going(c) \ {w}) \in Nat
      BY GoingFinite, FS_RemoveElement, FS_CardinalityType
    <2>4. Going(c)' = Going(c) \ {w}
      BY <1>2
    <2>5. Cardinality(Going(c)) \in Nat
      BY GoingFinite
    <2>6. Cardinality(Going(c)') = Cardinality(Going(c) \ {w})
      BY <2>4
    <2> HIDE DEF s
    <2> QED
      BY <2>1, <2>2, <2>3, <2>5, <2>6
  <1>5. late'[c] = late[c] \/ (c = s /\ late'[c] = late[c] + 1)
    BY <1>1 DEF TypeInv, TypeOK
  <1> QED
    BY <1>3, <1>4, <1>5, GoingFinite

LEMMA OptOutInvStep ==
    ASSUME IsFiniteSet(Worker) PROVE TypeInv /\ OptOutInv /\ [Next]_vars => OptOutInv'
  <1> SUFFICES ASSUME TypeInv, OptOutInv, [Next]_vars PROVE OptOutInv'
    OBVIOUS
  <1>1. ASSUME UNCHANGED <<optedOut, late>>,
               \A w \in Worker : pc'[w] = "send" => pc[w] = "send" /\ cur'[w] = cur[w]
        PROVE  OptOutInv'
    BY <1>1, FewerGoing DEF Going, TypeInv
  <1>2. ASSUME NEW w \in Worker, WorkerStep(w) PROVE OptOutInv'
    <2>1. CASE StartRun(w) \/ Record(w)
      BY <1>1, <2>1 DEF StartRun, Record, db, TypeInv, TypeOK
    <2>2. CASE Commit(w) \/ Rollback(w) \/ DeadlockVictim(w)
      BY <1>1, <2>2 DEF Commit, Rollback, DeadlockVictim, EndSession, db, TypeInv, TypeOK
    <2> QED
      BY <1>2, <2>1, <2>2, GateOptOut, SendOptOut DEF WorkerStep
  <1>3. ASSUME NEW c \in Customer, OptOut(c) PROVE OptOutInv'
    <2>1. /\ optedOut' = optedOut \cup {c} /\ late' = [late EXCEPT ![c] = 0]
          /\ UNCHANGED <<pc, cur>>
      BY <1>3 DEF OptOut, session
    <2>2. \A d : Going(d)' = Going(d)
      BY <2>1 DEF Going
    <2>3. ASSUME NEW d \in optedOut'
          PROVE  late'[d] + Cardinality(Going(d)') <= Cardinality(Worker)
      <3>1. CASE d = c
        BY <2>1, <2>2, <3>1, GoingFinite DEF TypeInv, TypeOK
      <3>2. CASE d # c
        BY <2>1, <2>2, <2>3, <3>2 DEF OptOutInv, TypeInv, TypeOK
      <3> QED
        BY <3>1, <3>2
    <2> QED
      BY <2>3 DEF OptOutInv
  <1>4. ASSUME NEW c \in Customer, OptIn(c) PROVE OptOutInv'
    <2>1. /\ optedOut' = optedOut \ {c} /\ late' = [late EXCEPT ![c] = 0]
          /\ UNCHANGED <<pc, cur>>
      BY <1>4 DEF OptIn, session
    <2> QED
      BY <2>1, FewerGoing DEF Going, TypeInv, TypeOK
  <1>5. CASE Receipt \/ Tick \/ Idle \/ UNCHANGED vars
    BY <1>1, <1>5 DEF Receipt, Tick, Idle, vars, session, db
  <1> QED
    BY <1>2, <1>3, <1>4, <1>5 DEF Next

\* The gates ask for the opt-out again at every candidate, so after it at most
\* one message per worker still goes out to the customer: the one in hand.
THEOREM OptOutIsPrompt ==
    ASSUME IsFiniteSet(Worker) PROVE Spec => []OptOutBound
  <1>1. TypeInv /\ OptOutInv => OptOutBound
    BY GoingFinite DEF TypeInv, TypeOK, OptOutInv, OptOutBound
  <1>2. Init => OptOutInv
    BY DEF Init, OptOutInv
  <1>3. TypeInv /\ OptOutInv /\ [Next]_vars => OptOutInv'
    BY OptOutInvStep
  <1> QED
    BY <1>1, <1>2, <1>3, TypeInvariant, PTL DEF Spec

---------------------------------------------------------------------------
(* The frequency cap, when one worker runs and none of its transactions is   *)
(* lost: the events the cap counts, committed or in the open transaction,    *)
(* are then exactly the messages the provider has accepted, but for the one  *)
(* that is accepted and not yet recorded; and a message that has passed the  *)
(* gates has its place under the cap.                                        *)

NoLoss == SingleWorker /\ MaxCrashes = 0 /\ MaxFailures = 0

CallsTo(c) == {i \in 1 .. Len(calls) : calls[i].c = c}

\* A message to c that worker w holds at one of the given places.
Holds(w, c, at) ==
    IF pc[w] \in at /\ cur[w].status = "SENT" /\ cur[w].c = c THEN 1 ELSE 0

Counted(w, c) ==
    Cardinality(CallsTo(c)) = events[c] + tally[w][c] + Holds(w, c, {"record"})

Room(w, c) == events[c] + tally[w][c] + Holds(w, c, {"send", "record"}) <= Cap

CapInv ==
    /\ NothingLost
    /\ Worker = {} => calls = << >>
    /\ \A w \in Worker : \A c \in Customer : Counted(w, c) /\ Room(w, c)

LEMMA CallsToFinite ==
    ASSUME TypeOK, NEW c
    PROVE  IsFiniteSet(CallsTo(c)) /\ Cardinality(CallsTo(c)) \in Nat
  <1>1. Len(calls) \in Nat /\ IsFiniteSet(1 .. Len(calls))
    BY LenProperties, FS_Interval DEF TypeOK
  <1>2. CallsTo(c) \subseteq 1 .. Len(calls)
    BY DEF CallsTo
  <1> QED
    BY <1>1, <1>2, FS_Subset, FS_CardinalityType

LEMMA CapInvInit == Init => CapInv
  <1> SUFFICES ASSUME Init PROVE CapInv
    OBVIOUS
  <1>1. \A c : CallsTo(c) = {}
    BY EmptySeq DEF Init, CallsTo
  <1>2. \A c : Cardinality(CallsTo(c)) = 0
    BY <1>1, FS_EmptySet
  <1>3. \A w \in Worker : \A c \in Customer : Counted(w, c) /\ Room(w, c)
    BY <1>2, ConstantsAssumption DEF Init, Counted, Room, Holds
  <1> QED
    BY <1>3 DEF Init, CapInv, NothingLost

\* A step that sends nothing keeps the sum of what is counted.
LEMMA CapKept ==
    ASSUME TypeOK, CapInv, NEW w \in Worker, SingleWorker, calls' = calls,
           NothingLost',
           \A c \in Customer :
              /\ events'[c] + tally'[w][c] + Holds(w, c, {"record"})'
                   = events[c] + tally[w][c] + Holds(w, c, {"record"})
              /\ Room(w, c)'
    PROVE  CapInv'
  <1>1. \A c : CallsTo(c)' = CallsTo(c)
    BY DEF CallsTo
  <1>2. \A c \in Customer : Counted(w, c)'
    BY <1>1 DEF CapInv, Counted
  <1> QED
    BY <1>2 DEF CapInv, SingleWorker

LEMMA StartRunCap ==
    ASSUME NoLoss, TypeInv, CapInv, NEW w \in Worker, StartRun(w) PROVE CapInv'
  <1>1. /\ UNCHANGED <<events, tally, calls>>
        /\ pc[w] = "idle" /\ pc'[w] = "gate"
    BY DEF StartRun, db, TypeInv, TypeOK
  <1>2. NothingLost'
    BY DEF StartRun, Spend, CapInv, NothingLost, TypeInv, TypeOK
  <1>3. \A c : \A at \in {{"record"}, {"send", "record"}} :
          Holds(w, c, at) = 0 /\ Holds(w, c, at)' = 0
    BY <1>1 DEF Holds
  <1> QED
    BY <1>1, <1>2, <1>3, CapKept DEF CapInv, Room, NoLoss, TypeInv

LEMMA GateCap ==
    ASSUME NoLoss, TypeInv, CapInv, NEW w \in Worker, Gate(w) PROVE CapInv'
  <1> DEFINE x == Head(todo[w])
  <1>1. /\ UNCHANGED <<events, tally, calls, spent>>
        /\ pc[w] = "gate" /\ job[w].dry \in BOOLEAN
    BY DEF Gate, db, TypeInv, SessionOK
  <1>2. NothingLost'
    BY <1>1 DEF CapInv, NothingLost
  <1>3. ASSUME NEW c \in Customer
        PROVE  /\ Holds(w, c, {"record"}) = 0 /\ Holds(w, c, {"record"})' = 0
               /\ Room(w, c)'
    <2>1. /\ Holds(w, c, {"record"}) = 0 /\ Holds(w, c, {"send", "record"}) = 0
          /\ events[c] \in Nat /\ tally[w][c] \in Nat
      BY <1>1 DEF Holds, TypeInv, TypeOK
    <2>2. CASE \E why \in SkipReason : Skip(w, x, why)
      <3>1. cur'[w].status = "SKIPPED"
        BY <2>2 DEF Skip, RowFor, TypeInv, TypeOK
      <3>2. /\ Holds(w, c, {"record"})' = 0
            /\ Holds(w, c, {"send", "record"})' = 0
        BY <3>1 DEF Holds
      <3> QED
        BY <1>1, <2>1, <3>2 DEF CapInv, Room
    <2>3. CASE Pass(w, x) /\ ~ BlockedByCap(w, x.c)
      <3>1. /\ cur'[w].c = x.c
            /\ job[w].dry => cur'[w].status = "PREVIEW"
            /\ ~ job[w].dry => pc'[w] = "send"
        BY <2>3 DEF Pass, RowFor, TypeInv, TypeOK
      <3>2. /\ Holds(w, c, {"record"})' = 0
            /\ \/ Holds(w, c, {"send", "record"})' = 0
               \/ c = x.c /\ Holds(w, c, {"send", "record"})' = 1
        BY <1>1, <3>1 DEF Holds
      <3>3. c = x.c => events[c] + tally[w][c] < Cap
        BY <2>1, <2>3, ConstantsAssumption DEF BlockedByCap
      <3>4. Room(w, c)
        BY DEF CapInv
      <3> HIDE DEF x
      <3>5. Room(w, c)'
        BY <1>1, <2>1, <3>2, <3>3, <3>4, ConstantsAssumption DEF Room
      <3> QED
        BY <2>1, <3>2, <3>5
    <2> QED
      BY <2>2, <2>3 DEF Gate, SkipReason
  <1> QED
    BY <1>1, <1>2, <1>3, CapKept DEF NoLoss, TypeInv

LEMMA SendCap ==
    ASSUME NoLoss, TypeInv, CapInv, NEW w \in Worker, Send(w) PROVE CapInv'
  <1>1. /\ ProviderAccepts(w) /\ cur' = [cur EXCEPT ![w].pid = TRUE]
        /\ UNCHANGED <<spent, events, tally>>
    BY DEF Send, Exhausted, CapInv, NothingLost, NoLoss, db
  <1>2. /\ pc[w] = "send" /\ pc'[w] = "record" /\ \A v \in Worker : v = w
        /\ cur[w] \in Row /\ cur[w].status = "SENT"
    BY DEF Send, NoLoss, SingleWorker, TypeInv, TypeOK, SessionOK
  <1>3. /\ cur'[w].status = "SENT" /\ cur'[w].c = cur[w].c
    BY <1>1, <1>2 DEF Row, TypeInv, TypeOK
  <1> DEFINE new == [a |-> cur[w].a, s |-> cur[w].s, c |-> cur[w].c,
                     d |-> cur[w].d, at |-> clock]
  <1>4. /\ Len(calls) \in Nat /\ Len(calls') = Len(calls) + 1
        /\ \A i \in 1 .. Len(calls) : calls'[i] = calls[i]
        /\ calls'[Len(calls) + 1].c = cur[w].c
    <2>1. calls' = Append(calls, new) /\ calls \in Seq(Call) /\ new \in Call
      BY <1>1, <1>2 DEF ProviderAccepts, Row, Call, TypeInv, TypeOK
    <2> QED
      BY <2>1
  <1>5. ASSUME NEW c \in Customer PROVE Counted(w, c)' /\ Room(w, c)'
    <2>1. /\ Counted(w, c) /\ Room(w, c)
          /\ events[c] \in Nat /\ tally[w][c] \in Nat
      BY DEF CapInv, TypeInv, TypeOK
    <2>2. /\ Holds(w, c, {"record"}) = 0
          /\ Holds(w, c, {"send", "record"}) = IF c = cur[w].c THEN 1 ELSE 0
          /\ Holds(w, c, {"record"})' = IF c = cur[w].c THEN 1 ELSE 0
          /\ Holds(w, c, {"send", "record"})' = IF c = cur[w].c THEN 1 ELSE 0
      BY <1>2, <1>3 DEF Holds
    <2>3. Cardinality(CallsTo(c)') =
            Cardinality(CallsTo(c)) + IF c = cur[w].c THEN 1 ELSE 0
      <3>1. CASE c = cur[w].c
        <4>1. CallsTo(c)' = CallsTo(c) \cup {Len(calls) + 1}
          BY <1>4, <3>1 DEF CallsTo
        <4>2. Len(calls) + 1 \notin CallsTo(c)
          BY <1>4 DEF CallsTo
        <4>3. Cardinality(CallsTo(c) \cup {Len(calls) + 1}) = Cardinality(CallsTo(c)) + 1
          BY <4>2, CallsToFinite, FS_AddElement DEF TypeInv
        <4> QED
          BY <3>1, <4>1, <4>3
      <3>2. CASE c # cur[w].c
        <4>1. CallsTo(c)' = CallsTo(c)
          BY <1>4, <3>2 DEF CallsTo
        <4> QED
          BY <3>2, <4>1, CallsToFinite DEF TypeInv
      <3> QED
        BY <3>1, <3>2
    <2>4. Counted(w, c)'
      <3>1. Cardinality(CallsTo(c)) = events[c] + tally[w][c]
        BY <2>1, <2>2 DEF Counted
      <3> QED
        BY <1>1, <2>1, <2>2, <2>3, <3>1 DEF Counted
    <2>5. Room(w, c)'
      BY <1>1, <2>1, <2>2 DEF Room
    <2> QED
      BY <2>4, <2>5
  <1> QED
    BY <1>1, <1>2, <1>5 DEF CapInv, NothingLost

LEMMA RecordCap ==
    ASSUME NoLoss, TypeInv, CapInv, NEW w \in Worker, Record(w) PROVE CapInv'
  <1>1. /\ UNCHANGED <<events, calls, spent>>
        /\ pc[w] = "record" /\ pc'[w] = "gate" /\ cur[w] \in Row
        /\ tally' = IF cur[w].status = "SENT"
                    THEN [tally EXCEPT ![w][cur[w].c] = @ + 1]
                    ELSE tally
    BY DEF Record, db, TypeInv, TypeOK, SessionOK
  <1>2. NothingLost'
    BY <1>1 DEF CapInv, NothingLost
  <1>3. ASSUME NEW c \in Customer
        PROVE  /\ events'[c] + tally'[w][c] + Holds(w, c, {"record"})'
                    = events[c] + tally[w][c] + Holds(w, c, {"record"})
               /\ Room(w, c)'
    <2>1. /\ Room(w, c) /\ events[c] \in Nat /\ tally[w][c] \in Nat
          /\ events'[c] = events[c]
      BY <1>1 DEF CapInv, TypeInv, TypeOK
    <2>2. /\ Holds(w, c, {"record"})' = 0 /\ Holds(w, c, {"send", "record"})' = 0
          /\ Holds(w, c, {"record"}) = Holds(w, c, {"send", "record"})
      BY <1>1 DEF Holds
    <2>3. tally'[w][c] = tally[w][c] + Holds(w, c, {"record"})
      BY <1>1, <2>1 DEF Holds, TypeInv, TypeOK
    <2> QED
      BY <2>1, <2>2, <2>3 DEF Room, Holds
  <1> QED
    BY <1>1, <1>2, <1>3, CapKept DEF NoLoss, TypeInv

LEMMA CommitCap ==
    ASSUME NoLoss, TypeInv, CapInv, NEW w \in Worker, Commit(w) PROVE CapInv'
  <1>1. /\ UNCHANGED <<calls, spent>> /\ pc[w] = "gate" /\ pc'[w] = "idle"
    BY DEF Commit, EndSession, TypeInv, TypeOK
  <1>2. NothingLost'
    BY <1>1 DEF CapInv, NothingLost
  <1>3. ASSUME NEW c \in Customer
        PROVE  /\ events'[c] + tally'[w][c] + Holds(w, c, {"record"})'
                    = events[c] + tally[w][c] + Holds(w, c, {"record"})
               /\ Room(w, c)'
    <2>1. /\ Room(w, c) /\ events[c] \in Nat /\ tally[w][c] \in Nat
          /\ events'[c] = events[c] + tally[w][c] /\ tally'[w][c] = 0
      BY DEF Commit, EndSession, CapInv, TypeInv, TypeOK
    <2>2. \A at \in {{"record"}, {"send", "record"}} :
            Holds(w, c, at) = 0 /\ Holds(w, c, at)' = 0
      BY <1>1 DEF Holds
    <2> QED
      BY <2>1, <2>2 DEF Room
  <1> QED
    BY <1>1, <1>2, <1>3, CapKept DEF NoLoss, TypeInv

LEMMA CapInvStep ==
    ASSUME NoLoss PROVE TypeInv /\ CapInv /\ [Next]_vars => CapInv'
  <1> SUFFICES ASSUME TypeInv, CapInv, [Next]_vars PROVE CapInv'
    OBVIOUS
  <1>1. ASSUME NEW w \in Worker, WorkerStep(w) PROVE CapInv'
    <2>1. ~ Rollback(w)
      BY DEF Rollback, Exhausted, CapInv, NothingLost, NoLoss
    <2>2. ~ DeadlockVictim(w)
      BY DEF DeadlockVictim, WaitsFor, NoLoss, SingleWorker
    <2> QED
      BY <1>1, <2>1, <2>2, StartRunCap, GateCap, SendCap, RecordCap, CommitCap
      DEF WorkerStep
  <1>2. ASSUME UNCHANGED <<calls, events, tally, pc, cur>>,
               spent'.crashes = spent.crashes, spent'.failures = spent.failures
        PROVE  CapInv'
    BY <1>2 DEF CapInv, NothingLost, Counted, Room, CallsTo, Holds
  <1>3. ASSUME NEW c \in Customer, OptOut(c) \/ OptIn(c) PROVE CapInv'
    BY <1>2, <1>3 DEF OptOut, OptIn, session, Spend, TypeInv, TypeOK
  <1>4. CASE Receipt
    BY <1>2, <1>4 DEF Receipt, session, Spend, TypeInv, TypeOK
  <1>5. CASE Tick \/ Idle \/ UNCHANGED vars
    BY <1>2, <1>5 DEF Tick, Idle, vars, session, db
  <1> QED
    BY <1>1, <1>3, <1>4, <1>5 DEF Next

\* While one worker runs and nothing it did is lost, the provider never accepts
\* more messages for a customer than the frequency cap allows, whatever the
\* batches, the days and the delivery reports.
THEOREM CapIsKept ==
    ASSUME NoLoss PROVE Spec => []CapHeld
  <1>1. ASSUME TypeInv, CapInv PROVE CapHeld
    <2> SUFFICES ASSUME NEW c \in Customer PROVE Cardinality(CallsTo(c)) <= Cap
      BY DEF CapHeld, CallsTo
    <2>1. CASE Worker = {}
      <3>1. CallsTo(c) = {}
        BY <1>1, <2>1, EmptySeq DEF CapInv, CallsTo
      <3> QED
        BY <3>1, FS_EmptySet, ConstantsAssumption
    <2>2. ASSUME NEW w \in Worker PROVE Cardinality(CallsTo(c)) <= Cap
      <3>1. Counted(w, c) /\ Room(w, c) /\ events[c] \in Nat /\ tally[w][c] \in Nat
        BY <1>1 DEF CapInv, TypeInv, TypeOK
      <3>2. Holds(w, c, {"record"}) <= Holds(w, c, {"send", "record"})
            /\ Holds(w, c, {"record"}) \in Nat /\ Holds(w, c, {"send", "record"}) \in Nat
        BY DEF Holds
      <3> QED
        BY <3>1, <3>2, ConstantsAssumption DEF Counted, Room
    <2> QED
      BY <2>1, <2>2
  <1>2. TypeInv /\ CapInv /\ [Next]_vars => CapInv'
    BY CapInvStep
  <1> QED
    BY <1>1, <1>2, CapInvInit, TypeInvariant, PTL DEF Spec

=============================================================================

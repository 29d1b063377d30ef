-------------------------- MODULE VoiceOrderProofs --------------------------
(***************************************************************************)
(* What VoiceOrder charges for, proved for any number of intents, requests *)
(* and prices: money is only asked for on a standing yes, an order is      *)
(* created for the amount the customer agreed to, what is captured is what *)
(* the service calls placed, and what is given up is given back.           *)
(***************************************************************************)
EXTENDS VoiceOrder, TLAPS

---------------------------------------------------------------------------
(* The inductive invariant. *)

IntentType == [status : Status, total : Price \cup {None}, expired : BOOLEAN]
OrderType == [status : {"none", "CONFIRMED", "PREPARING", "CANCELLED"},
              total : Price \cup {None}]
Types ==
    /\ intents \in [Intent -> IntentType]
    /\ active \in Intent \cup {None}
    /\ lock \in [Intent -> Thread \cup {None}]
    /\ thread \in [Thread -> RequestType \cup {None}]
    /\ hold \in [Intent -> {"none", "AUTHORIZED", "VOIDED", "CAPTURED"}]
    /\ order \in [Intent -> OrderType]
    /\ price \in Price
    /\ agreed \in [Intent -> Price \cup {None}]

Placing == {"check", "reserve", "requote", "release", "void", "order",
            "capture", "cancel", "record"}

(* A request that works on an intent holds its lock, and the intent stays  *)
(* where the request found it.                                             *)
Working(t) ==
    thread[t] # None =>
      /\ Mine(t) # None => lock[Mine(t)] = t
      /\ thread[t].pc = "authorize" =>
           Mine(t) # None /\ intents[Mine(t)].status = "CONFIRMED"
      /\ thread[t].pc \in Placing =>
           Mine(t) # None /\ intents[Mine(t)].status = "PAYMENT_AUTHORIZED"
      /\ thread[t].pc = "order" => thread[t].quote = intents[Mine(t)].total
      /\ thread[t].pc \in {"release", "void"} => thread[t].to \in {"FAILED", "SUPERSEDED"}
      /\ thread[t].pc = "supersede" => thread[t].session # None
      /\ thread[t].pc \in {"supersede", "save"} => thread[t].fresh # None

(* The id of an intent that is being built belongs to one request. *)
Building(t) ==
    thread[t] # None /\ thread[t].fresh # None =>
      /\ intents[thread[t].fresh].status = Unused
      /\ \A u \in Thread \ {t} :
           thread[u] # None => thread[u].fresh # thread[t].fresh

(* The customer's yes and the order are about the intent's own total. *)
Agreement ==
    \A i \in Intent :
      /\ intents[i].status \in {"CONFIRMED", "PAYMENT_AUTHORIZED"}
           => agreed[i] = intents[i].total
      /\ order[i] # NoOrder =>
           /\ intents[i].status \notin {Unused, "AWAITING_CONFIRMATION"}
           /\ order[i].total = agreed[i]

IInv == Types /\ Agreement /\ \A t \in Thread : Working(t) /\ Building(t)

---------------------------------------------------------------------------
(* What one step of one request can do.  t is None for the environment.    *)

Moved(t, j) ==
    \/ /\ intents'[j].status = intents[j].status
       /\ intents'[j].total = intents[j].total
       /\ agreed'[j] = agreed[j]
    \/ /\ lock[j] \in {t, None}
       /\ intents[j].status # Unused
       /\ intents'[j].status \in Terminal
       /\ intents'[j].total = intents[j].total
       /\ agreed'[j] = agreed[j]
    \/ /\ lock[j] = t
       /\ intents[j].status = "CONFIRMED"
       /\ intents'[j].status = "PAYMENT_AUTHORIZED"
       /\ intents'[j].total = intents[j].total
       /\ agreed'[j] = agreed[j]
    \/ /\ lock[j] = None
       /\ intents[j].status = "AWAITING_CONFIRMATION"
       /\ intents'[j].status = "CONFIRMED"
       /\ intents'[j].total = intents[j].total
       /\ agreed'[j] = intents[j].total
    \/ /\ t \in Thread /\ thread[t] # None /\ thread[t].fresh = j
       /\ intents[j].status = Unused
       /\ intents'[j].status = "AWAITING_CONFIRMATION"
       /\ agreed'[j] = agreed[j]

OrderMoved(j) ==
    \/ order'[j] = order[j]
    \/ order[j] # NoOrder /\ order'[j].total = order[j].total
    \/ intents[j].status = "PAYMENT_AUTHORIZED" /\ order'[j].total = intents[j].total

FreshOf(t) ==
    t \in Thread /\ thread'[t] # None /\ thread'[t].fresh # None =>
      /\ intents'[thread'[t].fresh].status = Unused
      /\ \/ Fresh(thread'[t].fresh)
         \/ thread[t] # None /\ thread'[t].fresh = thread[t].fresh

Shape(t) ==
    /\ \A u \in Thread \ {t} : thread'[u] = thread[u]
    /\ \A j \in Intent : lock[j] \notin {t, None} => lock'[j] = lock[j]
    /\ \A j \in Intent : Moved(t, j) /\ OrderMoved(j)
    /\ FreshOf(t)

LEMMA AgreementKept ==
    ASSUME IInv, NEW t \in Thread \cup {None}, Shape(t) PROVE Agreement'
  <1> SUFFICES ASSUME NEW j \in Intent
               PROVE /\ intents'[j].status \in {"CONFIRMED", "PAYMENT_AUTHORIZED"}
                          => agreed'[j] = intents'[j].total
                     /\ order'[j] # NoOrder =>
                          /\ intents'[j].status \notin {Unused, "AWAITING_CONFIRMATION"}
                          /\ order'[j].total = agreed'[j]
    BY DEF Agreement, NoOrder
  <1>1. /\ intents[j].status \in {"CONFIRMED", "PAYMENT_AUTHORIZED"}
             => agreed[j] = intents[j].total
        /\ order[j] # NoOrder =>
             /\ intents[j].status \notin {Unused, "AWAITING_CONFIRMATION"}
             /\ order[j].total = agreed[j]
    BY DEF IInv, Agreement
  <1>2. Moved(t, j) /\ OrderMoved(j)
    BY DEF Shape
  <1> QED
    BY <1>1, <1>2 DEF Moved, OrderMoved, Terminal, Unused

LEMMA OthersWork ==
    ASSUME IInv, Types', NEW t \in Thread \cup {None}, Shape(t),
           NEW u \in Thread \ {t}
    PROVE  Working(u)'
  <1> SUFFICES ASSUME thread[u] # None PROVE Working(u)'
    BY DEF Working, Shape
  <1>1. thread'[u] = thread[u] /\ thread[u] \in RequestType
    BY DEF IInv, Types, Shape
  <1>2. Working(u)
    BY DEF IInv
  <1>3. ASSUME Mine(u) # None
        PROVE  /\ lock[Mine(u)] = u /\ lock'[Mine(u)] = u
               /\ intents[Mine(u)].status # Unused =>
                    /\ intents'[Mine(u)].status = intents[Mine(u)].status
                    /\ intents'[Mine(u)].total = intents[Mine(u)].total
    <2>1. Mine(u) \in Intent
      BY <1>1, <1>3 DEF RequestType, Mine
    <2>2. lock[Mine(u)] = u /\ u \notin {t, None}
      BY <1>2, <1>3, VoiceAssumption DEF Working
    <2>3. lock'[Mine(u)] = u
      BY <2>1, <2>2 DEF Shape
    <2>4. Moved(t, Mine(u))
      BY <2>1 DEF Shape
    <2> QED
      BY <2>2, <2>3, <2>4 DEF Moved
  <1> QED
    BY <1>1, <1>2, <1>3 DEF Working, Mine, Unused, Placing

LEMMA AllBuild ==
    ASSUME IInv, Types', NEW t \in Thread \cup {None}, Shape(t), NEW u \in Thread
    PROVE  Building(u)'
  <1> SUFFICES ASSUME thread'[u] # None, thread'[u].fresh # None
               PROVE  /\ intents'[thread'[u].fresh].status = Unused
                      /\ \A v \in Thread \ {u} :
                           thread'[v] # None => thread'[v].fresh # thread'[u].fresh
    BY DEF Building
  <1> DEFINE f == thread'[u].fresh
  <1>1. \A v \in Thread \ {t} : thread'[v] = thread[v]
    BY DEF Shape
  <1>2. /\ \A v \in Thread : Building(v)
        /\ f \in Intent
    BY DEF IInv, Types, RequestType
  <1>3. CASE u # t
    <2>1. thread[u] # None /\ thread[u].fresh = f
      BY <1>1, <1>3
    <2>2. /\ intents[f].status = Unused
          /\ \A v \in Thread \ {u} : thread[v] # None => thread[v].fresh # f
      BY <1>2, <2>1 DEF Building
    <2>3. FreshOf(t) /\ Moved(t, f)
      BY <1>2 DEF Shape
    <2>4. intents'[f].status = Unused
      BY <2>2, <2>3, <1>3 DEF Moved, Unused
    <2>5. t \in Thread /\ thread'[t] # None => thread'[t].fresh # f
      <3> SUFFICES ASSUME t \in Thread, thread'[t] # None, thread'[t].fresh = f
                   PROVE  FALSE
        OBVIOUS
      <3>1. f # None
        OBVIOUS
      <3>2. CASE Fresh(f)
        BY <2>1, <3>2 DEF Fresh
      <3>3. CASE thread[t] # None /\ f = thread[t].fresh
        BY <2>2, <3>3, <1>3
      <3> QED
        BY <2>3, <3>1, <3>2, <3>3 DEF FreshOf
    <2> QED
      BY <1>1, <2>2, <2>4, <2>5
  <1>4. CASE u = t
    <2>1. /\ intents'[f].status = Unused
          /\ \/ Fresh(f)
             \/ thread[t] # None /\ f = thread[t].fresh
      BY <1>4 DEF Shape, FreshOf
    <2>2. /\ intents[f].status = Unused
          /\ \A v \in Thread \ {t} : thread[v] # None => thread[v].fresh # f
      BY <1>2, <1>4, <2>1 DEF Fresh, Building
    <2> QED
      BY <1>1, <1>4, <2>1, <2>2
  <1> QED
    BY <1>3, <1>4

(* It is enough to look at the shape of a step, its types and the request  *)
(* that takes it.                                                          *)
LEMMA StepKeeps ==
    ASSUME IInv, Types', NEW t \in Thread, Shape(t), Working(t)' PROVE IInv'
  <1>1. \A u \in Thread \ {t} : Working(u)'
    BY OthersWork
  <1>2. \A u \in Thread : Building(u)'
    BY AllBuild
  <1> QED
    BY <1>1, <1>2, AgreementKept DEF IInv

LEMMA WorldKeeps ==
    ASSUME IInv, Types', Shape(None) PROVE IInv'
  <1>1. \A u \in Thread : Working(u)'
    BY OthersWork, VoiceAssumption
  <1>2. \A u \in Thread : Building(u)'
    BY AllBuild
  <1> QED
    BY <1>1, <1>2, AgreementKept DEF IInv

---------------------------------------------------------------------------
(* The helpers the actions are built from. *)

Pc == {"quote", "supersede", "save", "touch", "authorize"} \cup Placing

LEMMA BeginFacts ==
    ASSUME Types, NEW t \in Thread, NEW pc \in Pc, NEW i \in Intent \cup {None},
           Begin(t, pc, i)
    PROVE  /\ thread' \in [Thread -> RequestType \cup {None}]
           /\ thread[t] = None
           /\ thread'[t] = Request(pc, i) /\ thread'[t] # None
           /\ \A u \in Thread \ {t} : thread'[u] = thread[u]
  <1>1. Request(pc, i) \in RequestType
    BY DEF Request, RequestType, Types, Pc, Placing
  <1> QED
    BY <1>1, VoiceAssumption DEF Begin, Types

LEMMA BeginLockedFacts ==
    ASSUME Types, NEW t \in Thread, NEW pc \in Pc, NEW i \in Intent,
           BeginLocked(t, pc, i)
    PROVE  /\ thread' \in [Thread -> RequestType \cup {None}]
           /\ lock' \in [Intent -> Thread \cup {None}]
           /\ thread[t] = None
           /\ thread'[t] = Request(pc, i) /\ thread'[t] # None
           /\ \A u \in Thread \ {t} : thread'[u] = thread[u]
           /\ lock[i] = None /\ lock'[i] = t
           /\ \A j \in Intent \ {i} : lock'[j] = lock[j]
  <1>1. Begin(t, pc, i)
    BY DEF BeginLocked
  <1> QED
    BY <1>1, BeginFacts DEF BeginLocked, Types

LEMMA GotoFacts ==
    ASSUME Types, NEW t \in Thread, NEW pc \in Pc, thread[t] # None, Goto(t, pc)
    PROVE  /\ thread' \in [Thread -> RequestType \cup {None}]
           /\ lock' = lock
           /\ thread'[t] = [thread[t] EXCEPT !.pc = pc] /\ thread'[t] # None
           /\ \A u \in Thread \ {t} : thread'[u] = thread[u]
  <1>1. [thread[t] EXCEPT !.pc = pc] \in RequestType
    BY DEF RequestType, Types, Pc, Placing
  <1> QED
    BY <1>1, VoiceAssumption DEF Goto, Types

LEMMA EndFacts ==
    ASSUME Types, NEW t \in Thread, End(t)
    PROVE  /\ thread' \in [Thread -> RequestType \cup {None}]
           /\ lock' \in [Intent -> Thread \cup {None}]
           /\ thread'[t] = None
           /\ \A u \in Thread \ {t} : thread'[u] = thread[u]
           /\ \A j \in Intent : lock[j] # t => lock'[j] = lock[j]
  BY DEF End, Types

LEMMA SetStatusFacts ==
    ASSUME Types, NEW i \in Intent, NEW s \in Status, intents' = SetStatus(i, s)
    PROVE  /\ intents' \in [Intent -> IntentType]
           /\ intents'[i].status = s
           /\ \A j \in Intent : intents'[j].total = intents[j].total
           /\ \A j \in Intent \ {i} : intents'[j] = intents[j]
  BY DEF SetStatus, Types, IntentType

LEMMA ActorFacts ==
    ASSUME IInv, NEW t \in Thread, thread[t] # None
    PROVE  /\ Types /\ Working(t) /\ Building(t)
           /\ thread[t] \in RequestType
           /\ thread[t].pc \in Placing \cup {"authorize"} =>
                Mine(t) \in Intent /\ lock[Mine(t)] = t
  BY DEF IInv, Types, Working, RequestType, Mine

(* A step that leaves intents and agreed amounts alone.                    *)
LEMMA QuietShape ==
    ASSUME IInv, NEW t \in Thread, UNCHANGED <<intents, agreed>>,
           \A j \in Intent : OrderMoved(j),
           \A u \in Thread \ {t} : thread'[u] = thread[u],
           \A j \in Intent : lock[j] \notin {t, None} => lock'[j] = lock[j],
           thread'[t] # None /\ thread'[t].fresh # None =>
             thread[t] # None /\ thread'[t].fresh = thread[t].fresh
    PROVE  Shape(t)
  <1>1. \A j \in Intent : Moved(t, j)
    BY DEF Moved
  <1>2. FreshOf(t)
    BY DEF IInv, Building, FreshOf
  <1> QED
    BY <1>1, <1>2 DEF Shape

---------------------------------------------------------------------------
(* Every action keeps the invariant. *)

LEMMA UnlockedStep ==
    ASSUME IInv, NEW t \in Thread, NEW pc \in {"quote", "touch"}, Begin(t, pc, None),
           UNCHANGED <<stores, backend, world, lock, lost>>
    PROVE  IInv'
  <1>1. /\ thread' \in [Thread -> RequestType \cup {None}]
        /\ thread'[t] = Request(pc, None)
        /\ \A u \in Thread \ {t} : thread'[u] = thread[u]
    BY BeginFacts DEF IInv, Pc
  <1>2. Types'
    BY <1>1 DEF IInv, Types, stores, backend, world
  <1>3. Shape(t)
    BY <1>1, QuietShape DEF Request, OrderMoved, stores, backend, world
  <1>4. Working(t)'
    BY <1>1 DEF Working, Request, Mine, Placing
  <1> QED
    BY <1>2, <1>3, <1>4, StepKeeps

LEMMA LockingStep ==
    ASSUME IInv, NEW t \in Thread, NEW i \in Intent,
           NEW pc \in {"touch", "authorize", "check"}, BeginLocked(t, pc, i),
           pc = "authorize" => intents[i].status = "CONFIRMED",
           pc = "check" => intents[i].status = "PAYMENT_AUTHORIZED",
           UNCHANGED <<stores, backend, world, lost>>
    PROVE  IInv'
  <1>1. /\ thread' \in [Thread -> RequestType \cup {None}]
        /\ lock' \in [Intent -> Thread \cup {None}]
        /\ thread'[t] = Request(pc, i)
        /\ \A u \in Thread \ {t} : thread'[u] = thread[u]
        /\ lock[i] = None /\ lock'[i] = t
        /\ \A j \in Intent \ {i} : lock'[j] = lock[j]
    BY BeginLockedFacts DEF IInv, Pc, Placing
  <1>2. Types'
    BY <1>1 DEF IInv, Types, stores, backend, world
  <1>3. Shape(t)
    BY <1>1, QuietShape DEF Request, OrderMoved, stores, backend, world
  <1>4. Working(t)'
    <2>1. /\ thread'[t].pc = pc /\ thread'[t].intent = i /\ i # None
          /\ intents' = intents /\ lock'[i] = t
      BY <1>1, VoiceAssumption DEF Request, stores
    <2> QED
      BY <2>1 DEF Working, Mine, Placing
  <1> QED
    BY <1>2, <1>3, <1>4, StepKeeps

LEMMA QuoteStep == ASSUME IInv, NEW t \in Thread, Quote(t) PROVE IInv'
  <1>1. At(t, "quote") /\ UNCHANGED <<stores, backend, world, lost>>
    BY DEF Quote
  <1>2. Types /\ Working(t) /\ thread[t] \in RequestType /\ thread[t] # None
    BY <1>1, ActorFacts DEF At
  <1>3. CASE End(t)
    <2>1. Types'
      BY <1>1, <1>2, <1>3, EndFacts DEF Types, stores, backend, world
    <2>2. Shape(t)
      BY <1>1, <1>2, <1>3, EndFacts, QuietShape DEF OrderMoved, stores, backend, world
    <2>3. Working(t)'
      BY <1>2, <1>3, EndFacts DEF Working
    <2> QED
      BY <2>1, <2>2, <2>3, StepKeeps
  <1>4. CASE \E i \in Intent :
            /\ Fresh(i)
            /\ thread' = [thread EXCEPT ![t].fresh = i, ![t].quote = price,
                 ![t].pc = IF thread[t].session = None THEN "save" ELSE "supersede"]
            /\ UNCHANGED lock
    <2>1. PICK i \in Intent :
            /\ Fresh(i)
            /\ thread' = [thread EXCEPT ![t].fresh = i, ![t].quote = price,
                 ![t].pc = IF thread[t].session = None THEN "save" ELSE "supersede"]
            /\ UNCHANGED lock
      BY <1>4
    <2> DEFINE pc == IF thread[t].session = None THEN "save" ELSE "supersede"
               r == [thread[t] EXCEPT !.fresh = i, !.quote = price, !.pc = pc]
    <2>2. r \in RequestType
      BY <1>2 DEF RequestType, Types
    <2>3. /\ thread' \in [Thread -> RequestType \cup {None}]
          /\ thread'[t] = r
          /\ \A u \in Thread \ {t} : thread'[u] = thread[u]
      BY <1>2, <2>1, <2>2 DEF Types
    <2>4. /\ r.fresh = i /\ r.session = thread[t].session /\ r.intent = thread[t].intent
          /\ r.pc \in {"save", "supersede"} /\ (r.pc = "supersede" => r.session # None)
      BY <1>2 DEF RequestType
    <2>5. Types'
      BY <1>1, <1>2, <2>1, <2>3 DEF Types, stores, backend, world
    <2>6. Shape(t)
      <3>1. \A j \in Intent : Moved(t, j) /\ OrderMoved(j)
        BY <1>1 DEF Moved, OrderMoved, stores, backend, world
      <3>2. FreshOf(t)
        BY <1>1, <2>1, <2>3, <2>4 DEF FreshOf, Fresh, stores
      <3> QED
        BY <2>1, <2>3, <3>1, <3>2 DEF Shape
    <2>7. Working(t)'
      BY <1>2, <2>1, <2>3, <2>4, VoiceAssumption DEF Working, Mine, Placing
    <2> QED
      BY <2>5, <2>6, <2>7, StepKeeps
  <1> QED
    BY <1>3, <1>4 DEF Quote

LEMMA SupersedeStep == ASSUME IInv, NEW t \in Thread, Supersede(t) PROVE IInv'
  <1> DEFINE prior == thread[t].session
  <1>1. /\ At(t, "supersede") /\ lock[prior] = None
        /\ intents' = IF intents[prior].status \in Unconfirmed
                      THEN SetStatus(prior, "SUPERSEDED") ELSE intents
        /\ Goto(t, "save")
        /\ UNCHANGED <<active, record, backend, world, lost>>
    BY DEF Supersede
  <1>2. Types /\ Working(t) /\ Building(t) /\ thread[t] \in RequestType /\ thread[t] # None
    BY <1>1, ActorFacts DEF At
  <1>3. prior \in Intent
    BY <1>1, <1>2 DEF At, Working, RequestType
  <1>4. /\ thread' \in [Thread -> RequestType \cup {None}]
        /\ lock' = lock
        /\ thread'[t] = [thread[t] EXCEPT !.pc = "save"] /\ thread'[t] # None
        /\ \A u \in Thread \ {t} : thread'[u] = thread[u]
    BY <1>1, <1>2, GotoFacts DEF Pc
  <1>5. /\ intents' \in [Intent -> IntentType]
        /\ \A j \in Intent :
             \/ intents'[j] = intents[j]
             \/ /\ j = prior /\ intents[j].status \in Unconfirmed
                /\ intents'[j].status = "SUPERSEDED" /\ intents'[j].total = intents[j].total
    BY <1>1, <1>2, <1>3, SetStatusFacts DEF Types, Status, Terminal
  <1>6. Types'
    BY <1>1, <1>2, <1>4, <1>5 DEF Types, backend, world
  <1>7. Shape(t)
    <2>1. \A j \in Intent : Moved(t, j) /\ OrderMoved(j)
      BY <1>1, <1>5 DEF Moved, OrderMoved, backend, world, Unconfirmed, Unused, Terminal
    <2>2. FreshOf(t)
      BY <1>2, <1>4, <1>5 DEF FreshOf, Building, RequestType, Unconfirmed, Unused
    <2> QED
      BY <1>4, <2>1, <2>2 DEF Shape
  <1>8. Working(t)'
    BY <1>1, <1>2, <1>4 DEF Working, Mine, Placing, RequestType, At
  <1> QED
    BY <1>6, <1>7, <1>8, StepKeeps

LEMMA SaveIntentStep == ASSUME IInv, NEW t \in Thread, SaveIntent(t) PROVE IInv'
  <1> DEFINE new == thread[t].fresh
             row == [status |-> "AWAITING_CONFIRMATION", total |-> thread[t].quote,
                     expired |-> FALSE]
  <1>1. /\ At(t, "save") /\ intents' = [intents EXCEPT ![new] = row] /\ active' = new
        /\ End(t) /\ UNCHANGED <<record, backend, world, lost>>
    BY DEF SaveIntent
  <1>2. Types /\ Working(t) /\ Building(t) /\ thread[t] \in RequestType /\ thread[t] # None
    BY <1>1, ActorFacts DEF At
  <1>3. new \in Intent /\ intents[new].status = Unused /\ row \in IntentType
    BY <1>1, <1>2 DEF At, Working, Building, RequestType, IntentType, Status, Live, Unconfirmed
  <1>4. Types'
    BY <1>1, <1>2, <1>3, EndFacts DEF Types, backend, world
  <1>5. Shape(t)
    <2>1. \A j \in Intent : Moved(t, j) /\ OrderMoved(j)
      BY <1>1, <1>2, <1>3 DEF Moved, OrderMoved, Types, backend, world
    <2>2. FreshOf(t)
      BY <1>1, <1>2, EndFacts DEF FreshOf
    <2> QED
      BY <1>1, <1>2, <2>1, <2>2, EndFacts DEF Shape
  <1>6. Working(t)'
    BY <1>1, <1>2, EndFacts DEF Working
  <1> QED
    BY <1>4, <1>5, <1>6, StepKeeps

HoldType == [Intent -> {"none", "AUTHORIZED", "VOIDED", "CAPTURED"}]

(* A request that ends without touching intents or amounts.                *)
LEMMA EndingStep ==
    ASSUME IInv, NEW t \in Thread, End(t), UNCHANGED <<intents, agreed, price>>,
           active' \in Intent \cup {None}, hold' \in HoldType,
           order' \in [Intent -> OrderType], \A j \in Intent : OrderMoved(j)
    PROVE  IInv'
  <1>1. Types
    BY DEF IInv
  <1>2. Types'
    BY <1>1, EndFacts DEF Types, HoldType
  <1>3. Shape(t)
    BY <1>1, EndFacts, QuietShape
  <1>4. Working(t)'
    BY <1>1, EndFacts DEF Working
  <1> QED
    BY <1>2, <1>3, <1>4, StepKeeps

LEMMA TouchStep == ASSUME IInv, NEW t \in Thread, Touch(t) PROVE IInv'
  <1>1. thread[t] \in RequestType
    BY ActorFacts DEF Touch, At
  <1>2. active' \in Intent \cup {None}
    BY <1>1 DEF Touch, RequestType
  <1> QED
    BY <1>2, EndingStep DEF Touch, backend, world, IInv, Types, OrderMoved, HoldType
(* A placing request that goes on to its next step.                        *)
LEMMA PlacingStep ==
    ASSUME IInv, NEW t \in Thread, thread[t] # None, thread[t].pc \in Placing,
           thread' \in [Thread -> RequestType \cup {None}], thread'[t] # None,
           \A u \in Thread \ {t} : thread'[u] = thread[u],
           thread'[t].pc \in Placing, thread'[t].intent = Mine(t),
           thread'[t].fresh = thread[t].fresh,
           thread'[t].pc = "order" => thread'[t].quote = intents[Mine(t)].total,
           thread'[t].pc \in {"release", "void"} => thread'[t].to \in {"FAILED", "SUPERSEDED"},
           UNCHANGED <<intents, agreed, active, price, lock>>, hold' \in HoldType,
           order' \in [Intent -> OrderType], \A j \in Intent : OrderMoved(j)
    PROVE  IInv'
  <1>1. Types /\ Working(t)
    BY ActorFacts
  <1>2. Types'
    BY <1>1 DEF Types, HoldType
  <1>3. Shape(t)
    BY QuietShape
  <1>4. Working(t)'
    BY <1>1 DEF Working, Mine, Placing
  <1> QED
    BY <1>2, <1>3, <1>4, StepKeeps

LEMMA SameOrders == ASSUME order' = order PROVE \A j \in Intent : OrderMoved(j)
  BY DEF OrderMoved

LEMMA GotoStep ==
    ASSUME IInv, NEW t \in Thread, thread[t] # None, thread[t].pc \in Placing,
           NEW pc \in Placing \ {"order"}, Goto(t, pc),
           pc \in {"release", "void"} => thread[t].to \in {"FAILED", "SUPERSEDED"},
           UNCHANGED <<intents, agreed, active, price>>, hold' \in HoldType,
           order' \in [Intent -> OrderType], \A j \in Intent : OrderMoved(j)
    PROVE  IInv'
  <1>1. Types /\ thread[t] \in RequestType
    BY ActorFacts
  <1>2. /\ thread' \in [Thread -> RequestType \cup {None}]
        /\ lock' = lock
        /\ thread'[t] = [thread[t] EXCEPT !.pc = pc] /\ thread'[t] # None
        /\ \A u \in Thread \ {t} : thread'[u] = thread[u]
    BY <1>1, GotoFacts DEF Pc
  <1>3. /\ thread'[t].pc = pc /\ thread'[t].intent = Mine(t)
        /\ thread'[t].fresh = thread[t].fresh /\ thread'[t].to = thread[t].to
    BY <1>1, <1>2 DEF RequestType, Mine
  <1> QED
    BY <1>2, <1>3, PlacingStep

LEMMA AbortStep ==
    ASSUME IInv, NEW t \in Thread, thread[t] # None, thread[t].pc \in Placing,
           NEW pc \in {"void", "release"}, NEW to \in {"FAILED", "SUPERSEDED"},
           Abort(t, pc, to),
           UNCHANGED <<intents, agreed, active, price>>, hold' \in HoldType,
           order' \in [Intent -> OrderType], \A j \in Intent : OrderMoved(j)
    PROVE  IInv'
  <1>1. Types /\ thread[t] \in RequestType
    BY ActorFacts
  <1>2. /\ thread' \in [Thread -> RequestType \cup {None}]
        /\ lock' = lock
        /\ thread'[t] = [thread[t] EXCEPT !.pc = pc, !.to = to] /\ thread'[t] # None
        /\ \A u \in Thread \ {t} : thread'[u] = thread[u]
    <2>1. [thread[t] EXCEPT !.pc = pc, !.to = to] \in RequestType
      BY <1>1 DEF RequestType
    <2> QED
      BY <1>1, <2>1, VoiceAssumption DEF Abort, Types
  <1>3. /\ thread'[t].pc = pc /\ thread'[t].intent = Mine(t)
        /\ thread'[t].fresh = thread[t].fresh /\ thread'[t].to = to
    BY <1>1, <1>2 DEF RequestType, Mine
  <1>4. pc \in Placing /\ pc # "order"
    BY DEF Placing
  <1> QED
    BY <1>2, <1>3, <1>4, PlacingStep

(* A call that has taken effect, whether or not its answer arrives.        *)
LEMMA ReturnsStep ==
    ASSUME IInv, NEW t \in Thread, thread[t] # None, thread[t].pc \in Placing,
           NEW pc \in Placing \ {"order"}, Returns(t, pc),
           pc \in {"release", "void"} => thread[t].to \in {"FAILED", "SUPERSEDED"},
           UNCHANGED <<intents, agreed, active, price>>, hold' \in HoldType,
           order' \in [Intent -> OrderType], \A j \in Intent : OrderMoved(j)
    PROVE  IInv'
  <1>1. active \in Intent \cup {None}
    BY DEF IInv, Types
  <1>2. CASE Goto(t, pc)
    BY <1>2, GotoStep
  <1>3. CASE End(t)
    BY <1>1, <1>3, EndingStep
  <1> QED
    BY <1>2, <1>3 DEF Returns

LEMMA ConfirmStep ==
    ASSUME IInv, NEW t \in Thread, NEW i \in Intent, NEW amount \in Price,
           Confirm(t, i, amount)
    PROVE  IInv'
  <1>1. /\ intents[i].status = "AWAITING_CONFIRMATION" /\ amount = intents[i].total
        /\ intents' = SetStatus(i, "CONFIRMED") /\ agreed' = [agreed EXCEPT ![i] = amount]
        /\ UNCHANGED <<active, record, backend, price, changes, lost>>
    BY DEF Confirm, Usable
  <1>2. Types
    BY DEF IInv
  <1>3. /\ thread' \in [Thread -> RequestType \cup {None}]
        /\ lock' \in [Intent -> Thread \cup {None}]
        /\ thread'[t] = Request("touch", i)
        /\ \A u \in Thread \ {t} : thread'[u] = thread[u]
        /\ lock[i] = None /\ lock'[i] = t
        /\ \A j \in Intent \ {i} : lock'[j] = lock[j]
    BY <1>2, BeginLockedFacts DEF Confirm, Pc
  <1>4. /\ intents' \in [Intent -> IntentType]
        /\ intents'[i].status = "CONFIRMED"
        /\ \A j \in Intent : intents'[j].total = intents[j].total
        /\ \A j \in Intent \ {i} : intents'[j] = intents[j]
    BY <1>1, <1>2, SetStatusFacts DEF Status, Live, Unconfirmed
  <1>5. Types'
    BY <1>1, <1>2, <1>3, <1>4 DEF Types, backend
  <1>6. Shape(t)
    <2>1. \A j \in Intent : Moved(t, j) /\ OrderMoved(j)
      BY <1>1, <1>2, <1>3, <1>4 DEF Moved, OrderMoved, Types, backend
    <2> QED
      BY <1>3, <2>1 DEF Shape, FreshOf, Request
  <1>7. Working(t)'
    BY <1>3 DEF Working, Request, Mine, Placing
  <1> QED
    BY <1>5, <1>6, <1>7, StepKeeps

LEMMA DeclineStep ==
    ASSUME IInv, NEW t \in Thread, NEW i \in Intent, Decline(t, i) PROVE IInv'
  <1>1. /\ intents[i].status = "AWAITING_CONFIRMATION"
        /\ intents' = SetStatus(i, "CANCELLED")
        /\ UNCHANGED <<active, record, backend, world, lost>>
    BY DEF Decline, Usable
  <1>2. Types
    BY DEF IInv
  <1>3. /\ thread' \in [Thread -> RequestType \cup {None}]
        /\ lock' \in [Intent -> Thread \cup {None}]
        /\ thread'[t] = Request("touch", i)
        /\ \A u \in Thread \ {t} : thread'[u] = thread[u]
        /\ lock[i] = None /\ lock'[i] = t
        /\ \A j \in Intent \ {i} : lock'[j] = lock[j]
    BY <1>2, BeginLockedFacts DEF Decline, Pc
  <1>4. /\ intents' \in [Intent -> IntentType]
        /\ intents'[i].status = "CANCELLED"
        /\ \A j \in Intent : intents'[j].total = intents[j].total
        /\ \A j \in Intent \ {i} : intents'[j] = intents[j]
    BY <1>1, <1>2, SetStatusFacts DEF Status, Terminal
  <1>5. Types'
    BY <1>1, <1>2, <1>3, <1>4 DEF Types, backend, world
  <1>6. Shape(t)
    <2>1. \A j \in Intent : Moved(t, j) /\ OrderMoved(j)
      BY <1>1, <1>3, <1>4 DEF Moved, OrderMoved, backend, world, Unused, Terminal
    <2> QED
      BY <1>3, <2>1 DEF Shape, FreshOf, Request
  <1>7. Working(t)'
    BY <1>3 DEF Working, Request, Mine, Placing
  <1> QED
    BY <1>5, <1>6, <1>7, StepKeeps

LEMMA AuthorizedStep == ASSUME IInv, NEW t \in Thread, Authorized(t) PROVE IInv'
  <1> DEFINE i == Mine(t)
  <1>1. /\ At(t, "authorize") /\ hold' = [hold EXCEPT ![i] = "AUTHORIZED"]
        /\ intents' = SetStatus(i, "PAYMENT_AUTHORIZED")
        /\ thread' = [thread EXCEPT ![t] = Request("touch", i)]
        /\ UNCHANGED <<active, lock, order, reserved, world, lost>>
    BY DEF Authorized
  <1>2. /\ Types /\ i \in Intent /\ lock[i] = t /\ intents[i].status = "CONFIRMED"
    BY <1>1, ActorFacts DEF At, Working
  <1>3. Request("touch", i) \in RequestType
    BY <1>2 DEF Request, RequestType, Types
  <1>4. /\ intents' \in [Intent -> IntentType]
        /\ intents'[i].status = "PAYMENT_AUTHORIZED"
        /\ \A j \in Intent : intents'[j].total = intents[j].total
        /\ \A j \in Intent \ {i} : intents'[j] = intents[j]
    BY <1>1, <1>2, SetStatusFacts DEF Status, Live
  <1>5. Types'
    BY <1>1, <1>2, <1>3, <1>4 DEF Types, world
  <1>6. thread'[t] = Request("touch", i) /\ \A u \in Thread \ {t} : thread'[u] = thread[u]
    BY <1>1, <1>2 DEF Types
  <1>7. Shape(t)
    <2>1. \A j \in Intent : Moved(t, j) /\ OrderMoved(j)
      BY <1>1, <1>2, <1>4 DEF Moved, OrderMoved, world
    <2> QED
      BY <1>1, <1>6, <2>1 DEF Shape, FreshOf, Request
  <1>8. Working(t)'
    BY <1>1, <1>2, <1>6 DEF Working, Request, Mine, Placing
  <1> QED
    BY <1>5, <1>7, <1>8, StepKeeps

(* A request that gives its intent up, or places it, and ends.             *)
LEMMA ClosingStep ==
    ASSUME IInv, NEW t \in Thread, thread[t] # None,
           thread[t].pc \in Placing \cup {"authorize"},
           NEW s \in Terminal, intents' = SetStatus(Mine(t), s), End(t),
           UNCHANGED <<agreed, order, price>>,
           active' \in Intent \cup {None}, hold' \in HoldType
    PROVE  IInv'
  <1> DEFINE i == Mine(t)
  <1>1. Types /\ i \in Intent /\ lock[i] = t /\ intents[i].status # Unused
    BY ActorFacts DEF Working, Unused
  <1>2. /\ intents' \in [Intent -> IntentType]
        /\ intents'[i].status = s
        /\ \A j \in Intent : intents'[j].total = intents[j].total
        /\ \A j \in Intent \ {i} : intents'[j] = intents[j]
    BY <1>1, SetStatusFacts DEF Status
  <1>3. /\ thread' \in [Thread -> RequestType \cup {None}]
        /\ lock' \in [Intent -> Thread \cup {None}]
        /\ thread'[t] = None
        /\ \A u \in Thread \ {t} : thread'[u] = thread[u]
        /\ \A j \in Intent : lock[j] # t => lock'[j] = lock[j]
    BY <1>1, EndFacts
  <1>4. Types'
    BY <1>1, <1>2, <1>3 DEF Types, HoldType
  <1>5. Shape(t)
    <2>1. \A j \in Intent : Moved(t, j) /\ OrderMoved(j)
      BY <1>1, <1>2 DEF Moved, OrderMoved
    <2> QED
      BY <1>3, <2>1 DEF Shape, FreshOf
  <1>6. Working(t)'
    BY <1>3 DEF Working
  <1> QED
    BY <1>4, <1>5, <1>6, StepKeeps

LEMMA DeclinedStep == ASSUME IInv, NEW t \in Thread, Declined(t) PROVE IInv'
  <1>1. /\ thread[t] # None /\ thread[t].pc = "authorize"
        /\ intents' = SetStatus(Mine(t), "FAILED") /\ End(t)
        /\ UNCHANGED <<active, record, backend, world, lost>>
    BY DEF Declined, At
  <1>2. active' \in Intent \cup {None} /\ hold' \in HoldType
    BY <1>1 DEF IInv, Types, HoldType, backend
  <1> QED
    BY <1>1, <1>2, ClosingStep DEF Terminal, backend, world

LEMMA TimedOutStep == ASSUME IInv, NEW t \in Thread, TimedOut(t) PROVE IInv'
  <1>1. /\ hold' = [hold EXCEPT ![Mine(t)] = "AUTHORIZED"] /\ End(t)
        /\ UNCHANGED <<stores, order, reserved, world, lost>>
    BY DEF TimedOut
  <1>2. /\ active' \in Intent \cup {None} /\ hold' \in HoldType
        /\ order' \in [Intent -> OrderType]
    BY <1>1 DEF IInv, Types, HoldType, stores
  <1> QED
    BY <1>1, <1>2, SameOrders, EndingStep DEF stores, world

LEMMA ThrowStep == ASSUME IInv, NEW t \in Thread, Throw(t) PROVE IInv'
  <1>1. End(t) /\ UNCHANGED <<stores, backend, world>>
    BY DEF Throw
  <1>2. /\ active' \in Intent \cup {None} /\ hold' \in HoldType
        /\ order' \in [Intent -> OrderType]
    BY <1>1 DEF IInv, Types, HoldType, stores, backend
  <1> QED
    BY <1>1, <1>2, SameOrders, EndingStep DEF stores, backend, world

LEMMA AskStep == ASSUME IInv, NEW t \in Thread, Ask(t) PROVE IInv'
  <1>1. CASE StartCreate(t)
    BY <1>1, UnlockedStep DEF StartCreate
  <1>2. CASE Browse(t)
    BY <1>2, UnlockedStep DEF Browse
  <1>3. ASSUME NEW i \in Intent, BeginAuthorization(t, i) PROVE IInv'
    BY <1>3, LockingStep DEF BeginAuthorization
  <1>4. ASSUME NEW i \in Intent, NEW amount \in Price, Confirm(t, i, amount) PROVE IInv'
    BY <1>4, ConfirmStep
  <1>5. ASSUME NEW i \in Intent, Decline(t, i) PROVE IInv'
    BY <1>5, DeclineStep
  <1>6. ASSUME NEW i \in Intent, StartPayment(t, i) PROVE IInv'
    BY <1>6, LockingStep DEF StartPayment, Usable
  <1>7. ASSUME NEW i \in Intent, StartPlacing(t, i) PROVE IInv'
    BY <1>7, LockingStep DEF StartPlacing, Usable
  <1> QED
    BY <1>1, <1>2, <1>3, <1>4, <1>5, <1>6, <1>7 DEF Ask

LEMMA CheckStep == ASSUME IInv, NEW t \in Thread, Check(t) PROVE IInv'
  <1>1. /\ thread[t] # None /\ thread[t].pc \in Placing
        /\ UNCHANGED <<intents, agreed, active, price>>
        /\ hold' \in HoldType /\ order' \in [Intent -> OrderType]
        /\ \A j \in Intent : OrderMoved(j)
    BY SameOrders DEF Check, At, Placing, stores, backend, world, IInv, Types, HoldType
  <1>2. "reserve" \in Placing \ {"order"}
    BY DEF Placing
  <1> QED
    BY <1>1, <1>2, GotoStep, AbortStep DEF Check

LEMMA ReserveStep == ASSUME IInv, NEW t \in Thread, Reserve(t) PROVE IInv'
  <1>1. /\ thread[t] # None /\ thread[t].pc \in Placing
        /\ UNCHANGED <<intents, agreed, active, price>>
        /\ hold' \in HoldType /\ order' \in [Intent -> OrderType]
        /\ \A j \in Intent : OrderMoved(j)
    BY SameOrders DEF Reserve, At, Placing, stores, world, IInv, Types, HoldType
  <1>2. "requote" \in Placing \ {"order"}
    BY DEF Placing
  <1> QED
    BY <1>1, <1>2, GotoStep, AbortStep DEF Reserve

LEMMA RequoteStep == ASSUME IInv, NEW t \in Thread, Requote(t) PROVE IInv'
  <1>1. /\ thread[t] # None /\ thread[t].pc \in Placing
        /\ UNCHANGED <<intents, agreed, active, price>>
        /\ hold' \in HoldType /\ order' \in [Intent -> OrderType]
        /\ \A j \in Intent : OrderMoved(j)
    BY SameOrders DEF Requote, At, Placing, stores, backend, world, IInv, Types, HoldType
  <1>2. Types /\ thread[t] \in RequestType
    BY <1>1, ActorFacts
  <1>3. CASE SamePrice(t)
    <2> DEFINE r == [thread[t] EXCEPT !.pc = "order", !.quote = price]
    <2>1. thread' = [thread EXCEPT ![t].pc = "order", ![t].quote = price] /\ UNCHANGED lock
      BY <1>3 DEF Requote
    <2>2. r \in RequestType
      BY <1>2 DEF RequestType, Types
    <2>3. /\ thread' \in [Thread -> RequestType \cup {None}]
          /\ thread'[t] = r /\ thread'[t] # None
          /\ \A u \in Thread \ {t} : thread'[u] = thread[u]
      BY <1>2, <2>1, <2>2, VoiceAssumption DEF Types
    <2>4. /\ thread'[t].pc = "order" /\ thread'[t].intent = Mine(t)
          /\ thread'[t].fresh = thread[t].fresh /\ thread'[t].quote = intents[Mine(t)].total
      BY <1>2, <1>3, <2>3 DEF RequestType, Mine, SamePrice
    <2>5. "order" \in Placing
      BY DEF Placing
    <2> QED
      BY <1>1, <2>1, <2>3, <2>4, <2>5, PlacingStep
  <1>4. CASE ~SamePrice(t)
    BY <1>1, <1>4, AbortStep DEF Requote
  <1> QED
    BY <1>3, <1>4

LEMMA ReleaseStep == ASSUME IInv, NEW t \in Thread, Release(t) PROVE IInv'
  <1>1. /\ thread[t] # None /\ thread[t].pc = "release" /\ thread[t].pc \in Placing
        /\ UNCHANGED <<intents, agreed, active, price>>
        /\ hold' \in HoldType /\ order' \in [Intent -> OrderType]
        /\ \A j \in Intent : OrderMoved(j)
    BY SameOrders DEF Release, At, Placing, stores, world, IInv, Types, HoldType
  <1>2. "void" \in Placing \ {"order"} /\ thread[t].to \in {"FAILED", "SUPERSEDED"}
    BY <1>1, ActorFacts DEF Placing, Working
  <1> QED
    BY <1>1, <1>2, ReturnsStep DEF Release

LEMMA VoidHoldType == ASSUME Types, NEW i \in Intent PROVE VoidHold(i) \in HoldType
  BY DEF VoidHold, Types, HoldType

(* A request that goes on to build the replacement keeps its own lock.     *)
LEMMA VoidStep == ASSUME IInv, NEW t \in Thread, Void(t) PROVE IInv'
  <1> DEFINE i == Mine(t)
             s == thread[t].session
  <1>1. /\ thread[t] # None /\ thread[t].pc = "void" /\ thread[t].pc \in Placing
        /\ hold' = VoidHold(i) /\ UNCHANGED <<order, reserved, world>>
    BY DEF Void, At, Placing
  <1>2. /\ Types /\ Working(t) /\ Building(t) /\ thread[t] \in RequestType
        /\ i \in Intent /\ lock[i] = t /\ intents[i].status = "PAYMENT_AUTHORIZED"
        /\ thread[t].to \in {"FAILED", "SUPERSEDED"} /\ s \in Intent \cup {None}
    BY <1>1, ActorFacts DEF Working, RequestType
  <1>3. hold' \in HoldType /\ order' \in [Intent -> OrderType]
    BY <1>1, <1>2, VoidHoldType DEF Types
  <1>4. CASE LoseCall(t) /\ End(t) /\ UNCHANGED stores
    BY <1>1, <1>2, <1>3, <1>4, SameOrders, EndingStep DEF stores, world, Types
  <1>5. CASE /\ intents' = SetStatus(i, thread[t].to) /\ active' = s
             /\ thread[t].to = "FAILED" /\ End(t)
    BY <1>1, <1>2, <1>3, <1>5, ClosingStep DEF world, Terminal
  <1>6. CASE /\ intents' = SetStatus(i, thread[t].to) /\ active' = s
             /\ thread' = [thread EXCEPT ![t].pc = "quote",
                             ![t].session = IF s = i THEN None ELSE s]
             /\ UNCHANGED lock
    <2> DEFINE r == [thread[t] EXCEPT !.pc = "quote", !.session = IF s = i THEN None ELSE s]
    <2>1. /\ intents' \in [Intent -> IntentType]
          /\ intents'[i].status = thread[t].to
          /\ \A j \in Intent : intents'[j].total = intents[j].total
          /\ \A j \in Intent \ {i} : intents'[j] = intents[j]
      BY <1>2, <1>6, SetStatusFacts DEF Status, Terminal
    <2>2. r \in RequestType
      BY <1>2 DEF RequestType
    <2>3. /\ thread' \in [Thread -> RequestType \cup {None}]
          /\ thread'[t] = r
          /\ \A u \in Thread \ {t} : thread'[u] = thread[u]
      BY <1>2, <1>6, <2>2 DEF Types
    <2>4. r.pc = "quote" /\ r.intent = i /\ r.fresh = thread[t].fresh
      BY <1>2 DEF RequestType, Mine
    <2>5. Types'
      BY <1>1, <1>2, <1>3, <1>6, <2>1, <2>3 DEF Types, HoldType, world
    <2>6. Shape(t)
      <3>1. \A j \in Intent : Moved(t, j) /\ OrderMoved(j)
        BY <1>1, <1>2, <2>1 DEF Moved, OrderMoved, world, Terminal, Unused
      <3>2. FreshOf(t)
        <4> SUFFICES ASSUME r.fresh # None PROVE intents'[r.fresh].status = Unused
          BY <1>1, <2>3, <2>4 DEF FreshOf
        <4>1. intents[r.fresh].status = Unused /\ r.fresh \in Intent
          BY <1>1, <1>2, <2>2, <2>4 DEF Building, RequestType
        <4> QED
          BY <1>2, <2>1, <4>1 DEF Unused
      <3> QED
        BY <1>6, <2>3, <3>1, <3>2 DEF Shape
    <2>7. Working(t)'
      BY <1>2, <1>6, <2>3, <2>4 DEF Working, Mine, Placing
    <2> QED
      BY <2>5, <2>6, <2>7, StepKeeps
  <1> QED
    BY <1>4, <1>5, <1>6 DEF Void

LEMMA CreateOrderStep == ASSUME IInv, NEW t \in Thread, CreateOrder(t) PROVE IInv'
  <1> DEFINE i == Mine(t)
             row == [status |-> "CONFIRMED", total |-> thread[t].quote]
  <1>1. /\ thread[t] # None /\ thread[t].pc = "order" /\ thread[t].pc \in Placing
        /\ UNCHANGED <<intents, agreed, active, price>>
        /\ Returns(t, "capture") /\ hold' \in HoldType
    BY DEF CreateOrder, At, Placing, stores, world, IInv, Types, HoldType
  <1>2. /\ Types /\ thread[t] \in RequestType /\ i \in Intent
        /\ intents[i].status = "PAYMENT_AUTHORIZED" /\ thread[t].quote = intents[i].total
    BY <1>1, ActorFacts DEF Working
  <1>3. order' = order \/ order' = [order EXCEPT ![i] = row]
    BY DEF CreateOrder
  <1>4. row \in OrderType
    BY <1>2 DEF RequestType, OrderType
  <1>5. order' \in [Intent -> OrderType]
    BY <1>2, <1>3, <1>4 DEF Types
  <1>6. \A j \in Intent : OrderMoved(j)
    BY <1>2, <1>3 DEF OrderMoved, Types
  <1>7. "capture" \in Placing \ {"order"} /\ "capture" \notin {"release", "void"}
    BY DEF Placing
  <1> QED
    BY <1>1, <1>5, <1>6, <1>7, ReturnsStep

LEMMA CapturedStep == ASSUME IInv, NEW t \in Thread, Captured(t) PROVE IInv'
  <1>1. /\ thread[t] # None /\ thread[t].pc \in Placing
        /\ UNCHANGED <<intents, agreed, active, price>>
        /\ hold' \in HoldType /\ order' \in [Intent -> OrderType]
        /\ \A j \in Intent : OrderMoved(j)
    BY SameOrders DEF Captured, At, Placing, stores, world, IInv, Types, HoldType
  <1>2. "record" \in Placing \ {"order"} /\ "record" \notin {"release", "void"}
    BY DEF Placing
  <1>3. Returns(t, "record")
    BY DEF Captured
  <1> QED
    BY <1>1, <1>2, <1>3, ReturnsStep

LEMMA NotCapturedStep == ASSUME IInv, NEW t \in Thread, NotCaptured(t) PROVE IInv'
  <1>1. /\ thread[t] # None /\ thread[t].pc \in Placing /\ Goto(t, "cancel")
        /\ UNCHANGED <<intents, agreed, active, price>>
        /\ hold' \in HoldType /\ order' \in [Intent -> OrderType]
        /\ \A j \in Intent : OrderMoved(j)
    BY SameOrders DEF NotCaptured, At, Placing, stores, backend, world, IInv, Types, HoldType
  <1>2. "cancel" \in Placing \ {"order"} /\ "cancel" \notin {"release", "void"}
    BY DEF Placing
  <1> QED
    BY <1>1, <1>2, GotoStep

LEMMA CancelFacts ==
    ASSUME Types, NEW i \in Intent, CancelAtOMS(i)
    PROVE  /\ hold' \in HoldType /\ order' \in [Intent -> OrderType]
           /\ \A j \in Intent : OrderMoved(j)
  <1>1. CASE order[i].status = "CONFIRMED"
    <2>1. order' = [order EXCEPT ![i].status = "CANCELLED"] /\ hold' = VoidHold(i)
      BY <1>1 DEF CancelAtOMS
    <2>2. order[i] # NoOrder
      BY <1>1 DEF NoOrder
    <2> QED
      BY <2>1, <2>2, VoidHoldType DEF Types, OrderType, OrderMoved
  <1>2. CASE order[i].status # "CONFIRMED"
    BY <1>2, SameOrders DEF CancelAtOMS, Types, HoldType
  <1> QED
    BY <1>1, <1>2

LEMMA CancelUnpaidStep == ASSUME IInv, NEW t \in Thread, CancelUnpaid(t) PROVE IInv'
  <1>1. /\ thread[t] # None /\ thread[t].pc \in Placing /\ CancelAtOMS(Mine(t))
        /\ UNCHANGED <<intents, agreed, active, price>>
    BY DEF CancelUnpaid, At, Placing, stores, world
  <1>2. Types /\ Mine(t) \in Intent /\ active \in Intent \cup {None}
    BY <1>1, ActorFacts DEF Types
  <1>3. /\ hold' \in HoldType /\ order' \in [Intent -> OrderType]
        /\ \A j \in Intent : OrderMoved(j)
    BY <1>1, <1>2, CancelFacts
  <1>4. CASE Abort(t, "void", "FAILED")
    BY <1>1, <1>3, <1>4, AbortStep
  <1>5. CASE End(t)
    BY <1>1, <1>2, <1>3, <1>5, EndingStep
  <1> QED
    BY <1>4, <1>5 DEF CancelUnpaid

LEMMA RecordPlacedStep == ASSUME IInv, NEW t \in Thread, RecordPlaced(t) PROVE IInv'
  <1>1. /\ thread[t] # None /\ thread[t].pc \in Placing
        /\ intents' = SetStatus(Mine(t), "ORDER_PLACED") /\ End(t)
        /\ active' \in Intent \cup {None} /\ hold' \in HoldType
        /\ UNCHANGED <<agreed, order, price>>
    BY DEF RecordPlaced, At, Placing, IInv, Types, HoldType, backend, world
  <1> QED
    BY <1>1, ClosingStep DEF Terminal

LEMMA RequestStep == ASSUME IInv, NEW t \in Thread, Step(t) PROVE IInv'
  BY QuoteStep, SupersedeStep, SaveIntentStep, TouchStep, AuthorizedStep, DeclinedStep,
     TimedOutStep, CheckStep, ReserveStep, RequoteStep, ReleaseStep, VoidStep,
     CreateOrderStep, CapturedStep, NotCapturedStep, CancelUnpaidStep, RecordPlacedStep,
     ThrowStep DEF Step

(* What happens outside of requests moves no intent and no request.        *)
LEMMA OutsideStep ==
    ASSUME IInv, UNCHANGED <<active, lock, thread, agreed>>, price' \in Price,
           intents' \in [Intent -> IntentType],
           \A j \in Intent : /\ intents'[j].status = intents[j].status
                             /\ intents'[j].total = intents[j].total,
           hold' \in HoldType, order' \in [Intent -> OrderType],
           \A j \in Intent : OrderMoved(j)
    PROVE  IInv'
  <1>1. Types'
    BY DEF IInv, Types, HoldType
  <1>2. Shape(None)
    BY VoiceAssumption DEF Shape, Moved, FreshOf
  <1> QED
    BY <1>1, <1>2, WorldKeeps

LEMMA EnvironmentStep == ASSUME IInv, Environment PROVE IInv'
  <1>1. Types
    BY DEF IInv
  <1>2. CASE ChangePrice
    <2>1. /\ UNCHANGED <<intents, active, lock, thread, agreed, hold, order>>
          /\ price' \in Price
      BY <1>2 DEF ChangePrice, stores, backend
    <2> QED
      BY <1>1, <2>1, SameOrders, OutsideStep DEF Types, HoldType
  <1>3. ASSUME NEW i \in Intent, CancelOrder(i) PROVE IInv'
    <2>1. /\ CancelAtOMS(i) /\ UNCHANGED <<intents, active, lock, thread, agreed, price>>
      BY <1>3 DEF CancelOrder, stores, world
    <2> QED
      BY <1>1, <2>1, CancelFacts, OutsideStep DEF Types
  <1>4. ASSUME NEW i \in Intent, StartPacking(i) PROVE IInv'
    <2>1. /\ order[i].status = "CONFIRMED"
          /\ order' = [order EXCEPT ![i].status = "PREPARING"]
          /\ UNCHANGED <<intents, active, lock, thread, agreed, price, hold>>
      BY <1>4 DEF StartPacking, stores, world
    <2>2. order' \in [Intent -> OrderType] /\ \A j \in Intent : OrderMoved(j)
      BY <1>1, <2>1 DEF Types, OrderType, OrderMoved, NoOrder
    <2> QED
      BY <1>1, <2>1, <2>2, OutsideStep DEF Types, HoldType
  <1>5. ASSUME NEW i \in Intent, Expire(i) PROVE IInv'
    <2>1. /\ intents' = [intents EXCEPT ![i].expired = TRUE]
          /\ UNCHANGED <<active, lock, thread, agreed, price, hold, order>>
      BY <1>5 DEF Expire, backend, world
    <2>2. /\ intents' \in [Intent -> IntentType]
          /\ \A j \in Intent : /\ intents'[j].status = intents[j].status
                               /\ intents'[j].total = intents[j].total
      BY <1>1, <2>1 DEF Types, IntentType
    <2> QED
      BY <1>1, <2>1, <2>2, SameOrders, OutsideStep DEF Types, HoldType
  <1> QED
    BY <1>2, <1>3, <1>4, <1>5 DEF Environment

---------------------------------------------------------------------------
(* The invariant and what follows from it. *)

LEMMA InitInv == Init => IInv
  <1> SUFFICES ASSUME Init PROVE IInv
    OBVIOUS
  <1>1. Types
    BY DEF Init, Types, IntentType, OrderType, NoOrder, Status
  <1>2. Agreement
    BY DEF Init, Agreement, Unused
  <1>3. \A t \in Thread : Working(t) /\ Building(t)
    BY DEF Init, Working, Building
  <1> QED
    BY <1>1, <1>2, <1>3 DEF IInv

LEMMA NextInv == IInv /\ [Next]_vars => IInv'
  <1> SUFFICES ASSUME IInv, [Next]_vars PROVE IInv'
    OBVIOUS
  <1>1. CASE Next
    BY <1>1, AskStep, RequestStep, EnvironmentStep DEF Next
  <1>2. CASE UNCHANGED vars
    BY <1>2 DEF vars, IInv, Types, Agreement, Working, Building, Mine
  <1> QED
    BY <1>1, <1>2

(* finalizeOrder creates an order for exactly the total the customer said  *)
(* yes to, for any number of intents, requests and prices.                 *)
THEOREM OrdersForTheAgreedAmount == Spec => []ChargedAsConfirmed
  <1>1. IInv => ChargedAsConfirmed
    BY DEF IInv, Agreement, ChargedAsConfirmed
  <1> QED
    BY <1>1, InitInv, NextInv, PTL DEF Spec

LEMMA HoldsMoveOnAYes ==
    ASSUME IInv, [Next]_vars
    PROVE  \A i \in Intent : hold'[i] # hold[i] =>
             /\ hold'[i] = "AUTHORIZED" => intents[i].status = "CONFIRMED"
             /\ hold'[i] = "CAPTURED" => intents[i].status = "PAYMENT_AUTHORIZED"
  <1> SUFFICES ASSUME NEW i \in Intent, hold'[i] # hold[i]
               PROVE  /\ hold'[i] = "AUTHORIZED" => intents[i].status = "CONFIRMED"
                      /\ hold'[i] = "CAPTURED" => intents[i].status = "PAYMENT_AUTHORIZED"
    OBVIOUS
  <1>1. Types
    BY DEF IInv
  <1>2. ASSUME NEW j \in Intent, hold' = VoidHold(j) PROVE hold'[i] = "VOIDED"
    BY <1>1, <1>2 DEF VoidHold, Types
  <1>3. ASSUME NEW j \in Intent, CancelAtOMS(j) PROVE hold'[i] = "VOIDED"
    BY <1>2, <1>3 DEF CancelAtOMS
  <1>4. ASSUME NEW t \in Thread, Authorized(t) \/ TimedOut(t)
        PROVE  intents[i].status = "CONFIRMED" /\ hold'[i] = "AUTHORIZED"
    <2>1. /\ thread[t] # None /\ thread[t].pc = "authorize"
          /\ hold' = [hold EXCEPT ![Mine(t)] = "AUTHORIZED"]
      BY <1>4 DEF Authorized, TimedOut, At
    <2>2. Mine(t) \in Intent /\ intents[Mine(t)].status = "CONFIRMED"
      BY <2>1, ActorFacts DEF Working
    <2> QED
      BY <1>1, <2>1, <2>2 DEF Types
  <1>5. ASSUME NEW t \in Thread, Captured(t)
        PROVE  intents[i].status = "PAYMENT_AUTHORIZED" /\ hold'[i] = "CAPTURED"
    <2>1. /\ thread[t] # None /\ thread[t].pc = "capture" /\ thread[t].pc \in Placing
          /\ hold' = [hold EXCEPT ![Mine(t)] = "CAPTURED"]
      BY <1>5 DEF Captured, At, Placing
    <2>2. Mine(t) \in Intent /\ intents[Mine(t)].status = "PAYMENT_AUTHORIZED"
      BY <2>1, ActorFacts DEF Working
    <2> QED
      BY <1>1, <2>1, <2>2 DEF Types
  <1>6. ASSUME NEW t \in Thread, Void(t) \/ CancelUnpaid(t) PROVE hold'[i] = "VOIDED"
    <2>1. thread[t] # None /\ thread[t].pc \in Placing
      BY <1>6 DEF Void, CancelUnpaid, At, Placing
    <2>2. Mine(t) \in Intent
      BY <2>1, ActorFacts
    <2> QED
      BY <1>2, <1>3, <1>6, <2>2 DEF Void, CancelUnpaid
  <1>7. ASSUME NEW t \in Thread, Ask(t) PROVE hold' = hold
    BY <1>7 DEF Ask, StartCreate, Browse, BeginAuthorization, Confirm, Decline,
                StartPayment, StartPlacing, backend
  <1>8. ASSUME NEW t \in Thread, Step(t)
        PROVE  \/ hold' = hold
               \/ Authorized(t) \/ TimedOut(t) \/ Captured(t) \/ Void(t) \/ CancelUnpaid(t)
    BY <1>8 DEF Step, Quote, Supersede, SaveIntent, Touch, Declined, Check, Reserve,
                Requote, Release, CreateOrder, NotCaptured, RecordPlaced, Throw, backend
  <1>9. ASSUME Environment PROVE hold' = hold \/ \E j \in Intent : CancelAtOMS(j)
    BY <1>9 DEF Environment, ChangePrice, CancelOrder, StartPacking, Expire, backend
  <1>10. CASE UNCHANGED vars
    BY <1>10 DEF vars
  <1>11. CASE Next
    BY <1>3, <1>4, <1>5, <1>6, <1>7, <1>8, <1>9, <1>11 DEF Next
  <1> QED
    BY <1>10, <1>11

(* authorizePayment makes a hold only on an intent the customer confirmed  *)
(* and finalizeOrder captures it only while the payment stands authorised, *)
(* however requests, baskets, declines and expiries interleave.            *)
THEOREM MoneyOnlyOnAYes == Spec => OnlyConfirmedCharged
  <1>1. IInv /\ [Next]_vars =>
          [\A i \in Intent : hold'[i] # hold[i] =>
             /\ hold'[i] = "AUTHORIZED" => intents[i].status = "CONFIRMED"
             /\ hold'[i] = "CAPTURED" => intents[i].status = "PAYMENT_AUTHORIZED"]_vars
    BY HoldsMoveOnAYes
  <1> QED
    BY <1>1, InitInv, NextInv, PTL DEF Spec, OnlyConfirmedCharged

---------------------------------------------------------------------------
(* The books of an intent: what its record, the hold, the order and the    *)
(* reserved stock say of each other, at every step of placing it.          *)

(* The step a placement of the intent is at, if its lock is held for one.  *)
Stage(i) == IF lock[i] = None THEN "rest" ELSE thread[lock[i]].pc

(* A lock is held by a request on that intent.                             *)
Held(i) == lock[i] # None => thread[lock[i]] # None /\ Mine(lock[i]) = i

(* Stock is only given back after it was reserved.                         *)
Stocked(i) == Stage(i) \in {"requote", "release", "order"} => reserved[i] > 0

AtRest(i) ==
    /\ reserved[i] = 0
    /\ intents[i].status \in {Unused, "AWAITING_CONFIRMATION", "CANCELLED"} =>
         record[i] = "none" /\ hold[i] = "none" /\ order[i] = NoOrder
    /\ intents[i].status = "CONFIRMED" =>
         record[i] = "none" /\ hold[i] \in {"none", "AUTHORIZED"} /\ order[i] = NoOrder
    /\ intents[i].status = "PAYMENT_AUTHORIZED" =>
         record[i] = "AUTHORIZED" /\ hold[i] = "AUTHORIZED" /\ order[i] = NoOrder
    /\ intents[i].status = "ORDER_PLACED" =>
         hold[i] = "CAPTURED" /\ order[i] # NoOrder
    /\ intents[i].status \in {"FAILED", "SUPERSEDED"} =>
         /\ order[i].status # "CONFIRMED" /\ hold[i] # "CAPTURED"
         /\ record[i] = "none" \/ hold[i] = "VOIDED"

BeingPlaced(i, pc) ==
    /\ record[i] = "AUTHORIZED"
    /\ reserved[i] = IF pc \in {"requote", "release", "order"} THEN 1 ELSE 0
    /\ pc \in {"check", "reserve", "requote", "release", "order"} =>
         hold[i] = "AUTHORIZED" /\ order[i] = NoOrder
    /\ pc \in {"capture", "cancel"} =>
         hold[i] \in {"AUTHORIZED", "VOIDED"} /\ order[i] # NoOrder
    /\ pc = "void" =>
         hold[i] \in {"AUTHORIZED", "VOIDED"} /\ order[i].status # "CONFIRMED"
    /\ pc = "record" => hold[i] = "CAPTURED" /\ order[i] # NoOrder

(* An intent that lost a call is left as the call left it.                 *)
Books(i) ==
    i \notin lost =>
      IF Stage(i) \in Placing THEN BeingPlaced(i, Stage(i)) ELSE AtRest(i)

Ledger ==
    /\ record \in [Intent -> {"none", "AUTHORIZED", "VOIDED", "CAPTURED"}]
    /\ reserved \in [Intent -> Nat]
    /\ lost \subseteq Intent /\ changes \in 0 .. MaxPriceChanges
    /\ \A i \in Intent : Held(i) /\ Stocked(i) /\ Books(i)

(* Whose books a step may change. *)

RecordType == [Intent -> {"none", "AUTHORIZED", "VOIDED", "CAPTURED"}]
Counted ==
    /\ record \in RecordType /\ reserved \in [Intent -> Nat]
    /\ lost \subseteq Intent /\ changes \in 0 .. MaxPriceChanges
Fine(i) == Held(i) /\ Stocked(i) /\ Books(i)

LEMMA LedgerParts == Ledger <=> Counted /\ \A i \in Intent : Fine(i)
  BY DEF Ledger, Counted, Fine, RecordType

(* What happens to an intent that others than the acting request see.      *)
Kept(j) ==
    /\ UNCHANGED <<record[j], hold[j], order[j], reserved[j]>>
    /\ \/ intents'[j].status = intents[j].status
       \/ /\ intents[j].status = Unused
          /\ intents'[j].status = "AWAITING_CONFIRMATION"
       \/ /\ intents[j].status = "AWAITING_CONFIRMATION"
          /\ intents'[j].status \in {"CONFIRMED", "CANCELLED"}
       \/ intents[j].status \in Unconfirmed /\ intents'[j].status = "SUPERSEDED"

LEMMA RestKept ==
    ASSUME NEW j \in Intent, AtRest(j), Kept(j) PROVE AtRest(j)'
  <1>1. /\ record'[j] = record[j] /\ hold'[j] = hold[j]
        /\ order'[j] = order[j] /\ reserved'[j] = reserved[j]
    BY DEF Kept
  <1>2. CASE intents'[j].status = intents[j].status
    BY <1>1, <1>2 DEF AtRest, NoOrder
  <1>3. CASE intents[j].status = Unused /\ intents'[j].status = "AWAITING_CONFIRMATION"
    BY <1>1, <1>3 DEF AtRest, NoOrder, Unused
  <1>4. CASE /\ intents[j].status = "AWAITING_CONFIRMATION"
             /\ intents'[j].status \in {"CONFIRMED", "CANCELLED"}
    BY <1>1, <1>4 DEF AtRest, NoOrder, Unused
  <1>5. CASE intents[j].status \in Unconfirmed /\ intents'[j].status = "SUPERSEDED"
    <2>1. /\ record[j] = "none" /\ hold[j] \in {"none", "AUTHORIZED"}
          /\ order[j].status = "none" /\ reserved[j] = 0
      BY <1>5 DEF AtRest, NoOrder, Unconfirmed
    <2> QED
      BY <1>1, <1>5, <2>1 DEF AtRest, Unused
  <1> QED
    BY <1>2, <1>3, <1>4, <1>5 DEF Kept

LEMMA PlacedKept ==
    ASSUME NEW j \in Intent, NEW pc, BeingPlaced(j, pc), Kept(j)
    PROVE  BeingPlaced(j, pc)'
  BY DEF BeingPlaced, Kept, NoOrder

LEMMA OthersFine ==
    ASSUME IInv, NEW t \in Thread \cup {None}, NEW j \in Intent, Fine(j),
           lock[j] # t \/ t = None, lock'[j] = lock[j],
           \A u \in Thread \ {t} : thread'[u] = thread[u],
           Kept(j), lost \subseteq lost'
    PROVE  Fine(j)'
  <1>1. lock[j] # None => lock[j] \in Thread \ {t}
    BY DEF IInv, Types
  <1>2. Stage(j)' = Stage(j) /\ Held(j)'
    BY <1>1 DEF Stage, Fine, Held, Mine
  <1>3. Stocked(j)'
    BY <1>2 DEF Fine, Stocked, Kept
  <1>4. ASSUME j \notin lost' PROVE
          IF Stage(j)' \in Placing THEN BeingPlaced(j, Stage(j))' ELSE AtRest(j)'
    <2>1. IF Stage(j) \in Placing THEN BeingPlaced(j, Stage(j)) ELSE AtRest(j)
      BY <1>4 DEF Fine, Books
    <2> QED
      BY <1>2, <2>1, RestKept, PlacedKept DEF BeingPlaced
  <1> QED
    BY <1>2, <1>3, <1>4 DEF Fine, Books, Placing, BeingPlaced

(* It is enough to look at the intent a step works on. *)
LEMMA LedgerStep ==
    ASSUME IInv, Ledger, Counted', NEW t \in Thread \cup {None},
           \A u \in Thread \ {t} : thread'[u] = thread[u],
           lost \subseteq lost',
           \A j \in Intent : \/ Fine(j)'
                             \/ /\ lock[j] # t \/ t = None
                                /\ lock'[j] = lock[j] /\ Kept(j)
    PROVE  Ledger'
  <1>1. \A j \in Intent : Fine(j)'
    BY LedgerParts, OthersFine
  <1>2. Counted' /\ \A j \in Intent : Fine(j)'
    BY <1>1
  <1> QED
    BY <1>2 DEF Ledger, Counted, Fine, RecordType, Held, Stocked, Books

LEMMA ActorBooks ==
    ASSUME IInv, Ledger, NEW t \in Thread, thread[t] # None, Mine(t) # None
    PROVE  /\ Mine(t) \in Intent /\ lock[Mine(t)] = t
           /\ Stage(Mine(t)) = thread[t].pc /\ Fine(Mine(t))
           /\ \A j \in Intent \ {Mine(t)} : lock[j] # t
           /\ Mine(t) \notin lost =>
                IF thread[t].pc \in Placing
                THEN BeingPlaced(Mine(t), thread[t].pc) ELSE AtRest(Mine(t))
  <1>1. Mine(t) \in Intent /\ lock[Mine(t)] = t
    BY ActorFacts DEF RequestType, Mine, Working
  <1>2. Stage(Mine(t)) = thread[t].pc
    BY <1>1, VoiceAssumption DEF Stage
  <1>3. \A j \in Intent : Fine(j)
    BY LedgerParts
  <1>4. \A j \in Intent \ {Mine(t)} : lock[j] # t
    BY <1>3, VoiceAssumption DEF Fine, Held
  <1> QED
    BY <1>1, <1>2, <1>3, <1>4 DEF Fine, Books

LEMMA NoLocks ==
    ASSUME IInv, Ledger, NEW t \in Thread, thread[t] = None \/ Mine(t) = None
    PROVE  \A j \in Intent : lock[j] # t
  <1>1. \A j \in Intent : Held(j)
    BY LedgerParts DEF Fine
  <1> QED
    BY <1>1, VoiceAssumption DEF Held

LEMMA EndsLocks ==
    ASSUME IInv, NEW t \in Thread, End(t)
    PROVE  /\ thread'[t] = None
           /\ \A u \in Thread \ {t} : thread'[u] = thread[u]
           /\ \A j \in Intent : lock'[j] = IF lock[j] = t THEN None ELSE lock[j]
  BY DEF End, IInv, Types

(* A request that ends: its intent is at rest again, or has lost a call.   *)
LEMMA EndLedger ==
    ASSUME IInv, Ledger, Counted', NEW t \in Thread, thread[t] # None, End(t),
           lost \subseteq lost', NEW i \in Intent \cup {None}, i = Mine(t),
           \A j \in Intent \ {i} : Kept(j),
           i # None => i \in lost' \/ AtRest(i)'
    PROVE  Ledger'
  <1>1. /\ \A u \in Thread \ {t} : thread'[u] = thread[u]
        /\ \A j \in Intent : lock'[j] = IF lock[j] = t THEN None ELSE lock[j]
    BY EndsLocks
  <1>2. \A j \in Intent \ {i} : lock[j] # t
    <2>1. CASE i = None
      BY <2>1, NoLocks
    <2>2. CASE i # None
      BY <2>2, ActorBooks
    <2> QED
      BY <2>1, <2>2
  <1>3. ASSUME i # None PROVE Fine(i)'
    <2>1. i \in Intent /\ lock[i] = t
      BY <1>3, ActorBooks
    <2>2. lock'[i] = None
      BY <1>1, <2>1
    <2>3. Stage(i)' = "rest"
      BY <2>2 DEF Stage
    <2>4. Held(i)' /\ Stocked(i)'
      BY <2>2, <2>3 DEF Held, Stocked
    <2>5. Books(i)'
      BY <1>3, <2>3 DEF Books, Placing
    <2> QED
      BY <2>4, <2>5 DEF Fine
  <1>4. \A j \in Intent : \/ Fine(j)'
                          \/ lock[j] # t /\ lock'[j] = lock[j] /\ Kept(j)
    BY <1>1, <1>2, <1>3, VoiceAssumption
  <1> QED
    BY <1>1, <1>4, LedgerStep

(* A request that goes on: its intent's books are right at the next step.  *)
LEMMA GoLedger ==
    ASSUME IInv, Ledger, Counted', NEW t \in Thread, thread[t] # None,
           NEW i \in Intent \cup {None}, i = Mine(t),
           UNCHANGED lock, thread'[t] # None, thread'[t].intent = i,
           NEW pc, pc = thread'[t].pc,
           \A u \in Thread \ {t} : thread'[u] = thread[u],
           lost \subseteq lost', \A j \in Intent \ {i} : Kept(j),
           i # None =>
             /\ pc \in {"requote", "release", "order"} => reserved'[i] > 0
             /\ i \notin lost' =>
                  IF pc \in Placing THEN BeingPlaced(i, pc)' ELSE AtRest(i)'
    PROVE  Ledger'
  <1>1. \A j \in Intent \ {i} : lock[j] # t
    <2>1. CASE i = None
      BY <2>1, NoLocks
    <2>2. CASE i # None
      BY <2>2, ActorBooks
    <2> QED
      BY <2>1, <2>2
  <1>2. ASSUME i # None PROVE Fine(i)'
    <2>1. i \in Intent /\ lock'[i] = t
      BY <1>2, ActorBooks
    <2>2. Stage(i)' = pc
      BY <2>1, VoiceAssumption DEF Stage
    <2>3. Held(i)' /\ Stocked(i)'
      BY <1>2, <2>1, <2>2 DEF Held, Stocked, Mine
    <2>4. Books(i)'
      BY <1>2, <2>2 DEF Books, BeingPlaced
    <2> QED
      BY <2>3, <2>4 DEF Fine
  <1>3. \A j \in Intent : \/ Fine(j)'
                          \/ lock[j] # t /\ lock'[j] = lock[j] /\ Kept(j)
    BY <1>1, <1>2, VoiceAssumption
  <1> QED
    BY <1>3, LedgerStep

(* A request that takes the lock of an intent at rest.                     *)
LEMMA LockLedger ==
    ASSUME IInv, Ledger, Counted', NEW t \in Thread, NEW i \in Intent,
           NEW pc \in {"touch", "authorize", "check"}, BeginLocked(t, pc, i),
           pc = "check" => intents'[i].status = "PAYMENT_AUTHORIZED",
           \A j \in Intent : Kept(j), UNCHANGED lost
    PROVE  Ledger'
  <1>1. /\ thread[t] = None /\ thread'[t] = Request(pc, i) /\ thread'[t] # None
        /\ \A u \in Thread \ {t} : thread'[u] = thread[u]
        /\ lock[i] = None /\ lock'[i] = t
        /\ \A j \in Intent \ {i} : lock'[j] = lock[j]
    BY BeginLockedFacts DEF IInv, Pc, Placing
  <1>2. Stage(i)' = pc /\ Held(i)' /\ Stocked(i)'
    BY <1>1, VoiceAssumption DEF Stage, Held, Stocked, Request, Mine
  <1>3. i \notin lost => AtRest(i)'
    <2>1. Stage(i) = "rest" /\ Fine(i)
      BY <1>1, LedgerParts DEF Stage
    <2> QED
      BY <2>1, RestKept DEF Fine, Books, Placing
  <1>4. AtRest(i)' /\ pc = "check" => BeingPlaced(i, pc)'
    BY DEF AtRest, BeingPlaced, NoOrder
  <1>5. Books(i)'
    BY <1>2, <1>3, <1>4 DEF Books, Placing, BeingPlaced
  <1>6. \A j \in Intent : \/ Fine(j)'
                          \/ lock[j] # t /\ lock'[j] = lock[j] /\ Kept(j)
    BY <1>1, <1>2, <1>5, NoLocks DEF Fine
  <1> QED
    BY <1>1, <1>6, LedgerStep

(* A request that is not placing an order and stays so, or ends.           *)
LEMMA RestLedger ==
    ASSUME IInv, Ledger, Counted', NEW t \in Thread, thread[t] # None,
           thread[t].pc \notin Placing, \A j \in Intent : Kept(j), UNCHANGED lost,
           \/ End(t)
           \/ /\ UNCHANGED lock /\ thread'[t] # None
              /\ thread'[t].intent = Mine(t) /\ thread'[t].pc \notin Placing
              /\ \A u \in Thread \ {t} : thread'[u] = thread[u]
    PROVE  Ledger'
  <1>1. PICK i \in Intent \cup {None} : i = Mine(t)
    BY ActorFacts DEF RequestType, Mine
  <1>2. i # None => i \in lost' \/ AtRest(i)'
    <2>1. i # None => i \in Intent /\ (i \notin lost => AtRest(i))
      BY <1>1, ActorBooks
    <2> QED
      BY <2>1, RestKept
  <1>3. CASE End(t)
    BY <1>1, <1>2, <1>3, EndLedger
  <1>4. CASE /\ UNCHANGED lock /\ thread'[t] # None
             /\ thread'[t].intent = Mine(t) /\ thread'[t].pc \notin Placing
             /\ \A u \in Thread \ {t} : thread'[u] = thread[u]
    BY <1>1, <1>2, <1>4, GoLedger DEF Placing
  <1> QED
    BY <1>3, <1>4

(* A placing request that takes its next step. *)
LEMMA PlacerFacts ==
    ASSUME IInv, Ledger, NEW t \in Thread, thread[t] # None, thread[t].pc \in Placing
    PROVE  /\ Mine(t) \in Intent /\ Mine(t) # None
           /\ intents[Mine(t)].status = "PAYMENT_AUTHORIZED"
           /\ Mine(t) \notin lost => BeingPlaced(Mine(t), thread[t].pc)
           /\ thread[t].pc \in {"requote", "release", "order"} => reserved[Mine(t)] > 0
           /\ thread[t] \in RequestType /\ Types /\ Counted
  <1>1. Mine(t) # None /\ thread[t] \in RequestType
    BY ActorFacts DEF Working
  <1>2. intents[Mine(t)].status = "PAYMENT_AUTHORIZED"
    BY ActorFacts DEF Working
  <1> QED
    BY <1>1, <1>2, ActorBooks, LedgerParts DEF Fine, Stocked, IInv

LEMMA NextLedger ==
    ASSUME IInv, Ledger, Counted', NEW t \in Thread, thread[t] # None,
           thread[t].pc \in Placing, NEW i \in Intent, i = Mine(t), NEW pc \in Placing,
           Goto(t, pc) \/ \E to \in {"FAILED", "SUPERSEDED"} : Abort(t, pc, to),
           lost \subseteq lost', \A j \in Intent \ {i} : Kept(j),
           pc \in {"requote", "release", "order"} => reserved'[i] > 0,
           i \notin lost' => BeingPlaced(i, pc)'
    PROVE  Ledger'
  <1>1. Types /\ thread[t] \in RequestType /\ pc \in Pc /\ i # None
    BY PlacerFacts DEF Pc
  <1>2. /\ lock' = lock /\ thread'[t] # None
        /\ thread'[t].pc = pc /\ thread'[t].intent = i
        /\ \A u \in Thread \ {t} : thread'[u] = thread[u]
    <2>1. CASE Goto(t, pc)
      <3>1. /\ lock' = lock /\ thread'[t] = [thread[t] EXCEPT !.pc = pc]
            /\ thread'[t] # None /\ \A u \in Thread \ {t} : thread'[u] = thread[u]
        BY <1>1, <2>1, GotoFacts
      <3> QED
        BY <1>1, <3>1 DEF RequestType, Mine
    <2>2. ASSUME NEW to \in {"FAILED", "SUPERSEDED"}, Abort(t, pc, to)
          PROVE  /\ lock' = lock /\ thread'[t] # None
                 /\ thread'[t].pc = pc /\ thread'[t].intent = i
                 /\ \A u \in Thread \ {t} : thread'[u] = thread[u]
      <3>1. [thread[t] EXCEPT !.pc = pc, !.to = to] \in RequestType
        BY <1>1 DEF RequestType, Types, Pc, Placing
      <3>2. /\ lock' = lock /\ thread'[t] = [thread[t] EXCEPT !.pc = pc, !.to = to]
            /\ thread'[t] # None /\ \A u \in Thread \ {t} : thread'[u] = thread[u]
        BY <1>1, <2>2, <3>1, VoiceAssumption DEF Abort, Types
      <3> QED
        BY <1>1, <3>2 DEF RequestType, Mine
    <2> QED
      BY <2>1, <2>2
  <1> QED
    BY <1>2, GoLedger

(* A call that got lost: the request ends and the intent is exempt.        *)
LEMMA LostLedger ==
    ASSUME IInv, Ledger, NEW t \in Thread, thread[t] # None,
           thread[t].pc \in Placing, LoseCall(t), End(t), UNCHANGED changes,
           record' \in RecordType, reserved' \in [Intent -> Nat],
           \A j \in Intent \ {Mine(t)} : Kept(j)
    PROVE  Ledger'
  <1>1. Mine(t) \in Intent /\ Counted
    BY PlacerFacts
  <1>2. PICK i \in Intent : i = Mine(t)
    BY <1>1
  <1>3. lost' = lost \cup {i}
    BY <1>2 DEF LoseCall
  <1>4. Counted'
    BY <1>1, <1>3 DEF Counted, RecordType
  <1> QED
    BY <1>2, <1>3, <1>4, EndLedger

LEMMA SameBooks ==
    ASSUME UNCHANGED <<intents, record, hold, order, reserved>>
    PROVE  \A j \in Intent : Kept(j)
  BY DEF Kept

LEMMA LedgerCounted == ASSUME Ledger PROVE Counted
  BY LedgerParts

LEMMA ThrowLedger == ASSUME IInv, Ledger, NEW t \in Thread, Throw(t) PROVE Ledger'
  <1>1. /\ thread[t] # None /\ thread[t].pc \in Placing /\ LoseCall(t) /\ End(t)
        /\ UNCHANGED <<intents, record, hold, order, reserved, changes>>
    BY DEF Throw, Placing, stores, backend, world
  <1>2. record' \in RecordType /\ reserved' \in [Intent -> Nat]
    BY <1>1, LedgerCounted DEF Counted, RecordType
  <1> QED
    BY <1>1, <1>2, SameBooks, LostLedger

LEMMA CheckLedger == ASSUME IInv, Ledger, NEW t \in Thread, Check(t) PROVE Ledger'
  <1>1. /\ thread[t] # None /\ thread[t].pc = "check" /\ thread[t].pc \in Placing
        /\ UNCHANGED <<intents, record, hold, order, reserved, lost, changes>>
        /\ \/ Goto(t, "reserve")
           \/ Abort(t, "void", "FAILED")
    BY DEF Check, At, Placing, stores, backend, world
  <1>2. PICK i \in Intent : i = Mine(t)
    BY <1>1, PlacerFacts
  <1>3. Counted'
    BY <1>1, LedgerCounted DEF Counted, RecordType
  <1>4. i \notin lost => BeingPlaced(i, "check")
    BY <1>1, <1>2, PlacerFacts
  <1>5. i \notin lost' => BeingPlaced(i, "reserve")' /\ BeingPlaced(i, "void")'
    BY <1>1, <1>4 DEF BeingPlaced, NoOrder
  <1> QED
    BY <1>1, <1>2, <1>3, <1>5, SameBooks, NextLedger DEF Placing

LEMMA ReserveLedger == ASSUME IInv, Ledger, NEW t \in Thread, Reserve(t) PROVE Ledger'
  <1>1. /\ thread[t] # None /\ thread[t].pc = "reserve" /\ thread[t].pc \in Placing
        /\ UNCHANGED <<intents, record, hold, order, changes>>
    BY DEF Reserve, At, Placing, stores, backend, world
  <1>2. PICK i \in Intent : i = Mine(t)
    BY <1>1, PlacerFacts
  <1> DEFINE more == [reserved EXCEPT ![i] = @ + 1]
  <1>3. Counted /\ more \in [Intent -> Nat] /\ more[i] > 0
    BY LedgerCounted DEF Counted
  <1>4. i \notin lost => BeingPlaced(i, "reserve")
    BY <1>1, <1>2, PlacerFacts
  <1>5. \A j \in Intent \ {i} : (reserved' = reserved \/ reserved' = more) => Kept(j)
    BY <1>1, <1>3 DEF Kept, Counted
  <1>6. CASE reserved' = more /\ Goto(t, "requote") /\ UNCHANGED lost
    <2>1. i \notin lost' => BeingPlaced(i, "requote")'
      BY <1>1, <1>3, <1>4, <1>6 DEF BeingPlaced, Counted, NoOrder
    <2>2. Counted'
      BY <1>1, <1>3, <1>6 DEF Counted, RecordType
    <2> QED
      BY <1>1, <1>2, <1>3, <1>5, <1>6, <2>1, <2>2, NextLedger DEF Placing
  <1>7. CASE Abort(t, "void", "FAILED") /\ UNCHANGED <<reserved, lost>>
    <2>1. i \notin lost' => BeingPlaced(i, "void")'
      BY <1>1, <1>4, <1>7 DEF BeingPlaced, NoOrder
    <2>2. Counted'
      BY <1>1, <1>3, <1>7 DEF Counted, RecordType
    <2> QED
      BY <1>1, <1>2, <1>5, <1>7, <2>1, <2>2, NextLedger DEF Placing
  <1>8. CASE reserved' = more /\ Abort(t, "void", "FAILED") /\ LoseCall(t)
    <2>1. lost' = lost \cup {i}
      BY <1>2, <1>8 DEF LoseCall
    <2>2. Counted'
      BY <1>1, <1>3, <1>8, <2>1 DEF Counted, RecordType
    <2> QED
      BY <1>1, <1>2, <1>5, <1>8, <2>1, <2>2, NextLedger DEF Placing
  <1> QED
    BY <1>2, <1>6, <1>7, <1>8 DEF Reserve

LEMMA RequoteLedger == ASSUME IInv, Ledger, NEW t \in Thread, Requote(t) PROVE Ledger'
  <1>1. /\ thread[t] # None /\ thread[t].pc = "requote" /\ thread[t].pc \in Placing
        /\ UNCHANGED <<intents, record, hold, order, reserved, lost, changes>>
    BY DEF Requote, At, Placing, stores, backend, world
  <1>2. PICK i \in Intent : i = Mine(t)
    BY <1>1, PlacerFacts
  <1>3. Counted' /\ Types /\ thread[t] \in RequestType
    BY <1>1, PlacerFacts DEF Counted, RecordType
  <1>4. /\ i \notin lost => BeingPlaced(i, "requote")
        /\ reserved[i] > 0 /\ i # None
    BY <1>1, <1>2, PlacerFacts
  <1>5. i \notin lost' => BeingPlaced(i, "order")' /\ BeingPlaced(i, "release")'
    BY <1>1, <1>4 DEF BeingPlaced, NoOrder
  <1>6. CASE SamePrice(t)
    <2>1. /\ thread' = [thread EXCEPT ![t].pc = "order", ![t].quote = price]
          /\ UNCHANGED lock
      BY <1>6 DEF Requote
    <2> DEFINE r == [thread[t] EXCEPT !.pc = "order", !.quote = price]
    <2>2. r \in RequestType
      BY <1>3 DEF RequestType, Types
    <2>3. /\ thread'[t] = r /\ thread'[t] # None
          /\ \A u \in Thread \ {t} : thread'[u] = thread[u]
      BY <1>3, <2>1, <2>2, VoiceAssumption DEF Types
    <2>4. thread'[t].pc = "order" /\ thread'[t].intent = i
      BY <1>2, <1>3, <2>3 DEF RequestType, Mine
    <2>5. "order" \in Placing
      BY DEF Placing
    <2> QED
      BY <1>1, <1>2, <1>3, <1>4, <1>5, <2>1, <2>3, <2>4, <2>5, SameBooks, GoLedger
  <1>7. CASE ~SamePrice(t)
    <2>1. Abort(t, "release", "SUPERSEDED")
      BY <1>7 DEF Requote
    <2> QED
      BY <1>1, <1>2, <1>3, <1>4, <1>5, <2>1, SameBooks, NextLedger DEF Placing
  <1> QED
    BY <1>6, <1>7

(* A call whose effect is done goes on to pc, or its answer is lost.       *)
LEMMA ReturnsLedger ==
    ASSUME IInv, Ledger, NEW t \in Thread, thread[t] # None,
           thread[t].pc \in Placing, NEW i \in Intent, i = Mine(t),
           NEW pc \in {"void", "capture", "record"}, Returns(t, pc),
           UNCHANGED <<record, changes>>, reserved' \in [Intent -> Nat],
           \A j \in Intent \ {i} : Kept(j), i \notin lost => BeingPlaced(i, pc)'
    PROVE  Ledger'
  <1>1. Counted
    BY LedgerCounted
  <1>2. CASE LoseCall(t) /\ End(t)
    BY <1>1, <1>2, LostLedger DEF Counted
  <1>3. CASE Goto(t, pc) /\ UNCHANGED lost
    <2>1. Counted'
      BY <1>1, <1>3 DEF Counted, RecordType
    <2> QED
      BY <1>3, <2>1, NextLedger DEF Placing
  <1> QED
    BY <1>2, <1>3 DEF Returns

LEMMA ReleaseLedger == ASSUME IInv, Ledger, NEW t \in Thread, Release(t) PROVE Ledger'
  <1>1. /\ thread[t] # None /\ thread[t].pc = "release" /\ thread[t].pc \in Placing
        /\ UNCHANGED <<intents, record, hold, order, changes>>
        /\ Returns(t, "void")
    BY DEF Release, At, Placing, stores, world
  <1>2. PICK i \in Intent : i = Mine(t)
    BY <1>1, PlacerFacts
  <1>3. /\ i \notin lost => BeingPlaced(i, "release")
        /\ reserved[i] > 0 /\ reserved \in [Intent -> Nat]
        /\ reserved' = [reserved EXCEPT ![i] = @ - 1]
    BY <1>1, <1>2, PlacerFacts DEF Release, Counted
  <1>4. reserved' \in [Intent -> Nat]
    BY <1>3
  <1>5. \A j \in Intent \ {i} : Kept(j)
    BY <1>1, <1>3 DEF Kept
  <1>6. i \notin lost => BeingPlaced(i, "void")'
    BY <1>1, <1>3 DEF BeingPlaced, NoOrder
  <1> QED
    BY <1>1, <1>2, <1>4, <1>5, <1>6, ReturnsLedger

LEMMA CreateOrderLedger ==
    ASSUME IInv, Ledger, NEW t \in Thread, CreateOrder(t) PROVE Ledger'
  <1> DEFINE row == [status |-> "CONFIRMED", total |-> thread[t].quote]
  <1>1. /\ thread[t] # None /\ thread[t].pc = "order" /\ thread[t].pc \in Placing
        /\ UNCHANGED <<intents, record, hold, changes>>
        /\ Returns(t, "capture")
    BY DEF CreateOrder, At, Placing, stores, world
  <1>2. PICK i \in Intent : i = Mine(t)
    BY <1>1, PlacerFacts
  <1>3. /\ i \notin lost => BeingPlaced(i, "order")
        /\ reserved[i] > 0 /\ reserved \in [Intent -> Nat]
        /\ order \in [Intent -> OrderType]
    BY <1>1, <1>2, PlacerFacts DEF Counted, Types
  <1>4. CASE order[i] = NoOrder
    <2>1. /\ order' = [order EXCEPT ![i] = row]
          /\ reserved' = [reserved EXCEPT ![i] = @ - 1]
      BY <1>2, <1>4 DEF CreateOrder
    <2>2. reserved' \in [Intent -> Nat]
      BY <1>3, <2>1
    <2>3. \A j \in Intent \ {i} : Kept(j)
      BY <1>1, <1>3, <2>1 DEF Kept
    <2>4. order'[i] # NoOrder
      BY <1>3, <2>1 DEF NoOrder
    <2>5. i \notin lost => BeingPlaced(i, "capture")'
      BY <1>1, <1>3, <2>1, <2>4 DEF BeingPlaced, NoOrder
    <2> QED
      BY <1>1, <1>2, <2>2, <2>3, <2>5, ReturnsLedger
  <1>5. CASE order[i] # NoOrder
    <2>1. UNCHANGED <<order, reserved>>
      BY <1>2, <1>5 DEF CreateOrder
    <2>2. i \in lost
      BY <1>3, <1>5 DEF BeingPlaced
    <2> QED
      BY <1>1, <1>2, <1>3, <2>1, <2>2, SameBooks, ReturnsLedger
  <1> QED
    BY <1>4, <1>5

LEMMA CapturedLedger ==
    ASSUME IInv, Ledger, NEW t \in Thread, Captured(t) PROVE Ledger'
  <1>1. /\ thread[t] # None /\ thread[t].pc = "capture" /\ thread[t].pc \in Placing
        /\ UNCHANGED <<intents, record, order, reserved, changes>>
        /\ Returns(t, "record")
    BY DEF Captured, At, Placing, stores, world
  <1>2. PICK i \in Intent : i = Mine(t)
    BY <1>1, PlacerFacts
  <1>3. /\ i \notin lost => BeingPlaced(i, "capture")
        /\ reserved' \in [Intent -> Nat] /\ hold \in HoldType
        /\ hold' = [hold EXCEPT ![i] = "CAPTURED"]
    BY <1>1, <1>2, PlacerFacts DEF Captured, Counted, Types, HoldType
  <1>4. \A j \in Intent \ {i} : Kept(j)
    BY <1>1, <1>3 DEF Kept, HoldType
  <1>5. i \notin lost => BeingPlaced(i, "record")'
    BY <1>1, <1>3 DEF BeingPlaced, NoOrder, HoldType
  <1> QED
    BY <1>1, <1>2, <1>3, <1>4, <1>5, ReturnsLedger

LEMMA NotCapturedLedger ==
    ASSUME IInv, Ledger, NEW t \in Thread, NotCaptured(t) PROVE Ledger'
  <1>1. /\ thread[t] # None /\ thread[t].pc = "capture" /\ thread[t].pc \in Placing
        /\ UNCHANGED <<intents, record, hold, order, reserved, lost, changes>>
        /\ Goto(t, "cancel")
    BY DEF NotCaptured, At, Placing, stores, backend, world
  <1>2. PICK i \in Intent : i = Mine(t)
    BY <1>1, PlacerFacts
  <1>3. Counted'
    BY <1>1, LedgerCounted DEF Counted, RecordType
  <1>4. i \notin lost => BeingPlaced(i, "capture")
    BY <1>1, <1>2, PlacerFacts
  <1>5. i \notin lost' => BeingPlaced(i, "cancel")'
    BY <1>1, <1>4 DEF BeingPlaced, NoOrder
  <1> QED
    BY <1>1, <1>2, <1>3, <1>5, SameBooks, NextLedger DEF Placing

(* The OMS gives up an order: it stays an order, its hold is voided, and   *)
(* no other intent is touched.                                             *)
LEMMA CancelBooks ==
    ASSUME Types, NEW i \in Intent, CancelAtOMS(i)
    PROVE  /\ \A j \in Intent \ {i} : order'[j] = order[j] /\ hold'[j] = hold[j]
           /\ order[i] # NoOrder => order'[i] # NoOrder
           /\ order'[i].status # "CONFIRMED"
           /\ hold[i] \in {"AUTHORIZED", "VOIDED"} => hold'[i] \in {"AUTHORIZED", "VOIDED"}
           /\ hold[i] \notin {"AUTHORIZED"} => hold'[i] = hold[i]
  <1>1. CASE order[i].status = "CONFIRMED"
    <2>1. /\ order' = [order EXCEPT ![i].status = "CANCELLED"]
          /\ hold' = [hold EXCEPT ![i] = IF @ = "AUTHORIZED" THEN "VOIDED" ELSE @]
      BY <1>1 DEF CancelAtOMS, VoidHold
    <2>2. order'[i].status = "CANCELLED"
      BY <2>1 DEF Types, OrderType
    <2> QED
      BY <2>1, <2>2 DEF Types, NoOrder
  <1>2. CASE order[i].status # "CONFIRMED"
    BY <1>2 DEF CancelAtOMS
  <1> QED
    BY <1>1, <1>2

LEMMA CancelUnpaidLedger ==
    ASSUME IInv, Ledger, NEW t \in Thread, CancelUnpaid(t) PROVE Ledger'
  <1>1. /\ thread[t] # None /\ thread[t].pc = "cancel" /\ thread[t].pc \in Placing
        /\ UNCHANGED <<intents, record, reserved, changes>>
        /\ CancelAtOMS(Mine(t))
    BY DEF CancelUnpaid, At, Placing, stores, world
  <1>2. PICK i \in Intent : i = Mine(t)
    BY <1>1, PlacerFacts
  <1>3. Types /\ Counted /\ (i \notin lost => BeingPlaced(i, "cancel"))
    BY <1>1, <1>2, PlacerFacts
  <1>4. /\ \A j \in Intent \ {i} : order'[j] = order[j] /\ hold'[j] = hold[j]
        /\ order'[i].status # "CONFIRMED"
        /\ hold[i] \in {"AUTHORIZED", "VOIDED"} => hold'[i] \in {"AUTHORIZED", "VOIDED"}
    BY <1>1, <1>2, <1>3, CancelBooks
  <1>5. \A j \in Intent \ {i} : Kept(j)
    BY <1>1, <1>4 DEF Kept
  <1>6. CASE Abort(t, "void", "FAILED") /\ UNCHANGED lost
    <2>1. i \notin lost' => BeingPlaced(i, "void")'
      BY <1>1, <1>3, <1>4, <1>6 DEF BeingPlaced
    <2>2. Counted'
      BY <1>1, <1>3, <1>6 DEF Counted, RecordType
    <2> QED
      BY <1>1, <1>2, <1>5, <1>6, <2>1, <2>2, NextLedger DEF Placing
  <1>7. CASE LoseCall(t) /\ End(t)
    BY <1>1, <1>2, <1>3, <1>5, <1>7, LostLedger DEF Counted
  <1> QED
    BY <1>6, <1>7 DEF CancelUnpaid

LEMMA RecordPlacedLedger ==
    ASSUME IInv, Ledger, NEW t \in Thread, RecordPlaced(t) PROVE Ledger'
  <1>1. /\ thread[t] # None /\ thread[t].pc = "record" /\ thread[t].pc \in Placing
        /\ End(t) /\ UNCHANGED <<hold, order, reserved, lost, changes>>
    BY DEF RecordPlaced, At, Placing, backend, world
  <1>2. PICK i \in Intent : i = Mine(t)
    BY <1>1, PlacerFacts
  <1>3. /\ Types /\ Counted /\ (i \notin lost => BeingPlaced(i, "record"))
        /\ record' = [record EXCEPT ![i] = "CAPTURED"]
        /\ intents' = SetStatus(i, "ORDER_PLACED")
    BY <1>1, <1>2, PlacerFacts DEF RecordPlaced
  <1>4. /\ intents'[i].status = "ORDER_PLACED"
        /\ \A j \in Intent \ {i} : intents'[j] = intents[j]
    BY <1>3, SetStatusFacts DEF Status, Terminal
  <1>5. Counted'
    BY <1>1, <1>3 DEF Counted, RecordType
  <1>6. \A j \in Intent \ {i} : Kept(j)
    BY <1>1, <1>3, <1>4 DEF Kept, Counted, RecordType
  <1>7. i \notin lost => AtRest(i)'
    BY <1>1, <1>3, <1>4 DEF AtRest, BeingPlaced, NoOrder, Unused
  <1> QED
    BY <1>1, <1>2, <1>5, <1>6, <1>7, EndLedger

(* The hold is voided, and the request ends or builds the replacement.     *)
LEMMA VoidLedger == ASSUME IInv, Ledger, NEW t \in Thread, Void(t) PROVE Ledger'
  <1>1. /\ thread[t] # None /\ thread[t].pc = "void" /\ thread[t].pc \in Placing
        /\ UNCHANGED <<order, reserved, changes>>
    BY DEF Void, At, Placing, world
  <1>2. PICK i \in Intent : i = Mine(t)
    BY <1>1, PlacerFacts
  <1>3. /\ Types /\ Counted /\ (i \notin lost => BeingPlaced(i, "void"))
        /\ thread[t] \in RequestType /\ i # None
        /\ hold' = [hold EXCEPT ![i] = IF @ = "AUTHORIZED" THEN "VOIDED" ELSE @]
    BY <1>1, <1>2, PlacerFacts DEF Void, VoidHold
  <1>4. thread[t].to \in {"FAILED", "SUPERSEDED"}
    BY <1>1, ActorFacts DEF Working
  <1>5. CASE LoseCall(t) /\ End(t) /\ UNCHANGED stores
    <2>1. \A j \in Intent \ {i} : Kept(j)
      BY <1>1, <1>3, <1>5 DEF Kept, Types, stores
    <2> QED
      BY <1>1, <1>2, <1>3, <1>5, <2>1, LostLedger DEF Counted, RecordType, stores
  <1>6. CASE /\ record' = [record EXCEPT ![i] = "VOIDED"]
             /\ intents' = SetStatus(i, thread[t].to)
             /\ UNCHANGED lost
             /\ \/ End(t)
                \/ /\ thread' = [thread EXCEPT ![t].pc = "quote",
                        ![t].session = IF thread[t].session = i THEN None
                                       ELSE thread[t].session]
                   /\ UNCHANGED lock
    <2>1. /\ intents'[i].status \in {"FAILED", "SUPERSEDED"}
          /\ \A j \in Intent \ {i} : intents'[j] = intents[j]
      BY <1>3, <1>4, <1>6, SetStatusFacts DEF Status, Terminal
    <2>2. Counted'
      BY <1>1, <1>3, <1>6 DEF Counted, RecordType
    <2>3. \A j \in Intent \ {i} : Kept(j)
      BY <1>1, <1>3, <1>6, <2>1 DEF Kept, Counted, RecordType, Types
    <2>4. i \notin lost => AtRest(i)'
      <3> SUFFICES ASSUME i \notin lost PROVE AtRest(i)'
        OBVIOUS
      <3>1. hold'[i] = "VOIDED" /\ order'[i].status # "CONFIRMED" /\ reserved'[i] = 0
        BY <1>1, <1>3 DEF BeingPlaced, Types
      <3> QED
        BY <2>1, <3>1 DEF AtRest, Unused
    <2>5. CASE End(t)
      BY <1>1, <1>2, <1>6, <2>2, <2>3, <2>4, <2>5, EndLedger
    <2>6. CASE /\ thread' = [thread EXCEPT ![t].pc = "quote",
                     ![t].session = IF thread[t].session = i THEN None
                                    ELSE thread[t].session]
               /\ UNCHANGED lock
      <3> DEFINE r == [thread[t] EXCEPT !.pc = "quote",
                         !.session = IF thread[t].session = i THEN None
                                     ELSE thread[t].session]
      <3>1. r \in RequestType
        BY <1>3 DEF RequestType
      <3>2. /\ thread'[t] = r /\ thread'[t] # None
            /\ \A u \in Thread \ {t} : thread'[u] = thread[u]
        BY <1>3, <2>6, <3>1, VoiceAssumption DEF Types
      <3>3. thread'[t].pc = "quote" /\ thread'[t].intent = i
        BY <1>2, <1>3, <3>2 DEF RequestType, Mine
      <3>4. "quote" \notin Placing /\ "quote" \notin {"requote", "release", "order"}
        BY DEF Placing
      <3> QED
        BY <1>1, <1>2, <1>3, <1>6, <2>2, <2>3, <2>4, <2>6, <3>2, <3>3, <3>4, GoLedger
    <2> QED
      BY <1>6, <2>5, <2>6
  <1> QED
    BY <1>2, <1>5, <1>6 DEF Void

(* What the payment provider answers. *)
LEMMA PayerFacts ==
    ASSUME IInv, Ledger, NEW t \in Thread, At(t, "authorize")
    PROVE  /\ thread[t] # None /\ thread[t].pc \notin Placing
           /\ Mine(t) \in Intent /\ Mine(t) # None
           /\ intents[Mine(t)].status = "CONFIRMED"
           /\ Mine(t) \notin lost => AtRest(Mine(t))
           /\ Types /\ Counted
  <1>1. thread[t] # None /\ thread[t].pc = "authorize" /\ thread[t].pc \notin Placing
    BY DEF At, Placing
  <1>2. Mine(t) # None /\ intents[Mine(t)].status = "CONFIRMED"
    BY <1>1, ActorFacts DEF Working
  <1> QED
    BY <1>1, <1>2, ActorBooks, LedgerCounted DEF IInv

LEMMA DeclinedLedger == ASSUME IInv, Ledger, NEW t \in Thread, Declined(t) PROVE Ledger'
  <1>1. /\ At(t, "authorize") /\ End(t)
        /\ UNCHANGED <<record, hold, order, reserved, lost, changes>>
    BY DEF Declined, backend, world
  <1>2. PICK i \in Intent : i = Mine(t)
    BY <1>1, PayerFacts
  <1>3. /\ Types /\ Counted /\ (i \notin lost => AtRest(i)) /\ thread[t] # None
        /\ hold[i] = "none" /\ intents[i].status = "CONFIRMED"
        /\ intents' = SetStatus(i, "FAILED")
    BY <1>1, <1>2, PayerFacts DEF Declined
  <1>4. /\ intents'[i].status = "FAILED"
        /\ \A j \in Intent \ {i} : intents'[j] = intents[j]
    BY <1>3, SetStatusFacts DEF Status, Terminal
  <1>5. Counted' /\ \A j \in Intent \ {i} : Kept(j)
    BY <1>1, <1>3, <1>4 DEF Counted, RecordType, Kept
  <1>6. i \notin lost => AtRest(i)'
    <2> SUFFICES ASSUME i \notin lost PROVE AtRest(i)'
      OBVIOUS
    <2>1. record[i] = "none" /\ order[i].status = "none" /\ reserved[i] = 0
      BY <1>3 DEF AtRest, NoOrder
    <2> QED
      BY <1>1, <1>3, <1>4, <2>1 DEF AtRest, Unused
  <1> QED
    BY <1>1, <1>2, <1>3, <1>5, <1>6, EndLedger

LEMMA TimedOutLedger == ASSUME IInv, Ledger, NEW t \in Thread, TimedOut(t) PROVE Ledger'
  <1>1. /\ At(t, "authorize") /\ End(t)
        /\ UNCHANGED <<intents, record, order, reserved, lost, changes>>
    BY DEF TimedOut, stores, world
  <1>2. PICK i \in Intent : i = Mine(t)
    BY <1>1, PayerFacts
  <1>3. /\ Types /\ Counted /\ (i \notin lost => AtRest(i)) /\ thread[t] # None
        /\ intents[i].status = "CONFIRMED"
        /\ hold' = [hold EXCEPT ![i] = "AUTHORIZED"]
    BY <1>1, <1>2, PayerFacts DEF TimedOut
  <1>4. Counted' /\ \A j \in Intent \ {i} : Kept(j)
    BY <1>1, <1>3 DEF Counted, RecordType, Kept, Types
  <1>5. i \notin lost => AtRest(i)'
    BY <1>1, <1>3 DEF AtRest, NoOrder, Unused, Types
  <1> QED
    BY <1>1, <1>2, <1>3, <1>4, <1>5, EndLedger

LEMMA AuthorizedLedger ==
    ASSUME IInv, Ledger, NEW t \in Thread, Authorized(t) PROVE Ledger'
  <1>1. /\ At(t, "authorize")
        /\ UNCHANGED <<lock, order, reserved, lost, changes>>
    BY DEF Authorized, world
  <1>2. PICK i \in Intent : i = Mine(t)
    BY <1>1, PayerFacts
  <1>3. /\ Types /\ Counted /\ (i \notin lost => AtRest(i)) /\ thread[t] # None
        /\ intents[i].status = "CONFIRMED"
        /\ hold' = [hold EXCEPT ![i] = "AUTHORIZED"]
        /\ record' = [record EXCEPT ![i] = "AUTHORIZED"]
        /\ intents' = SetStatus(i, "PAYMENT_AUTHORIZED")
        /\ thread' = [thread EXCEPT ![t] = Request("touch", i)]
    BY <1>1, <1>2, PayerFacts DEF Authorized
  <1>4. /\ intents'[i].status = "PAYMENT_AUTHORIZED"
        /\ \A j \in Intent \ {i} : intents'[j] = intents[j]
    BY <1>3, SetStatusFacts DEF Status, Live
  <1>5. Counted' /\ \A j \in Intent \ {i} : Kept(j)
    BY <1>1, <1>3, <1>4 DEF Counted, RecordType, Kept, Types
  <1>6. i \notin lost => AtRest(i)'
    <2> SUFFICES ASSUME i \notin lost PROVE AtRest(i)'
      OBVIOUS
    <2>1. order[i] = NoOrder /\ reserved[i] = 0
      BY <1>3 DEF AtRest
    <2>2. hold'[i] = "AUTHORIZED" /\ record'[i] = "AUTHORIZED"
      BY <1>3 DEF Types, Counted, RecordType
    <2> QED
      BY <1>1, <1>4, <2>1, <2>2 DEF AtRest, NoOrder, Unused
  <1>7. Request("touch", i) \in RequestType
    BY <1>3 DEF Request, RequestType, Types
  <1>8. /\ thread'[t] = Request("touch", i) /\ thread'[t] # None
        /\ \A u \in Thread \ {t} : thread'[u] = thread[u]
    BY <1>3, <1>7, VoiceAssumption DEF Types
  <1>9. thread'[t].pc = "touch" /\ thread'[t].intent = i
    BY <1>8 DEF Request
  <1>10. "touch" \notin Placing /\ "touch" \notin {"requote", "release", "order"}
    BY DEF Placing
  <1> QED
    BY <1>1, <1>2, <1>3, <1>5, <1>6, <1>8, <1>9, <1>10, GoLedger

(* Requests that place nothing. *)
LEMMA QuoteLedger == ASSUME IInv, Ledger, NEW t \in Thread, Quote(t) PROVE Ledger'
  <1>1. /\ thread[t] # None /\ thread[t].pc \notin Placing
        /\ UNCHANGED <<intents, record, hold, order, reserved, lost, changes>>
    BY DEF Quote, At, Placing, stores, backend, world
  <1>2. Counted' /\ \A j \in Intent : Kept(j)
    BY <1>1, LedgerCounted, SameBooks DEF Counted, RecordType
  <1>3. CASE End(t)
    BY <1>1, <1>2, <1>3, RestLedger
  <1>4. CASE ~End(t)
    <2>1. PICK f \in Intent :
            /\ thread' = [thread EXCEPT ![t].fresh = f, ![t].quote = price,
                 ![t].pc = IF thread[t].session = None THEN "save" ELSE "supersede"]
            /\ UNCHANGED lock
      BY <1>4 DEF Quote
    <2> DEFINE pc == IF thread[t].session = None THEN "save" ELSE "supersede"
               r == [thread[t] EXCEPT !.fresh = f, !.quote = price, !.pc = pc]
    <2>2. thread[t] \in RequestType /\ Types
      BY <1>1, ActorFacts
    <2>3. r \in RequestType
      BY <2>2 DEF RequestType, Types
    <2>4. /\ thread'[t] = r /\ thread'[t] # None
          /\ \A u \in Thread \ {t} : thread'[u] = thread[u]
      BY <2>1, <2>2, <2>3, VoiceAssumption DEF Types
    <2>5. thread'[t].intent = Mine(t) /\ thread'[t].pc \notin Placing
      BY <2>2, <2>4 DEF RequestType, Mine, Placing
    <2> QED
      BY <1>1, <1>2, <2>1, <2>4, <2>5, RestLedger
  <1> QED
    BY <1>3, <1>4

LEMMA SupersedeLedger ==
    ASSUME IInv, Ledger, NEW t \in Thread, Supersede(t) PROVE Ledger'
  <1> DEFINE prior == thread[t].session
  <1>1. /\ thread[t] # None /\ thread[t].pc = "supersede" /\ thread[t].pc \notin Placing
        /\ UNCHANGED <<record, hold, order, reserved, lost, changes>>
        /\ Goto(t, "save")
        /\ intents' = IF intents[prior].status \in Unconfirmed
                      THEN SetStatus(prior, "SUPERSEDED") ELSE intents
    BY DEF Supersede, At, Placing, backend, world
  <1>2. thread[t] \in RequestType /\ Types /\ prior \in Intent
    BY <1>1, ActorFacts DEF Working, RequestType
  <1>3. Counted'
    BY <1>1, LedgerCounted DEF Counted, RecordType
  <1>4. \A j \in Intent : Kept(j)
    <2>1. CASE intents[prior].status \in Unconfirmed
      <3>1. /\ intents'[prior].status = "SUPERSEDED"
            /\ \A j \in Intent \ {prior} : intents'[j] = intents[j]
        BY <1>1, <1>2, <2>1, SetStatusFacts DEF Status, Terminal
      <3> QED
        BY <1>1, <2>1, <3>1 DEF Kept
    <2>2. CASE intents[prior].status \notin Unconfirmed
      BY <1>1, <2>2 DEF Kept
    <2> QED
      BY <2>1, <2>2
  <1>5. /\ lock' = lock /\ thread'[t] = [thread[t] EXCEPT !.pc = "save"]
        /\ thread'[t] # None /\ \A u \in Thread \ {t} : thread'[u] = thread[u]
    BY <1>1, <1>2, GotoFacts DEF Pc
  <1>6. thread'[t].intent = Mine(t) /\ thread'[t].pc \notin Placing
    BY <1>2, <1>5 DEF RequestType, Mine, Placing
  <1> QED
    BY <1>1, <1>3, <1>4, <1>5, <1>6, RestLedger

LEMMA SaveIntentLedger ==
    ASSUME IInv, Ledger, NEW t \in Thread, SaveIntent(t) PROVE Ledger'
  <1> DEFINE new == thread[t].fresh
             row == [status |-> "AWAITING_CONFIRMATION", total |-> thread[t].quote,
                     expired |-> FALSE]
  <1>1. /\ thread[t] # None /\ thread[t].pc = "save" /\ thread[t].pc \notin Placing
        /\ UNCHANGED <<record, hold, order, reserved, lost, changes>>
        /\ End(t) /\ intents' = [intents EXCEPT ![new] = row]
    BY DEF SaveIntent, At, Placing, backend, world
  <1>2. Types /\ new \in Intent /\ intents[new].status = Unused
    BY <1>1, ActorFacts DEF Working, Building, RequestType
  <1>3. Counted'
    BY <1>1, LedgerCounted DEF Counted, RecordType
  <1>4. \A j \in Intent : Kept(j)
    BY <1>1, <1>2 DEF Kept, Types
  <1> QED
    BY <1>1, <1>3, <1>4, RestLedger

LEMMA TouchLedger == ASSUME IInv, Ledger, NEW t \in Thread, Touch(t) PROVE Ledger'
  <1>1. /\ thread[t] # None /\ thread[t].pc \notin Placing /\ End(t)
        /\ UNCHANGED <<intents, record, hold, order, reserved, lost, changes>>
    BY DEF Touch, At, Placing, backend, world
  <1>2. Counted' /\ \A j \in Intent : Kept(j)
    BY <1>1, LedgerCounted, SameBooks DEF Counted, RecordType
  <1> QED
    BY <1>1, <1>2, RestLedger

LEMMA StepLedger == ASSUME IInv, Ledger, NEW t \in Thread, Step(t) PROVE Ledger'
  BY QuoteLedger, SupersedeLedger, SaveIntentLedger, TouchLedger, AuthorizedLedger,
     DeclinedLedger, TimedOutLedger, CheckLedger, ReserveLedger, RequoteLedger,
     ReleaseLedger, VoidLedger, CreateOrderLedger, CapturedLedger, NotCapturedLedger,
     CancelUnpaidLedger, RecordPlacedLedger, ThrowLedger DEF Step

(* A request begins. *)
LEMMA BeginLedger ==
    ASSUME IInv, Ledger, NEW t \in Thread, NEW pc \in {"quote", "touch"},
           Begin(t, pc, None), UNCHANGED <<stores, backend, world, lock, lost>>
    PROVE  Ledger'
  <1>1. /\ thread[t] = None /\ \A u \in Thread \ {t} : thread'[u] = thread[u]
    BY BeginFacts DEF IInv, Pc
  <1>2. UNCHANGED <<intents, record, hold, order, reserved, lock, lost, changes>>
    BY DEF stores, backend, world
  <1>3. Counted' /\ \A j \in Intent : Kept(j)
    BY <1>2, LedgerCounted, SameBooks DEF Counted, RecordType
  <1>4. \A j \in Intent : lock[j] # t
    BY <1>1, NoLocks
  <1> QED
    BY <1>1, <1>2, <1>3, <1>4, LedgerStep

LEMMA AskLedger == ASSUME IInv, Ledger, NEW t \in Thread, Ask(t) PROVE Ledger'
  <1>1. CASE StartCreate(t) \/ Browse(t)
    BY <1>1, BeginLedger DEF StartCreate, Browse
  <1>2. ASSUME NEW i \in Intent,
               BeginAuthorization(t, i) \/ StartPayment(t, i) \/ StartPlacing(t, i)
        PROVE  Ledger'
    <2>1. UNCHANGED <<intents, record, hold, order, reserved, lost, changes>>
      BY <1>2 DEF BeginAuthorization, StartPayment, StartPlacing, stores, backend, world
    <2>2. Counted' /\ \A j \in Intent : Kept(j)
      BY <2>1, LedgerCounted, SameBooks DEF Counted, RecordType
    <2>3. \/ BeginLocked(t, "touch", i) \/ BeginLocked(t, "authorize", i)
          \/ /\ BeginLocked(t, "check", i)
             /\ intents[i].status = "PAYMENT_AUTHORIZED"
      BY <1>2 DEF BeginAuthorization, StartPayment, StartPlacing, Usable
    <2> QED
      BY <2>1, <2>2, <2>3, LockLedger
  <1>3. ASSUME NEW i \in Intent,
               Decline(t, i) \/ \E amount \in Price : Confirm(t, i, amount)
        PROVE  Ledger'
    <2>1. /\ UNCHANGED <<record, hold, order, reserved, lost, changes>>
          /\ BeginLocked(t, "touch", i)
          /\ intents[i].status = "AWAITING_CONFIRMATION"
          /\ intents' = SetStatus(i, "CANCELLED") \/ intents' = SetStatus(i, "CONFIRMED")
      BY <1>3 DEF Decline, Confirm, Usable, backend, world
    <2>2. /\ intents'[i].status \in {"CANCELLED", "CONFIRMED"}
          /\ \A j \in Intent \ {i} : intents'[j] = intents[j]
      BY <2>1, SetStatusFacts DEF IInv, Status, Terminal, Live, Unconfirmed
    <2>3. Counted' /\ \A j \in Intent : Kept(j)
      BY <2>1, <2>2, LedgerCounted DEF Counted, RecordType, Kept
    <2> QED
      BY <2>1, <2>3, LockLedger
  <1> QED
    BY <1>1, <1>2, <1>3 DEF Ask

(* The customer and the OMS may act at every moment of a placement.        *)
LEMMA EnvironmentLedger == ASSUME IInv, Ledger, Environment PROVE Ledger'
  <1>1. Types /\ Counted
    BY LedgerCounted DEF IInv
  <1>2. CASE ChangePrice
    <2>1. /\ UNCHANGED <<intents, record, hold, order, reserved, lock, thread, lost>>
          /\ changes' \in 0 .. MaxPriceChanges
      BY <1>1, <1>2, VoiceAssumption DEF ChangePrice, stores, backend, Counted
    <2> QED
      BY <1>1, <2>1, SameBooks, LedgerStep DEF Counted, RecordType
  <1>3. ASSUME NEW i \in Intent, Expire(i) PROVE Ledger'
    <2>1. /\ UNCHANGED <<record, hold, order, reserved, lock, thread, lost, changes>>
          /\ \A j \in Intent : intents'[j].status = intents[j].status
      BY <1>1, <1>3 DEF Expire, backend, world, Types, IntentType
    <2> QED
      BY <1>1, <2>1, LedgerStep DEF Counted, RecordType, Kept
  <1>4. ASSUME NEW i \in Intent, CancelOrder(i) \/ StartPacking(i) PROVE Ledger'
    <2>1. /\ UNCHANGED <<intents, record, reserved, lock, thread, lost, changes>>
          /\ order[i].status = "CONFIRMED"
      BY <1>4 DEF CancelOrder, StartPacking, stores, world
    <2>2. /\ \A j \in Intent \ {i} : order'[j] = order[j] /\ hold'[j] = hold[j]
          /\ order'[i] # NoOrder /\ order'[i].status # "CONFIRMED"
          /\ hold[i] \in {"AUTHORIZED", "VOIDED"} => hold'[i] \in {"AUTHORIZED", "VOIDED"}
          /\ hold[i] \notin {"AUTHORIZED"} => hold'[i] = hold[i]
      <3>1. order[i] # NoOrder
        BY <2>1 DEF NoOrder
      <3>2. CASE CancelOrder(i)
        BY <1>1, <3>1, <3>2, CancelBooks DEF CancelOrder
      <3>3. CASE StartPacking(i)
        BY <1>1, <3>3 DEF StartPacking, Types, OrderType, NoOrder
      <3> QED
        BY <1>4, <3>2, <3>3
    <2>3. \A j \in Intent \ {i} : Kept(j)
      BY <2>1, <2>2 DEF Kept
    <2>4. Fine(i)'
      <3>1. Fine(i) /\ order[i] # NoOrder
        BY <2>1, LedgerParts DEF NoOrder
      <3>2. Stage(i)' = Stage(i) /\ Held(i)' /\ Stocked(i)'
        BY <2>1, <3>1 DEF Stage, Fine, Held, Stocked, Mine
      <3>3. ASSUME NEW pc, BeingPlaced(i, pc) PROVE BeingPlaced(i, pc)'
        BY <2>1, <2>2, <3>1, <3>3 DEF BeingPlaced
      <3>4. ASSUME AtRest(i) PROVE AtRest(i)'
        <4>1. intents[i].status \in Status
          BY <1>1 DEF Types, IntentType
        <4>2. intents[i].status = "ORDER_PLACED"
          BY <2>1, <3>1, <3>4, <4>1 DEF AtRest, Status, Live, Unconfirmed, Terminal
        <4> QED
          BY <2>1, <2>2, <3>4, <4>2 DEF AtRest, Unused
      <3>5. Books(i)'
        BY <2>1, <3>1, <3>2, <3>3, <3>4 DEF Fine, Books
      <3> QED
        BY <3>2, <3>5 DEF Fine
    <2> QED
      BY <1>1, <2>1, <2>3, <2>4, LedgerStep DEF Counted, RecordType
  <1> QED
    BY <1>2, <1>3, <1>4 DEF Environment

LEMMA InitLedger == Init => Ledger
  <1> SUFFICES ASSUME Init PROVE Ledger
    OBVIOUS
  <1>1. Counted
    BY VoiceAssumption DEF Init, Counted, RecordType
  <1>2. ASSUME NEW i \in Intent PROVE Fine(i)
    <2>1. Stage(i) = "rest" /\ Held(i) /\ Stocked(i)
      BY DEF Init, Stage, Held, Stocked
    <2>2. AtRest(i)
      BY DEF Init, AtRest, Unused, NoOrder
    <2> QED
      BY <2>1, <2>2 DEF Fine, Books, Placing
  <1> QED
    BY <1>1, <1>2, LedgerParts

LEMMA NextLedgerKept == IInv /\ Ledger /\ [Next]_vars => Ledger'
  <1> SUFFICES ASSUME IInv, Ledger, [Next]_vars PROVE Ledger'
    OBVIOUS
  <1>1. CASE Next
    BY <1>1, AskLedger, StepLedger, EnvironmentLedger DEF Next
  <1>2. CASE UNCHANGED vars
    <2>1. UNCHANGED <<intents, record, hold, order, reserved, lock, thread, lost, changes>>
      BY <1>2 DEF vars
    <2> QED
      BY <2>1, SameBooks, LedgerCounted, LedgerStep DEF Counted, RecordType
  <1> QED
    BY <1>1, <1>2

(* Once the request on an intent is over and no call of it was lost, an    *)
(* order waiting to be packed is paid for, and what was captured is what   *)
(* the service calls placed, for any number of intents and requests and    *)
(* whenever the OMS or the customer cancels.                               *)
THEOREM PaidForIsPlaced == Spec => []PaidIsPlaced
  <1>1. IInv /\ Ledger => PaidIsPlaced
    <2> SUFFICES ASSUME IInv, Ledger, NEW i \in Intent, Settled(i)
                 PROVE  /\ order[i].status = "CONFIRMED" => hold[i] = "CAPTURED"
                        /\ (hold[i] = "CAPTURED") <=> (intents[i].status = "ORDER_PLACED")
                        /\ hold[i] = "CAPTURED" => order[i] # NoOrder
      BY DEF PaidIsPlaced, UnpaidIsCancelled, PlacedIsCaptured
    <2>1. AtRest(i)
      BY LedgerParts DEF Fine, Books, Settled, Stage, Placing
    <2>2. intents[i].status \in Status
      BY DEF IInv, Types, IntentType
    <2> QED
      BY <2>1, <2>2 DEF AtRest, Status, Live, Unconfirmed, Terminal, NoOrder
  <1> QED
    BY <1>1, InitInv, NextInv, InitLedger, NextLedgerKept, PTL DEF Spec

(* An intent nobody is placing holds no stock, and one that was given up   *)
(* after its payment was authorised holds no money: every way out of       *)
(* finalizeOrder gives back what it took.                                  *)
THEOREM WhatIsGivenUpIsReturned == Spec => []NothingKept
  <1>1. IInv /\ Ledger => NothingKept
    <2> SUFFICES ASSUME IInv, Ledger, NEW i \in Intent, Settled(i)
                 PROVE  /\ reserved[i] = 0
                        /\ record[i] # "none" /\ intents[i].status \in {"FAILED", "SUPERSEDED"}
                             => hold[i] = "VOIDED"
      BY DEF NothingKept, AbortedIsReleased, StockReturned
    <2>1. AtRest(i)
      BY LedgerParts DEF Fine, Books, Settled, Stage, Placing
    <2> QED
      BY <2>1 DEF AtRest
  <1> QED
    BY <1>1, InitInv, NextInv, InitLedger, NextLedgerKept, PTL DEF Spec

(* Every variable keeps a value of its type; that reserved stock is never  *)
(* given back twice, so the count stays a natural number, rests on the     *)
(* ledger.                                                                 *)
THEOREM VoiceTypes == Spec => []TypeOK
  <1>1. IInv /\ Ledger => TypeOK
    BY DEF IInv, Types, IntentType, OrderType, Ledger, TypeOK
  <1> QED
    BY <1>1, InitInv, NextInv, InitLedger, NextLedgerKept, PTL DEF Spec

---------------------------------------------------------------------------
(* The purchase the customer sees.  A step changes what it sees of one     *)
(* basket at most, and in one of the ways Purchase allows.                 *)

(* What holds of every purchase: goods only come with a payment, money is  *)
(* untouched before it, and what is cancelled is not held any more.        *)
Purchased ==
    \A i \in Intent :
      /\ order[i].status = "none" => order[i] = NoOrder
      /\ order[i] # NoOrder => Standing[i] \in {"paying", "closed"}
      /\ Standing[i] \in {"open", "agreed"} => hold[i] \in {"none", "AUTHORIZED"}
      /\ Standing[i] = "paying" => hold[i] # "none"
      /\ order[i].status = "CANCELLED" => hold[i] # "AUTHORIZED"

(* What a request that captures knows of the goods, and afterwards of the  *)
(* money.                                                                  *)
Paying(t) ==
    /\ At(t, "capture") => order[Mine(t)] # NoOrder
    /\ At(t, "record") => hold[Mine(t)] = "CAPTURED"

Purse == Purchased /\ \A t \in Thread : Paying(t)

Unseen == UNCHANGED <<Standing, agreed, hold, order>>

LEMMA SameStanding ==
    ASSUME \A j \in Intent : intents'[j].status = intents[j].status
    PROVE  Standing' = Standing
  BY DEF Standing

LEMMA NewStanding ==
    ASSUME Types, NEW i \in Intent, NEW s \in Status, intents' = SetStatus(i, s)
    PROVE  Standing' = [Standing EXCEPT ![i] = StageOf(s)]
  BY SetStatusFacts DEF Standing

LEMMA StandingTypes ==
    ASSUME NEW i \in Intent
    PROVE  /\ Standing \in [Intent -> {"open", "agreed", "paying", "closed"}]
           /\ Standing[i] = StageOf(intents[i].status)
  BY DEF Standing, StageOf

LEMMA StagesOfStatuses ==
    /\ StageOf("CONFIRMED") = "agreed" /\ StageOf("PAYMENT_AUTHORIZED") = "paying"
    /\ StageOf(Unused) = "open" /\ StageOf("AWAITING_CONFIRMATION") = "open"
    /\ \A s \in Terminal : StageOf(s) = "closed"
  BY DEF StageOf, Unused, Terminal

(* A purchase that moves keeps what holds of purchases.                    *)
LEMMA PurchaseKept ==
    ASSUME Types, Purchased, [Customers!Next]_(Customers!purchase)
    PROVE  Purchased'
  <1> USE DEF Purchased
  <1>1. /\ Standing \in [Intent -> {"open", "agreed", "paying", "closed"}]
        /\ hold \in [Intent -> {"none", "AUTHORIZED", "VOIDED", "CAPTURED"}]
        /\ order \in [Intent -> OrderType]
    BY DEF Types, Standing, StageOf
  <1>2. ASSUME NEW i \in Intent, Customers!Agree(i) PROVE Purchased'
    BY <1>1, <1>2 DEF Customers!Agree
  <1>3. ASSUME NEW i \in Intent, Customers!GiveUp(i) PROVE Purchased'
    BY <1>1, <1>3 DEF Customers!GiveUp
  <1>4. ASSUME NEW i \in Intent, Customers!Hold(i) PROVE Purchased'
    <2>1. PICK s \in {"agreed", "paying"} : Standing' = [Standing EXCEPT ![i] = s]
      BY <1>4 DEF Customers!Hold
    <2> QED
      BY <1>1, <1>4, <2>1 DEF Customers!Hold, NoOrder
  <1>5. ASSUME NEW i \in Intent, Customers!Order(i) PROVE Purchased'
    BY <1>1, <1>5 DEF Customers!Order, Customers!Nothing, NoOrder
  <1>6. ASSUME NEW i \in Intent, Customers!Capture(i) PROVE Purchased'
    BY <1>1, <1>6 DEF Customers!Capture
  <1>7. ASSUME NEW i \in Intent, Customers!Settle(i) PROVE Purchased'
    <2>1. PICK s \in {"paying", "closed"} : Standing' = [Standing EXCEPT ![i] = s]
      BY <1>7 DEF Customers!Settle
    <2> QED
      BY <1>1, <1>7, <2>1 DEF Customers!Settle, Customers!Returned
  <1>8. ASSUME NEW i \in Intent, Customers!Cancel(i) PROVE Purchased'
    BY <1>1, <1>8 DEF Customers!Cancel, Customers!Returned, NoOrder, OrderType
  <1>9. ASSUME NEW i \in Intent, Customers!Pack(i) PROVE Purchased'
    BY <1>1, <1>9 DEF Customers!Pack, NoOrder, OrderType
  <1>10. CASE UNCHANGED Customers!purchase
    BY <1>10 DEF Customers!purchase
  <1> QED
    BY <1>2, <1>3, <1>4, <1>5, <1>6, <1>7, <1>8, <1>9, <1>10 DEF Customers!Next

(* The steps a customer does not notice.                                   *)
LEMMA UnseenAsk ==
    ASSUME NEW t \in Thread, Ask(t)
    PROVE  \/ Unseen
           \/ \E i \in Intent : Decline(t, i) \/ \E amount \in Price : Confirm(t, i, amount)
  BY DEF Ask, StartCreate, Browse, BeginAuthorization, StartPayment, StartPlacing,
         Unseen, Standing, stores, backend, world

LEMMA UnseenStep ==
    ASSUME NEW t \in Thread,
           \/ Quote(t) \/ Touch(t) \/ Check(t) \/ Reserve(t) \/ Requote(t) \/ Release(t)
           \/ NotCaptured(t) \/ Throw(t)
    PROVE  Unseen
  BY DEF Quote, Touch, Check, Reserve, Requote, Release, NotCaptured, Throw,
         Unseen, Standing, stores, backend, world

(* A saved intent is as open as its unused id was.                         *)
LEMMA SaveUnseen ==
    ASSUME IInv, NEW t \in Thread, SaveIntent(t) PROVE Unseen
  <1> DEFINE new == thread[t].fresh
  <1>1. /\ thread[t] # None /\ thread[t].pc = "save"
        /\ intents' = [intents EXCEPT ![new] = [status |-> "AWAITING_CONFIRMATION",
                          total |-> thread[t].quote, expired |-> FALSE]]
        /\ UNCHANGED <<agreed, hold, order>>
    BY DEF SaveIntent, At, backend, world
  <1>2. new \in Intent /\ intents[new].status = Unused /\ intents \in [Intent -> IntentType]
    BY <1>1, ActorFacts DEF Working, Building, RequestType, Types
  <1>3. \A j \in Intent : StageOf(intents'[j].status) = StageOf(intents[j].status)
    BY <1>1, <1>2, StagesOfStatuses
  <1> QED
    BY <1>1, <1>3 DEF Unseen, Standing

(* What a request tells of the basket it works on.                         *)
LEMMA BasketOf ==
    ASSUME IInv, Purse, NEW t \in Thread, thread[t] # None,
           thread[t].pc \in Placing \cup {"authorize"}
    PROVE  /\ Types /\ Mine(t) \in Intent
           /\ Standing[Mine(t)] = IF thread[t].pc = "authorize" THEN "agreed" ELSE "paying"
           /\ thread[t].pc = "order" => thread[t].quote = agreed[Mine(t)]
           /\ order[Mine(t)] # NoOrder => order[Mine(t)].total = agreed[Mine(t)]
           /\ Paying(t)
  <1>1. Types /\ Mine(t) \in Intent /\ Working(t)
    BY ActorFacts
  <1>2. Standing[Mine(t)] = StageOf(intents[Mine(t)].status)
    BY <1>1 DEF Standing
  <1>3. /\ thread[t].pc = "authorize" => intents[Mine(t)].status = "CONFIRMED"
        /\ thread[t].pc # "authorize" => intents[Mine(t)].status = "PAYMENT_AUTHORIZED"
    BY <1>1 DEF Working
  <1>4. /\ thread[t].pc = "order" => thread[t].quote = intents[Mine(t)].total
        /\ intents[Mine(t)].status = "PAYMENT_AUTHORIZED" =>
             agreed[Mine(t)] = intents[Mine(t)].total
        /\ order[Mine(t)] # NoOrder => order[Mine(t)].total = agreed[Mine(t)]
    BY <1>1 DEF Working, IInv, Agreement
  <1> QED
    BY <1>1, <1>2, <1>3, <1>4, StagesOfStatuses DEF Purse

LEMMA ConfirmIsAgree ==
    ASSUME IInv, NEW t \in Thread, NEW i \in Intent, NEW amount \in Price, Confirm(t, i, amount)
    PROVE  Customers!Agree(i)
  <1>1. /\ intents[i].status = "AWAITING_CONFIRMATION"
        /\ intents' = SetStatus(i, "CONFIRMED") /\ agreed' = [agreed EXCEPT ![i] = amount]
        /\ UNCHANGED <<hold, order>>
    BY DEF Confirm, Usable, backend
  <1>2. Standing' = [Standing EXCEPT ![i] = "agreed"]
    BY <1>1, NewStanding, StagesOfStatuses DEF IInv, Status, Live, Unconfirmed
  <1>3. Standing[i] = "open"
    BY <1>1, StandingTypes, StagesOfStatuses
  <1> QED
    BY <1>1, <1>2, <1>3 DEF Customers!Agree

(* An intent that ends before its payment is authorised.                   *)
LEMMA EndsUnpaid ==
    ASSUME IInv, NEW i \in Intent, intents[i].status \in Unconfirmed, NEW s \in Terminal,
           intents' = SetStatus(i, s), UNCHANGED <<agreed, hold, order>>
    PROVE  Customers!GiveUp(i)
  <1>1. Standing' = [Standing EXCEPT ![i] = "closed"]
    BY NewStanding, StagesOfStatuses DEF IInv, Status
  <1>2. Standing[i] \in {"open", "agreed"}
    BY StandingTypes, StagesOfStatuses DEF Unconfirmed
  <1> QED
    BY <1>1, <1>2 DEF Customers!GiveUp

LEMMA DeclineGivesUp ==
    ASSUME IInv, NEW t \in Thread, NEW i \in Intent, Decline(t, i)
    PROVE  Customers!GiveUp(i)
  BY EndsUnpaid DEF Decline, Usable, Unconfirmed, Terminal, backend, world

LEMMA SupersedeGivesUp ==
    ASSUME IInv, NEW t \in Thread, Supersede(t)
    PROVE  Unseen \/ \E i \in Intent : Customers!GiveUp(i)
  <1> DEFINE i == thread[t].session
  <1>1. /\ thread[t] # None /\ thread[t].pc = "supersede"
        /\ UNCHANGED <<agreed, hold, order>>
    BY DEF Supersede, At, backend, world
  <1>2. i \in Intent
    BY <1>1, ActorFacts DEF Working, RequestType
  <1>3. CASE intents[i].status \in Unconfirmed
    BY <1>1, <1>2, <1>3, EndsUnpaid DEF Supersede, Terminal
  <1>4. CASE intents[i].status \notin Unconfirmed
    BY <1>1, <1>4, SameStanding DEF Supersede, Unseen
  <1> QED
    BY <1>3, <1>4

LEMMA DeclinedGivesUp ==
    ASSUME IInv, NEW t \in Thread, Declined(t)
    PROVE  \E i \in Intent : Customers!GiveUp(i)
  <1>1. /\ thread[t] # None /\ thread[t].pc = "authorize"
        /\ intents' = SetStatus(Mine(t), "FAILED") /\ UNCHANGED <<agreed, hold, order>>
    BY DEF Declined, At, backend, world
  <1>2. Mine(t) \in Intent /\ intents[Mine(t)].status = "CONFIRMED"
    BY <1>1, ActorFacts DEF Working
  <1> QED
    BY <1>1, <1>2, EndsUnpaid DEF Unconfirmed, Terminal

LEMMA AuthorizationHolds ==
    ASSUME IInv, Purse, NEW t \in Thread, Authorized(t) \/ TimedOut(t)
    PROVE  \E i \in Intent : Customers!Hold(i)
  <1> DEFINE i == Mine(t)
  <1>1. /\ thread[t] # None /\ thread[t].pc = "authorize"
        /\ hold' = [hold EXCEPT ![i] = "AUTHORIZED"] /\ UNCHANGED <<agreed, order>>
    BY DEF Authorized, TimedOut, At, world
  <1>2. Types /\ i \in Intent /\ Standing[i] = "agreed"
    BY <1>1, BasketOf
  <1>3. hold[i] \in {"none", "AUTHORIZED"}
    BY <1>2 DEF Purse, Purchased
  <1>4. \E s \in {"agreed", "paying"} : Standing' = [Standing EXCEPT ![i] = s]
    <2>1. CASE Authorized(t)
      BY <1>2, <2>1, NewStanding, StagesOfStatuses DEF Authorized, Status, Live
    <2>2. CASE TimedOut(t)
      <3>1. Standing' = Standing
        BY <2>2, SameStanding DEF TimedOut, stores
      <3>2. Standing = [Standing EXCEPT ![i] = "agreed"]
        BY <1>2, StandingTypes
      <3> QED
        BY <3>1, <3>2
    <2> QED
      BY <2>1, <2>2
  <1> QED
    BY <1>1, <1>2, <1>3, <1>4 DEF Customers!Hold

LEMMA VoidSettles ==
    ASSUME IInv, Purse, NEW t \in Thread, Void(t)
    PROVE  \E i \in Intent : Customers!Settle(i)
  <1> DEFINE i == Mine(t)
  <1>1. /\ thread[t] # None /\ thread[t].pc = "void" /\ thread[t].pc \in Placing
        /\ hold' = VoidHold(i) /\ UNCHANGED <<agreed, order>>
    BY DEF Void, At, Placing, world
  <1>2. Types /\ i \in Intent /\ Standing[i] = "paying"
    BY <1>1, BasketOf
  <1>3. hold'[i] \in {"VOIDED", "CAPTURED"} /\ hold' = Customers!Returned(i)
    BY <1>1, <1>2 DEF VoidHold, Customers!Returned, Purse, Purchased, Types
  <1>4. \E s \in {"paying", "closed"} : Standing' = [Standing EXCEPT ![i] = s]
    <2>1. CASE intents' = SetStatus(i, thread[t].to)
      <3>1. thread[t].to \in Terminal
        BY <1>1, ActorFacts DEF Working, Terminal
      <3> QED
        BY <1>2, <2>1, <3>1, NewStanding, StagesOfStatuses DEF Status
    <2>2. CASE UNCHANGED stores
      <3>1. Standing' = Standing
        BY <2>2, SameStanding DEF stores
      <3>2. Standing = [Standing EXCEPT ![i] = "paying"]
        BY <1>2, StandingTypes
      <3> QED
        BY <3>1, <3>2
    <2> QED
      BY <2>1, <2>2 DEF Void
  <1> QED
    BY <1>1, <1>2, <1>3, <1>4 DEF Customers!Settle

LEMMA RecordSettles ==
    ASSUME IInv, Purse, NEW t \in Thread, RecordPlaced(t)
    PROVE  \E i \in Intent : Customers!Settle(i)
  <1> DEFINE i == Mine(t)
  <1>1. /\ thread[t] # None /\ thread[t].pc = "record" /\ thread[t].pc \in Placing
        /\ intents' = SetStatus(i, "ORDER_PLACED") /\ UNCHANGED <<agreed, hold, order>>
    BY DEF RecordPlaced, At, Placing, backend, world
  <1>2. Types /\ i \in Intent /\ Standing[i] = "paying" /\ hold[i] = "CAPTURED"
    BY <1>1, BasketOf DEF Paying, At
  <1>3. Standing' = [Standing EXCEPT ![i] = "closed"]
    BY <1>1, <1>2, NewStanding, StagesOfStatuses DEF Status, Terminal
  <1>4. hold' = Customers!Returned(i)
    BY <1>1, <1>2 DEF Customers!Returned, Types
  <1> QED
    BY <1>1, <1>2, <1>3, <1>4 DEF Customers!Settle

LEMMA CreateOrders ==
    ASSUME IInv, Purse, NEW t \in Thread, CreateOrder(t)
    PROVE  Unseen \/ \E i \in Intent : Customers!Order(i)
  <1> DEFINE i == Mine(t)
  <1>1. /\ thread[t] # None /\ thread[t].pc = "order" /\ thread[t].pc \in Placing
        /\ UNCHANGED <<intents, agreed, hold>>
    BY DEF CreateOrder, At, Placing, stores, world
  <1>2. i \in Intent /\ Standing[i] = "paying" /\ thread[t].quote = agreed[i]
    BY <1>1, BasketOf
  <1>3. Standing' = Standing
    BY <1>1, SameStanding
  <1>4. CASE order[i] = NoOrder
    BY <1>1, <1>2, <1>3, <1>4 DEF CreateOrder, Customers!Order, Customers!Nothing, NoOrder
  <1>5. CASE order[i] # NoOrder
    BY <1>1, <1>3, <1>5 DEF CreateOrder, Unseen
  <1> QED
    BY <1>4, <1>5

LEMMA CapturedCaptures ==
    ASSUME IInv, Purse, NEW t \in Thread, Captured(t)
    PROVE  \E i \in Intent : Customers!Capture(i)
  <1> DEFINE i == Mine(t)
  <1>1. /\ thread[t] # None /\ thread[t].pc = "capture" /\ thread[t].pc \in Placing
        /\ hold[i] = "AUTHORIZED" /\ hold' = [hold EXCEPT ![i] = "CAPTURED"]
        /\ UNCHANGED <<intents, agreed, order>>
    BY DEF Captured, At, Placing, stores, world
  <1>2. /\ Types /\ i \in Intent /\ Standing[i] = "paying"
        /\ order[i] # NoOrder /\ order[i].total = agreed[i]
    BY <1>1, BasketOf DEF Paying, At
  <1>3. order[i].status \in {"CONFIRMED", "PREPARING"}
    BY <1>1, <1>2 DEF Purse, Purchased, Types, OrderType
  <1>4. Standing' = Standing
    BY <1>1, SameStanding
  <1> QED
    BY <1>1, <1>2, <1>3, <1>4 DEF Customers!Capture

LEMMA OmsCancels ==
    ASSUME NEW i \in Intent, CancelAtOMS(i), UNCHANGED <<intents, agreed>>
    PROVE  Unseen \/ Customers!Cancel(i)
  <1>1. Standing' = Standing
    BY SameStanding
  <1> QED
    BY <1>1 DEF CancelAtOMS, VoidHold, Unseen, Customers!Cancel, Customers!Returned

LEMMA RequestIsPurchase ==
    ASSUME IInv, Purse, NEW t \in Thread, Ask(t) \/ Step(t)
    PROVE  Unseen \/ Customers!Next
  <1>1. CASE Ask(t)
    BY <1>1, UnseenAsk, ConfirmIsAgree, DeclineGivesUp DEF Customers!Next
  <1>2. CASE Step(t)
    <2>1. ASSUME CancelUnpaid(t) PROVE Unseen \/ \E i \in Intent : Customers!Cancel(i)
      <3>1. /\ thread[t] # None /\ thread[t].pc \in Placing /\ CancelAtOMS(Mine(t))
            /\ UNCHANGED <<intents, agreed>>
        BY <2>1 DEF CancelUnpaid, At, Placing, stores, world
      <3> QED
        BY <3>1, BasketOf, OmsCancels
    <2> QED
      BY <1>2, <2>1, UnseenStep, SaveUnseen, SupersedeGivesUp, DeclinedGivesUp,
         AuthorizationHolds, VoidSettles, RecordSettles, CreateOrders, CapturedCaptures
         DEF Step, Customers!Next
  <1> QED
    BY <1>1, <1>2

LEMMA EnvironmentIsPurchase ==
    ASSUME IInv, Environment PROVE Unseen \/ Customers!Next
  <1>1. CASE ChangePrice
    BY <1>1, SameStanding DEF ChangePrice, Unseen, stores, backend
  <1>2. ASSUME NEW i \in Intent, CancelOrder(i) PROVE Unseen \/ Customers!Next
    BY <1>2, OmsCancels DEF CancelOrder, stores, world, Customers!Next
  <1>3. ASSUME NEW i \in Intent, StartPacking(i) PROVE Customers!Next
    <2>1. Standing' = Standing
      BY <1>3, SameStanding DEF StartPacking, stores
    <2>2. Customers!Pack(i)
      BY <1>3, <2>1 DEF StartPacking, Customers!Pack, world
    <2> QED
      BY <2>2 DEF Customers!Next
  <1>4. ASSUME NEW i \in Intent, Expire(i) PROVE Unseen
    <2>1. \A j \in Intent : intents'[j].status = intents[j].status
      BY <1>4 DEF Expire, IInv, Types, IntentType
    <2> QED
      BY <1>4, <2>1, SameStanding DEF Expire, Unseen, backend, world
  <1> QED
    BY <1>1, <1>2, <1>3, <1>4 DEF Environment

LEMMA StepIsPurchase ==
    ASSUME IInv, Purse, [Next]_vars PROVE [Customers!Next]_(Customers!purchase)
  <1>1. CASE UNCHANGED vars
    BY <1>1, SameStanding DEF vars, Customers!purchase
  <1>2. CASE Next
    BY <1>2, RequestIsPurchase, EnvironmentIsPurchase DEF Next, Unseen, Customers!purchase
  <1> QED
    BY <1>1, <1>2

(* Goods that were ordered and money that was taken stay so.               *)
LEMMA PurchaseForward ==
    ASSUME Types, [Customers!Next]_(Customers!purchase), NEW i \in Intent
    PROVE  /\ order[i] # NoOrder => order'[i] # NoOrder
           /\ hold[i] = "CAPTURED" => hold'[i] = "CAPTURED"
  <1>1. /\ hold \in [Intent -> {"none", "AUTHORIZED", "VOIDED", "CAPTURED"}]
        /\ order \in [Intent -> OrderType]
    BY DEF Types
  <1>2. ASSUME NEW b \in Intent,
               \/ Customers!Agree(b) \/ Customers!GiveUp(b) \/ Customers!Hold(b)
               \/ Customers!Order(b) \/ Customers!Capture(b)
        PROVE  /\ order[i] # NoOrder => order'[i] # NoOrder
               /\ hold[i] = "CAPTURED" => hold'[i] = "CAPTURED"
    BY <1>1, <1>2 DEF Customers!Agree, Customers!GiveUp, Customers!Hold, Customers!Order,
       Customers!Capture, Customers!Nothing, NoOrder
  <1>3. ASSUME NEW b \in Intent, Customers!Settle(b) \/ Customers!Cancel(b) \/ Customers!Pack(b)
        PROVE  /\ order[i] # NoOrder => order'[i] # NoOrder
               /\ hold[i] = "CAPTURED" => hold'[i] = "CAPTURED"
    BY <1>1, <1>3 DEF Customers!Settle, Customers!Cancel, Customers!Pack,
       Customers!Returned, NoOrder, OrderType
  <1> QED
    BY <1>2, <1>3 DEF Customers!Next, Customers!purchase

(* A request captures only what was ordered, and records only what was     *)
(* captured.                                                               *)
LEMMA StepPays ==
    ASSUME IInv, Purse, NEW t \in Thread, Ask(t) \/ Step(t)
    PROVE  Paying(t)'
  <1>1. Types
    BY DEF IInv
  <1>2. CASE Ask(t)
    BY <1>1, <1>2 DEF Ask, StartCreate, Browse, BeginAuthorization, Confirm, Decline,
       StartPayment, StartPlacing, BeginLocked, Begin, Request, Types, Paying, At
  <1>3. CASE CreateOrder(t)
    <2> DEFINE i == Mine(t)
    <2>1. /\ thread[t] # None /\ thread[t].pc \in Placing
          /\ \/ thread' = [thread EXCEPT ![t].pc = "capture"]
             \/ thread' = [thread EXCEPT ![t] = None]
      BY <1>3 DEF CreateOrder, Returns, Goto, End, At, Placing
    <2>2. i \in Intent /\ thread[t] \in RequestType
      BY <2>1, ActorFacts
    <2>3. order'[i] # NoOrder
      BY <1>1, <1>3, <2>2 DEF CreateOrder, NoOrder, Types
    <2>4. thread'[t] = None \/ (thread'[t].pc = "capture" /\ thread'[t].intent = i)
      BY <1>1, <2>1, <2>2 DEF Types, Mine, RequestType
    <2> QED
      BY <2>3, <2>4 DEF Paying, At, Mine
  <1>4. CASE Captured(t)
    <2> DEFINE i == Mine(t)
    <2>1. /\ thread[t] # None /\ thread[t].pc \in Placing
          /\ \/ thread' = [thread EXCEPT ![t].pc = "record"]
             \/ thread' = [thread EXCEPT ![t] = None]
      BY <1>4 DEF Captured, Returns, Goto, End, At, Placing
    <2>2. i \in Intent /\ thread[t] \in RequestType
      BY <2>1, ActorFacts
    <2>3. hold'[i] = "CAPTURED"
      BY <1>1, <1>4, <2>2 DEF Captured, Types
    <2>4. thread'[t] = None \/ (thread'[t].pc = "record" /\ thread'[t].intent = i)
      BY <1>1, <2>1, <2>2 DEF Types, Mine, RequestType
    <2> QED
      BY <2>3, <2>4 DEF Paying, At, Mine
  <1>5. CASE \/ Quote(t) \/ Supersede(t) \/ SaveIntent(t) \/ Touch(t)
             \/ Authorized(t) \/ Declined(t) \/ TimedOut(t)
    <2>1. CASE Quote(t)
      <3>1. thread[t] \in RequestType
        BY <1>1, <2>1 DEF Quote, At, Types
      <3>2. CASE End(t)
        BY <1>1, <3>2 DEF End, Types, Paying, At
      <3>3. ASSUME NEW i \in Intent, NEW pc \in {"save", "supersede"},
                   thread' = [thread EXCEPT ![t].fresh = i, ![t].quote = price, ![t].pc = pc]
            PROVE  Paying(t)'
        <4>1. thread'[t].pc = pc
          BY <1>1, <3>1, <3>3 DEF Types, RequestType
        <4> QED
          BY <4>1 DEF Paying, At
      <3> QED
        BY <2>1, <3>2, <3>3 DEF Quote
    <2>2. CASE Authorized(t)
      BY <1>1, <2>2 DEF Authorized, Request, At, Types, Paying
    <2>3. CASE Supersede(t) \/ SaveIntent(t) \/ Touch(t) \/ Declined(t) \/ TimedOut(t)
      <3>1. \/ thread' = [thread EXCEPT ![t].pc = "save"]
            \/ thread' = [thread EXCEPT ![t] = None]
        BY <2>3 DEF Supersede, SaveIntent, Touch, Declined, TimedOut, Goto, End
      <3>2. thread[t] # None
        BY <2>3 DEF Supersede, SaveIntent, Touch, Declined, TimedOut, At
      <3> QED
        BY <1>1, <3>1, <3>2 DEF Types, Paying, At, RequestType
    <2> QED
      BY <1>5, <2>1, <2>2, <2>3
  <1>6. CASE \/ Check(t) \/ Reserve(t) \/ Requote(t) \/ Release(t) \/ Void(t)
             \/ NotCaptured(t) \/ CancelUnpaid(t) \/ RecordPlaced(t) \/ Throw(t)
    BY <1>1, <1>6 DEF Check, Reserve, Requote, Release, Void, NotCaptured, CancelUnpaid,
       RecordPlaced, Throw, Returns, Abort, Goto, End, At, Types, Paying, RequestType
  <1> QED
    BY <1>2, <1>3, <1>4, <1>5, <1>6 DEF Step

LEMMA OneRequestMoves ==
    ASSUME IInv, NEW t \in Thread, Ask(t) \/ Step(t), NEW u \in Thread \ {t}
    PROVE  thread'[u] = thread[u]
  <1>1. thread \in [Thread -> RequestType \cup {None}]
    BY DEF IInv, Types
  <1>2. CASE Ask(t)
    BY <1>1, <1>2 DEF Ask, StartCreate, Browse, BeginAuthorization, Confirm, Decline,
       StartPayment, StartPlacing, BeginLocked, Begin
  <1>3. CASE Step(t)
    BY <1>1, <1>3 DEF Step, Quote, Supersede, SaveIntent, Touch, Authorized, Declined,
       TimedOut, Check, Reserve, Requote, Release, Void, CreateOrder, Captured, NotCaptured,
       CancelUnpaid, RecordPlaced, Throw, Returns, Abort, Goto, End
  <1> QED
    BY <1>2, <1>3

LEMMA NextPurse ==
    ASSUME IInv, Purse, [Next]_vars PROVE Purse'
  <1>1. Types /\ [Customers!Next]_(Customers!purchase) /\ Purchased
    BY StepIsPurchase DEF IInv, Purse
  <1>2. ASSUME NEW u \in Thread, thread'[u] = thread[u] PROVE Paying(u)'
    <2>1. ASSUME thread[u] # None, thread[u].pc \in {"capture", "record"}
          PROVE  Paying(u)'
      <3>1. Mine(u) \in Intent /\ Paying(u)
        BY <2>1, ActorFacts DEF Purse, Placing
      <3> QED
        BY <1>1, <1>2, <3>1, PurchaseForward DEF Paying, At, Mine
    <2> QED
      BY <1>2, <2>1 DEF Paying, At
  <1>3. ASSUME NEW u \in Thread PROVE Paying(u)'
    <2>1. CASE UNCHANGED vars \/ Environment
      BY <1>2, <2>1 DEF vars, Environment, ChangePrice, CancelOrder, StartPacking, Expire
    <2>2. ASSUME NEW t \in Thread, Ask(t) \/ Step(t) PROVE Paying(u)'
      BY <1>2, <2>2, StepPays, OneRequestMoves
    <2> QED
      BY <2>1, <2>2 DEF Next
  <1>4. Purchased'
    BY <1>1, PurchaseKept
  <1> QED
    BY <1>3, <1>4 DEF Purse

LEMMA InitPurse ==
    ASSUME Init PROVE Purse /\ Customers!Init
  <1>1. Standing = [i \in Intent |-> "open"]
    BY StagesOfStatuses DEF Init, Standing
  <1>2. Customers!Init
    BY <1>1 DEF Init, Customers!Init, Customers!Nothing, NoOrder
  <1>3. Purse
    BY <1>1 DEF Init, Purse, Purchased, Paying, At, NoOrder
  <1> QED
    BY <1>2, <1>3

(* However many requests, retries, lost answers and cancellations there    *)
(* are, and wherever finalizeOrder and its abort stop, the money and the   *)
(* goods of each basket go through the purchase the customer agreed to.    *)
THEOREM VoiceImplementsPurchase == Spec => KeepsThePurchase
  <1>1. Init => IInv /\ Purse /\ Customers!Init
    BY InitInv, InitPurse
  <1>2. IInv /\ Purse /\ [Next]_vars
          => IInv' /\ Purse' /\ [Customers!Next]_(Customers!purchase)
    BY NextInv, NextPurse, StepIsPurchase
  <1> QED
    BY <1>1, <1>2, PTL DEF Spec, KeepsThePurchase, Customers!Spec
=============================================================================

--------------------------- MODULE SequenceProofs ---------------------------
(***************************************************************************)
(* What a recurring sequence promises, proved for any steps, any number of *)
(* customers, runs, crashes and requests: what no run may do to a customer *)
(* who is done, however many runs cross; and, while one thread runs the    *)
(* automation, that each step is accounted for.                            *)
(***************************************************************************)
EXTENDS SequenceEnrollment, WellFoundedInduction, TLAPS

\* No enrollment, step, run or customer is mistaken for none.
Named == Null \notin Enrollment /\ Null \notin Nat /\ Null \notin Run /\ Null \notin Customer

\* One thread runs the automation: the scheduler.
OneRunner == \A v, w \in Worker : v = w

---------------------------------------------------------------------------
(* The steps. *)

LEMMA Steps == N \in Nat /\ N > 0 /\ \A i \in 1 .. N : Offset[i] \in Nat
  BY SequenceAssumption DEF N

LEMMA Days == MaxDay \in Nat /\ CatchUp \in Nat /\ BackDating \subseteq Nat /\ 0 \in 0 .. MaxDay
  BY SequenceAssumption

LEMMA Smallest ==
    ASSUME NEW T \in SUBSET Nat, T # {}
    PROVE  \E x \in T : \A y \in T : x <= y
  <1> DEFINE R == OpToRel(<, Nat)
  <1>1. \A y, x \in Nat : y < x => <<y, x>> \in R
    BY DEF OpToRel
  <1>2. IsWellFoundedOn(R, Nat) BY NatLessThanWellFounded
  <1> HIDE DEF R
  <1>3. PICK x \in T : \A y \in T : ~ (<<y, x>> \in R)
    BY <1>2, WFMin
  <1>4. \A y \in T : ~ (y < x) BY <1>1, <1>3
  <1> QED BY <1>4

\* The catch-up passes over stale steps only, and stops at the first that is not.
LEMMA Catching ==
    ASSUME NEW e \in Enrollment
    PROVE  /\ FreshStep(e) \in e.step .. N
           /\ \A i \in (e.step + 1) .. FreshStep(e) : Stale(e, i)
           /\ FreshStep(e) = N \/ ~ Stale(e, FreshStep(e) + 1)
  <1> DEFINE s == e.step
             T == {k \in s .. N : k = N \/ ~ Stale(e, k + 1)}
  <1>1. s \in Nat /\ s <= N /\ N \in Nat BY Steps DEF Enrollment
  <1>2. N \in T /\ T \in SUBSET Nat BY <1>1
  <1>3. PICK k \in T : \A y \in T : k <= y BY <1>2, Smallest
  <1>4. \A i \in (s + 1) .. k : Stale(e, i)
    <2> SUFFICES ASSUME NEW i \in (s + 1) .. k PROVE Stale(e, i) OBVIOUS
    <2>1. k \in Nat /\ k <= N BY <1>1, <1>3
    <2>2. i - 1 \in s .. N /\ i - 1 < k /\ (i - 1) + 1 = i BY <1>1, <2>1
    <2>3. i - 1 \notin T
      <3>1. ASSUME i - 1 \in T PROVE FALSE
        <4>1. k <= i - 1 BY <1>3, <3>1
        <4> QED BY <2>1, <2>2, <4>1
      <3> QED BY <3>1
    <2> QED BY <2>2, <2>3
  <1>5. \E j \in s .. N :
           /\ \A i \in (s + 1) .. j : Stale(e, i)
           /\ j = N \/ ~ Stale(e, j + 1)
    BY <1>3, <1>4
  <1> QED BY <1>5 DEF FreshStep

LEMMA Choosing ==
    ASSUME NEW e \in Enrollment, Named
    PROVE  Candidate(e) # Null =>
             /\ Candidate(e) \in 1 .. N
             /\ Candidate(e) = FreshStep(e) + 1
             /\ ~ Stale(e, Candidate(e))
  <1>1. e.step \in Nat /\ N \in Nat BY Steps DEF Enrollment
  <1> QED BY <1>1, Catching DEF Candidate

---------------------------------------------------------------------------
(* The inductive invariant, for any number of runs. *)

\* What a run will find of a customer once it has committed.
Row(u, c) == IF u.new[c] # Null THEN u.new[c] ELSE enr[c]

\* Nobody else has inserted whom a run inserts.
Inserts(w) == \A c \in Customer : run[w].new[c] # Null =>
    /\ enr[c] = Null
    /\ run[w].new[c].step = 0
    /\ \A v \in Worker \ {w} : run[v] # Null => run[v].new[c] = Null

Knows(w) == \A c \in Customer :
    run[w].todo[c] # Null \/ run[w].out[c] # Null \/ run[w].skip[c] # Null => Row(run[w], c) # Null

Advancing(w) == run[w].pc = "advance" => \A c \in Customer :
    run[w].todo[c] = Null /\ run[w].new[c] = Null /\ run[w].skip[c] = Null

Previews(w) == run[w].dry => \A c \in Customer : run[w].out[c] = Null /\ run[w].new[c] = Null

\* Whoever has been let through is still to be sent their step.
Through(w) == run[w].cur # Null => ~ run[w].dry /\ run[w].todo[run[w].cur] # Null

RunInv(w) == run[w] # Null =>
    Inserts(w) /\ Knows(w) /\ Advancing(w) /\ Previews(w) /\ Through(w)

\* A request is about somebody who is enrolled, and was not done when it was loaded.
Asked(o) == holding[o] # Null =>
    holding[o].customer \in Enrolled /\ holding[o].read \notin Done

Inv ==
    /\ TypeOK
    /\ \A w \in Worker : RunInv(w)
    /\ \A o \in Operator : Asked(o)

\* What happens to those who are enrolled: they stay where and since when they
\* are, and only their status changes, not from done unless by an overtaken request.
Keeps(c) ==
    /\ enr'[c] # Null
    /\ enr'[c].joined = enr[c].joined /\ enr'[c].back = enr[c].back
    /\ enr[c].status \in Done =>
         enr'[c].status \in Done \/ \E o \in Operator : Overtaken(o, c)

LEMMA AskedKept ==
    ASSUME Inv, UNCHANGED holding, \A c \in Enrolled : enr'[c] # Null
    PROVE  \A o \in Operator : Asked(o)'
  BY DEF Inv, Asked, Enrolled

---------------------------------------------------------------------------
(* The beginning of a run. *)

\* Whoever joins is new and at the first step.
LEMMA JoiningIs ==
    ASSUME TypeOK, Named, NEW joining \in Joining
    PROVE  /\ joining \in [Customer -> Enrollment \cup {Null}]
           /\ \A c \in Customer : joining[c] # Null =>
                c \notin Enrolled \cup Inserting /\ joining[c].step = 0
  <1>1. CASE joining = [c \in Customer |-> Null] BY <1>1
  <1>2. CASE joining # [c \in Customer |-> Null]
    <2>1. /\ joining \in [Customer -> {Null} \cup {NewEnrollment(b) : b \in BackDating}]
          /\ \A c \in Enrolled \cup Inserting : joining[c] = Null
      BY <1>2 DEF Joining
    <2>2. \A b \in BackDating : NewEnrollment(b) \in Enrollment /\ NewEnrollment(b).step = 0
      BY Steps DEF NewEnrollment, Enrollment, Status, TypeOK
    <2> QED BY <2>1, <2>2
  <1> QED BY <1>1, <1>2

\* What a run has in hand once it began: `u` is the run, or nothing if refused.
LEMMA Begun ==
    ASSUME Inv, Named, NEW w \in Worker, NEW dry \in BOOLEAN,
           NEW joining \in [Customer -> Enrollment \cup {Null}],
           \A c \in Customer : joining[c] # Null =>
               c \notin Enrolled \cup Inserting /\ joining[c].step = 0,
           dry => \A c \in Customer : joining[c] = Null,
           Begin(w, dry, joining)
    PROVE  /\ enr' \in [Customer -> Enrollment \cup {Null}]
           /\ \A c \in Enrolled : Keeps(c) /\ enr'[c].step = enr[c].step
           /\ \A c \in Customer \ Enrolled :
                enr'[c] # Null => c \notin Inserting /\ enr'[c].step = 0
           /\ \/ run' = run
              \/ \E u \in Run :
                   /\ run' = [run EXCEPT ![w] = u]
                   /\ u.pc = "sending" /\ u.cur = Null
                   /\ \A c \in Customer :
                        /\ u.out[c] = Null
                        /\ u.new[c] # Null => ~ u.dry /\ enr'[c] = Null /\ u.new[c].step = 0 /\ c \notin Inserting
                        /\ LET row == IF u.new[c] # Null THEN u.new[c] ELSE enr'[c] IN
                           /\ u.skip[c] # Null => row # Null /\ u.skip[c] = FreshStep(row)
                           /\ u.skip[c] = Null /\ u.todo[c] # Null => row.step = FreshStep(row)
                           /\ u.todo[c] # Null => row # Null /\ u.todo[c] = Candidate(row)
  <1> DEFINE seen == [c \in Customer |->
                        IF dry \/ joining[c] = Null THEN enr[c] ELSE joining[c]]
             active == {c \in Customer : seen[c] # Null /\ seen[c].status = "ACTIVE"}
             stopped == {c \in active : MustStop(c)}
             after == [c \in Customer |->
                         IF c \in stopped THEN [seen[c] EXCEPT !.status = "STOPPED"]
                         ELSE seen[c]]
             commits == ~ dry /\ stopped # {}
             going == active \ stopped
             new == IF dry \/ commits THEN [c \in Customer |-> Null] ELSE joining
             skip == [c \in Customer |->
                        IF c \in going /\ FreshStep(seen[c]) # seen[c].step
                        THEN FreshStep(seen[c]) ELSE Null]
             todo == [c \in Customer |-> IF c \in going THEN Candidate(seen[c]) ELSE Null]
             u == [pc |-> "sending", dry |-> dry, now |-> clock, new |-> new,
                   stop |-> IF dry THEN stopped ELSE {}, skip |-> skip, todo |-> todo,
                   claims |-> claimed, cur |-> Null, out |-> [c \in Customer |-> Null]]
  <1>1. /\ enr' = IF commits THEN after ELSE enr
        /\ run' = IF ~ dry /\ status # "ACTIVE" THEN run ELSE [run EXCEPT ![w] = u]
    BY DEF Begin
  <1>2. enr \in [Customer -> Enrollment \cup {Null}] /\ claimed \subseteq Customer \X (0 .. MaxDay)
        /\ clock \in 0 .. MaxDay
    BY DEF Inv, TypeOK
  <1>3. \A c \in Customer : seen[c] \in Enrollment \cup {Null} BY <1>2
  <1>4. \A c \in Enrolled : joining[c] = Null /\ seen[c] = enr[c] /\ enr[c] \in Enrollment
    BY <1>2 DEF Enrolled
  <1>5. \A c \in Customer : c \in stopped => seen[c] \in Enrollment BY <1>3
  <1>6. \A c \in Customer : c \in stopped =>
          /\ after[c] \in Enrollment /\ after[c].status = "STOPPED" /\ after[c].step = seen[c].step
          /\ after[c].joined = seen[c].joined /\ after[c].back = seen[c].back
    BY <1>5 DEF Enrollment, Status
  <1>7. \A c \in Customer : c \notin stopped => after[c] = seen[c] OBVIOUS
  <1> HIDE DEF after
  <1>8. after \in [Customer -> Enrollment \cup {Null}]
    <2>1. after = [c \in Customer |-> after[c]] BY DEF after
    <2> QED BY <1>3, <1>6, <1>7, <2>1
  <1>9. enr' \in [Customer -> Enrollment \cup {Null}] BY <1>1, <1>2, <1>8
  <1>10. \A c \in Enrolled : Keeps(c) /\ enr'[c].step = enr[c].step
    <2> SUFFICES ASSUME NEW c \in Enrolled PROVE Keeps(c) /\ enr'[c].step = enr[c].step OBVIOUS
    <2>1. c \in Customer BY DEF Enrolled
    <2>2. CASE ~ commits BY <1>1, <1>4, <2>1, <2>2 DEF Keeps, Enrolled
    <2>3. CASE commits /\ c \in stopped BY <1>1, <1>4, <1>6, <2>1, <2>3 DEF Keeps, Named, Done
    <2>4. CASE commits /\ c \notin stopped BY <1>1, <1>4, <1>7, <2>1, <2>4 DEF Keeps, Enrolled
    <2> QED BY <2>2, <2>3, <2>4
  <1>11. \A c \in Customer \ Enrolled : enr'[c] # Null => c \notin Inserting /\ enr'[c].step = 0
    <2> SUFFICES ASSUME NEW c \in Customer \ Enrolled, enr'[c] # Null
                 PROVE  c \notin Inserting /\ enr'[c].step = 0
      OBVIOUS
    <2>1. enr[c] = Null BY DEF Enrolled
    <2>2. commits /\ enr'[c] = after[c] BY <1>1, <2>1
    <2>3. seen[c] # Null BY <1>3, <1>5, <1>7, <2>2 DEF Named
    <2>4. joining[c] # Null /\ seen[c] = joining[c] BY <2>1, <2>3
    <2> QED BY <1>6, <1>7, <2>2, <2>4
  <1>12. CASE run' = run BY <1>9, <1>10, <1>11, <1>12
  <1>13. CASE run' = [run EXCEPT ![w] = u]
    <2>1. \A c \in Customer : c \in going => seen[c] \in Enrollment BY <1>3
    <2>2. \A c \in Customer : skip[c] \in (0 .. N) \cup {Null}
      <3>1. \A e \in Enrollment : e.step \in Nat BY DEF Enrollment
      <3> QED BY <2>1, <3>1, Catching, Steps
    <2>3. \A c \in Customer : todo[c] \in (1 .. N) \cup {Null} BY <2>1, Choosing
    <2>4. new \in [Customer -> Enrollment \cup {Null}] OBVIOUS
    <2>5. skip \in [Customer -> (0 .. N) \cup {Null}] /\ todo \in [Customer -> (1 .. N) \cup {Null}]
      BY <2>2, <2>3
    <2>6. stopped \in SUBSET Customer OBVIOUS
    <2> HIDE DEF new, skip, todo, stopped
    <2>7. u \in Run BY <1>2, <2>4, <2>5, <2>6 DEF Run
    <2>8. u.pc = "sending" /\ u.dry = dry /\ u.new = new /\ u.skip = skip /\ u.todo = todo
          /\ u.out = [c \in Customer |-> Null] /\ u.cur = Null
      OBVIOUS
    <2> HIDE DEF u
    <2>9. ASSUME NEW c \in Customer
          PROVE  /\ u.out[c] = Null
                 /\ u.new[c] # Null => ~ u.dry /\ enr'[c] = Null /\ u.new[c].step = 0 /\ c \notin Inserting
                 /\ LET row == IF u.new[c] # Null THEN u.new[c] ELSE enr'[c] IN
                    /\ u.skip[c] # Null => row # Null /\ u.skip[c] = FreshStep(row)
                    /\ u.skip[c] = Null /\ u.todo[c] # Null => row.step = FreshStep(row)
                    /\ u.todo[c] # Null => row # Null /\ u.todo[c] = Candidate(row)
      <3>1. new[c] # Null => ~ dry /\ ~ commits /\ new[c] = joining[c] BY DEF new
      <3>2. new[c] # Null => enr'[c] = Null /\ seen[c] = new[c] BY <1>1, <3>1 DEF Enrolled
      <3>3. c \in going => seen[c] = IF new[c] # Null THEN new[c] ELSE enr'[c]
        <4>1. CASE new[c] # Null BY <3>2, <4>1
        <4>2. CASE new[c] = Null /\ commits BY <1>1, <1>7, <4>2
        <4>3. CASE new[c] = Null /\ ~ commits BY <1>1, <4>3 DEF new
        <4> QED BY <4>1, <4>2, <4>3
      <3>4. skip[c] # Null => c \in going /\ skip[c] = FreshStep(seen[c]) BY DEF skip
      <3>5. todo[c] # Null => c \in going /\ todo[c] = Candidate(seen[c]) BY DEF todo
      <3>6. skip[c] = Null /\ c \in going => FreshStep(seen[c]) = seen[c].step
        <4>1. c \in going => FreshStep(seen[c]) \in Nat
          <5>1. \A e \in Enrollment : e.step \in Nat BY DEF Enrollment
          <5> QED BY <2>1, <5>1, Catching, Steps
        <4> QED BY <4>1 DEF skip, Named
      <3>7. c \in going => seen[c] # Null OBVIOUS
      <3> HIDE DEF seen, going, commits
      <3> QED BY <2>8, <3>1, <3>2, <3>3, <3>4, <3>5, <3>6, <3>7
    <2> QED BY <1>9, <1>10, <1>11, <1>13, <2>7, <2>8, <2>9
  <1> QED BY <1>1, <1>12, <1>13

LEMMA HowBegun ==
    ASSUME Inv, Named, NEW w \in Worker, BeginLive(w) \/ BeginDry(w)
    PROVE  \E dry \in BOOLEAN, joining \in [Customer -> Enrollment \cup {Null}] :
             /\ Begin(w, dry, joining)
             /\ dry => \A c \in Customer : joining[c] = Null
             /\ \A c \in Customer : joining[c] # Null =>
                  c \notin Enrolled \cup Inserting /\ joining[c].step = 0
  <1>1. CASE BeginLive(w) BY <1>1, JoiningIs DEF BeginLive, Inv
  <1>2. CASE BeginDry(w)
    <2>1. Begin(w, TRUE, [c \in Customer |-> Null]) BY <1>2 DEF BeginDry
    <2>2. [c \in Customer |-> Null] \in [Customer -> Enrollment \cup {Null}] OBVIOUS
    <2> QED BY <2>1, <2>2
  <1> QED BY <1>1, <1>2

LEMMA BeginKeeps ==
    ASSUME Inv, Named, NEW w \in Worker, BeginLive(w) \/ BeginDry(w)
    PROVE  Inv' /\ \A c \in Enrolled : Keeps(c)
  <1>1. PICK dry \in BOOLEAN, joining \in [Customer -> Enrollment \cup {Null}] :
           /\ Begin(w, dry, joining)
           /\ dry => \A c \in Customer : joining[c] = Null
           /\ \A c \in Customer : joining[c] # Null =>
                c \notin Enrolled \cup Inserting /\ joining[c].step = 0
    BY HowBegun
  <1>2. /\ enr' \in [Customer -> Enrollment \cup {Null}]
        /\ \A c \in Enrolled : Keeps(c)
        /\ \A c \in Customer \ Enrolled : enr'[c] # Null => c \notin Inserting
    BY <1>1, Begun
  <1>3. run[w] = Null /\ ordered' \subseteq ordered
        /\ UNCHANGED <<clock, status, optedOut, claimed, recorded, calls, spent, holding, revived>>
    BY <1>1 DEF Begin, ledger, requests
  <1>6. \A o \in Operator : Asked(o)' BY <1>2, <1>3, AskedKept DEF Keeps
  <1>4. CASE run' = run
    <2>1. \A v \in Worker : RunInv(v)'
      <3> SUFFICES ASSUME NEW v \in Worker, run[v] # Null PROVE RunInv(v)' BY <1>4 DEF RunInv
      <3>1. RunInv(v) BY DEF Inv
      <3>2. \A c \in Customer : run[v].new[c] # Null => enr'[c] = Null
        BY <1>2, <3>1 DEF RunInv, Inserts, Inserting, Enrolled
      <3>3. \A c \in Customer : enr[c] # Null => enr'[c] # Null BY <1>2 DEF Keeps, Enrolled
      <3> QED BY <1>4, <3>1, <3>2, <3>3 DEF RunInv, Inserts, Knows, Advancing, Previews, Through, Row
    <2> QED BY <1>2, <1>3, <1>4, <1>6, <2>1 DEF Inv, TypeOK
  <1>5. CASE run' # run
    <2>1. PICK u \in Run :
            /\ run' = [run EXCEPT ![w] = u]
            /\ u.pc = "sending" /\ u.cur = Null
            /\ \A c \in Customer :
                 /\ u.out[c] = Null
                 /\ u.new[c] # Null => ~ u.dry /\ enr'[c] = Null /\ u.new[c].step = 0 /\ c \notin Inserting
                 /\ LET row == IF u.new[c] # Null THEN u.new[c] ELSE enr'[c] IN
                    /\ u.skip[c] # Null => row # Null
                    /\ u.todo[c] # Null => row # Null
      BY <1>1, <1>5, Begun
    <2>2. run'[w] = u /\ \A v \in Worker \ {w} : run'[v] = run[v] BY <2>1 DEF Inv, TypeOK
    <2>3. RunInv(w)'
      <3>1. Inserts(w)' BY <2>1, <2>2 DEF Inserts, Inserting
      <3>2. Knows(w)' BY <2>1, <2>2 DEF Knows, Row
      <3>3. Advancing(w)' /\ Previews(w)' /\ Through(w)'
        BY <2>1, <2>2 DEF Advancing, Previews, Through
      <3> QED BY <3>1, <3>2, <3>3 DEF RunInv
    <2>4. ASSUME NEW v \in Worker \ {w} PROVE RunInv(v)'
      <3> SUFFICES ASSUME run[v] # Null PROVE RunInv(v)' BY <2>2 DEF RunInv
      <3>1. RunInv(v) BY DEF Inv
      <3>2. \A c \in Customer : run[v].new[c] # Null => enr'[c] = Null /\ c \in Inserting
        BY <1>2, <3>1 DEF RunInv, Inserts, Inserting, Enrolled
      <3>3. \A c \in Customer : enr[c] # Null => enr'[c] # Null BY <1>2 DEF Keeps, Enrolled
      <3>4. Inserts(v)' BY <2>1, <2>2, <3>1, <3>2 DEF RunInv, Inserts
      <3> QED BY <2>2, <3>1, <3>3, <3>4 DEF RunInv, Knows, Advancing, Previews, Through, Row
    <2>5. TypeOK' BY <1>2, <1>3, <2>1 DEF Inv, TypeOK
    <2> QED BY <1>2, <1>6, <2>3, <2>4, <2>5 DEF Inv
  <1> QED BY <1>4, <1>5

---------------------------------------------------------------------------
(* The other steps. *)

\* A step that leaves the runs alone and inserts nobody a run is inserting.
LEMMA RunsUndisturbed ==
    ASSUME Inv, UNCHANGED run,
           \A c \in Enrolled : enr'[c] # Null,
           \A c \in Inserting : enr[c] = Null => enr'[c] = Null
    PROVE  \A w \in Worker : RunInv(w)'
  <1> SUFFICES ASSUME NEW w \in Worker, run[w] # Null PROVE RunInv(w)' BY DEF RunInv
  <1>1. RunInv(w) BY DEF Inv
  <1>2. Inserts(w)' BY <1>1 DEF RunInv, Inserts, Inserting
  <1>3. Knows(w)' BY <1>1 DEF RunInv, Knows, Row, Enrolled
  <1> QED BY <1>1, <1>2, <1>3 DEF RunInv, Advancing, Previews, Through

LEMMA StatusSet ==
    ASSUME Inv, Named, NEW c \in Enrolled, NEW s \in Status, SetStatus(c, s)
    PROVE  /\ enr' \in [Customer -> Enrollment \cup {Null}]
           /\ enr'[c] # Null /\ enr'[c].status = s /\ enr'[c].step = enr[c].step
           /\ enr'[c].joined = enr[c].joined /\ enr'[c].back = enr[c].back
           /\ \A d \in Customer \ {c} : enr'[d] = enr[d]
  <1>1. c \in Customer /\ enr[c] \in Enrollment BY DEF Enrolled, Inv, TypeOK
  <1>2. [enr[c] EXCEPT !.status = s] \in Enrollment BY <1>1 DEF Enrollment
  <1>3. enr' = [enr EXCEPT ![c] = [enr[c] EXCEPT !.status = s]] BY DEF SetStatus
  <1> QED BY <1>1, <1>2, <1>3 DEF Inv, TypeOK, Enrollment, Named

LEMMA Spending ==
    ASSUME TypeOK, NEW x \in DOMAIN spent, NEW max, Spend(x, max)
    PROVE  /\ spent' \in [{"crashes", "controls", "optIns", "others", "held", "orders"} -> Nat]
           /\ spent'[x] = spent[x] + 1
           /\ \A y \in DOMAIN spent : y # x => spent'[y] = spent[y]
  BY DEF TypeOK, Spend

\* Requests move nobody to another step.
LEMMA RequestKeeps ==
    ASSUME Inv, Named, NEW c \in Customer, Request(c)
    PROVE  /\ Inv' /\ \A d \in Enrolled : Keeps(d) /\ enr'[d].step = enr[d].step
           /\ \A d \in Customer \ Enrolled :
                enr'[d] # Null => d \notin Inserting /\ enr'[d].step = 0
           /\ UNCHANGED <<run, calls>> /\ spent'["crashes"] = spent["crashes"]
  <1> USE DEF Inv
  <1>1. ASSUME NEW o \in Operator, PauseEnrollment(o, c) \/ ResumeEnrollment(o, c)
        PROVE  /\ Inv' /\ UNCHANGED <<enr, run, calls>> /\ spent'["crashes"] = spent["crashes"]
    <2>1. PICK to \in {"ACTIVE", "PAUSED"} : c \in Enrolled /\ enr[c].status \notin Done /\ Ask(o, c, to)
      BY <1>1 DEF PauseEnrollment, ResumeEnrollment, MayPause, MayResume, Done
    <2>2. spent' \in [{"crashes", "controls", "optIns", "others", "held", "orders"} -> Nat]
          /\ spent'["crashes"] = spent["crashes"]
      BY <2>1, Spending DEF Ask, TypeOK
    <2>3. UNCHANGED <<clock, status, enr, optedOut, ordered, claimed, recorded, calls, run, revived>>
      BY <2>1 DEF Ask, people, ledger
    <2> DEFINE h == [customer |-> c, read |-> enr[c].status, to |-> to]
    <2>4. h \in Held
      <3>1. enr[c] \in Enrollment BY <2>1 DEF Enrolled, TypeOK
      <3>2. enr[c].status \in Status BY <3>1 DEF Enrollment
      <3> QED BY <2>1, <3>2 DEF Held
    <2>5. holding' = [holding EXCEPT ![o] = h] BY <2>1 DEF Ask
    <2>6. h.customer = c /\ h.read = enr[c].status OBVIOUS
    <2> HIDE DEF h
    <2>7. \A p \in Operator : Asked(p)'
      BY <2>1, <2>3, <2>5, <2>6 DEF Asked, Enrolled, TypeOK
    <2>8. \A w \in Worker : RunInv(w)' BY <2>3, RunsUndisturbed DEF Enrolled
    <2>9. TypeOK' BY <2>2, <2>3, <2>4, <2>5 DEF TypeOK
    <2> QED BY <2>2, <2>3, <2>7, <2>8, <2>9
  <1>2. CASE AddEnrollment(c)
    <2>1. PICK b \in BackDating : enr' = [enr EXCEPT ![c] = NewEnrollment(b)]
      BY <1>2 DEF AddEnrollment
    <2>2. NewEnrollment(b) \in Enrollment /\ NewEnrollment(b).step = 0
      BY Steps DEF NewEnrollment, Enrollment, Status, TypeOK
    <2>3. c \notin Enrolled \cup Inserting BY <1>2 DEF AddEnrollment, MayAdd
    <2>4. spent' \in [{"crashes", "controls", "optIns", "others", "held", "orders"} -> Nat]
          /\ spent'["crashes"] = spent["crashes"]
      BY <1>2, Spending DEF AddEnrollment, TypeOK
    <2>5. \A d \in Enrolled : Keeps(d) /\ enr'[d].step = enr[d].step
      BY <2>1, <2>3 DEF Keeps, Enrolled, TypeOK
    <2>6. \A d \in Customer \ Enrolled : enr'[d] # Null => d \notin Inserting /\ enr'[d].step = 0
      BY <2>1, <2>2, <2>3 DEF Enrolled, TypeOK
    <2>7. UNCHANGED <<clock, status, optedOut, claimed, recorded, calls, run, holding, revived>>
          /\ ordered' \subseteq ordered
      BY <1>2 DEF AddEnrollment, ledger, requests
    <2>8. \A w \in Worker : RunInv(w)'
      BY <2>5, <2>6, <2>7, RunsUndisturbed DEF Keeps, Enrolled, Inserting
    <2>9. TypeOK' BY <2>1, <2>2, <2>4, <2>7 DEF TypeOK
    <2>10. \A o \in Operator : Asked(o)' BY <2>5, <2>7, AskedKept DEF Keeps
    <2> QED BY <2>4, <2>5, <2>6, <2>7, <2>8, <2>9, <2>10
  <1>3. CASE OptOut(c)
    <2>1. spent' \in [{"crashes", "controls", "optIns", "others", "held", "orders"} -> Nat]
          /\ spent'["crashes"] = spent["crashes"]
      BY <1>3, Spending DEF OptOut, TypeOK
    <2>2. UNCHANGED <<clock, status, ordered, claimed, recorded, calls, run, holding, revived>>
          /\ optedOut' \subseteq Customer
      BY <1>3 DEF OptOut, ledger, requests, TypeOK
    <2>3. /\ enr' \in [Customer -> Enrollment \cup {Null}]
          /\ \A d \in Enrolled : Keeps(d) /\ enr'[d].step = enr[d].step
          /\ \A d \in Customer \ Enrolled : enr'[d] = Null
      <3>1. CASE UNCHANGED enr BY <3>1 DEF Keeps, Enrolled, TypeOK
      <3>2. CASE c \in Enrolled /\ SetStatus(c, "STOPPED")
        <4>1. "STOPPED" \in Status BY DEF Status
        <4> QED BY <3>2, <4>1, StatusSet DEF Keeps, Enrolled, Done
      <3> QED BY <1>3, <3>1, <3>2 DEF OptOut, Enrolled
    <2>4. \A w \in Worker : RunInv(w)'
      BY <2>2, <2>3, RunsUndisturbed DEF Keeps, Enrolled, Inserting
    <2>5. \A o \in Operator : Asked(o)' BY <2>2, <2>3, AskedKept DEF Keeps
    <2>6. TypeOK' BY <2>1, <2>2, <2>3 DEF TypeOK
    <2> QED BY <2>1, <2>2, <2>3, <2>4, <2>5, <2>6
  <1>4. CASE OptIn(c) \/ PlaceOrder(c) \/ OtherMessage(c)
    <2>1. spent' \in [{"crashes", "controls", "optIns", "others", "held", "orders"} -> Nat]
          /\ spent'["crashes"] = spent["crashes"]
      BY <1>4, Spending DEF OptIn, PlaceOrder, OtherMessage, TypeOK
    <2>2. UNCHANGED <<clock, status, enr, recorded, calls, run, holding, revived>>
          /\ ordered' \subseteq Customer /\ optedOut' \subseteq Customer
          /\ claimed' \subseteq Customer \X (0 .. MaxDay)
      BY <1>4 DEF OptIn, PlaceOrder, OtherMessage, ledger, people, requests, TypeOK
    <2>3. \A w \in Worker : RunInv(w)' BY <2>2, RunsUndisturbed DEF Enrolled
    <2>4. TypeOK' BY <2>1, <2>2 DEF TypeOK
    <2>5. \A o \in Operator : Asked(o)' BY <2>2, AskedKept DEF Enrolled
    <2> QED BY <2>1, <2>2, <2>3, <2>4, <2>5 DEF Keeps, Enrolled
  <1>5. CASE \E o \in Operator : PauseEnrollment(o, c) \/ ResumeEnrollment(o, c)
    BY <1>1, <1>5 DEF Keeps, Enrolled
  <1> QED BY <1>2, <1>3, <1>4, <1>5 DEF Request

\* The answer to a request moves nobody either, and takes up somebody who is done
\* only when the request has been overtaken.
LEMMA AnswerKeeps ==
    ASSUME Inv, Named, NEW o \in Operator, Answer(o)
    PROVE  /\ Inv' /\ \A d \in Enrolled : Keeps(d) /\ enr'[d].step = enr[d].step
           /\ \A d \in Customer \ Enrolled : enr'[d] = Null
           /\ UNCHANGED <<run, calls, optedOut, spent>>
           /\ \A d \in Customer : enr'[d] = enr[d] \/ enr'[d].status \in {"ACTIVE", "PAUSED"}
  <1> USE DEF Inv
  <1> DEFINE c == holding[o].customer
             s == holding[o].to
  <1>1. holding[o] # Null /\ SetStatus(c, s) /\ holding' = [holding EXCEPT ![o] = Null]
        /\ UNCHANGED <<clock, status, optedOut, ordered, claimed, recorded, calls, run, spent>>
    BY DEF Answer, ledger
  <1>2. holding[o] \in Held /\ Asked(o) BY <1>1 DEF TypeOK
  <1>3. c \in Enrolled /\ c \in Customer /\ s \in {"ACTIVE", "PAUSED"} /\ s \in Status
        /\ holding[o].read \notin Done
    BY <1>1, <1>2 DEF Asked, Held, Status
  <1>4. revived' \subseteq Customer
    <2>1. revived' \subseteq revived \cup {c} BY DEF Answer
    <2> QED BY <1>3, <2>1 DEF TypeOK
  <1> HIDE DEF s
  <1>5. Overtaken(o, c)
    BY <1>1, <1>3 DEF Overtaken, TypeOK
  <1> HIDE DEF c
  <1>6. /\ enr' \in [Customer -> Enrollment \cup {Null}]
        /\ enr'[c] # Null /\ enr'[c].status = s /\ enr'[c].step = enr[c].step
        /\ enr'[c].joined = enr[c].joined /\ enr'[c].back = enr[c].back
        /\ \A d \in Customer \ {c} : enr'[d] = enr[d]
    BY <1>1, <1>3, StatusSet
  <1>7. \A d \in Enrolled : Keeps(d) /\ enr'[d].step = enr[d].step
    BY <1>3, <1>5, <1>6 DEF Keeps, Enrolled
  <1>8. \A d \in Customer \ Enrolled : enr'[d] = Null BY <1>3, <1>6 DEF Enrolled
  <1>9. \A w \in Worker : RunInv(w)'
    BY <1>1, <1>7, <1>8, RunsUndisturbed DEF Keeps, Enrolled, Inserting
  <1>10. \A p \in Operator : Asked(p)'
    <2>1. \A p \in Operator : holding'[p] # Null => holding'[p] = holding[p] BY <1>1 DEF TypeOK
    <2> QED BY <1>7, <2>1 DEF Asked, Keeps, Enrolled
  <1>11. TypeOK' BY <1>1, <1>4, <1>6 DEF TypeOK
  <1> QED BY <1>1, <1>3, <1>6, <1>7, <1>8, <1>9, <1>10, <1>11

\* Nor do operators and time.
LEMMA ElseKeeps ==
    ASSUME Inv, SetAutomation \/ Tick \/ UNCHANGED vars
    PROVE  /\ Inv' /\ UNCHANGED <<run, calls, enr>> /\ spent'["crashes"] = spent["crashes"]
           /\ \A c \in Enrolled : Keeps(c)
  <1> USE DEF Inv
  <1>1. UNCHANGED <<run, calls, enr, recorded, optedOut, ordered, holding, revived>>
    BY DEF SetAutomation, Tick, vars, people, ledger, requests
  <1>2. \A w \in Worker : RunInv(w)' BY <1>1, RunsUndisturbed DEF Enrolled
  <1>3. spent' \in [{"crashes", "controls", "optIns", "others", "held", "orders"} -> Nat]
        /\ spent'["crashes"] = spent["crashes"]
    BY Spending DEF SetAutomation, Tick, vars, TypeOK
  <1>4. clock' \in 0 .. MaxDay
    BY Days DEF SetAutomation, Tick, vars, TypeOK
  <1>5. status' \in {"ACTIVE", "PAUSED", "COMPLETED"} /\ claimed' \subseteq Customer \X (0 .. MaxDay)
    BY DEF SetAutomation, Tick, vars, ledger, TypeOK
  <1>6. TypeOK' BY <1>1, <1>3, <1>4, <1>5 DEF TypeOK
  <1>7. \A o \in Operator : Asked(o)' BY <1>1, AskedKept DEF Enrolled
  <1> QED BY <1>1, <1>2, <1>3, <1>6, <1>7 DEF Keeps, Enrolled

---------------------------------------------------------------------------
(* The rest of a run. *)

\* One customer's turn: let through or not, and then sent or not.
Dispatch(w) == Gate(w) \/ Call(w)

LEMMA Dispatched ==
    ASSUME Inv, Named, NEW w \in Worker, Dispatch(w)
    PROVE  \E c \in Customer, u \in Run :
             /\ run[w] \in Run /\ run[w].todo[c] \in 1 .. N /\ run[w].pc = "sending"
             /\ run' = [run EXCEPT ![w] = u]
             /\ u.pc = "sending" /\ u.dry = run[w].dry /\ u.new = run[w].new /\ u.skip = run[w].skip
             /\ \A d \in Customer : u.todo[d] # Null => u.todo[d] = run[w].todo[d]
             /\ \/ /\ ~ run[w].dry /\ run[w].cur = c /\ u.cur = Null
                   /\ u.todo = [run[w].todo EXCEPT ![c] = Null]
                   /\ u.out = [run[w].out EXCEPT ![c] = run[w].todo[c]]
                   /\ calls' = [calls EXCEPT ![c][run[w].todo[c]] = @ + 1]
                \/ /\ u.out = run[w].out /\ UNCHANGED calls
                   /\ \/ u.cur = Null
                      \/ u.cur = c /\ u.todo = run[w].todo /\ ~ run[w].dry /\ c \notin optedOut
  <1>1. run[w] \in Run /\ run[w].pc = "sending" /\ RunInv(w) /\ run[w] # Null
    BY DEF Dispatch, Gate, Call, Inv, TypeOK
  <1>2. ASSUME NEW c \in Customer, run[w].todo[c] # Null, UNCHANGED calls,
               run' = [run EXCEPT ![w].cur = Null, ![w].todo[c] = Null]
                 \/ (run' = [run EXCEPT ![w].todo[c] = Null] /\ run[w].cur = Null)
        PROVE  \E u \in Run :
                 /\ run' = [run EXCEPT ![w] = u]
                 /\ u.pc = "sending" /\ u.dry = run[w].dry /\ u.new = run[w].new /\ u.skip = run[w].skip
                 /\ \A d \in Customer : u.todo[d] # Null => u.todo[d] = run[w].todo[d]
                 /\ u.out = run[w].out /\ u.cur = Null
    <2> DEFINE t == [run[w].todo EXCEPT ![c] = Null]
               u == [run[w] EXCEPT !.cur = Null, !.todo = t]
    <2>1. run' = [run EXCEPT ![w] = u] BY <1>1, <1>2 DEF Inv, TypeOK, Run
    <2>2. t \in [Customer -> (1 .. N) \cup {Null}]
          /\ \A d \in Customer : t[d] # Null => t[d] = run[w].todo[d]
      BY <1>1 DEF Run
    <2> HIDE DEF t
    <2>3. u \in Run BY <1>1, <2>2 DEF Run
    <2>4. /\ u.pc = "sending" /\ u.dry = run[w].dry /\ u.new = run[w].new /\ u.skip = run[w].skip
          /\ u.todo = t /\ u.out = run[w].out /\ u.cur = Null
      BY <1>1 DEF Run
    <2> HIDE DEF u
    <2> QED BY <2>1, <2>2, <2>3, <2>4
  <1>3. CASE Gate(w)
    <2>1. PICK c \in Customer :
            /\ run[w].todo[c] # Null /\ run[w].cur = Null
            /\ run' = IF run[w].dry \/ ~ MayReceive(w, c)
                      THEN [run EXCEPT ![w].todo[c] = Null]
                      ELSE [run EXCEPT ![w].cur = c]
      BY <1>3 DEF Gate
    <2>2. UNCHANGED calls /\ run[w].todo[c] \in 1 .. N BY <1>1, <1>3, <2>1 DEF Gate, Run
    <2>3. CASE run' = [run EXCEPT ![w].todo[c] = Null]
      BY <1>1, <1>2, <2>1, <2>2, <2>3
    <2>4. CASE run' = [run EXCEPT ![w].cur = c] /\ ~ run[w].dry /\ MayReceive(w, c)
      <3> DEFINE u == [run[w] EXCEPT !.cur = c]
      <3>1. run' = [run EXCEPT ![w] = u] BY <1>1, <2>4 DEF Inv, TypeOK, Run
      <3>2. u \in Run BY <1>1 DEF Run
      <3>3. /\ u.pc = "sending" /\ u.dry = run[w].dry /\ u.new = run[w].new /\ u.skip = run[w].skip
            /\ u.todo = run[w].todo /\ u.out = run[w].out /\ u.cur = c
        BY <1>1 DEF Run
      <3> HIDE DEF u
      <3>4. c \notin optedOut BY <2>4 DEF MayReceive
      <3> QED BY <1>1, <2>2, <2>4, <3>1, <3>2, <3>3, <3>4
    <2> QED BY <2>1, <2>3, <2>4
  <1>4. CASE Call(w)
    <2> DEFINE c == run[w].cur
    <2>1. c # Null BY <1>4 DEF Call
    <2>2. c \in Customer BY <1>1, <2>1 DEF Run
    <2>3. ~ run[w].dry /\ run[w].todo[c] # Null /\ run[w].todo[c] \in 1 .. N
      BY <1>1, <2>1, <2>2 DEF RunInv, Through, Run
    <2>4. \/ /\ calls' = [calls EXCEPT ![c][run[w].todo[c]] = @ + 1]
             /\ run' = [run EXCEPT ![w].cur = Null, ![w].todo[c] = Null,
                                   ![w].out[c] = run[w].todo[c]]
          \/ /\ run' = [run EXCEPT ![w].cur = Null, ![w].todo[c] = Null]
             /\ UNCHANGED calls
      BY <1>4 DEF Call
    <2>5. CASE run' = [run EXCEPT ![w].cur = Null, ![w].todo[c] = Null] /\ UNCHANGED calls
      BY <1>1, <1>2, <2>2, <2>3, <2>5
    <2>6. CASE /\ calls' = [calls EXCEPT ![c][run[w].todo[c]] = @ + 1]
               /\ run' = [run EXCEPT ![w].cur = Null, ![w].todo[c] = Null,
                                     ![w].out[c] = run[w].todo[c]]
      <3> DEFINE t == [run[w].todo EXCEPT ![c] = Null]
                 o == [run[w].out EXCEPT ![c] = run[w].todo[c]]
                 u == [run[w] EXCEPT !.cur = Null, !.todo = t, !.out = o]
      <3>1. run' = [run EXCEPT ![w] = u] BY <1>1, <2>2, <2>6 DEF Inv, TypeOK, Run
      <3>2. t \in [Customer -> (1 .. N) \cup {Null}] /\ o \in [Customer -> (1 .. N) \cup {Null}]
            /\ \A d \in Customer : t[d] # Null => t[d] = run[w].todo[d]
        BY <1>1, <2>3 DEF Run
      <3> HIDE DEF t, o
      <3>3. u \in Run BY <1>1, <3>2 DEF Run
      <3>4. /\ u.pc = "sending" /\ u.dry = run[w].dry /\ u.new = run[w].new /\ u.skip = run[w].skip
            /\ u.todo = t /\ u.out = o /\ u.cur = Null
        BY <1>1 DEF Run
      <3> HIDE DEF u
      <3>5. t = [run[w].todo EXCEPT ![c] = Null] /\ o = [run[w].out EXCEPT ![c] = run[w].todo[c]]
        BY DEF t, o
      <3>6. /\ \A d \in Customer : u.todo[d] # Null => u.todo[d] = run[w].todo[d]
            /\ u.todo = [run[w].todo EXCEPT ![c] = Null]
            /\ u.out = [run[w].out EXCEPT ![c] = run[w].todo[c]]
        BY <3>2, <3>4, <3>5
      <3> HIDE DEF c
      <3>7. run[w].cur = c BY DEF c
      <3> QED BY <1>1, <2>2, <2>3, <2>6, <3>1, <3>3, <3>4, <3>6, <3>7
    <2> QED BY <2>4, <2>5, <2>6
  <1> QED BY <1>3, <1>4 DEF Dispatch

LEMMA DispatchKeeps ==
    ASSUME Inv, Named, NEW w \in Worker, Dispatch(w)
    PROVE  Inv'
  <1> USE DEF Inv
  <1>1. PICK c \in Customer, u \in Run :
             /\ run[w] \in Run /\ run[w].todo[c] \in 1 .. N /\ run[w].pc = "sending"
             /\ run' = [run EXCEPT ![w] = u]
             /\ u.pc = "sending" /\ u.dry = run[w].dry /\ u.new = run[w].new /\ u.skip = run[w].skip
             /\ \A d \in Customer : u.todo[d] # Null => u.todo[d] = run[w].todo[d]
             /\ \/ /\ ~ run[w].dry /\ run[w].cur = c /\ u.cur = Null
                   /\ u.todo = [run[w].todo EXCEPT ![c] = Null]
                   /\ u.out = [run[w].out EXCEPT ![c] = run[w].todo[c]]
                   /\ calls' = [calls EXCEPT ![c][run[w].todo[c]] = @ + 1]
                \/ /\ u.out = run[w].out /\ UNCHANGED calls
                   /\ \/ u.cur = Null
                      \/ u.cur = c /\ u.todo = run[w].todo /\ ~ run[w].dry /\ c \notin optedOut
    BY Dispatched
  <1>2. UNCHANGED <<clock, status, enr, optedOut, ordered, claimed, recorded, holding, revived>>
    BY DEF Dispatch, Gate, Call, people, ledger, requests
  <1>3. spent' \in [{"crashes", "controls", "optIns", "others", "held", "orders"} -> Nat]
    BY Spending DEF Dispatch, Gate, Call, TypeOK
  <1>4. calls' \in [Customer -> [1 .. N -> Nat]]
    <2>1. CASE UNCHANGED calls BY <2>1 DEF TypeOK
    <2>2. CASE calls' = [calls EXCEPT ![c][run[w].todo[c]] = @ + 1]
      <3>1. calls[c] \in [1 .. N -> Nat] BY DEF TypeOK
      <3>2. \A f \in [1 .. N -> Nat] : \A i \in 1 .. N : f[i] \in Nat OBVIOUS
      <3>3. calls[c][run[w].todo[c]] \in Nat BY <1>1, <3>1, <3>2
      <3>4. calls[c][run[w].todo[c]] + 1 \in Nat BY <3>3
      <3> QED BY <1>1, <2>2, <3>1, <3>4 DEF TypeOK
    <2> QED BY <1>1, <2>1, <2>2
  <1>5. run'[w] = u /\ \A v \in Worker \ {w} : run'[v] = run[v] BY <1>1 DEF TypeOK
  <1>6. run[w] # Null /\ RunInv(w) /\ run[w].todo[c] # Null BY <1>1, Steps DEF Named
  <1>7. RunInv(w)'
    <2>1. Inserts(w)' BY <1>1, <1>2, <1>5, <1>6 DEF RunInv, Inserts
    <2>2. \A d \in Customer : u.out[d] # Null => run[w].out[d] # Null \/ run[w].todo[d] # Null
      BY <1>1, <1>6 DEF Run
    <2>3. Knows(w)' BY <1>1, <1>2, <1>5, <1>6, <2>2 DEF RunInv, Knows, Row
    <2>4. Previews(w)' BY <1>1, <1>5, <1>6 DEF RunInv, Previews
    <2>5. Through(w)' BY <1>1, <1>5, <1>6 DEF Through
    <2> QED BY <1>1, <1>5, <2>1, <2>3, <2>4, <2>5 DEF RunInv, Advancing
  <1>8. ASSUME NEW v \in Worker \ {w} PROVE RunInv(v)'
    BY <1>1, <1>2, <1>5, <1>6, <1>8 DEF RunInv, Inserts, Knows, Row, Advancing, Previews, Through
  <1>9. TypeOK' BY <1>1, <1>2, <1>3, <1>4 DEF TypeOK
  <1>10. \A o \in Operator : Asked(o)' BY <1>2, AskedKept DEF Enrolled
  <1> QED BY <1>7, <1>8, <1>9, <1>10

\* What the commit of the sends leaves of a customer.
LEMMA FlushedRow ==
    ASSUME Inv, Named, NEW w \in Worker, run[w] # Null, NEW c \in Customer
    PROVE  /\ Flushed(run[w], c) \in Enrollment \cup {Null}
           /\ (Flushed(run[w], c) = Null) <=> (Row(run[w], c) = Null)
           /\ Row(run[w], c) # Null =>
                /\ Flushed(run[w], c).step = IF run[w].skip[c] = Null THEN Row(run[w], c).step ELSE run[w].skip[c]
                /\ Flushed(run[w], c).joined = Row(run[w], c).joined
                /\ Flushed(run[w], c).back = Row(run[w], c).back
           /\ c \in Enrolled =>
                /\ Row(run[w], c) = enr[c]
                /\ enr[c].status \in Done => Flushed(run[w], c).status \in Done
  <1> DEFINE u == run[w]
  <1>1. u \in Run /\ enr[c] \in Enrollment \cup {Null} /\ Inserts(w) BY DEF Inv, TypeOK, RunInv
  <1>2. u.new[c] \in Enrollment \cup {Null} /\ u.skip[c] \in (0 .. N) \cup {Null} BY <1>1 DEF Run
  <1>3. c \in Enrolled => u.new[c] = Null BY <1>1 DEF Inserts, Enrolled
  <1> HIDE DEF u
  <1>4. CASE u.new[c] # Null
    <2> DEFINE k == IF u.skip[c] = Null THEN u.new[c].step ELSE u.skip[c]
    <2>1. Flushed(u, c) = [u.new[c] EXCEPT !.step = k] BY <1>4 DEF Flushed
    <2>2. k \in 0 .. N /\ u.new[c] \in Enrollment BY <1>2, <1>4 DEF Enrollment
    <2> HIDE DEF k
    <2>3. Flushed(u, c) \in Enrollment /\ Flushed(u, c).step = k
          /\ Flushed(u, c).joined = u.new[c].joined /\ Flushed(u, c).back = u.new[c].back
      BY <2>1, <2>2 DEF Enrollment
    <2> QED BY <1>3, <1>4, <2>3 DEF Row, Named, u, k
  <1>5. CASE u.new[c] = Null /\ enr[c] = Null
    BY <1>5 DEF Flushed, Row, Enrolled, u
  <1>6. CASE u.new[c] = Null /\ enr[c] # Null
    <2> DEFINE k == IF u.skip[c] = Null THEN enr[c].step ELSE u.skip[c]
               s == IF c \in u.stop THEN "STOPPED" ELSE enr[c].status
    <2>1. Flushed(u, c) = [enr[c] EXCEPT !.status = s, !.step = k] BY <1>6 DEF Flushed
    <2>2. k \in 0 .. N /\ s \in Status /\ enr[c] \in Enrollment
          /\ (enr[c].status \in Done => s \in Done)
      BY <1>1, <1>2, <1>6 DEF Enrollment, Status, Done
    <2> HIDE DEF k, s
    <2>3. Flushed(u, c) \in Enrollment /\ Flushed(u, c).step = k /\ Flushed(u, c).status = s
          /\ Flushed(u, c).joined = enr[c].joined /\ Flushed(u, c).back = enr[c].back
      BY <2>1, <2>2 DEF Enrollment
    <2> QED BY <1>6, <2>2, <2>3 DEF Row, Named, u, k
  <1> QED BY <1>4, <1>5, <1>6

\* And of the run: a preview is over, the others have the sent steps to advance.
LEMMA CommittedRun ==
    ASSUME NEW w \in Worker, CommitSends(w), run[w] \in Run
    PROVE  \/ run' = [run EXCEPT ![w] = Null] /\ run[w].dry
           \/ \E u \in Run :
                /\ run' = [run EXCEPT ![w] = u]
                /\ u.pc = "advance" /\ u.todo = run[w].todo /\ u.out = run[w].out /\ u.dry = FALSE
                /\ u.cur = run[w].cur
                /\ \A c \in Customer : u.new[c] = Null /\ u.skip[c] = Null
  <1>1. CASE run[w].dry BY <1>1 DEF CommitSends
  <1>2. CASE ~ run[w].dry
    <2> DEFINE u == [run[w] EXCEPT !.pc = "advance", !.new = [c \in Customer |-> Null],
                                   !.skip = [c \in Customer |-> Null]]
    <2>1. run' = [run EXCEPT ![w] = u] BY <1>2 DEF CommitSends
    <2>2. u \in Run BY DEF Run
    <2>3. /\ u.pc = "advance" /\ u.todo = run[w].todo /\ u.out = run[w].out /\ u.dry = FALSE
          /\ u.cur = run[w].cur
          /\ \A c \in Customer : u.new[c] = Null /\ u.skip[c] = Null
      BY <1>2 DEF Run
    <2> QED BY <2>1, <2>2, <2>3
  <1> QED BY <1>1, <1>2

LEMMA CommitKeeps ==
    ASSUME Inv, Named, NEW w \in Worker, CommitSends(w)
    PROVE  Inv' /\ \A c \in Enrolled : Keeps(c)
  <1> USE DEF Inv
  <1>1. run[w] # Null /\ run[w] \in Run /\ RunInv(w) /\ run[w].pc = "sending"
        /\ (\A c \in Customer : run[w].todo[c] = Null)
        /\ enr' = [c \in Customer |-> Flushed(run[w], c)]
        /\ UNCHANGED <<clock, status, optedOut, ordered, calls, spent, holding, revived>>
    BY DEF CommitSends, TypeOK, requests
  <1>2. enr' \in [Customer -> Enrollment \cup {Null}] BY <1>1, FlushedRow
  <1>3. \A c \in Enrolled : Keeps(c) BY <1>1, FlushedRow DEF Keeps, Enrolled
  <1>4. \A c \in Customer : Row(run[w], c) # Null => enr'[c] # Null BY <1>1, FlushedRow
  <1>5. recorded' \subseteq Customer \X (1 .. N) /\ claimed' \subseteq Customer \X (0 .. MaxDay)
    BY <1>1 DEF CommitSends, Sent, TypeOK, Run
  <1>6. \/ run' = [run EXCEPT ![w] = Null]
        \/ \E u \in Run :
             /\ run' = [run EXCEPT ![w] = u]
             /\ u.pc = "advance" /\ u.todo = run[w].todo /\ u.out = run[w].out /\ u.dry = FALSE
             /\ u.cur = run[w].cur
             /\ \A c \in Customer : u.new[c] = Null /\ u.skip[c] = Null
    BY <1>1, CommittedRun
  <1>11. run[w].cur = Null BY <1>1 DEF RunInv, Through, Run
  <1>7. /\ run' \in [Worker -> Run \cup {Null}]
        /\ \A v \in Worker \ {w} : run'[v] = run[v]
        /\ run'[w] # Null =>
             /\ run'[w].pc = "advance" /\ run'[w].dry = FALSE /\ run'[w].out = run[w].out
             /\ run'[w].cur = Null
             /\ \A c \in Customer : run'[w].todo[c] = Null /\ run'[w].new[c] = Null /\ run'[w].skip[c] = Null
    BY <1>1, <1>6, <1>11 DEF TypeOK
  <1>8. RunInv(w)'
    <2> SUFFICES ASSUME run'[w] # Null
                 PROVE  (Inserts(w) /\ Knows(w) /\ Advancing(w) /\ Previews(w) /\ Through(w))'
      BY DEF RunInv
    <2>1. Inserts(w)' /\ Advancing(w)' /\ Previews(w)' /\ Through(w)'
      BY <1>7 DEF Inserts, Advancing, Previews, Through
    <2>2. Knows(w)' BY <1>1, <1>4, <1>7 DEF RunInv, Knows, Row
    <2> QED BY <2>1, <2>2
  <1>9. ASSUME NEW v \in Worker \ {w} PROVE RunInv(v)'
    <2> SUFFICES ASSUME run[v] # Null PROVE RunInv(v)' BY <1>7 DEF RunInv
    <2>1. RunInv(v) OBVIOUS
    <2>2. \A c \in Customer : run[v].new[c] # Null => enr[c] = Null /\ run[w].new[c] = Null
      BY <1>1, <2>1 DEF RunInv, Inserts
    <2>3. \A c \in Customer : run[v].new[c] # Null => enr'[c] = Null
      BY <1>1, <2>2, FlushedRow DEF Row
    <2>4. Inserts(v)' BY <1>7, <2>1, <2>3 DEF RunInv, Inserts
    <2>5. \A c \in Customer : enr[c] # Null => enr'[c] # Null BY <1>3 DEF Keeps, Enrolled
    <2> QED BY <1>7, <2>1, <2>4, <2>5 DEF RunInv, Knows, Row, Advancing, Previews, Through
  <1>10. TypeOK' BY <1>1, <1>2, <1>5, <1>7 DEF TypeOK
  <1>12. \A o \in Operator : Asked(o)' BY <1>1, <1>3, AskedKept DEF Keeps
  <1> QED BY <1>3, <1>8, <1>9, <1>10, <1>12

\* What _advance leaves of a customer.
LEMMA AdvancedRow ==
    ASSUME Inv, Named, NEW w \in Worker, Advance(w), NEW c \in Customer
    PROVE  /\ Advanced(run[w], c) \in Enrollment \cup {Null}
           /\ (Advanced(run[w], c) = Null) <=> (enr[c] = Null)
           /\ c \in Enrolled =>
                /\ Advanced(run[w], c).step =
                      IF run[w].out[c] # Null /\ enr[c].step < N THEN enr[c].step + 1 ELSE enr[c].step
                /\ Advanced(run[w], c).joined = enr[c].joined
                /\ Advanced(run[w], c).back = enr[c].back
                /\ enr[c].status \in Done => Advanced(run[w], c).status \in Done
  <1>1. run[w] # Null /\ run[w].pc = "advance" /\ RunInv(w) /\ enr[c] \in Enrollment \cup {Null}
    BY DEF Advance, Inv, TypeOK
  <1>2. run[w].out[c] # Null => enr[c] # Null
    BY <1>1 DEF RunInv, Knows, Advancing, Row
  <1>3. CASE run[w].out[c] = Null BY <1>1, <1>3 DEF Advanced, Sent, Enrolled
  <1>4. CASE run[w].out[c] # Null
    <2> DEFINE k == IF enr[c].step < N THEN enr[c].step + 1 ELSE enr[c].step
               s == IF enr[c].step + 1 >= N THEN "COMPLETED" ELSE enr[c].status
    <2>1. enr[c] \in Enrollment BY <1>1, <1>2, <1>4
    <2>2. Advanced(run[w], c) = [enr[c] EXCEPT !.step = k, !.status = s]
      BY <1>4, <2>1 DEF Advanced, Sent, Enrollment
    <2>3. k \in 0 .. N /\ s \in Status BY <2>1, Steps DEF Enrollment, Status
    <2> HIDE DEF k
    <2>4. Advanced(run[w], c) \in Enrollment BY <2>1, <2>2, <2>3 DEF Enrollment
    <2>5. Advanced(run[w], c).step = k /\ Advanced(run[w], c).status = s
          /\ Advanced(run[w], c).joined = enr[c].joined /\ Advanced(run[w], c).back = enr[c].back
      BY <2>1, <2>2 DEF Enrollment
    <2> QED BY <1>2, <1>4, <2>4, <2>5 DEF Named, Done, k
  <1> QED BY <1>3, <1>4

LEMMA AdvanceKeeps ==
    ASSUME Inv, Named, NEW w \in Worker, Advance(w)
    PROVE  Inv' /\ \A c \in Enrolled : Keeps(c)
  <1> USE DEF Inv
  <1>1. run[w] # Null /\ enr' = [c \in Customer |-> Advanced(run[w], c)]
        /\ run' = [run EXCEPT ![w] = Null] /\ status' \in {status, "COMPLETED"}
        /\ UNCHANGED <<clock, optedOut, ordered, claimed, recorded, calls, spent, holding, revived>>
    BY DEF Advance, ledger, requests
  <1>2. enr' \in [Customer -> Enrollment \cup {Null}] BY <1>1, AdvancedRow
  <1>3. \A c \in Enrolled : Keeps(c) BY <1>1, AdvancedRow DEF Keeps, Enrolled
  <1>4. \A c \in Customer : enr'[c] = Null <=> enr[c] = Null BY <1>1, AdvancedRow
  <1>5. run' \in [Worker -> Run \cup {Null}] /\ run'[w] = Null
        /\ \A v \in Worker \ {w} : run'[v] = run[v]
    BY <1>1 DEF TypeOK
  <1>6. ASSUME NEW v \in Worker PROVE RunInv(v)'
    <2> SUFFICES ASSUME v # w, run[v] # Null PROVE RunInv(v)' BY <1>5 DEF RunInv
    <2>1. RunInv(v) OBVIOUS
    <2>2. Inserts(v)' BY <1>4, <1>5, <2>1 DEF RunInv, Inserts
    <2> QED BY <1>4, <1>5, <2>1, <2>2 DEF RunInv, Knows, Row, Advancing, Previews, Through
  <1>7. TypeOK' BY <1>1, <1>2, <1>5 DEF TypeOK
  <1>8. \A o \in Operator : Asked(o)' BY <1>1, <1>3, AskedKept DEF Keeps
  <1> QED BY <1>3, <1>6, <1>7, <1>8

LEMMA CrashKeeps ==
    ASSUME Inv, NEW w \in Worker, Crash(w)
    PROVE  Inv' /\ (\A c \in Enrolled : Keeps(c)) /\ spent'["crashes"] = spent["crashes"] + 1
  <1> USE DEF Inv
  <1>1. /\ run' = [run EXCEPT ![w] = Null]
        /\ UNCHANGED <<clock, status, enr, optedOut, ordered, claimed, recorded, calls, holding, revived>>
    BY DEF Crash, people, ledger, requests
  <1>2. spent' \in [{"crashes", "controls", "optIns", "others", "held", "orders"} -> Nat]
        /\ spent'["crashes"] = spent["crashes"] + 1
    BY Spending DEF Crash, TypeOK
  <1>3. run' \in [Worker -> Run \cup {Null}] /\ run'[w] = Null
        /\ \A v \in Worker \ {w} : run'[v] = run[v]
    BY <1>1 DEF TypeOK
  <1>4. ASSUME NEW v \in Worker PROVE RunInv(v)'
    <2> SUFFICES ASSUME v # w, run[v] # Null PROVE RunInv(v)' BY <1>3 DEF RunInv
    <2>1. RunInv(v) OBVIOUS
    <2>2. Inserts(v)' BY <1>1, <1>3, <2>1 DEF RunInv, Inserts
    <2> QED BY <1>1, <1>3, <2>1, <2>2 DEF RunInv, Knows, Row, Advancing, Previews, Through
  <1>5. TypeOK' BY <1>1, <1>2, <1>3 DEF TypeOK
  <1>6. \A o \in Operator : Asked(o)' BY <1>1, AskedKept DEF Enrolled
  <1> QED BY <1>1, <1>2, <1>4, <1>5, <1>6 DEF Keeps, Enrolled

LEMMA Starts == ASSUME Init, Named PROVE Inv
  <1>1. clock \in 0 .. MaxDay BY Days DEF Init
  <1>2. spent \in [{"crashes", "controls", "optIns", "others", "held", "orders"} -> Nat] BY DEF Init
  <1> QED BY <1>1, <1>2 DEF Init, Inv, TypeOK, RunInv, Asked

LEMMA StepKeeps == ASSUME Inv, Named, [Next]_vars PROVE Inv' /\ \A c \in Enrolled : Keeps(c)
  <1>1. ASSUME NEW w \in Worker, RunStep(w) \/ Crash(w) PROVE Inv' /\ \A c \in Enrolled : Keeps(c)
    <2>1. CASE Dispatch(w)
      <3>1. UNCHANGED enr BY <2>1 DEF Dispatch, Gate, Call, people
      <3> QED BY <2>1, <3>1, DispatchKeeps DEF Keeps, Enrolled
    <2> QED BY <1>1, <2>1, BeginKeeps, CommitKeeps, AdvanceKeeps, CrashKeeps DEF RunStep, Dispatch
  <1>2. ASSUME NEW c \in Customer, Request(c) PROVE Inv' /\ \A d \in Enrolled : Keeps(d)
    BY <1>2, RequestKeeps
  <1>3. ASSUME NEW o \in Operator, Answer(o) PROVE Inv' /\ \A d \in Enrolled : Keeps(d)
    BY <1>3, AnswerKeeps
  <1> QED BY <1>1, <1>2, <1>3, ElseKeeps DEF Next

\* Every variable of the sequence keeps its type, however many runs cross.
THEOREM SequenceTyped == ASSUME Named PROVE Spec => []TypeOK
  <1>1. Init => Inv BY Starts
  <1>2. Inv /\ [Next]_vars => Inv' BY StepKeeps
  <1>3. Inv => TypeOK BY DEF Inv
  <1> QED BY <1>1, <1>2, <1>3, PTL DEF Spec

\* Stopped or completed is for good, but for a pause or a resume that was overtaken:
\* no late commit of a run, and no request that finds the customer done, takes up the
\* enrollment again, with any number of threads running the automation and of
\* operators at once.
THEOREM DoneIsForGood == ASSUME Named PROVE Spec => NeverRevived
  <1>1. Init => Inv BY Starts
  <1>2. Inv /\ [Next]_vars => Inv' BY StepKeeps
  <1>3. Inv /\ [Next]_vars =>
          [\A c \in Enrolled :
             enr[c].status \in Done =>
                 enr'[c].status \in Done \/ \E o \in Operator : Overtaken(o, c)]_vars
    BY StepKeeps DEF Keeps
  <1> QED BY <1>1, <1>2, <1>3, PTL DEF Spec, NeverRevived

---------------------------------------------------------------------------
(* One runner. *)

\* The step a run has reached with a customer, and the one that is next.
Base(u, c) == IF u.skip[c] = Null THEN Row(u, c).step ELSE u.skip[c]
InTurn(u, c, i) == i = Base(u, c) + 1 /\ ~ Stale(Row(u, c), i)

Skips(w) == \A c \in Customer : run[w].skip[c] # Null =>
    /\ Row(run[w], c).step <= run[w].skip[c]
    /\ \A i \in (Row(run[w], c).step + 1) .. run[w].skip[c] : Stale(Row(run[w], c), i)

Targets(w) == \A c \in Customer :
    /\ run[w].todo[c] # Null => InTurn(run[w], c, run[w].todo[c]) /\ run[w].out[c] = Null
    /\ run[w].out[c] # Null => InTurn(run[w], c, run[w].out[c]) /\ calls[c][run[w].out[c]] > 0

WorkInv(w) == run[w] # Null => Skips(w) /\ Targets(w)

At(c) == IF enr[c] = Null THEN 0 ELSE enr[c].step

UnderWay(c, i) == \E w \in Worker : run[w] # Null /\ run[w].out[c] = i

\* What is ahead of a customer was sent by lost runs only.
Ahead == \A c \in Customer : \A i \in 1 .. N :
    i > At(c) /\ ~ UnderWay(c, i) => calls[c][i] <= spent["crashes"]

\* Nobody gets a message before they are enrolled, or about to be.
Untouched == spent["crashes"] = 0 =>
    \A c \in Customer : \A i \in 1 .. N : enr[c] = Null /\ calls[c][i] > 0 =>
        \E w \in Worker : run[w] # Null /\ run[w].new[c] # Null /\ ~ Stale(run[w].new[c], i)

Accounts == NoStepSwallowed /\ NoBacklog /\ StepSentOnce /\ Ahead /\ Untouched

OneInv == Inv /\ Accounts /\ \A w \in Worker : WorkInv(w)

LEMMA Numbers ==
    ASSUME TypeOK
    PROVE  /\ spent["crashes"] \in Nat
           /\ \A c \in Customer : \A i \in 1 .. N : calls[c][i] \in Nat
           /\ \A c \in Customer : enr[c] # Null => enr[c] \in Enrollment /\ enr[c].step \in 0 .. N
           /\ N \in Nat
  <1>1. \A f \in [1 .. N -> Nat] : \A i \in 1 .. N : f[i] \in Nat OBVIOUS
  <1>2. \A c \in Customer : calls[c] \in [1 .. N -> Nat] BY DEF TypeOK
  <1>3. \A e \in Enrollment : e.step \in 0 .. N BY DEF Enrollment
  <1> QED BY <1>1, <1>2, <1>3, Steps DEF TypeOK

\* Steps of others: nobody moves, and who joins has been sent nothing.
LEMMA AccountsKept ==
    ASSUME OneInv, Inv', UNCHANGED calls, spent'["crashes"] = spent["crashes"],
           \A c \in Enrolled : Keeps(c) /\ enr'[c].step = enr[c].step,
           \A c \in Customer \ Enrolled : enr'[c] # Null => c \notin Inserting /\ enr'[c].step = 0,
           \A w \in Worker : run[w] # Null => run'[w] = run[w],
           \A w \in Worker : run[w] = Null /\ run'[w] # Null =>
               \A c \in Customer : run'[w].out[c] = Null
    PROVE  Accounts'
  <1> USE Numbers DEF OneInv, Inv, Accounts
  <1>1. \A c \in Customer : c \notin Enrolled /\ enr'[c] # Null /\ spent["crashes"] = 0 =>
           \A i \in 1 .. N : ~ (calls[c][i] > 0)
    BY DEF Untouched, Inserting, Enrolled
  <1>2. NoStepSwallowed'
    <2> SUFFICES ASSUME NEW c \in Enrolled', NEW i \in 1 .. enr'[c].step
                 PROVE  calls[c][i] > 0 \/ Stale(enr'[c], i)
      BY DEF NoStepSwallowed
    <2>1. CASE c \in Enrolled BY <2>1 DEF NoStepSwallowed, Keeps, Stale
    <2>2. CASE c \notin Enrolled
      <3>1. enr'[c].step = 0 BY <2>2 DEF Enrolled
      <3> QED BY <3>1
    <2> QED BY <2>1, <2>2
  <1>3. NoBacklog'
    <2> SUFFICES ASSUME NEW c \in Enrolled', NEW i \in 1 .. N, calls[c][i] > 0, spent["crashes"] = 0
                 PROVE  ~ Stale(enr'[c], i)
      BY DEF NoBacklog
    <2>1. CASE c \in Enrolled BY <2>1 DEF NoBacklog, Keeps, Stale
    <2>2. CASE c \notin Enrolled BY <1>1, <2>2 DEF Enrolled
    <2> QED BY <2>1, <2>2
  <1>4. StepSentOnce' BY DEF StepSentOnce
  <1>5. Ahead'
    <2>1. \A c \in Customer : At(c)' = At(c) BY DEF At, Enrolled, Keeps
    <2>2. \A c \in Customer : \A i \in 1 .. N : UnderWay(c, i) => UnderWay(c, i)' BY DEF UnderWay
    <2> QED BY <2>1, <2>2 DEF Ahead
  <1>6. Untouched'
    <2>1. \A c \in Customer : enr'[c] = Null => enr[c] = Null BY DEF Keeps, Enrolled
    <2> QED BY <2>1 DEF Untouched
  <1> QED BY <1>2, <1>3, <1>4, <1>5, <1>6

\* A run under way finds everybody where it expects them.
LEMMA WorkKept ==
    ASSUME OneInv, UNCHANGED <<run, calls>>,
           \A c \in Enrolled : Keeps(c) /\ enr'[c].step = enr[c].step
    PROVE  \A w \in Worker : WorkInv(w)'
  <1> SUFFICES ASSUME NEW w \in Worker, run[w] # Null PROVE WorkInv(w)' BY DEF WorkInv
  <1>1. WorkInv(w) /\ RunInv(w) BY DEF OneInv, Inv
  <1>2. \A c \in Customer : Row(run[w], c) # Null =>
          /\ Row(run[w], c)'.step = Row(run[w], c).step
          /\ \A i : Stale(Row(run[w], c)', i) <=> Stale(Row(run[w], c), i)
    BY DEF Row, Enrolled, Keeps, Stale
  <1>3. Skips(w)' BY <1>1, <1>2 DEF WorkInv, RunInv, Knows, Skips
  <1>4. Targets(w)' BY <1>1, <1>2 DEF WorkInv, RunInv, Knows, Targets, InTurn, Base
  <1> QED BY <1>3, <1>4 DEF WorkInv

LEMMA RequestAccounts ==
    ASSUME OneInv, Named, NEW c \in Customer, Request(c)
    PROVE  OneInv'
  BY RequestKeeps, AccountsKept, WorkKept DEF OneInv

LEMMA AnswerAccounts ==
    ASSUME OneInv, Named, NEW o \in Operator, Answer(o)
    PROVE  OneInv'
  BY AnswerKeeps, AccountsKept, WorkKept DEF OneInv

LEMMA ElseAccounts ==
    ASSUME OneInv, SetAutomation \/ Tick \/ UNCHANGED vars
    PROVE  OneInv'
  <1>1. Inv' /\ UNCHANGED <<run, calls, enr>> /\ spent'["crashes"] = spent["crashes"]
        /\ \A c \in Enrolled : Keeps(c)
    BY ElseKeeps DEF OneInv
  <1>2. \A c \in Customer \ Enrolled : enr'[c] = Null BY <1>1 DEF Enrolled
  <1> QED BY <1>1, <1>2, AccountsKept, WorkKept DEF OneInv

LEMMA BeginAccounts ==
    ASSUME OneInv, Named, OneRunner, NEW w \in Worker, BeginLive(w) \/ BeginDry(w)
    PROVE  OneInv'
  <1> USE DEF OneInv
  <1>1. PICK dry \in BOOLEAN, joining \in [Customer -> Enrollment \cup {Null}] :
           /\ Begin(w, dry, joining)
           /\ dry => \A c \in Customer : joining[c] = Null
           /\ \A c \in Customer : joining[c] # Null =>
                c \notin Enrolled \cup Inserting /\ joining[c].step = 0
    BY HowBegun
  <1>2. Inv' BY BeginKeeps
  <1>3. /\ \A c \in Enrolled : Keeps(c) /\ enr'[c].step = enr[c].step
        /\ \A c \in Customer \ Enrolled : enr'[c] # Null => c \notin Inserting /\ enr'[c].step = 0
    BY <1>1, Begun
  <1>4. UNCHANGED <<calls, spent>> /\ run[w] = Null BY <1>1 DEF Begin
  <1>5. \A v \in Worker : run[v] = Null BY <1>4 DEF OneRunner
  <1>6. CASE run' = run BY <1>2, <1>3, <1>4, <1>6, AccountsKept, WorkKept
  <1>7. CASE run' # run
    <2>1. PICK u \in Run :
            /\ run' = [run EXCEPT ![w] = u]
            /\ \A c \in Customer :
                 /\ u.out[c] = Null
                 /\ LET row == IF u.new[c] # Null THEN u.new[c] ELSE enr'[c] IN
                    /\ u.skip[c] # Null => row # Null /\ u.skip[c] = FreshStep(row)
                    /\ u.skip[c] = Null /\ u.todo[c] # Null => row.step = FreshStep(row)
                    /\ u.todo[c] # Null => row # Null /\ u.todo[c] = Candidate(row)
      BY <1>1, <1>7, Begun
    <2>2. run'[w] = u /\ \A v \in Worker : v = w BY <2>1 DEF Inv, TypeOK, OneRunner
    <2>3. Accounts' BY <1>2, <1>3, <1>4, <1>5, <2>1, <2>2, AccountsKept
    <2>4. Skips(w)' /\ Targets(w)'
      <3> SUFFICES ASSUME NEW c \in Customer
                   PROVE  /\ u.skip[c] # Null =>
                                /\ Row(u, c)'.step <= u.skip[c]
                                /\ \A i \in (Row(u, c)'.step + 1) .. u.skip[c] : Stale(Row(u, c)', i)
                          /\ u.todo[c] # Null => InTurn(u, c, u.todo[c])'
        BY <2>1, <2>2 DEF Skips, Targets, Row, InTurn, Base
      <3> DEFINE row == IF u.new[c] # Null THEN u.new[c] ELSE enr'[c]
      <3>1. Row(u, c)' = row BY DEF Row
      <3>2. row \in Enrollment \cup {Null} BY <1>2 DEF Inv, TypeOK, Run
      <3>3. /\ u.skip[c] # Null => row # Null /\ u.skip[c] = FreshStep(row)
            /\ u.skip[c] = Null /\ u.todo[c] # Null => row.step = FreshStep(row)
            /\ u.todo[c] # Null => row # Null /\ u.todo[c] = Candidate(row)
        BY <2>1
      <3> HIDE DEF row
      <3>4. u.skip[c] # Null => row.step <= u.skip[c] /\ \A i \in (row.step + 1) .. u.skip[c] : Stale(row, i)
        BY <3>2, <3>3, Catching, Steps DEF Enrollment
      <3>5. u.todo[c] # Null => u.todo[c] = FreshStep(row) + 1 /\ ~ Stale(row, u.todo[c])
        BY <3>2, <3>3, Choosing
      <3>6. u.todo[c] # Null => Base(u, c)' = FreshStep(row) BY <3>1, <3>3 DEF Base
      <3> QED BY <3>1, <3>4, <3>5, <3>6 DEF InTurn
    <2>5. \A v \in Worker : WorkInv(v)' BY <2>2, <2>4 DEF WorkInv
    <2> QED BY <1>2, <2>3, <2>5
  <1> QED BY <1>6, <1>7

LEMMA DispatchAccounts ==
    ASSUME OneInv, Named, OneRunner, NEW w \in Worker, Dispatch(w)
    PROVE  OneInv'
  <1> USE DEF OneInv
  <1>1. PICK c \in Customer, u \in Run :
             /\ run[w] \in Run /\ run[w].todo[c] \in 1 .. N /\ run[w].pc = "sending"
             /\ run' = [run EXCEPT ![w] = u]
             /\ u.pc = "sending" /\ u.dry = run[w].dry /\ u.new = run[w].new /\ u.skip = run[w].skip
             /\ \A d \in Customer : u.todo[d] # Null => u.todo[d] = run[w].todo[d]
             /\ \/ /\ u.todo = [run[w].todo EXCEPT ![c] = Null]
                   /\ u.out = [run[w].out EXCEPT ![c] = run[w].todo[c]]
                   /\ calls' = [calls EXCEPT ![c][run[w].todo[c]] = @ + 1]
                \/ u.out = run[w].out /\ UNCHANGED calls
    BY Dispatched
  <1> DEFINE k == run[w].todo[c]
  <1>2. Inv' BY DispatchKeeps
  <1>3. UNCHANGED enr BY DEF Dispatch, Gate, Call, people
  <1>4. TypeOK /\ TypeOK' BY <1>2 DEF Inv
  <1>5. spent'["crashes"] = spent["crashes"]
    <2>1. UNCHANGED spent \/ Spend("held", MaxHeld) BY DEF Dispatch, Gate, Call
    <2> QED BY <1>4, <2>1, Spending DEF TypeOK
  <1>6. run[w] # Null /\ run'[w] = u /\ u # Null /\ \A v \in Worker : v = w
    BY <1>1 DEF Inv, TypeOK, OneRunner, Named
  <1>7. WorkInv(w) /\ RunInv(w) BY DEF Inv
  <1>8. k # Null /\ k \in 1 .. N /\ InTurn(run[w], c, k) /\ run[w].out[c] = Null
    BY <1>1, <1>6, <1>7 DEF WorkInv, Targets, Named
  <1>9. \A d \in Customer : Row(u, d)' = Row(run[w], d) /\ Base(u, d)' = Base(run[w], d)
    BY <1>1, <1>3 DEF Row, Base
  <1>10. CASE u.out = run[w].out /\ UNCHANGED calls
    <2>1. Accounts'
      <3>1. \A d \in Customer : \A i \in 1 .. N : UnderWay(d, i)' <=> UnderWay(d, i)
        BY <1>6, <1>10 DEF UnderWay
      <3>2. Ahead' BY <1>3, <1>5, <1>10, <3>1 DEF Accounts, Ahead, At
      <3>3. Untouched' BY <1>1, <1>3, <1>5, <1>6, <1>10 DEF Accounts, Untouched
      <3> QED BY <1>3, <1>5, <1>10, <3>2, <3>3 DEF Accounts, NoStepSwallowed, NoBacklog, StepSentOnce, Enrolled
    <2>2. Skips(w)' BY <1>1, <1>6, <1>7, <1>9 DEF WorkInv, Skips
    <2>3. Targets(w)'
      BY <1>1, <1>6, <1>7, <1>9, <1>10 DEF WorkInv, Targets, InTurn
    <2> QED BY <1>2, <1>6, <2>1, <2>2, <2>3 DEF WorkInv
  <1>11. CASE /\ u.todo = [run[w].todo EXCEPT ![c] = Null]
              /\ u.out = [run[w].out EXCEPT ![c] = k]
              /\ calls' = [calls EXCEPT ![c][k] = @ + 1]
    <2>1. /\ calls'[c][k] = calls[c][k] + 1
          /\ \A d \in Customer : \A i \in 1 .. N : d # c \/ i # k => calls'[d][i] = calls[d][i]
      <3>1. calls \in [Customer -> [1 .. N -> Nat]] BY <1>4 DEF TypeOK
      <3> QED BY <1>8, <1>11, <3>1
    <2>2. /\ u.out[c] = k
          /\ \A d \in Customer : d # c => u.out[d] = run[w].out[d]
      BY <1>1, <1>11 DEF Run
    <2>3. \A d \in Customer : \A i \in 1 .. N : calls[d][i] > 0 => calls'[d][i] > 0
      BY <1>4, <1>8, <2>1, Numbers
    <2>4. k > At(c)
      <3>1. Row(run[w], c) # Null BY <1>6, <1>7, <1>8 DEF RunInv, Knows
      <3>2. Row(run[w], c).step <= Base(run[w], c)
        <4>1. Row(run[w], c) \in Enrollment BY <1>1, <1>4, <3>1 DEF Row, Run, TypeOK
        <4>2. Row(run[w], c).step \in Nat BY <4>1 DEF Enrollment
        <4> QED BY <1>6, <1>7, <4>2 DEF WorkInv, Skips, Base
      <3>3. At(c) <= Row(run[w], c).step
        <4>1. Row(run[w], c) \in Enrollment BY <1>1, <1>4, <3>1 DEF Row, Run, TypeOK
        <4>2. Row(run[w], c).step \in Nat BY <4>1 DEF Enrollment
        <4>3. enr[c] # Null => Row(run[w], c) = enr[c] BY <1>6, <1>7 DEF RunInv, Inserts, Row
        <4> QED BY <4>2, <4>3 DEF At
      <3>4. Base(run[w], c) \in Nat /\ Row(run[w], c).step \in Nat /\ At(c) \in Nat
        <4>1. Row(run[w], c) \in Enrollment BY <1>1, <1>4, <3>1 DEF Row, Run, TypeOK
        <4>2. Row(run[w], c).step \in Nat BY <4>1 DEF Enrollment
        <4>3. run[w].skip[c] # Null => run[w].skip[c] \in Nat BY <1>1, Steps DEF Run
        <4> QED BY <1>4, <4>2, <4>3, Numbers DEF Base, At
      <3> QED BY <1>8, <3>2, <3>3, <3>4 DEF InTurn
    <2>5. calls[c][k] <= spent["crashes"]
      <3>1. ~ UnderWay(c, k) BY <1>6, <1>8 DEF UnderWay
      <3> QED BY <1>8, <2>4, <3>1 DEF Accounts, Ahead
    <2>6. NoStepSwallowed'
      <3> SUFFICES ASSUME NEW d \in Enrolled, NEW i \in 1 .. enr[d].step
                   PROVE  calls'[d][i] > 0 \/ Stale(enr[d], i)
        BY <1>3 DEF NoStepSwallowed, Enrolled
      <3>1. d \in Customer /\ i \in 1 .. N BY <1>4, Numbers DEF Enrolled
      <3> QED BY <2>3, <3>1 DEF Accounts, NoStepSwallowed
    <2>7. NoBacklog'
      <3> SUFFICES ASSUME NEW d \in Enrolled, NEW i \in 1 .. N, calls'[d][i] > 0, spent["crashes"] = 0
                   PROVE  ~ Stale(enr[d], i)
        BY <1>3, <1>4, <1>5, Numbers DEF NoBacklog, Enrolled
      <3>1. CASE d = c /\ i = k
        <4>1. Row(run[w], c) = enr[c] BY <1>6, <1>7, <3>1 DEF RunInv, Inserts, Row, Enrolled
        <4> QED BY <1>8, <3>1, <4>1 DEF InTurn
      <3>2. CASE d # c \/ i # k
        <4>1. d \in Customer BY DEF Enrolled
        <4>2. calls[d][i] > 0 BY <2>1, <3>2, <4>1
        <4>3. ~ (spent["crashes"] > 0) OBVIOUS
        <4> QED BY <4>2, <4>3 DEF Accounts, NoBacklog
      <3> QED BY <3>1, <3>2
    <2>8. StepSentOnce'
      BY <1>4, <1>5, <1>8, <2>1, <2>5, Numbers DEF Accounts, StepSentOnce
    <2>9. Ahead'
      <3> SUFFICES ASSUME NEW d \in Customer, NEW i \in 1 .. N, i > At(d), ~ UnderWay(d, i)'
                   PROVE  calls'[d][i] <= spent["crashes"]
        BY <1>3, <1>5 DEF Ahead, At
      <3>1. u.out[d] # i BY <1>6 DEF UnderWay
      <3>2. d # c \/ i # k BY <2>2, <3>1
      <3>3. ~ UnderWay(d, i)
        <4>1. run[w].out[c] # i BY <1>8, Steps DEF Named
        <4> QED BY <1>6, <2>2, <3>1, <4>1 DEF UnderWay
      <3> QED BY <2>1, <3>2, <3>3 DEF Accounts, Ahead
    <2>10. Untouched'
      <3> SUFFICES ASSUME spent["crashes"] = 0, NEW d \in Customer, NEW i \in 1 .. N,
                          enr[d] = Null, calls'[d][i] > 0
                   PROVE  u.new[d] # Null /\ ~ Stale(u.new[d], i)
        BY <1>3, <1>5, <1>6 DEF Untouched
      <3>1. CASE d = c /\ i = k
        <4>1. Row(run[w], c) # Null BY <1>6, <1>7, <1>8 DEF RunInv, Knows
        <4> QED BY <1>1, <1>8, <3>1, <4>1 DEF InTurn, Row
      <3>2. CASE d # c \/ i # k
        <4>1. calls[d][i] > 0 BY <2>1, <3>2
        <4> QED BY <1>1, <1>6, <4>1 DEF Accounts, Untouched
      <3> QED BY <3>1, <3>2
    <2>11. Skips(w)' BY <1>1, <1>6, <1>7, <1>9 DEF WorkInv, Skips
    <2>12. Targets(w)'
      <3> SUFFICES ASSUME NEW d \in Customer
                   PROVE  /\ u.todo[d] # Null => InTurn(u, d, u.todo[d])' /\ u.out[d] = Null
                          /\ u.out[d] # Null => InTurn(u, d, u.out[d])' /\ calls'[d][u.out[d]] > 0
        BY <1>6 DEF Targets, InTurn, Base, Row
      <3>1. CASE d = c
        <4>1. u.todo[c] = Null BY <1>1, <1>11 DEF Run
        <4>2. InTurn(u, c, u.out[c])' BY <1>8, <1>9, <2>2 DEF InTurn
        <4>3. calls'[c][k] > 0 BY <1>4, <1>8, <2>1, Numbers
        <4> QED BY <2>2, <3>1, <4>1, <4>2, <4>3
      <3>2. CASE d # c
        <4>1. u.todo[d] = run[w].todo[d] /\ u.out[d] = run[w].out[d]
          BY <1>1, <1>11, <2>2, <3>2 DEF Run
        <4>2. u.out[d] # Null => u.out[d] \in 1 .. N BY DEF Run
        <4> QED BY <1>6, <1>7, <1>9, <2>3, <4>1, <4>2 DEF WorkInv, Targets, InTurn
      <3> QED BY <3>1, <3>2
    <2> QED BY <1>2, <1>6, <2>6, <2>7, <2>8, <2>9, <2>10, <2>11, <2>12 DEF WorkInv, Accounts
  <1> QED BY <1>1, <1>10, <1>11

LEMMA CommitAccounts ==
    ASSUME OneInv, Named, OneRunner, NEW w \in Worker, CommitSends(w)
    PROVE  OneInv'
  <1> USE DEF OneInv
  <1>1. Inv' BY CommitKeeps
  <1>2. TypeOK /\ TypeOK' BY <1>1 DEF Inv
  <1>3. run[w] # Null /\ run[w] \in Run /\ RunInv(w) /\ WorkInv(w) /\ \A v \in Worker : v = w
    BY DEF CommitSends, Inv, TypeOK, OneRunner
  <1>4. UNCHANGED <<calls, spent>> /\ enr' = [c \in Customer |-> Flushed(run[w], c)] BY DEF CommitSends
  <1>5. ASSUME NEW c \in Customer
        PROVE  /\ (enr'[c] = Null) <=> (Row(run[w], c) = Null)
               /\ enr'[c] # Null =>
                    /\ enr'[c].step = Base(run[w], c) /\ enr'[c].back = Row(run[w], c).back
                    /\ \A i : Stale(enr'[c], i) <=> Stale(Row(run[w], c), i)
               /\ c \in Enrolled => Row(run[w], c) = enr[c]
               /\ c \notin Enrolled => Row(run[w], c) = run[w].new[c]
    BY <1>3, <1>4, FlushedRow DEF Base, Stale, Row, Enrolled
  <1>6. ASSUME NEW c \in Customer, enr'[c] # Null
        PROVE  /\ Row(run[w], c).step \in Nat /\ Base(run[w], c) \in Nat
               /\ Row(run[w], c).step <= Base(run[w], c)
               /\ \A i \in (Row(run[w], c).step + 1) .. Base(run[w], c) : Stale(Row(run[w], c), i)
    <2>1. Row(run[w], c) \in Enrollment BY <1>2, <1>3, <1>5, <1>6 DEF Row, Run, TypeOK
    <2>2. Row(run[w], c).step \in Nat BY <2>1 DEF Enrollment
    <2>3. run[w].skip[c] # Null => run[w].skip[c] \in Nat BY <1>3, Steps DEF Run
    <2>4. CASE run[w].skip[c] = Null BY <2>2, <2>4 DEF Base
    <2>5. CASE run[w].skip[c] # Null BY <1>3, <2>2, <2>3, <2>5 DEF Base, WorkInv, Skips
    <2> QED BY <2>4, <2>5
  <1>7. NoStepSwallowed'
    <2> SUFFICES ASSUME NEW c \in Enrolled', NEW i \in 1 .. enr'[c].step
                 PROVE  calls[c][i] > 0 \/ Stale(enr'[c], i)
      BY <1>4 DEF NoStepSwallowed
    <2>1. c \in Customer /\ enr'[c] # Null /\ i \in 1 .. Base(run[w], c) BY <1>5 DEF Enrolled
    <2>2. CASE i \in (Row(run[w], c).step + 1) .. Base(run[w], c) BY <1>5, <1>6, <2>1, <2>2
    <2>3. CASE i \in 1 .. Row(run[w], c).step
      <3>1. CASE c \in Enrolled BY <1>5, <2>1, <2>3, <3>1 DEF Accounts, NoStepSwallowed
      <3>2. CASE c \notin Enrolled
        <4>1. Row(run[w], c).step = 0 BY <1>3, <1>5, <2>1, <3>2 DEF RunInv, Inserts
        <4> QED BY <2>3, <4>1
      <3> QED BY <3>1, <3>2
    <2> QED BY <1>6, <2>1, <2>2, <2>3
  <1>8. NoBacklog'
    <2> SUFFICES ASSUME NEW c \in Enrolled', NEW i \in 1 .. N, calls[c][i] > 0, ~ (spent["crashes"] > 0)
                 PROVE  ~ Stale(enr'[c], i)
      BY <1>4 DEF NoBacklog
    <2>1. c \in Customer /\ enr'[c] # Null BY DEF Enrolled
    <2>2. CASE c \in Enrolled BY <1>5, <2>1, <2>2 DEF Accounts, NoBacklog
    <2>3. CASE c \notin Enrolled
      <3>1. spent["crashes"] = 0 BY <1>2, Numbers
      <3>2. ~ Stale(run[w].new[c], i) BY <1>3, <2>1, <2>3, <3>1 DEF Accounts, Untouched, Enrolled
      <3> QED BY <1>5, <2>1, <2>3, <3>2
    <2> QED BY <2>2, <2>3
  <1>9. StepSentOnce' BY <1>4 DEF Accounts, StepSentOnce
  <1>10. \/ run' = [run EXCEPT ![w] = Null] /\ run[w].dry
         \/ \E u \in Run :
              /\ run' = [run EXCEPT ![w] = u]
              /\ u.todo = run[w].todo /\ u.out = run[w].out
              /\ \A c \in Customer : u.new[c] = Null /\ u.skip[c] = Null /\ u.todo[c] = Null
    <2>1. \A c \in Customer : run[w].todo[c] = Null BY DEF CommitSends
    <2>2. CASE run' = [run EXCEPT ![w] = Null] /\ run[w].dry BY <2>2
    <2>3. ASSUME NEW u \in Run, run' = [run EXCEPT ![w] = u],
                 u.todo = run[w].todo, u.out = run[w].out,
                 \A c \in Customer : u.new[c] = Null /\ u.skip[c] = Null
          PROVE  \E v \in Run :
                   /\ run' = [run EXCEPT ![w] = v]
                   /\ v.todo = run[w].todo /\ v.out = run[w].out
                   /\ \A c \in Customer : v.new[c] = Null /\ v.skip[c] = Null /\ v.todo[c] = Null
      <3>1. \A c \in Customer : u.todo[c] = Null BY <2>1, <2>3
      <3> QED BY <2>3, <3>1
    <2> HIDE DEF OneInv
    <2> QED BY <1>3, <2>2, <2>3, CommittedRun
  <1>11. \/ run'[w] = Null /\ \A c \in Customer : run[w].out[c] = Null
         \/ /\ run'[w] # Null /\ run'[w].out = run[w].out
            /\ \A c \in Customer : run'[w].new[c] = Null /\ run'[w].skip[c] = Null /\ run'[w].todo[c] = Null
    BY <1>2, <1>3, <1>10 DEF TypeOK, Named, RunInv, Previews
  <1>12. Ahead'
    <2> SUFFICES ASSUME NEW c \in Customer, NEW i \in 1 .. N, i > At(c)', ~ UnderWay(c, i)'
                 PROVE  calls[c][i] <= spent["crashes"]
      BY <1>4 DEF Ahead
    <2>1. i > At(c)
      <3>1. At(c) \in Nat /\ At(c)' \in Nat
        BY <1>2, <1>5, <1>6, Numbers DEF At
      <3>2. At(c) <= At(c)'
        <4>1. CASE enr[c] = Null BY <3>1, <4>1 DEF At
        <4>2. CASE enr[c] # Null
          <5>1. enr'[c] # Null /\ Row(run[w], c) = enr[c] /\ enr'[c].step = Base(run[w], c)
            BY <1>5, <4>2 DEF Enrolled
          <5> QED BY <1>6, <4>2, <5>1 DEF At
        <4> QED BY <4>1, <4>2
      <3> QED BY <3>1, <3>2
    <2>2. ~ UnderWay(c, i)
      BY <1>3, <1>11, Steps DEF UnderWay, Named
    <2> QED BY <2>1, <2>2 DEF Accounts, Ahead
  <1>13. Untouched'
    <2> SUFFICES ASSUME spent["crashes"] = 0, NEW c \in Customer, NEW i \in 1 .. N,
                        enr'[c] = Null, calls[c][i] > 0
                 PROVE  FALSE
      BY <1>4 DEF Untouched
    <2>1. Row(run[w], c) = Null BY <1>5
    <2>2. enr[c] = Null /\ run[w].new[c] = Null BY <2>1 DEF Row
    <2> QED BY <1>3, <2>2 DEF Accounts, Untouched
  <1>14. \A v \in Worker : WorkInv(v)'
    <2> SUFFICES ASSUME run'[w] # Null PROVE Skips(w)' /\ Targets(w)' BY <1>3 DEF WorkInv
    <2>1. run'[w].out = run[w].out
          /\ \A c \in Customer : run'[w].new[c] = Null /\ run'[w].skip[c] = Null /\ run'[w].todo[c] = Null
      BY <1>11
    <2>2. Skips(w)' BY <2>1 DEF Skips
    <2>3. ASSUME NEW c \in Customer, run[w].out[c] # Null
          PROVE  InTurn(run[w], c, run[w].out[c])' /\ calls'[c][run'[w].out[c]] > 0
      <3>1. Row(run[w], c) # Null BY <1>3, <2>3 DEF RunInv, Knows
      <3>2. enr'[c] # Null /\ enr'[c].step = Base(run[w], c)
            /\ \A i : Stale(enr'[c], i) <=> Stale(Row(run[w], c), i)
        BY <1>5, <3>1
      <3>3. InTurn(run[w], c, run[w].out[c]) /\ calls[c][run[w].out[c]] > 0
        BY <1>3, <2>3 DEF WorkInv, Targets
      <3> QED BY <1>4, <2>1, <3>2, <3>3 DEF InTurn, Base, Row
    <2>4. Targets(w)' BY <2>1, <2>3 DEF Targets
    <2> QED BY <2>2, <2>4
  <1> QED BY <1>1, <1>7, <1>8, <1>9, <1>12, <1>13, <1>14 DEF Accounts

LEMMA AdvanceAccounts ==
    ASSUME OneInv, Named, OneRunner, NEW w \in Worker, Advance(w)
    PROVE  OneInv'
  <1> USE DEF OneInv
  <1>1. Inv' BY AdvanceKeeps
  <1>2. TypeOK /\ TypeOK' BY <1>1 DEF Inv
  <1>3. run[w] # Null /\ run[w] \in Run /\ RunInv(w) /\ WorkInv(w) /\ \A v \in Worker : v = w
    BY DEF Advance, Inv, TypeOK, OneRunner
  <1>4. UNCHANGED <<calls, spent>> /\ enr' = [c \in Customer |-> Advanced(run[w], c)] BY DEF Advance
  <1>5. run'[w] = Null BY <1>2 DEF Advance, TypeOK
  <1>6. \A c \in Customer : run[w].todo[c] = Null /\ run[w].new[c] = Null /\ run[w].skip[c] = Null
    BY <1>3 DEF Advance, RunInv, Advancing
  <1>7. \A c \in Customer : Row(run[w], c) = enr[c] /\ Base(run[w], c) = enr[c].step
    BY <1>6 DEF Row, Base
  <1>8. ASSUME NEW c \in Customer, run[w].out[c] # Null
        PROVE  /\ enr[c] # Null /\ run[w].out[c] = enr[c].step + 1 /\ enr[c].step < N
               /\ calls[c][run[w].out[c]] > 0
    <2>1. enr[c] # Null BY <1>3, <1>7, <1>8 DEF RunInv, Knows
    <2>2. run[w].out[c] = enr[c].step + 1 /\ calls[c][run[w].out[c]] > 0
      BY <1>3, <1>7, <1>8 DEF WorkInv, Targets, InTurn
    <2>3. run[w].out[c] \in 1 .. N BY <1>3, <1>8 DEF Run
    <2>4. enr[c].step \in Nat /\ N \in Nat BY <1>2, <2>1, Numbers
    <2> QED BY <2>1, <2>2, <2>3, <2>4
  <1>9. ASSUME NEW c \in Customer
        PROVE  /\ (enr'[c] = Null) <=> (enr[c] = Null)
               /\ enr[c] # Null =>
                    /\ enr'[c].step = IF run[w].out[c] # Null THEN enr[c].step + 1 ELSE enr[c].step
                    /\ \A i : Stale(enr'[c], i) <=> Stale(enr[c], i)
    BY <1>4, <1>8, AdvancedRow DEF Enrolled, Stale
  <1>10. NoStepSwallowed'
    <2> SUFFICES ASSUME NEW c \in Enrolled', NEW i \in 1 .. enr'[c].step
                 PROVE  calls[c][i] > 0 \/ Stale(enr'[c], i)
      BY <1>4 DEF NoStepSwallowed
    <2>1. c \in Customer /\ enr[c] # Null /\ c \in Enrolled BY <1>9 DEF Enrolled
    <2>2. CASE i \in 1 .. enr[c].step BY <1>9, <2>1, <2>2 DEF Accounts, NoStepSwallowed
    <2>3. CASE i \notin 1 .. enr[c].step
      <3>1. run[w].out[c] # Null /\ i = enr[c].step + 1
        BY <1>2, <1>9, <2>1, <2>3, Numbers
      <3> QED BY <1>8, <2>1, <3>1
    <2> QED BY <2>2, <2>3
  <1>11. NoBacklog' BY <1>4, <1>9 DEF Accounts, NoBacklog, Enrolled
  <1>12. StepSentOnce' BY <1>4 DEF Accounts, StepSentOnce
  <1>13. Ahead'
    <2> SUFFICES ASSUME NEW c \in Customer, NEW i \in 1 .. N, i > At(c)'
                 PROVE  calls[c][i] <= spent["crashes"]
      BY <1>4 DEF Ahead
    <2>1. At(c) \in Nat BY <1>2, Numbers DEF At
    <2>2. At(c)' = IF enr[c] # Null /\ run[w].out[c] # Null THEN At(c) + 1 ELSE At(c) BY <1>9 DEF At
    <2>3. i > At(c) BY <2>1, <2>2
    <2>4. ~ UnderWay(c, i)
      <3>1. ASSUME run[w].out[c] = i PROVE FALSE
        <4>1. run[w].out[c] # Null BY <3>1, Steps DEF Named
        <4>2. At(c)' = i BY <1>8, <2>2, <3>1, <4>1 DEF At
        <4> QED BY <2>1, <2>2, <4>2
      <3> QED BY <1>3, <3>1 DEF UnderWay
    <2> QED BY <2>3, <2>4 DEF Accounts, Ahead
  <1>14. Untouched' BY <1>3, <1>4, <1>6, <1>9 DEF Accounts, Untouched
  <1>15. \A v \in Worker : WorkInv(v)' BY <1>3, <1>5 DEF WorkInv
  <1> QED BY <1>1, <1>10, <1>11, <1>12, <1>13, <1>14, <1>15 DEF Accounts

LEMMA CrashAccounts ==
    ASSUME OneInv, Named, OneRunner, NEW w \in Worker, Crash(w)
    PROVE  OneInv'
  <1> USE DEF OneInv
  <1>1. Inv' /\ spent'["crashes"] = spent["crashes"] + 1 BY CrashKeeps
  <1>2. TypeOK BY DEF Inv
  <1>3. UNCHANGED <<enr, calls>> /\ run'[w] = Null /\ \A v \in Worker : v = w
    BY <1>2 DEF Crash, people, TypeOK, OneRunner
  <1>4. spent["crashes"] \in Nat BY <1>2, Numbers
  <1>5. NoStepSwallowed' BY <1>3 DEF Accounts, NoStepSwallowed, Enrolled
  <1>6. NoBacklog' BY <1>1, <1>4 DEF NoBacklog
  <1>7. StepSentOnce' BY <1>1, <1>2, <1>3, Numbers DEF Accounts, StepSentOnce
  <1>8. Ahead'
    <2> SUFFICES ASSUME NEW c \in Customer, NEW i \in 1 .. N
                 PROVE  calls[c][i] <= spent["crashes"] + 1
      BY <1>1, <1>3 DEF Ahead
    <2>1. calls[c][i] <= 1 + spent["crashes"] BY DEF Accounts, StepSentOnce
    <2> QED BY <1>4, <2>1
  <1>9. Untouched' BY <1>1, <1>4 DEF Untouched
  <1>10. \A v \in Worker : WorkInv(v)' BY <1>3 DEF WorkInv
  <1> QED BY <1>1, <1>5, <1>6, <1>7, <1>8, <1>9, <1>10 DEF Accounts

LEMMA AccountsStart == ASSUME Init, Named PROVE OneInv
  <1>1. Inv BY Starts
  <1>2. Accounts
    BY DEF Init, Accounts, NoStepSwallowed, NoBacklog, StepSentOnce, Ahead, Untouched, Enrolled
  <1> QED BY <1>1, <1>2 DEF OneInv, Init, WorkInv

LEMMA StepAccounts == ASSUME OneInv, Named, OneRunner, [Next]_vars PROVE OneInv'
  <1>1. ASSUME NEW w \in Worker, RunStep(w) \/ Crash(w) PROVE OneInv'
    BY <1>1, BeginAccounts, DispatchAccounts, CommitAccounts, AdvanceAccounts, CrashAccounts
    DEF RunStep, Dispatch
  <1>2. ASSUME NEW c \in Customer, Request(c) PROVE OneInv' BY <1>2, RequestAccounts
  <1>3. ASSUME NEW o \in Operator, Answer(o) PROVE OneInv' BY <1>3, AnswerAccounts
  <1> QED BY <1>1, <1>2, <1>3, ElseAccounts DEF Next

\* Nothing "would silently swallow a message the customer was meant to receive"
\* (backend/app/automations/sequences.py:505), and nobody gets the backlog: with one
\* thread running the automation, each step behind a customer was sent or was stale
\* when they joined, and no stale one was sent, for any steps, grace, requests and
\* faults.
THEOREM StepsAreAccountedFor ==
    ASSUME Named, OneRunner PROVE Spec => []StepsAccountedFor
  <1>1. Init => OneInv BY AccountsStart
  <1>2. OneInv /\ [Next]_vars => OneInv' BY StepAccounts
  <1>3. OneInv => StepsAccountedFor BY DEF OneInv, Accounts, StepsAccountedFor
  <1> QED BY <1>1, <1>2, <1>3, PTL DEF Spec

\* The provider accepts each step once for a customer, and once more for each run
\* that is lost after sending, under the same assumption.
THEOREM StepsAreSentOnce == ASSUME Named, OneRunner PROVE Spec => []StepSentOnce
  <1>1. Init => OneInv BY AccountsStart
  <1>2. OneInv /\ [Next]_vars => OneInv' BY StepAccounts
  <1>3. OneInv => StepSentOnce BY DEF OneInv, Accounts
  <1> QED BY <1>1, <1>2, <1>3, PTL DEF Spec
---------------------------------------------------------------------------
(* The stop, with one runner: whoever is stopped while a run holds a step  *)
(* for them was stopped by an opt-out, which the gates ask for again.      *)

Stops(w) == \A c \in Enrolled :
    /\ run[w] # Null /\ ~ run[w].dry /\ run[w].todo[c] # Null
    /\ enr[c].status = "STOPPED" /\ spent.optIns = 0
    => c \in optedOut

StopInv == Inv /\ \A w \in Worker : Stops(w)

\* A live run begins with steps for active customers only.
LEMMA BegunActive ==
    ASSUME Inv, Named, NEW w \in Worker, NEW joining \in Joining,
           Begin(w, FALSE, joining), run' # run,
           NEW c \in Customer, run'[w].todo[c] # Null, enr'[c] # Null
    PROVE  enr'[c].status = "ACTIVE"
  <1> DEFINE seen == [d \in Customer |-> IF FALSE \/ joining[d] = Null THEN enr[d] ELSE joining[d]]
             active == {d \in Customer : seen[d] # Null /\ seen[d].status = "ACTIVE"}
             stopped == {d \in active : MustStop(d)}
             after == [d \in Customer |->
                         IF d \in stopped THEN [seen[d] EXCEPT !.status = "STOPPED"]
                         ELSE seen[d]]
             commits == ~ FALSE /\ stopped # {}
             going == active \ stopped
  <1>1. enr' = IF commits THEN after ELSE enr
    BY DEF Begin
  <1>2. run'[w].todo = [d \in Customer |-> IF d \in going THEN Candidate(seen[d]) ELSE Null]
    BY DEF Begin, Inv, TypeOK
  <1>3. c \in going
    BY <1>2
  <1>4. joining[c] # Null => enr[c] = Null
    BY JoiningIs DEF Inv, Enrolled
  <1>5. CASE commits
    BY <1>1, <1>3, <1>5
  <1>6. CASE ~ commits
    BY <1>1, <1>3, <1>4, <1>6
  <1> QED
    BY <1>5, <1>6

LEMMA BeginStops ==
    ASSUME StopInv, Named, OneRunner, NEW w \in Worker, BeginLive(w) \/ BeginDry(w)
    PROVE  \A v \in Worker : Stops(v)'
  <1>1. run[w] = Null /\ \A v \in Worker : v = w
    BY DEF BeginLive, BeginDry, Begin, OneRunner
  <1>2. CASE run' = run
    BY <1>1, <1>2 DEF Stops
  <1>3. CASE run' # run /\ BeginLive(w)
    <2>1. PICK joining \in Joining : Begin(w, FALSE, joining)
      BY <1>3 DEF BeginLive
    <2>2. \A c \in Customer : run'[w].todo[c] # Null /\ enr'[c] # Null => enr'[c].status = "ACTIVE"
      BY <1>3, <2>1, BegunActive DEF StopInv
    <2> QED
      BY <1>1, <2>2 DEF Stops, Enrolled
  <1>4. CASE run' # run /\ BeginDry(w)
    <2>1. run'[w].dry = TRUE
      BY <1>4 DEF BeginDry, Begin, StopInv, Inv, TypeOK
    <2> QED
      BY <1>1, <2>1 DEF Stops
  <1> QED
    BY <1>2, <1>3, <1>4

\* What StoppedGetsNothing asks of a step.
Quiet ==
    \A c \in Enrolled :
        enr[c].status = "STOPPED" /\ spent.optIns = 0 =>
            /\ \A w \in Worker : InHand(w, c)' => InHand(w, c)
            /\ calls'[c] # calls[c] => \E w \in Worker : InHand(w, c) /\ ~ InHand(w, c)'

LEMMA DispatchStops ==
    ASSUME StopInv, Named, OneRunner, NEW w \in Worker, Dispatch(w)
    PROVE  (\A v \in Worker : Stops(v)') /\ Quiet
  <1>1. PICK c \in Customer, u \in Run :
             /\ run[w] \in Run /\ run[w].todo[c] \in 1 .. N /\ run[w].pc = "sending"
             /\ run' = [run EXCEPT ![w] = u]
             /\ u.pc = "sending" /\ u.dry = run[w].dry /\ u.new = run[w].new /\ u.skip = run[w].skip
             /\ \A d \in Customer : u.todo[d] # Null => u.todo[d] = run[w].todo[d]
             /\ \/ /\ ~ run[w].dry /\ run[w].cur = c /\ u.cur = Null
                   /\ u.todo = [run[w].todo EXCEPT ![c] = Null]
                   /\ u.out = [run[w].out EXCEPT ![c] = run[w].todo[c]]
                   /\ calls' = [calls EXCEPT ![c][run[w].todo[c]] = @ + 1]
                \/ /\ u.out = run[w].out /\ UNCHANGED calls
                   /\ \/ u.cur = Null
                      \/ u.cur = c /\ u.todo = run[w].todo /\ ~ run[w].dry /\ c \notin optedOut
    BY Dispatched DEF StopInv
  <1>2. UNCHANGED <<enr, optedOut>> /\ spent'.optIns = spent.optIns
    BY DEF Dispatch, Gate, Call, people, Spend, StopInv, Inv, TypeOK
  <1>3. run[w] # Null /\ run[w].todo[c] # Null
    BY <1>1, Steps DEF Named
  <1>4. Stops(w) /\ \A v \in Worker : v = w
    BY DEF StopInv, OneRunner
  <1>5. run'[w] = u
    BY <1>1 DEF StopInv, Inv, TypeOK
  <1>6. \A v \in Worker : Stops(v)'
    BY <1>1, <1>2, <1>3, <1>4, <1>5 DEF Stops, Enrolled
  <1>7. ASSUME NEW d \in Enrolled, enr[d].status = "STOPPED", spent.optIns = 0
        PROVE  /\ InHand(w, d)' => InHand(w, d)
               /\ calls'[d] # calls[d] => InHand(w, d) /\ ~ InHand(w, d)'
    <2>1. d \in Customer /\ d # Null
      BY DEF Enrolled, Named
    <2>2. d = c => run[w].dry \/ c \in optedOut
      BY <1>3, <1>4, <1>7 DEF Stops
    <2>3. InHand(w, d)' => u.cur = d
      BY <1>5 DEF InHand
    <2>4. InHand(w, d)' => FALSE
      BY <1>1, <2>1, <2>2, <2>3
    <2>5. calls'[d] # calls[d] => d = c /\ run[w].cur = c
      BY <1>1, <2>1 DEF StopInv, Inv, TypeOK
    <2> QED
      BY <1>3, <2>4, <2>5 DEF InHand
  <1> QED
    BY <1>4, <1>6, <1>7 DEF Quiet

\* A step that lets nobody through and calls nobody.
LEMMA QuietStep ==
    ASSUME UNCHANGED calls,
           \A w \in Worker, c \in Customer : InHand(w, c)' => InHand(w, c)
    PROVE  Quiet
  BY DEF Quiet, Enrolled

\* A run that is past its last customer holds no step.
LEMMA EndStops ==
    ASSUME StopInv, OneRunner, NEW w \in Worker,
           CommitSends(w) \/ Advance(w) \/ Crash(w)
    PROVE  \A v \in Worker : Stops(v)'
  <1>1. \A v \in Worker : v = w
    BY DEF OneRunner
  <1>2. CASE CommitSends(w)
    <2>1. run[w] \in Run /\ \A c \in Customer : run[w].todo[c] = Null
      BY <1>2 DEF CommitSends, StopInv, Inv, TypeOK
    <2>2. \/ run' = [run EXCEPT ![w] = Null]
          \/ \E u \in Run : run' = [run EXCEPT ![w] = u] /\ u.todo = run[w].todo
      BY <1>2, <2>1, CommittedRun
    <2>3. run'[w] = Null \/ \A c \in Customer : run'[w].todo[c] = Null
      BY <2>1, <2>2 DEF StopInv, Inv, TypeOK
    <2> QED
      BY <1>1, <2>3 DEF Stops, Enrolled
  <1>3. CASE Advance(w) \/ Crash(w)
    <2>1. run'[w] = Null
      BY <1>3 DEF Advance, Crash, StopInv, Inv, TypeOK
    <2> QED
      BY <1>1, <2>1 DEF Stops
  <1> QED
    BY <1>2, <1>3

LEMMA RequestStops ==
    ASSUME StopInv, Named, NEW c \in Customer, Request(c), NEW w \in Worker
    PROVE  Stops(w)'
  <1> USE DEF StopInv, Inv, TypeOK
  <1>1. run' = run
    BY DEF Request, PauseEnrollment, ResumeEnrollment, Ask, AddEnrollment, OptOut, OptIn,
           PlaceOrder, OtherMessage
  <1>2. CASE OptIn(c)
    <2>1. spent'.optIns = spent.optIns + 1 /\ spent.optIns \in Nat
      BY <1>2 DEF OptIn, Spend
    <2> QED
      BY <2>1 DEF Stops
  <1>3. CASE OptOut(c)
    <2>1. /\ optedOut' = optedOut \cup {c} /\ spent'.optIns = spent.optIns
          /\ \A d \in Customer \ {c} : enr'[d] = enr[d]
      BY <1>3 DEF OptOut, SetStatus, Spend
    <2> QED
      BY <1>1, <2>1 DEF Stops, Enrolled
  <1>4. CASE ~ OptIn(c) /\ ~ OptOut(c)
    <2>1. UNCHANGED optedOut /\ spent'.optIns = spent.optIns
      BY <1>4 DEF Request, PauseEnrollment, ResumeEnrollment, Ask, AddEnrollment,
             PlaceOrder, OtherMessage, people, Spend
    <2>2. /\ \A d \in Customer \ {c} : enr'[d] = enr[d]
          /\ enr'[c] = enr[c] \/ enr'[c].status = "ACTIVE"
      <3>1. CASE \E o \in Operator : PauseEnrollment(o, c) \/ ResumeEnrollment(o, c)
        BY <3>1 DEF PauseEnrollment, ResumeEnrollment, Ask, people
      <3>2. CASE AddEnrollment(c)
        BY <3>2 DEF AddEnrollment, NewEnrollment
      <3>3. CASE PlaceOrder(c) \/ OtherMessage(c)
        BY <3>3 DEF PlaceOrder, OtherMessage, people
      <3> QED
        BY <1>4, <3>1, <3>2, <3>3 DEF Request
    <2> QED
      BY <1>1, <2>1, <2>2 DEF Stops, Enrolled
  <1> QED
    BY <1>2, <1>3, <1>4

LEMMA StepStops ==
    ASSUME StopInv, Named, OneRunner, [Next]_vars
    PROVE  StopInv' /\ Quiet
  <1>1. Inv'
    BY StepKeeps DEF StopInv
  <1>2. ASSUME NEW w \in Worker, RunStep(w) \/ Crash(w)
        PROVE  (\A v \in Worker : Stops(v)') /\ Quiet
    <2>1. CASE Dispatch(w)
      BY <2>1, DispatchStops
    <2>2. CASE BeginLive(w) \/ BeginDry(w)
      <3>1. /\ UNCHANGED calls
            /\ run' = run \/ run'[w].cur = Null
        <4>1. PICK dry \in BOOLEAN, joining \in [Customer -> Enrollment \cup {Null}] :
                 /\ Begin(w, dry, joining)
                 /\ dry => \A c \in Customer : joining[c] = Null
                 /\ \A c \in Customer : joining[c] # Null =>
                      c \notin Enrolled \cup Inserting /\ joining[c].step = 0
          BY <2>2, HowBegun DEF StopInv
        <4>2. UNCHANGED calls
          BY <4>1 DEF Begin
        <4>3. run' = run \/ \E u \in Run : run' = [run EXCEPT ![w] = u] /\ u.cur = Null
          BY <4>1, Begun DEF StopInv
        <4> QED
          BY <4>2, <4>3 DEF StopInv, Inv, TypeOK
      <3>2. \A v \in Worker : v = w
        BY DEF OneRunner
      <3>3. \A v \in Worker, c \in Customer : InHand(v, c)' => InHand(v, c)
        BY <3>1, <3>2 DEF InHand, Named
      <3> QED
        BY <2>2, <3>1, <3>3, BeginStops, QuietStep
    <2>3. CASE CommitSends(w) \/ Advance(w) \/ Crash(w)
      <3>1. UNCHANGED calls
        BY <2>3 DEF CommitSends, Advance, Crash
      <3>2. run'[w] # Null => run'[w].cur = run[w].cur /\ run[w] # Null
        <4>1. CASE CommitSends(w)
          <5>1. run[w] \in Run /\ run[w] # Null
            BY <4>1 DEF CommitSends, StopInv, Inv, TypeOK
          <5>2. \/ run' = [run EXCEPT ![w] = Null]
                \/ \E u \in Run : run' = [run EXCEPT ![w] = u] /\ u.cur = run[w].cur
            BY <4>1, <5>1, CommittedRun
          <5> QED
            BY <5>1, <5>2 DEF StopInv, Inv, TypeOK
        <4>2. CASE Advance(w) \/ Crash(w)
          BY <4>2 DEF Advance, Crash, StopInv, Inv, TypeOK
        <4> QED
          BY <2>3, <4>1, <4>2
      <3>3. \A v \in Worker : v = w
        BY DEF OneRunner
      <3>4. \A v \in Worker, c \in Customer : InHand(v, c)' => InHand(v, c)
        BY <3>2, <3>3 DEF InHand
      <3> QED
        BY <2>3, <3>1, <3>4, EndStops, QuietStep
    <2> QED
      BY <1>2, <2>1, <2>2, <2>3 DEF RunStep, Dispatch
  <1>3. ASSUME NEW c \in Customer, Request(c)
        PROVE  (\A w \in Worker : Stops(w)') /\ Quiet
    <2>1. UNCHANGED <<run, calls>>
      BY <1>3, RequestKeeps DEF StopInv
    <2> QED
      BY <1>3, <2>1, RequestStops, QuietStep DEF InHand
  <1>4. ASSUME NEW o \in Operator, Answer(o)
        PROVE  (\A w \in Worker : Stops(w)') /\ Quiet
    <2>1. /\ UNCHANGED <<run, calls, optedOut, spent>>
          /\ \A d \in Customer : enr'[d] = enr[d] \/ enr'[d].status \in {"ACTIVE", "PAUSED"}
      BY <1>4, AnswerKeeps DEF StopInv
    <2>2. \A w \in Worker : Stops(w)'
      BY <2>1 DEF StopInv, Stops, Enrolled
    <2> QED
      BY <2>1, <2>2, QuietStep DEF InHand
  <1>5. CASE SetAutomation \/ Tick \/ UNCHANGED vars
    <2>1. UNCHANGED <<run, enr, optedOut, calls>> /\ spent'.optIns = spent.optIns
      BY <1>5 DEF SetAutomation, Tick, vars, people, Spend, StopInv, Inv, TypeOK
    <2>2. \A w \in Worker : Stops(w)'
      BY <2>1 DEF StopInv, Stops, Enrolled
    <2> QED
      BY <1>1, <2>1, <2>2, QuietStep DEF StopInv, InHand
  <1> QED
    BY <1>1, <1>2, <1>3, <1>4, <1>5 DEF Next, StopInv

\* While one thread runs the automation, nothing is let through any more for an
\* enrollment that is stopped, whoever stopped it and whatever the run under way had
\* planned, and the provider gets for it at most the step that was let through
\* before, unless the customer has opted in again.
THEOREM StopMeansNothing ==
    ASSUME Named, OneRunner PROVE Spec => StoppedGetsNothing
  <1>1. Init => StopInv
    BY Starts DEF Init, StopInv, Stops
  <1>2. StopInv /\ [Next]_vars => StopInv'
    BY StepStops
  <1>3. StopInv /\ [Next]_vars => [Quiet]_vars
    BY StepStops
  <1> QED
    BY <1>1, <1>2, <1>3, PTL DEF Spec, StoppedGetsNothing, Quiet
=============================================================================

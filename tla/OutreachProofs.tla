--------------------------- MODULE OutreachProofs ---------------------------
(***************************************************************************)
(* The two schedules of MCOutreach, the nudges first, the journey below.   *)
(*                                                                         *)
(* The nudge schedule keeps the promise of spaced contact: whatever runs,  *)
(* refreshes, requests and lost runs come between, it implements           *)
(* SpacedContact, for every set of customers and workers and every gap.    *)
(*                                                                         *)
(* `TooSoon` looks at last_sent_at, the promise at the ledger. The two     *)
(* differ while a run is between its two commits, and the argument is      *)
(* about that gap: the day such a run claimed is the only day on which     *)
(* anybody could take the customer up again (`Alike`), and it is claimed   *)
(* (`Booked`); in between, last_sent_at is the ledger's (`Remembered`).    *)
(***************************************************************************)
EXTENDS MCOutreach, TLAPS

\* Null is none of the values it stands for the absence of.
Named == Null \notin Int /\ Null \notin Enrollment /\ Null \notin Run

Took(w) == run[w] # Null /\ run[w].pc \in {"sending", "sent", "committed"}

\* Whoever took a customer up took the same day, and the enrollment, if it is
\* still due, is due for that day.
Alike ==
    \A w \in Worker : Took(w) =>
        \A c \in DOMAIN run[w].due :
            /\ enr[c] # Null
            /\ enr[c].due # Null /\ enr[c].due <= 0 => enr[c].due = run[w].due[c]
            /\ \A v \in Worker : Took(v) /\ c \in DOMAIN run[v].due => run[v].due[c] = run[w].due[c]

\* A day that may still be sent was not preceded by a message too soon before.
Spaced ==
    \A w \in Worker : run[w] # Null /\ run[w].pc \in {"sending", "sent"} =>
        \A c \in DOMAIN run[w].due :
            run[w].due[c] \notin claims[c] => since[c] = Gap \/ c \in unsure

\* What a run has committed is claimed, and was recorded today.
Booked ==
    \A w \in Worker : Took(w) =>
        /\ run[w].sent \subseteq DOMAIN run[w].due
        /\ run[w].pc = "committed" =>
             \A c \in run[w].sent : run[w].due[c] \in claims[c] /\ since[c] = 0

Between(w, c) == run[w] # Null /\ run[w].pc = "committed" /\ c \in run[w].sent

\* The enrollment knows how long ago the last message was.
Remembered ==
    \A c \in Customer :
        \/ c \in unsure
        \/ \E w \in Worker : Between(w, c)
        \/ IF enr[c] = Null THEN since[c] = Gap
           ELSE IF enr[c].last = Null THEN since[c] = Gap ELSE enr[c].last = since[c]

IInv == TypeOK /\ Alike /\ Spaced /\ Booked /\ Remembered

---------------------------------------------------------------------------
(* The calendar. *)

\* The next day of a pattern is one of the coming week, never today.
LEMMA NextDay ==
    ASSUME NEW pattern \in Weekday, today \in Weekday
    PROVE  DueFromPattern(pattern) \in 1 .. Week
<1>1. \E k \in 1 .. Week : (today + k) % Week = pattern
  <2>1. \A x \in Weekday : x % Week = x /\ (x + Week) % Week = x
    BY NudgeAssumption DEF Weekday
  <2>2. CASE pattern > today
    <3>1. pattern - today \in 1 .. Week /\ today + (pattern - today) = pattern
      BY <2>2, NudgeAssumption DEF Weekday
    <3> QED BY <2>1, <3>1
  <2>3. CASE pattern <= today
    <3>1. (pattern + Week) - today \in 1 .. Week /\ today + ((pattern + Week) - today) = pattern + Week
      BY <2>3, NudgeAssumption DEF Weekday
    <3> QED BY <2>1, <3>1
  <2> QED BY <2>2, <2>3, NudgeAssumption DEF Weekday
<1> QED BY <1>1 DEF DueFromPattern

---------------------------------------------------------------------------
(* What a run is. *)

\* A run that took customers up knows the day each was due.
LEMMA Taking ==
    ASSUME TypeOK, Named, NEW w \in Worker, Took(w)
    PROVE  /\ DOMAIN run[w].due \subseteq Customer
           /\ run[w].due \in [DOMAIN run[w].due -> Relative]
           /\ run[w].spared \subseteq DOMAIN run[w].due
           /\ run[w].sent \subseteq DOMAIN run[w].due
<1>1. run[w] \in Run /\ run[w].pc # "prepared"
  BY DEF TypeOK, Took
<1>2. run[w] \notin [pc : {"prepared"}]
  BY <1>1
<1>3. PICK D \in SUBSET Customer :
        run[w] \in [pc : {"sending", "sent", "committed"}, due : [D -> Relative],
                    spared : SUBSET D, sent : SUBSET D]
  BY <1>1, <1>2 DEF Run
<1>4. DOMAIN run[w].due = D
  BY <1>3
<1> QED BY <1>3, <1>4

\* The runs there may be.
LEMMA IsRun ==
    ASSUME NEW D \in SUBSET Customer, NEW due \in [D -> Relative], NEW spared \in SUBSET D,
           NEW sent \in SUBSET D, NEW pc \in {"sending", "sent", "committed"}
    PROVE  [pc |-> pc, due |-> due, spared |-> spared, sent |-> sent] \in Run
<1>1. [pc |-> pc, due |-> due, spared |-> spared, sent |-> sent] \in
        [pc : {"sending", "sent", "committed"}, due : [D -> Relative], spared : SUBSET D, sent : SUBSET D]
  OBVIOUS
<1> QED BY <1>1 DEF Run

\* A run that goes on with another list of messages.
LEMMA GoesOn ==
    ASSUME TypeOK, Named, NEW w \in Worker, Took(w),
           NEW pc \in {"sending", "sent", "committed"}, NEW sent \in SUBSET DOMAIN run[w].due,
           run' = [run EXCEPT ![w] = [@ EXCEPT !.pc = pc, !.sent = sent]]
    PROVE  /\ run' \in [Worker -> Run \cup {Null}]
           /\ run'[w] # Null
           /\ run'[w].pc = pc /\ run'[w].sent = sent /\ run'[w].due = run[w].due
           /\ \A v \in Worker : v # w => run'[v] = run[v]
<1>1. run[w] \in Run /\ run[w].pc # "prepared"
  BY DEF TypeOK, Took
<1>2. run[w] \notin [pc : {"prepared"}]
  BY <1>1
<1>3. PICK D \in SUBSET Customer :
        run[w] \in [pc : {"sending", "sent", "committed"}, due : [D -> Relative],
                    spared : SUBSET D, sent : SUBSET D]
  BY <1>1, <1>2 DEF Run
<1>4. DOMAIN run[w].due = D
  BY <1>3
<1> DEFINE next == [run[w] EXCEPT !.pc = pc, !.sent = sent]
<1>5. /\ next \in [pc : {"sending", "sent", "committed"}, due : [D -> Relative],
                   spared : SUBSET D, sent : SUBSET D]
      /\ next.pc = pc /\ next.sent = sent /\ next.due = run[w].due
  BY <1>3, <1>4
<1>6. next \in Run
  BY <1>5 DEF Run
<1>7. run' = [run EXCEPT ![w] = next]
  OBVIOUS
<1> HIDE DEF next
<1>8. run'[w] = next /\ (\A v \in Worker : v # w => run'[v] = run[v])
  BY <1>7 DEF TypeOK
<1>9. run' \in [Worker -> Run \cup {Null}]
  BY <1>6, <1>7 DEF TypeOK
<1>10. next # Null
  BY <1>6 DEF Named
<1> QED BY <1>5, <1>8, <1>9, <1>10

LEMMA IsPrepared == [pc |-> "prepared"] \in Run
<1>1. [pc |-> "prepared"] \in [pc : {"prepared"}]
  OBVIOUS
<1> QED BY <1>1 DEF Run

---------------------------------------------------------------------------
(* What becomes of enrollments outside a run. *)

Rows == [Customer -> Enrollment \cup {Null}]

\* A customer's enrollment may begin, be put off and be stopped; the last message
\* is remembered, and nothing comes due by it.
Gently(rows, next) ==
    \A c \in Customer :
        IF rows[c] = Null THEN next[c] = Null \/ next[c].last = Null
        ELSE /\ next[c] # Null /\ next[c].last = rows[c].last
             /\ next[c].due = rows[c].due \/ next[c].due = Null \/ next[c].due >= 1

LEMMA EnrollsGently ==
    ASSUME NEW rows \in Rows, NEW habit \in Habits, today \in Weekday, Named
    PROVE  Enroll(rows, habit) \in Rows /\ Gently(rows, Enroll(rows, habit))
<1> DEFINE next == Enroll(rows, habit)
<1>1. ASSUME NEW c \in Customer, rows[c] = Null, habit[c] # Null
      PROVE  next[c] \in Enrollment /\ next[c].last = Null
  <2>1. habit[c] \in Weekday
    BY <1>1 DEF Habits, Pattern
  <2>2. DueFromPattern(habit[c]) \in 1 .. Week
    BY <2>1, NextDay
  <2>3. DueFromPattern(habit[c]) \in Relative
    BY <2>2, NudgeAssumption DEF Relative
  <2> QED BY <1>1, <2>1, <2>3 DEF Enroll, Enrollment, EnrollmentStatus, Pattern
<1>2. ASSUME NEW c \in Customer, rows[c] # Null \/ habit[c] = Null
      PROVE  next[c] = rows[c]
  BY <1>2 DEF Enroll
<1>3. next = [c \in Customer |-> next[c]]
  BY DEF Enroll
<1>4. \A c \in Customer : next[c] \in Enrollment \cup {Null}
  BY <1>1, <1>2 DEF Rows
<1>5. next \in Rows
  BY <1>3, <1>4 DEF Rows
<1>6. Gently(rows, next)
  BY <1>1, <1>2 DEF Gently
<1> QED BY <1>5, <1>6

LEMMA StoppedIs ==
    ASSUME NEW e \in Enrollment
    PROVE  Stopped(e) \in Enrollment /\ Stopped(e).last = e.last /\ Stopped(e).due = Null
BY DEF Stopped, Enrollment, EnrollmentStatus

LEMMA RefreshesGently ==
    ASSUME NEW rows \in Rows, NEW habit \in Habits, NEW old \in SUBSET Customer,
           today \in Weekday, Named
    PROVE  Refresh(rows, habit, old) \in Rows /\ Gently(rows, Refresh(rows, habit, old))
<1> DEFINE next == Refresh(rows, habit, old)
<1>1. ASSUME NEW c \in Customer, IsActive(rows[c]), c \in old, habit[c] = Null
      PROVE  next[c] \in Enrollment /\ next[c].last = rows[c].last /\ next[c].due = Null
  <2>1. rows[c] \in Enrollment
    BY <1>1 DEF IsActive, Rows
  <2>2. next[c] = [Stopped(rows[c]) EXCEPT !.pattern = Null]
    BY <1>1 DEF Refresh
  <2> QED BY <2>1, <2>2, StoppedIs DEF Enrollment, Pattern
<1>2. ASSUME NEW c \in Customer, IsActive(rows[c]), c \in old, habit[c] # Null
      PROVE  next[c] \in Enrollment /\ next[c].last = rows[c].last /\ next[c].due >= 1
  <2>1. rows[c] \in Enrollment
    BY <1>2 DEF IsActive, Rows
  <2>2. habit[c] \in Weekday
    BY <1>2 DEF Habits, Pattern
  <2>3. DueFromPattern(habit[c]) \in 1 .. Week
    BY <2>2, NextDay
  <2>4. DueFromPattern(habit[c]) \in Relative
    BY <2>3, NudgeAssumption DEF Relative
  <2>5. next[c] = [rows[c] EXCEPT !.pattern = habit[c], !.due = DueFromPattern(habit[c])]
    BY <1>2 DEF Refresh
  <2>6. next[c] = [status |-> rows[c].status, pattern |-> habit[c],
                  due |-> DueFromPattern(habit[c]), last |-> rows[c].last]
    BY <2>1, <2>5 DEF Enrollment
  <2>7. next[c] \in Enrollment
    BY <2>1, <2>2, <2>4, <2>6 DEF Enrollment, Pattern
  <2> QED BY <2>3, <2>6, <2>7
<1>3. ASSUME NEW c \in Customer, ~ IsActive(rows[c]) \/ c \notin old
      PROVE  next[c] = rows[c]
  BY <1>3 DEF Refresh
<1>4. next = [c \in Customer |-> next[c]]
  BY DEF Refresh
<1>5. \A c \in Customer : next[c] \in Enrollment \cup {Null}
  BY <1>1, <1>2, <1>3 DEF Rows
<1>6. next \in Rows
  BY <1>4, <1>5 DEF Rows
<1>7. Gently(rows, next)
  BY <1>1, <1>2, <1>3, Named DEF Gently, IsActive, Named
<1> QED BY <1>6, <1>7

LEMMA StopsGently ==
    ASSUME NEW rows \in Rows, Named
    PROVE  StopOptedOut(rows) \in Rows /\ Gently(rows, StopOptedOut(rows))
<1> DEFINE next == StopOptedOut(rows)
<1>1. ASSUME NEW c \in Customer, IsActive(rows[c]), c \in optedOut
      PROVE  next[c] \in Enrollment /\ next[c].last = rows[c].last /\ next[c].due = Null
  <2>1. rows[c] \in Enrollment
    BY <1>1 DEF IsActive, Rows
  <2> QED BY <1>1, <2>1, StoppedIs DEF StopOptedOut
<1>2. ASSUME NEW c \in Customer, ~ IsActive(rows[c]) \/ c \notin optedOut
      PROVE  next[c] = rows[c]
  BY <1>2 DEF StopOptedOut
<1>3. next = [c \in Customer |-> next[c]]
  BY DEF StopOptedOut
<1>4. \A c \in Customer : next[c] \in Enrollment \cup {Null}
  BY <1>1, <1>2 DEF Rows
<1>5. next \in Rows
  BY <1>3, <1>4 DEF Rows
<1>6. Gently(rows, next)
  BY <1>1, <1>2, Named DEF Gently, IsActive, Named
<1> QED BY <1>5, <1>6

LEMMA GentlyTwice ==
    ASSUME NEW rows \in Rows, NEW mid \in Rows, NEW next \in Rows, Named,
           Gently(rows, mid), Gently(mid, next)
    PROVE  Gently(rows, next)
BY DEF Gently, Named

\* Setting a status does not touch the rest.
LEMMA StatusGently ==
    ASSUME NEW rows \in Rows, NEW c \in Customer, rows[c] # Null, NEW s \in EnrollmentStatus, Named
    PROVE  /\ [rows EXCEPT ![c].status = s] \in Rows
           /\ Gently(rows, [rows EXCEPT ![c].status = s])
<1> DEFINE next == [rows EXCEPT ![c].status = s]
<1>1. rows[c] \in Enrollment
  BY DEF Rows
<1>2. next[c] \in Enrollment /\ next[c].last = rows[c].last /\ next[c].due = rows[c].due
  BY <1>1 DEF Rows, Enrollment
<1>3. \A d \in Customer : d # c => next[d] = rows[d]
  BY DEF Rows
<1>4. next \in Rows
  BY <1>2, <1>3 DEF Rows
<1>5. Gently(rows, next)
  BY <1>2, <1>3, Named DEF Gently, Named
<1> QED BY <1>4, <1>5

---------------------------------------------------------------------------
(* The invariant. *)

LEMMA Starts == ASSUME Init, Named PROVE IInv
<1>1. TypeOK
  BY NudgeAssumption DEF Init, TypeOK, Weekday
<1>2. \A w \in Worker : ~ Took(w)
  BY DEF Init, Took
<1> QED
  BY <1>1, <1>2 DEF Init, IInv, Alike, Spaced, Booked, Remembered, Took

\* No run goes on and none is sent; one may begin.
Apart ==
    /\ UNCHANGED <<claims, since, unsure>>
    /\ \A w \in Worker : run'[w] = run[w] \/ (run[w] = Null /\ run'[w] = [pc |-> "prepared"])

LEMMA ApartKeeps ==
    ASSUME IInv, TypeOK', Named, Apart, Gently(enr, enr')
    PROVE  IInv'
<1> USE DEF IInv, Apart
<1>1. ASSUME NEW w \in Worker, Took(w)'
      PROVE  Took(w) /\ run'[w] = run[w]
  BY <1>1 DEF Took
<1>2. ASSUME NEW w \in Worker, NEW c \in Customer, Between(w, c)
      PROVE  Between(w, c)'
  BY <1>2 DEF Between
<1>3. Alike'
  <2> SUFFICES ASSUME NEW w \in Worker, Took(w)', NEW c \in DOMAIN run'[w].due
               PROVE  /\ enr'[c] # Null
                      /\ enr'[c].due # Null /\ enr'[c].due <= 0 => enr'[c].due = run'[w].due[c]
                      /\ \A v \in Worker : Took(v)' /\ c \in DOMAIN run'[v].due => run'[v].due[c] = run'[w].due[c]
    BY DEF Alike
  <2>1. Took(w) /\ run'[w] = run[w] /\ c \in Customer
    BY <1>1, Taking
  <2>2. enr[c] # Null /\ (enr[c].due # Null /\ enr[c].due <= 0 => enr[c].due = run[w].due[c])
    BY <2>1 DEF Alike
  <2>3. enr'[c] # Null /\ (enr'[c].due = enr[c].due \/ enr'[c].due = Null \/ enr'[c].due >= 1)
    BY <2>1, <2>2 DEF Gently
  <2>4. enr'[c] \in Enrollment
    BY <2>1, <2>3 DEF TypeOK
  <2>5. enr'[c].due # Null /\ enr'[c].due <= 0 => enr'[c].due = enr[c].due
    BY <2>3, <2>4 DEF Enrollment, Relative
  <2>6. \A v \in Worker : Took(v)' /\ c \in DOMAIN run'[v].due => run'[v].due[c] = run'[w].due[c]
    BY <1>1, <2>1 DEF Alike
  <2> QED BY <2>1, <2>2, <2>3, <2>5, <2>6
<1>4. Spaced'
  BY <1>1 DEF Spaced, Took
<1>5. Booked'
  BY <1>1 DEF Booked
<1>6. Remembered'
  BY <1>2 DEF Remembered, Gently
<1> QED BY <1>3, <1>4, <1>5, <1>6

---------------------------------------------------------------------------
(* Steps that only change enrollments. *)

LEMMA PrepareKeeps ==
    ASSUME IInv, Named, NEW w \in Worker, Prepare(w)
    PROVE  IInv'
<1> USE DEF IInv
<1>1. PICK habit \in Habits, old \in SUBSET Customer :
        enr' = StopOptedOut(Refresh(Enroll(enr, habit), habit, old))
  BY DEF Prepare
<1> DEFINE first == Enroll(enr, habit)
           second == Refresh(first, habit, old)
<1>2. enr \in Rows /\ today \in Weekday
  BY DEF TypeOK, Rows
<1>3. first \in Rows /\ Gently(enr, first)
  BY <1>2, EnrollsGently
<1>4. second \in Rows /\ Gently(first, second)
  BY <1>2, <1>3, RefreshesGently
<1>5. enr' \in Rows /\ Gently(second, enr')
  BY <1>1, <1>4, StopsGently
<1>6. Gently(enr, second)
  <2> HIDE DEF first, second
  <2> QED BY <1>2, <1>3, <1>4, GentlyTwice
<1>7. Gently(enr, enr')
  <2> HIDE DEF second
  <2> QED BY <1>2, <1>4, <1>5, <1>6, GentlyTwice
<1>8. TypeOK'
  BY <1>5, IsPrepared DEF TypeOK, Prepare, Rows, ledger
<1>9. Apart
  BY DEF Apart, Prepare, TypeOK, ledger
<1> QED BY <1>7, <1>8, <1>9, ApartKeeps

\* Requests and jobs that leave the runs alone.
LEMMA RequestKeeps ==
    ASSUME IInv, Named,
           \/ EnrollNow \/ RefreshNow
           \/ \E c \in Customer : Pause(c) \/ Resume(c) \/ OptOut(c) \/ OptIn(c)
    PROVE  IInv'
<1> USE DEF IInv
<1>1. enr \in Rows /\ today \in Weekday
  BY DEF TypeOK, Rows
<1>2. enr' \in Rows /\ Gently(enr, enr')
  <2>1. CASE EnrollNow
    BY <1>1, <2>1, EnrollsGently DEF EnrollNow
  <2>2. CASE RefreshNow
    BY <1>1, <2>2, RefreshesGently DEF RefreshNow
  <2>3. ASSUME NEW c \in Customer, Pause(c) PROVE enr' \in Rows /\ Gently(enr, enr')
    BY <1>1, <2>3, StatusGently DEF Pause, Active, IsActive, EnrollmentStatus
  <2>4. ASSUME NEW c \in Customer, Resume(c) PROVE enr' \in Rows /\ Gently(enr, enr')
    BY <1>1, <2>4, StatusGently DEF Resume, EnrollmentStatus
  <2>5. CASE enr' = enr
    BY <1>1, <2>5 DEF Gently
  <2>6. ASSUME NEW c \in Customer, OptOut(c) PROVE enr' \in Rows /\ Gently(enr, enr')
    BY <1>1, <2>5, <2>6, StatusGently DEF OptOut, Active, IsActive, EnrollmentStatus
  <2>7. ASSUME NEW c \in Customer, OptIn(c) PROVE enr' \in Rows /\ Gently(enr, enr')
    BY <2>5, <2>7 DEF OptIn
  <2> QED BY <2>1, <2>2, <2>3, <2>4, <2>6, <2>7
<1>3. UNCHANGED Unmoved /\ optedOut' \subseteq Customer
  BY DEF EnrollNow, RefreshNow, Pause, Resume, OptOut, OptIn, TypeOK
<1>4. TypeOK'
  BY <1>2, <1>3 DEF TypeOK, Unmoved, ledger, Rows
<1>5. Apart
  BY <1>3 DEF Apart, Unmoved, ledger
<1> QED BY <1>2, <1>4, <1>5, ApartKeeps

---------------------------------------------------------------------------
(* The steps of a run. *)

LEMMA BuildKeeps ==
    ASSUME IInv, Named, NEW w \in Worker, Build(w)
    PROVE  IInv'
<1> USE DEF IInv
<1> DEFINE due == {c \in Active : enr[c].due # Null /\ enr[c].due <= 0 /\ ~ TooSoon(enr[c])}
           days == [c \in due |-> enr[c].due]
<1>1. PICK pending \in SUBSET due :
        run' = [run EXCEPT ![w] = [pc |-> "sending", due |-> days, spared |-> pending, sent |-> {}]]
  BY DEF Build
<1>2. \A c \in due : /\ c \in Customer /\ enr[c] \in Enrollment
                     /\ enr[c].due \in Relative /\ enr[c].due <= 0 /\ ~ TooSoon(enr[c])
  BY DEF Active, IsActive, TypeOK, Enrollment
<1>3. UNCHANGED <<today, optedOut, enr, claims, since, unsure, ran, crashes>>
  BY DEF Build, ledger
<1>4. due \in SUBSET Customer /\ days \in [due -> Relative]
  BY <1>2
<1> HIDE DEF due
<1>5. [pc |-> "sending", due |-> days, spared |-> pending, sent |-> {}] \in Run
  BY <1>4, IsRun
<1>6. TypeOK'
  BY <1>1, <1>3, <1>5 DEF TypeOK
<1>7. /\ run'[w].pc = "sending" /\ run'[w].due = days /\ run'[w].sent = {}
      /\ run'[w] # Null /\ run[w].pc = "prepared"
  BY <1>1, <1>5 DEF TypeOK, Named, Build
<1>8. \A v \in Worker : v # w => run'[v] = run[v]
  BY <1>1 DEF TypeOK
<1>9. ASSUME NEW v \in Worker, v # w, Took(v), NEW c \in due, c \in DOMAIN run[v].due
      PROVE  run[v].due[c] = days[c]
  <2>1. enr[c].due # Null /\ enr[c].due <= 0
    BY <1>2, NudgeAssumption DEF Relative, Named
  <2>2. enr[c].due = run[v].due[c]
    BY <1>9, <2>1 DEF Alike
  <2> QED BY <2>2
<1>10. Alike'
  <2> SUFFICES ASSUME NEW u \in Worker, Took(u)', NEW c \in DOMAIN run'[u].due
               PROVE  /\ enr[c] # Null
                      /\ enr[c].due # Null /\ enr[c].due <= 0 => enr[c].due = run'[u].due[c]
                      /\ \A v \in Worker : Took(v)' /\ c \in DOMAIN run'[v].due => run'[v].due[c] = run'[u].due[c]
    BY <1>3 DEF Alike
  <2>1. CASE u = w
    <3>1. c \in due /\ run'[u].due = days
      BY <1>7, <2>1
    <3>2. enr[c] # Null /\ enr[c].due = days[c]
      BY <1>2, <3>1 DEF Named
    <3>3. \A v \in Worker : Took(v)' /\ c \in DOMAIN run'[v].due => run'[v].due[c] = days[c]
      BY <1>7, <1>8, <1>9, <3>1 DEF Took
    <3> QED BY <3>1, <3>2, <3>3
  <2>2. CASE u # w
    <3>1. Took(u) /\ run'[u] = run[u]
      BY <1>8, <2>2 DEF Took
    <3>2. \A v \in Worker : Took(v)' /\ c \in DOMAIN run'[v].due => run'[v].due[c] = run[u].due[c]
      <4> SUFFICES ASSUME NEW v \in Worker, Took(v)', c \in DOMAIN run'[v].due
                   PROVE  run'[v].due[c] = run[u].due[c]
        OBVIOUS
      <4>1. CASE v = w
        BY <1>7, <1>9, <2>2, <3>1, <4>1
      <4>2. CASE v # w
        BY <1>8, <3>1, <4>2 DEF Alike, Took
      <4> QED BY <4>1, <4>2
    <3> QED BY <3>1, <3>2 DEF Alike
  <2> QED BY <2>1, <2>2
<1>11. \A c \in due : days[c] \notin claims[c] => since[c] = Gap \/ c \in unsure
  <2> SUFFICES ASSUME NEW c \in due, days[c] \notin claims[c], c \notin unsure
               PROVE  since[c] = Gap
    OBVIOUS
  <2>1. ASSUME NEW v \in Worker, Between(v, c)
        PROVE  FALSE
    <3>1. Took(v) /\ v # w /\ c \in DOMAIN run[v].due /\ run[v].due[c] \in claims[c]
      BY <1>7, <2>1 DEF Between, Took, Booked
    <3> QED BY <1>9, <3>1
  <2>2. IF enr[c] = Null THEN since[c] = Gap
        ELSE IF enr[c].last = Null THEN since[c] = Gap ELSE enr[c].last = since[c]
    BY <1>2, <2>1 DEF Remembered
  <2> QED BY <1>2, <2>2, NudgeAssumption DEF TooSoon, Enrollment, TypeOK
<1>12. Spaced'
  BY <1>3, <1>7, <1>8, <1>11 DEF Spaced
<1>13. Booked'
  BY <1>3, <1>7, <1>8 DEF Booked, Took
<1>14. Remembered'
  BY <1>3, <1>7, <1>8 DEF Remembered, Between
<1> QED BY <1>6, <1>10, <1>12, <1>13, <1>14

LEMMA SendKeeps ==
    ASSUME IInv, Named, NEW w \in Worker, Send(w)
    PROVE  IInv'
<1> USE DEF IInv
<1>1. Took(w) /\ run[w].pc = "sending"
  BY DEF Send, Took
<1>2. PICK sent \in SUBSET DOMAIN run[w].due :
        run' = [run EXCEPT ![w] = [@ EXCEPT !.pc = "sent", !.sent = sent]]
  BY DEF Send
<1>3. UNCHANGED <<today, optedOut, enr, claims, since, unsure, ran, crashes>>
  BY DEF Send, ledger
<1>4. /\ run' \in [Worker -> Run \cup {Null}]
      /\ run'[w] # Null
      /\ run'[w].pc = "sent" /\ run'[w].sent = sent /\ run'[w].due = run[w].due
      /\ \A v \in Worker : v # w => run'[v] = run[v]
  BY <1>1, <1>2, GoesOn
<1>7. TypeOK'
  BY <1>3, <1>4 DEF TypeOK
<1>8. \A v \in Worker : Took(v)' => Took(v) /\ run'[v].due = run[v].due
  BY <1>1, <1>4 DEF Took
<1>9. Alike'
  BY <1>3, <1>8 DEF Alike
<1>10. Spaced'
  <2> SUFFICES ASSUME NEW v \in Worker, run'[v] # Null, run'[v].pc \in {"sending", "sent"},
                      NEW c \in DOMAIN run'[v].due, run'[v].due[c] \notin claims[c]
               PROVE  since[c] = Gap \/ c \in unsure
    BY <1>3 DEF Spaced
  <2>1. run[v] # Null /\ run[v].pc \in {"sending", "sent"} /\ run'[v].due = run[v].due
    BY <1>1, <1>4 DEF Took
  <2> QED BY <2>1 DEF Spaced
<1>11. Booked'
  BY <1>3, <1>4, <1>8 DEF Booked, Took
<1>12. \A v \in Worker, c \in Customer : Between(v, c) => Between(v, c)'
  BY <1>1, <1>4 DEF Between
<1>13. Remembered'
  BY <1>3, <1>12 DEF Remembered
<1> QED BY <1>7, <1>9, <1>10, <1>11, <1>13

\* The messages a commit puts on record.
Kept(w) == {c \in run[w].sent : run[w].due[c] \notin claims[c]}

LEMMA CommitKeeps ==
    ASSUME IInv, Named, NEW w \in Worker, Commit(w)
    PROVE  IInv'
<1> USE DEF IInv
<1>1. Took(w) /\ run[w].pc = "sent"
  BY DEF Commit, Took
<1>2. Kept(w) \subseteq DOMAIN run[w].due /\ Kept(w) \subseteq Customer
  BY <1>1, Taking DEF Kept
<1>3. run' = [run EXCEPT ![w] = [@ EXCEPT !.pc = "committed", !.sent = Kept(w)]]
  BY DEF Commit, Kept
<1>4. /\ run' \in [Worker -> Run \cup {Null}]
      /\ run'[w] # Null
      /\ run'[w].pc = "committed" /\ run'[w].sent = Kept(w) /\ run'[w].due = run[w].due
      /\ \A v \in Worker : v # w => run'[v] = run[v]
  BY <1>1, <1>2, <1>3, GoesOn
<1>5. /\ claims' = [c \in Customer |-> IF c \in Kept(w) THEN claims[c] \cup {run[w].due[c]} ELSE claims[c]]
      /\ since' = [c \in Customer |-> IF c \in Kept(w) THEN 0 ELSE since[c]]
      /\ UNCHANGED <<today, optedOut, enr, unsure, ran, crashes>>
  BY DEF Commit, Kept
<1>6. \A c \in Kept(w) : run[w].due[c] \in Relative /\ run[w].due[c] \in claims'[c] /\ since'[c] = 0
  BY <1>1, <1>2, <1>5, Taking
<1>7. \A c \in Customer : /\ claims[c] \subseteq claims'[c]
                         /\ c \notin Kept(w) => claims'[c] = claims[c] /\ since'[c] = since[c]
  BY <1>5
<1>8. TypeOK'
  <2>1. claims' \in [Customer -> SUBSET Relative]
    BY <1>5, <1>6 DEF TypeOK
  <2>2. since' \in [Customer -> 0 .. Gap]
    BY <1>5, NudgeAssumption DEF TypeOK
  <2> QED BY <2>1, <2>2, <1>4, <1>5 DEF TypeOK
<1>9. \A v \in Worker : Took(v)' => Took(v) /\ run'[v].due = run[v].due
  BY <1>1, <1>4 DEF Took
<1>10. Alike'
  BY <1>5, <1>9 DEF Alike
<1>11. Spaced'
  <2> SUFFICES ASSUME NEW v \in Worker, run'[v] # Null, run'[v].pc \in {"sending", "sent"},
                      NEW c \in DOMAIN run'[v].due, run'[v].due[c] \notin claims'[c]
               PROVE  since'[c] = Gap \/ c \in unsure'
    BY DEF Spaced
  <2>1. v # w /\ run'[v] = run[v]
    BY <1>4
  <2>2. Took(v) /\ c \in DOMAIN run[v].due /\ c \in Customer
    BY <2>1, Taking DEF Took
  <2>3. c \notin Kept(w)
    <3>1. ASSUME c \in Kept(w) PROVE run[v].due[c] = run[w].due[c]
      BY <1>1, <1>2, <2>2, <3>1 DEF Alike
    <3> QED BY <1>6, <2>1, <3>1
  <2>4. claims'[c] = claims[c] /\ since'[c] = since[c] /\ unsure' = unsure
    BY <1>5, <1>7, <2>2, <2>3
  <2>5. run[v].due[c] \notin claims[c] => since[c] = Gap \/ c \in unsure
    BY <2>1 DEF Spaced
  <2> QED BY <2>1, <2>4, <2>5
<1>12. Booked'
  <2> SUFFICES ASSUME NEW v \in Worker, Took(v)'
               PROVE  /\ run'[v].sent \subseteq DOMAIN run'[v].due
                      /\ run'[v].pc = "committed" =>
                           \A c \in run'[v].sent : run'[v].due[c] \in claims'[c] /\ since'[c] = 0
    BY DEF Booked
  <2>1. CASE v = w
    BY <1>2, <1>4, <1>6, <2>1
  <2>2. CASE v # w
    <3>1. Took(v) /\ run'[v] = run[v] /\ DOMAIN run[v].due \subseteq Customer
      BY <1>4, <1>9, <2>2, Taking
    <3>2. \A c \in Customer : since[c] = 0 => since'[c] = 0
      BY <1>5
    <3>3. /\ run[v].sent \subseteq DOMAIN run[v].due
          /\ run[v].pc = "committed" =>
               \A c \in run[v].sent : run[v].due[c] \in claims[c] /\ since[c] = 0
      BY <3>1 DEF Booked
    <3>4. ASSUME run[v].pc = "committed", NEW c \in run[v].sent
          PROVE  run[v].due[c] \in claims'[c] /\ since'[c] = 0
      <4>1. c \in Customer /\ run[v].due[c] \in claims[c] /\ since[c] = 0
        BY <3>1, <3>3, <3>4
      <4>2. run[v].due[c] \in claims'[c]
        BY <1>5, <4>1
      <4> QED BY <3>2, <4>1, <4>2
    <3> QED BY <3>1, <3>3, <3>4
  <2> QED BY <2>1, <2>2
<1>13. Remembered'
  <2> SUFFICES ASSUME NEW c \in Customer
               PROVE  \/ c \in unsure'
                      \/ \E v \in Worker : Between(v, c)'
                      \/ IF enr'[c] = Null THEN since'[c] = Gap
                         ELSE IF enr'[c].last = Null THEN since'[c] = Gap ELSE enr'[c].last = since'[c]
    BY DEF Remembered
  <2>1. CASE c \in Kept(w)
    BY <1>4, <2>1 DEF Between
  <2>2. CASE c \notin Kept(w)
    <3>1. \A v \in Worker : Between(v, c) => Between(v, c)'
      BY <1>1, <1>4 DEF Between
    <3>2. enr' = enr /\ unsure' = unsure /\ since'[c] = since[c]
      BY <1>5, <1>7, <2>2
    <3> QED BY <3>1, <3>2 DEF Remembered
  <2> QED BY <2>1, <2>2
<1> QED BY <1>8, <1>10, <1>11, <1>12, <1>13

LEMMA RescheduleKeeps ==
    ASSUME IInv, Named, NEW w \in Worker, Reschedule(w)
    PROVE  IInv'
<1> USE DEF IInv
<1>1. Took(w) /\ run[w].pc = "committed"
  BY DEF Reschedule, Took
<1> DEFINE due == DOMAIN run[w].due
           sent == run[w].sent
<1>2. due \subseteq Customer /\ sent \subseteq due
  BY <1>1, Taking
<1>3. enr' = [c \in Customer |-> IF c \in due THEN Rescheduled(w, c) ELSE enr[c]]
  BY DEF Reschedule
<1>4. unsure' = unsure \ sent /\ run' = [run EXCEPT ![w] = Null]
  BY DEF Reschedule
<1>5. UNCHANGED <<today, optedOut, claims, since, ran, crashes>>
  BY DEF Reschedule, ledger
<1> HIDE DEF due
<1>6. ASSUME NEW c \in due
      PROVE  /\ enr[c] # Null /\ enr'[c] \in Enrollment /\ enr'[c] # Null
             /\ enr'[c].last = IF c \in sent THEN 0 ELSE enr[c].last
             /\ enr'[c].due = Null \/ enr'[c].due >= 1
  <2>1. c \in Customer /\ enr'[c] = Rescheduled(w, c)
    BY <1>2, <1>3
  <2>2. enr[c] # Null
    BY <1>1 DEF Alike, due
  <2>3. enr[c] \in Enrollment
    BY <2>1, <2>2 DEF TypeOK
  <2> DEFINE next == IF enr[c].pattern = Null THEN Null ELSE DueFromPattern(enr[c].pattern)
             last == IF c \in sent THEN 0 ELSE enr[c].last
  <2>4. next \in Relative \cup {Null} /\ (next = Null \/ next >= 1)
    <3>1. CASE enr[c].pattern = Null
      BY <3>1
    <3>2. CASE enr[c].pattern # Null
      <4>1. enr[c].pattern \in Weekday /\ today \in Weekday
        BY <2>3, <3>2 DEF Enrollment, Pattern, TypeOK
      <4>2. DueFromPattern(enr[c].pattern) \in 1 .. Week
        BY <4>1, NextDay
      <4> QED BY <3>2, <4>2, NudgeAssumption DEF Relative
    <3> QED BY <3>1, <3>2
  <2>5. last \in (0 .. Gap) \cup {Null}
    BY <2>3, NudgeAssumption DEF Enrollment
  <2>6. enr'[c] = [enr[c] EXCEPT !.due = next, !.last = last]
    BY <2>1 DEF Rescheduled
  <2> HIDE DEF next, last
  <2>7. enr'[c] = [status |-> enr[c].status, pattern |-> enr[c].pattern, due |-> next, last |-> last]
    BY <2>3, <2>6 DEF Enrollment
  <2>8. enr'[c] \in Enrollment /\ enr'[c].due = next /\ enr'[c].last = last
    BY <2>3, <2>4, <2>5, <2>7 DEF Enrollment
  <2>9. enr'[c].last = IF c \in sent THEN 0 ELSE enr[c].last
    BY <2>8 DEF last
  <2> QED BY <2>2, <2>4, <2>8, <2>9 DEF Named
<1>7. \A c \in Customer \ due : enr'[c] = enr[c]
  BY <1>3
<1>8. run'[w] = Null /\ (\A v \in Worker : v # w => run'[v] = run[v])
  BY <1>4 DEF TypeOK
<1>9. TypeOK'
  <2>1. enr' \in [Customer -> Enrollment \cup {Null}]
    <3>1. \A c \in Customer : enr'[c] \in Enrollment \cup {Null}
      BY <1>6, <1>7 DEF TypeOK
    <3> QED BY <1>3, <3>1
  <2> QED BY <2>1, <1>4, <1>5 DEF TypeOK
<1>10. ASSUME NEW v \in Worker, Took(v)'
       PROVE  v # w /\ Took(v) /\ run'[v] = run[v] /\ DOMAIN run[v].due \subseteq Customer
  BY <1>8, <1>10, Taking DEF Took
<1>11. Alike'
  <2> SUFFICES ASSUME NEW u \in Worker, Took(u)', NEW c \in DOMAIN run'[u].due
               PROVE  /\ enr'[c] # Null
                      /\ enr'[c].due # Null /\ enr'[c].due <= 0 => enr'[c].due = run'[u].due[c]
                      /\ \A v \in Worker : Took(v)' /\ c \in DOMAIN run'[v].due => run'[v].due[c] = run'[u].due[c]
    BY DEF Alike
  <2>1. Took(u) /\ run'[u] = run[u] /\ c \in Customer
    BY <1>10
  <2>2. \A v \in Worker : Took(v)' /\ c \in DOMAIN run'[v].due => run'[v].due[c] = run'[u].due[c]
    BY <1>10, <2>1 DEF Alike
  <2>3. CASE c \in due
    <3>1. enr'[c] # Null /\ (enr'[c].due = Null \/ enr'[c].due >= 1)
      BY <1>6, <2>3
    <3>2. enr'[c].due # Null => ~ (enr'[c].due <= 0)
      BY <1>6, <2>3, <3>1, NudgeAssumption DEF Enrollment, Relative
    <3> QED BY <2>2, <3>1, <3>2
  <2>4. CASE c \notin due
    <3>1. enr'[c] = enr[c]
      BY <1>7, <2>1, <2>4
    <3>2. enr[c] # Null /\ (enr[c].due # Null /\ enr[c].due <= 0 => enr[c].due = run[u].due[c])
      BY <2>1 DEF Alike
    <3> QED BY <2>1, <2>2, <3>1, <3>2
  <2> QED BY <2>3, <2>4
<1>12. Spaced'
  <2> SUFFICES ASSUME NEW v \in Worker, run'[v] # Null, run'[v].pc \in {"sending", "sent"},
                      NEW c \in DOMAIN run'[v].due, run'[v].due[c] \notin claims[c]
               PROVE  since[c] = Gap \/ c \in unsure'
    BY <1>5 DEF Spaced
  <2>1. Took(v) /\ run'[v] = run[v] /\ c \in DOMAIN run[v].due
    BY <1>10 DEF Took
  <2>2. since[c] = Gap \/ c \in unsure
    BY <2>1 DEF Spaced
  <2>3. c \notin sent
    <3>1. ASSUME c \in sent PROVE FALSE
      <4>1. c \in due /\ run[w].due[c] \in claims[c]
        BY <1>1, <1>2, <3>1 DEF Booked
      <4>2. run[v].due[c] = run[w].due[c]
        BY <1>1, <2>1, <4>1 DEF Alike, due
      <4> QED BY <2>1, <4>1, <4>2
    <3> QED BY <3>1
  <2> QED BY <1>4, <2>2, <2>3
<1>13. Booked'
  BY <1>5, <1>10 DEF Booked
<1>14. Remembered'
  <2> SUFFICES ASSUME NEW c \in Customer
               PROVE  \/ c \in unsure'
                      \/ \E v \in Worker : Between(v, c)'
                      \/ IF enr'[c] = Null THEN since[c] = Gap
                         ELSE IF enr'[c].last = Null THEN since[c] = Gap ELSE enr'[c].last = since[c]
    BY <1>5 DEF Remembered
  <2>1. CASE c \in sent
    <3>1. since[c] = 0
      BY <1>1, <2>1 DEF Booked
    <3>2. enr'[c] # Null /\ enr'[c].last = 0
      BY <1>2, <1>6, <2>1
    <3> QED BY <3>1, <3>2 DEF Named
  <2>2. CASE c \notin sent
    <3>1. \A v \in Worker : Between(v, c) => Between(v, c)'
      BY <1>8, <2>2 DEF Between
    <3>2. c \in unsure => c \in unsure'
      BY <1>4, <2>2
    <3>3. CASE c \in due
      <4>1. enr[c] # Null /\ enr'[c] # Null /\ enr'[c].last = enr[c].last
        BY <1>6, <2>2, <3>3
      <4> QED BY <3>1, <3>2, <4>1 DEF Remembered
    <3>4. CASE c \notin due
      BY <1>7, <3>1, <3>2, <3>4 DEF Remembered
    <3> QED BY <3>3, <3>4
  <2> QED BY <2>1, <2>2
<1> QED BY <1>9, <1>11, <1>12, <1>13, <1>14

LEMMA CrashKeeps ==
    ASSUME IInv, Named, NEW w \in Worker, Crash(w)
    PROVE  IInv'
<1> USE DEF IInv
<1>1. run'[w] = Null /\ (\A v \in Worker : v # w => run'[v] = run[v])
  BY DEF Crash, TypeOK
<1>2. UNCHANGED <<today, optedOut, enr, claims, since>>
  BY DEF Crash, ledger
<1>3. unsure \subseteq unsure' /\ (\A c \in Customer : Between(w, c) => c \in unsure')
  BY DEF Crash, Between
<1>4. unsure' \subseteq Customer
  <2>1. CASE run[w].pc = "committed"
    <3>1. Took(w)
      BY <2>1 DEF Crash, Took
    <3> QED BY <2>1, <3>1, Taking DEF Crash, TypeOK
  <2>2. CASE run[w].pc # "committed"
    BY <2>2 DEF Crash, TypeOK
  <2> QED BY <2>1, <2>2
<1>5. TypeOK'
  BY <1>2, <1>4, NudgeAssumption DEF Crash, TypeOK
<1>6. \A v \in Worker : Took(v)' => Took(v) /\ run'[v] = run[v]
  BY <1>1 DEF Took
<1>7. Alike'
  BY <1>2, <1>6 DEF Alike
<1>8. Spaced'
  <2> SUFFICES ASSUME NEW v \in Worker, run'[v] # Null, run'[v].pc \in {"sending", "sent"},
                      NEW c \in DOMAIN run'[v].due, run'[v].due[c] \notin claims[c]
               PROVE  since[c] = Gap \/ c \in unsure'
    BY <1>2 DEF Spaced
  <2>1. run'[v] = run[v]
    BY <1>1
  <2> QED BY <1>3, <2>1 DEF Spaced
<1>9. Booked'
  BY <1>2, <1>6 DEF Booked
<1>10. \A v \in Worker, c \in Customer : Between(v, c) => Between(v, c)' \/ c \in unsure'
  BY <1>1, <1>3 DEF Between
<1>11. Remembered'
  BY <1>2, <1>3, <1>10 DEF Remembered
<1> QED BY <1>5, <1>7, <1>8, <1>9, <1>11

LEMMA DayKeeps ==
    ASSUME IInv, Named, DayPasses
    PROVE  IInv'
<1> USE DEF IInv
<1>1. \A w \in Worker : run[w] = Null /\ run'[w] = Null
  BY DEF DayPasses
<1>2. \A d \in Relative : Earlier(d) \in Relative
  BY NudgeAssumption DEF Relative, Earlier
<1>3. \A d \in 0 .. Gap : More(d) \in 0 .. Gap
  BY NudgeAssumption DEF More
<1>4. today' \in Weekday
  <2>1. \A x \in Int : x % Week \in Weekday
    BY NudgeAssumption DEF Weekday
  <2>2. today + 1 \in Int
    BY NudgeAssumption DEF TypeOK, Weekday
  <2> QED BY <2>1, <2>2 DEF DayPasses
<1>5. ASSUME NEW c \in Customer, enr[c] # Null
      PROVE  /\ enr'[c] \in Enrollment
             /\ enr'[c].last = IF enr[c].last = Null THEN Null ELSE More(enr[c].last)
  <2>1. enr[c] \in Enrollment
    BY <1>5 DEF TypeOK
  <2> DEFINE due == IF enr[c].due = Null THEN Null ELSE Earlier(enr[c].due)
             last == IF enr[c].last = Null THEN Null ELSE More(enr[c].last)
  <2>2. due \in Relative \cup {Null} /\ last \in (0 .. Gap) \cup {Null}
    BY <1>2, <1>3, <2>1 DEF Enrollment
  <2>3. enr'[c] = [enr[c] EXCEPT !.due = due, !.last = last]
    BY <1>5 DEF DayPasses
  <2> HIDE DEF due, last
  <2>4. enr'[c] = [status |-> enr[c].status, pattern |-> enr[c].pattern, due |-> due, last |-> last]
    BY <2>1, <2>3 DEF Enrollment
  <2>5. enr'[c] \in Enrollment /\ enr'[c].last = last
    BY <2>1, <2>2, <2>4 DEF Enrollment
  <2> QED BY <2>5 DEF last
<1>6. \A c \in Customer : enr[c] = Null => enr'[c] = Null
  BY DEF DayPasses
<1>7. \A c \in Customer : since'[c] = More(since[c])
  BY DEF DayPasses
<1>8. TypeOK'
  <2>1. enr' \in [Customer -> Enrollment \cup {Null}]
    <3>1. \A c \in Customer : enr'[c] \in Enrollment \cup {Null}
      BY <1>5, <1>6
    <3>2. enr' = [c \in Customer |-> enr'[c]]
      BY DEF DayPasses
    <3> QED BY <3>1, <3>2
  <2>2. claims' \in [Customer -> SUBSET Relative]
    BY <1>2 DEF DayPasses, TypeOK
  <2>3. since' \in [Customer -> 0 .. Gap]
    BY <1>3 DEF DayPasses, TypeOK
  <2> QED BY <1>4, <2>1, <2>2, <2>3 DEF DayPasses, TypeOK
<1>9. Alike' /\ Spaced' /\ Booked'
  BY <1>1 DEF Alike, Spaced, Booked, Took
<1>10. Remembered'
  <2> SUFFICES ASSUME NEW c \in Customer, c \notin unsure
               PROVE  IF enr'[c] = Null THEN since'[c] = Gap
                      ELSE IF enr'[c].last = Null THEN since'[c] = Gap ELSE enr'[c].last = since'[c]
    BY DEF Remembered, DayPasses
  <2>1. IF enr[c] = Null THEN since[c] = Gap
        ELSE IF enr[c].last = Null THEN since[c] = Gap ELSE enr[c].last = since[c]
    BY <1>1 DEF Remembered, Between
  <2>2. More(Gap) = Gap
    BY NudgeAssumption DEF More
  <2>3. CASE enr[c] = Null
    BY <1>6, <1>7, <2>1, <2>2, <2>3
  <2>4. CASE enr[c] # Null
    <3>1. enr'[c] # Null
      BY <1>5, <2>4 DEF Named
    <3>2. enr'[c].last = IF enr[c].last = Null THEN Null ELSE More(enr[c].last)
      BY <1>5, <2>4
    <3>3. CASE enr[c].last = Null
      BY <1>7, <2>1, <2>2, <2>4, <3>1, <3>2, <3>3
    <3>4. CASE enr[c].last # Null
      <4>1. enr[c].last = since[c]
        BY <2>1, <2>4, <3>4
      <4>2. enr'[c].last = since'[c]
        BY <1>7, <3>2, <3>4, <4>1
      <4>3. enr'[c].last # Null
        BY <1>3, <1>7, <4>2 DEF Named, TypeOK
      <4> QED BY <3>1, <4>2, <4>3
    <3> QED BY <3>3, <3>4
  <2> QED BY <2>3, <2>4
<1> QED BY <1>8, <1>9, <1>10

---------------------------------------------------------------------------
(* The theorems. *)

LEMMA StepKeeps ==
    ASSUME IInv, Named, [Next]_vars
    PROVE  IInv'
<1>1. ASSUME NEW w \in Worker, RunStep(w) \/ Crash(w)
      PROVE  IInv'
  BY <1>1, PrepareKeeps, BuildKeeps, SendKeeps, CommitKeeps, RescheduleKeeps, CrashKeeps
     DEF RunStep, GoOn
<1>2. CASE \/ EnrollNow \/ RefreshNow
           \/ \E c \in Customer : Pause(c) \/ Resume(c) \/ OptOut(c) \/ OptIn(c)
  BY <1>2, RequestKeeps
<1>3. CASE UNCHANGED vars
  BY <1>3 DEF vars, IInv, TypeOK, Alike, Spaced, Booked, Remembered, Took, Between
<1> QED BY <1>1, <1>2, <1>3, DayKeeps DEF Next

\* Every variable of the nudge schedule keeps its type.
THEOREM ScheduleTyped == ASSUME Named PROVE Spec => []TypeOK
<1>1. Init => IInv
  BY Starts
<1>2. IInv /\ [Next]_vars => IInv'
  BY StepKeeps
<1>3. IInv => TypeOK
  BY DEF IInv
<1> QED BY <1>1, <1>2, <1>3, PTL DEF Spec

\* Each step of the schedule is a step of the promise, or none.
LEMMA StepKeepsPromise ==
    ASSUME IInv, Named, [Next]_vars
    PROVE  [Promise!Next]_(Promise!contacts)
<1> USE DEF IInv
<1>1. ASSUME NEW w \in Worker, Commit(w)
      PROVE  Promise!Next
  <2>1. Took(w) /\ run[w].pc = "sent" /\ run[w] # Null
    BY <1>1 DEF Commit, Took
  <2>2. Kept(w) \subseteq DOMAIN run[w].due /\ Kept(w) \in SUBSET Customer
    BY <2>1, Taking DEF Kept
  <2>3. \A c \in Kept(w) : since[c] = Gap \/ c \in unsure
    BY <2>1, <2>2 DEF Spaced, Kept
  <2>4. /\ since' = [c \in Customer |-> IF c \in Kept(w) THEN 0 ELSE since[c]]
        /\ UNCHANGED unsure
    BY <1>1 DEF Commit, Kept
  <2>5. Promise!Reach(Kept(w))
    BY <2>3, <2>4 DEF Promise!Reach
  <2> QED BY <2>2, <2>5 DEF Promise!Next
<1>2. ASSUME NEW w \in Worker, Crash(w)
      PROVE  Promise!Next
  <2> DEFINE lost == IF run[w].pc = "committed" THEN run[w].sent ELSE {}
  <2>1. lost \in SUBSET Customer
    <3>1. run[w].pc = "committed" => Took(w)
      BY <1>2 DEF Crash, Took
    <3> QED BY <3>1, Taking
  <2>2. unsure' = unsure \cup lost /\ UNCHANGED since
    BY <1>2 DEF Crash, ledger
  <2>3. Promise!Forget
    BY <2>1, <2>2 DEF Promise!Forget
  <2> QED BY <2>3 DEF Promise!Next
<1>3. ASSUME NEW w \in Worker, Reschedule(w)
      PROVE  Promise!Next
  BY <1>3 DEF Reschedule, ledger, Promise!Next, Promise!Remember
<1>4. CASE DayPasses
  <2>1. \A c \in Customer : More(since[c]) = IF since[c] < Gap THEN since[c] + 1 ELSE Gap
    BY NudgeAssumption DEF TypeOK, More
  <2>2. Promise!DayPasses
    BY <1>4, <2>1 DEF DayPasses, Promise!DayPasses
  <2> QED BY <2>2 DEF Promise!Next
<1>5. CASE UNCHANGED <<since, unsure>>
  BY <1>5 DEF Promise!contacts
<1>6. ASSUME NEW w \in Worker, Prepare(w) \/ Build(w) \/ Send(w)
      PROVE  UNCHANGED <<since, unsure>>
  BY <1>6 DEF Prepare, Build, Send, ledger
<1>7. ASSUME NEW c \in Customer, Pause(c) \/ Resume(c) \/ OptOut(c) \/ OptIn(c)
      PROVE  UNCHANGED <<since, unsure>>
  BY <1>7 DEF Pause, Resume, OptOut, OptIn, Unmoved, ledger
<1>8. ASSUME EnrollNow \/ RefreshNow
      PROVE  UNCHANGED <<since, unsure>>
  BY <1>8 DEF EnrollNow, RefreshNow, Unmoved, ledger
<1>9. CASE UNCHANGED vars
  BY <1>5, <1>9 DEF vars
<1> QED
  BY <1>1, <1>2, <1>3, <1>4, <1>5, <1>6, <1>7, <1>8, <1>9 DEF Next, RunStep, GoOn

\* "Never nudge the same customer more often than this, regardless of pattern"
\* (backend/app/automations/nudge.py:74): the schedule implements SpacedContact,
\* with what lost runs have forgotten as the only exception.
THEOREM NudgesAreSpaced == ASSUME Named PROVE Spec => NudgesApart
<1>1. Init => IInv
  BY Starts
<1>2. IInv /\ [Next]_vars => IInv'
  BY StepKeeps
<1>3. IInv /\ [Next]_vars => [Promise!Next]_(Promise!contacts)
  BY StepKeepsPromise
<1>4. Init => Promise!Init
  BY DEF Init, Promise!Init
<1> QED BY <1>1, <1>2, <1>3, <1>4, PTL DEF Spec, NudgesApart, Promise!Spec

---------------------------------------------------------------------------
(***************************************************************************)
(* The journey takes each step once and none before its time.              *)
(*                                                                         *)
(* A run works on rows it has loaded and partly changed, so that what is   *)
(* known of a customer is in two places: on record, and in the session.    *)
(* For a customer nobody else moved (`Steady`), the session has what is on *)
(* record except where it set a field itself (`Follows`), and what a       *)
(* commit writes is what the session sees (`WrittenAsSeen`). Both places   *)
(* are traced: every message behind them was worked on, every wait behind  *)
(* them is over. A message the provider took and no record shows yet is    *)
(* behind the session's place; it costs a second one only when the run is  *)
(* lost (`Repeats`).                                                       *)
(***************************************************************************)
\* One run of the journey at a time.
OneRunner == \A v, w \in Runner : v = w

\* A step, a customer's row as arithmetic leaves it, and a session.
Steps == [kind : J!Kinds, days : Nat]

Standing == [status : J!PlaceStatus, position : Nat, resume : Int]

Session ==
    [pc : {"next", "step", "drafted"}, todo : SUBSET Customer, customer : Customer \cup {Null},
     nodes : Seq(Steps), edition : Nat, reread : BOOLEAN, logged : BOOLEAN,
     loaded : [Customer -> Standing \cup {Null}], changed : [Customer -> SUBSET J!Field]]

\* An idle runner and a customer outside the journey are told from the rest.
JourneyNamed == Null \notin Standing /\ Null \notin Session

\* The steps of a journey, and the bounds.
Configured ==
    /\ Programs \subseteq Seq(Steps)
    /\ N \in Nat /\ MaxDays \in Nat

JourneyTypes ==
    /\ program \in Seq(Steps) /\ edition \in Nat
    /\ place \in [Customer -> Standing \cup {Null}]
    /\ age \in [Customer -> 0 .. MaxDays]
    /\ session \in [Runner -> Session \cup {Null}]
    /\ calls \in [Customer -> [1 .. N -> Nat]]
    /\ tried \in [Customer -> SUBSET Nat]
    /\ spent \in [{"edits", "reentries", "crashes"} -> Nat]

\* Whoever a run still has to do with.
Ours(w, c) == c \in session[w].todo \/ (session[w].pc \in {"step", "drafted"} /\ c = J!Mine(w))

\* A run knows whom it deals with, and holds what it has changed.
Holds(w) == session[w] # Null =>
    /\ session[w].pc \in {"step", "drafted"} => J!Mine(w) \in Customer \ session[w].todo
    /\ \A c \in Customer :
         /\ session[w].loaded[c] = Null => session[w].changed[c] = {}
         /\ Ours(w, c) => place[c] # Null

\* Nobody but runs has moved the customer.
Steady(c) == place[c] # Null /\ c \notin displaced

\* The steps up to a position that send were worked on; its waits are over.
Tried(c, position) == \A i \in 1 .. Len(program) :
    program[i].kind = "send" /\ i <= position => i \in tried[c]

Waited(c, position) == \A i \in 1 .. Len(program) :
    program[i].kind = "wait" /\ i <= position => age[c] >= program[i].days

Traced(c, position) == Tried(c, position) /\ Waited(c, position)

\* What a run has of a customer is what is on record, and what it did itself.
Follows(w, c) == session[w] # Null =>
    /\ session[w].nodes = program /\ session[w].edition = edition
    /\ session[w].loaded[c] # Null =>
         \A f \in J!Field \ session[w].changed[c] : session[w].loaded[c][f] = place[c][f]
    /\ place[c].position <= J!Seen(w, c).position
    /\ Traced(c, J!Seen(w, c).position)
    /\ Ours(w, c) => J!Seen(w, c).status = "ACTIVE" /\ "status" \notin session[w].changed[c]
    /\ session[w].pc = "drafted" /\ c = J!Mine(w) =>
         /\ J!Seen(w, c).position + 1 \in 1 .. Len(program)
         /\ program[J!Seen(w, c).position + 1].kind = "send"

\* The step is behind the customer, on record or in the run under way.
Behind(c, i) ==
    \/ i <= place[c].position
    \/ \E w \in Runner : session[w] # Null /\ i <= J!Seen(w, c).position

\* A step is sent once, and once more for each run that was lost.
Repeats(c) == \A i \in 1 .. N :
    calls[c][i] <= spent["crashes"] + IF Behind(c, i) THEN 1 ELSE 0

JourneyInv ==
    /\ JourneyTypes
    /\ \A w \in Runner : Holds(w)
    /\ \A c \in Customer : Steady(c) =>
         /\ Traced(c, place[c].position)
         /\ Repeats(c)
         /\ \A w \in Runner : Follows(w, c)

---------------------------------------------------------------------------
\* What a session sees has the shape of a row.
LEMMA SeenTyped ==
    ASSUME JourneyTypes, NEW w \in Runner, session[w] # Null, NEW c \in Customer
    PROVE  /\ session[w] \in Session
           /\ J!Seen(w, c) \in Standing \cup {Null}
           /\ place[c] # Null => J!Seen(w, c) \in Standing
  BY DEF JourneyTypes, Session, J!Seen

\* Before anybody enters there is nothing to know.
LEMMA JourneyStarts == ASSUME Configured, JourneyNamed, J!Init PROVE JourneyInv
  <1>1. JourneyTypes
    BY DEF J!Init, JourneyTypes, Configured
  <1> QED
    BY <1>1 DEF J!Init, JourneyInv, Holds, Steady

\* A commit writes a steady customer's row as the run has it.
LEMMA WrittenAsSeen ==
    ASSUME JourneyInv, JourneyNamed, NEW w \in Runner, session[w] # Null
    PROVE  /\ J!Written(w) \in [Customer -> Standing \cup {Null}]
           /\ \A c \in Customer : place[c] = Null <=> J!Written(w)[c] = Null
           /\ \A c \in Customer : Steady(c) => J!Written(w)[c] = J!Seen(w, c)
  <1> USE DEF JourneyInv
  <1> SUFFICES ASSUME NEW c \in Customer
               PROVE  /\ J!Written(w)[c] \in Standing \cup {Null}
                      /\ place[c] = Null => J!Written(w)[c] = Null
                      /\ place[c] # Null => J!Written(w)[c] \in Standing
                      /\ Steady(c) => J!Written(w)[c] = J!Seen(w, c)
    BY DEF J!Written, JourneyNamed
  <1> DEFINE loaded == session[w].loaded[c]
             changed == session[w].changed[c]
             Of(f) == IF f \in changed THEN loaded[f] ELSE place[c][f]
  <1>1. /\ place[c] \in Standing \cup {Null} /\ loaded \in Standing \cup {Null}
        /\ changed \in SUBSET J!Field /\ (loaded = Null => changed = {})
    BY SeenTyped DEF JourneyTypes, Session, Holds
  <1>2. J!Written(w)[c] = IF place[c] = Null \/ changed = {} THEN place[c]
                        ELSE [status |-> Of("status"), position |-> Of("position"), resume |-> Of("resume")]
    BY DEF J!Written
  <1>3. CASE place[c] = Null \/ changed = {}
    <2>1. ASSUME Steady(c), loaded # Null PROVE loaded = place[c]
      <3>1. \A f \in J!Field : loaded[f] = place[c][f]
        BY <1>3, <2>1 DEF Steady, Follows
      <3>2. loaded \in Standing /\ place[c] \in Standing
        BY <1>1, <2>1 DEF Steady
      <3> QED BY <3>1, <3>2 DEF Standing, J!Field
    <2>2. Steady(c) => J!Seen(w, c) = place[c]
      BY <2>1 DEF J!Seen
    <2> QED BY <1>1, <1>2, <1>3, <2>2 DEF Steady
  <1>4. CASE place[c] # Null /\ changed # {}
    <2>1. loaded \in Standing /\ place[c] \in Standing /\ J!Seen(w, c) = loaded
      BY <1>1, <1>4 DEF J!Seen
    <2>2. J!Written(w)[c] = [status |-> Of("status"), position |-> Of("position"), resume |-> Of("resume")]
      BY <1>2, <1>4
    <2>3. J!Written(w)[c] \in Standing
      BY <2>1, <2>2 DEF Standing
    <2>4. ASSUME Steady(c) PROVE J!Written(w)[c] = loaded
      <3>1. \A f \in J!Field \ changed : loaded[f] = place[c][f]
        <4>1. Follows(w, c)
          BY <2>4
        <4> QED BY <2>1, <4>1, JourneyNamed DEF Follows, JourneyNamed
      <3>2. \A f \in J!Field : Of(f) = loaded[f]
        BY <3>1
      <3>3. loaded = [status |-> loaded.status, position |-> loaded.position, resume |-> loaded.resume]
        BY <2>1 DEF Standing
      <3> HIDE DEF loaded
      <3> QED BY <2>2, <3>2, <3>3 DEF J!Field
    <2> QED BY <1>4, <2>1, <2>3, <2>4
  <1> QED BY <1>3, <1>4

\* What a run holds once it has changed some fields of the row it works on.
LEMMA WithTyped ==
    ASSUME NEW w \in Runner, session[w] \in Session, NEW c \in Customer, c = J!Mine(w),
           NEW row \in Standing, NEW fields \in SUBSET J!Field, NEW pc \in {"next", "step"}, NEW t,
           t \in {J!With(w, fields, row, pc), J!Logged(J!With(w, fields, row, pc))}
    PROVE  /\ t \in Session /\ t.pc = pc
           /\ t.todo = session[w].todo /\ t.customer = c
           /\ t.nodes = session[w].nodes /\ t.edition = session[w].edition
           /\ t.loaded[c] = row /\ t.changed[c] = session[w].changed[c] \cup fields
           /\ \A d \in Customer \ {c} : /\ t.loaded[d] = session[w].loaded[d]
                                        /\ t.changed[d] = session[w].changed[d]
  <1> DEFINE s == J!With(w, fields, row, pc)
  <1>1. s = [session[w] EXCEPT !.pc = pc, !.loaded[c] = row, !.changed[c] = @ \cup fields]
    BY DEF J!With
  <1> HIDE DEF s
  <1>2. /\ s.pc = pc /\ s.logged = session[w].logged /\ s.loaded = [session[w].loaded EXCEPT ![c] = row]
    BY <1>1 DEF Session
  <1>3. s.changed = [session[w].changed EXCEPT ![c] = @ \cup fields]
    BY <1>1 DEF Session
  <1>4. /\ s.todo = session[w].todo /\ s.customer = session[w].customer /\ s.nodes = session[w].nodes
        /\ s.edition = session[w].edition /\ s.reread = session[w].reread
    BY <1>1 DEF Session
  <1>5. s = [x \in {"pc", "todo", "customer", "nodes", "edition", "reread", "logged", "loaded", "changed"} |-> s[x]]
    BY <1>1 DEF Session
  <1>6. s.loaded \in [Customer -> Standing \cup {Null}] /\ s.changed \in [Customer -> SUBSET J!Field]
    BY <1>2, <1>3 DEF Session
  <1>7. s \in Session
    BY <1>2, <1>4, <1>5, <1>6 DEF Session
  <1>8. /\ s.loaded[c] = row /\ s.changed[c] = session[w].changed[c] \cup fields
        /\ \A d \in Customer \ {c} : /\ s.loaded[d] = session[w].loaded[d]
                                     /\ s.changed[d] = session[w].changed[d]
    BY <1>2, <1>3 DEF Session
  <1>9. s.customer = c
    BY <1>4 DEF J!Mine
  <1>10. t = s \/ t = [s EXCEPT !.logged = TRUE]
    BY DEF J!Logged, s
  <1>11. t \in Session
    BY <1>7, <1>10 DEF Session
  <1> QED
    BY <1>2, <1>4, <1>7, <1>8, <1>9, <1>10, <1>11 DEF Session

\* The run goes on with the customer it deals with.
LEMMA RunMoves ==
    ASSUME JourneyInv, OneRunner, JourneyNamed, NEW w \in Runner, session[w] # Null,
           session[w].pc \in {"step", "drafted"},
           NEW c \in Customer, c = J!Mine(w),
           NEW row \in Standing, NEW fields \in SUBSET J!Field, NEW pc \in {"next", "step"},
           NEW s \in {J!With(w, fields, row, pc), J!Logged(J!With(w, fields, row, pc))}, J!Update(w, s),
           UNCHANGED <<program, edition, place, age, displaced, spent>>,
           \A f \in J!Field \ fields : row[f] = J!Seen(w, c)[f],
           pc = "step" => "status" \notin fields,
           row.position = J!Seen(w, c).position \/
             /\ row.position = J!Seen(w, c).position + 1
             /\ Steady(c) /\ row.position \in 1 .. Len(program) =>
                  /\ program[row.position].kind = "send" => row.position \in tried'[c]
                  /\ program[row.position].kind = "wait" => age[c] >= program[row.position].days,
           calls' \in [Customer -> [1 .. N -> Nat]], tried' \in [Customer -> SUBSET Nat],
           \A d \in Customer : tried[d] \subseteq tried'[d],
           \A d \in Customer, i \in 1 .. N :
             \/ calls'[d][i] = calls[d][i]
             \/ /\ d = c /\ i = row.position /\ row.position = J!Seen(w, c).position + 1
                /\ calls'[d][i] <= calls[d][i] + 1
    PROVE  JourneyInv'
  <1> USE DEF JourneyInv
  <1>1. /\ session[w] \in Session /\ \A v \in Runner : v = w
        /\ place[c] \in Standing /\ J!Seen(w, c) \in Standing
        /\ session' \in [Runner -> Session \cup {Null}]
        /\ session'[w] = s /\ s \in Session /\ session'[w] # Null
    <2>1. session[w] \in Session /\ \A v \in Runner : v = w
      BY SeenTyped DEF OneRunner
    <2>2. place[c] # Null
      BY DEF Holds, Ours
    <2>3. place[c] \in Standing /\ J!Seen(w, c) \in Standing
      BY <2>2, SeenTyped DEF JourneyTypes
    <2>4. s \in Session
      BY <2>1, WithTyped
    <2>5. session' = [session EXCEPT ![w] = s]
      BY DEF J!Update
    <2>6. session' \in [Runner -> Session \cup {Null}] /\ session'[w] = s
      BY <2>4, <2>5 DEF JourneyTypes
    <2> QED BY <2>1, <2>3, <2>4, <2>6 DEF JourneyNamed
  <1>2. /\ session'[w].pc = pc /\ session'[w].todo = session[w].todo /\ session'[w].customer = c
        /\ session'[w].nodes = session[w].nodes /\ session'[w].edition = session[w].edition
        /\ session'[w].loaded[c] = row /\ session'[w].changed[c] = session[w].changed[c] \cup fields
        /\ \A d \in Customer \ {c} : /\ session'[w].loaded[d] = session[w].loaded[d]
                                     /\ session'[w].changed[d] = session[w].changed[d]
    <2>1. /\ s.pc = pc /\ s.todo = session[w].todo /\ s.customer = c
          /\ s.nodes = session[w].nodes /\ s.edition = session[w].edition
          /\ s.loaded[c] = row /\ s.changed[c] = session[w].changed[c] \cup fields
          /\ \A d \in Customer \ {c} : /\ s.loaded[d] = session[w].loaded[d]
                                       /\ s.changed[d] = session[w].changed[d]
      BY <1>1, WithTyped
    <2> QED BY <1>1, <2>1
  <1>3. JourneyTypes'
    BY <1>1 DEF JourneyTypes
  <1>4. /\ J!Seen(w, c)' = row
        /\ \A d \in Customer \ {c} : J!Seen(w, d)' = J!Seen(w, d)
    BY <1>2, JourneyNamed DEF J!Seen, JourneyNamed
  <1>5. Holds(w)'
    <2>1. c \in Customer \ session[w].todo /\ row # Null
      BY DEF Holds, JourneyNamed
    <2>2. ASSUME NEW d \in Customer, Ours(w, d)' PROVE place[d] # Null
      BY <1>2, <2>1, <2>2 DEF Holds, Ours, J!Mine
    <2>3. ASSUME NEW d \in Customer, session'[w].loaded[d] = Null PROVE session'[w].changed[d] = {}
      <3>1. d # c
        BY <1>2, <2>1, <2>3
      <3> QED BY <1>2, <2>3, <3>1 DEF Holds
    <2> QED BY <1>2, <2>1, <2>2, <2>3 DEF Holds, J!Mine
  <1>6. J!Seen(w, c).position \in Nat /\ row.position \in Nat /\ row.position >= J!Seen(w, c).position
    BY <1>1 DEF Standing
  <1>7. ASSUME NEW d \in Customer, Steady(d)'
        PROVE  Traced(d, place[d].position)' /\ Repeats(d)' /\ Follows(w, d)'
    <2>1. Steady(d)
      BY <1>7 DEF Steady
    <2>2. \A position : Traced(d, position) => Traced(d, position)'
      BY DEF Traced, Tried, Waited
    <2>3. Traced(d, place[d].position)'
      BY <2>1, <2>2 DEF Traced, Tried, Waited
    <2>4. \A i \in 1 .. N : Behind(d, i) => Behind(d, i)'
      <3> SUFFICES ASSUME NEW i \in 1 .. N, NEW v \in Runner, session[v] # Null, i <= J!Seen(v, d).position
                   PROVE  session'[v] # Null /\ i <= J!Seen(v, d)'.position
        BY DEF Behind
      <3>1. v = w /\ session'[w] # Null
        BY <1>1
      <3>2. CASE d = c
        BY <1>4, <1>6, <3>1, <3>2
      <3>3. CASE d # c
        BY <1>4, <3>1, <3>3
      <3> QED BY <3>2, <3>3
    <2>5. Repeats(d)'
      <3> SUFFICES ASSUME NEW i \in 1 .. N
                   PROVE  calls'[d][i] <= spent["crashes"] + IF Behind(d, i)' THEN 1 ELSE 0
        BY DEF Repeats
      <3>5. calls[d] \in [1 .. N -> Nat] /\ calls'[d] \in [1 .. N -> Nat] /\ spent["crashes"] \in Nat
        BY DEF JourneyTypes
      <3>1. /\ calls[d][i] \in Nat /\ calls'[d][i] \in Nat /\ spent["crashes"] \in Nat
        BY <3>5
      <3>4. calls[d][i] <= spent["crashes"] + IF Behind(d, i) THEN 1 ELSE 0
        BY <2>1 DEF Repeats
      <3>2. CASE calls'[d][i] = calls[d][i]
        BY <2>4, <3>1, <3>2, <3>4
      <3>3. CASE calls'[d][i] # calls[d][i]
        <4>1. d = c /\ i = row.position /\ i > J!Seen(w, c).position /\ calls'[d][i] <= calls[d][i] + 1
          BY <1>6, <3>3
        <4>2. Behind(d, i)'
          BY <1>1, <1>4, <4>1 DEF Behind
        <4>3. ~ Behind(d, i)
          <5>1. place[c].position <= J!Seen(w, c).position /\ place[c].position \in Nat
            BY <1>1, <2>1, <4>1 DEF Follows, Standing
          <5> QED BY <1>1, <1>6, <4>1, <5>1 DEF Behind
        <4> QED BY <3>1, <3>4, <4>1, <4>2, <4>3
      <3> QED BY <3>2, <3>3
    <2>6. Follows(w, d)'
      <3>1. Follows(w, d)
        BY <2>1
      <3>2. CASE d # c
        BY <1>2, <1>4, <2>2, <3>1, <3>2 DEF Follows, Ours, J!Mine
      <3>3. CASE d = c
        <4>1. /\ session'[w].nodes = program /\ session'[w].edition = edition
          BY <1>2, <3>1 DEF Follows
        <4>2. \A f \in J!Field \ session'[w].changed[c] : session'[w].loaded[c][f] = place[c][f]
          <5> SUFFICES ASSUME NEW f \in J!Field, f \notin session[w].changed[c], f \notin fields
                       PROVE  row[f] = place[c][f]
            BY <1>2
          <5> QED BY <3>1, <3>3 DEF Follows, J!Seen
        <4>3. place[c].position <= row.position
          BY <1>1, <1>6, <3>1, <3>3 DEF Follows, Standing
        <4>4. Traced(c, row.position)'
          <5>1. Traced(c, J!Seen(w, c).position)
            BY <3>1, <3>3 DEF Follows
          <5> SUFFICES ASSUME NEW i \in 1 .. Len(program), i <= row.position
                       PROVE  /\ program[i].kind = "send" => i \in tried'[c]
                              /\ program[i].kind = "wait" => age[c] >= program[i].days
            BY DEF Traced, Tried, Waited
          <5>2. CASE i <= J!Seen(w, c).position
            BY <5>1, <5>2 DEF Traced, Tried, Waited
          <5>3. CASE ~ (i <= J!Seen(w, c).position)
            <6>1. i = row.position /\ row.position = J!Seen(w, c).position + 1
              BY <1>6, <5>3
            <6> QED BY <1>6, <2>1, <3>3, <5>3, <6>1
          <5> QED BY <5>2, <5>3
        <4>5. Ours(w, c)' => row.status = "ACTIVE" /\ "status" \notin session'[w].changed[c]
          <5>1. c \notin session'[w].todo
            BY <1>2 DEF Holds
          <5>2. Ours(w, c)' => pc = "step"
            BY <1>2, <5>1 DEF Ours, J!Mine
          <5>3. J!Seen(w, c).status = "ACTIVE" /\ "status" \notin session[w].changed[c]
            BY <3>1, <3>3 DEF Follows, Ours
          <5> QED BY <1>2, <5>2, <5>3 DEF J!Field
        <4> QED BY <1>2, <1>4, <3>3, <4>1, <4>2, <4>3, <4>4, <4>5 DEF Follows
      <3> QED BY <3>2, <3>3
    <2> QED BY <2>3, <2>5, <2>6
  <1> QED
    BY <1>1, <1>3, <1>5, <1>7

---------------------------------------------------------------------------
(* The steps of a run. *)

\* What a run that is at a step, or has drafted its message, knows.
LEMMA AtStep ==
    ASSUME JourneyInv, NEW w \in Runner, J!At(w, "step") \/ J!At(w, "drafted")
    PROVE  /\ session[w] # Null /\ session[w] \in Session
           /\ J!Mine(w) \in Customer /\ J!Row(w) \in Standing /\ J!Row(w) = J!Seen(w, J!Mine(w))
           /\ J!Forward(w) \in Standing /\ J!Forward(w).position = J!Row(w).position + 1
           /\ \A f \in {"status", "resume"} : J!Forward(w)[f] = J!Row(w)[f]
           /\ J!Passed(w, J!Mine(w)) = J!Forward(w)
           /\ J!Position(w) = J!Row(w).position + 1 /\ J!Position(w) \in Nat
           /\ Steady(J!Mine(w)) => session[w].nodes = program /\ session[w].edition = edition
  <1> USE DEF JourneyInv
  <1>1. /\ session[w] # Null /\ session[w].pc \in {"step", "drafted"}
    BY DEF J!At
  <1>2. session[w] \in Session /\ J!Mine(w) \in Customer /\ place[J!Mine(w)] # Null
    BY <1>1, SeenTyped DEF Holds, Ours
  <1>3. J!Row(w) \in Standing /\ J!Row(w) = J!Seen(w, J!Mine(w))
    BY <1>1, <1>2, SeenTyped DEF J!Row
  <1>4. /\ J!Forward(w) \in Standing /\ J!Forward(w).position = J!Row(w).position + 1
        /\ \A f \in {"status", "resume"} : J!Forward(w)[f] = J!Row(w)[f]
    BY <1>3 DEF J!Forward, Standing
  <1>5. J!Position(w) = J!Row(w).position + 1 /\ J!Position(w) \in Nat
    BY <1>3 DEF J!Position, Standing
  <1> QED
    BY <1>1, <1>2, <1>3, <1>4, <1>5 DEF J!Passed, J!Forward, J!Row, Follows

\* Past the last step the journey is over.
LEMMA PastTheEndKeeps ==
    ASSUME JourneyInv, OneRunner, JourneyNamed, NEW w \in Runner, J!PastTheEnd(w) PROVE JourneyInv'
  <1>1. PICK c \in Customer : c = J!Mine(w)
    BY AtStep DEF J!PastTheEnd
  <1>2. PICK row \in Standing : /\ row = [J!Row(w) EXCEPT !.status = "COMPLETED"]
                                /\ row.position = J!Row(w).position /\ row.resume = J!Row(w).resume
    BY AtStep DEF J!PastTheEnd, Standing, J!PlaceStatus
  <1>3. J!Update(w, J!With(w, {"status"}, row, "next"))
    BY <1>2 DEF J!PastTheEnd
  <1>4. calls \in [Customer -> [1 .. N -> Nat]] /\ tried \in [Customer -> SUBSET Nat]
    BY DEF JourneyInv, JourneyTypes
  <1>5. J!Row(w) = J!Seen(w, c) /\ session[w] # Null /\ session[w].pc \in {"step", "drafted"}
    BY <1>1, AtStep DEF J!PastTheEnd, J!At
  <1> QED
    BY <1>1, <1>2, <1>3, <1>4, <1>5, RunMoves DEF J!PastTheEnd, J!World, J!history, J!Field

\* A step that sends nothing puts the customer one further, or takes them out.
LEMMA PassesOn ==
    ASSUME JourneyInv, OneRunner, JourneyNamed, NEW w \in Runner, J!At(w, "step"),
           UNCHANGED <<J!World, place, J!history, spent>>,
           NEW row \in Standing, NEW fields \in SUBSET J!Field, NEW pc \in {"next", "step"},
           NEW s \in {J!With(w, fields, row, pc), J!Logged(J!With(w, fields, row, pc))}, J!Update(w, s),
           \A f \in J!Field \ fields : row[f] = J!Row(w)[f],
           pc = "step" => "status" \notin fields,
           \/ row.position = J!Row(w).position
           \/ /\ row.position = J!Position(w) /\ J!Position(w) <= Len(session[w].nodes)
              /\ J!Node(w).kind # "send"
              /\ J!Node(w).kind = "wait" => age[J!Mine(w)] >= J!Node(w).days
    PROVE  JourneyInv'
  <1>1. PICK c \in Customer : c = J!Mine(w)
    BY AtStep
  <1>2. calls \in [Customer -> [1 .. N -> Nat]] /\ tried \in [Customer -> SUBSET Nat]
    BY DEF JourneyInv, JourneyTypes
  <1>3. J!Row(w) = J!Seen(w, c) /\ session[w] # Null /\ session[w].pc \in {"step", "drafted"}
    BY <1>1, AtStep DEF J!At
  <1>4. J!Position(w) = J!Row(w).position + 1
    BY AtStep
  <1>5. Steady(c) /\ row.position = J!Position(w) /\ row.position # J!Row(w).position =>
          /\ program[row.position].kind # "send"
          /\ program[row.position].kind = "wait" => age[c] >= program[row.position].days
    BY <1>1, AtStep DEF J!Node
  <1>6. row.position = J!Seen(w, c).position \/
             /\ row.position = J!Seen(w, c).position + 1
             /\ Steady(c) /\ row.position \in 1 .. Len(program) =>
                  /\ program[row.position].kind = "send" => row.position \in tried'[c]
                  /\ program[row.position].kind = "wait" => age[c] >= program[row.position].days
    BY <1>3, <1>4, <1>5
  <1>7. UNCHANGED <<program, edition, place, age, displaced, spent, calls, tried>>
    BY DEF J!World, J!history
  <1> QED
    BY <1>1, <1>2, <1>3, <1>6, <1>7, RunMoves

\* A wait that is over is passed, another one is written down.
LEMMA WaitKeeps ==
    ASSUME JourneyInv, OneRunner, JourneyNamed, Configured, NEW w \in Runner, J!Wait(w) PROVE JourneyInv'
  <1>1. J!At(w, "step") /\ J!Position(w) <= Len(session[w].nodes) /\ J!Node(w).kind \in {"wait", "until", "trigger"}
    BY DEF J!Wait, J!OnStep
  <1>2. session[w] \in Session /\ J!Mine(w) \in Customer /\ J!Row(w) \in Standing
        /\ J!Position(w) \in 1 .. Len(session[w].nodes)
    BY <1>1, AtStep DEF Standing
  <1>3. J!Node(w) \in Steps /\ age[J!Mine(w)] \in Nat
    BY <1>2 DEF J!Node, Session, JourneyInv, JourneyTypes, Configured
  <1>4. PICK left \in CASE J!Node(w).kind = "wait" -> {J!WaitLeft(w, J!Mine(w))}
                      [] J!Node(w).kind = "until" -> 0 .. MaxDays
                      [] J!Node(w).kind = "trigger" -> {0} :
         IF left > 0
         THEN J!Update(w, J!Logged(J!With(w, {"resume"}, [J!Row(w) EXCEPT !.resume = left], "next")))
         ELSE J!Update(w, J!With(w, {"position"}, J!Forward(w), "step"))
    BY DEF J!Wait
  <1>5. left \in Int /\ (J!Node(w).kind = "wait" => left = J!Node(w).days - age[J!Mine(w)])
    BY <1>1, <1>3, <1>4 DEF J!WaitLeft, Steps, Configured
  <1>6. CASE left > 0
    <2> DEFINE row == [J!Row(w) EXCEPT !.resume = left]
    <2>1. row \in Standing /\ row.position = J!Row(w).position /\ row.status = J!Row(w).status
      BY <1>2, <1>5 DEF Standing
    <2>2. J!Update(w, J!Logged(J!With(w, {"resume"}, row, "next")))
      BY <1>4, <1>6
    <2> HIDE DEF row
    <2> QED
      BY <1>1, <2>1, <2>2, PassesOn DEF J!Wait, J!Field
  <1>7. CASE ~ (left > 0)
    <2>1. J!Update(w, J!With(w, {"position"}, J!Forward(w), "step"))
      BY <1>4, <1>7
    <2>2. J!Node(w).kind = "wait" => age[J!Mine(w)] >= J!Node(w).days
      BY <1>3, <1>5, <1>7 DEF Steps
    <2>3. PICK row \in Standing : /\ row = J!Forward(w) /\ row.position = J!Position(w)
                                  /\ \A f \in {"status", "resume"} : row[f] = J!Row(w)[f]
      BY <1>1, AtStep
    <2> QED
      BY <1>1, <2>1, <2>2, <2>3, PassesOn DEF J!Wait, J!Field
  <1> QED BY <1>6, <1>7

\* A condition passes the customer on or takes them out.
LEMMA ConditionKeeps ==
    ASSUME JourneyInv, OneRunner, JourneyNamed, NEW w \in Runner, J!Condition(w) PROVE JourneyInv'
  <1>1. J!At(w, "step") /\ J!Position(w) <= Len(session[w].nodes) /\ J!Node(w).kind = "check"
    BY DEF J!Condition, J!OnStep
  <1>2. PICK passed \in BOOLEAN : J!Update(w, J!Logged(
           IF passed THEN J!With(w, {"position"}, J!Forward(w), "step")
           ELSE J!With(w, {"status"}, [J!Row(w) EXCEPT !.status = "EXITED"], "next")))
    BY DEF J!Condition
  <1>3. CASE passed
    <2>1. J!Update(w, J!Logged(J!With(w, {"position"}, J!Forward(w), "step")))
      BY <1>2, <1>3
    <2>2. PICK row \in Standing : /\ row = J!Forward(w) /\ row.position = J!Position(w)
                                  /\ \A f \in {"status", "resume"} : row[f] = J!Row(w)[f]
      BY <1>1, AtStep
    <2> QED
      BY <1>1, <2>1, <2>2, PassesOn DEF J!Condition, J!Field
  <1>4. CASE ~ passed
    <2> DEFINE row == [J!Row(w) EXCEPT !.status = "EXITED"]
    <2>1. row \in Standing /\ row.position = J!Row(w).position /\ row.resume = J!Row(w).resume
      BY <1>1, AtStep DEF Standing, J!PlaceStatus
    <2>2. J!Update(w, J!Logged(J!With(w, {"status"}, row, "next")))
      BY <1>2, <1>4
    <2> HIDE DEF row
    <2> QED
      BY <1>1, <2>1, <2>2, PassesOn DEF J!Condition, J!Field
  <1> QED BY <1>3, <1>4

\* The end.
LEMMA EndJourneyKeeps ==
    ASSUME JourneyInv, OneRunner, JourneyNamed, NEW w \in Runner, J!EndJourney(w) PROVE JourneyInv'
  <1>1. J!At(w, "step") /\ J!Position(w) <= Len(session[w].nodes) /\ J!Node(w).kind = "end"
    BY DEF J!EndJourney, J!OnStep
  <1> DEFINE row == [J!Forward(w) EXCEPT !.status = "COMPLETED"]
  <1>2. row \in Standing /\ row.position = J!Position(w) /\ row.resume = J!Row(w).resume
    BY <1>1, AtStep DEF Standing, J!PlaceStatus
  <1>3. J!Update(w, J!Logged(J!With(w, {"position", "status"}, row, "next")))
    BY DEF J!EndJourney
  <1> HIDE DEF row
  <1> QED
    BY <1>1, <1>2, <1>3, PassesOn DEF J!EndJourney, J!Field

\* An action that sends nothing.
LEMMA ActKeeps ==
    ASSUME JourneyInv, OneRunner, JourneyNamed, NEW w \in Runner, J!Act(w) PROVE JourneyInv'
  <1>1. J!At(w, "step") /\ J!Position(w) <= Len(session[w].nodes) /\ J!Node(w).kind = "do"
    BY DEF J!Act, J!OnStep
  <1>2. PICK row \in Standing : /\ row = J!Passed(w, J!Mine(w)) /\ row.position = J!Position(w)
                                /\ \A f \in {"status", "resume"} : row[f] = J!Row(w)[f]
    BY <1>1, AtStep
  <1>3. J!Update(w, J!Logged(J!With(w, {"position"}, row, "step")))
    BY <1>2 DEF J!Act, J!Advance
  <1> QED
    BY <1>1, <1>2, <1>3, PassesOn DEF J!Act, J!Field

\* A message is behind the customer once it was tried.
LEMMA TriedKeeps ==
    ASSUME JourneyInv, OneRunner, JourneyNamed, NEW w \in Runner,
           J!At(w, "step") \/ J!At(w, "drafted"), J!Try(w), J!Advance(w),
           UNCHANGED <<J!World, place, displaced, spent>>,
           Steady(J!Mine(w)) => J!Position(w) <= Len(session[w].nodes) /\ J!Node(w).kind # "wait",
           calls' \in [Customer -> [1 .. N -> Nat]],
           \A d \in Customer, i \in 1 .. N :
             calls'[d][i] = calls[d][i] \/ (d = J!Mine(w) /\ i = J!Position(w) /\ calls'[d][i] <= calls[d][i] + 1)
    PROVE  JourneyInv'
  <1>1. PICK c \in Customer : c = J!Mine(w)
    BY AtStep
  <1>2. PICK row \in Standing : /\ row = J!Passed(w, J!Mine(w)) /\ row.position = J!Position(w)
                                /\ \A f \in {"status", "resume"} : row[f] = J!Row(w)[f]
    BY AtStep
  <1>3. J!Update(w, J!Logged(J!With(w, {"position"}, row, "step")))
    BY <1>2 DEF J!Advance
  <1>4. tried \in [Customer -> SUBSET Nat]
    BY DEF JourneyInv, JourneyTypes
  <1>5. J!Position(w) \in Nat /\ J!Position(w) = J!Row(w).position + 1 /\ J!Row(w) = J!Seen(w, c)
        /\ session[w] # Null /\ session[w].pc \in {"step", "drafted"}
    BY <1>1, AtStep DEF J!At
  <1>6. /\ tried' \in [Customer -> SUBSET Nat] /\ row.position \in tried'[c]
        /\ \A d \in Customer : tried[d] \subseteq tried'[d]
    BY <1>1, <1>2, <1>4, <1>5 DEF J!Try
  <1>7. Steady(c) => program[row.position].kind # "wait"
    BY <1>1, <1>2, AtStep DEF J!Node
  <1>8. UNCHANGED <<program, edition, place, age, displaced, spent>>
    BY DEF J!World
  <1>9. \A d \in Customer, i \in 1 .. N :
             \/ calls'[d][i] = calls[d][i]
             \/ /\ d = c /\ i = row.position /\ row.position = J!Seen(w, c).position + 1
                /\ calls'[d][i] <= calls[d][i] + 1
    BY <1>1, <1>2, <1>5
  <1> QED
    BY <1>1, <1>2, <1>3, <1>5, <1>6, <1>7, <1>8, <1>9, RunMoves DEF J!Field

\* A message that is refused counts as worked on.
LEMMA BlockedKeeps ==
    ASSUME JourneyInv, OneRunner, JourneyNamed, NEW w \in Runner, J!Blocked(w) PROVE JourneyInv'
  <1>1. J!At(w, "step") /\ J!Position(w) <= Len(session[w].nodes) /\ J!Node(w).kind = "send"
    BY DEF J!Blocked, J!OnStep
  <1>2. calls \in [Customer -> [1 .. N -> Nat]]
    BY DEF JourneyInv, JourneyTypes
  <1> QED
    BY <1>1, <1>2, TriedKeeps DEF J!Blocked

\* A delivery counts once, at the step that was drafted.
LEMMA DeliverKeeps ==
    ASSUME JourneyInv, OneRunner, JourneyNamed, NEW w \in Runner, J!Deliver(w) PROVE JourneyInv'
  <1>1. J!At(w, "drafted") /\ J!Mine(w) \in Customer
    BY AtStep DEF J!Deliver
  <1>2. PICK accepted \in {0, 1} : calls' = [calls EXCEPT ![J!Mine(w)][J!Position(w)] = @ + accepted]
    BY DEF J!Deliver
  <1>3. calls \in [Customer -> [1 .. N -> Nat]]
    BY DEF JourneyInv, JourneyTypes
  <1>7. PICK c \in Customer, k \in Nat : c = J!Mine(w) /\ k = J!Position(w)
    BY <1>1, AtStep
  <1>8. calls' = [calls EXCEPT ![c] = [calls[c] EXCEPT ![k] = calls[c][k] + accepted]]
    BY <1>2, <1>7
  <1>9. ASSUME NEW d \in Customer
        PROVE  calls'[d] = IF d = c THEN [calls[c] EXCEPT ![k] = calls[c][k] + accepted] ELSE calls[d]
    BY <1>3, <1>8
  <1>10. ASSUME NEW d \in Customer, NEW i \in 1 .. N
         PROVE  /\ calls[d][i] \in Nat
                /\ calls'[d][i] = IF d = c /\ i = k THEN calls[d][i] + accepted ELSE calls[d][i]
    <2>1. calls[d] \in [1 .. N -> Nat] /\ calls[d][i] \in Nat
      BY <1>3
    <2> QED BY <1>9, <2>1
  <1>4. calls' \in [Customer -> [1 .. N -> Nat]]
    <2>1. \A d \in Customer : calls'[d] \in [1 .. N -> Nat]
      <3> SUFFICES ASSUME NEW d \in Customer PROVE calls'[d] \in [1 .. N -> Nat]
        OBVIOUS
      <3>1. \A i \in 1 .. N : calls'[d][i] \in Nat
        BY <1>10
      <3>2. DOMAIN calls'[d] = 1 .. N /\ calls'[d] = [i \in 1 .. N |-> calls'[d][i]]
        BY <1>3, <1>9
      <3> QED BY <3>1, <3>2
    <2>2. calls' = [d \in Customer |-> calls'[d]]
      BY <1>3, <1>8
    <2> QED BY <2>1, <2>2
  <1>5. \A d \in Customer, i \in 1 .. N :
             calls'[d][i] = calls[d][i] \/ (d = J!Mine(w) /\ i = J!Position(w) /\ calls'[d][i] <= calls[d][i] + 1)
    BY <1>7, <1>10
  <1>6. Steady(J!Mine(w)) => J!Position(w) <= Len(session[w].nodes) /\ J!Node(w).kind # "wait"
    BY <1>1, AtStep DEF JourneyInv, Follows, J!At, J!Node
  <1> QED
    BY <1>1, <1>4, <1>5, <1>6, TriedKeeps DEF J!Deliver

\* Whose steps were replaced is not steady any more.
LEMMA NobodySteady ==
    ASSUME JourneyInv, NEW w \in Runner, session[w] # Null, session[w].edition # edition
    PROVE  \A c \in Customer : ~ Steady(c)
  BY DEF JourneyInv, Follows

\* A run that ends early leaves what is on record.
LEMMA AbortKeeps ==
    ASSUME JourneyInv, OneRunner, JourneyNamed, NEW w \in Runner, session[w] # Null, J!Abort(w),
           UNCHANGED <<J!World, place, J!history>>,
           spent' \in [{"edits", "reentries", "crashes"} -> Nat],
           \/ spent'["crashes"] = spent["crashes"] + 1
           \/ spent' = spent /\ \A c \in Customer : ~ Steady(c)
    PROVE  JourneyInv'
  <1> USE DEF JourneyInv
  <1>1. session' \in [Runner -> Session \cup {Null}] /\ \A v \in Runner : v = w /\ session'[v] = Null
    BY DEF J!Abort, J!Update, JourneyTypes, OneRunner
  <1>2. JourneyTypes'
    BY <1>1 DEF JourneyTypes, J!World, J!history
  <1>3. ASSUME NEW c \in Customer, Steady(c)' PROVE Traced(c, place[c].position)' /\ Repeats(c)'
    <2>1. Steady(c) /\ spent'["crashes"] = spent["crashes"] + 1
      BY <1>3 DEF Steady, J!World, J!history
    <2>2. Traced(c, place[c].position)'
      BY <2>1 DEF Traced, Tried, Waited, J!World, J!history
    <2>3. \A i \in 1 .. N : calls[c][i] <= spent["crashes"] + 1 /\ calls[c][i] \in Nat
      <3> SUFFICES ASSUME NEW i \in 1 .. N PROVE calls[c][i] <= spent["crashes"] + 1 /\ calls[c][i] \in Nat
        OBVIOUS
      <3>1. calls[c] \in [1 .. N -> Nat] /\ spent["crashes"] \in Nat
        BY DEF JourneyTypes
      <3>2. calls[c][i] <= spent["crashes"] + IF Behind(c, i) THEN 1 ELSE 0
        BY <2>1 DEF Repeats
      <3>3. calls[c][i] \in Nat
        BY <3>1
      <3>4. CASE Behind(c, i)
        BY <3>1, <3>2, <3>3, <3>4
      <3>5. CASE ~ Behind(c, i)
        BY <3>1, <3>2, <3>3, <3>5
      <3> QED BY <3>4, <3>5
    <2>4. spent["crashes"] \in Nat /\ UNCHANGED calls
      BY DEF JourneyTypes, J!history
    <2>5. Repeats(c)'
      <3> SUFFICES ASSUME NEW i \in 1 .. N
                   PROVE  calls'[c][i] <= spent'["crashes"] + IF Behind(c, i)' THEN 1 ELSE 0
        BY DEF Repeats
      <3>1. calls'[c][i] = calls[c][i] /\ calls[c][i] \in Nat /\ calls[c][i] <= spent["crashes"] + 1
        BY <2>3, <2>4
      <3> DEFINE more == IF Behind(c, i)' THEN 1 ELSE 0
      <3>2. more \in {0, 1}
        OBVIOUS
      <3> HIDE DEF more
      <3>3. calls'[c][i] <= spent'["crashes"] + more
        BY <2>1, <2>4, <3>1, <3>2
      <3> QED BY <3>3 DEF more
    <2> QED BY <2>2, <2>5
  <1> QED
    BY <1>1, <1>2, <1>3 DEF Holds, Follows

\* A lost run is allowed one message more.
LEMMA RunCrashKeeps ==
    ASSUME JourneyInv, OneRunner, JourneyNamed, NEW w \in Runner, J!Crash(w) PROVE JourneyInv'
  <1>1. /\ spent' \in [{"edits", "reentries", "crashes"} -> Nat]
        /\ spent'["crashes"] = spent["crashes"] + 1
    BY DEF J!Crash, J!Spend, JourneyInv, JourneyTypes
  <1> QED
    BY <1>1, AbortKeeps DEF J!Crash

\* A run whose steps were replaced has nobody left to answer for.
LEMMA StepGoneKeeps ==
    ASSUME JourneyInv, OneRunner, JourneyNamed, NEW w \in Runner, J!StepGone(w) PROVE JourneyInv'
  <1>1. session[w] # Null /\ session[w].edition # edition
    BY DEF J!StepGone, J!Gone, J!At
  <1>2. spent \in [{"edits", "reentries", "crashes"} -> Nat]
    BY DEF JourneyInv, JourneyTypes
  <1> QED
    BY <1>1, <1>2, NobodySteady, AbortKeeps DEF J!StepGone

\* What a commit leaves of the customers that nobody moved.
LEMMA RunCommitKeeps ==
    ASSUME JourneyInv, OneRunner, JourneyNamed, NEW w \in Runner, session[w] # Null, place' = J!Written(w),
           UNCHANGED <<J!World, J!history, spent>>,
           session' \in [Runner -> Session \cup {Null}], Holds(w)',
           \A c \in Customer : Steady(c) => Follows(w, c)'
    PROVE  JourneyInv'
  <1> USE DEF JourneyInv
  <1>1. \A v \in Runner : v = w
    BY DEF OneRunner
  <1>2. JourneyTypes'
    BY WrittenAsSeen DEF JourneyTypes, J!World, J!history
  <1>3. ASSUME NEW c \in Customer, Steady(c)'
        PROVE  Traced(c, place[c].position)' /\ Repeats(c)' /\ Follows(w, c)'
    <2>1. Steady(c) /\ place'[c] = J!Seen(w, c)
      BY <1>3, WrittenAsSeen DEF Steady, J!history
    <2>2. Follows(w, c)
      BY <2>1
    <2>3. Traced(c, place[c].position)'
      BY <2>1, <2>2 DEF Follows, Traced, Tried, Waited, J!World, J!history
    <2>4. \A i \in 1 .. N : Behind(c, i) => Behind(c, i)'
      <3>1. place[c].position <= J!Seen(w, c).position /\ J!Seen(w, c).position \in Nat /\ place[c].position \in Nat
        <4>1. place[c] \in Standing /\ J!Seen(w, c) \in Standing
          BY <2>1, SeenTyped DEF JourneyTypes, Steady
        <4> QED BY <2>2, <4>1 DEF Follows, Standing
      <3> QED BY <1>1, <2>1, <3>1 DEF Behind
    <2>5. Repeats(c)'
      <3> SUFFICES ASSUME NEW i \in 1 .. N
                   PROVE  calls'[c][i] <= spent'["crashes"] + IF Behind(c, i)' THEN 1 ELSE 0
        BY DEF Repeats
      <3>1. calls[c] \in [1 .. N -> Nat] /\ spent["crashes"] \in Nat
        BY DEF JourneyTypes
      <3>2. calls[c][i] <= spent["crashes"] + IF Behind(c, i) THEN 1 ELSE 0
        BY <2>1 DEF Repeats
      <3>3. UNCHANGED <<calls, spent>> /\ calls[c][i] \in Nat
        BY <3>1 DEF J!history
      <3> QED BY <2>4, <3>1, <3>2, <3>3
    <2> QED BY <2>1, <2>3, <2>5
  <1> QED
    BY <1>1, <1>2, <1>3

\* The end of a run is a commit, or loses what it holds.
LEMMA FinishKeeps ==
    ASSUME JourneyInv, OneRunner, JourneyNamed, NEW w \in Runner, J!Finish(w) PROVE JourneyInv'
  <1>1. session[w] # Null /\ J!Abort(w) /\ UNCHANGED <<J!World, J!history, spent>>
    BY DEF J!Finish, J!At
  <1>2. CASE session[w].logged /\ session[w].edition # edition
    <2>1. place' = place
      BY <1>2 DEF J!Finish
    <2>2. spent' \in [{"edits", "reentries", "crashes"} -> Nat]
      BY <1>1 DEF JourneyInv, JourneyTypes
    <2> QED
      BY <1>1, <1>2, <2>1, <2>2, NobodySteady, AbortKeeps
  <1>3. CASE ~ (session[w].logged /\ session[w].edition # edition)
    <2>1. place' = J!Written(w)
      BY <1>3 DEF J!Finish
    <2>2. session' \in [Runner -> Session \cup {Null}] /\ session'[w] = Null
      BY <1>1 DEF J!Abort, J!Update, JourneyInv, JourneyTypes
    <2> QED
      BY <1>1, <2>1, <2>2, RunCommitKeeps DEF Holds, Follows
  <1> QED BY <1>2, <1>3

\* Drafting commits, and the session forgets what it has read.
LEMMA DraftKeeps ==
    ASSUME JourneyInv, OneRunner, JourneyNamed, NEW w \in Runner, J!Draft(w) PROVE JourneyInv'
  <1> USE DEF JourneyInv
  <1>1. J!At(w, "step") /\ J!Position(w) <= Len(session[w].nodes) /\ J!Node(w).kind = "send"
    BY DEF J!Draft, J!OnStep
  <1>2. session[w] # Null /\ UNCHANGED <<J!World, J!history, spent>>
    BY <1>1 DEF J!Draft, J!At
  <1>3. CASE session[w].logged /\ session[w].edition # edition
    <2>1. place' = place /\ J!Abort(w)
      BY <1>3 DEF J!Draft
    <2>2. spent' \in [{"edits", "reentries", "crashes"} -> Nat]
      BY <1>2 DEF JourneyTypes
    <2> QED
      BY <1>2, <1>3, <2>1, <2>2, NobodySteady, AbortKeeps
  <1>4. CASE ~ (session[w].logged /\ session[w].edition # edition)
    <2> DEFINE s == [session[w] EXCEPT !.pc = "drafted", !.reread = TRUE, !.logged = FALSE,
                                       !.loaded = J!Expired, !.changed = J!Clean]
    <2>1. place' = J!Written(w) /\ J!Update(w, s)
      BY <1>4 DEF J!Draft
    <2>2. PICK c \in Customer : c = J!Mine(w) /\ c \notin session[w].todo /\ place[c] # Null
      BY <1>1, AtStep DEF Holds, J!At, Ours
    <2>3. /\ s \in Session /\ s.pc = "drafted" /\ s.todo = session[w].todo /\ s.customer = c
          /\ s.nodes = session[w].nodes /\ s.edition = session[w].edition
          /\ s.loaded = J!Expired /\ s.changed = J!Clean
      BY <1>1, <2>2, AtStep DEF Session, J!Expired, J!Clean, J!Mine
    <2> HIDE DEF s
    <2>4. session' \in [Runner -> Session \cup {Null}] /\ session'[w] = s
      BY <2>1, <2>3 DEF J!Update, JourneyTypes
    <2>5. \A d \in Customer : place[d] # Null => place'[d] # Null
      BY <1>2, <2>1, WrittenAsSeen
    <2>6. Holds(w)'
      <3>1. \A d \in Customer : s.changed[d] = {}
        BY <2>3 DEF J!Clean
      <3>2. \A d \in Customer : Ours(w, d)' => place'[d] # Null
        BY <1>2, <2>2, <2>3, <2>4, <2>5 DEF Holds, Ours, J!Mine
      <3> QED BY <2>2, <2>3, <2>4, <3>1, <3>2 DEF Holds, J!Mine
    <2>7. ASSUME NEW d \in Customer, Steady(d) PROVE Follows(w, d)'
      <3>1. place'[d] = J!Seen(w, d) /\ Follows(w, d)
        BY <1>2, <2>1, <2>7, WrittenAsSeen
      <3>2. J!Seen(w, d)' = place'[d]
        BY <2>3, <2>4 DEF J!Seen, J!Expired
      <3>3. s.nodes = program' /\ s.edition = edition' /\ s.loaded[d] = Null /\ s.changed[d] = {}
        BY <1>2, <2>3, <3>1 DEF Follows, J!World, J!Expired, J!Clean
      <3>4. Traced(d, J!Seen(w, d))' = Traced(d, J!Seen(w, d))' /\ J!Seen(w, d).position \in Nat
        BY <1>2, <2>7, SeenTyped DEF Steady, Standing
      <3>5. \A position : Traced(d, position) => Traced(d, position)'
        BY <1>2 DEF Traced, Tried, Waited, J!World, J!history
      <3>6. Traced(d, J!Seen(w, d).position)'
        <4>1. Traced(d, J!Seen(w, d).position)
          BY <1>2, <3>1 DEF Follows
        <4> QED BY <1>2, <3>1, <3>2, <4>1 DEF Traced, Tried, Waited, J!World, J!history
      <3>7. Ours(w, d)' => J!Seen(w, d).status = "ACTIVE"
        BY <1>1, <1>2, <2>2, <2>3, <2>4, <3>1 DEF Follows, Ours, J!Mine, J!At
      <3>8. d = c => /\ J!Seen(w, d).position + 1 \in 1 .. Len(program)
                     /\ program[J!Seen(w, d).position + 1].kind = "send"
        BY <1>1, <2>2, <2>7, <3>4, AtStep DEF J!Node
      <3>9. program' = program /\ edition' = edition
        BY <1>2 DEF J!World
      <3> QED BY <2>2, <2>3, <2>4, <3>1, <3>2, <3>3, <3>4, <3>6, <3>7, <3>8, <3>9 DEF Follows, J!Mine
    <2> QED
      BY <1>2, <2>1, <2>4, <2>6, <2>7, RunCommitKeeps
  <1> QED BY <1>3, <1>4

\* A run begins with what is on record.
LEMMA BeginRunKeeps ==
    ASSUME JourneyInv, OneRunner, JourneyNamed, NEW w \in Runner, J!BeginRun(w) PROVE JourneyInv'
  <1> USE DEF JourneyInv
  <1> DEFINE s == [pc |-> "next", todo |-> {c \in Customer : J!Journeying(c)}, customer |-> Null,
          nodes |-> program, edition |-> edition, reread |-> FALSE, logged |-> FALSE,
          loaded |-> place, changed |-> J!Clean]
  <1>1. session[w] = Null /\ J!Update(w, s) /\ UNCHANGED <<J!World, place, J!history, spent>>
    BY DEF J!BeginRun
  <1>2. s \in Session
    BY DEF Session, JourneyTypes, J!Clean
  <1>3. /\ s.pc = "next" /\ s.todo = {c \in Customer : J!Journeying(c)} /\ s.nodes = program
        /\ s.edition = edition /\ s.loaded = place /\ \A c \in Customer : s.changed[c] = {}
    BY DEF J!Clean
  <1> HIDE DEF s
  <1>4. session' \in [Runner -> Session \cup {Null}] /\ session'[w] = s /\ \A v \in Runner : v = w
    BY <1>1, <1>2 DEF J!Update, JourneyTypes, OneRunner
  <1>5. JourneyTypes'
    BY <1>1, <1>4 DEF JourneyTypes, J!World, J!history
  <1>6. Holds(w)'
    BY <1>1, <1>3, <1>4 DEF Holds, Ours, J!Journeying
  <1>7. ASSUME NEW c \in Customer, Steady(c)'
        PROVE  Traced(c, place[c].position)' /\ Repeats(c)' /\ Follows(w, c)'
    <2>1. Steady(c) /\ place[c] \in Standing
      BY <1>1, <1>7 DEF Steady, J!history, JourneyTypes
    <2>2. J!Seen(w, c)' = place[c]
      BY <1>1, <1>3, <1>4 DEF J!Seen
    <2>3. Traced(c, place[c].position)'
      BY <1>1, <2>1 DEF Traced, Tried, Waited, J!World, J!history
    <2>4. Repeats(c)'
      <3>1. \A i \in 1 .. N : Behind(c, i) => Behind(c, i)'
        BY <1>1, <1>4 DEF Behind
      <3>2. \A i \in 1 .. N : Behind(c, i)' => Behind(c, i)
        BY <1>1, <1>4, <2>2 DEF Behind
      <3>3. UNCHANGED <<calls, spent>>
        BY <1>1 DEF J!history
      <3> QED BY <2>1, <3>1, <3>2, <3>3 DEF Repeats
    <2>5. Follows(w, c)'
      <3>1. place'[c] = place[c] /\ program' = program /\ edition' = edition /\ place[c].position \in Nat
        BY <1>1, <2>1 DEF J!World, Standing
      <3>2. Traced(c, J!Seen(w, c).position)'
        BY <1>1, <2>1, <2>2 DEF Traced, Tried, Waited, J!World, J!history
      <3>3. Ours(w, c)' => place[c].status = "ACTIVE"
        BY <1>3, <1>4 DEF Ours, J!Journeying
      <3> QED BY <1>3, <1>4, <2>2, <3>1, <3>2, <3>3 DEF Follows
    <2> QED BY <2>3, <2>4, <2>5
  <1> QED BY <1>4, <1>5, <1>6, <1>7

\* The next customer, as the session has them.
LEMMA VisitKeeps ==
    ASSUME JourneyInv, OneRunner, JourneyNamed, NEW w \in Runner, J!Visit(w) PROVE JourneyInv'
  <1> USE DEF JourneyInv
  <1>1. session[w] # Null /\ session[w].pc = "next" /\ session[w] \in Session
        /\ UNCHANGED <<J!World, place, J!history, spent>>
    BY DEF J!Visit, J!At, JourneyTypes
  <1>2. PICK c \in session[w].todo :
         LET row == J!Seen(w, c)
             awake == row.resume = 0
         IN J!Update(w, [session[w] EXCEPT
                !.todo = @ \ {c}, !.loaded[c] = row,
                !.customer = IF awake THEN c ELSE Null,
                !.pc = IF awake THEN "step" ELSE "next"])
    BY DEF J!Visit
  <1>3. c \in Customer /\ place[c] # Null /\ J!Seen(w, c) \in Standing
    <2>1. c \in Customer
      BY <1>1 DEF Session
    <2> QED BY <1>1, <2>1, SeenTyped DEF Holds, Ours
  <1> DEFINE row == J!Seen(w, c)
             mine == IF row.resume = 0 THEN c ELSE Null
             pc == IF row.resume = 0 THEN "step" ELSE "next"
             s == [session[w] EXCEPT !.todo = @ \ {c}, !.loaded[c] = row, !.customer = mine, !.pc = pc]
  <1>4. J!Update(w, s)
    BY <1>2
  <1>5. mine \in Customer \cup {Null} /\ pc \in {"step", "next"} /\ (pc = "step" => mine = c) /\ row \in Standing
    BY <1>3
  <1> HIDE DEF mine, pc, row
  <1>6. /\ s \in Session /\ s.pc = pc /\ s.todo = session[w].todo \ {c} /\ s.customer = mine
        /\ s.nodes = session[w].nodes /\ s.edition = session[w].edition
        /\ s.loaded = [session[w].loaded EXCEPT ![c] = row] /\ s.changed = session[w].changed
    BY <1>1, <1>3, <1>5 DEF Session
  <1> HIDE DEF s
  <1>7. session' \in [Runner -> Session \cup {Null}] /\ session'[w] = s /\ \A v \in Runner : v = w
    BY <1>4, <1>6 DEF J!Update, JourneyTypes, OneRunner
  <1>8. /\ s.loaded[c] = row /\ \A d \in Customer \ {c} : s.loaded[d] = session[w].loaded[d]
        /\ \A d \in Customer : Ours(w, d)' => Ours(w, d)
    BY <1>1, <1>5, <1>6, <1>7 DEF Session, Ours, J!Mine
  <1>9. \A d \in Customer : J!Seen(w, d)' = J!Seen(w, d)
    <2>1. row # Null
      BY <1>5 DEF JourneyNamed
    <2> QED BY <1>1, <1>3, <1>7, <1>8, <2>1 DEF J!Seen, row
  <1>10. JourneyTypes'
    BY <1>1, <1>7 DEF JourneyTypes, J!World, J!history
  <1>11. Holds(w)'
    <2>1. row # Null
      BY <1>5 DEF JourneyNamed
    <2>2. s.pc \in {"step", "drafted"} => s.customer \in Customer \ s.todo
      BY <1>3, <1>5, <1>6
    <2>3. \A d \in Customer : s.loaded[d] = Null => s.changed[d] = {}
      BY <1>1, <1>6, <1>8, <2>1 DEF Holds
    <2> QED BY <1>1, <1>7, <1>8, <2>2, <2>3 DEF Holds, J!Mine
  <1>12. ASSUME NEW d \in Customer, Steady(d)'
         PROVE  Traced(d, place[d].position)' /\ Repeats(d)' /\ Follows(w, d)'
    <2>1. Steady(d) /\ Follows(w, d)
      BY <1>1, <1>12 DEF Steady, J!history
    <2>2. Traced(d, place[d].position)'
      BY <1>1, <2>1 DEF Traced, Tried, Waited, J!World, J!history
    <2>3. session'[w] # Null
      BY <1>6, <1>7 DEF JourneyNamed
    <2>4. Repeats(d)'
      <3>1. \A i \in 1 .. N : Behind(d, i)' <=> Behind(d, i)
        BY <1>1, <1>7, <1>9, <2>3 DEF Behind
      <3>2. UNCHANGED <<calls, spent>>
        BY <1>1 DEF J!history
      <3> QED BY <2>1, <3>1, <3>2 DEF Repeats
    <2>5. Follows(w, d)'
      <3>1. place'[d] = place[d] /\ program' = program /\ edition' = edition
        BY <1>1 DEF J!World
      <3>2. Traced(d, J!Seen(w, d).position)'
        <4>1. Traced(d, J!Seen(w, d).position)
          BY <1>1, <2>1 DEF Follows
        <4> QED BY <1>1, <1>9, <4>1 DEF Traced, Tried, Waited, J!World, J!history
      <3>3. s.nodes = program /\ s.edition = edition
        BY <1>1, <1>6, <2>1 DEF Follows
      <3>4. s.loaded[d] # Null => \A f \in J!Field \ s.changed[d] : s.loaded[d][f] = place[d][f]
        <4>1. CASE d # c
          BY <1>1, <1>6, <1>8, <2>1, <4>1 DEF Follows
        <4>2. CASE d = c
          BY <1>1, <1>6, <1>8, <2>1, <4>2 DEF Follows, J!Seen, row
        <4> QED BY <4>1, <4>2
      <3>5. Ours(w, d)' => J!Seen(w, d).status = "ACTIVE" /\ "status" \notin s.changed[d]
        BY <1>1, <1>6, <1>8, <2>1 DEF Follows
      <3>6. place[d].position <= J!Seen(w, d).position
        BY <1>1, <2>1 DEF Follows
      <3>7. session'[w] = s /\ s.pc # "drafted" /\ J!Seen(w, d)' = J!Seen(w, d)
        BY <1>5, <1>6, <1>7, <1>9
      <3>8. place'[d].position <= J!Seen(w, d)'.position
        BY <3>1, <3>6, <3>7
      <3> QED BY <3>1, <3>2, <3>3, <3>4, <3>5, <3>7, <3>8 DEF Follows
    <2> QED BY <2>2, <2>4, <2>5
  <1> QED BY <1>7, <1>10, <1>11, <1>12

---------------------------------------------------------------------------
(* Requests, and the days. *)

\* A step that moves neither customers nor runs.
LEMMA StandsStill ==
    ASSUME JourneyInv, UNCHANGED <<program, edition, place, age, session, J!history, spent>>
    PROVE  JourneyInv'
  <1> USE DEF JourneyInv
  <1>1. JourneyTypes'
    BY DEF JourneyTypes, J!history
  <1>2. \A w \in Runner : Holds(w)'
    BY DEF Holds, Ours, J!Mine
  <1>3. \A c \in Customer, w \in Runner : J!Seen(w, c)' = J!Seen(w, c)
    BY DEF J!Seen
  <1>4. ASSUME NEW c \in Customer, Steady(c)'
        PROVE  /\ Traced(c, place[c].position)' /\ Repeats(c)'
               /\ \A w \in Runner : Follows(w, c)'
    <2>1. Steady(c)
      BY <1>4 DEF Steady, J!history
    <2>2. Traced(c, place[c].position)'
      BY <2>1 DEF Traced, Tried, Waited, J!history
    <2>3. \A i \in 1 .. N : Behind(c, i)' <=> Behind(c, i)
      BY <1>3 DEF Behind
    <2>4. Repeats(c)'
      BY <2>1, <2>3 DEF Repeats, J!history
    <2>5. ASSUME NEW w \in Runner PROVE Follows(w, c)'
      <3>1. Follows(w, c)
        BY <2>1
      <3>2. session[w] # Null => Traced(c, J!Seen(w, c).position)'
        <4>1. session[w] # Null => Traced(c, J!Seen(w, c).position)
          BY <3>1 DEF Follows
        <4> QED BY <1>3, <4>1 DEF Traced, Tried, Waited, J!history
      <3> QED BY <1>3, <3>1, <3>2 DEF Follows, Ours, J!Mine
    <2> QED BY <2>2, <2>4, <2>5
  <1> QED BY <1>1, <1>2, <1>4

\* New steps displace everybody.
LEMMA ReplaceNodesKeeps ==
    ASSUME JourneyInv, Configured, J!ReplaceNodes PROVE JourneyInv'
  <1> USE DEF JourneyInv
  <1>1. program' \in Seq(Steps) /\ edition' \in Nat
    BY DEF J!ReplaceNodes, Configured, JourneyTypes
  <1>2. spent' \in [{"edits", "reentries", "crashes"} -> Nat]
    BY DEF J!ReplaceNodes, J!Spend, JourneyTypes
  <1>3. /\ calls' \in [Customer -> [1 .. N -> Nat]] /\ tried' \in [Customer -> SUBSET Nat]
    BY DEF J!ReplaceNodes
  <1>4. JourneyTypes'
    BY <1>1, <1>2, <1>3 DEF JourneyTypes, J!ReplaceNodes
  <1>5. \A w \in Runner : Holds(w)'
    BY DEF Holds, Ours, J!Mine, J!ReplaceNodes
  <1>6. \A c \in Customer : ~ Steady(c)'
    BY DEF Steady, J!ReplaceNodes
  <1> QED BY <1>4, <1>5, <1>6

\* Who enters between runs starts with a clean slate.
LEMMA EnrolKeeps ==
    ASSUME JourneyInv, Configured, JourneyNamed, J!Enrol PROVE JourneyInv'
  <1> USE DEF JourneyInv
  <1>1. PICK eligible \in SUBSET {c \in Customer : J!MayEnter(c)} :
         /\ eligible # {}
         /\ IF \A c \in eligible : place[c] = Null THEN UNCHANGED spent
            ELSE J!Spend("reentries", MaxReentries)
         /\ place' = [c \in Customer |-> IF c \in eligible THEN J!Entered ELSE place[c]]
         /\ age' = [c \in Customer |-> IF c \in eligible THEN 0 ELSE age[c]]
         /\ calls' = [c \in Customer |->
                        IF c \in eligible THEN [i \in 1 .. N |-> 0] ELSE calls[c]]
         /\ tried' = [c \in Customer |-> IF c \in eligible THEN {} ELSE tried[c]]
         /\ displaced' = IF J!Idle THEN displaced \ eligible ELSE displaced \cup eligible
    BY DEF J!Enrol
  <1>2. UNCHANGED <<program, edition, session>>
    BY DEF J!Enrol
  <1>3. /\ spent' \in [{"edits", "reentries", "crashes"} -> Nat] /\ spent'["crashes"] = spent["crashes"]
    BY <1>1 DEF J!Spend, JourneyTypes
  <1>4. J!Entered \in Standing /\ J!Entered # Null /\ J!Entered.position = 0
    BY DEF J!Entered, Standing, J!PlaceStatus, JourneyNamed
  <1>5. place' \in [Customer -> Standing \cup {Null}] /\ age' \in [Customer -> 0 .. MaxDays]
    BY <1>1, <1>4 DEF JourneyTypes, Configured
  <1>6. /\ calls' \in [Customer -> [1 .. N -> Nat]] /\ tried' \in [Customer -> SUBSET Nat]
    BY <1>1 DEF JourneyTypes
  <1>7. JourneyTypes'
    BY <1>2, <1>3, <1>5, <1>6 DEF JourneyTypes
  <1>8. \A w \in Runner : Holds(w)'
    <2>1. \A c \in Customer : place[c] # Null => place'[c] # Null
      BY <1>1, <1>4
    <2> QED BY <1>2, <2>1 DEF Holds, Ours, J!Mine
  <1>9. ASSUME NEW c \in Customer, Steady(c)'
        PROVE  /\ Traced(c, place[c].position)' /\ Repeats(c)'
               /\ \A w \in Runner : Follows(w, c)'
    <2>1. CASE c \in eligible
      <3>1. J!Idle
        BY <1>1, <1>9, <2>1 DEF Steady
      <3>2. \A w \in Runner : session'[w] = Null
        BY <1>2, <3>1 DEF J!Idle
      <3>3. place'[c].position = 0 /\ calls'[c] = [i \in 1 .. N |-> 0]
        BY <1>1, <1>4, <2>1
      <3>4. Traced(c, place[c].position)'
        BY <1>2, <3>3 DEF Traced, Tried, Waited
      <3>5. Repeats(c)'
        <4> SUFFICES ASSUME NEW i \in 1 .. N
                     PROVE  calls'[c][i] <= spent'["crashes"] + IF Behind(c, i)' THEN 1 ELSE 0
          BY DEF Repeats
        <4>1. calls'[c][i] = 0 /\ spent'["crashes"] \in Nat
          BY <1>3, <3>3 DEF JourneyTypes
        <4> QED BY <4>1
      <3> QED BY <3>2, <3>4, <3>5 DEF Follows
    <2>2. CASE c \notin eligible
      <3>1. /\ place'[c] = place[c] /\ age'[c] = age[c] /\ calls'[c] = calls[c] /\ tried'[c] = tried[c]
        BY <1>1, <2>2
      <3>2. Steady(c)
        BY <1>1, <1>9, <2>2, <3>1 DEF Steady
      <3>3. Traced(c, place[c].position)'
        BY <1>2, <3>1, <3>2 DEF Traced, Tried, Waited
      <3>4. \A w \in Runner : J!Seen(w, c)' = J!Seen(w, c)
        BY <1>2, <3>1 DEF J!Seen
      <3>5. \A i \in 1 .. N : Behind(c, i)' <=> Behind(c, i)
        BY <1>2, <3>1, <3>4 DEF Behind
      <3>6. Repeats(c)'
        BY <1>3, <3>1, <3>2, <3>5 DEF Repeats
      <3>7. ASSUME NEW w \in Runner PROVE Follows(w, c)'
        <4>1. Follows(w, c)
          BY <3>2
        <4>2. session[w] # Null => Traced(c, J!Seen(w, c).position)'
          <5>1. session[w] # Null => Traced(c, J!Seen(w, c).position)
            BY <4>1 DEF Follows
          <5> QED BY <1>2, <3>1, <3>4, <5>1 DEF Traced, Tried, Waited
        <4> QED BY <1>2, <3>1, <3>4, <4>1, <4>2 DEF Follows, Ours, J!Mine
      <3> QED BY <3>3, <3>6, <3>7
    <2> QED BY <2>1, <2>2
  <1> QED BY <1>7, <1>8, <1>9

\* A day makes waits shorter and moves nobody.
LEMMA DayPassesKeeps ==
    ASSUME JourneyInv, Configured, JourneyNamed, J!DayPasses PROVE JourneyInv'
  <1> USE DEF JourneyInv
  <1>1. /\ \A w \in Runner : session'[w] = Null
        /\ UNCHANGED <<program, edition, session, J!history, spent>>
    BY DEF J!DayPasses, J!Idle
  <1>2. age' \in [Customer -> 0 .. MaxDays] /\ \A c \in Customer : age'[c] >= age[c]
    BY DEF J!DayPasses, JourneyTypes, Configured
  <1>3. ASSUME NEW c \in Customer
        PROVE  /\ place'[c] \in Standing \cup {Null}
               /\ place'[c] = Null <=> place[c] = Null
               /\ place[c] # Null => place'[c].position = place[c].position
    <2>1. place'[c] = IF place[c] = Null \/ place[c].resume = 0 THEN place[c]
                      ELSE [place[c] EXCEPT !.resume = @ - 1]
      BY DEF J!DayPasses
    <2>2. place[c] \in Standing \cup {Null}
      BY DEF JourneyTypes
    <2>3. CASE place[c] = Null \/ place[c].resume = 0
      BY <2>1, <2>2, <2>3
    <2>4. CASE ~ (place[c] = Null \/ place[c].resume = 0)
      BY <2>1, <2>2, <2>4 DEF Standing, JourneyNamed
    <2> QED BY <2>3, <2>4
  <1>4. JourneyTypes'
    <2>1. place' \in [Customer -> Standing \cup {Null}]
      BY <1>3 DEF J!DayPasses
    <2> QED BY <1>1, <1>2, <2>1 DEF JourneyTypes, J!history
  <1>5. ASSUME NEW c \in Customer, Steady(c)'
        PROVE  Traced(c, place[c].position)' /\ Repeats(c)'
    <2>1. Steady(c) /\ place'[c].position = place[c].position
      BY <1>1, <1>3, <1>5 DEF Steady, J!history
    <2>2. Traced(c, place[c].position)'
      <3>1. \A i \in 1 .. Len(program) : program[i].kind = "wait" /\ i <= place[c].position
               => age'[c] >= program[i].days
        <4> SUFFICES ASSUME NEW i \in 1 .. Len(program), program[i].kind = "wait", i <= place[c].position
                     PROVE  age'[c] >= program[i].days
          OBVIOUS
        <4>1. age[c] >= program[i].days /\ age'[c] >= age[c]
          BY <1>2, <2>1 DEF Traced, Waited
        <4>2. age[c] \in 0 .. MaxDays /\ age'[c] \in 0 .. MaxDays /\ MaxDays \in Nat
          BY <1>2 DEF JourneyTypes, Configured
        <4>3. program[i] \in Steps
          BY DEF JourneyTypes
        <4>4. program[i].days \in Nat
          BY <4>3 DEF Steps
        <4> QED BY <4>1, <4>2, <4>4
      <3> QED BY <1>1, <2>1, <3>1 DEF Traced, Tried, Waited, J!history
    <2>3. \A i \in 1 .. N : Behind(c, i)' <=> Behind(c, i)
      BY <1>1, <2>1 DEF Behind
    <2>4. Repeats(c)'
      BY <1>1, <2>1, <2>3 DEF Repeats, J!history
    <2> QED BY <2>2, <2>4
  <1> QED BY <1>1, <1>4, <1>5 DEF Holds, Follows

\* Every step keeps the invariant.
LEMMA JourneyKept ==
    ASSUME JourneyInv, OneRunner, JourneyNamed, Configured, [J!Next]_J!vars PROVE JourneyInv'
  <1>1. ASSUME NEW w \in Runner, J!RunStep(w) PROVE JourneyInv'
    BY <1>1, BeginRunKeeps, VisitKeeps, StepGoneKeeps, PastTheEndKeeps, WaitKeeps, ConditionKeeps,
       ActKeeps, EndJourneyKeeps, BlockedKeeps, DraftKeeps, DeliverKeeps, FinishKeeps DEF J!RunStep
  <1>2. CASE J!SetStatus
    BY <1>2, StandsStill DEF J!SetStatus, J!history
  <1>3. ASSUME NEW c \in Customer, J!OptOutOrIn(c) PROVE JourneyInv'
    BY <1>3, StandsStill DEF J!OptOutOrIn, J!history
  <1>4. CASE UNCHANGED J!vars
    BY <1>4, StandsStill DEF J!vars, J!history
  <1> QED
    BY <1>1, <1>2, <1>3, <1>4, RunCrashKeeps, ReplaceNodesKeeps, EnrolKeeps, DayPassesKeeps DEF J!Next

\* One runner, and steps as they may be configured.
LEMMA JourneyGiven == OneRunner /\ Configured
  BY JourneyAssumption DEF OneRunner, Runner, Configured, Steps

\* The journey knows its customers, in every state.
LEMMA JourneyKnown ==
    ASSUME JourneyNamed PROVE J!Spec => []JourneyInv
  <1>1. J!Init => JourneyInv
    BY JourneyGiven, JourneyStarts
  <1>2. JourneyInv /\ [J!Next]_J!vars => JourneyInv'
    BY JourneyGiven, JourneyKept
  <1> QED
    BY <1>1, <1>2, PTL DEF J!Spec

\* What the invariant says of steps that are behind a customer.
LEMMA InvStepsOnce == JourneyInv => J!EachStepOnce
  <1> SUFFICES ASSUME JourneyInv, NEW c \in Customer \ displaced, place[c] # Null
               PROVE  /\ \A i \in 1 .. Len(program) :
                           program[i].kind = "send" /\ i <= place[c].position => i \in tried[c]
                      /\ \A i \in 1 .. N : calls[c][i] <= 1 + spent.crashes
    BY DEF J!EachStepOnce
  <1>1. Traced(c, place[c].position) /\ Repeats(c)
    BY DEF JourneyInv, Steady
  <1>2. ASSUME NEW i \in 1 .. N PROVE calls[c][i] <= 1 + spent.crashes
    <2>1. calls[c] \in [1 .. N -> Nat] /\ spent["crashes"] \in Nat
      BY DEF JourneyInv, JourneyTypes
    <2>2. calls[c][i] <= spent["crashes"] + IF Behind(c, i) THEN 1 ELSE 0
      BY <1>1 DEF Repeats
    <2>3. calls[c][i] \in Nat
      BY <2>1
    <2>4. CASE Behind(c, i)
      BY <2>1, <2>2, <2>3, <2>4
    <2>5. CASE ~ Behind(c, i)
      BY <2>1, <2>2, <2>3, <2>5
    <2> QED BY <2>4, <2>5
  <1> QED BY <1>1, <1>2 DEF Traced, Tried

\* Only a delivery is one.
LEMMA OnlyDelivered ==
    ASSUME JourneyInv, [J!Next]_J!vars, NEW c \in Customer, NEW i \in 1 .. N, J!Sent(c, i)
    PROVE  \E w \in Runner : J!Deliver(w)
  <1>1. calls[c][i] \in Nat /\ ~ (calls[c][i] > calls[c][i])
    <2>1. calls[c] \in [1 .. N -> Nat]
      BY DEF JourneyInv, JourneyTypes
    <2>2. calls[c][i] \in Nat
      BY <2>1
    <2> QED BY <2>2
  <1>2. calls' # calls
    BY <1>1 DEF J!Sent
  <1>3. ~ J!ReplaceNodes
    <2>1. J!ReplaceNodes => calls'[c][i] = 0
      BY DEF J!ReplaceNodes
    <2> QED BY <1>1, <2>1 DEF J!Sent
  <1>4. ~ J!Enrol
    <2>1. J!Enrol => calls'[c][i] \in {0, calls[c][i]}
      BY DEF J!Enrol
    <2> QED BY <1>1, <2>1 DEF J!Sent
  <1>5. ~ J!SetStatus /\ ~ J!DayPasses /\ (\A d \in Customer : ~ J!OptOutOrIn(d)) /\ ~ UNCHANGED J!vars
        /\ \A w \in Runner : ~ J!Crash(w)
    BY <1>2 DEF J!SetStatus, J!DayPasses, J!OptOutOrIn, J!vars, J!history, J!Crash
  <1>6. PICK w \in Runner : J!RunStep(w)
    BY <1>3, <1>4, <1>5 DEF J!Next
  <1>7. ~ J!BeginRun(w) /\ ~ J!Visit(w) /\ ~ J!StepGone(w) /\ ~ J!PastTheEnd(w) /\ ~ J!Wait(w) /\ ~ J!Condition(w)
        /\ ~ J!Act(w) /\ ~ J!EndJourney(w) /\ ~ J!Draft(w) /\ ~ J!Finish(w) /\ ~ J!Blocked(w)
    BY <1>2 DEF J!BeginRun, J!Visit, J!StepGone, J!PastTheEnd, J!Wait, J!Condition, J!Act, J!EndJourney, J!Draft, J!Finish,
                J!Blocked, J!history
  <1> QED BY <1>6, <1>7 DEF J!RunStep

\* A delivery follows the waits ahead of it.
LEMMA InvInTime == JourneyInv /\ [J!Next]_J!vars => [J!InTime]_J!vars
  <1> SUFFICES ASSUME JourneyInv, [J!Next]_J!vars, NEW c \in Customer, NEW i \in 1 .. N,
                      J!Sent(c, i), c \notin displaced
               PROVE  /\ \A j \in 1 .. i - 1 : program[j].kind = "wait" => age[c] >= program[j].days
                      /\ place[c].status = "ACTIVE"
    BY DEF J!InTime
  <1>1. PICK w \in Runner : J!Deliver(w)
    BY OnlyDelivered
  <1>2. J!At(w, "drafted") /\ session[w] # Null /\ session[w].pc = "drafted" /\ J!Mine(w) \in Customer
    BY <1>1, AtStep DEF J!Deliver, J!At
  <1>3. c = J!Mine(w) /\ i = J!Position(w)
    <2>1. PICK d \in Customer, k \in Nat : d = J!Mine(w) /\ k = J!Position(w)
      BY <1>2, AtStep
    <2>2. PICK accepted \in {0, 1} : calls' = [calls EXCEPT ![J!Mine(w)][J!Position(w)] = @ + accepted]
      BY <1>1 DEF J!Deliver
    <2>3. calls' = [calls EXCEPT ![d] = [calls[d] EXCEPT ![k] = calls[d][k] + accepted]]
      BY <2>1, <2>2
    <2>4. calls \in [Customer -> [1 .. N -> Nat]]
      BY DEF JourneyInv, JourneyTypes
    <2>5. calls[c] \in [1 .. N -> Nat] /\ calls[c][i] \in Nat /\ calls'[c][i] > calls[c][i]
      BY <2>4 DEF J!Sent
    <2>6. calls'[c] = IF c = d THEN [calls[d] EXCEPT ![k] = calls[d][k] + accepted] ELSE calls[c]
      BY <2>3, <2>4
    <2>7. c = d
      BY <2>5, <2>6
    <2>8. i = k
      BY <2>5, <2>6, <2>7
    <2> QED BY <2>1, <2>7, <2>8
  <1>4. /\ Steady(c) /\ Follows(w, c) /\ J!Seen(w, c) = J!Row(w) /\ J!Seen(w, c) \in Standing
    BY <1>2, <1>3, AtStep DEF JourneyInv, Steady, Holds, Ours
  <1>5. i = J!Seen(w, c).position + 1 /\ J!Seen(w, c).position \in Nat /\ i \in 1 .. Len(program)
    BY <1>2, <1>3, <1>4, AtStep DEF Follows, Standing
  <1>6. \A j \in 1 .. i - 1 : program[j].kind = "wait" => age[c] >= program[j].days
    BY <1>2, <1>4, <1>5 DEF Follows, Traced, Waited, JourneyInv, JourneyTypes
  <1>7. place[c].status = "ACTIVE"
    BY <1>2, <1>3, <1>4 DEF Follows, Ours, J!Seen, J!Field
  <1> QED BY <1>6, <1>7

\* Every customer nobody moves about has had every message behind them worked
\* on, and the provider has taken each at most once, and once more for every run
\* that was lost: journeys of any steps, with any edits, re-entries and opt-outs.
THEOREM StepsOnce == ASSUME JourneyNamed PROVE J!Spec => []J!EachStepOnce
  BY InvStepsOnce, JourneyKnown, PTL

\* No message of a journey leaves before the waits ahead of it are over, and none
\* for a customer who has left.
THEOREM WaitsKept == ASSUME JourneyNamed PROVE J!Spec => J!KeepsTime
  <1>1. JourneyInv /\ [J!Next]_J!vars => [J!InTime]_J!vars
    BY InvInTime
  <1> QED
    BY <1>1, JourneyKnown, PTL DEF J!Spec, J!KeepsTime

---------------------------------------------------------------------------
(* The two schedules beside each other. *)

\* A step of either schedule.
LEMMA OutreachStep ==
    ASSUME JourneyInv, JourneyNamed, [MCNext]_all
    PROVE  JourneyInv' /\ [J!InTime]_journey
  <1>1. CASE J!Next
    <2>1. [J!Next]_J!vars
      BY <1>1
    <2>2. JourneyInv' /\ [J!InTime]_J!vars
      BY <2>1, JourneyGiven, JourneyKept, InvInTime
    <2> QED BY <2>2 DEF J!vars, J!history, journey
  <1>2. CASE UNCHANGED journey
    BY <1>2, StandsStill DEF journey, J!history
  <1> QED
    BY <1>1, <1>2 DEF MCNext, all

\* The same of a journey among the customers of the nudge automation, whose
\* opt-outs it shares.
THEOREM StepsOnceBesideNudges == ASSUME JourneyNamed PROVE MCSpec => []StepsTakenOnce
  <1>1. MCInit => JourneyInv
    BY JourneyGiven, JourneyStarts DEF MCInit
  <1>2. JourneyInv /\ [MCNext]_all => JourneyInv'
    BY OutreachStep
  <1>3. JourneyInv => StepsTakenOnce
    BY InvStepsOnce DEF StepsTakenOnce
  <1> QED
    BY <1>1, <1>2, <1>3, PTL DEF MCSpec

\* The same of its waits.
THEOREM WaitsKeptBesideNudges == ASSUME JourneyNamed PROVE MCSpec => WaitsAreKept
  <1>1. MCInit => JourneyInv
    BY JourneyGiven, JourneyStarts DEF MCInit
  <1>2. JourneyInv /\ [MCNext]_all => JourneyInv' /\ [J!InTime]_journey
    BY OutreachStep
  <1> QED
    BY <1>1, <1>2, PTL DEF MCSpec, WaitsAreKept
=============================================================================

--------------------------- MODULE RecordsProofs ---------------------------
(***************************************************************************)
(* Three of the four records of MCRecords: consent, events and drafts,     *)
(* each by itself and then as one of the records beside each other.        *)
(*                                                                         *)
(* A STOP holds, proved for any set of channels, any number of threads and *)
(* whatever requests and files state.                                      *)
(***************************************************************************)
EXTENDS MCRecords, FiniteSetTheorems, TLAPS

---------------------------------------------------------------------------
(* The inductive invariant. *)

\* Of what was lost since the STOP that is being honoured, one half at least is
\* noted: the consents, and the suppression.
Noted(flags, listing, released) ==
    /\ \A f \in Flag : consent[f] => f \in flags \/ "consent" \in released
    /\ suppressed \/ listing \/ "listing" \in released

\* A STOP that has not committed yet will revoke what is granted, and suppress,
\* unless somebody has done the opposite since it was read.
Pending(q) == request[q] # Null /\ request[q].reply = "stop" =>
    /\ \A f \in DOMAIN request[q].flags : ~ request[q].flags[f]
    /\ FALSE \notin request[q].listing
    /\ Noted(DOMAIN request[q].flags, TRUE \in request[q].listing, request[q].undone)

Kept == stopped => Noted({}, FALSE, undone)

IInv == TypeOK /\ Kept /\ \A q \in Requester : Pending(q)

---------------------------------------------------------------------------
(* The values for some columns. *)

LEMMA ValuesFromFunction ==
    ASSUME NEW C, NEW V, NEW S \in SUBSET C, NEW v \in [S -> V] PROVE v \in Values(C, V)
BY DEF Values

LEMMA FunctionFromValues ==
    ASSUME NEW C, NEW V, NEW v \in Values(C, V)
    PROVE  DOMAIN v \subseteq C /\ \A x \in DOMAIN v : v[x] \in V
BY DEF Values

---------------------------------------------------------------------------
(* Types. *)

LEMMA WantedTypes ==
    ASSUME TypeOK, NEW op \in Op
    PROVE  WantedConsent(op) \in [Flag -> BOOLEAN] /\ WantedSuppressed(op) \in BOOLEAN
  <1>1. ASSUME NEW change \in Changes PROVE Stated(change) \in [Flag -> BOOLEAN]
    <2>1. \A x \in DOMAIN change : change[x] \in BOOLEAN
      BY <1>1, ConsentAssumption, FunctionFromValues
    <2> QED BY <2>1 DEF Stated, TypeOK
  <1>2. ASSUME NEW change \in Changes PROVE Cascade(change) \in [Flag -> BOOLEAN]
    BY <1>1 DEF Cascade
  <1>3. op.kind \in {"patch", "rows", "file"} => op.change \in Changes
    BY DEF Op
  <1>4. op.kind \in {"stop", "start", "suppress", "unsuppress", "patch", "rows", "file"}
    BY DEF Op
  <1>5. WantedConsent(op) \in [Flag -> BOOLEAN]
    BY <1>1, <1>2, <1>3, <1>4 DEF WantedConsent, TypeOK
  <1>6. WantedSuppressed(op) \in BOOLEAN
    BY <1>4 DEF WantedSuppressed, TypeOK
  <1> QED BY <1>5, <1>6

LEMMA TypeInit == Init => TypeOK
BY ConsentAssumption DEF Init, TypeOK, Release

LEMMA AsksTypes ==
    ASSUME TypeOK, NEW q \in Requester, NEW op \in Op, Asks(q, op)
    PROVE  request'[q] \in Work
  <1> DEFINE wanted == WantedConsent(op)
             flags == [f \in Changed(wanted) |-> wanted[f]]
             empty == [s \in {} |-> "active"]
  <1>1. wanted \in [Flag -> BOOLEAN] /\ WantedSuppressed(op) \in BOOLEAN
    BY WantedTypes
  <1>2. flags \in Values(Flag, BOOLEAN)
    <2>1. Changed(wanted) \in SUBSET Flag BY DEF Changed
    <2>2. flags \in [Changed(wanted) -> BOOLEAN] BY <1>1, <2>1
    <2> HIDE DEF flags, wanted
    <2> QED BY <2>1, <2>2, ValuesFromFunction
  <1>3. empty \in Values(Scope, {"active", "inactive"})
    <2>1. empty \in [{} -> {"active", "inactive"}] OBVIOUS
    <2> HIDE DEF empty
    <2> QED BY <2>1, ValuesFromFunction
  <1>4. Suppresses(op) \subseteq Scope /\ Lifts(op) \subseteq Scope
    <2>1. op.kind \in {"suppress", "unsuppress"} => op.on \in Scope BY DEF Op
    <2>2. op.kind \in {"stop", "start", "suppress", "unsuppress", "patch", "rows", "file"}
      BY DEF Op
    <2> QED BY <2>1, <2>2 DEF Suppresses, Lifts, Scope
  <1>5. request'[q] = [reply |-> IF op.kind \in {"stop", "start"} THEN op.kind ELSE "none",
             step |-> IF op.kind \in {"patch", "rows", "file"} THEN "write" ELSE "look",
             flags |-> flags,
             listing |-> {WantedSuppressed(op)} \ {suppressed},
             suppress |-> Suppresses(op), lift |-> Lifts(op),
             rows |-> empty, new |-> {}, undone |-> {}]
    BY DEF Asks, TypeOK
  <1> HIDE DEF flags, empty, wanted
  <1> QED BY <1>1, <1>2, <1>3, <1>4, <1>5 DEF Work

LEMMA LooksTypes ==
    ASSUME TypeOK, NEW q \in Requester, Looks(q)
    PROVE  request'[q] \in Work
  <1> DEFINE asked == request[q]
             revived == {s \in asked.suppress : listed[s] = "inactive"}
             lifted == {s \in asked.lift : listed[s] = "active"}
             rows == [s \in revived \cup lifted |-> IF s \in revived THEN "active" ELSE "inactive"]
             new == {s \in asked.suppress : listed[s] = "none"}
  <1>1. asked \in Work BY DEF Looks, TypeOK
  <1>2. rows \in Values(Scope, {"active", "inactive"})
    <2>1. revived \cup lifted \in SUBSET Scope BY <1>1 DEF Work
    <2>2. rows \in [revived \cup lifted -> {"active", "inactive"}] OBVIOUS
    <2> HIDE DEF rows, revived, lifted
    <2> QED BY <2>1, <2>2, ValuesFromFunction
  <1>3. new \in SUBSET Scope BY <1>1 DEF Work
  <1>4. request'[q] = [asked EXCEPT !.step = "write", !.suppress = {}, !.lift = {}, !.rows = rows, !.new = new]
    BY DEF Looks, TypeOK
  <1> HIDE DEF rows, new, asked
  <1> QED BY <1>1, <1>2, <1>3, <1>4 DEF Work

LEMMA OverlappingTypes ==
    ASSUME TypeOK, NEW q \in Requester, NEW released \in SUBSET Release
    PROVE  Overlapping(q, released) \in [Requester -> Work \cup {Null}]
  <1> SUFFICES ASSUME NEW r \in Requester PROVE Overlapping(q, released)[r] \in Work \cup {Null}
    BY DEF Overlapping
  <1>1. request[r] # Null => request[r] \in Work BY DEF TypeOK
  <1>2. request[r] # Null => [request[r] EXCEPT !.undone = @ \cup released] \in Work
    BY <1>1 DEF Work
  <1> QED BY <1>1, <1>2 DEF Overlapping

LEMMA ReleasedTypes == ASSUME NEW asked PROVE Released(asked) \in SUBSET Release
BY DEF Released, Release

LEMMA CommitsTypes ==
    ASSUME TypeOK, NEW q \in Requester, Commits(q)
    PROVE  TypeOK'
  <1> DEFINE asked == request[q]
  <1>1. asked \in Work BY DEF Commits, TypeOK
  <1>2. /\ asked.flags \in Values(Flag, BOOLEAN)
        /\ asked.rows \in Values(Scope, {"active", "inactive"})
        /\ asked.undone \in SUBSET Release
    BY <1>1 DEF Work
  <1>3. \A f \in DOMAIN asked.flags : asked.flags[f] \in BOOLEAN
    BY <1>2, FunctionFromValues
  <1>4. \A s \in DOMAIN asked.rows : asked.rows[s] \in {"active", "inactive"}
    BY <1>2, FunctionFromValues
  <1>5. consent' \in [Flag -> BOOLEAN] BY <1>3 DEF Commits, TypeOK
  <1>6. suppressed' \in BOOLEAN
    <2>1. suppressed' = IF asked.listing = {} THEN suppressed ELSE TRUE \in asked.listing BY DEF Commits
    <2>2. suppressed \in BOOLEAN BY DEF TypeOK
    <2>3. (TRUE \in asked.listing) \in BOOLEAN OBVIOUS
    <2> HIDE DEF asked
    <2>4. CASE asked.listing = {} BY <2>1, <2>2, <2>4, Zenon
    <2>5. CASE asked.listing # {} BY <2>1, <2>3, <2>5, Zenon
    <2> QED BY <2>4, <2>5
  <1>7. listed' \in [Scope -> {"none", "active", "inactive"}] BY <1>4 DEF Commits, TypeOK
  <1>8. request' \in [Requester -> Work \cup {Null}]
    BY OverlappingTypes, ReleasedTypes DEF Commits
  <1>9. stopped' \in BOOLEAN BY DEF Commits, TypeOK
  <1>10. undone' \subseteq Release BY <1>2, ReleasedTypes DEF Commits, TypeOK
  <1> QED BY <1>5, <1>6, <1>7, <1>8, <1>9, <1>10 DEF TypeOK

LEMMA TypeNext == TypeOK /\ [Next]_vars => TypeOK'
  <1> SUFFICES ASSUME TypeOK, [Next]_vars PROVE TypeOK'
    OBVIOUS
  <1>1. ASSUME NEW q \in Requester, NEW op \in Op, Asks(q, op) PROVE TypeOK'
    <2>1. request'[q] \in Work BY <1>1, AsksTypes
    <2>2. request' \in [Requester -> Work \cup {Null}]
      <3>1. \A r \in Requester \ {q} : request'[r] = request[r] BY <1>1 DEF Asks, TypeOK
      <3>2. request' = [r \in Requester |-> request'[r]] BY <1>1 DEF Asks, TypeOK
      <3> QED BY <2>1, <3>1, <3>2 DEF TypeOK
    <2> QED BY <1>1, <2>2 DEF Asks, TypeOK, record
  <1>2. ASSUME NEW q \in Requester, Looks(q) PROVE TypeOK'
    <2>1. request'[q] \in Work BY <1>2, LooksTypes
    <2>2. request' \in [Requester -> Work \cup {Null}]
      <3>1. \A r \in Requester \ {q} : request'[r] = request[r] BY <1>2 DEF Looks, TypeOK
      <3>2. request' = [r \in Requester |-> request'[r]] BY <1>2 DEF Looks, TypeOK
      <3> QED BY <2>1, <3>1, <3>2 DEF TypeOK
    <2> QED BY <1>2, <2>2 DEF Looks, TypeOK, record
  <1>3. ASSUME NEW q \in Requester, Commits(q) PROVE TypeOK'
    BY <1>3, CommitsTypes
  <1>4. ASSUME NEW q \in Requester, Fails(q) PROVE TypeOK'
    BY <1>4 DEF Fails, TypeOK, record
  <1>5. ASSUME NEW q \in Thread, MakeContactable(q) PROVE TypeOK'
    <2>1. request' \in [Requester -> Work \cup {Null}]
      BY <1>5, OverlappingTypes DEF MakeContactable, Requester, Release
    <2> QED BY <1>5, <2>1 DEF MakeContactable, TypeOK, Release
  <1>6. CASE UNCHANGED vars
    BY <1>6 DEF vars, record, TypeOK
  <1> QED BY <1>1, <1>2, <1>3, <1>4, <1>5, <1>6 DEF Next

---------------------------------------------------------------------------
(* What is noted stays noted. *)

\* A commit, or the update of every customer, that notes what it releases.
LEMMA NotedKept ==
    ASSUME NEW flags, NEW listing, NEW released, NEW more,
           \A f \in Flag : consent'[f] => consent[f] \/ "consent" \in more,
           suppressed => suppressed' \/ "listing" \in more,
           Noted(flags, listing, released)
    PROVE  Noted(flags, listing, released \cup more)'
BY DEF Noted

LEMMA CommitReleases ==
    ASSUME TypeOK, NEW q \in Requester, Commits(q)
    PROVE  /\ \A f \in Flag : consent'[f] => consent[f] \/ "consent" \in Released(request[q])
           /\ suppressed => suppressed' \/ "listing" \in Released(request[q])
  <1> DEFINE asked == request[q]
  <1>1. asked \in Work BY DEF Commits, TypeOK
  <1>2. asked.listing \in SUBSET BOOLEAN BY <1>1 DEF Work
  <1>3. \A f \in Flag : consent'[f] => consent[f] \/ "consent" \in Released(asked)
    BY DEF Commits, Released
  <1>4. suppressed => suppressed' \/ "listing" \in Released(asked)
    BY <1>2 DEF Commits, Released
  <1> QED BY <1>3, <1>4

\* The requests that overlap with what releases something.
LEMMA OverlappingPending ==
    ASSUME TypeOK, NEW q \in Requester, NEW more,
           \A r \in Requester : Pending(r),
           \A f \in Flag : consent'[f] => consent[f] \/ "consent" \in more,
           suppressed => suppressed' \/ "listing" \in more,
           request' = Overlapping(q, more)
    PROVE  \A r \in Requester : Pending(r)'
  <1> SUFFICES ASSUME NEW r \in Requester, request'[r] # Null, request'[r].reply = "stop"
               PROVE  Pending(r)'
    BY DEF Pending
  <1>1. r # q /\ request[r] # Null BY DEF Overlapping
  <1>2. request[r] \in Work BY <1>1 DEF TypeOK
  <1>3. request[r].reply = "stop" BY <1>1, <1>2 DEF Overlapping
  <1>4. request'[r] = [request[r] EXCEPT !.undone = @ \cup more] BY <1>1, <1>3 DEF Overlapping
  <1>5. /\ request'[r].flags = request[r].flags /\ request'[r].listing = request[r].listing
        /\ request'[r].undone = request[r].undone \cup more
    BY <1>2, <1>4 DEF Work
  <1>6. /\ \A f \in DOMAIN request[r].flags : ~ request[r].flags[f]
        /\ FALSE \notin request[r].listing
        /\ Noted(DOMAIN request[r].flags, TRUE \in request[r].listing, request[r].undone)
    BY <1>1, <1>3 DEF Pending
  <1> QED BY <1>5, <1>6 DEF Pending, Noted

---------------------------------------------------------------------------
(* The steps. *)

LEMMA InvInit == Init => IInv
  <1> SUFFICES ASSUME Init PROVE IInv
    OBVIOUS
  <1>1. TypeOK BY TypeInit
  <1>2. Kept BY DEF Init, Kept
  <1>3. \A q \in Requester : Pending(q) BY DEF Init, Pending
  <1> QED BY <1>1, <1>2, <1>3 DEF IInv

LEMMA AsksInv ==
    ASSUME IInv, NEW q \in Requester, NEW op \in Op, Asks(q, op)
    PROVE  Kept' /\ \A r \in Requester : Pending(r)'
  <1> USE DEF IInv
  <1>1. Kept' BY DEF Asks, Kept, Noted, record
  <1>2. ASSUME NEW r \in Requester \ {q} PROVE Pending(r)'
    <2>1. request'[r] = request[r] BY <1>2 DEF Asks, TypeOK
    <2> QED BY <2>1 DEF Asks, Pending, Noted, record
  <1>3. Pending(q)'
    <2> SUFFICES ASSUME request'[q].reply = "stop" PROVE Pending(q)'
      BY DEF Pending
    <2> DEFINE wanted == WantedConsent(op)
    <2>1. /\ request'[q].reply = (IF op.kind \in {"stop", "start"} THEN op.kind ELSE "none")
          /\ request'[q].flags = [f \in Changed(wanted) |-> wanted[f]]
          /\ request'[q].listing = {WantedSuppressed(op)} \ {suppressed}
          /\ request'[q].undone = {}
      BY DEF Asks, TypeOK
    <2>2. op.kind = "stop" BY <2>1
    <2>3. wanted = [f \in Flag |-> FALSE] /\ WantedSuppressed(op)
      BY <2>2 DEF WantedConsent, WantedSuppressed
    <2>4. Changed(wanted) = {f \in Flag : consent[f]} BY <2>3 DEF Changed, TypeOK
    <2>5. UNCHANGED <<consent, suppressed>> BY DEF Asks, record
    <2> HIDE DEF wanted
    <2> QED BY <2>1, <2>3, <2>4, <2>5 DEF Pending, Noted, TypeOK
  <1> QED BY <1>1, <1>2, <1>3

LEMMA LooksInv ==
    ASSUME IInv, NEW q \in Requester, Looks(q)
    PROVE  Kept' /\ \A r \in Requester : Pending(r)'
  <1> USE DEF IInv
  <1>1. Kept' BY DEF Looks, Kept, Noted, record
  <1>2. ASSUME NEW r \in Requester PROVE Pending(r)'
    <2>1. CASE r # q
      <3>1. request'[r] = request[r] BY <2>1 DEF Looks, TypeOK
      <3> QED BY <3>1 DEF Looks, Pending, Noted, record
    <2>2. CASE r = q
      <3>1. request[q] # Null /\ request[q] \in Work BY DEF Looks, TypeOK
      <3>2. /\ request'[q].reply = request[q].reply /\ request'[q].flags = request[q].flags
            /\ request'[q].listing = request[q].listing /\ request'[q].undone = request[q].undone
        BY <3>1 DEF Looks, TypeOK, Work
      <3> QED BY <2>2, <3>1, <3>2 DEF Looks, Pending, Noted, record
    <2> QED BY <2>1, <2>2
  <1> QED BY <1>1, <1>2

LEMMA CommitsInv ==
    ASSUME IInv, NEW q \in Requester, Commits(q)
    PROVE  Kept' /\ \A r \in Requester : Pending(r)'
  <1> USE DEF IInv
  <1> DEFINE asked == request[q]
  <1>1. /\ \A f \in Flag : consent'[f] => consent[f] \/ "consent" \in Released(asked)
        /\ suppressed => suppressed' \/ "listing" \in Released(asked)
    BY CommitReleases
  <1>2. \A r \in Requester : Pending(r)'
    BY <1>1, OverlappingPending DEF Commits
  <1>3. CASE asked.reply = "stop"
    <2>1. /\ \A f \in DOMAIN asked.flags : ~ asked.flags[f]
          /\ FALSE \notin asked.listing
          /\ Noted(DOMAIN asked.flags, TRUE \in asked.listing, asked.undone)
      BY <1>3 DEF Pending, Commits
    <2>2. undone' = asked.undone BY <1>3 DEF Commits
    <2>3. \A f \in Flag : consent'[f] => "consent" \in undone'
      BY <2>1, <2>2 DEF Commits, Noted
    <2>4. suppressed' \/ "listing" \in undone'
      <3>1. asked.listing \in SUBSET BOOLEAN BY DEF Commits, TypeOK, Work
      <3>2. suppressed' = IF asked.listing = {} THEN suppressed ELSE TRUE \in asked.listing BY DEF Commits
      <3> QED BY <2>1, <2>2, <3>1, <3>2 DEF Noted
    <2> QED BY <1>2, <2>3, <2>4 DEF Kept, Noted
  <1>4. CASE asked.reply # "stop"
    <2> SUFFICES ASSUME stopped' PROVE Noted({}, FALSE, undone)'
      BY <1>2 DEF Kept
    <2>1. stopped /\ undone' = undone \cup Released(asked) BY <1>4 DEF Commits
    <2> QED BY <1>1, <2>1 DEF Kept, Noted
  <1> QED BY <1>3, <1>4

LEMMA MakeContactableInv ==
    ASSUME IInv, NEW q \in Thread, MakeContactable(q)
    PROVE  Kept' /\ \A r \in Requester : Pending(r)'
  <1> USE DEF IInv
  <1>1. \A r \in Requester : Pending(r)'
    BY OverlappingPending DEF MakeContactable, Requester
  <1>2. Kept' BY DEF MakeContactable, Kept, Noted
  <1> QED BY <1>1, <1>2

LEMMA InvNext == IInv /\ [Next]_vars => IInv'
  <1> SUFFICES ASSUME IInv, [Next]_vars PROVE Kept' /\ \A r \in Requester : Pending(r)'
    BY TypeNext DEF IInv
  <1>1. ASSUME NEW q \in Requester, NEW op \in Op, Asks(q, op)
        PROVE  Kept' /\ \A r \in Requester : Pending(r)'
    BY <1>1, AsksInv
  <1>2. ASSUME NEW q \in Requester, Looks(q) PROVE Kept' /\ \A r \in Requester : Pending(r)'
    BY <1>2, LooksInv
  <1>3. ASSUME NEW q \in Requester, Commits(q) PROVE Kept' /\ \A r \in Requester : Pending(r)'
    BY <1>3, CommitsInv
  <1>4. ASSUME NEW q \in Requester, Fails(q) PROVE Kept' /\ \A r \in Requester : Pending(r)'
    BY <1>4 DEF Fails, IInv, TypeOK, Kept, Pending, Noted, record
  <1>5. ASSUME NEW q \in Thread, MakeContactable(q) PROVE Kept' /\ \A r \in Requester : Pending(r)'
    BY <1>5, MakeContactableInv
  <1>6. CASE UNCHANGED vars
    BY <1>6 DEF vars, record, IInv, Kept, Pending, Noted
  <1> QED BY <1>1, <1>2, <1>3, <1>4, <1>5, <1>6 DEF Next

LEMMA InvStopHolds == IInv => StopHolds
  <1> SUFFICES ASSUME IInv, stopped, NEW channel \in Channel, Contactable(channel)
               PROVE  undone = Release
    BY DEF StopHolds
  <1>1. ~ suppressed /\ consent[Marketing] BY DEF Contactable
  <1>2. "consent" \in undone /\ "listing" \in undone
    BY <1>1 DEF IInv, Kept, Noted, Flag
  <1> QED BY <1>2 DEF IInv, TypeOK, Release

---------------------------------------------------------------------------
(* The record keeps its types (every request of ConsentRecord). *)
THEOREM RecordTyped == Spec => []TypeOK
  <1> QED BY TypeInit, TypeNext, PTL DEF Spec

(* Nobody who said STOP is written to before they say START, or before both *)
(* the suppression is lifted and consent is granted after the STOP          *)
(* (apply_global_opt_out against every other writer).                       *)
THEOREM StopsHold == Spec => []StopHolds
  <1> QED BY InvInit, InvNext, InvStopHolds, PTL DEF Spec

---------------------------------------------------------------------------
(***************************************************************************)
(* Events are counted once.                                                *)
(*                                                                         *)
(* Every counter is read in one step and written in another. What the      *)
(* webhook alone counts is exact because nobody else writes it between     *)
(* (`Reporting`); what the run and the webhook both count may lose an      *)
(* increment and gains none, because the message the run is at has no      *)
(* event of the run yet (`Booked`, `Running`) and a report under way is    *)
(* not on record. An order is credited once because imports take it out of *)
(* what is to be imported before they look at it (`Importing`).            *)
(***************************************************************************)
\* Reports, the run and the imports are handled by different threads.
Threads == Webhook # Run /\ Webhook \notin Importer /\ Run \notin Importer

\* Finite records, and functions on what they are about.
Shapes ==
    /\ IsFiniteSet(events) /\ IsFiniteSet(records)
    /\ counted \in [E!Counter -> Nat]
    /\ DOMAIN threads = E!Writer /\ DOMAIN out = Message
    /\ DOMAIN recipient = Message
    /\ \A m \in Message : recipient[m] = [status |-> recipient[m].status, times |-> recipient[m].times]

\* Only a commit of the run makes a message's event of the run.
Booked == \A m \in Message, kind \in {"sent", "failed"} :
    <<m, kind, <<"run">>>> \in events => out[m] = "booked"

\* The orders that conversions are known of are on record.
Converted == \A e \in E!Of("conversion") : e[3][2] \in records

\* A report under way is not on record, and what only reports count is as it was read.
Reporting == threads[Webhook] # Null =>
    LET w == threads[Webhook] IN
    /\ w.msg \in Message /\ w.event = <<w.msg, w.event[2], w.event[3]>>
    /\ w.event[2] \in E!Kind /\ w.event[3] # <<"run">>
    /\ w.event \notin events
    /\ w.total \in Nat
    /\ w.event[2] \in {"delivered", "opened"} => w.total = counted[w.event[2]] + 1
    /\ w.event[2] = "sent" => w.total <= Cardinality(E!Of("sent")) + 1

\* The message the run deals with is in nobody's records yet.
Running == threads[Run] # Null =>
    LET w == threads[Run] IN
    /\ w.msg \in Message /\ out[w.msg] = "handed"
    /\ w.step = "commit" =>
         /\ w.kind \in {"sent", "failed"} /\ w.total \in Nat
         /\ w.kind = "sent" => w.total <= Cardinality(E!Of("sent")) + 1

\* An order under way is one that nobody else has taken, nor will.
Importing(i) == threads[i] # Null =>
    LET w == threads[i] IN
    /\ w.msg \in Message /\ w.order \notin pending \cup records
    /\ w.total \in Nat /\ w.total <= Cardinality(records) + 1
    /\ \A j \in Importer \ {i} : threads[j] # Null => threads[j].order # w.order

\* What E!CountedOnce says, counted with the Cardinality of FiniteSetTheorems.
Counts ==
    /\ \A kind \in {"delivered", "opened"} :
        /\ counted[kind] = Cardinality(E!Of(kind))
        /\ \A m \in Message : kind \in recipient[m].times <=> \E e \in E!Of(kind) : e[1] = m
    /\ counted["sent"] <= Cardinality(E!Of("sent"))
    /\ counted["conversions"] <= Cardinality(records)
    /\ Cardinality(E!Of("conversion")) = Cardinality(records)

CountInv ==
    /\ Shapes /\ Counts /\ Booked /\ Converted /\ Reporting /\ Running
    /\ \A i \in Importer : Importing(i)

---------------------------------------------------------------------------
\* What is counted are numbers.
LEMMA CountsAreNumbers ==
    ASSUME Shapes
    PROVE  /\ Cardinality(records) \in Nat
           /\ \A kind : IsFiniteSet(E!Of(kind)) /\ Cardinality(E!Of(kind)) \in Nat
           /\ \A c \in E!Counter : counted[c] \in Nat
  <1>1. \A kind : IsFiniteSet(E!Of(kind))
    BY FS_Subset DEF Shapes, E!Of
  <1> QED
    BY <1>1, FS_CardinalityType DEF Shapes

\* A new event is one more of its kind.
OfKind(S, kind) == {x \in S : x[2] = kind}

LEMMA OneMoreEvent ==
    ASSUME NEW S, IsFiniteSet(S), NEW e, e \notin S, NEW kind
    PROVE  Cardinality(OfKind(S \cup {e}, kind)) =
             Cardinality(OfKind(S, kind)) + IF e[2] = kind THEN 1 ELSE 0
  <1>1. IsFiniteSet(OfKind(S, kind))
    BY FS_Subset DEF OfKind
  <1>2. Cardinality(OfKind(S, kind)) \in Nat
    BY <1>1, FS_CardinalityType
  <1>3. CASE e[2] = kind
    <2>1. OfKind(S \cup {e}, kind) = OfKind(S, kind) \cup {e} /\ e \notin OfKind(S, kind)
      BY <1>3 DEF OfKind
    <2>2. Cardinality(OfKind(S, kind) \cup {e}) = Cardinality(OfKind(S, kind)) + 1
      BY <1>1, <2>1, FS_AddElement
    <2>3. Cardinality(OfKind(S \cup {e}, kind)) = Cardinality(OfKind(S, kind)) + 1
      BY <2>1, <2>2, Zenon
    <2> QED
      BY <1>3, <2>3
  <1>4. CASE e[2] # kind
    <2>1. OfKind(S \cup {e}, kind) = OfKind(S, kind)
      BY <1>4 DEF OfKind
    <2> QED
      BY <1>2, <1>4, <2>1
  <1> QED
    BY <1>3, <1>4

\* The same of what is on record.
LEMMA EventAdded ==
    ASSUME Shapes, NEW e, e \notin events, events' = events \cup {e}
    PROVE  /\ IsFiniteSet(events')
           /\ \A kind : Cardinality(E!Of(kind)') = Cardinality(E!Of(kind)) + IF e[2] = kind THEN 1 ELSE 0
           /\ \A kind : E!Of(kind)' = E!Of(kind) \cup {x \in {e} : x[2] = kind}
  <1>1. IsFiniteSet(events) /\ IsFiniteSet(events')
    BY FS_AddElement DEF Shapes
  <1>2. ASSUME NEW kind
        PROVE  Cardinality(E!Of(kind)') = Cardinality(E!Of(kind)) + IF e[2] = kind THEN 1 ELSE 0
    <2>1. E!Of(kind)' = OfKind(events \cup {e}, kind) /\ E!Of(kind) = OfKind(events, kind)
      BY DEF E!Of, OfKind
    <2>2. Cardinality(OfKind(events \cup {e}, kind)) =
            Cardinality(OfKind(events, kind)) + IF e[2] = kind THEN 1 ELSE 0
      BY <1>1, OneMoreEvent
    <2> QED
      BY <2>1, <2>2, Zenon
  <1> QED
    BY <1>1, <1>2 DEF E!Of

\* Without a new event, nothing is counted differently.
LEMMA EventsSame ==
    ASSUME UNCHANGED events PROVE \A kind : E!Of(kind)' = E!Of(kind)
  BY DEF E!Of

---------------------------------------------------------------------------
\* Before anything is sent nothing is counted.
LEMMA CountStarts == ASSUME E!Init PROVE CountInv
  <1>1. \A kind : E!Of(kind) = {}
    BY DEF E!Init, E!Of
  <1>2. Cardinality({}) = 0 /\ IsFiniteSet({})
    BY FS_EmptySet
  <1> QED
    BY <1>1, <1>2 DEF E!Init, CountInv, Shapes, Counts, Booked, Converted, Reporting, Running,
       Importing, E!Counter, E!Kind, E!Writer, E!Of

\* What a step does not touch.
LEMMA CountSame ==
    ASSUME CountInv, UNCHANGED <<events, counted, recipient, records>>
    PROVE  Counts' /\ Converted'
  BY EventsSame DEF CountInv, Counts, Converted

\* The run takes up a message nobody has recorded.
LEMMA RunSendsKeeps ==
    ASSUME CountInv, Threads, NEW m \in Message, E!RunSends(m) PROVE CountInv'
  <1> USE DEF CountInv
  <1>1. /\ UNCHANGED <<events, counted, recipient, records, pending>>
        /\ out' = [out EXCEPT ![m] = "handed"] /\ out[m] = "none"
        /\ threads'[Run] = [msg |-> m, step |-> "read"]
        /\ \A t \in E!Writer \ {Run} : threads'[t] = threads[t]
        /\ DOMAIN threads' = E!Writer
    BY DEF E!RunSends, Shapes, E!Writer
  <1>2. Shapes' BY <1>1 DEF Shapes
  <1>3. Booked' BY <1>1 DEF Booked, Shapes
  <1>4. Reporting' BY <1>1, EventsSame DEF Reporting, Threads, E!Writer
  <1>5. Running' BY <1>1 DEF Running, Shapes
  <1>6. \A i \in Importer : Importing(i)' BY <1>1 DEF Importing, Threads, E!Writer
  <1> QED BY <1>1, <1>2, <1>3, <1>4, <1>5, <1>6, CountSame

\* It reads the counter, which has counted no more than is on record.
LEMMA RunReadsKeeps ==
    ASSUME CountInv, Threads, NEW kind \in {"sent", "failed"}, E!RunReads(kind) PROVE CountInv'
  <1> USE DEF CountInv
  <1>1. /\ UNCHANGED <<out, events, counted, recipient, records, pending>> /\ threads[Run] # Null
        /\ threads'[Run] = [msg |-> threads[Run].msg, step |-> "commit", kind |-> kind,
                         total |-> counted[kind] + IF kind = "failed" THEN 2 ELSE 1]
        /\ \A t \in E!Writer \ {Run} : threads'[t] = threads[t]
        /\ DOMAIN threads' = E!Writer
    BY DEF E!RunReads, Shapes, E!Writer
  <1>2. Shapes' BY <1>1 DEF Shapes
  <1>3. Booked' BY <1>1 DEF Booked
  <1>4. Reporting' BY <1>1, EventsSame DEF Reporting, Threads, E!Writer
  <1>5. Running'
    <2>1. counted[kind] \in Nat /\ (kind = "sent" => counted[kind] <= Cardinality(E!Of("sent")))
      BY CountsAreNumbers DEF Counts, E!Counter, E!Kind
    <2>2. Cardinality(E!Of("sent")) \in Nat /\ Cardinality(E!Of("sent")') = Cardinality(E!Of("sent"))
      BY <1>1, CountsAreNumbers, EventsSame
    <2> QED BY <1>1, <2>1, <2>2 DEF Running
  <1>6. \A i \in Importer : Importing(i)' BY <1>1 DEF Importing, Threads, E!Writer
  <1> QED BY <1>1, <1>2, <1>3, <1>4, <1>5, <1>6, CountSame

\* It is lost.
LEMMA RunIsLostKeeps == ASSUME CountInv, Threads, E!RunIsLost PROVE CountInv'
  <1> USE DEF CountInv
  <1>1. /\ UNCHANGED <<out, events, counted, recipient, records, pending>>
        /\ threads'[Run] = Null
        /\ \A t \in E!Writer \ {Run} : threads'[t] = threads[t]
        /\ DOMAIN threads' = E!Writer
    BY DEF E!RunIsLost, Shapes, E!Writer
  <1>2. Shapes' BY <1>1 DEF Shapes
  <1>3. Booked' BY <1>1 DEF Booked
  <1>4. Reporting' BY <1>1, EventsSame DEF Reporting, Threads, E!Writer
  <1>5. Running' BY <1>1 DEF Running
  <1>6. \A i \in Importer : Importing(i)' BY <1>1 DEF Importing, Threads, E!Writer
  <1> QED BY <1>1, <1>2, <1>3, <1>4, <1>5, <1>6, CountSame

\* A report is read beside what the webhook alone counts.
LEMMA ReportsKeeps ==
    ASSUME CountInv, Threads, NEW m \in Message, NEW kind \in E!Kind, NEW timed \in BOOLEAN,
           E!Reports(m, kind, timed)
    PROVE  CountInv'
  <1> USE DEF CountInv
  <1>1. /\ UNCHANGED <<out, events, counted, recipient, records, pending>>
        /\ threads'[Webhook] =
            IF out[m] = "booked" /\ E!IsNew(E!Key(m, kind, timed))
            THEN [msg |-> m, event |-> E!Key(m, kind, timed), total |-> counted[kind] + 1,
                  status |-> {E!StatusAfter(kind, recipient[m].status)} \ {recipient[m].status}]
            ELSE Null
        /\ \A t \in E!Writer \ {Webhook} : threads'[t] = threads[t]
        /\ DOMAIN threads' = E!Writer
    BY DEF E!Reports, Shapes, E!Writer
  <1>2. Shapes' BY <1>1 DEF Shapes
  <1>3. Booked' BY <1>1 DEF Booked
  <1>4. Reporting'
    <2>1. /\ E!Key(m, kind, timed)[1] = m /\ E!Key(m, kind, timed)[2] = kind
          /\ E!Key(m, kind, timed) = <<m, kind, E!Key(m, kind, timed)[3]>>
          /\ E!Key(m, kind, timed)[3] # <<"run">>
      BY DEF E!Key
    <2>2. counted[kind] \in Nat /\ (kind = "sent" => counted[kind] <= Cardinality(E!Of("sent")))
      BY CountsAreNumbers DEF Counts, E!Counter, E!Kind
    <2>3. Cardinality(E!Of("sent")) \in Nat /\ Cardinality(E!Of("sent")') = Cardinality(E!Of("sent"))
      BY <1>1, CountsAreNumbers, EventsSame
    <2> QED BY <1>1, <2>1, <2>2, <2>3 DEF Reporting, E!IsNew
  <1>5. Running' BY <1>1, EventsSame DEF Running, Threads, E!Writer
  <1>6. \A i \in Importer : Importing(i)' BY <1>1 DEF Importing, Threads, E!Writer
  <1> QED BY <1>1, <1>2, <1>3, <1>4, <1>5, <1>6, CountSame

\* The run records its own event, which is new.
LEMMA RunCommitsKeeps == ASSUME CountInv, Threads, E!RunCommits PROVE CountInv'
  <1> USE DEF CountInv
  <1>20. PICK m \in Message, kind \in {"sent", "failed"}, total \in Nat :
          /\ threads[Run].msg = m /\ threads[Run].kind = kind /\ threads[Run].total = total
          /\ out[m] = "handed"
          /\ kind = "sent" => total <= Cardinality(E!Of("sent")) + 1
    BY DEF E!RunCommits, Running
  <1>21. PICK e : e = <<m, kind, <<"run">>>>
    OBVIOUS
  <1>1. /\ threads[Run].msg = m /\ threads[Run].kind = kind /\ threads[Run].total = total
        /\ e = <<m, kind, <<"run">>>>
        /\ out[m] = "handed"
        /\ kind = "sent" => total <= Cardinality(E!Of("sent")) + 1
    BY <1>20, <1>21
  <1>2. /\ out' = [out EXCEPT ![m] = "booked"]
        /\ events' = events \cup {e}
        /\ counted' = [counted EXCEPT ![kind] = total]
        /\ recipient' = [recipient EXCEPT ![m] =
              [status |-> IF kind = "sent" THEN "SENT" ELSE "FAILED", times |-> @.times \cup E!Timed(kind)]]
        /\ UNCHANGED <<records, pending>>
        /\ threads'[Run] = Null
        /\ \A t \in E!Writer \ {Run} : threads'[t] = threads[t]
        /\ DOMAIN threads' = E!Writer
    BY <1>1 DEF E!RunCommits, Shapes, E!Writer
  <1>3. e \notin events /\ e[1] = m /\ e[2] = kind /\ e[3] = <<"run">>
    BY <1>1 DEF Booked
  <1>4. /\ IsFiniteSet(events')
        /\ \A k : Cardinality(E!Of(k)') = Cardinality(E!Of(k)) + IF e[2] = k THEN 1 ELSE 0
        /\ \A k : E!Of(k)' = E!Of(k) \cup {x \in {e} : x[2] = k}
    BY <1>2, <1>3, EventAdded
  <1>5. Shapes' BY <1>1, <1>2, <1>4 DEF Shapes, E!Counter, E!Kind
  <1>6. Booked' BY <1>1, <1>2, <1>3 DEF Booked, Shapes
  <1>7. Converted' BY <1>2, <1>3, <1>4 DEF Converted
  <1>8. Running' BY <1>2 DEF Running
  <1>9. \A i \in Importer : Importing(i)' BY <1>2 DEF Importing, Threads, E!Writer
  <1>10. Reporting'
    <2>1. threads'[Webhook] = threads[Webhook]
      BY <1>2 DEF Threads, E!Writer
    <2>2. /\ counted'["delivered"] = counted["delivered"] /\ counted'["opened"] = counted["opened"]
      BY <1>2, <1>1 DEF Shapes, E!Counter, E!Kind
    <2>3. /\ Cardinality(E!Of("sent")) \in Nat /\ Cardinality(E!Of("sent")') \in Nat
          /\ Cardinality(E!Of("sent")') >= Cardinality(E!Of("sent"))
      BY <1>4, CountsAreNumbers
    <2>4. threads[Webhook] # Null => threads[Webhook].event # e
      BY <1>3 DEF Reporting
    <2> QED BY <1>2, <2>1, <2>2, <2>3, <2>4 DEF Reporting
  <1>11. Counts'
    <2>1. \A c \in E!Counter \ {kind} : counted'[c] = counted[c]
      BY <1>2, <1>1 DEF Shapes
    <2>2. \A k \in {"delivered", "opened", "conversion"} : Cardinality(E!Of(k)') = Cardinality(E!Of(k)) /\ E!Of(k)' = E!Of(k)
      BY <1>1, <1>3, <1>4, CountsAreNumbers
    <2>3. counted'["sent"] <= Cardinality(E!Of("sent")')
      <3>1. CASE kind = "sent"
        BY <1>1, <1>2, <1>3, <1>4, <3>1, CountsAreNumbers DEF Shapes, E!Counter, E!Kind
      <3>2. CASE kind = "failed"
        BY <1>3, <1>4, <2>1, <3>2, CountsAreNumbers DEF Counts, E!Counter, E!Kind
      <3> QED BY <3>1, <3>2
    <2>4. \A k \in {"delivered", "opened"}, p \in Message : k \in recipient'[p].times <=> k \in recipient[p].times
      BY <1>1, <1>2 DEF E!Timed, Shapes
    <2> QED BY <1>1, <1>2, <2>1, <2>2, <2>3, <2>4 DEF Counts, E!Counter, E!Kind
  <1> QED BY <1>5, <1>6, <1>7, <1>8, <1>9, <1>10, <1>11

\* A report is recorded, and nobody has recorded it meanwhile.
LEMMA WebhookCommitsKeeps == ASSUME CountInv, Threads, E!WebhookCommits PROVE CountInv'
  <1> USE DEF CountInv
  <1>20. PICK e : e = threads[Webhook].event
    OBVIOUS
  <1>1. PICK m \in Message, kind \in E!Kind, total \in Nat :
          /\ threads[Webhook].msg = m /\ threads[Webhook].total = total /\ threads[Webhook].event = e
          /\ e = <<m, kind, e[3]>> /\ e[3] # <<"run">> /\ e \notin events /\ e[2] = kind
          /\ kind \in {"delivered", "opened"} => total = counted[kind] + 1
          /\ kind = "sent" => total <= Cardinality(E!Of("sent")) + 1
    BY <1>20 DEF E!WebhookCommits, Reporting
  <1>2. /\ events' = events \cup {e}
        /\ counted' = [counted EXCEPT ![kind] = total]
        /\ UNCHANGED <<out, records, pending>>
        /\ threads'[Webhook] = Null
        /\ \A t \in E!Writer \ {Webhook} : threads'[t] = threads[t]
        /\ DOMAIN threads' = E!Writer
    BY <1>1 DEF E!WebhookCommits, Shapes, E!Writer
  <1>3. e[1] = m /\ e[2] = kind /\ e[3] # <<"run">> /\ e \notin events
    BY <1>1
  <1>12. PICK s : recipient' = [recipient EXCEPT ![m].status = s, ![m].times = @ \cup E!Timed(kind)]
    BY <1>1 DEF E!WebhookCommits
  <1>4. /\ IsFiniteSet(events')
        /\ \A k : Cardinality(E!Of(k)') = Cardinality(E!Of(k)) + IF e[2] = k THEN 1 ELSE 0
        /\ \A k : E!Of(k)' = E!Of(k) \cup {x \in {e} : x[2] = k}
    BY <1>2, <1>3, EventAdded
  <1>5. Shapes' BY <1>1, <1>2, <1>4, <1>12 DEF Shapes, E!Counter, E!Kind
  <1>6. Booked'
    <2> SUFFICES ASSUME NEW p \in Message, NEW k \in {"sent", "failed"}, <<p, k, <<"run">>>> \in events'
                 PROVE  out[p] = "booked"
      BY <1>2 DEF Booked
    <2>1. <<p, k, <<"run">>>> # e
      BY <1>3
    <2> QED BY <1>2, <2>1 DEF Booked
  <1>7. Converted' BY <1>2, <1>3, <1>4 DEF Converted, E!Kind
  <1>8. Running'
    <2>1. threads'[Run] = threads[Run]
      BY <1>2 DEF Threads, E!Writer
    <2>2. /\ Cardinality(E!Of("sent")) \in Nat /\ Cardinality(E!Of("sent")') \in Nat
          /\ Cardinality(E!Of("sent")') >= Cardinality(E!Of("sent"))
      BY <1>4, CountsAreNumbers
    <2> QED BY <1>2, <2>1, <2>2 DEF Running
  <1>9. \A i \in Importer : Importing(i)' BY <1>2 DEF Importing, Threads, E!Writer
  <1>10. Reporting' BY <1>2 DEF Reporting
  <1>11. Counts'
    <2>1. counted'[kind] = total /\ \A c \in E!Counter \ {kind} : counted'[c] = counted[c]
      BY <1>2, <1>1 DEF Shapes, E!Counter
    <2>2. /\ \A k : k # kind => Cardinality(E!Of(k)') = Cardinality(E!Of(k)) /\ E!Of(k)' = E!Of(k)
          /\ Cardinality(E!Of(kind)') = Cardinality(E!Of(kind)) + 1
          /\ E!Of(kind)' = E!Of(kind) \cup {e}
      BY <1>1, <1>3, <1>4, CountsAreNumbers
    <2>3. counted'["sent"] <= Cardinality(E!Of("sent")')
      <3>1. CASE kind = "sent"
        BY <1>1, <2>1, <2>2, <3>1, CountsAreNumbers
      <3>2. CASE kind # "sent"
        BY <2>1, <2>2, <3>2 DEF Counts, E!Counter, E!Kind
      <3> QED BY <3>1, <3>2
    <2>4. \A k \in {"delivered", "opened"} : counted'[k] = Cardinality(E!Of(k)')
      <3> SUFFICES ASSUME NEW k \in {"delivered", "opened"} PROVE counted'[k] = Cardinality(E!Of(k)')
        OBVIOUS
      <3>1. CASE kind = k
        BY <1>1, <2>1, <2>2, <3>1 DEF Counts
      <3>2. CASE kind # k
        BY <2>1, <2>2, <3>2 DEF Counts, E!Counter, E!Kind
      <3> QED BY <3>1, <3>2
    <2>5. \A k \in {"delivered", "opened"}, p \in Message :
            k \in recipient'[p].times <=> k \in recipient[p].times \/ (p = m /\ k = kind)
      <3>1. /\ recipient'[m].times = recipient[m].times \cup E!Timed(kind)
            /\ \A p \in Message \ {m} : recipient'[p] = recipient[p]
        BY <1>12 DEF Shapes
      <3> QED BY <1>1, <3>1 DEF E!Timed
    <2>6. \A k \in {"delivered", "opened"}, p \in Message :
            (\E x \in E!Of(k)' : x[1] = p) <=> (\E x \in E!Of(k) : x[1] = p) \/ (p = m /\ k = kind)
      BY <1>3, <2>2
    <2>7. counted'["conversions"] <= Cardinality(records') /\ Cardinality(E!Of("conversion")') = Cardinality(records')
      BY <1>2, <2>1, <2>2 DEF Counts, E!Counter, E!Kind
    <2> QED BY <2>3, <2>4, <2>5, <2>6, <2>7 DEF Counts
  <1> QED BY <1>5, <1>6, <1>7, <1>8, <1>9, <1>10, <1>11

\* An import takes an order, and nobody else has it.
LEMMA AttributesKeeps ==
    ASSUME CountInv, Threads, NEW i \in Importer, NEW o \in Order, NEW m \in Message, E!Attributes(i, o, m)
    PROVE  CountInv'
  <1> USE DEF CountInv
  <1>1. /\ UNCHANGED <<out, events, counted, recipient, records>>
        /\ o \in pending /\ pending' = pending \ {o}
        /\ threads'[i] = IF E!Touches(m) # {} /\ o \notin records
                      THEN [order |-> o, msg |-> m, total |-> counted["conversions"] + 1]
                      ELSE Null
        /\ \A t \in E!Writer \ {i} : threads'[t] = threads[t]
        /\ DOMAIN threads' = E!Writer
    BY DEF E!Attributes, Shapes, E!Writer
  <1>2. Shapes' BY <1>1 DEF Shapes
  <1>3. Booked' BY <1>1 DEF Booked
  <1>4. Reporting' BY <1>1, EventsSame DEF Reporting, Threads, E!Writer
  <1>5. Running' BY <1>1, EventsSame DEF Running, Threads, E!Writer
  <1>6. ASSUME NEW j \in Importer PROVE Importing(j)'
    <2>1. threads'[i] # Null =>
            /\ threads'[i].order = o /\ threads'[i].msg = m /\ o \notin records
            /\ threads'[i].total = counted["conversions"] + 1
      BY <1>1
    <2>2. /\ counted["conversions"] \in Nat /\ Cardinality(records) \in Nat
          /\ counted["conversions"] <= Cardinality(records)
      BY CountsAreNumbers DEF Counts, E!Counter
    <2>3. \A k \in Importer : threads[k] # Null => threads[k].order # o
      BY <1>1 DEF Importing
    <2> QED BY <1>1, <2>1, <2>2, <2>3 DEF Importing, E!Writer
  <1> QED BY <1>1, <1>2, <1>3, <1>4, <1>5, <1>6, CountSame

\* The order is credited.
LEMMA ImporterCommitsKeeps ==
    ASSUME CountInv, Threads, NEW i \in Importer, E!ImporterCommits(i) PROVE CountInv'
  <1> USE DEF CountInv
  <1>16. /\ threads[i].msg \in Message /\ threads[i].total \in Nat /\ threads[i].order \notin records
        /\ threads[i].total <= Cardinality(records) + 1
    BY DEF E!ImporterCommits, Importing
  <1>17. PICK m \in Message : threads[i].msg = m
    BY <1>16
  <1>18. PICK o : threads[i].order = o
    OBVIOUS
  <1>19. PICK total \in Nat : threads[i].total = total
    BY <1>16
  <1>1. /\ threads[i].msg = m /\ threads[i].order = o /\ threads[i].total = total
        /\ o \notin records /\ total <= Cardinality(records) + 1
    BY <1>16, <1>17, <1>18, <1>19
  <1>15. PICK e : e = <<m, "conversion", <<"order", o>>>>
    OBVIOUS
  <1>2. /\ records' = records \cup {o}
        /\ counted' = [counted EXCEPT !["conversions"] = total]
        /\ recipient' = [recipient EXCEPT ![m].status = "CONVERTED"]
        /\ events' = events \cup {e}
        /\ UNCHANGED <<out, pending>> /\ threads[i] # Null
        /\ threads'[i] = Null
        /\ \A t \in E!Writer \ {i} : threads'[t] = threads[t]
        /\ DOMAIN threads' = E!Writer
    BY <1>1, <1>15 DEF E!ImporterCommits, Shapes, E!Writer
  <1>3. e[1] = m /\ e[2] = "conversion" /\ e[3] = <<"order", o>> /\ e[3][2] = o /\ e \notin events
    BY <1>1, <1>15 DEF Converted, E!Of
  <1>4. /\ IsFiniteSet(events')
        /\ \A k : Cardinality(E!Of(k)') = Cardinality(E!Of(k)) + IF e[2] = k THEN 1 ELSE 0
        /\ \A k : E!Of(k)' = E!Of(k) \cup {x \in {e} : x[2] = k}
    BY <1>2, <1>3, EventAdded
  <1>5. /\ IsFiniteSet(records') /\ Cardinality(records') = Cardinality(records) + 1
        /\ Cardinality(records) \in Nat
    BY <1>1, <1>2, FS_AddElement, CountsAreNumbers DEF Shapes
  <1>6. Shapes' BY <1>1, <1>2, <1>4, <1>5 DEF Shapes, E!Counter
  <1>7. Booked'
    <2> SUFFICES ASSUME NEW p \in Message, NEW k \in {"sent", "failed"}, <<p, k, <<"run">>>> \in events'
                 PROVE  out[p] = "booked"
      BY <1>2 DEF Booked
    <2>1. <<p, k, <<"run">>>> # e
      BY <1>3
    <2> QED BY <1>2, <2>1 DEF Booked
  <1>8. Converted' BY <1>2, <1>3, <1>4 DEF Converted
  <1>9. \A k \in E!Kind : E!Of(k)' = E!Of(k)
    BY <1>3, <1>4 DEF E!Kind
  <1>10. \A c \in E!Kind : counted'[c] = counted[c]
    BY <1>2 DEF Shapes, E!Counter, E!Kind
  <1>11. Running' BY <1>2, <1>9 DEF Running, Threads, E!Writer, E!Kind
  <1>12. Reporting'
    <2>1. threads'[Webhook] = threads[Webhook]
      BY <1>2 DEF Threads, E!Writer
    <2>2. threads[Webhook] # Null => threads[Webhook].event # e
      BY <1>3 DEF Reporting, E!Kind
    <2> QED BY <1>2, <1>9, <1>10, <2>1, <2>2 DEF Reporting, E!Kind
  <1>13. ASSUME NEW j \in Importer PROVE Importing(j)'
    <2>1. CASE j = i BY <1>2, <2>1 DEF Importing
    <2>2. CASE j # i
      <3>1. threads'[j] = threads[j] /\ (threads[j] # Null => threads[j].order # o)
        BY <1>1, <1>2, <2>2 DEF Importing, E!Writer
      <3> QED BY <1>2, <1>5, <2>2, <3>1 DEF Importing, E!Writer
    <2> QED BY <2>1, <2>2
  <1>14. Counts'
    <2>1. \A p \in Message : recipient'[p].times = recipient[p].times
      BY <1>2 DEF Shapes
    <2>2. Cardinality(E!Of("conversion")') = Cardinality(E!Of("conversion")) + 1
      BY <1>3, <1>4
    <2>3. counted'["conversions"] = total
      BY <1>1, <1>2 DEF Shapes, E!Counter
    <2>4. counted'["conversions"] <= Cardinality(records') /\ Cardinality(E!Of("conversion")') = Cardinality(records')
      BY <1>1, <1>5, <2>2, <2>3 DEF Counts
    <2> QED BY <1>9, <1>10, <2>1, <2>4 DEF Counts, E!Kind
  <1> QED BY <1>6, <1>7, <1>8, <1>11, <1>12, <1>13, <1>14

\* Every step keeps the invariant.
LEMMA CountKept == ASSUME CountInv, Threads, [E!Next]_E!vars PROVE CountInv'
  <1>1. CASE UNCHANGED E!vars
    <2>1. UNCHANGED <<out, events, counted, recipient, records, threads, pending>>
      BY <1>1 DEF E!vars
    <2> QED
      BY <2>1, CountSame, EventsSame DEF CountInv, Shapes, Booked, Reporting, Running, Importing
  <1> QED
    BY <1>1, RunSendsKeeps, RunReadsKeeps, RunCommitsKeeps, RunIsLostKeeps, ReportsKeeps,
       WebhookCommitsKeeps, AttributesKeeps, ImporterCommitsKeeps
    DEF E!Next

\* The counters are those of the property.
LEMMA CountsIsCountedOnce == Counts <=> E!CountedOnce
  <1>1. \A S : E!Cardinality(S) = Cardinality(S)
    BY Zenon DEF E!Cardinality, Cardinality
  <1> QED
    BY <1>1, Zenon DEF Counts, E!CountedOnce

\* Whatever the run, the reports and the imports interleave to, for any messages
\* and orders: what the webhook alone counts is exact, what threads share counts
\* nothing twice, and an order is credited once.
THEOREM EventsCountOnce == E!Spec => []E!CountedOnce
  <1>1. Threads
    BY RecordsAssumption DEF Threads
  <1>2. E!Init => CountInv
    BY CountStarts
  <1>3. CountInv /\ [E!Next]_E!vars => CountInv'
    BY <1>1, CountKept
  <1>4. CountInv => E!CountedOnce
    BY CountsIsCountedOnce DEF CountInv
  <1> QED
    BY <1>2, <1>3, <1>4, PTL DEF E!Spec

---------------------------------------------------------------------------
(***************************************************************************)
(* What the record of a message says is about the words it shows: `Modest`,*)
(* no request writes SENT and none but an edit writes copy; `Agrees`, what *)
(* somebody loaded is what the row says, in all they rely on; `Fresh`,     *)
(* both of every session.                                                  *)
(***************************************************************************)
\* The run is nobody of the operators, and no row is mistaken for no row.
DraftsNamed == Run \notin Operator /\ Null \notin D!Row /\ MaxRules \in Nat

---------------------------------------------------------------------------
(* The inductive invariant. *)

\* What requests never write, whatever they read.
Modest(w) ==
    /\ w.op \in {"edit", "agree"} => "SENT" \notin w.status
    /\ w.op \in {"validate", "approve", "reject"} => w.copy = {} /\ "SENT" \notin w.status

\* What somebody loaded of a row that is still as they found it.
Agrees(w, r, given) ==
    /\ w.op \in {"hand", "book"} => w.copy = r.copy
    /\ w.op = "book" => given = r.copy
    /\ w.op = "edit" => r.status # "SENT" /\ (w.withdraws \/ r.approver = Null)
    /\ w.op = "approve" => w.seen \in {r.copy, Null}
    /\ w.op = "agree" => w.seen = r.copy

Fresh(p) == session[p] # Null =>
    LET m == session[p].msg IN
    /\ row[m] # Null
    /\ session[p].op \notin {"hand", "book"} => Modest(session[p])
    /\ m \notin crossed => Agrees(session[p], row[m], handed[m])

DraftInv == D!TypeOK /\ D!DraftsAreTrue /\ \A p \in Operator \cup {Run} : Fresh(p)

---------------------------------------------------------------------------
(* Helpers. *)

LEMMA ValueOfColumn ==
    ASSUME NEW column, NEW now
    PROVE  /\ column = {} => D!Value(column, now) = now
           /\ column # {} => D!Value(column, now) \in column
BY DEF D!Value

LEMMA RevalidatedStatus ==
    ASSUME NEW got \in D!Row
    PROVE  /\ D!Another(D!Revalidated(got), got.status) \subseteq D!Status
           /\ "SENT" \notin D!Another(D!Revalidated(got), got.status)
BY DEF D!Revalidated, D!Another, D!Row, D!Status

LEMMA ValidatingWork ==
    ASSUME NEW m \in Draft, NEW got \in D!Row, NEW given, NEW op \in {"validate", "approve"}
    PROVE  /\ D!Validating(op, m, got) \in D!Request
           /\ D!Validating(op, m, got).msg = m /\ D!Validating(op, m, got).op = op
           /\ Modest(D!Validating(op, m, got))
           /\ Agrees(D!Validating(op, m, got), got, given)
  <1>1. got.copy \in Copy BY DEF D!Row
  <1> QED BY <1>1, RevalidatedStatus DEF D!Validating, D!Request, Modest, Agrees

LEMMA EditingWork ==
    ASSUME NEW m \in Draft, NEW got \in D!Row, NEW given, NEW copy \in Copy, got.status # "SENT"
    PROVE  /\ D!Editing(m, got, copy) \in D!Request
           /\ D!Editing(m, got, copy).msg = m /\ D!Editing(m, got, copy).op = "edit"
           /\ Modest(D!Editing(m, got, copy))
           /\ Agrees(D!Editing(m, got, copy), got, given)
  <1>1. D!Another(copy, got.copy) \subseteq Copy BY DEF D!Another
  <1>2. (got.approver # Null) \in BOOLEAN OBVIOUS
  <1> QED BY <1>1, <1>2 DEF D!Editing, D!Request, Modest, Agrees

LEMMA RejectingWork ==
    ASSUME NEW m \in Draft, NEW got \in D!Row, NEW given
    PROVE  /\ D!Rejecting(m, got) \in D!Request
           /\ D!Rejecting(m, got).msg = m /\ D!Rejecting(m, got).op = "reject"
           /\ Modest(D!Rejecting(m, got))
           /\ Agrees(D!Rejecting(m, got), got, given)
  <1>1. D!Another("REJECTED", got.status) \subseteq D!Status /\ "SENT" \notin D!Another("REJECTED", got.status)
    BY DEF D!Another, D!Status
  <1>2. (got.approver # Null) \in BOOLEAN OBVIOUS
  <1> QED BY <1>1, <1>2 DEF D!Rejecting, D!Request, Modest, Agrees

\* A row that a request updates.
LEMMA UpdatedRow ==
    ASSUME NEW w \in D!Request, row[w.msg] \in D!Row
    PROVE  /\ D!Updated(w) \in D!Row
           /\ D!Updated(w).status = D!Value(w.status, row[w.msg].status)
           /\ D!Updated(w).copy = D!Value(w.copy, row[w.msg].copy)
           /\ D!Updated(w).approver = IF w.withdraws THEN Null ELSE row[w.msg].approver
  <1> DEFINE r == row[w.msg]
  <1>1. r.status \in D!Status /\ r.copy \in Copy /\ r.approver \in Operator \cup {Null} BY DEF D!Row
  <1>2. w.status \subseteq D!Status /\ w.copy \subseteq Copy BY DEF D!Request
  <1>3. D!Value(w.status, r.status) \in D!Status /\ D!Value(w.copy, r.copy) \in Copy
    BY <1>1, <1>2, ValueOfColumn
  <1>4. D!Updated(w) = [r EXCEPT !.status = D!Value(w.status, r.status), !.copy = D!Value(w.copy, r.copy),
                               !.approver = IF w.withdraws THEN Null ELSE r.approver]
    BY DEF D!Updated, D!Row
  <1> QED BY <1>1, <1>3, <1>4 DEF D!Row

---------------------------------------------------------------------------
(* Whoever does not take the step keeps what they loaded, or finds it crossed. *)

LEMMA OthersFresh ==
    ASSUME D!TypeOK, NEW p \in Operator \cup {Run}, NEW m \in Draft,
           \A r \in Operator \cup {Run} : Fresh(r),
           \A r \in (Operator \cup {Run}) \ {p} : session'[r] = session[r],
           \A n \in Draft \ {m} : row'[n] = row[n] /\ handed'[n] = handed[n],
           row[m] # Null => row'[m] # Null,
           crossed \subseteq crossed',
           D!Others(p, m) => m \in crossed' \/ (row'[m] = row[m] /\ handed'[m] = handed[m])
    PROVE  \A r \in (Operator \cup {Run}) \ {p} : Fresh(r)'
  <1> SUFFICES ASSUME NEW r \in (Operator \cup {Run}) \ {p}, session[r] # Null PROVE Fresh(r)'
    BY DEF Fresh
  <1>1. session[r].msg \in Draft BY DEF D!TypeOK, D!RunWork, D!Request
  <1>2. Fresh(r) /\ session'[r] = session[r] OBVIOUS
  <1>3. CASE session[r].msg # m
    BY <1>1, <1>2, <1>3 DEF Fresh
  <1>4. CASE session[r].msg = m
    <2>1. DOMAIN session = Operator \cup {Run} BY DEF D!TypeOK
    <2>2. D!Others(p, m) BY <1>4, <2>1 DEF D!Others
    <2> QED BY <1>2, <1>4, <2>2 DEF Fresh
  <1> QED BY <1>3, <1>4

---------------------------------------------------------------------------
(* The steps. *)

LEMMA DraftsStart == ASSUME DraftsNamed, D!Init PROVE DraftInv
  <1>1. D!TypeOK BY DEF D!Init, D!TypeOK, DraftsNamed
  <1>2. D!DraftsAreTrue BY DEF D!Init, D!DraftsAreTrue, D!ApprovalIsOfCopy, D!SentIsOnRecord
  <1>3. \A p \in Operator \cup {Run} : Fresh(p) BY DEF D!Init, Fresh
  <1> QED BY <1>1, <1>2, <1>3 DEF DraftInv

LEMMA NewRow ==
    ASSUME NEW copy \in Copy
    PROVE  /\ D!New(copy, D!Checked(copy)) \in D!Row
           /\ D!New(copy, D!Checked(copy)).approver = Null
           /\ D!New(copy, D!Checked(copy)).status # "SENT"
           /\ D!New(copy, D!Checked(copy)).copy = copy
BY DEF D!New, D!Checked, D!Row, D!Status

\* A new row, for an operator or for the run.
LEMMA NewTrue ==
    ASSUME DraftInv, NEW m \in Draft, NEW copy \in Copy,
           row' = [row EXCEPT ![m] = D!New(copy, D!Checked(copy))], UNCHANGED D!history
    PROVE  D!DraftsAreTrue'
  <1>1. row'[m] = D!New(copy, D!Checked(copy)) /\ \A n \in Draft \ {m} : row'[n] = row[n]
    BY DEF DraftInv, D!TypeOK
  <1> QED BY <1>1, NewRow DEF DraftInv, D!DraftsAreTrue, D!ApprovalIsOfCopy, D!SentIsOnRecord, D!history

LEMMA GenerateInv ==
    ASSUME DraftsNamed, DraftInv, NEW m \in Draft, NEW copy \in Copy, D!Generate(m, copy) PROVE DraftInv'
  <1> USE DEF DraftInv
  <1>1. D!TypeOK' BY NewRow DEF D!Generate, D!TypeOK, D!history
  <1>2. D!DraftsAreTrue' BY NewTrue DEF D!Generate
  <1>3. ASSUME NEW p \in Operator \cup {Run}, session[p] # Null PROVE Fresh(p)'
    <2>1. session[p].msg # m BY <1>3 DEF Fresh, D!Generate
    <2>2. session[p].msg \in Draft BY <1>3 DEF D!TypeOK, D!RunWork, D!Request
    <2> QED BY <1>3, <2>1, <2>2 DEF Fresh, D!Generate, D!history, D!TypeOK
  <1>4. ASSUME NEW p \in Operator \cup {Run}, session[p] = Null PROVE Fresh(p)'
    BY <1>4 DEF Fresh, D!Generate
  <1> QED BY <1>1, <1>2, <1>3, <1>4

LEMMA RunGeneratesInv ==
    ASSUME DraftsNamed, DraftInv, NEW m \in Draft, NEW copy \in Copy, D!RunGenerates(m, copy) PROVE DraftInv'
  <1> USE DEF DraftInv
  <1> DEFINE planned == [msg |-> m, op |-> "hand", copy |-> copy]
  <1>1. /\ session'[Run] = IF copy \in rules THEN planned ELSE Null
        /\ \A o \in Operator : session'[o] = session[o]
        /\ session' = [p \in Operator \cup {Run} |-> session'[p]]
    BY DEF D!RunGenerates, D!TypeOK, DraftsNamed
  <1>2. planned \in D!RunWork BY DEF D!RunWork
  <1>3. row' \in [Draft -> D!Row \cup {Null}] BY NewRow DEF D!RunGenerates, D!TypeOK
  <1>4. D!TypeOK' BY <1>1, <1>2, <1>3 DEF D!RunGenerates, D!TypeOK, D!history
  <1>5. D!DraftsAreTrue' BY NewTrue DEF D!RunGenerates
  <1>6. row'[m] = D!New(copy, D!Checked(copy)) BY DEF D!RunGenerates, D!TypeOK
  <1>7. row'[m] # Null BY <1>6, NewRow DEF DraftsNamed
  <1>8. Fresh(Run)' BY <1>1, <1>6, <1>7, NewRow DEF Fresh, Agrees
  <1>9. ~ D!Others(Run, m) BY DEF D!Others, D!RunGenerates, Fresh, D!TypeOK
  <1>10. \A r \in (Operator \cup {Run}) \ {Run} : Fresh(r)'
    BY <1>1, <1>7, <1>9, OthersFresh DEF D!RunGenerates, D!TypeOK, D!history
  <1> QED BY <1>4, <1>5, <1>8, <1>10

LEMMA RunHandsInv == ASSUME DraftsNamed, DraftInv, D!RunHands PROVE DraftInv'
  <1> USE DEF DraftInv
  <1> DEFINE w == session[Run]
             m == w.msg
  <1>1. w \in D!RunWork /\ w.op = "hand" BY DEF D!RunHands, D!TypeOK
  <1>2. m \in Draft /\ w.copy \in Copy BY <1>1 DEF D!RunWork
  <1>3. /\ session'[Run] = [w EXCEPT !.op = "book"]
        /\ \A o \in Operator : session'[o] = session[o]
        /\ session' = [p \in Operator \cup {Run} |-> session'[p]]
    BY DEF D!RunHands, D!TypeOK, DraftsNamed
  <1>4. [w EXCEPT !.op = "book"] \in D!RunWork BY <1>1 DEF D!RunWork
  <1>5. handed' = [handed EXCEPT ![m] = w.copy] BY DEF D!RunHands
  <1>6. handed'[m] = w.copy /\ \A n \in Draft \ {m} : handed'[n] = handed[n]
    BY <1>2, <1>5 DEF D!TypeOK
  <1>7. UNCHANGED <<row, rules, changes, agreed, crossed>> BY DEF D!RunHands
  <1>8. D!TypeOK' BY <1>2, <1>3, <1>4, <1>5, <1>7 DEF D!TypeOK
  <1>9. Fresh(Run) /\ w # Null BY DEF D!RunHands
  <1>10. row[m] # Null /\ (m \notin crossed => w.copy = row[m].copy) BY <1>1, <1>9 DEF Fresh, Agrees
  <1>11. D!DraftsAreTrue'
    BY <1>6, <1>7, <1>10 DEF D!DraftsAreTrue, D!ApprovalIsOfCopy, D!SentIsOnRecord
  <1>12. Fresh(Run)' BY <1>1, <1>3, <1>6, <1>7, <1>10 DEF Fresh, Agrees, D!RunWork
  <1>13. ASSUME NEW o \in Operator, session[o] # Null PROVE Fresh(o)'
    <2>1. session[o] \in D!Request BY <1>13 DEF D!TypeOK
    <2>2. session[o].op \notin {"hand", "book"} BY <2>1 DEF D!Request
    <2>3. Fresh(o) OBVIOUS
    <2> QED BY <1>3, <1>7, <2>2, <2>3 DEF Fresh, Agrees
  <1>14. ASSUME NEW o \in Operator, session[o] = Null PROVE Fresh(o)'
    BY <1>3, <1>14 DEF Fresh
  <1> QED BY <1>8, <1>11, <1>12, <1>13, <1>14

LEMMA RunBooksInv == ASSUME DraftsNamed, DraftInv, D!RunBooks PROVE DraftInv'
  <1> USE DEF DraftInv
  <1> DEFINE w == session[Run]
             m == w.msg
  <1>1. w \in D!RunWork /\ w.op = "book" BY DEF D!RunBooks, D!TypeOK
  <1>2. m \in Draft BY <1>1 DEF D!RunWork
  <1>3. /\ session'[Run] = Null
        /\ \A o \in Operator : session'[o] = session[o]
        /\ session' = [p \in Operator \cup {Run} |-> session'[p]]
    BY DEF D!RunBooks, D!TypeOK, DraftsNamed
  <1>4. Fresh(Run) /\ w # Null BY DEF D!RunBooks
  <1>5. row[m] \in D!Row BY <1>1, <1>2, <1>4 DEF Fresh, D!TypeOK
  <1>6. m \notin crossed => handed[m] = row[m].copy BY <1>1, <1>4 DEF Fresh, Agrees
  <1>7. PICK outcome \in {"SENT", "FAILED"} : row' = [row EXCEPT ![m].status = outcome]
    BY DEF D!RunBooks
  <1>8. row'[m] = [row[m] EXCEPT !.status = outcome] /\ \A n \in Draft \ {m} : row'[n] = row[n]
    BY <1>2, <1>7 DEF D!TypeOK
  <1>9. row'[m] \in D!Row /\ row'[m].copy = row[m].copy /\ row'[m].approver = row[m].approver
    BY <1>5, <1>8 DEF D!Row, D!Status
  <1>10. row' \in [Draft -> D!Row \cup {Null}] BY <1>2, <1>7, <1>8, <1>9 DEF D!TypeOK
  <1>11. crossed' = IF D!Others(Run, m) THEN crossed \cup {m} ELSE crossed BY DEF D!RunBooks, D!Crossing
  <1>12. UNCHANGED <<rules, changes, agreed, handed>> BY DEF D!RunBooks
  <1>13. D!TypeOK' BY <1>2, <1>3, <1>10, <1>11, <1>12 DEF D!TypeOK
  <1>14. D!DraftsAreTrue'
    BY <1>5, <1>6, <1>8, <1>9, <1>11, <1>12 DEF D!DraftsAreTrue, D!ApprovalIsOfCopy, D!SentIsOnRecord, DraftsNamed
  <1>15. row'[m] # Null BY <1>9 DEF DraftsNamed
  <1>16. \A r \in (Operator \cup {Run}) \ {Run} : Fresh(r)'
    BY <1>2, <1>3, <1>8, <1>11, <1>12, <1>15, OthersFresh
  <1>17. Fresh(Run)' BY <1>3 DEF Fresh
  <1> QED BY <1>13, <1>14, <1>16, <1>17

LEMMA RunIsLostInv == ASSUME DraftsNamed, DraftInv, D!RunIsLost PROVE DraftInv'
  <1> USE DEF DraftInv
  <1>1. /\ session'[Run] = Null
        /\ \A o \in Operator : session'[o] = session[o]
        /\ session' = [p \in Operator \cup {Run} |-> session'[p]]
    BY DEF D!RunIsLost, D!TypeOK, DraftsNamed
  <1>2. UNCHANGED <<row, rules, changes, agreed, crossed, handed>> BY DEF D!RunIsLost, D!history
  <1>3. D!TypeOK' BY <1>1, <1>2 DEF D!TypeOK
  <1>4. D!DraftsAreTrue' BY <1>2 DEF D!DraftsAreTrue, D!ApprovalIsOfCopy, D!SentIsOnRecord
  <1>5. ASSUME NEW p \in Operator \cup {Run} PROVE Fresh(p)'
    BY <1>1, <1>2 DEF Fresh
  <1> QED BY <1>3, <1>4, <1>5

\* A request that has loaded the row.
LEMMA LoadsInv ==
    ASSUME DraftsNamed, DraftInv, NEW o \in Operator, NEW m \in Draft, NEW w \in D!Request,
           D!Loads(o, m, w), w.msg = m, w.op \notin {"hand", "book"},
           Modest(w), Agrees(w, row[m], handed[m])
    PROVE  DraftInv'
  <1> USE DEF DraftInv
  <1>1. /\ session'[o] = w
        /\ \A p \in (Operator \cup {Run}) \ {o} : session'[p] = session[p]
        /\ session' = [p \in Operator \cup {Run} |-> session'[p]]
    BY DEF D!Loads, D!TypeOK
  <1>2. UNCHANGED <<row, rules, changes, agreed, crossed, handed>> /\ row[m] # Null
    BY DEF D!Loads, D!history
  <1>3. D!TypeOK' BY <1>1, <1>2 DEF D!TypeOK, DraftsNamed
  <1>4. D!DraftsAreTrue' BY <1>2 DEF D!DraftsAreTrue, D!ApprovalIsOfCopy, D!SentIsOnRecord
  <1>5. Fresh(o)' BY <1>1, <1>2 DEF Fresh
  <1>6. ASSUME NEW p \in (Operator \cup {Run}) \ {o} PROVE Fresh(p)'
    BY <1>1, <1>2 DEF Fresh
  <1> QED BY <1>3, <1>4, <1>5, <1>6

LEMMA DraftCommitsInv == ASSUME DraftsNamed, DraftInv, NEW o \in Operator, D!Commits(o) PROVE DraftInv'
  <1> USE DEF DraftInv
  <1> DEFINE w == session[o]
             m == w.msg
  <1>1. w \in D!Request /\ w # Null /\ w.op # "agree" BY DEF D!Commits, D!TypeOK
  <1>2. m \in Draft /\ w.op \in {"edit", "validate", "approve", "reject"} BY <1>1 DEF D!Request
  <1>3. Fresh(o) OBVIOUS
  <1>4. Modest(w) /\ (m \notin crossed => Agrees(w, row[m], handed[m])) /\ row[m] # Null
    BY <1>1, <1>2, <1>3 DEF Fresh
  <1>5. row[m] \in D!Row BY <1>2, <1>4 DEF D!TypeOK
  <1> DEFINE u == D!Updated(w)
             next == CASE w.op = "edit" -> D!Validating("validate", m, u)
                       [] w.op = "approve" /\ w.seen # Null -> [w EXCEPT !.op = "agree"]
                       [] OTHER -> Null
  <1>6. /\ u \in D!Row
        /\ u.status = D!Value(w.status, row[m].status)
        /\ u.copy = D!Value(w.copy, row[m].copy)
        /\ u.approver = IF w.withdraws THEN Null ELSE row[m].approver
    BY <1>1, <1>5, UpdatedRow
  <1>7. /\ row' = [row EXCEPT ![m] = u]
        /\ session' = [session EXCEPT ![o] = next]
        /\ crossed' = IF D!Others(o, m) THEN crossed \cup {m} ELSE crossed
        /\ UNCHANGED <<rules, changes, agreed, handed>>
    BY DEF D!Commits, D!Crossing
  <1> HIDE DEF u, next
  <1>8. row'[m] = u /\ (\A n \in Draft \ {m} : row'[n] = row[n]) /\ row' \in [Draft -> D!Row \cup {Null}]
    BY <1>2, <1>6, <1>7 DEF D!TypeOK
  <1>9. /\ session'[o] = next
        /\ \A p \in (Operator \cup {Run}) \ {o} : session'[p] = session[p]
        /\ session' = [p \in Operator \cup {Run} |-> session'[p]]
    BY <1>7 DEF D!TypeOK
  <1>10. w.op # "edit" => u.copy = row[m].copy
    BY <1>2, <1>4, <1>6, ValueOfColumn DEF Modest
  <1>11. u.status = "SENT" => row[m].status = "SENT"
    <2>1. "SENT" \notin w.status BY <1>2, <1>4 DEF Modest
    <2>2. u.status = row[m].status \/ u.status \in w.status BY <1>6, ValueOfColumn
    <2> QED BY <2>1, <2>2
  <1>12. CASE w.op = "edit"
    <2>1. next = D!Validating("validate", m, u) BY <1>12 DEF next
    <2>2. /\ next \in D!Request /\ next.msg = m /\ next.op = "validate"
          /\ Modest(next) /\ Agrees(next, u, handed[m])
      BY <1>2, <1>6, <2>1, ValidatingWork
    <2>3. D!TypeOK' BY <1>2, <1>7, <1>8, <1>9, <2>2 DEF D!TypeOK, DraftsNamed
    <2>4. m \notin crossed => u.approver = Null /\ u.status # "SENT"
      BY <1>4, <1>6, <1>11, <1>12 DEF Agrees
    <2>5. D!DraftsAreTrue'
      BY <1>7, <1>8, <2>4 DEF D!DraftsAreTrue, D!ApprovalIsOfCopy, D!SentIsOnRecord
    <2>6. Fresh(o)' BY <1>6, <1>7, <1>8, <1>9, <2>2 DEF Fresh, DraftsNamed
    <2>7. \A p \in (Operator \cup {Run}) \ {o} : Fresh(p)'
      BY <1>2, <1>6, <1>7, <1>8, <1>9, OthersFresh DEF DraftsNamed
    <2> QED BY <2>3, <2>5, <2>6, <2>7
  <1>13. CASE w.op # "edit"
    <2>1. \/ next = Null
          \/ /\ w.op = "approve" /\ w.seen # Null
             /\ next = [w EXCEPT !.op = "agree"]
      BY <1>13 DEF next
    <2>2. next # Null =>
             /\ next \in D!Request /\ next.msg = m /\ next.op = "agree"
             /\ next.seen = w.seen /\ next.status = w.status
      BY <1>1, <2>1 DEF D!Request
    <2>3. D!TypeOK' BY <1>2, <1>7, <1>8, <1>9, <2>2 DEF D!TypeOK, DraftsNamed
    <2>4. D!DraftsAreTrue'
      <3>1. u.copy = row[m].copy /\ (u.approver # Null => u.approver = row[m].approver)
        BY <1>6, <1>10, <1>13
      <3>2. \A n \in Draft \ crossed' : n \notin crossed BY <1>7
      <3>3. D!ApprovalIsOfCopy'
        BY <1>4, <1>7, <1>8, <3>1, <3>2 DEF D!DraftsAreTrue, D!ApprovalIsOfCopy
      <3>4. D!SentIsOnRecord'
        BY <1>4, <1>7, <1>8, <1>11, <3>1, <3>2 DEF D!DraftsAreTrue, D!SentIsOnRecord
      <3> QED BY <3>3, <3>4 DEF D!DraftsAreTrue
    <2>5. m \notin crossed /\ next # Null => next.seen = u.copy
      BY <1>4, <1>10, <1>13, <2>1, <2>2 DEF Agrees
    <2>6. next # Null => "SENT" \notin next.status
      BY <1>4, <2>1, <2>2 DEF Modest
    <2>7. Fresh(o)'
      BY <1>6, <1>7, <1>8, <1>9, <2>2, <2>5, <2>6 DEF Fresh, Modest, Agrees, DraftsNamed
    <2>8. \A p \in (Operator \cup {Run}) \ {o} : Fresh(p)'
      BY <1>2, <1>6, <1>7, <1>8, <1>9, OthersFresh DEF DraftsNamed
    <2> QED BY <2>3, <2>4, <2>7, <2>8
  <1> QED BY <1>12, <1>13

LEMMA CommitsApprovalInv == ASSUME DraftsNamed, DraftInv, NEW o \in Operator, D!CommitsApproval(o) PROVE DraftInv'
  <1> USE DEF DraftInv
  <1> DEFINE w == session[o]
             m == w.msg
             u == [row[m] EXCEPT !.status = "APPROVED", !.approver = o]
  <1>1. w \in D!Request /\ w # Null /\ w.op = "agree" BY DEF D!CommitsApproval, D!TypeOK
  <1>2. m \in Draft /\ w.seen \in Copy \cup {Null} BY <1>1 DEF D!Request
  <1>3. Fresh(o) OBVIOUS
  <1>4. row[m] # Null /\ (m \notin crossed => w.seen = row[m].copy)
    BY <1>1, <1>3 DEF Fresh, Agrees
  <1>5. row[m] \in D!Row BY <1>2, <1>4 DEF D!TypeOK
  <1>6. u \in D!Row /\ u.status = "APPROVED" /\ u.copy = row[m].copy BY <1>5 DEF D!Row, D!Status
  <1>7. /\ agreed' = [agreed EXCEPT ![m] = w.seen]
        /\ session' = [session EXCEPT ![o] = Null]
        /\ crossed' = IF D!Others(o, m) THEN crossed \cup {m} ELSE crossed
        /\ UNCHANGED <<rules, changes, handed>>
    BY DEF D!CommitsApproval, D!Crossing
  <1>8. row'[m] = u /\ (\A n \in Draft \ {m} : row'[n] = row[n]) /\ row' = [n \in Draft |-> row'[n]]
    BY <1>2 DEF D!CommitsApproval, D!TypeOK
  <1> HIDE DEF u
  <1>9. row' \in [Draft -> D!Row \cup {Null}] BY <1>6, <1>8 DEF D!TypeOK
  <1>10. /\ session'[o] = Null
         /\ \A p \in (Operator \cup {Run}) \ {o} : session'[p] = session[p]
         /\ session' = [p \in Operator \cup {Run} |-> session'[p]]
    BY <1>7 DEF D!TypeOK
  <1>11. D!TypeOK' BY <1>2, <1>7, <1>9, <1>10 DEF D!TypeOK, DraftsNamed
  <1>12. agreed'[m] = w.seen /\ \A n \in Draft \ {m} : agreed'[n] = agreed[n]
    BY <1>2, <1>7 DEF D!TypeOK
  <1>13. D!DraftsAreTrue'
    BY <1>4, <1>6, <1>7, <1>8, <1>12 DEF D!DraftsAreTrue, D!ApprovalIsOfCopy, D!SentIsOnRecord
  <1>14. Fresh(o)' BY <1>10 DEF Fresh
  <1>15. \A p \in (Operator \cup {Run}) \ {o} : Fresh(p)'
    BY <1>2, <1>6, <1>7, <1>8, <1>10, OthersFresh DEF DraftsNamed
  <1> QED BY <1>11, <1>13, <1>14, <1>15

LEMMA ChangeRulesInv == ASSUME DraftsNamed, DraftInv, NEW new \in SUBSET Copy, D!ChangeRules(new) PROVE DraftInv'
  <1> USE DEF DraftInv
  <1>1. D!TypeOK' BY DEF D!ChangeRules, D!TypeOK, D!history, DraftsNamed
  <1>2. D!DraftsAreTrue' BY DEF D!ChangeRules, D!history, D!DraftsAreTrue, D!ApprovalIsOfCopy, D!SentIsOnRecord
  <1>3. \A p \in Operator \cup {Run} : Fresh(p)' BY DEF D!ChangeRules, D!history, Fresh
  <1> QED BY <1>1, <1>2, <1>3

LEMMA DraftsKept == ASSUME DraftsNamed, DraftInv, [D!Next]_D!vars PROVE DraftInv'
  <1>1. ASSUME NEW m \in Draft, NEW c \in Copy, D!Generate(m, c) PROVE DraftInv'
    BY <1>1, GenerateInv
  <1>2. ASSUME NEW m \in Draft, NEW c \in Copy, D!RunGenerates(m, c) PROVE DraftInv'
    BY <1>2, RunGeneratesInv
  <1>3. CASE D!RunHands BY <1>3, RunHandsInv
  <1>4. CASE D!RunBooks BY <1>4, RunBooksInv
  <1>5. CASE D!RunIsLost BY <1>5, RunIsLostInv
  <1>6. ASSUME NEW new \in SUBSET Copy, D!ChangeRules(new) PROVE DraftInv'
    BY <1>6, ChangeRulesInv
  <1>7. ASSUME NEW o \in Operator, NEW m \in Draft, D!Validate(o, m) PROVE DraftInv'
    <2>1. row[m] \in D!Row /\ D!Loads(o, m, D!Validating("validate", m, row[m]))
      BY <1>7 DEF D!Validate, DraftInv, D!TypeOK
    <2> QED BY <2>1, ValidatingWork, LoadsInv
  <1>8. ASSUME NEW o \in Operator, NEW m \in Draft, D!Approve(o, m) PROVE DraftInv'
    <2>1. row[m] \in D!Row /\ D!Loads(o, m, D!Validating("approve", m, row[m]))
      BY <1>8 DEF D!Approve, DraftInv, D!TypeOK
    <2> QED BY <2>1, ValidatingWork, LoadsInv
  <1>9. ASSUME NEW o \in Operator, NEW m \in Draft, D!Reject(o, m) PROVE DraftInv'
    <2>1. row[m] \in D!Row /\ D!Loads(o, m, D!Rejecting(m, row[m]))
      BY <1>9 DEF D!Reject, DraftInv, D!TypeOK
    <2> QED BY <2>1, RejectingWork, LoadsInv
  <1>10. ASSUME NEW o \in Operator, NEW m \in Draft, NEW c \in Copy, D!Edit(o, m, c) PROVE DraftInv'
    <2>1. row[m] \in D!Row /\ row[m].status # "SENT" /\ D!Loads(o, m, D!Editing(m, row[m], c))
      BY <1>10 DEF D!Edit, DraftInv, D!TypeOK
    <2> QED BY <2>1, EditingWork, LoadsInv
  <1>11. ASSUME NEW o \in Operator, D!Commits(o) PROVE DraftInv'
    BY <1>11, DraftCommitsInv
  <1>12. ASSUME NEW o \in Operator, D!CommitsApproval(o) PROVE DraftInv'
    BY <1>12, CommitsApprovalInv
  <1>13. CASE UNCHANGED D!vars
    BY <1>13 DEF D!vars, D!history, DraftInv, D!TypeOK, D!DraftsAreTrue, D!ApprovalIsOfCopy, D!SentIsOnRecord, Fresh, D!Others
  <1> QED BY <1>1, <1>2, <1>3, <1>4, <1>5, <1>6, <1>7, <1>8, <1>9, <1>10, <1>11, <1>12, <1>13 DEF D!Next

\* A message shown as approved or as sent was approved or sent with these words,
\* unless requests overlapped on it (edit_message, approve, reject,
\* revalidate_message against a campaign's run).
THEOREM RecordsAreTrue == ASSUME DraftsNamed PROVE D!Spec => []D!DraftsAreTrue
  <1>1. D!Init => DraftInv BY DraftsStart
  <1>2. DraftInv /\ [D!Next]_D!vars => DraftInv' BY DraftsKept
  <1>3. DraftInv => D!DraftsAreTrue BY DEF DraftInv
  <1> QED BY <1>1, <1>2, <1>3, PTL DEF D!Spec

---------------------------------------------------------------------------
(* The records beside each other. *)

\* The same of the events that the run checks beside the other records.
THEOREM EventsCountOnceAmongRecords == MCSpec => []CountedOnce
  <1>1. MCInit => E!Init
    BY DEF MCInit
  <1>2. [MCNext]_all => [E!Next]_E!vars
    BY DEF MCNext, all, engagement, E!vars
  <1>3. E!CountedOnce => CountedOnce
    BY DEF CountedOnce
  <1> QED
    BY <1>1, <1>2, <1>3, EventsCountOnce, PTL DEF MCSpec, E!Spec

\* Messages say what was approved and what was sent, beside the other records too.
THEOREM DraftsAreTrueAmongRecords ==
    ASSUME Null \notin D!Row PROVE MCSpec => []DraftsAreTrue
  <1>1. MCInit => D!Init
    BY DEF MCInit
  <1>2. [MCNext]_all => [D!Next]_D!vars
    BY DEF MCNext, all, drafts, D!vars, D!history
  <1>3. DraftsNamed
    BY RecordsAssumption DEF DraftsNamed
  <1>4. D!DraftsAreTrue => DraftsAreTrue
    BY DEF DraftsAreTrue
  <1>5. D!Spec => []D!DraftsAreTrue
    BY <1>3, RecordsAreTrue
  <1> QED
    BY <1>1, <1>2, <1>4, <1>5, PTL DEF MCSpec, D!Spec
=============================================================================

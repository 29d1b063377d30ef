------------------------------- MODULE Intake -------------------------------
(***************************************************************************)
(* Orders on their way into the system, and what is computed from them:    *)
(* an upload, an API call or a file in the inbox is a job that commits its *)
(* rows, then its result, and only then recomputes the customers it        *)
(* touched and, from their stored metrics, what concerns the whole         *)
(* population (services/ingestion.py, services/attribution.py). The        *)
(* scheduler recomputes everything from time to time (jobs/scheduler.py,   *)
(* services/intelligence.py, services/segments.py).                        *)
(*                                                                         *)
(* Several of these run at once; each commits what it computed from what   *)
(* it had read, also when that has changed since. A restart of the process *)
(* ends all of them.                                                       *)
(***************************************************************************)
EXTENDS FiniteSets, Naturals

CONSTANTS
    Customer, Order,
    Inbox,       \* the scheduler's import of files
    Upload,      \* requests that import
    Refresh,     \* the scheduler's recomputation
    Files,       \* what may be imported: its kind, and a row for some orders
    MaxImports, MaxCrashes,  \* bounds
    Null

Importer == {Inbox} \cup Upload
Worker == Importer \cup {Refresh}

VARIABLES
    orders,   \* owner and status of each order, or Null
    scores,   \* of each customer: the orders the stored metrics were computed from
    board,    \* the scores that segments and RFM were computed from
    work,     \* what each worker is doing, or Null
    jobs,     \* the status each import left behind
    inbox,    \* the files that lie in the inbox
    crashes

vars == <<orders, scores, board, work, jobs, inbox, crashes>>

Init ==
    /\ orders = [o \in Order |-> Null]
    /\ scores = [c \in Customer |-> {}]
    /\ board = scores
    /\ work = [w \in Worker |-> Null]
    /\ jobs = <<>>
    /\ inbox \in {{}} \cup {{f} : f \in Files}
    /\ crashes = 0

At(w, step) == work[w] # Null /\ work[w].step = step
Goes(w, step) == work' = [work EXCEPT ![w].step = step]
Ends(w) == work' = [work EXCEPT ![w] = Null]

Facts(c) == {<<o, orders[o].status>> : o \in {x \in Order : orders[x] # Null /\ orders[x].owner = c}}

(***************************************************************************)
(* A job                                                                   *)
(***************************************************************************)
\* The job is on record as RUNNING before anything is read. The inbox works on
\* one file at a time.
Begins(w, file) ==
    /\ work[w] = Null
    /\ w = Inbox => file \in inbox
    /\ Cardinality(DOMAIN jobs) < MaxImports
    /\ jobs' = [j \in DOMAIN jobs \cup {Cardinality(DOMAIN jobs) + 1} |->
                    IF j \in DOMAIN jobs THEN jobs[j] ELSE "RUNNING"]
    /\ work' = [work EXCEPT ![w] =
            [step |-> "read", job |-> Cardinality(DOMAIN jobs) + 1, file |-> file,
             created |-> {}, got |-> <<>>, todo |-> {}, found |-> {}]]
    /\ UNCHANGED <<orders, scores, board, inbox, crashes>>

ReadsRows(w) ==
    /\ At(w, "read")
    /\ LET rows == work[w].file.rows
           created == {o \in DOMAIN rows : orders[o] = Null} IN
        work' = [work EXCEPT ![w].step = "rows", ![w].created = created,
                             ![w].got = [o \in DOMAIN rows \ created |-> orders[o]]]
    /\ UNCHANGED <<orders, scores, board, jobs, inbox, crashes>>

\* Another job has inserted one of these orders since it was looked for.
Collides(w) == \E o \in work[w].created : orders[o] # Null

\* After an "orders" file only the customers of new orders are recomputed,
\* otherwise whoever the file touched.
ToRecompute(work_w) ==
    LET rows == work_w.file.rows
        touched == IF work_w.file.kind = "orders" /\ work_w.created # {} THEN work_w.created ELSE DOMAIN rows IN
    {rows[o].owner : o \in touched}

\* Existing orders are updated in the columns that differ from what was read.
Merged(row, got, now) ==
    [owner |-> IF row.owner # got.owner THEN row.owner ELSE now.owner,
     status |-> IF row.status # got.status THEN row.status ELSE now.status]

CommitsRows(w) ==
    /\ At(w, "rows") /\ ~Collides(w)
    /\ LET rows == work[w].file.rows IN
        orders' = [o \in Order |->
            IF o \in work[w].created THEN rows[o]
            ELSE IF o \in DOMAIN work[w].got THEN Merged(rows[o], work[w].got[o], orders[o])
            ELSE orders[o]]
    /\ work' = [work EXCEPT ![w].step = "complete", ![w].todo = ToRecompute(work[w]), ![w].got = <<>>]
    /\ UNCHANGED <<scores, board, jobs, inbox, crashes>>

\* The insert fails, every later row is refused by the broken session, and so
\* is the commit: none of the file's rows is kept and the job stays RUNNING.
\* The inbox puts the file aside.
FailsRows(w) ==
    /\ At(w, "rows") /\ Collides(w)
    /\ Ends(w)
    /\ inbox' = (IF w = Inbox THEN inbox \ {work[w].file} ELSE inbox)
    /\ UNCHANGED <<orders, scores, board, jobs, crashes>>

Completes(w) ==
    /\ At(w, "complete")
    /\ jobs' = [jobs EXCEPT ![work[w].job] = "COMPLETED"]
    /\ Goes(w, IF work[w].todo = {} THEN "population" ELSE "customers")
    /\ UNCHANGED <<orders, scores, board, inbox, crashes>>

(***************************************************************************)
(* Recomputing                                                             *)
(***************************************************************************)
\* New orders are processed with a commit each; otherwise one commit ends the batch.
\* (A combined file does both; only the batch, which comes last, is kept here.)
Batches(work_w) ==
    IF work_w.created # {} /\ work_w.file.kind = "orders" THEN {{c} : c \in work_w.todo} ELSE {work_w.todo}

ReadsOrders(w, batch) ==
    /\ At(w, "customers")
    /\ work' = [work EXCEPT ![w].step = "scores",
            ![w].found = {[customer |-> c, facts |-> Facts(c)] : c \in batch}]
    /\ UNCHANGED <<orders, scores, board, jobs, inbox, crashes>>

Found(w) == {f.customer : f \in work[w].found}

CommitsScores(w) ==
    /\ At(w, "scores")
    /\ scores' = [c \in Customer |->
            IF c \in Found(w) THEN (CHOOSE f \in work[w].found : f.customer = c).facts ELSE scores[c]]
    /\ LET todo == work[w].todo \ Found(w) IN
        work' = [work EXCEPT ![w].step = IF todo = {} THEN "population" ELSE "customers",
                             ![w].todo = todo, ![w].found = {}]
    /\ UNCHANGED <<orders, board, jobs, inbox, crashes>>

\* refresh_rfm and refresh_all_segments read the stored metrics of everybody.
ReadsScores(w) ==
    /\ At(w, "population")
    /\ work' = [work EXCEPT ![w].step = "board", ![w].found = {[customer |-> c, facts |-> scores[c]] : c \in Customer}]
    /\ UNCHANGED <<orders, scores, board, jobs, inbox, crashes>>

\* The job is over; the inbox moves the file away.
CommitsBoard(w) ==
    /\ At(w, "board")
    /\ board' = [c \in Customer |-> (CHOOSE f \in work[w].found : f.customer = c).facts]
    /\ Ends(w)
    /\ inbox' = (IF w = Inbox THEN inbox \ {work[w].file} ELSE inbox)
    /\ UNCHANGED <<orders, scores, jobs, crashes>>

\* Mutant: the job picks those who have nothing stored yet.
BugOnlyNew == {c \in Customer : scores[c] = {}}

\* The scheduler's job: everybody, whatever was imported; one at a time.
Refreshed == Customer

BeginsRefresh ==
    /\ work[Refresh] = Null
    /\ work' = [work EXCEPT ![Refresh] =
            [step |-> "customers", job |-> 0, file |-> Null, created |-> {}, got |-> <<>>,
             todo |-> Refreshed, found |-> {}]]
    /\ UNCHANGED <<orders, scores, board, jobs, inbox, crashes>>

\* Nothing but committed rows and the files in the inbox survives.
Crash ==
    /\ crashes < MaxCrashes
    /\ work' = [w \in Worker |-> Null]
    /\ crashes' = crashes + 1
    /\ UNCHANGED <<orders, scores, board, jobs, inbox>>

Works(w) ==
    \/ ReadsRows(w) \/ CommitsRows(w) \/ FailsRows(w) \/ Completes(w)
    \/ \E batch \in (IF At(w, "customers") THEN Batches(work[w]) ELSE {}) : ReadsOrders(w, batch)
    \/ CommitsScores(w) \/ ReadsScores(w) \/ CommitsBoard(w)

Next ==
    \/ \E w \in Importer, file \in Files : Begins(w, file)
    \/ \E w \in Worker : Works(w)
    \/ BeginsRefresh
    \/ Crash

\* A worker that has begun goes on, and the scheduler's interval comes round.
Fairness ==
    /\ \A w \in Worker : WF_vars(Works(w))
    /\ WF_vars(BeginsRefresh)

Spec == Init /\ [][Next]_vars /\ Fairness

(***************************************************************************)
(* Properties                                                              *)
(***************************************************************************)
\* However imports, restarts and recomputations overlap, what is stored about
\* customers comes to agree with their orders, and segments and RFM with that,
\* and stays so once no file is imported any more: the scheduler's recomputation
\* repairs what a lost or overtaken job left behind.
ScoresCatchUp == <>[](/\ \A c \in Customer : scores[c] = Facts(c)
                      /\ board = scores)
=============================================================================

----------------------------- MODULE ImportRules -----------------------------
(***************************************************************************)
(* What a file of customers, orders and order lines does to the database,  *)
(* and what the report says it did: backend/app/services/ingestion.py.     *)
(*                                                                         *)
(* The database is three tables [customers, orders, items], each a         *)
(* function of external ids with None where there is no row. A file is a   *)
(* sequence of lines; a cell is None when it is blank, its column missing, *)
(* or its text not one of the words for true and false. Text of a cell     *)
(* that nothing is decided on, coordinates of a customer other than those  *)
(* named here, and amounts are left out.                                   *)
(***************************************************************************)
EXTENDS Integers, Sequences, FiniteSets
LOCAL INSTANCE SequencesExt

CONSTANT None  \* a blank cell, a missing row

ExampleId == "EXAMPLE-ROW-DELETE-ME"
FlagColumns == {"age", "consent"}

\* The preferred channel is never blank once read.
DefaultChannel == "EMAIL"

OrderStatus == {"PENDING", "COMPLETED", "CANCELLED", "REFUNDED"}

\* normalize_nz_phone: one shape for every way a mobile number is written, and
\* no number at all for anything else.
NormalPhone(phone) ==
    CASE phone \in {"mobile", "spaced mobile"} -> "mobile"
      [] OTHER -> None

-----------------------------------------------------------------------------
(* One row of each kind: why it is refused, and what it stores.            *)

CustomerRefused(db, row) ==
    \/ row.email = None /\ NormalPhone(row.phone) = None
    \/ row.email = "malformed"
    \/ row.signup = "malformed"

CustomerValues(row) ==
    [email |-> row.email, phone |-> NormalPhone(row.phone), signup |-> row.signup,
     age |-> row.age, consent |-> row.consent,
     channel |-> IF row.channel = None THEN DefaultChannel ELSE row.channel]

\* A new customer: what the file does not say of the flags is assumed.
NewCustomer(row, assumed) ==
    [k \in DOMAIN CustomerValues(row) |->
        IF k \in FlagColumns /\ CustomerValues(row)[k] = None THEN assumed[k]
        ELSE CustomerValues(row)[k]]

\* As if what an update file does not say were assumed again.
BugUpdatedCustomer(old, row, assumed) == NewCustomer(row, assumed)

\* A blank cell of an update leaves what is stored.
UpdatedCustomer(old, row, assumed) ==
    [k \in DOMAIN old |->
        IF CustomerValues(row)[k] = None THEN old[k] ELSE CustomerValues(row)[k]]

CustomerStored(db, row, assumed) ==
    IF db.customers[row.id] = None THEN NewCustomer(row, assumed)
    ELSE UpdatedCustomer(db.customers[row.id], row, assumed)

OrderRefused(db, row) ==
    \/ row.customer = None \/ db.customers[row.customer] = None
    \/ row.status \notin OrderStatus \union {None}
    \/ row.placed \in {None, "malformed"}

\* An order is written whole: a missing status is COMPLETED, on an update too.
OrderStored(db, row, assumed) ==
    [customer |-> row.customer, placed |-> row.placed,
     status |-> IF row.status = None THEN "COMPLETED" ELSE row.status]

ItemRefused(db, row) ==
    \/ row.order = None \/ db.orders[row.order] = None
    \/ row.product = None
    \/ row.quantity < 1

ItemStored(db, row, assumed) ==
    [order |-> row.order, product |-> row.product, quantity |-> row.quantity]

-----------------------------------------------------------------------------
(* One table after the other. A result is the database so far, the ids met *)
(* in this file, the rows rejected, created and updated, the customers     *)
(* whose intelligence is recomputed and the ids of created rows. Of the    *)
(* rejected rows it keeps the first `max`, MAX_ERRORS_STORED.              *)

Fresh(db, max) ==
    [db |-> db, max |-> max, met |-> {}, errors |-> <<>>, rejected |-> 0, accepted |-> 0, updated |-> 0,
     created |-> {}, touched |-> {}]

Reject(r, i) ==
    [r EXCEPT !.rejected = @ + 1,
              !.errors = IF Len(@) < r.max THEN Append(@, i) ELSE @]

Refused(table, db, row) ==
    CASE table = "customers" -> CustomerRefused(db, row)
      [] table = "orders" -> OrderRefused(db, row)
      [] table = "items" -> ItemRefused(db, row)

Stored(table, db, row, assumed) ==
    CASE table = "customers" -> CustomerStored(db, row, assumed)
      [] table = "orders" -> OrderStored(db, row, assumed)
      [] table = "items" -> ItemStored(db, row, assumed)

CustomerOf(table, db, row) ==
    CASE table = "customers" -> row.id
      [] table = "orders" -> row.customer
      [] table = "items" -> db.orders[row.order].customer

\* The row is known to be keepable: it is written, and counted.
Keep(r, table, row, assumed) ==
    LET new == r.db[table][row.id] = None
    IN [r EXCEPT !.db[table][row.id] = Stored(table, r.db, row, assumed),
                 !.met = @ \union {row.id},
                 !.accepted = IF new THEN @ + 1 ELSE @,
                 !.updated = IF new THEN @ ELSE @ + 1,
                 !.created = IF new THEN @ \union {row.id} ELSE @,
                 !.touched = @ \union {CustomerOf(table, r.db, row)}]

\* One row of an ingestor: a row is met before it is looked at, so that a second
\* one with its id is a duplicate although the first was refused.
Row(r, table, row, i, assumed) ==
    IF row.id = None THEN Reject(r, i)
    ELSE IF table = "customers" /\ row.id = ExampleId THEN r
    ELSE IF row.id \in r.met THEN Reject(r, i)
    ELSE IF Refused(table, r.db, row) THEN [Reject(r, i) EXCEPT !.met = @ \union {row.id}]
    ELSE Keep(r, table, row, assumed)

\* ingest_customers, ingest_orders, ingest_order_items.
Ingest(db, table, rows, assumed, max) ==
    FoldLeft(LAMBDA r, i : Row(r, table, rows[i], i, assumed), Fresh(db, max),
             [i \in DOMAIN rows |-> i])

-----------------------------------------------------------------------------
(* A combined file: one line per order line, with its customer and its     *)
(* order repeated. Split rows remember the line they came from.            *)

\* The first line of each id, and each line with an item.
FirstLines(lines, column) ==
    {i \in DOMAIN lines :
        /\ lines[i].customer # ExampleId /\ lines[i][column] # None
        /\ \A j \in 1 .. i - 1 : lines[j].customer = ExampleId \/ lines[j][column] # lines[i][column]}

ItemLines(lines) ==
    {i \in DOMAIN lines : lines[i].customer # ExampleId /\ (lines[i].item # None \/ lines[i].product # None)}

InOrder(set) == SetToSortSeq(set, LAMBDA a, b : a < b)

\* A line without an id of its own is named after its order and its place.
ItemId(line, i) == IF line.item # None THEN <<line.item, 0>> ELSE <<line.order, i>>

CustomerRow(line) ==
    [id |-> line.customer, email |-> line.email, phone |-> line.phone, signup |-> line.signup,
     age |-> line.age, consent |-> line.consent, channel |-> line.channel]
OrderRow(line) ==
    [id |-> line.order, customer |-> line.customer, placed |-> line.placed, status |-> line.status]
ItemRow(line, i) ==
    [id |-> ItemId(line, i), order |-> line.order, product |-> line.product,
     quantity |-> line.quantity]

\* The lines an error of a split batch stands for: _origin_line.
Origins(r, from) == {from[i] : i \in {r.errors[k] : k \in DOMAIN r.errors}}

\* What a dropped row has orphaned is dropped before it is tried.
Without(from, dropped, Key(_)) == SelectSeq(from, LAMBDA i : Key(i) \notin dropped)

\* ingest_combined. The report counts lines: one that fails anywhere has failed,
\* as far as the errors tell. Each table keeps `max` of them, and `cut`
\* is whether one has refused more rows than that, which its own count shows.
IngestCombined(db, lines, assumed, max) ==
    LET fromC == InOrder(FirstLines(lines, "customer"))
        c == Ingest(db, "customers", [k \in DOMAIN fromC |-> CustomerRow(lines[fromC[k]])],
                    assumed, max)
        noCustomer == {lines[i].customer : i \in Origins(c, fromC)}
        allO == InOrder(FirstLines(lines, "order"))
        fromO == Without(allO, noCustomer, LAMBDA i : lines[i].customer)
        o == Ingest(c.db, "orders", [k \in DOMAIN fromO |-> OrderRow(lines[fromO[k]])],
                    assumed, max)
        noOrder == {lines[i].order : i \in Origins(o, fromO)}
                   \union {lines[allO[k]].order : k \in {n \in DOMAIN allO :
                               lines[allO[n]].customer \in noCustomer}}
        fromI == Without(InOrder(ItemLines(lines)), noOrder, LAMBDA i : lines[i].order)
        t == Ingest(o.db, "items", [k \in DOMAIN fromI |-> ItemRow(lines[fromI[k]], fromI[k])],
                    assumed, max)
        failed == Origins(c, fromC) \union Origins(o, fromO) \union Origins(t, fromI)
        total == Cardinality({i \in DOMAIN lines : lines[i].customer # ExampleId})
    IN [db |-> t.db, failed |-> failed, total |-> total, rejected |-> Cardinality(failed),
        accepted |-> total - Cardinality(failed), created |-> o.created,
        cut |-> \E r \in {c, o, t} : r.rejected > Len(r.errors),
        touched |-> c.touched \union o.touched \union t.touched]

\* The same lines as three files, loaded one after the other.
IngestApart(db, lines, assumed, max) ==
    LET Rows(from, AsRow(_)) == [k \in DOMAIN from |-> AsRow(from[k])]
        c == Ingest(db, "customers", Rows(InOrder(FirstLines(lines, "customer")),
                                          LAMBDA i : CustomerRow(lines[i])), assumed, max)
        o == Ingest(c.db, "orders", Rows(InOrder(FirstLines(lines, "order")),
                                         LAMBDA i : OrderRow(lines[i])), assumed, max)
    IN Ingest(o.db, "items", Rows(InOrder(ItemLines(lines)), LAMBDA i : ItemRow(lines[i], i)),
              assumed, max).db

-----------------------------------------------------------------------------
(* Consent events, in the order of the file: ingest_consent_events. A row  *)
(* that refuses marketing refuses every channel.                           *)

ConsentTypes == {"MARKETING", "EMAIL", "SMS", "WHATSAPP"}

ApplyConsent(consents, event) ==
    IF event.granted THEN consents \union {event.type}
    ELSE IF event.type = "MARKETING" THEN {} ELSE consents \ {event.type}

IngestConsent(consents, events) == FoldLeft(ApplyConsent, consents, events)

=============================================================================

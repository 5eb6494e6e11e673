--------------------------- MODULE RetailQuality ---------------------------
(***************************************************************************)
(* The business rules of a batch, once as src/atlasretail/quality.py has   *)
(* them for the local engine and once as the Spark job of aws/glue has     *)
(* them, over batches made by src/atlasretail/generator.py and edited.     *)
(*                                                                         *)
(* An identifier is the sequence of its parts between colons, so that      *)
(* joining two with a colon is concatenation.  A number or currency of a   *)
(* record may be Null, as JSON allows.                                     *)
(***************************************************************************)
EXTENDS Integers, Sequences, FiniteSets, SequencesExt

CONSTANTS
    Null,           \* JSON's null, Python's None, Spark's NULL
    OrderCounts,    \* values of generate_batch's order_count
    MaxLines,       \* bound of the drawn number of lines of an order (3)
    MaxQuantity,    \* bound of a drawn quantity (3)
    Products,       \* number of products (20)
    Stores,         \* number of stores (3)
    MaxEdits,       \* bound: edits of a batch after the generator
    Unchecked       \* whether edits give what the generator never does: Null and colons

ASSUME BatchAssumption ==
    /\ Null \notin Int
    /\ OrderCounts \subseteq Nat \ {0}
    /\ MaxLines \in Nat \ {0}
    /\ MaxQuantity \in Nat \ {0}
    /\ Products \in Nat \ {0}
    /\ Stores \in Nat \ {0}
    /\ MaxEdits \in Nat
    /\ Unchecked \in BOOLEAN

VARIABLES
    batch,          \* the six tables, as sequences of rows
    fault,          \* the with_... function applied to the generated batch, or "none"
    edits           \* number of further edits

batchVars == <<batch, fault, edits>>

Start == 100000000        \* start_ts
Knowledge == Start + 1000 \* as_of_knowledge_time

\* The sum of a sequence of numbers.
Total(v) ==
    LET sum[n \in 0..Len(v)] == IF n = 0 THEN 0 ELSE sum[n - 1] + v[n]
    IN sum[Len(v)]

\* What a row adds to a sum: Spark's aggregates leave NULL out; Python's never meet None (Numeric).
Addend(chosen, x) == IF chosen /\ x # Null THEN x ELSE 0

-----------------------------------------------------------------------------
(* generator.py *)

Product(p) == [product_id |-> <<p>>, effective_from |-> Start - 86400, effective_to |-> Null,
               loaded_at |-> Start - 3600]

\* Movement identifiers, in their order: the corruption, openings, returns, sales.
Movement(kind, o, l, product, store, delta, ts) ==
    [movement_id |-> <<kind, o, l>>, product_id |-> product, store_id |-> store,
     quantity_delta |-> delta, movement_ts |-> ts]

OpeningStock(count) == Max({100, count * 4})

Opening(count) ==
    FlattenSeq([p \in 1..Products |-> [t \in 1..Stores |->
        Movement(0, p, t, <<p - 1>>, t - 1, OpeningStock(count), Start - 1)]])

Line(o, l, p, quantity) ==
    LET price == 1000 + ((o + l) % 50) * 37 IN
    [order_id |-> <<o>>, line_id |-> <<l + 1>>, product_id |-> <<p>>,
     quantity |-> quantity, unit_price_cents |-> price, line_total_cents |-> quantity * price]

\* The lines of order o for the drawn quantities.
LinesOf(o, drawn) == [l \in 1..Len(drawn) |-> Line(o, l - 1, (o * 3 + l - 1) % Products, drawn[l])]

OrderRow(o, lines) ==
    LET subtotal == Total([l \in DOMAIN lines |-> lines[l].line_total_cents])
        discount == IF o % 10 = 0 THEN 100 ELSE 0
        tax == (subtotal * 18) \div 100
    IN
    [order_id |-> <<o>>, order_ts |-> Start + o * 10, status |-> "COMPLETED",
     subtotal_cents |-> subtotal, tax_cents |-> tax, discount_cents |-> discount,
     total_cents |-> subtotal + tax - discount, currency |-> "INR"]

\* Of every 17th order the first line comes back.
IfReturned(o, row) == IF o % 17 = 0 THEN <<row>> ELSE << >>

ReturnRow(o, line) ==
    [return_id |-> o + 1, order_id |-> line.order_id, line_id |-> line.line_id,
     quantity |-> 1, refund_cents |-> line.unit_price_cents]

MovementsOf(o, lines) ==
    [l \in DOMAIN lines |-> Movement(2, o, l, lines[l].product_id, o % Stores,
                                     -lines[l].quantity, Start + o * 10)]
    \o IfReturned(o, Movement(1, o, 1, lines[1].product_id, o % Stores, 1, Start + o * 10 + 5))

\* generate_batch for the draws: the quantities of every line of every order.
Generated(draws) ==
    LET N == Len(draws)
        lines == [i \in 1..N |-> LinesOf(i - 1, draws[i])]
        orders == [i \in 1..N |-> OrderRow(i - 1, lines[i])]
    IN
    [orders |-> orders,
     order_lines |-> FlattenSeq(lines),
     payments |-> [i \in 1..N |-> [payment_id |-> i, order_id |-> orders[i].order_id,
                                   amount_cents |-> orders[i].total_cents, status |-> "CAPTURED"]],
     returns |-> FlattenSeq([i \in 1..N |-> IfReturned(i - 1, ReturnRow(i - 1, lines[i][1]))]),
     inventory_movements |-> Opening(N) \o FlattenSeq([i \in 1..N |-> MovementsOf(i - 1, lines[i])]),
     products |-> [i \in 1..Products |-> Product(i - 1)]]

\* The results of the random draws.
Draws == UNION {[1..n -> UNION {[1..l -> 1..MaxQuantity] : l \in 1..MaxLines}] : n \in OrderCounts}

\* (replace(first, ...), *rows[1:])
WithFirst(b, t, row) == [b EXCEPT ![t] = <<row>> \o Tail(@)]

with_broken_total(b) == WithFirst(b, "orders", [b.orders[1] EXCEPT !.total_cents = @ + 1])

with_excess_refund(b) ==
    [b EXCEPT !.returns = Append(@, [return_id |-> 0, order_id |-> b.orders[1].order_id,
        line_id |-> b.order_lines[1].line_id, quantity |-> 1, refund_cents |-> b.orders[1].total_cents + 1])]

with_missing_dimension(b) ==
    LET rows == b.products IN
    [b EXCEPT !.products = FlattenSeq([i \in DOMAIN rows |->
        IF rows[i].product_id # b.order_lines[1].product_id THEN <<rows[i]>> ELSE << >>])]

with_overlapping_dimension(b) ==
    LET first == b.products[1] IN
    [b EXCEPT !.products = Append(@, [first EXCEPT !.effective_from = @ + 1, !.loaded_at = @ + 1])]

with_negative_inventory(b) ==
    [b EXCEPT !.inventory_movements = Append(@,
        Movement(-1, 0, 0, b.order_lines[1].product_id, 0, -1000000, b.orders[1].order_ts + 1))]

-----------------------------------------------------------------------------
(* quality.py *)

\* _duplicates
Repeats(identifiers) == ~IsInjective(identifiers)

LineKey(r) == <<r.order_id, r.line_id>>
\* f"{row.order_id}:{row.line_id}"
JoinedLineKey(r) == r.order_id \o r.line_id
ProductKey(r) == <<r.product_id, r.effective_from, r.loaded_at>>

RepeatsIdentity(b, lines) ==
    \/ Repeats([i \in DOMAIN b.orders |-> b.orders[i].order_id])
    \/ Repeats(lines)
    \/ Repeats([i \in DOMAIN b.payments |-> b.payments[i].payment_id])
    \/ Repeats([i \in DOMAIN b.returns |-> b.returns[i].return_id])
    \/ Repeats([i \in DOMAIN b.inventory_movements |-> b.inventory_movements[i].movement_id])
    \/ Repeats([i \in DOMAIN b.products |-> ProductKey(b.products[i])])

HasOrder(b, o) == \E r \in Range(b.orders) : r.order_id = o
HasLine(b, key) == \E r \in Range(b.order_lines) : LineKey(r) = key

\* orders[o] and line_lookup[key]: a later row replaces an earlier one.
OrderNamed(b, o) == b.orders[Max({i \in DOMAIN b.orders : b.orders[i].order_id = o})]
LineNamed(b, key) == b.order_lines[Max({i \in DOMAIN b.order_lines : LineKey(b.order_lines[i]) = key})]

Subtotal(b, o) ==
    Total([i \in DOMAIN b.order_lines |-> LET r == b.order_lines[i] IN
        Addend(r.order_id = o, r.line_total_cents)])

Captured(b, o) ==
    Total([i \in DOMAIN b.payments |-> LET r == b.payments[i] IN
        Addend(r.order_id = o /\ r.status = "CAPTURED", r.amount_cents)])

\* The returns that name a line; the others only give ORPHAN_RETURN.
Counted(b) == {i \in DOMAIN b.returns : HasLine(b, LineKey(b.returns[i]))}

\* Sums over some of the returns.
Refunded(b, some, o) ==
    Total([i \in DOMAIN b.returns |-> LET r == b.returns[i] IN
        Addend(i \in some /\ r.order_id = o, r.refund_cents)])
ReturnedQuantity(b, some, key) ==
    Total([i \in DOMAIN b.returns |-> LET r == b.returns[i] IN
        Addend(i \in some /\ LineKey(r) = key, r.quantity)])

\* Order of movement identifiers: by kind of movement, then by what they were made from.
IdBelow(x, y) == \/ x[1] < y[1]
                 \/ x[1] = y[1] /\ x[2] < y[2]
                 \/ x[1] = y[1] /\ x[2] = y[2] /\ x[3] < y[3]

\* Mutant: the movements are taken as they come.
InRowOrder(rows, i, j) == i <= j

\* Movement i is at or before movement j: sorted by time and identifier, and stable.
AtOrBefore(rows, i, j) ==
    LET x == rows[i] y == rows[j] IN
    \/ x.movement_ts < y.movement_ts
    \/ x.movement_ts = y.movement_ts /\ IdBelow(x.movement_id, y.movement_id)
    \/ x.movement_ts = y.movement_ts /\ x.movement_id = y.movement_id /\ i <= j

\* The stock of its product and store after movement j.
Stock(b, j) ==
    LET rows == b.inventory_movements IN
    Total([i \in DOMAIN rows |->
        Addend(/\ rows[i].product_id = rows[j].product_id
               /\ rows[i].store_id = rows[j].store_id
               /\ AtOrBefore(rows, i, j), rows[i].quantity_delta)])

\* A version in force at the event's time and loaded by the knowledge time.
Knowable(v, time) ==
    /\ v.effective_from <= time
    /\ v.effective_to # Null => time < v.effective_to
    /\ v.loaded_at <= Knowledge

\* product_match_count
Matches(b, line) ==
    LET time == OrderNamed(b, line.order_id).order_ts IN
    Total([i \in DOMAIN b.products |->
        Addend(b.products[i].product_id = line.product_id /\ Knowable(b.products[i], time), 1)])

InvalidLine(r) == r.quantity <= 0 \/ r.unit_price_cents < 0
InvalidReturn(r) == r.quantity <= 0 \/ r.refund_cents < 0
Unsupported(r) == r.currency \notin {"INR", "USD"}
Underpaid(b, r) == r.status = "COMPLETED" /\ Captured(b, r.order_id) < r.total_cents

\* The numbers the local rules compute with; None raises TypeError instead.
Numeric(b) ==
    /\ \A r \in Range(b.orders) : Null \notin {r.subtotal_cents, r.tax_cents, r.discount_cents, r.total_cents}
    /\ \A r \in Range(b.order_lines) : Null \notin {r.quantity, r.unit_price_cents, r.line_total_cents}
    /\ \A r \in Range(b.payments) : r.amount_cents # Null
    /\ \A r \in Range(b.returns) : Null \notin {r.quantity, r.refund_cents}
    /\ \A r \in Range(b.inventory_movements) : r.quantity_delta # Null

\* What validate() finds, code by code.
LocalFinds(b) ==
    LET counted == {b.returns[i] : i \in Counted(b)} IN
    [DUPLICATE_ID        |-> RepeatsIdentity(b, [i \in DOMAIN b.order_lines |-> JoinedLineKey(b.order_lines[i])]),
     INVALID_LINE        |-> \E r \in Range(b.order_lines) : InvalidLine(r),
     LINE_TOTAL          |-> \E r \in Range(b.order_lines) : r.line_total_cents # r.quantity * r.unit_price_cents,
     ORDER_SUBTOTAL      |-> \E r \in Range(b.orders) : Subtotal(b, r.order_id) # r.subtotal_cents,
     ORDER_TOTAL         |-> \E r \in Range(b.orders) :
                                r.subtotal_cents + r.tax_cents - r.discount_cents # r.total_cents,
     CURRENCY            |-> \E r \in Range(b.orders) : Unsupported(r),
     ORPHAN_PAYMENT      |-> \E r \in Range(b.payments) : ~HasOrder(b, r.order_id),
     UNDERPAID           |-> \E r \in Range(b.orders) : Underpaid(b, r),
     ORPHAN_RETURN       |-> \E r \in Range(b.returns) : ~HasLine(b, LineKey(r)),
     INVALID_RETURN      |-> \E r \in counted : InvalidReturn(r),
     RETURN_QUANTITY     |-> \E r \in counted :
                                ReturnedQuantity(b, Counted(b), LineKey(r)) > LineNamed(b, LineKey(r)).quantity,
     EXCESS_REFUND       |-> \E r \in counted :
                                Refunded(b, Counted(b), r.order_id) > Captured(b, r.order_id),
     NEGATIVE_INVENTORY  |-> \E j \in DOMAIN b.inventory_movements : Stock(b, j) < 0,
     ORPHAN_LINE         |-> \E r \in Range(b.order_lines) : ~HasOrder(b, r.order_id),
     MISSING_DIMENSION   |-> \E r \in Range(b.order_lines) : HasOrder(b, r.order_id) /\ Matches(b, r) = 0,
     AMBIGUOUS_DIMENSION |-> \E r \in Range(b.order_lines) : HasOrder(b, r.order_id) /\ Matches(b, r) > 1]

LocalCodes(b) == LET finds == LocalFinds(b) IN {c \in DOMAIN finds : finds[c]}
LocalPasses(b) == Numeric(b) /\ LocalCodes(b) = {}

-----------------------------------------------------------------------------
(* validate_frames of the Spark job: one filter after the other.  A comparison with NULL
   selects no row. *)

Selects(values, condition) == Null \notin values /\ condition

\* Rows that the filter on a line's or a return's own numbers selects.
SparkInvalidLine(r) == Null \in {r.quantity, r.unit_price_cents} \/ InvalidLine(r)
SparkInvalidReturn(r) == Null \in {r.quantity, r.refund_cents} \/ InvalidReturn(r)
SparkLineTotal(r) ==
    Selects({r.line_total_cents, r.quantity, r.unit_price_cents},
            r.line_total_cents # r.quantity * r.unit_price_cents)
SparkOrderTotal(r) ==
    Selects({r.total_cents, r.subtotal_cents, r.tax_cents, r.discount_cents},
            r.total_cents # r.subtotal_cents + r.tax_cents - r.discount_cents)
SparkSubtotal(b, r) == Selects({r.subtotal_cents}, Subtotal(b, r.order_id) # r.subtotal_cents)
SparkUnderpaid(b, r) == Selects({r.total_cents}, Underpaid(b, r))
\* Mutant: each return is compared on its own.
ReturnByReturn(b, r) == \E l \in Range(b.order_lines) : LineKey(l) = LineKey(r) /\ r.quantity > l.quantity

SparkReturnQuantity(b, r) ==
    \E l \in Range(b.order_lines) :
        /\ LineKey(l) = LineKey(r)
        /\ \/ l.quantity = Null
           \/ ReturnedQuantity(b, DOMAIN b.returns, LineKey(r)) > l.quantity

SparkFinds(b) ==
    [DUPLICATE_ID        |-> RepeatsIdentity(b, [i \in DOMAIN b.order_lines |-> LineKey(b.order_lines[i])]),
     ORPHAN_LINE         |-> \E r \in Range(b.order_lines) : ~HasOrder(b, r.order_id),
     ORPHAN_PAYMENT      |-> \E r \in Range(b.payments) : ~HasOrder(b, r.order_id),
     INVALID_LINE        |-> \E r \in Range(b.order_lines) : SparkInvalidLine(r),
     LINE_TOTAL          |-> \E r \in Range(b.order_lines) : SparkLineTotal(r),
     CURRENCY            |-> \E r \in Range(b.orders) : Unsupported(r),
     ORDER_TOTAL         |-> \E r \in Range(b.orders) : SparkOrderTotal(r),
     ORDER_SUBTOTAL      |-> \E r \in Range(b.orders) : SparkSubtotal(b, r),
     UNDERPAID           |-> \E r \in Range(b.orders) : SparkUnderpaid(b, r),
     ORPHAN_RETURN       |-> \E r \in Range(b.returns) : ~HasLine(b, LineKey(r)),
     INVALID_RETURN      |-> \E r \in Range(b.returns) : SparkInvalidReturn(r),
     EXCESS_REFUND       |-> \E r \in Range(b.returns) :
                                Refunded(b, DOMAIN b.returns, r.order_id) > Captured(b, r.order_id),
     RETURN_QUANTITY     |-> \E r \in Range(b.returns) : SparkReturnQuantity(b, r),
     NEGATIVE_INVENTORY  |-> \E j \in DOMAIN b.inventory_movements : Stock(b, j) < 0,
     MISSING_DIMENSION   |-> \E r \in Range(b.order_lines) : HasOrder(b, r.order_id) /\ Matches(b, r) = 0,
     AMBIGUOUS_DIMENSION |-> \E r \in Range(b.order_lines) : HasOrder(b, r.order_id) /\ Matches(b, r) > 1]

\* Mutant: payments are checked before the financial equation.
PaymentsFirst == << "DUPLICATE_ID", "ORPHAN_LINE", "ORPHAN_PAYMENT", "INVALID_LINE", "LINE_TOTAL", "CURRENCY",
                    "UNDERPAID", "ORDER_TOTAL", "ORDER_SUBTOTAL", "ORPHAN_RETURN", "INVALID_RETURN",
                    "EXCESS_REFUND", "RETURN_QUANTITY", "NEGATIVE_INVENTORY", "MISSING_DIMENSION",
                    "AMBIGUOUS_DIMENSION" >>

\* The order of the checks; the first that selects a row fails the job.
SparkOrder == << "DUPLICATE_ID", "ORPHAN_LINE", "ORPHAN_PAYMENT", "INVALID_LINE", "LINE_TOTAL", "CURRENCY",
                 "ORDER_TOTAL", "ORDER_SUBTOTAL", "UNDERPAID", "ORPHAN_RETURN", "INVALID_RETURN",
                 "EXCESS_REFUND", "RETURN_QUANTITY", "NEGATIVE_INVENTORY", "MISSING_DIMENSION",
                 "AMBIGUOUS_DIMENSION" >>

SparkFailure(b) ==
    LET finds == SparkFinds(b)
        failing == {i \in DOMAIN SparkOrder : finds[SparkOrder[i]]}
    IN IF failing = {} THEN "none" ELSE SparkOrder[Min(failing)]

-----------------------------------------------------------------------------
(* What a producer may register *)

\* The code that the failure lab or the managed scenario expects of each fault.
Signal == [with_broken_total          |-> "ORDER_TOTAL",
           with_excess_refund         |-> "EXCESS_REFUND",
           with_missing_dimension     |-> "MISSING_DIMENSION",
           with_overlapping_dimension |-> "AMBIGUOUS_DIMENSION",
           with_negative_inventory    |-> "NEGATIVE_INVENTORY"]

Faulty(b, name) ==
    CASE name = "with_broken_total"          -> with_broken_total(b)
      [] name = "with_excess_refund"         -> with_excess_refund(b)
      [] name = "with_missing_dimension"     -> with_missing_dimension(b)
      [] name = "with_overlapping_dimension" -> with_overlapping_dimension(b)
      [] name = "with_negative_inventory"    -> with_negative_inventory(b)

\* A row twice, a row less, or another value in one field.
Reshaped(b, t) == {[b EXCEPT ![t] = Append(@, @[1])], [b EXCEPT ![t] = Tail(@)]}

Reworded(b) ==
    UNION {IF b.orders = << >> THEN {} ELSE LET r == b.orders[1] IN
              {WithFirst(b, "orders", [r EXCEPT !.status = "PLACED"]),
               WithFirst(b, "orders", [r EXCEPT !.currency = "EUR"]),
               WithFirst(b, "orders", [r EXCEPT !.total_cents = @ - 1, !.discount_cents = @ + 1])},
           IF b.order_lines = << >> THEN {} ELSE LET r == b.order_lines[1] IN
              {WithFirst(b, "order_lines", [r EXCEPT !.quantity = 0]),
               WithFirst(b, "order_lines", [r EXCEPT !.quantity = @ + 1]),
               WithFirst(b, "order_lines", [r EXCEPT !.line_id = <<9>>])},
           IF b.payments = << >> THEN {} ELSE LET r == b.payments[1] IN
              {WithFirst(b, "payments", [r EXCEPT !.status = "DECLINED"]),
               WithFirst(b, "payments", [r EXCEPT !.amount_cents = @ + 1]),
               WithFirst(b, "payments", [r EXCEPT !.amount_cents = @ - 1])},
           IF b.returns = << >> THEN {} ELSE LET r == b.returns[1] IN
              {WithFirst(b, "returns", [r EXCEPT !.refund_cents = -1]),
               [b EXCEPT !.returns = Append(@, [r EXCEPT !.return_id = @ + 50, !.refund_cents = 0])]},
           IF b.returns = << >> \/ b.payments = << >> THEN {} ELSE
              {WithFirst(b, "returns", [b.returns[1] EXCEPT !.refund_cents = b.payments[1].amount_cents + 1])},
           IF b.inventory_movements = << >> THEN {} ELSE LET r == b.inventory_movements[1] IN
              {WithFirst(b, "inventory_movements", [r EXCEPT !.quantity_delta = 1]),
               WithFirst(b, "inventory_movements", [r EXCEPT !.movement_ts = Start + 50])},
           IF b.products = << >> THEN {} ELSE LET r == b.products[1] IN
              {WithFirst(b, "products", [r EXCEPT !.loaded_at = Knowledge + 1]),
               WithFirst(b, "products", [r EXCEPT !.effective_to = Start + 5])}}

\* Every row of order o, or of its line l, under another identifier.
Renamed(b, o, new) ==
    LET named(r) == IF r.order_id = o THEN [r EXCEPT !.order_id = new] ELSE r
        all(rows) == [i \in DOMAIN rows |-> named(rows[i])]
    IN [b EXCEPT !.orders = all(@), !.order_lines = all(@), !.payments = all(@), !.returns = all(@)]
RenamedLine(b, key, new) ==
    LET all(rows) == [i \in DOMAIN rows |->
            IF LineKey(rows[i]) = key THEN [rows[i] EXCEPT !.line_id = new] ELSE rows[i]]
    IN [b EXCEPT !.order_lines = all(@), !.returns = all(@)]

Unusual(b) ==
    {Renamed(b, <<1>>, <<0, 1>>), RenamedLine(b, <<<<0>>, <<1>>>>, <<1, 1>>)} \cup
    (IF b.orders = << >> THEN {} ELSE LET r == b.orders[1] IN
        {WithFirst(b, "orders", [r EXCEPT !.total_cents = Null]),
         WithFirst(b, "orders", [r EXCEPT !.subtotal_cents = Null]),
         WithFirst(b, "orders", [r EXCEPT !.currency = Null])}) \cup
    (IF b.order_lines = << >> THEN {} ELSE LET r == b.order_lines[1] IN
        {WithFirst(b, "order_lines", [r EXCEPT !.quantity = Null]),
         WithFirst(b, "order_lines", [r EXCEPT !.line_total_cents = Null])}) \cup
    (IF b.payments = << >> THEN {} ELSE
        {WithFirst(b, "payments", [b.payments[1] EXCEPT !.amount_cents = Null])})

Tables == {"orders", "order_lines", "payments", "returns", "inventory_movements", "products"}

BatchInit ==
    /\ batch \in {Generated(draws) : draws \in Draws}
    /\ fault = "none"
    /\ edits = 0

MakeFaulty ==
    /\ fault = "none"
    /\ edits = 0
    /\ fault' \in DOMAIN Signal
    /\ batch' = Faulty(batch, fault')
    /\ UNCHANGED edits

Edit ==
    /\ edits < MaxEdits
    /\ \/ \E t \in Tables : batch[t] # << >> /\ batch' \in Reshaped(batch, t)
       \/ batch' \in Reworded(batch)
       \/ Unchecked /\ batch' \in Unusual(batch)
    /\ edits' = edits + 1
    /\ UNCHANGED fault

BatchNext == MakeFaulty \/ Edit

BatchSpec == BatchInit /\ [][BatchNext]_batchVars

-----------------------------------------------------------------------------
(* Properties *)

\* Each fault of the failure lab and of the managed scenarios is found under the code that is
\* expected of it, and in Spark no other check fails before that one.
FaultSignalled ==
    edits = 0 /\ fault # "none" =>
        Signal[fault] \in LocalCodes(batch) /\ SparkFailure(batch) = Signal[fault]

\* docs/correctness.md: the local kernel and the Spark job enforce the same rules, on batches of
\* several coincident faults too, and the job's failure is one of the kernel's violations.  With
\* Unchecked = FALSE the edits put in no null and no identifier with a colon: on nulls SQL's
\* comparisons are silent and Python's raise, identifiers with a colon the kernel confuses.
RulesAgree ==
    LET failure == SparkFailure(batch) IN
    /\ LocalPasses(batch) <=> failure = "none"
    /\ Numeric(batch) /\ failure # "none" => failure \in LocalCodes(batch)

\* The verdict does not depend on the order of the rows in a file, although the kernel
\* overwrites earlier rows of a dictionary and adds up stock as it goes.
RowOrderIrrelevant ==
    LocalPasses([t \in Tables |-> Reverse(batch[t])]) <=> LocalPasses(batch)
=============================================================================

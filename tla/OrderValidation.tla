-------------------------- MODULE OrderValidation --------------------------
(***************************************************************************)
(* The money of an order on its way from the request to the tables: what   *)
(* the DTO accepts and how the rest is answered, what Numeric(10, 2) makes *)
(* of it, and what the CHECKs then refuse.                                 *)
(*                                                                         *)
(* The DTO computes with exact decimals of any scale, here in mills (tenths *)
(* of a cent); the columns hold cents. What the DTO accepts and a CHECK    *)
(* refuses is what OrderService calls Unstorable.                          *)
(***************************************************************************)
EXTENDS Integers, Sequences

CONSTANTS
    Prices,         \* bound: the unit prices considered, in mills
    Quantities,     \* bound: the quantities
    Discounts,      \* bound: the discounts, in mills
    Differences,    \* bound: by how much a total is off the sum, in mills
    MaxItems,       \* bound: the items of an order
    Limit           \* Numeric(10, 2) holds less than this many cents

ASSUME MoneyAssumption ==
    /\ (Prices \cup Quantities \cup Discounts \cup Differences) \subseteq Int
    /\ MaxItems \in Nat /\ Limit \in Nat \ {0}

VARIABLES
    items,      \* the items of the request
    total,      \* its total_amount, in mills
    outcome,    \* how far the order has come
    rows        \* what the tables hold of it: its total, and a row per item

vars == <<items, total, outcome, rows>>

Cent == 10

\* A negative amount of each kind is among those considered.
Item ==
    [price : Prices \cup {-Cent}, quantity : Quantities, discount : Discounts \cup {-Cent}]

TotalOf(amounts) ==
    LET upTo[n \in 0 .. Len(amounts)] == IF n = 0 THEN 0 ELSE upTo[n - 1] + amounts[n]
    IN  upTo[Len(amounts)]

Subtotal(i) == i.price * i.quantity - i.discount

Calculated == TotalOf([n \in DOMAIN items |-> Subtotal(items[n])])

Distance(a, b) == IF a > b THEN a - b ELSE b - a

NoRows == [total |-> 0, items |-> <<>>]

Init ==
    /\ items \in UNION {[1 .. n -> Item] : n \in 1 .. MaxItems}
    /\ \E d \in Differences : total \in {Calculated - d, Calculated + d}
    /\ outcome = "received"
    /\ rows = NoRows

-----------------------------------------------------------------------------
(* Validation *)

\* Bug: the discount is not compared with the gross total.
BugItemRule(i) == {}

\* validate_discount_logic
ItemRule(i) == IF i.discount > i.price * i.quantity THEN {"discount exceeds gross"} ELSE {}

FieldErrors(i) ==
    (IF i.quantity > 0 THEN {} ELSE {"quantity"})
      \cup (IF i.price >= 0 THEN {} ELSE {"unit_price"})
      \cup (IF i.discount >= 0 THEN {} ELSE {"discount_amount"})

\* A model's own rule is asked once its fields are right.
ItemErrors(i) == IF FieldErrors(i) = {} THEN ItemRule(i) ELSE FieldErrors(i)

\* Bug: abs() is missing.
BugConsistent == Calculated - total <= Cent

\* validate_total_consistency: the difference is at most 0.01.
Consistent == Distance(total, Calculated) <= Cent

PartErrors ==
    (UNION {ItemErrors(items[n]) : n \in DOMAIN items})
      \cup (IF total > 0 THEN {} ELSE {"total_amount"})

Errors ==
    IF PartErrors = {} /\ ~Consistent THEN {"total does not match"} ELSE PartErrors

Validate ==
    /\ outcome = "received"
    /\ outcome' = IF Errors = {} THEN "accepted" ELSE "rejected"
    /\ UNCHANGED <<items, total, rows>>

\* The errors whose description is JSON: that of a rule holds the ValueError
\* itself, that of an amount its bound as a Decimal.
Printable == {"quantity"}

\* validation_exception_handler hands exc.errors() to JSONResponse: what json
\* cannot encode raises in the handler, and the catch-all answers.
Rejection ==
    IF Errors \subseteq Printable THEN "VALIDATION_ERROR" ELSE "INTERNAL_SERVER_ERROR"

-----------------------------------------------------------------------------
(* Storage *)

\* Bug: digits beyond the scale are cut off.
BugRounded(mills) == mills \div Cent

\* Bug: the columns are Numeric(10, 1).
BugCoarse(mills) == 10 * ((mills + 5 * Cent) \div (10 * Cent))

\* To cents, a half up. Nothing that is stored is negative.
Rounded(mills) == (mills + Cent \div 2) \div Cent

\* A row of order_items. The subtotal is computed before anything is rounded.
Row(i) ==
    [ price    |-> Rounded(i.price),
      quantity |-> i.quantity,
      discount |-> Rounded(i.discount),
      subtotal |-> Rounded(Subtotal(i)) ]

Written == [total |-> Rounded(total), items |-> [n \in DOMAIN items |-> Row(items[n])]]

\* numeric field overflow
Overflows(w) ==
    \/ w.total >= Limit
    \/ \E n \in DOMAIN w.items :
         \E column \in {"price", "discount", "subtotal"} : w.items[n][column] >= Limit

\* check_total_amount_positive: the order's row goes in before its items.
Positive(w) == w.total > 0

\* check_quantity_positive and check_unit_price_non_negative
ItemsChecked(w) ==
    \A n \in DOMAIN w.items : w.items[n].quantity > 0 /\ w.items[n].price >= 0

Store ==
    /\ outcome = "accepted"
    /\ \/ /\ ~Positive(Written) \/ (~Overflows(Written) /\ ~ItemsChecked(Written))
          /\ outcome' = "refused"
          /\ UNCHANGED rows
       \/ /\ Positive(Written)
          /\ Overflows(Written)
          /\ outcome' = "overflow"
          /\ UNCHANGED rows
       \/ /\ Positive(Written)
          /\ ~Overflows(Written)
          /\ ItemsChecked(Written)
          /\ outcome' = "stored"
          /\ rows' = Written
    /\ UNCHANGED <<items, total>>

Next == Validate \/ Store

Spec == Init /\ [][Next]_vars

-----------------------------------------------------------------------------
(* Properties. *)

Cents == 0 .. Limit - 1

\* The columns hold amounts of their type, none of them negative: the subtotal
\* too, which the model class gives a CHECK that no migration creates.
TypeOK ==
    /\ items \in Seq(Item) /\ total \in Int
    /\ outcome \in {"received", "rejected", "accepted", "refused", "overflow", "stored"}
    /\ rows.total \in Cents
    /\ rows.items \in
         Seq([price : Cents, quantity : Quantities, discount : Cents, subtotal : Cents])

\* What the DTO accepts and a CHECK refuses, a 500 for every retry, is an order
\* of less than half a cent and nothing else.
RefusedIsTiny == outcome = "refused" => 2 * total < Cent

\* create_order.py, "Validation: Handled by Pydantic & RequestValidationError
\* handler": what the DTO rejects is the client's fault and answered with 422.
RejectedIs422 == outcome = "rejected" => Rejection = "VALIDATION_ERROR"

\* The total of a stored order and its subtotals add up to a cent, and half a
\* cent for each rounding: an audit of the tables can rely on no more, since
\* the DTO's tolerance is not that of the tables.
StoredAddsUp ==
    outcome = "stored" =>
        2 * Distance(rows.total, TotalOf([n \in DOMAIN rows.items |-> rows.items[n].subtotal]))
          <= 2 + 1 + Len(rows.items)

\* A client that sends whole cents finds them in the tables, and every line of
\* the receipt adds up.
CentsAreExact ==
    /\ outcome = "stored"
    /\ \A n \in DOMAIN items : {items[n].price % Cent, items[n].discount % Cent} = {0}
    => \A n \in DOMAIN rows.items :
         /\ rows.items[n].price * Cent = items[n].price
         /\ rows.items[n].subtotal =
              rows.items[n].price * rows.items[n].quantity - rows.items[n].discount

=============================================================================

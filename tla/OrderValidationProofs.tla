----------------------- MODULE OrderValidationProofs -----------------------
(* Theorems about OrderValidation: for every set of prices, quantities,      *)
(* discounts and differences, orders of any length and columns of any width. *)
EXTENDS OrderValidation, WellFoundedInduction, TLAPS

(* Induction on numbers, in terms of sets. *)

\* A set of numbers that is not empty has a least one.
LEMMA LeastNumber ==
    ASSUME NEW T, T \subseteq Nat, T # {}
    PROVE  \E n \in T : \A m \in T : n <= m
<1> DEFINE R == {p \in Nat \X Nat : p[1] < p[2]}
<1>1. IsWellFoundedOn(R, Nat)
  BY NatLessThanWellFounded DEF OpToRel
<1> HIDE DEF R
<1>2. PICK n \in T : \A m \in T : ~(<<m, n>> \in R)
  BY <1>1, WFMin
<1>3. \A m \in T : <<m, n>> \in Nat \X Nat /\ ~(m < n)
  BY <1>2 DEF R
<1>4. ASSUME NEW m \in T PROVE n <= m
  <2>1. m \in Nat /\ n \in Nat /\ ~(m < n)
    BY <1>3
  <2>2. QED
    BY <2>1
<1>5. QED
  BY <1>4

\* A set with 0 and with the successor of each of its numbers has all numbers.
LEMMA Induction ==
    ASSUME NEW S, 0 \in S, \A n \in Nat \cap S : n + 1 \in S
    PROVE  Nat \subseteq S
<1>1. SUFFICES ASSUME Nat \ S # {} PROVE FALSE
  OBVIOUS
<1>2. PICK n \in Nat \ S : \A m \in Nat \ S : n <= m
  BY <1>1, LeastNumber
<1>3. n # 0
  BY <1>2
<1>4. n - 1 \in Nat /\ n - 1 \in S
  BY <1>2, <1>3
<1>5. QED
  BY <1>2, <1>4

-----------------------------------------------------------------------------
(* Sums. *)

Amounts(s) == Len(s) \in Nat /\ \A n \in 1 .. Len(s) : s[n] \in Int

\* What the function inside TotalOf has to satisfy.
PartialSums(s, f) == [n \in 0 .. Len(s) |-> IF n = 0 THEN 0 ELSE f[n - 1] + s[n]]

\* There are partial sums of every sequence of amounts.
LEMMA SumsExist ==
    ASSUME NEW s, Amounts(s)
    PROVE  \E f : f = PartialSums(s, f)
<1> DEFINE Sums(k, f) ==
             /\ f \in [0 .. k -> Int]
             /\ f[0] = 0
             /\ \A n \in 1 .. k : f[n] = f[n - 1] + s[n]
           S == {k \in Nat : k <= Len(s) => \E f : Sums(k, f)}
<1>1. 0 \in S
  <2> DEFINE z == [n \in 0 .. 0 |-> 0]
  <2>1. z \in [0 .. 0 -> Int] /\ z[0] = 0
    OBVIOUS
  <2>2. \A n \in 1 .. 0 : FALSE
    OBVIOUS
  <2> HIDE DEF z
  <2>3. Sums(0, z)
    BY <2>1, <2>2
  <2>4. QED
    BY <2>3
<1>2. ASSUME NEW k \in Nat \cap S PROVE k + 1 \in S
  <2>1. ASSUME k + 1 <= Len(s) PROVE \E f : Sums(k + 1, f)
    <3>1. k \in Nat /\ k <= Len(s) /\ k + 1 \in 1 .. Len(s)
      BY <2>1 DEF Amounts
    <3>2. PICK f : Sums(k, f)
      BY <1>2, <3>1
    <3> DEFINE g == [n \in 0 .. k + 1 |-> IF n = k + 1 THEN f[k] + s[k + 1] ELSE f[n]]
    <3>3. s[k + 1] \in Int /\ f[k] \in Int
      BY <3>1, <3>2 DEF Amounts
    <3>4. g \in [0 .. k + 1 -> Int]
      BY <3>1, <3>2, <3>3
    <3>5. g[0] = 0
      BY <3>2
    <3>6. ASSUME NEW n \in 1 .. k + 1 PROVE g[n] = g[n - 1] + s[n]
      <4>1. n \in 0 .. k + 1 /\ n - 1 \in 0 .. k /\ n - 1 \in 0 .. k + 1 /\ n - 1 # k + 1
        OBVIOUS
      <4>2. g[n - 1] = f[n - 1]
        BY <4>1
      <4>3. CASE n = k + 1
        BY <3>1, <4>1, <4>2, <4>3
      <4>4. CASE n # k + 1
        <5>1. n \in 1 .. k /\ g[n] = f[n]
          BY <4>1, <4>4
        <5>2. QED
          BY <3>2, <4>2, <5>1
      <4>5. QED
        BY <4>3, <4>4
    <3>7. QED
      BY <3>4, <3>5, <3>6
  <2> HIDE DEF Sums
  <2>2. QED
    BY <2>1
<1>3. Len(s) \in S
  <2> HIDE DEF S
  <2>1. Nat \subseteq S
    BY <1>1, <1>2, Induction
  <2>2. QED
    BY <2>1 DEF Amounts
<1>4. PICK f : Sums(Len(s), f)
  BY <1>3 DEF Amounts
<1>5. f = PartialSums(s, f)
  BY <1>4 DEF PartialSums, Amounts
<1>6. QED
  BY <1>5

\* The total is the last of the partial sums.
LEMMA TotalIs ==
    ASSUME NEW s, Amounts(s)
    PROVE  \E f : /\ f[0] = 0
                  /\ \A n \in 1 .. Len(s) : f[n] = f[n - 1] + s[n]
                  /\ TotalOf(s) = f[Len(s)]
<1> DEFINE f == CHOOSE g : g = PartialSums(s, g)
<1>1. f = PartialSums(s, f)
  BY SumsExist
<1>2. TotalOf(s) = f[Len(s)]
  BY DEF TotalOf, PartialSums
<1> HIDE DEF f
<1>3. f[0] = 0 /\ \A n \in 1 .. Len(s) : f[n] = f[n - 1] + s[n]
  BY <1>1 DEF PartialSums, Amounts
<1>4. QED
  BY <1>2, <1>3

LEMMA CloseStep ==
    ASSUME NEW n \in Nat, NEW a \in Int, NEW b \in Int, NEW x \in Int, NEW y \in Int,
           10 * b - a <= 5 * n, a - 10 * b <= 5 * n, 10 * y - x <= 5, x - 10 * y <= 5
    PROVE  /\ 10 * (b + y) - (a + x) <= 5 * (n + 1)
           /\ (a + x) - 10 * (b + y) <= 5 * (n + 1)
OBVIOUS

\* Amounts that are each within half a cent of the cents they are rounded to are
\* together within as many half cents as they are. With the amounts for the
\* cents, the total is an integer.
LEMMA TotalsClose ==
    ASSUME NEW s, NEW t, Amounts(s), Amounts(t), Len(s) = Len(t),
           \A n \in 1 .. Len(s) : 10 * t[n] - s[n] <= 5 /\ s[n] - 10 * t[n] <= 5
    PROVE  /\ TotalOf(s) \in Int /\ TotalOf(t) \in Int
           /\ 10 * TotalOf(t) - TotalOf(s) <= 5 * Len(s)
           /\ TotalOf(s) - 10 * TotalOf(t) <= 5 * Len(s)
<1>1. PICK f : /\ f[0] = 0
               /\ \A n \in 1 .. Len(s) : f[n] = f[n - 1] + s[n]
               /\ TotalOf(s) = f[Len(s)]
  BY TotalIs
<1>2. PICK g : /\ g[0] = 0
               /\ \A n \in 1 .. Len(t) : g[n] = g[n - 1] + t[n]
               /\ TotalOf(t) = g[Len(t)]
  BY TotalIs
<1> DEFINE Close(n) == /\ f[n] \in Int /\ g[n] \in Int
                       /\ 10 * g[n] - f[n] <= 5 * n /\ f[n] - 10 * g[n] <= 5 * n
           S == {n \in Nat : n <= Len(s) => Close(n)}
<1>3. 0 \in S
  BY <1>1, <1>2
<1>4. ASSUME NEW n \in Nat \cap S PROVE n + 1 \in S
  <2>1. SUFFICES ASSUME n + 1 <= Len(s) PROVE Close(n + 1)
    OBVIOUS
  <2>2. Close(n) /\ n + 1 \in 1 .. Len(s)
    BY <1>4, <2>1 DEF Amounts
  <2>3. f[n + 1] = f[n] + s[n + 1] /\ g[n + 1] = g[n] + t[n + 1]
    BY <1>1, <1>2, <2>2
  <2>4. s[n + 1] \in Int /\ t[n + 1] \in Int
    BY <2>2 DEF Amounts
  <2>5. 10 * t[n + 1] - s[n + 1] <= 5 /\ s[n + 1] - 10 * t[n + 1] <= 5
    BY <2>2
  <2>6. n \in Nat
    BY <1>4
  <2>7. f[n] \in Int /\ g[n] \in Int /\ 10 * g[n] - f[n] <= 5 * n /\ f[n] - 10 * g[n] <= 5 * n
    BY <2>2
  <2>8. /\ 10 * (g[n] + t[n + 1]) - (f[n] + s[n + 1]) <= 5 * (n + 1)
        /\ (f[n] + s[n + 1]) - 10 * (g[n] + t[n + 1]) <= 5 * (n + 1)
    BY <2>4, <2>5, <2>6, <2>7, CloseStep
  <2>9. /\ f[n + 1] \in Int /\ g[n + 1] \in Int
        /\ 10 * g[n + 1] - f[n + 1] <= 5 * (n + 1) /\ f[n + 1] - 10 * g[n + 1] <= 5 * (n + 1)
    <3>1. f[n] + s[n + 1] \in Int /\ g[n] + t[n + 1] \in Int
      BY <2>4, <2>7
    <3>2. QED
      BY <3>1, <2>3, <2>8, Zenon
  <2>10. QED
    BY <2>9
<1>5. Len(s) \in S
  <2> HIDE DEF S
  <2>1. Nat \subseteq S
    BY <1>3, <1>4, Induction
  <2>2. QED
    BY <2>1 DEF Amounts
<1>6. QED
  BY <1>1, <1>2, <1>5 DEF Amounts

LEMMA TotalType ==
    ASSUME NEW s, Amounts(s)
    PROVE  TotalOf(s) \in Int
<1>1. PICK f : /\ f[0] = 0
               /\ \A n \in 1 .. Len(s) : f[n] = f[n - 1] + s[n]
               /\ TotalOf(s) = f[Len(s)]
  BY TotalIs
<1> DEFINE S == {n \in Nat : n <= Len(s) => f[n] \in Int}
<1>2. 0 \in S
  BY <1>1
<1>3. ASSUME NEW n \in Nat \cap S PROVE n + 1 \in S
  <2>1. SUFFICES ASSUME n + 1 <= Len(s) PROVE f[n + 1] \in Int
    OBVIOUS
  <2>2. f[n] \in Int /\ n + 1 \in 1 .. Len(s)
    BY <1>3, <2>1 DEF Amounts
  <2>3. f[n + 1] = f[n] + s[n + 1]
    BY <1>1, <2>2
  <2>4. QED
    BY <2>2, <2>3 DEF Amounts
<1>4. Len(s) \in S
  <2> HIDE DEF S
  <2>1. Nat \subseteq S
    BY <1>2, <1>3, Induction
  <2>2. QED
    BY <2>1 DEF Amounts
<1>5. QED
  BY <1>1, <1>4 DEF Amounts

-----------------------------------------------------------------------------
(* Rounding. *)

\* The cents an amount is rounded to are within half a cent of it.
LEMMA RoundedClose ==
    ASSUME NEW m \in Int
    PROVE  /\ Rounded(m) \in Int
           /\ 10 * Rounded(m) - m <= 5 /\ m - 10 * Rounded(m) < 5
BY DEF Rounded, Cent

\* Whole cents are their own.
LEMMA RoundedExact ==
    ASSUME NEW c \in Int
    PROVE  Rounded(10 * c) = c
<1>1. 10 * c \in Int
  OBVIOUS
<1>2. /\ Rounded(10 * c) \in Int
      /\ 10 * Rounded(10 * c) - 10 * c <= 5 /\ 10 * c - 10 * Rounded(10 * c) < 5
  BY <1>1, RoundedClose
<1>3. QED
  BY <1>2

\* What is not negative stays so.
LEMMA RoundedNatural ==
    ASSUME NEW m \in Nat
    PROVE  Rounded(m) \in Nat
BY RoundedClose

-----------------------------------------------------------------------------

Validated == {"accepted", "refused", "overflow", "stored"}

\* What is past the DTO has no errors, and the tables hold what was written.
ValidationInv ==
    /\ items \in Seq(Item) /\ total \in Int
    /\ outcome \in Validated \cup {"received", "rejected"}
    /\ outcome \in Validated => Errors = {}
    /\ outcome = "refused" =>
         ~Positive(Written) \/ (~Overflows(Written) /\ ~ItemsChecked(Written))
    /\ IF outcome = "stored"
       THEN Positive(Written) /\ ~Overflows(Written) /\ rows = Written
       ELSE rows = NoRows

\* An item has integers, and so has its subtotal.
LEMMA ItemType ==
    ASSUME NEW i \in Item
    PROVE  /\ i.price \in Int /\ i.quantity \in Int /\ i.quantity \in Quantities
           /\ i.discount \in Int /\ i.price * i.quantity \in Int /\ Subtotal(i) \in Int
<1>1. i.price \in Int /\ i.quantity \in Int /\ i.quantity \in Quantities /\ i.discount \in Int
  BY MoneyAssumption DEF Item, Cent
<1>2. i.price * i.quantity \in Int
  BY <1>1
<1>3. QED
  BY <1>1, <1>2 DEF Subtotal

\* The total that is compared with the client's is an integer.
LEMMA CalculatedType ==
    ASSUME items \in Seq(Item)
    PROVE  /\ Amounts([n \in DOMAIN items |-> Subtotal(items[n])])
           /\ Calculated \in Int
<1> DEFINE s == [n \in DOMAIN items |-> Subtotal(items[n])]
<1>1. Len(items) \in Nat /\ DOMAIN items = 1 .. Len(items)
      /\ \A n \in 1 .. Len(items) : items[n] \in Item
  OBVIOUS
<1>2. Len(s) = Len(items)
  BY <1>1
<1>3. \A n \in 1 .. Len(items) : s[n] \in Int
  BY <1>1, ItemType
<1>4. Amounts(s)
  BY <1>1, <1>2, <1>3 DEF Amounts
<1>5. QED
  BY <1>4, TotalType DEF Calculated

\* What the DTO accepts has positive quantities, prices and discounts that are
\* not negative, and no discount above its gross total.
LEMMA Accepted ==
    ASSUME ValidationInv, outcome \in Validated
    PROVE  /\ total > 0 /\ Distance(total, Calculated) <= 10
           /\ \A n \in DOMAIN items :
                /\ items[n].quantity > 0 /\ items[n].price >= 0 /\ items[n].discount >= 0
                /\ Subtotal(items[n]) >= 0
<1>1. Errors = {}
  BY DEF ValidationInv
<1>2. PartErrors = {} /\ Consistent
  BY <1>1 DEF Errors
<1>3. total > 0
  <2>1. ~(total > 0) => "total_amount" \in PartErrors
    BY DEF PartErrors
  <2>2. QED
    BY <1>2, <2>1
<1>4. ASSUME NEW n \in DOMAIN items
      PROVE  /\ items[n].quantity > 0 /\ items[n].price >= 0 /\ items[n].discount >= 0
             /\ Subtotal(items[n]) >= 0
  <2>1. ItemErrors(items[n]) = {}
    BY <1>2 DEF PartErrors
  <2>2. FieldErrors(items[n]) = {} /\ ItemRule(items[n]) = {}
    BY <2>1 DEF ItemErrors
  <2>3. items[n].quantity > 0 /\ items[n].price >= 0 /\ items[n].discount >= 0
    BY <2>2 DEF FieldErrors
  <2>4. ~(items[n].discount > items[n].price * items[n].quantity)
    BY <2>2 DEF ItemRule
  <2>5. items[n] \in Item
    BY DEF ValidationInv
  <2>6. QED
    BY <2>3, <2>4, <2>5, ItemType DEF Subtotal
<1>5. QED
  BY <1>2, <1>3, <1>4 DEF Consistent, Cent

LEMMA InitValid == Init => ValidationInv
<1> SUFFICES ASSUME Init PROVE ValidationInv
  OBVIOUS
<1>1. items \in Seq(Item)
  <2>1. PICK k \in 1 .. MaxItems : items \in [1 .. k -> Item]
    BY DEF Init
  <2>2. k \in Nat
    BY <2>1
  <2>3. QED
    BY <2>1, <2>2
<1>2. total \in Int
  <2>1. PICK d \in Differences : total \in {Calculated - d, Calculated + d}
    BY DEF Init
  <2>2. d \in Int /\ Calculated \in Int
    BY <1>1, CalculatedType, MoneyAssumption
  <2>3. QED
    BY <2>1, <2>2
<1>3. QED
  BY <1>1, <1>2 DEF Init, ValidationInv, Validated

LEMMA ValidStep ==
    ASSUME ValidationInv, [Next]_vars
    PROVE  ValidationInv'
<1>1. UNCHANGED <<items, total>>
  BY DEF Next, Validate, Store, vars
<1>2. UNCHANGED <<Errors, Written>>
  BY <1>1
  DEF Errors, PartErrors, ItemErrors, FieldErrors, ItemRule, Consistent, Calculated, Subtotal,
      Written, Row, Rounded
<1>3. CASE UNCHANGED vars
  BY <1>2, <1>3 DEF vars, ValidationInv, Positive, Overflows, ItemsChecked
<1>4. CASE Validate
  BY <1>1, <1>2, <1>4 DEF Validate, ValidationInv, Validated
<1>5. CASE Store
  BY <1>1, <1>2, <1>5 DEF Store, ValidationInv, Validated, Positive, Overflows, ItemsChecked
<1>6. QED
  BY <1>3, <1>4, <1>5 DEF Next

\* Every order's way through the DTO and the tables keeps the invariant.
THEOREM ValidationCorrect == Spec => []ValidationInv
BY InitValid, ValidStep, PTL DEF Spec

\* The rows of an order that is stored are amounts of their columns.
LEMMA StoredTyped ==
    ASSUME ValidationInv, outcome = "stored"
    PROVE  /\ rows.total \in Cents
           /\ Len(rows.items) = Len(items)
           /\ rows.items \in
                Seq([price : Cents, quantity : Quantities, discount : Cents, subtotal : Cents])
<1>1. Positive(Written) /\ ~Overflows(Written) /\ rows = Written /\ Limit \in Nat
  BY MoneyAssumption DEF ValidationInv
<1>2. rows.total = Rounded(total) /\ rows.items = [n \in DOMAIN items |-> Row(items[n])]
  BY <1>1 DEF Written
<1>3. Rounded(total) \in Int
  BY RoundedClose DEF ValidationInv
<1>4. rows.total \in Cents
  BY <1>1, <1>2, <1>3 DEF Positive, Overflows, Cents
<1>5. ASSUME NEW n \in DOMAIN items
      PROVE  Row(items[n]) \in
               [price : Cents, quantity : Quantities, discount : Cents, subtotal : Cents]
  <2> DEFINE i == items[n]
  <2>1. i \in Item
    BY DEF ValidationInv
  <2>2. i.price \in Nat /\ i.discount \in Nat /\ Subtotal(i) \in Nat
    BY <2>1, ItemType, Accepted DEF Validated
  <2> HIDE DEF i
  <2>3. /\ Rounded(i.price) \in Nat /\ Rounded(i.discount) \in Nat
        /\ Rounded(Subtotal(i)) \in Nat
    BY <2>2, RoundedNatural
  <2>4. \A column \in {"price", "discount", "subtotal"} : ~(rows.items[n][column] >= Limit)
    BY <1>1, <1>2 DEF Overflows
  <2>5. rows.items[n] = Row(i)
    BY <1>2 DEF i
  <2>6. /\ Row(i)["price"] = Rounded(i.price) /\ Row(i)["discount"] = Rounded(i.discount)
        /\ Row(i)["subtotal"] = Rounded(Subtotal(i))
    BY DEF Row
  <2>7. Rounded(i.price) \in Cents /\ Rounded(i.discount) \in Cents
        /\ Rounded(Subtotal(i)) \in Cents
    BY <1>1, <2>3, <2>4, <2>5, <2>6 DEF Cents
  <2>8. QED
    BY <2>1, <2>7, ItemType DEF Row, i
<1>6. DOMAIN items = 1 .. Len(items) /\ Len(items) \in Nat
  BY DEF ValidationInv
<1>7. QED
  BY <1>2, <1>4, <1>5, <1>6

\* The columns hold amounts of their type, none of them negative.
THEOREM Typed == Spec => []TypeOK
<1>1. ValidationInv => TypeOK
  <2> SUFFICES ASSUME ValidationInv PROVE TypeOK
    OBVIOUS
  <2>1. CASE outcome = "stored"
    BY <2>1, StoredTyped DEF ValidationInv, TypeOK, Validated
  <2>2. CASE outcome # "stored"
    <3>1. rows.total = 0 /\ rows.items = <<>>
      BY <2>2 DEF ValidationInv, NoRows
    <3>2. 0 \in Cents
      BY MoneyAssumption DEF Cents
    <3>3. QED
      BY <3>1, <3>2 DEF ValidationInv, TypeOK, Validated
  <2>3. QED
    BY <2>1, <2>2
<1>2. QED
  BY <1>1, ValidationCorrect, PTL

\* What the DTO accepts and a CHECK refuses is an order of less than half a cent.
THEOREM RefusedTiny == Spec => []RefusedIsTiny
<1>1. ValidationInv => RefusedIsTiny
  <2> SUFFICES ASSUME ValidationInv, outcome = "refused" PROVE 2 * total < Cent
    BY DEF RefusedIsTiny
  <2>1. total \in Int
    BY DEF ValidationInv
  <2>2. ItemsChecked(Written)
    <3>1. ASSUME NEW n \in DOMAIN items
          PROVE  items[n].quantity > 0 /\ Rounded(items[n].price) >= 0
      <4>1. items[n].quantity > 0 /\ items[n].price >= 0
        BY Accepted DEF Validated
      <4>2. items[n].price \in Int
        BY ItemType DEF ValidationInv
      <4>3. QED
        BY <4>1, <4>2, RoundedNatural
    <3>2. QED
      BY <3>1 DEF ItemsChecked, Written, Row
  <2>3. ~(Rounded(total) > 0)
    BY <2>2 DEF ValidationInv, Positive, Written
  <2>4. QED
    BY <2>1, <2>3, RoundedClose DEF Cent
<1>2. QED
  BY <1>1, ValidationCorrect, PTL

\* The total of a stored order and its subtotals, however many, add up to a cent
\* and half a cent for each rounding.
THEOREM StoredSum == Spec => []StoredAddsUp
<1>1. ValidationInv => StoredAddsUp
  <2> SUFFICES ASSUME ValidationInv, outcome = "stored"
               PROVE  2 * Distance(rows.total,
                                   TotalOf([n \in DOMAIN rows.items |-> rows.items[n].subtotal]))
                        <= 2 + 1 + Len(rows.items)
    BY DEF StoredAddsUp
  <2> DEFINE s == [n \in DOMAIN items |-> Subtotal(items[n])]
             t == [n \in DOMAIN rows.items |-> rows.items[n].subtotal]
             k == Len(items)
  <2>1. /\ k \in Nat /\ DOMAIN items = 1 .. k /\ total \in Int
        /\ \A n \in 1 .. k : items[n] \in Item
    BY DEF ValidationInv
  <2>2. /\ rows.total = Rounded(total) /\ Len(rows.items) = k /\ DOMAIN rows.items = 1 .. k
        /\ \A n \in 1 .. k : rows.items[n].subtotal = Rounded(Subtotal(items[n]))
    BY <2>1 DEF ValidationInv, Written, Row
  <2>3. Amounts(s) /\ Len(s) = k /\ \A n \in 1 .. k : s[n] = Subtotal(items[n])
    BY <2>1, CalculatedType DEF ValidationInv
  <2>4. \A n \in 1 .. k : t[n] = Rounded(s[n])
    BY <2>2, <2>3
  <2>5. Len(t) = k
    BY <2>1, <2>2
  <2>6. TotalOf(s) = Calculated
    BY DEF Calculated
  <2>. HIDE DEF s, t, k
  <2>7. \A n \in 1 .. k : s[n] \in Int
    BY <2>3 DEF Amounts
  <2>8. \A n \in 1 .. k : t[n] \in Int /\ 10 * t[n] - s[n] <= 5 /\ s[n] - 10 * t[n] <= 5
    <3>1. SUFFICES ASSUME NEW n \in 1 .. k
                   PROVE  t[n] \in Int /\ 10 * t[n] - s[n] <= 5 /\ s[n] - 10 * t[n] <= 5
      OBVIOUS
    <3>2. s[n] \in Int /\ t[n] = Rounded(s[n])
      BY <2>4, <2>7
    <3>3. /\ Rounded(s[n]) \in Int
          /\ 10 * Rounded(s[n]) - s[n] <= 5 /\ s[n] - 10 * Rounded(s[n]) < 5
      BY <3>2, RoundedClose
    <3>4. QED
      BY <3>2, <3>3
  <2>9. Amounts(t)
    BY <2>1, <2>5, <2>8 DEF Amounts
  <2>10. /\ TotalOf(s) \in Int /\ TotalOf(t) \in Int
         /\ 10 * TotalOf(t) - TotalOf(s) <= 5 * k
         /\ TotalOf(s) - 10 * TotalOf(t) <= 5 * k
    BY <2>3, <2>5, <2>8, <2>9, TotalsClose
  <2>11. /\ Rounded(total) \in Int
         /\ 10 * Rounded(total) - total <= 5 /\ total - 10 * Rounded(total) <= 5
    <3>1. total \in Int
      BY <2>1
    <3>2. /\ Rounded(total) \in Int
          /\ 10 * Rounded(total) - total <= 5 /\ total - 10 * Rounded(total) < 5
      BY <3>1, RoundedClose
    <3>3. QED
      BY <3>1, <3>2
  <2>12. Distance(total, TotalOf(s)) <= 10
    BY <2>6, Accepted DEF Validated
  <2>13. 2 * Distance(Rounded(total), TotalOf(t)) <= 3 + k
    BY <2>1, <2>10, <2>11, <2>12 DEF Distance
  <2>14. QED
    BY <2>2, <2>13 DEF t
<1>2. QED
  BY <1>1, ValidationCorrect, PTL

\* Whole cents of the client are in the tables, and every line of the receipt
\* adds up.
THEOREM Exact == Spec => []CentsAreExact
<1>1. ValidationInv => CentsAreExact
  <2> SUFFICES ASSUME ValidationInv, outcome = "stored",
                      \A n \in DOMAIN items :
                        {items[n].price % Cent, items[n].discount % Cent} = {0},
                      NEW n \in DOMAIN rows.items
               PROVE  /\ rows.items[n].price * Cent = items[n].price
                      /\ rows.items[n].subtotal =
                           rows.items[n].price * rows.items[n].quantity - rows.items[n].discount
    BY DEF CentsAreExact
  <2> DEFINE i == items[n]
  <2>1. n \in DOMAIN items /\ i \in Item /\ rows.items[n] = Row(i)
    BY DEF ValidationInv, Written
  <2>2. i.price % 10 = 0 /\ i.discount % 10 = 0
    BY <2>1 DEF Cent
  <2> HIDE DEF i
  <2>3. i.price \in Int /\ i.quantity \in Int /\ i.discount \in Int
    BY <2>1, ItemType
  <2>4. PICK p \in Int, d \in Int : i.price = 10 * p /\ i.discount = 10 * d
    <3>1. i.price = 10 * (i.price \div 10) /\ i.price \div 10 \in Int
      BY <2>2, <2>3
    <3>2. i.discount = 10 * (i.discount \div 10) /\ i.discount \div 10 \in Int
      BY <2>2, <2>3
    <3>3. QED
      BY <3>1, <3>2
  <2>5. p * i.quantity \in Int /\ (10 * p) * i.quantity = 10 * (p * i.quantity)
    BY <2>3, <2>4
  <2>6. Subtotal(i) = 10 * (p * i.quantity - d)
    BY <2>4, <2>5 DEF Subtotal
  <2>7. /\ Rounded(i.price) = p /\ Rounded(i.discount) = d
        /\ Rounded(Subtotal(i)) = p * i.quantity - d
    BY <2>4, <2>5, <2>6, RoundedExact
  <2>8. QED
    BY <2>1, <2>4, <2>7 DEF Row, Cent, i
<1>2. QED
  BY <1>1, ValidationCorrect, PTL

=============================================================================

----------------------------- MODULE OfferProofs ------------------------------
(***************************************************************************)
(* What holds of what the administration offers in the store, for every    *)
(* instance: of adjustments of prices, for every price, percentage and set *)
(* of variants, lines and employees; of the photographs of a product; of   *)
(* the campaigns. No part uses another.                                    *)
(***************************************************************************)
EXTENDS Prices, SequenceTheorems, NaturalsInduction, WellFoundedInduction, TLAPS

CONSTANTS
    Windows, MaxImages, AtFirst, Photos, Patient, MaxSaves, MaxFailures,  \* photographs
    Ids, Slugs, Typed, Blank, trimUpper, Limits, Horizon, MaxForms,
    Requests, Entries, Singles, MaxChanges                                \* campaigns
VARIABLES
    images, text, window, upload, saving, photos, removed, saves, failures,
    promotion, asked, form, today, forms, sent

Gallery == INSTANCE ProductImages WITH request <- saving
Campaigns == INSTANCE PromotionDesk WITH request <- asked, now <- today
-----------------------------------------------------------------------------
(* The arithmetic.                                                         *)

\* What Math.round gives, told without the division: a half goes either way.
LEMMA Quotient ==
    ASSUME NEW a \in Nat, NEW b \in Nat \ {0}, NEW double
    PROVE  LET q == roundedQuotient(a, b, double)
           IN  q \in Nat /\ 2 * (b * q) <= 2 * a + b /\ 2 * a + b <= 2 * (b * q) + 2 * b
<1> DEFINE n == 2 * a + b
           d == 2 * b
<1>1. n \in Nat \ {0} /\ d \in Nat \ {0}
  OBVIOUS
<1>2. roundedQuotient(a, b, double) = n \div d - IF n % d = 0 /\ double \in Dropped THEN 1 ELSE 0
  BY Zenon DEF roundedQuotient, isHalf
<1> HIDE DEF n, d
<1>3. n \div d \in Nat /\ n = d * (n \div d) + (n % d) /\ n % d \in Nat /\ n % d < d
  BY <1>1
<1> PICK k : k = n \div d
  OBVIOUS
<1> PICK q : q = roundedQuotient(a, b, double)
  OBVIOUS
<1>4. k \in Nat /\ n = d * k + (n % d) /\ n % d \in Nat /\ n % d < d
  BY <1>3
<1>5. q \in Nat /\ d * q <= n /\ n <= d * q + d
  <2>1. CASE n % d = 0 /\ double \in Dropped
    <3>1. q = k - 1
      BY <1>2, <2>1
    <3>2. k # 0
      BY <1>1, <1>4, <2>1
    <3>3. q \in Nat /\ d * k = d * q + d
      BY <1>1, <1>4, <3>1, <3>2
    <3>4. n = d * q + d
      BY <1>1, <1>4, <2>1, <3>3
    <3> QED
      BY <1>1, <3>3, <3>4
  <2>2. CASE ~(n % d = 0 /\ double \in Dropped)
    <3>1. q = k
      BY <1>2, <1>4, <2>2
    <3> QED
      BY <1>1, <1>4, <3>1
  <2> QED
    BY <2>1, <2>2
<1>6. d * q = 2 * (b * q)
  BY <1>5 DEF d
<1> QED
  BY <1>5, <1>6 DEF n, d

LEMMA QuotientGrows ==
    ASSUME NEW a \in Nat, NEW c \in Nat, NEW b \in Nat \ {0}, a < c,
           NEW double, NEW other
    PROVE  roundedQuotient(a, b, double) <= roundedQuotient(c, b, other)
<1> PICK q : q = roundedQuotient(a, b, double)
  OBVIOUS
<1> PICK r : r = roundedQuotient(c, b, other)
  OBVIOUS
<1>1. /\ q \in Nat /\ 2 * (b * q) <= 2 * a + b
      /\ r \in Nat /\ 2 * c + b <= 2 * (b * r) + 2 * b
  BY Quotient
<1>2. b * q < b * r + b
  <2> DEFINE x == b * q
             y == b * r
  <2>1. x \in Int /\ y \in Int
    BY <1>1
  <2> HIDE DEF x, y
  <2>2. 2 * x <= 2 * a + b /\ 2 * c + b <= 2 * y + 2 * b
    BY <1>1 DEF x, y
  <2>3. x < y + b
    BY <2>1, <2>2
  <2> QED
    BY <2>3 DEF x, y
<1>3. ASSUME q >= r + 1 PROVE FALSE
  <2>1. b * q >= b * (r + 1)
    BY <1>1, <1>3
  <2>2. b * (r + 1) = b * r + b
    BY <1>1
  <2> QED
    BY <1>1, <1>2, <2>1, <2>2
<1> QED
  BY <1>1, <1>3

Directions == {"INCREASE", "DECREASE"}

LEMMA Factors ==
    ASSUME NEW direction \in Directions, NEW percentage, validPercentage(direction, percentage),
           NEW rounding \in Roundings
    PROVE  /\ multiplier(direction, percentage) \in Nat \ {0}
           /\ direction = "INCREASE" => multiplier(direction, percentage) >= 10000
           /\ direction = "DECREASE" => multiplier(direction, percentage) <= 10000
           /\ roundingIncrement[rounding] \in Nat \ {0}
           /\ 10000 * roundingIncrement[rounding] \in Nat \ {0}
<1>1. roundingIncrement[rounding] \in {1, 100, 500, 1000}
  BY DEF Roundings, roundingIncrement
<1> QED
  BY <1>1 DEF Directions, validPercentage, multiplier

LEMMA Products == ASSUME NEW a \in Nat, NEW b \in Nat PROVE a * b \in Nat
OBVIOUS

\* 'nunca genera un precio menor a un centavo' (price-adjustment.spec.ts:46): for
\* every price, percentage and rounding.
THEOREM AdjustedCostsACent ==
    ASSUME NEW price \in Nat, NEW direction \in Directions, NEW percentage,
           validPercentage(direction, percentage), NEW rounding \in Roundings
    PROVE  /\ calculateAdjustedPriceCents(price, direction, percentage, rounding) \in Nat
           /\ calculateAdjustedPriceCents(price, direction, percentage, rounding) >= 1
<1> DEFINE m == multiplier(direction, percentage)
           i == roundingIncrement[rounding]
           q == roundedQuotient(price * m, 10000 * i, <<price, m, i>>)
<1>1. m \in Nat /\ i \in Nat \ {0} /\ 10000 * i \in Nat \ {0}
  BY Factors
<1> HIDE DEF m, i
<1>2. q \in Nat
  BY <1>1, Products, Quotient
<1> HIDE DEF q
<1>3. q * i \in Nat
  BY <1>1, <1>2, Products
<1>4. calculateAdjustedPriceCents(price, direction, percentage, rounding) = atLeastACent(q * i)
  BY DEF calculateAdjustedPriceCents, m, i, q
<1> QED
  BY <1>3, <1>4 DEF atLeastACent

\* What was dearer does not get cheaper than what it was dearer than, whatever the
\* percentage, however coarse the rounding and wherever doubles put a half.
THEOREM AdjustmentKeepsOrder ==
    ASSUME NEW price \in Nat, NEW other \in Nat, price <= other,
           NEW direction \in Directions, NEW percentage,
           validPercentage(direction, percentage), NEW rounding \in Roundings
    PROVE  calculateAdjustedPriceCents(price, direction, percentage, rounding)
              <= calculateAdjustedPriceCents(other, direction, percentage, rounding)
<1> DEFINE m == multiplier(direction, percentage)
           i == roundingIncrement[rounding]
           q == roundedQuotient(price * m, 10000 * i, <<price, m, i>>)
           r == roundedQuotient(other * m, 10000 * i, <<other, m, i>>)
<1>1. m \in Nat \ {0} /\ i \in Nat \ {0} /\ 10000 * i \in Nat \ {0}
  BY Factors
<1> HIDE DEF m, i
<1>2. price * m \in Nat /\ other * m \in Nat
  BY <1>1, Products
<1>3. ASSUME price < other PROVE price * m < other * m
  <2>1. other = price + (other - price) /\ other - price \in Nat \ {0}
    BY <1>3
  <2>2. other * m = price * m + (other - price) * m
    BY <1>1, <2>1
  <2>3. (other - price) * m > 0
    BY <1>1, <2>1
  <2> QED
    BY <1>1, <1>2, <2>1, <2>2, <2>3
<1>4. q \in Nat /\ r \in Nat /\ q <= r
  <2>1. q \in Nat /\ r \in Nat
    BY <1>1, <1>2, Quotient
  <2>2. CASE price = other
    BY <2>1, <2>2
  <2>3. CASE price < other
    <3> DEFINE a == price * m
               c == other * m
               b == 10000 * i
    <3>1. a \in Nat /\ c \in Nat /\ a < c /\ b \in Nat \ {0}
      BY <1>1, <1>2, <1>3, <2>3
    <3> HIDE DEF a, b, c
    <3>2. roundedQuotient(a, b, <<price, m, i>>) <= roundedQuotient(c, b, <<other, m, i>>)
      BY <3>1, QuotientGrows
    <3> QED
      BY <2>1, <3>2 DEF a, b, c
  <2>4. price = other \/ price < other
    OBVIOUS
  <2> HIDE DEF q, r
  <2> QED
    BY <2>1, <2>2, <2>3, <2>4
<1> HIDE DEF q, r
<1>5. q * i \in Nat /\ r * i \in Nat /\ q * i <= r * i
  BY <1>1, <1>4
<1>6. /\ calculateAdjustedPriceCents(price, direction, percentage, rounding) = atLeastACent(q * i)
      /\ calculateAdjustedPriceCents(other, direction, percentage, rounding) = atLeastACent(r * i)
  BY DEF calculateAdjustedPriceCents, m, i, q, r
<1> QED
  BY <1>5, <1>6 DEF atLeastACent

\* Rounded to the cent, as the page rounds, an increase makes nothing cheaper and a
\* decrease nothing dearer, except that what was free costs a cent.
THEOREM AdjustmentGoesItsWay ==
    ASSUME NEW price \in Nat, NEW direction \in Directions, NEW percentage,
           validPercentage(direction, percentage)
    PROVE  LET next == calculateAdjustedPriceCents(price, direction, percentage, "CENT")
           IN  /\ direction = "INCREASE" => next >= price
               /\ direction = "DECREASE" /\ price > 0 => next <= price
<1> DEFINE m == multiplier(direction, percentage)
           q == roundedQuotient(price * m, 10000, <<price, m, 1>>)
<1>1. "CENT" \in Roundings /\ roundingIncrement["CENT"] = 1
  BY DEF Roundings, roundingIncrement
<1>2. m \in Nat /\ (direction = "INCREASE" => m >= 10000) /\ (direction = "DECREASE"
      => m <= 10000)
  BY <1>1, Factors
<1> HIDE DEF m
<1>3. price * m \in Nat
  BY <1>2, Products
<1>4. q \in Nat /\ 2 * (10000 * q) <= 2 * (price * m) + 10000
      /\ 2 * (price * m) + 10000 <= 2 * (10000 * q) + 20000
  BY <1>3, Quotient
<1> HIDE DEF q
<1>5. calculateAdjustedPriceCents(price, direction, percentage, "CENT") = atLeastACent(q)
  <2>1. calculateAdjustedPriceCents(price, direction, percentage, "CENT")
           = atLeastACent(roundedQuotient(price * m, 10000 * 1, <<price, m, 1>>) * 1)
    BY <1>1 DEF calculateAdjustedPriceCents, m
  <2>2. roundedQuotient(price * m, 10000 * 1, <<price, m, 1>>) * 1 = q
    BY <1>4 DEF q
  <2> QED
    BY <2>1, <2>2
<1>6. direction = "INCREASE" => q >= price
  <2>1. direction = "INCREASE" => price * m >= price * 10000
    BY <1>2
  <2> QED
    BY <1>3, <1>4, <2>1
<1>7. direction = "DECREASE" => q <= price
  <2>1. direction = "DECREASE" => price * m <= price * 10000
    BY <1>2
  <2> QED
    BY <1>3, <1>4, <2>1
<1> QED
  BY <1>4, <1>5, <1>6, <1>7 DEF atLeastACent
-----------------------------------------------------------------------------
(* What an adjustment is going to write.                                   *)

VariantRow == [price : Price, compare : Price]
PolicyRow == [fixed : BOOLEAN, price : Price \ {0}, active : BOOLEAN]
RowTypes ==
    /\ variant \in [Variants -> VariantRow]
    /\ policy \in [Lines -> PolicyRow]

\* The row of a variant after an adjustment.
NextRow(input, v) ==
    [price |-> adjusted(input, variant[v].price), compare |-> nextCompareAt(input, variant[v])]
Priced(input, v) ==
    /\ v \in selected(input) /\ ~isFixed(Line(v))
    /\ variant[v].price # None /\ variant[v].price # 0

LEMMA AdjustedPrice ==
    ASSUME PricesAssumption, NEW input \in Inputs, NEW price \in Nat
    PROVE  adjusted(input, price) \in Nat \ {0}
<1>1. "CENT" \in Roundings
  BY DEF Roundings, roundingIncrement
<1> PICK a : a = calculateAdjustedPriceCents(price, input.direction, input.percentage, "CENT")
  OBVIOUS
<1>2. a \in Nat /\ a >= 1
  BY <1>1, AdjustedCostsACent DEF PricesAssumption, Directions
<1> QED
  BY <1>2 DEF adjusted

LEMMA PriceOf ==
    ASSUME PricesAssumption, NEW price \in Price
    PROVE  price = None \/ (price \in Nat /\ price <= MaxPrice /\ price # None)
BY DEF PricesAssumption, Price

LEMMA NextRowIs ==
    ASSUME PricesAssumption, RowTypes, NEW input \in Inputs, NEW v \in Variants,
           Priced(input, v)
    PROVE  LET n == NextRow(input, v)
           IN  /\ n.price = adjusted(input, variant[v].price) /\ n.price \in Nat \ {0}
               /\ n.compare = nextCompareAt(input, variant[v])
               /\ n.compare = None \/ (n.compare \in Nat /\ n.compare >= n.price)
<1> DEFINE p == variant[v].price
           c == variant[v].compare
<1>1. variant[v] \in VariantRow /\ p \in Price /\ c \in Price
  BY DEF RowTypes, VariantRow
<1>2. p \in Nat /\ (c = None \/ c \in Nat)
  BY <1>1, PriceOf DEF Priced
<1> HIDE DEF p, c
<1>3. /\ adjusted(input, p) \in Nat \ {0}
      /\ c \in Nat => adjusted(input, c) \in Nat \ {0}
  BY <1>2, AdjustedPrice
<1> PICK a : a = adjusted(input, p)
  OBVIOUS
<1> PICK b : b = adjusted(input, c)
  OBVIOUS
<1>4. a \in Nat \ {0} /\ (c \in Nat => b \in Nat \ {0})
  BY <1>3
<1>5. nextCompareAt(input, variant[v]) = IF c = None THEN None ELSE IF b < a THEN a ELSE b
  BY DEF nextCompareAt, p, c
<1>6. nextCompareAt(input, variant[v]) = None \/
         (nextCompareAt(input, variant[v]) \in Nat /\ nextCompareAt(input, variant[v]) >= a)
  BY <1>2, <1>4, <1>5
<1>7. a = adjusted(input, variant[v].price)
  BY DEF p
<1> QED
  BY <1>4, <1>6, <1>7 DEF NextRow

LEMMA VariantChange ==
    ASSUME NEW input
    PROVE  /\ \A c \in variantChanges(input) : \E v \in Variants :
                 /\ Priced(input, v) /\ c.variant = v /\ c.next = NextRow(input, v)
           /\ \A v \in Variants : Priced(input, v) /\ NextRow(input, v) # variant[v] =>
                 \E c \in variantChanges(input) : c.variant = v
<1> DEFINE row(v) == [price |-> adjusted(input, variant[v].price),
                      compare |-> nextCompareAt(input, variant[v])]
           change(v) == [variant |-> v, current |-> variant[v], next |-> row(v)]
<1>1. \A v : v \in selected(input) => v \in Variants
  BY DEF selected
<1>2. variantChanges(input) = {change(v) : v \in {w \in Variants : Priced(input, w)
      /\ row(w) # variant[w]}}
  <2>1. {v \in selected(input) : ~isFixed(Line(v)) /\ variant[v].price \notin {None, 0}}
           = {v \in Variants : Priced(input, v)}
    BY <1>1 DEF Priced
  <2> QED
    BY <2>1 DEF variantChanges
<1>3. \A v : row(v) = NextRow(input, v)
  BY DEF NextRow
<1>4. \A v : change(v).variant = v /\ change(v).next = row(v)
  OBVIOUS
<1> HIDE DEF row, change
<1>5. ASSUME NEW c \in variantChanges(input)
      PROVE  \E v \in Variants : Priced(input, v) /\ c.variant = v /\ c.next = NextRow(input, v)
  <2>1. PICK v \in Variants : Priced(input, v) /\ c = change(v)
    BY <1>2
  <2> QED
    BY <1>3, <1>4, <2>1
<1>6. ASSUME NEW v \in Variants, Priced(input, v), NextRow(input, v) # variant[v]
      PROVE  \E c \in variantChanges(input) : c.variant = v
  <2>1. change(v) \in variantChanges(input)
    BY <1>2, <1>3, <1>6
  <2> QED
    BY <1>4, <2>1
<1> QED
  BY <1>5, <1>6

LEMMA PolicyChange ==
    ASSUME NEW input
    PROVE  /\ \A c \in policyChanges(input) : \E v \in selected(input) :
                 /\ c.line = Line(v) /\ isFixed(Line(v)) /\ canUpdateFixedPolicies(input)
                 /\ c.next = adjusted(input, policy[Line(v)].price)
           /\ \A v \in selected(input) :
                 /\ isFixed(Line(v)) /\ canUpdateFixedPolicies(input)
                 /\ adjusted(input, policy[Line(v)].price) # policy[Line(v)].price
                 => \E c \in policyChanges(input) : c.line = Line(v)
<1> DEFINE next(l) == adjusted(input, policy[l].price)
           change(l) == [line |-> l, current |-> policy[l].price, next |-> next(l)]
           changed(l) == isFixed(l) /\ canUpdateFixedPolicies(input) /\ next(l) # policy[l].price
<1>1. policyChanges(input)
         = {change(l) : l \in {k \in {Line(v) : v \in selected(input)} : changed(k)}}
  BY DEF policyChanges
<1>2. \A l : change(l).line = l /\ change(l).next = next(l)
  OBVIOUS
<1> HIDE DEF change
<1>3. ASSUME NEW c \in policyChanges(input)
      PROVE  \E v \in selected(input) :
                 /\ c.line = Line(v) /\ isFixed(Line(v)) /\ canUpdateFixedPolicies(input)
                 /\ c.next = next(Line(v))
  <2>1. PICK l \in {Line(v) : v \in selected(input)} : changed(l) /\ c = change(l)
    BY <1>1
  <2>2. PICK v \in selected(input) : l = Line(v)
    BY <2>1
  <2> QED
    BY <1>2, <2>1, <2>2
<1>4. ASSUME NEW v \in selected(input), changed(Line(v))
      PROVE  \E c \in policyChanges(input) : c.line = Line(v)
  <2>1. change(Line(v)) \in policyChanges(input)
    BY <1>1, <1>4
  <2> QED
    BY <1>2, <2>1
<1> QED
  BY <1>3, <1>4
-----------------------------------------------------------------------------
(* The invariant: what the rows hold, and what is under way for an         *)
(* employee was made from inputs that may be entered.                      *)

PlanSays(p) ==
    /\ p.input \in Inputs
    /\ \A c \in p.variants : /\ c.next \in VariantRow /\ c.next.price # None
                             /\ c.next.compare # None => c.next.compare >= c.next.price
    /\ \A c \in p.policies : c.next \in 1..MaxPrice
RequestSays(r) ==
    /\ r.at = "bulk" => r.variant \in Variants /\ r.price \in {0, 2} /\ r.compare \in {None, 1}
    /\ r.at = "apply" => r.input \in Inputs
    /\ r.at = "write" => PlanSays(r.plan)
RequestsSay ==
    /\ request = [e \in Employees |-> request[e]]
    /\ \A e \in Employees : RequestSays(request[e])
PagesShow ==
    page \in [Employees -> [form : Inputs, preview : Inputs \cup {None},
                            asking : Inputs \cup {None}, applying : BOOLEAN]]
PriceInv == RowTypes /\ FixedHasPrice /\ RequestsSay /\ PagesShow

LEMMA Handled ==
    ASSUME RequestsSay, NEW e \in Employees, NEW record, Handle(e, record), RequestSays(record)
    PROVE  RequestsSay'
<1>1. request' = [x \in Employees |-> IF x = e THEN record ELSE request[x]]
  BY DEF RequestsSay, Handle
<1>2. ASSUME NEW x \in Employees PROVE RequestSays(request'[x])
  BY <1>1 DEF RequestsSay
<1> QED
  BY <1>1, <1>2 DEF RequestsSay

LEMMA PlannedSays ==
    ASSUME PricesAssumption, RowTypes, NEW input \in Inputs, InBound(plan(input))
    PROVE  PlanSays(plan(input))
<1>1. /\ plan(input).input = input
      /\ plan(input).variants = variantChanges(input)
      /\ plan(input).policies = policyChanges(input)
  BY DEF plan
<1>2. ASSUME NEW c \in variantChanges(input)
      PROVE  /\ c.next \in VariantRow /\ c.next.price # None
             /\ c.next.compare # None => c.next.compare >= c.next.price
  <2>1. PICK v \in Variants : Priced(input, v) /\ c.next = NextRow(input, v)
    BY <1>2, VariantChange
  <2> PICK n : n = NextRow(input, v)
    OBVIOUS
  <2>2. /\ n.price \in Nat \ {0}
        /\ n.compare = None \/ (n.compare \in Nat /\ n.compare >= n.price)
    BY <2>1, NextRowIs
  <2>3. n.price <= MaxPrice /\ n.compare \in (0..MaxPrice) \cup {None}
    BY <1>1, <1>2, <2>1 DEF InBound
  <2>4. n = [price |-> n.price, compare |-> n.compare]
    BY DEF NextRow
  <2>5. n.price \in Price /\ n.compare \in Price /\ n.price # None
    BY <2>2, <2>3 DEF Price, PricesAssumption
  <2>6. n \in VariantRow
    BY <2>4, <2>5 DEF VariantRow
  <2> QED
    BY <2>1, <2>2, <2>5, <2>6
<1>3. ASSUME NEW c \in policyChanges(input)
      PROVE  c.next \in 1..MaxPrice
  <2>1. PICK v \in selected(input) :
           isFixed(Line(v)) /\ c.next = adjusted(input, policy[Line(v)].price)
    BY <1>3, PolicyChange
  <2>2. Line(v) \in Lines
    BY <2>1 DEF selected, Lines
  <2>3. policy[Line(v)].price \in Price /\ policy[Line(v)].price # None
    BY <2>1, <2>2 DEF RowTypes, PolicyRow, isFixed
  <2>4. policy[Line(v)].price \in Nat
    BY <2>3, PriceOf
  <2>5. c.next \in Nat \ {0} /\ c.next <= MaxPrice
    BY <1>1, <1>3, <2>1, <2>4, AdjustedPrice DEF InBound
  <2> QED
    BY <2>5 DEF PricesAssumption
<1> QED
  BY <1>1, <1>2, <1>3 DEF PlanSays

\* Each written row is the old one or one of the plan.
LEMMA Written ==
    ASSUME NEW p
    PROVE  /\ \A v \in Variants : \/ writtenVariant(p, v) = variant[v]
                                  \/ \E c \in p.variants : c.variant = v /\ writtenVariant(p, v) = c.next
           /\ \A l \in Lines :
                 \/ writtenPolicy(p, l) = policy[l]
                 \/ \E c \in p.policies : /\ c.line = l
                                          /\ writtenPolicy(p, l) = [policy[l] EXCEPT !.price = c.next]
<1>1. ASSUME NEW v \in Variants
      PROVE  \/ writtenVariant(p, v) = variant[v]
             \/ \E c \in p.variants : c.variant = v /\ writtenVariant(p, v) = c.next
  <2>1. CASE \E c \in p.variants : c.variant = v
    <3> DEFINE c == CHOOSE d \in p.variants : d.variant = v
    <3>1. c \in p.variants /\ c.variant = v
      BY <2>1
    <3>2. writtenVariant(p, v) = c.next
      BY <2>1 DEF writtenVariant
    <3> QED
      BY <3>1, <3>2
  <2>2. CASE ~ \E c \in p.variants : c.variant = v
    BY <2>2 DEF writtenVariant
  <2> QED
    BY <2>1, <2>2
<1>2. ASSUME NEW l \in Lines
      PROVE  \/ writtenPolicy(p, l) = policy[l]
             \/ \E c \in p.policies : /\ c.line = l
                                      /\ writtenPolicy(p, l) = [policy[l] EXCEPT !.price = c.next]
  <2>1. CASE \E c \in p.policies : c.line = l
    <3> DEFINE c == CHOOSE d \in p.policies : d.line = l
    <3>1. c \in p.policies /\ c.line = l
      BY <2>1
    <3>2. writtenPolicy(p, l) = [policy[l] EXCEPT !.price = c.next]
      BY <2>1 DEF writtenPolicy
    <3> QED
      BY <3>1, <3>2
  <2>2. CASE ~ \E c \in p.policies : c.line = l
    BY <2>2 DEF writtenPolicy
  <2> QED
    BY <2>1, <2>2
<1> QED
  BY <1>1, <1>2

LEMMA FirstPrices ==
    ASSUME PricesAssumption, Init
    PROVE  PriceInv
<1>1. 2 \in Price /\ 3 \in Price /\ None \in Price /\ 2 # None /\ None # 0
  BY DEF Price, PricesAssumption
<1>2. RowTypes
  <2>1. [price |-> 2, compare |-> 3] \in VariantRow
        /\ [price |-> None, compare |-> None] \in VariantRow
    BY <1>1 DEF VariantRow
  <2>2. /\ [fixed |-> TRUE, price |-> 2, active |-> TRUE] \in PolicyRow
        /\ [fixed |-> FALSE, price |-> None, active |-> TRUE] \in PolicyRow
    BY <1>1 DEF PolicyRow
  <2>3. /\ variant \in [Variants -> {[price |-> 2, compare |-> 3], [price |-> None, compare |-> None]}]
        /\ policy \in [Lines -> {[fixed |-> TRUE, price |-> 2, active |-> TRUE],
                                 [fixed |-> FALSE, price |-> None, active |-> TRUE]}]
    BY DEF Init
  <2> QED
    BY <2>1, <2>2, <2>3 DEF RowTypes
<1>3. FixedHasPrice
  BY <1>1 DEF Init, FixedHasPrice
<1>4. RequestsSay
  BY DEF Init, RequestsSay, RequestSays, idle
<1>5. PagesShow
  <2>1. (CHOOSE i \in Inputs : TRUE) \in Inputs
    BY DEF PricesAssumption
  <2> QED
    BY <2>1 DEF Init, PagesShow
<1> QED
  BY <1>2, <1>3, <1>4, <1>5 DEF PriceInv

LEMMA PageKeeps ==
    ASSUME PricesAssumption, PriceInv, NEW e \in Employees, PageStep(e)
    PROVE  PriceInv'
<1>1. UNCHANGED <<variant, policy>>
  BY DEF PageStep, PressPreview, PreviewArrives, PreviewFails, PressApply, ApplyArrives,
         ApplyRefused, ApplyLost, EnterInput
<1>2. (RowTypes /\ FixedHasPrice)'
  BY <1>1 DEF PriceInv, RowTypes, FixedHasPrice
<1>3. page[e] \in [form : Inputs, preview : Inputs \cup {None},
                   asking : Inputs \cup {None}, applying : BOOLEAN]
  BY DEF PriceInv, PagesShow
<1>4. PagesShow'
  <2>1. CASE PressPreview(e)
    BY <1>3, <2>1 DEF PriceInv, PagesShow, PressPreview, Page
  <2>2. CASE PreviewArrives(e)
    <3> PICK shown : shown = IF changes(plan(page[e].asking)) THEN page[e].asking ELSE None
      OBVIOUS
    <3>1. page' = [page EXCEPT ![e] = [page[e] EXCEPT !.preview = shown, !.asking = None]]
      BY <2>2 DEF PreviewArrives, Page
    <3>2. shown \in Inputs \cup {None}
      BY <1>3
    <3> QED
      BY <1>3, <3>1, <3>2 DEF PriceInv, PagesShow
  <2>3. CASE PreviewFails(e)
    BY <1>3, <2>3 DEF PriceInv, PagesShow, PreviewFails, Page
  <2>4. CASE PressApply(e)
    BY <1>3, <2>4 DEF PriceInv, PagesShow, PressApply, Page
  <2>5. CASE ApplyArrives(e)
    BY <1>3, <2>5 DEF PriceInv, PagesShow, ApplyArrives, Page
  <2>6. CASE ApplyRefused(e)
    BY <1>3, <2>6 DEF PriceInv, PagesShow, ApplyRefused, Page
  <2>7. CASE ApplyLost(e)
    BY <1>3, <2>7 DEF PriceInv, PagesShow, ApplyLost, Page
  <2>8. ASSUME NEW input \in Inputs, EnterInput(e, input) PROVE PagesShow'
    BY <1>3, <2>8 DEF PriceInv, PagesShow, EnterInput, Page
  <2> QED
    BY <2>1, <2>2, <2>3, <2>4, <2>5, <2>6, <2>7, <2>8 DEF PageStep
<1>5. RequestsSay'
  <2>1. CASE UNCHANGED request
    BY <2>1 DEF PriceInv, RequestsSay
  <2>2. CASE PressApply(e)
    <3>1. RequestSays([at |-> "apply", input |-> page[e].form])
      BY <1>3 DEF RequestSays
    <3> QED
      BY <2>2, <3>1, Handled DEF PriceInv, PressApply
  <2>3. CASE Handle(e, idle)
    BY <2>3, Handled DEF PriceInv, RequestSays, idle
  <2> QED
    BY <2>1, <2>2, <2>3 DEF PageStep, PressPreview, PreviewArrives, PreviewFails, ApplyArrives,
       ApplyRefused, ApplyLost, EnterInput
<1> QED
  BY <1>2, <1>4, <1>5 DEF PriceInv

LEMMA ApiKeeps ==
    ASSUME PricesAssumption, PriceInv, NEW e \in Employees,
           \/ ApplyRead(e) \/ ApplyWrite(e) \/ BulkWrite(e)
           \/ \E v \in Variants, price \in {0, 2}, compare \in {None, 1} : BulkRead(e, v, price, compare)
    PROVE  PriceInv'
<1>1. CASE ApplyRead(e)
  <2>1. UNCHANGED <<variant, policy, page>>
    BY <1>1 DEF ApplyRead
  <2>2. RequestsSay'
    <3> PICK p : p = plan(request[e].input)
      OBVIOUS
    <3>1. CASE changes(p)
      <4>1. request[e].input \in Inputs
        BY <1>1 DEF ApplyRead, PriceInv, RequestsSay, RequestSays
      <4>2. PlanSays(p)
        BY <1>1, <3>1, <4>1, PlannedSays DEF ApplyRead, PriceInv
      <4>3. RequestSays([at |-> "write", plan |-> p])
        BY <4>2 DEF RequestSays
      <4> QED
        BY <1>1, <3>1, <4>3, Handled DEF ApplyRead, PriceInv
    <3>2. CASE ~changes(p)
      <4>1. RequestSays([at |-> "refused"])
        BY DEF RequestSays
      <4> QED
        BY <1>1, <3>2, <4>1, Handled DEF ApplyRead, PriceInv
    <3> QED
      BY <3>1, <3>2
  <2> QED
    BY <2>1, <2>2 DEF PriceInv, RowTypes, FixedHasPrice, PagesShow
<1>2. CASE ApplyWrite(e)
  <2> PICK p : p = request[e].plan
    OBVIOUS
  <2>1. PlanSays(p)
    BY <1>2 DEF ApplyWrite, PriceInv, RequestsSay, RequestSays
  <2>2. /\ variant' = [v \in Variants |-> writtenVariant(p, v)]
        /\ policy' = [l \in Lines |-> writtenPolicy(p, l)]
    BY <1>2 DEF ApplyWrite
  <2>3. ASSUME NEW v \in Variants PROVE writtenVariant(p, v) \in VariantRow
    BY <2>1, Written DEF PriceInv, RowTypes, PlanSays
  <2>4. ASSUME NEW l \in Lines
        PROVE  writtenPolicy(p, l) \in PolicyRow
               /\ (writtenPolicy(p, l).fixed => writtenPolicy(p, l).price # None)
    <3>1. policy[l] \in PolicyRow /\ (policy[l].fixed => policy[l].price # None)
      BY DEF PriceInv, RowTypes, FixedHasPrice
    <3>2. ASSUME NEW c \in p.policies, writtenPolicy(p, l) = [policy[l] EXCEPT !.price = c.next]
          PROVE  writtenPolicy(p, l) \in PolicyRow /\ writtenPolicy(p, l).price # None
      <4>1. c.next \in Price \ {0} /\ c.next # None
        BY <2>1 DEF PlanSays, Price, PricesAssumption
      <4> QED
        BY <3>1, <3>2, <4>1 DEF PolicyRow
    <3> QED
      BY <3>1, <3>2, Written
  <2>5. RequestsSay'
    <3>1. RequestSays([at |-> "done"])
      BY DEF RequestSays
    <3> QED
      BY <1>2, <3>1, Handled DEF ApplyWrite, PriceInv
  <2>6. PagesShow'
    BY <1>2 DEF ApplyWrite, PriceInv, PagesShow
  <2> QED
    BY <2>2, <2>3, <2>4, <2>5, <2>6 DEF PriceInv, RowTypes, FixedHasPrice
<1>3. CASE BulkWrite(e)
  <2> PICK w : w = request[e].variant
    OBVIOUS
  <2> PICK old : old = variant[w]
    OBVIOUS
  <2>1. /\ w \in Variants
        /\ request[e].price \in {0, 2} /\ request[e].compare \in {None, 1}
    BY <1>3 DEF BulkWrite, PriceInv, RequestsSay, RequestSays
  <2> PICK row : row = [price |-> request[e].price,
                        compare |-> IF request[e].compare = None THEN old.compare ELSE request[e].compare]
    OBVIOUS
  <2>2. variant' = [variant EXCEPT ![w] = row]
    BY <1>3 DEF BulkWrite
  <2>3. old \in VariantRow /\ {0, 1, 2} \subseteq Price
    BY <2>1 DEF PriceInv, RowTypes, Price, PricesAssumption
  <2>4. row \in VariantRow
    BY <2>1, <2>3 DEF VariantRow
  <2>5. RequestsSay'
    BY <1>3, Handled DEF BulkWrite, PriceInv, RequestSays, idle
  <2> QED
    BY <1>3, <2>1, <2>2, <2>4, <2>5 DEF BulkWrite, PriceInv, RowTypes, FixedHasPrice, PagesShow
<1>4. ASSUME NEW v \in Variants, NEW price \in {0, 2}, NEW compare \in {None, 1},
             BulkRead(e, v, price, compare)
      PROVE  PriceInv'
  <2>1. RequestSays([at |-> "bulk", variant |-> v, price |-> price, compare |-> compare])
    BY DEF RequestSays
  <2>2. RequestsSay'
    BY <1>4, <2>1, Handled DEF BulkRead, PriceInv
  <2> QED
    BY <1>4, <2>2 DEF BulkRead, PriceInv, RowTypes, FixedHasPrice, PagesShow
<1> QED
  BY <1>1, <1>2, <1>3, <1>4

LEMMA PolicyKeeps ==
    ASSUME PricesAssumption, PriceInv,
           NEW l \in Lines, NEW fixed \in BOOLEAN, NEW price \in {2, None},
           NEW active \in BOOLEAN,
           UpdatePolicy(l, fixed, price, active)
    PROVE  PriceInv'
<1> PICK row : row = [fixed |-> fixed, price |-> IF fixed THEN price ELSE None, active |-> active]
  OBVIOUS
<1>1. policy' = [policy EXCEPT ![l] = row]
  BY DEF UpdatePolicy
<1>2. row \in PolicyRow /\ (row.fixed => row.price # None)
  BY DEF UpdatePolicy, needsPrice, PolicyRow, Price, PricesAssumption
<1> QED
  BY <1>1, <1>2 DEF UpdatePolicy, PriceInv, RowTypes, FixedHasPrice, RequestsSay, PagesShow

LEMMA PricesInvariant ==
    ASSUME PricesAssumption
    PROVE  Spec => []PriceInv
<1>1. Init => PriceInv
  BY FirstPrices
<1>2. PriceInv /\ [Next]_vars => PriceInv'
  <2> SUFFICES ASSUME PriceInv, [Next]_vars PROVE PriceInv'
    OBVIOUS
  <2>1. CASE UNCHANGED vars
    BY <2>1 DEF vars, PriceInv, RowTypes, FixedHasPrice, RequestsSay, PagesShow
  <2> QED
    BY <2>1, PageKeeps, ApiKeeps, PolicyKeeps DEF Next
<1> QED
  BY <1>1, <1>2, PTL DEF Spec

\* Prices stay what a price may be, and forms hold inputs that may be entered.
THEOREM PricesTypeCorrect ==
    ASSUME PricesAssumption
    PROVE  Spec => []TypeOK
<1>1. PriceInv => TypeOK
  BY DEF PriceInv, RowTypes, VariantRow, PolicyRow, PagesShow, TypeOK
<1> QED
  BY <1>1, PricesInvariant, PTL

\* Whatever adjustments, bulk changes and policies are saved at the same time, a
\* line of fixed price has one: an adjustment that was prepared before the policy
\* changed may write a price to a line that is no longer fixed, never take one away.
THEOREM FixedLinesHavePrices ==
    ASSUME PricesAssumption
    PROVE  Spec => []FixedHasPrice
<1>1. PriceInv => FixedHasPrice
  BY DEF PriceInv
<1> QED
  BY <1>1, PricesInvariant, PTL

-----------------------------------------------------------------------------
(* What an adjustment does to what is sold.                                *)

\* Only the write of an adjustment ends one.
LEMMA DoneIsWritten ==
    ASSUME RequestsSay, [Next]_vars, NEW e \in Employees,
           request[e].at = "write", request'[e].at = "done"
    PROVE  ApplyWrite(e)
<1>1. request' # request
  OBVIOUS
<1>2. ASSUME NEW x \in Employees, NEW record, Handle(x, record)
      PROVE  x = e /\ record.at = "done"
  BY <1>2 DEF Handle, RequestsSay
<1>3. ASSUME NEW x \in Employees, PageStep(x) PROVE FALSE
  <2>1. ASSUME PressApply(x) PROVE FALSE
    BY <1>2, <2>1 DEF PressApply
  <2>2. ASSUME Handle(x, idle) PROVE FALSE
    BY <1>2, <2>2 DEF idle
  <2> QED
    BY <1>1, <1>3, <2>1, <2>2 DEF PageStep, PressPreview, PreviewArrives, PreviewFails, ApplyArrives,
       ApplyRefused, ApplyLost, EnterInput
<1>4. ASSUME NEW x \in Employees, ApplyRead(x) PROVE FALSE
  BY <1>2, <1>4 DEF ApplyRead
<1>5. ASSUME NEW x \in Employees, ApplyWrite(x) PROVE ApplyWrite(e)
  BY <1>2, <1>5 DEF ApplyWrite
<1>6. ASSUME NEW x \in Employees, BulkWrite(x) PROVE FALSE
  BY <1>2, <1>6 DEF BulkWrite, idle
<1>7. ASSUME NEW x \in Employees, NEW v \in Variants, NEW price, NEW compare,
             BulkRead(x, v, price, compare) PROVE FALSE
  BY <1>2, <1>7 DEF BulkRead
<1>8. ASSUME NEW l \in Lines, NEW fixed, NEW price, NEW active,
             UpdatePolicy(l, fixed, price, active) PROVE FALSE
  BY <1>1, <1>8 DEF UpdatePolicy
<1>9. CASE UNCHANGED vars
  BY <1>1, <1>9 DEF vars
<1>10. CASE Next
  BY <1>3, <1>4, <1>5, <1>6, <1>7, <1>8, <1>10 DEF Next
<1> QED
  BY <1>9, <1>10

\* An adjustment never strikes out a price below the one that is asked for,
\* however its percentage rounds the two.
THEOREM DiscountsStay ==
    ASSUME PricesAssumption
    PROVE  Spec => [][DiscountStays]_vars
<1>1. PriceInv /\ [Next]_vars => [DiscountStays]_vars
  <2> SUFFICES ASSUME PriceInv, [Next]_vars, NEW e \in Employees, NEW v \in Variants,
                      request[e].at = "write", request'[e].at = "done",
                      variant'[v] # variant[v], variant'[v].compare # None
               PROVE  variant'[v].compare >= variant'[v].price
    BY DEF DiscountStays
  <2>1. ApplyWrite(e)
    BY DoneIsWritten DEF PriceInv
  <2> PICK p : p = request[e].plan
    OBVIOUS
  <2>2. variant'[v] = writtenVariant(p, v) /\ PlanSays(p)
    BY <2>1 DEF ApplyWrite, PriceInv, RequestsSay, RequestSays
  <2>3. PICK c \in p.variants : variant'[v] = c.next
    BY <2>2, Written
  <2> QED
    BY <2>2, <2>3 DEF PlanSays
<1> QED
  BY <1>1, PricesInvariant, PTL DEF Spec

\* What a plan does to the rows it was made from: exactly the selected ones that
\* have a price of their own, and the lines whose fixed price it may change.
LEMMA PlanWrites ==
    ASSUME PricesAssumption, RowTypes, NEW input \in Inputs
    PROVE  /\ \A v \in Variants :
                 IF Priced(input, v)
                 THEN writtenVariant(plan(input), v).price = adjusted(input, variant[v].price)
                 ELSE writtenVariant(plan(input), v) = variant[v]
           /\ \A l \in Lines :
                 IF /\ isFixed(l) /\ canUpdateFixedPolicies(input)
                    /\ \E v \in selected(input) : Line(v) = l
                 THEN writtenPolicy(plan(input), l) =
                         [policy[l] EXCEPT !.price = adjusted(input, policy[l].price)]
                 ELSE writtenPolicy(plan(input), l) = policy[l]
<1> PICK p : p = plan(input)
  OBVIOUS
<1>1. p.variants = variantChanges(input) /\ p.policies = policyChanges(input)
  BY DEF plan
<1>2. ASSUME NEW v \in Variants, Priced(input, v)
      PROVE  writtenVariant(p, v).price = adjusted(input, variant[v].price)
  <2>1. CASE \E c \in p.variants : c.variant = v /\ writtenVariant(p, v) = c.next
    <3>1. PICK c \in p.variants : c.variant = v /\ writtenVariant(p, v) = c.next
      BY <2>1
    <3>2. c.next = NextRow(input, v)
      BY <1>1, <3>1, VariantChange
    <3> QED
      BY <3>1, <3>2 DEF NextRow
  <2>2. CASE ~ \E c \in p.variants : c.variant = v /\ writtenVariant(p, v) = c.next
    <3>1. writtenVariant(p, v) = variant[v]
      BY <2>2, Written
    <3>2. ~ \E c \in p.variants : c.variant = v
      <4> SUFFICES ASSUME \E c \in p.variants : c.variant = v PROVE FALSE
        OBVIOUS
      <4> DEFINE c == CHOOSE d \in p.variants : d.variant = v
      <4>1. c \in p.variants /\ c.variant = v /\ writtenVariant(p, v) = c.next
        BY DEF writtenVariant
      <4> QED
        BY <2>2, <4>1
    <3>3. NextRow(input, v) = variant[v]
      BY <1>1, <1>2, <3>2, VariantChange
    <3> QED
      BY <3>1, <3>3 DEF NextRow
  <2> QED
    BY <2>1, <2>2
<1>3. ASSUME NEW v \in Variants, ~Priced(input, v)
      PROVE  writtenVariant(p, v) = variant[v]
  <2>1. ~ \E c \in p.variants : c.variant = v
    BY <1>1, <1>3, VariantChange
  <2> QED
    BY <2>1, Written
<1>4. ASSUME NEW l \in Lines, isFixed(l), canUpdateFixedPolicies(input),
             NEW v \in selected(input), Line(v) = l
      PROVE  writtenPolicy(p, l) = [policy[l] EXCEPT !.price = adjusted(input, policy[l].price)]
  <2> PICK a : a = adjusted(input, policy[l].price)
    OBVIOUS
  <2>1. CASE \E c \in p.policies : c.line = l
    <3> DEFINE c == CHOOSE d \in p.policies : d.line = l
    <3>1. c \in p.policies /\ c.line = l
      BY <2>1
    <3>2. writtenPolicy(p, l) = [policy[l] EXCEPT !.price = c.next]
      BY <2>1 DEF writtenPolicy
    <3>3. c.next = a
      BY <1>1, <3>1, PolicyChange
    <3> QED
      BY <3>2, <3>3
  <2>2. CASE ~ \E c \in p.policies : c.line = l
    <3>1. a = policy[l].price
      BY <1>1, <1>4, <2>2, PolicyChange
    <3>2. policy[l] = [policy[l] EXCEPT !.price = a]
      BY <3>1 DEF RowTypes, PolicyRow
    <3>3. writtenPolicy(p, l) = policy[l]
      BY <2>2 DEF writtenPolicy
    <3> QED
      BY <3>2, <3>3
  <2> QED
    BY <2>1, <2>2
<1>5. ASSUME NEW l \in Lines,
             ~(/\ isFixed(l) /\ canUpdateFixedPolicies(input)
               /\ \E v \in selected(input) : Line(v) = l)
      PROVE  writtenPolicy(p, l) = policy[l]
  <2>1. ~ \E c \in p.policies : c.line = l
    BY <1>1, <1>5, PolicyChange
  <2> QED
    BY <2>1, Written
<1> QED
  BY <1>2, <1>3, <1>4, <1>5

\* An adjustment that writes the plan of the rows as they still are changes what the
\* store asks for by its percentage, for each product it selects, and for no other:
\* a fixed price of a line is changed only where the whole line is selected.
THEOREM AdjustmentsReachTheSelected ==
    ASSUME PricesAssumption
    PROVE  Spec => [][AdjustsWhatIsSold]_vars
<1>1. PriceInv /\ [Next]_vars => [AdjustsWhatIsSold]_vars
  <2> SUFFICES ASSUME PriceInv, [Next]_vars, NEW e \in Employees,
                      Undisturbed(e), request'[e].at = "done",
                      NEW v \in Published
               PROVE  LET input == request[e].plan.input
                      IN  IF /\ v \in selected(input) /\ resolveVariantPrice(v) > 0
                             /\ policy[Line(v)].fixed
                                  => input.includeFixedPolicies /\ input.scope # "BRAND"
                          THEN resolveVariantPrice(v)' = adjusted(input, resolveVariantPrice(v))
                          ELSE resolveVariantPrice(v)' = resolveVariantPrice(v)
    BY DEF AdjustsWhatIsSold
  <2>1. ApplyWrite(e)
    BY DoneIsWritten DEF PriceInv, Undisturbed
  <2> PICK input : input = request[e].plan.input
    OBVIOUS
  <2> PICK l : l = Line(v)
    OBVIOUS
  <2>2. /\ input \in Inputs /\ v \in Variants /\ l \in Lines
        /\ ~Draft(v) /\ resolveVariantPrice(v) # None
        /\ input.scope \in {"ALL", "LINE", "BRAND"}
    BY <2>1 DEF ApplyWrite, PriceInv, RequestsSay, RequestSays, PlanSays, Published, Lines,
       PricesAssumption
  <2>3. /\ variant'[v] = writtenVariant(plan(input), v)
        /\ policy'[l] = writtenPolicy(plan(input), l)
    BY <2>1, <2>2 DEF ApplyWrite, Undisturbed
  <2>4. /\ variant[v] \in VariantRow /\ policy[l] \in PolicyRow
        /\ policy[l].active
    BY <2>2 DEF PriceInv, RowTypes, PolicyRow, resolveVariantPrice
  <2>5. /\ policy'[l].active
        /\ policy'[l].fixed = policy[l].fixed
    BY <2>2, <2>3, <2>4, PlanWrites DEF PriceInv, PolicyRow
  <2> DEFINE now == resolveVariantPrice(v)
             next == resolveVariantPrice(v)'
             reached == /\ v \in selected(input) /\ now > 0
                        /\ policy[l].fixed => input.includeFixedPolicies /\ input.scope # "BRAND"
  <2>6. CASE policy[l].fixed
    <3>1. now = policy[l].price /\ next = policy'[l].price /\ isFixed(l)
      BY <2>2, <2>4, <2>5, <2>6 DEF resolveVariantPrice, isFixed
    <3>2. now \in Nat /\ now > 0
      <4>1. policy[l].price \in Price /\ policy[l].price # 0
        BY <2>4 DEF PolicyRow
      <4> QED
        BY <2>2, <3>1, <4>1, PriceOf
    <3>3. ASSUME NEW w \in selected(input), Line(w) = l, canUpdateFixedPolicies(input)
          PROVE  v \in selected(input)
      BY <2>2, <3>3 DEF selected, canUpdateFixedPolicies
    <3>4. reached <=> /\ canUpdateFixedPolicies(input)
                      /\ \E w \in selected(input) : Line(w) = l
      BY <2>2, <2>6, <3>2, <3>3 DEF canUpdateFixedPolicies
    <3>5. IF reached
          THEN policy'[l] = [policy[l] EXCEPT !.price = adjusted(input, policy[l].price)]
          ELSE policy'[l] = policy[l]
      BY <2>2, <2>3, <3>1, <3>4, PlanWrites DEF PriceInv
    <3>6. IF reached THEN next = adjusted(input, now) ELSE next = now
      BY <2>4, <3>1, <3>5 DEF PolicyRow
    <3> QED
      BY <3>6
  <2>7. CASE ~policy[l].fixed
    <3>1. now = variant[v].price /\ next = variant'[v].price /\ ~isFixed(l)
      BY <2>2, <2>4, <2>5, <2>7 DEF resolveVariantPrice, isFixed
    <3>2. now \in Nat /\ now # None
      <4>1. variant[v].price \in Price
        BY <2>4 DEF VariantRow
      <4> QED
        BY <2>2, <3>1, <4>1, PriceOf
    <3>3. reached <=> Priced(input, v)
      BY <2>7, <3>1, <3>2 DEF Priced
    <3>4. IF reached THEN next = adjusted(input, now) ELSE next = now
      BY <2>2, <2>3, <3>1, <3>3, PlanWrites DEF PriceInv
    <3> QED
      BY <3>4
  <2> QED
    BY <2>6, <2>7
<1> QED
  BY <1>1, PricesInvariant, PTL DEF Spec
-----------------------------------------------------------------------------
(***************************************************************************)
(* The photographs of a product (ProductImages), for every number of       *)
(* windows, files and faults. A list holds an image once and its cover is  *)
(* the first; an upload adds to the list it began with, whose length and   *)
(* that of the files left stay within the limit.                           *)
(***************************************************************************)

\* Images of which each is there once, no more than the limit.
Once(seq) ==
    /\ seq \in Seq(Gallery!ImageRow) /\ MaxImages \in Nat /\ Len(seq) <= MaxImages
    /\ \A i, j \in 1 .. Len(seq) : seq[i].id = seq[j].id => i = j

\* Only the first may be a cover; in a list it is.
CoverFirst(seq) == \A i \in 1 .. Len(seq) : seq[i].cover = TRUE => i = 1
Listed(seq) == Once(seq) /\ \A i \in 1 .. Len(seq) : seq[i].cover <=> i = 1

Numbered(seq) == [i \in 1 .. Len(seq) |-> Gallery!Image(seq[i].id, i = 1)]

LEMMA NumberedIsListed ==
    ASSUME NEW seq, Once(seq)
    PROVE  /\ Listed(Numbered(seq)) /\ Gallery!ids(Numbered(seq)) = Gallery!ids(seq)
           /\ Len(Numbered(seq)) = Len(seq)
<1>1. seq \in Seq(Gallery!ImageRow) /\ Len(seq) \in Nat /\ DOMAIN seq = 1 .. Len(seq)
  BY DEF Once
<1>2. PICK n : n = Numbered(seq)
  OBVIOUS
<1>3. \A i \in 1 .. Len(seq) : /\ n[i] \in Gallery!ImageRow /\ n[i].id = seq[i].id
                               /\ n[i].cover <=> i = 1
  <2>1. SUFFICES ASSUME NEW i \in 1 .. Len(seq)
                 PROVE  n[i] \in Gallery!ImageRow /\ n[i].id = seq[i].id /\ (n[i].cover <=> i = 1)
    OBVIOUS
  <2>2. seq[i] \in Gallery!ImageRow
    BY <1>1
  <2>3. n[i] = [id |-> seq[i].id, cover |-> (i = 1)]
    BY <1>2 DEF Numbered, Gallery!Image
  <2>4. seq[i].id \in Nat /\ (i = 1) \in BOOLEAN
    BY <2>2 DEF Gallery!ImageRow
  <2>5. n[i] \in Gallery!ImageRow
    BY <2>3, <2>4 DEF Gallery!ImageRow
  <2>6. n[i].id = seq[i].id
    BY <2>3
  <2>7. n[i].cover = (i = 1)
    BY <2>3
  <2>8. n[i].cover <=> i = 1
    BY <2>7
  <2> QED
    BY <2>5, <2>6, <2>8
<1>4. DOMAIN n = 1 .. Len(seq)
  BY <1>2 DEF Numbered
<1>5. n \in [1 .. Len(seq) -> Gallery!ImageRow]
  BY <1>2, <1>3 DEF Numbered
<1>6. n \in Seq(Gallery!ImageRow) /\ Len(n) = Len(seq)
  BY <1>1, <1>5
<1>7. Gallery!ids(n) = Gallery!ids(seq)
  BY <1>1, <1>3, <1>4 DEF Gallery!ids
<1>8. Listed(n)
  BY <1>3, <1>6 DEF Listed, Once
<1> QED
  BY <1>2, <1>6, <1>7, <1>8

LEMMA NormalizedIsNumbered ==
    ASSUME NEW seq, Once(seq), CoverFirst(seq)
    PROVE  Gallery!normalizeProductImages(seq) = Numbered(seq)
<1>1. PICK marked : marked = {i \in DOMAIN seq : seq[i].cover}
  OBVIOUS
<1>2. DOMAIN seq = 1 .. Len(seq)
  BY DEF Once
<1>3. marked \subseteq {1}
  <2>1. ASSUME NEW i \in marked PROVE i = 1
    <3>1. i \in 1 .. Len(seq) /\ seq[i].cover
      BY <1>1, <1>2
    <3>2. seq[i] \in Gallery!ImageRow
      BY <3>1 DEF Once
    <3> QED
      BY <3>1, <3>2 DEF CoverFirst, Gallery!ImageRow
  <2> QED
    BY <2>1
<1>4. PICK c : c = IF marked = {} THEN 1 ELSE CHOOSE i \in marked : \A j \in marked : i <= j
  OBVIOUS
<1>5. c = 1
  <2>1. CASE marked = {}
    BY <1>4, <2>1
  <2>2. CASE marked = {1}
    <3>1. \E i \in marked : \A j \in marked : i <= j
      BY <2>2
    <3>2. c \in marked
      BY <1>4, <2>2, <3>1
    <3> QED
      BY <2>2, <3>2
  <2> QED
    BY <1>3, <2>1, <2>2
<1>6. Gallery!normalizeProductImages(seq) = [i \in DOMAIN seq |-> Gallery!Image(seq[i].id, i = c)]
  BY <1>1, <1>4 DEF Gallery!normalizeProductImages
<1> QED
  BY <1>2, <1>5, <1>6 DEF Numbered

\* normalizeProductImages leaves the images there are and makes the first the cover.
LEMMA NormalizedIsListed ==
    ASSUME NEW seq, Once(seq), CoverFirst(seq)
    PROVE  /\ Listed(Gallery!normalizeProductImages(seq))
           /\ Gallery!ids(Gallery!normalizeProductImages(seq)) = Gallery!ids(seq)
BY NumberedIsListed, NormalizedIsNumbered

\* A list without one of its images.
LEMMA WithoutIsOnce ==
    ASSUME NEW seq, Once(seq), NEW i \in 1 .. Len(seq)
    PROVE  /\ Once(Gallery!without(seq, i))
           /\ Gallery!ids(Gallery!without(seq, i)) = Gallery!ids(seq) \ {seq[i].id}
           /\ Len(Gallery!without(seq, i)) = Len(seq) - 1
           /\ \A j \in 1 .. Len(seq) - 1 : Gallery!without(seq, i)[j] = seq[IF j < i THEN j ELSE j + 1]
<1>1. seq \in Seq(Gallery!ImageRow) /\ Len(seq) \in Nat /\ DOMAIN seq = 1 .. Len(seq)
  BY DEF Once
<1>2. PICK s : s = SubSeq(seq, 1, i - 1)
  OBVIOUS
<1>3. PICK t : t = SubSeq(seq, i + 1, Len(seq))
  OBVIOUS
<1>4. s \in Seq(Gallery!ImageRow) /\ Len(s) = i - 1 /\ \A j \in 1 .. i - 1 : s[j] = seq[j]
  <2>1. \A j \in 1 .. i - 1 : seq[j] \in Gallery!ImageRow
    BY <1>1
  <2> QED
    BY <1>1, <1>2, <2>1, SubSeqProperties
<1>5. /\ t \in Seq(Gallery!ImageRow) /\ Len(t) = Len(seq) - i
      /\ \A j \in 1 .. Len(seq) - i : t[j] = seq[i + j]
  <2>1. \A j \in i + 1 .. Len(seq) : seq[j] \in Gallery!ImageRow
    BY <1>1
  <2>2. /\ t \in Seq(Gallery!ImageRow)
        /\ Len(t) = IF i + 1 <= Len(seq) THEN Len(seq) - (i + 1) + 1 ELSE 0
        /\ \A j \in 1 .. Len(seq) - (i + 1) + 1 : t[j] = seq[i + 1 + j - 1]
    BY <1>1, <1>3, <2>1, SubSeqProperties
  <2>3. Len(seq) - (i + 1) + 1 = Len(seq) - i
    BY <1>1
  <2>4. \A j \in 1 .. Len(seq) - i : i + 1 + j - 1 = i + j
    BY <1>1
  <2>5. Len(t) = Len(seq) - i
    <3>1. CASE i + 1 <= Len(seq)
      BY <2>2, <2>3, <3>1
    <3>2. CASE i = Len(seq)
      BY <1>1, <2>2, <3>2
    <3>3. Len(seq) \in Nat /\ i \in 1 .. Len(seq)
      BY <1>1
    <3>4. i + 1 <= Len(seq) \/ i = Len(seq)
      BY <3>3
    <3> QED
      BY <3>1, <3>2, <3>4
  <2>6. \A j \in 1 .. Len(seq) - i : t[j] = seq[i + j]
    BY <2>2, <2>3, <2>4
  <2> QED
    BY <2>2, <2>5, <2>6
<1>6. PICK r : r = s \o t
  OBVIOUS
<1>7. /\ r \in Seq(Gallery!ImageRow) /\ Len(r) = Len(seq) - 1
      /\ \A j \in 1 .. Len(seq) - 1 : r[j] = IF j <= i - 1 THEN s[j] ELSE t[j - (i - 1)]
  <2>1. /\ r \in Seq(Gallery!ImageRow) /\ Len(r) = Len(s) + Len(t)
        /\ \A j \in 1 .. Len(s) + Len(t) :
              r[j] = IF j <= Len(s) THEN s[j] ELSE t[j - Len(s)]
    BY <1>4, <1>5, <1>6, ConcatProperties
  <2>2. Len(s) = i - 1 /\ Len(s) + Len(t) = Len(seq) - 1
    BY <1>1, <1>4, <1>5
  <2> QED
    BY <2>1, <2>2
<1>8. \A j \in 1 .. Len(seq) - 1 : r[j] = seq[IF j < i THEN j ELSE j + 1]
  <2>1. ASSUME NEW j \in 1 .. Len(seq) - 1 PROVE r[j] = seq[IF j < i THEN j ELSE j + 1]
    <3>1. CASE j < i
      BY <1>1, <1>4, <1>7, <3>1
    <3>2. CASE ~(j < i)
      <4>1. r[j] = t[j - (i - 1)]
        BY <1>1, <1>7, <3>2
      <4>2. j - (i - 1) \in 1 .. Len(seq) - i /\ i + (j - (i - 1)) = j + 1
        BY <1>1, <3>2
      <4> QED
        BY <1>5, <3>2, <4>1, <4>2
    <3> QED
      BY <3>1, <3>2
  <2> QED
    BY <2>1
<1>9. DOMAIN r = 1 .. Len(seq) - 1
  BY <1>7
<1>10. Gallery!ids(r) = Gallery!ids(seq) \ {seq[i].id}
  <2>1. ASSUME NEW x \in Gallery!ids(r) PROVE x \in Gallery!ids(seq) \ {seq[i].id}
    <3>1. PICK j \in 1 .. Len(seq) - 1 : x = r[j].id
      BY <1>9 DEF Gallery!ids
    <3>2. PICK k : k = IF j < i THEN j ELSE j + 1
      OBVIOUS
    <3>3. k \in 1 .. Len(seq) /\ k # i
      BY <1>1, <3>2
    <3>4. x = seq[k].id
      BY <1>8, <3>1, <3>2
    <3> QED
      BY <1>1, <3>3, <3>4 DEF Gallery!ids, Once
  <2>2. ASSUME NEW x \in Gallery!ids(seq) \ {seq[i].id} PROVE x \in Gallery!ids(r)
    <3>1. PICK k \in 1 .. Len(seq) : k # i /\ x = seq[k].id
      BY <1>1, <2>2 DEF Gallery!ids
    <3>2. CASE k < i
      <4>1. k \in 1 .. Len(seq) - 1 /\ r[k] = seq[k]
        BY <1>1, <1>8, <3>2
      <4> QED
        BY <1>9, <3>1, <4>1 DEF Gallery!ids
    <3>3. CASE k > i
      <4>1. k - 1 \in 1 .. Len(seq) - 1 /\ r[k - 1] = seq[k]
        BY <1>1, <1>8, <3>3
      <4> QED
        BY <1>9, <3>1, <4>1 DEF Gallery!ids
    <3> QED
      BY <1>1, <3>1, <3>2, <3>3
  <2> QED
    BY <2>1, <2>2
<1>11. Once(r)
  <2>1. ASSUME NEW j \in 1 .. Len(r), NEW k \in 1 .. Len(r), r[j].id = r[k].id PROVE j = k
    <3>1. PICK a \in 1 .. Len(seq) : a = IF j < i THEN j ELSE j + 1
      BY <1>1, <1>7
    <3>2. PICK b \in 1 .. Len(seq) : b = IF k < i THEN k ELSE k + 1
      BY <1>1, <1>7
    <3>3. seq[a].id = seq[b].id
      BY <1>7, <1>8, <2>1, <3>1, <3>2
    <3>4. a = b
      BY <3>3 DEF Once
    <3> QED
      BY <1>1, <1>7, <3>1, <3>2, <3>4
  <2>2. Len(seq) <= MaxImages /\ MaxImages \in Nat
    BY DEF Once
  <2> QED
    BY <1>1, <1>7, <2>1, <2>2 DEF Once
<1> QED
  BY <1>2, <1>3, <1>6, <1>7, <1>8, <1>10, <1>11 DEF Gallery!without

LEMMA LeftIsListed ==
    ASSUME NEW seq, Listed(seq), NEW i \in 1 .. Len(seq)
    PROVE  /\ Listed(Gallery!left(seq, i))
           /\ Gallery!ids(Gallery!left(seq, i)) = Gallery!ids(seq) \ {seq[i].id}
<1>1. Once(seq) /\ Len(seq) \in Nat
  BY DEF Listed, Once
<1>2. CoverFirst(Gallery!without(seq, i))
  <2>1. ASSUME NEW j \in 1 .. Len(seq) - 1, Gallery!without(seq, i)[j].cover = TRUE PROVE j = 1
    <3>1. PICK k \in 1 .. Len(seq) : k = IF j < i THEN j ELSE j + 1
      BY <1>1
    <3>2. seq[k].cover = TRUE
      BY <1>1, <2>1, <3>1, WithoutIsOnce
    <3>3. k = 1
      BY <3>2 DEF Listed
    <3> QED
      BY <1>1, <3>1, <3>3
  <2> QED
    BY <1>1, <2>1, WithoutIsOnce DEF CoverFirst
<1> QED
  BY <1>1, <1>2, WithoutIsOnce, NormalizedIsListed DEF Gallery!left

\* makePrimary's list has the same images.
LEMMA ToFrontIsOnce ==
    ASSUME NEW seq, Once(seq), NEW i \in 1 .. Len(seq)
    PROVE  /\ Once(Gallery!ToFront(seq, i))
           /\ Gallery!ids(Gallery!ToFront(seq, i)) = Gallery!ids(seq)
<1>1. seq \in Seq(Gallery!ImageRow) /\ Len(seq) \in Nat /\ DOMAIN seq = 1 .. Len(seq)
  BY DEF Once
<1>2. PICK r : r = Gallery!without(seq, i)
  OBVIOUS
<1>3. Once(r) /\ Gallery!ids(r) = Gallery!ids(seq) \ {seq[i].id} /\ Len(r) = Len(seq) - 1
  BY <1>2, WithoutIsOnce
<1>4. r \in Seq(Gallery!ImageRow) /\ DOMAIN r = 1 .. Len(r) /\ seq[i] \in Gallery!ImageRow
  BY <1>1, <1>3 DEF Once
<1>5. PICK f : f = <<seq[i]>> \o r
  OBVIOUS
<1>6. /\ f \in Seq(Gallery!ImageRow) /\ Len(f) = Len(seq) /\ f[1] = seq[i]
      /\ \A j \in 2 .. Len(seq) : f[j] = r[j - 1]
  <2>1. <<seq[i]>> \in Seq(Gallery!ImageRow) /\ Len(<<seq[i]>>) = 1 /\ <<seq[i]>>[1] = seq[i]
    BY <1>4
  <2>2. /\ f \in Seq(Gallery!ImageRow) /\ Len(f) = 1 + Len(r)
        /\ \A j \in 1 .. 1 + Len(r) : f[j] = IF j <= 1 THEN <<seq[i]>>[j] ELSE r[j - 1]
    BY <1>4, <1>5, <2>1, ConcatProperties
  <2> QED
    BY <1>1, <1>3, <2>1, <2>2
<1>7. \A j \in 2 .. Len(seq) : f[j].id # seq[i].id
  <2>1. ASSUME NEW j \in 2 .. Len(seq) PROVE f[j].id # seq[i].id
    <3>1. j - 1 \in DOMAIN r
      BY <1>1, <1>3, <1>4
    <3>2. f[j].id \in Gallery!ids(r)
      BY <1>6, <3>1 DEF Gallery!ids
    <3> QED
      BY <1>3, <3>2
  <2> QED
    BY <2>1
<1>8. Gallery!ids(f) = Gallery!ids(seq)
  <2>1. DOMAIN f = 1 .. Len(seq)
    BY <1>6
  <2>2. ASSUME NEW x \in Gallery!ids(f) PROVE x \in Gallery!ids(seq)
    <3>1. PICK j \in 1 .. Len(seq) : x = f[j].id
      BY <2>1 DEF Gallery!ids
    <3>2. CASE j = 1
      BY <1>1, <1>6, <3>1, <3>2 DEF Gallery!ids
    <3>3. CASE j # 1
      <4>1. j \in 2 .. Len(seq) /\ j - 1 \in DOMAIN r
        BY <1>1, <1>3, <1>4, <3>3
      <4>2. x \in Gallery!ids(r)
        BY <1>6, <3>1, <4>1 DEF Gallery!ids
      <4> QED
        BY <1>3, <4>2
    <3> QED
      BY <3>2, <3>3
  <2>3. ASSUME NEW x \in Gallery!ids(seq) PROVE x \in Gallery!ids(f)
    <3>1. CASE x = seq[i].id
      BY <1>1, <1>6, <2>1, <3>1 DEF Gallery!ids
    <3>2. CASE x # seq[i].id
      <4>1. PICK k \in 1 .. Len(r) : x = r[k].id
        BY <1>3, <1>4, <2>3, <3>2 DEF Gallery!ids
      <4>2. k + 1 \in 2 .. Len(seq) /\ f[k + 1] = r[k]
        BY <1>1, <1>3, <1>6
      <4> QED
        BY <2>1, <4>1, <4>2 DEF Gallery!ids
    <3> QED
      BY <3>1, <3>2
  <2> QED
    BY <2>2, <2>3
<1>9. ASSUME NEW j \in 1 .. Len(f), NEW k \in 1 .. Len(f), f[j].id = f[k].id PROVE j = k
  <2>1. CASE j = 1 \/ k = 1
    BY <1>1, <1>6, <1>7, <1>9, <2>1
  <2>2. CASE j # 1 /\ k # 1
    <3>1. j \in 2 .. Len(seq) /\ k \in 2 .. Len(seq)
      BY <1>1, <1>6, <2>2
    <3>2. r[j - 1].id = r[k - 1].id /\ j - 1 \in 1 .. Len(r) /\ k - 1 \in 1 .. Len(r)
      BY <1>1, <1>3, <1>6, <1>9, <3>1
    <3>3. j - 1 = k - 1
      BY <1>3, <3>2 DEF Once
    <3> QED
      BY <3>1, <3>3
  <2> QED
    BY <2>1, <2>2
<1>10. Once(f)
  BY <1>6, <1>9 DEF Once
<1> QED
  BY <1>2, <1>5, <1>8, <1>10 DEF Gallery!ToFront

LEMMA AppendIsOnce ==
    ASSUME NEW seq, Once(seq), CoverFirst(seq), Len(seq) + 1 <= MaxImages,
           NEW x \in Gallery!ImageRow, x.id \notin Gallery!ids(seq),
           x.cover = TRUE => Len(seq) = 0
    PROVE  /\ Once(Append(seq, x)) /\ CoverFirst(Append(seq, x))
           /\ Gallery!ids(Append(seq, x)) = Gallery!ids(seq) \cup {x.id}
           /\ Len(Append(seq, x)) = Len(seq) + 1
<1>1. seq \in Seq(Gallery!ImageRow) /\ Len(seq) \in Nat /\ DOMAIN seq = 1 .. Len(seq)
  BY DEF Once
<1>2. PICK f : f = Append(seq, x)
  OBVIOUS
<1>3. /\ f \in Seq(Gallery!ImageRow) /\ Len(f) = Len(seq) + 1 /\ f[Len(seq) + 1] = x
      /\ \A j \in 1 .. Len(seq) : f[j] = seq[j]
  BY <1>1, <1>2, AppendProperties
<1>4. DOMAIN f = 1 .. Len(seq) + 1
  BY <1>3
<1>5. \A j \in 1 .. Len(seq) : f[j].id # x.id
  BY <1>1, <1>3 DEF Gallery!ids
<1>6. ASSUME NEW j \in 1 .. Len(f), NEW k \in 1 .. Len(f), f[j].id = f[k].id PROVE j = k
  <2>1. CASE j = Len(seq) + 1 \/ k = Len(seq) + 1
    BY <1>1, <1>3, <1>5, <1>6, <2>1
  <2>2. CASE j # Len(seq) + 1 /\ k # Len(seq) + 1
    <3>1. j \in 1 .. Len(seq) /\ k \in 1 .. Len(seq)
      BY <1>1, <1>3, <2>2
    <3> QED
      BY <1>3, <1>6, <3>1 DEF Once
  <2> QED
    BY <2>1, <2>2
<1>7. Once(f)
  BY <1>3, <1>6 DEF Once
<1>8. CoverFirst(f)
  <2>1. ASSUME NEW j \in 1 .. Len(f), f[j].cover = TRUE PROVE j = 1
    <3>1. CASE j = Len(seq) + 1
      BY <1>1, <1>3, <2>1, <3>1
    <3>2. CASE j \in 1 .. Len(seq)
      BY <1>3, <2>1, <3>2 DEF CoverFirst
    <3> QED
      BY <1>1, <1>3, <3>1, <3>2
  <2> QED
    BY <2>1 DEF CoverFirst
<1>9. Gallery!ids(f) = Gallery!ids(seq) \cup {x.id}
  <2>1. ASSUME NEW y \in Gallery!ids(f) PROVE y \in Gallery!ids(seq) \cup {x.id}
    <3>1. PICK j \in 1 .. Len(seq) + 1 : y = f[j].id
      BY <1>4, <2>1 DEF Gallery!ids
    <3>2. CASE j = Len(seq) + 1
      BY <1>3, <3>1, <3>2
    <3>3. CASE j \in 1 .. Len(seq)
      BY <1>1, <1>3, <3>1, <3>3 DEF Gallery!ids
    <3> QED
      BY <1>1, <3>2, <3>3
  <2>2. ASSUME NEW y \in Gallery!ids(seq) PROVE y \in Gallery!ids(f)
    <3>1. PICK j \in 1 .. Len(seq) : y = seq[j].id
      BY <1>1, <2>2 DEF Gallery!ids
    <3>2. j \in DOMAIN f /\ y = f[j].id
      BY <1>1, <1>3, <1>4, <3>1
    <3> QED
      BY <3>2 DEF Gallery!ids
  <2>3. x.id \in Gallery!ids(f)
    <3>1. Len(seq) + 1 \in DOMAIN f
      BY <1>1, <1>4
    <3> QED
      BY <1>3, <3>1 DEF Gallery!ids
  <2> QED
    BY <2>1, <2>2, <2>3
<1> QED
  BY <1>2, <1>3, <1>7, <1>8, <1>9

UploadRow == [base : Seq(Gallery!ImageRow), left : Nat, uploaded : Seq(Gallery!ImageRow)]
\* A list whose ids no new photograph takes.
IsList(seq) == Listed(seq) /\ Gallery!ids(seq) \cap photos = {}
allOf(u) == u.base \o u.uploaded

\* What an upload has of its list: with the files that are left it is within the limit.
UploadSays(u) ==
    /\ u.left > 0 /\ Once(allOf(u)) /\ CoverFirst(allOf(u))
    /\ Len(allOf(u)) + u.left <= MaxImages
    /\ Gallery!ids(allOf(u)) \cap photos = {}

WindowSays(w) ==
    /\ window[w] # None => IsList(window[w].images)
    /\ saving[w] # None => IsList(saving[w].images)
    /\ upload[w] # None => window[w] # None /\ UploadSays(upload[w])
    /\ removed[w] \cap photos = {}
    /\ Patient /\ window[w] # None => removed[w] \cap Gallery!ids(window[w].images) = {}
    /\ Patient /\ upload[w] # None => removed[w] \cap Gallery!ids(allOf(upload[w])) = {}

ImagesInv ==
    /\ None \notin Gallery!WindowRow
    /\ IsList(images) /\ text \in Int /\ photos \subseteq Nat
    /\ window \in [Windows -> Gallery!WindowRow \cup {None}]
    /\ saving \in [Windows -> Gallery!WindowRow \cup {None}]
    /\ upload \in [Windows -> UploadRow \cup {None}]
    /\ removed \in [Windows -> SUBSET Nat]
    /\ \A w \in Windows : WindowSays(w)

LEMMA ListedIsOnce ==
    ASSUME NEW seq, Listed(seq)
    PROVE  Once(seq) /\ CoverFirst(seq)
BY DEF Listed, CoverFirst

LEMMA ListSays ==
    ASSUME NEW seq, Listed(seq)
    PROVE  /\ seq \in Seq(Gallery!ImageRow) /\ Len(seq) \in Nat /\ Len(seq) <= MaxImages
           /\ MaxImages \in Nat /\ DOMAIN seq = 1 .. Len(seq) /\ Gallery!ids(seq) \subseteq Nat
<1>1. seq \in Seq(Gallery!ImageRow) /\ Len(seq) <= MaxImages /\ MaxImages \in Nat
  BY DEF Listed, Once
<1>2. \A i \in DOMAIN seq : seq[i] \in Gallery!ImageRow
  BY <1>1
<1>3. Gallery!ids(seq) \subseteq Nat
  BY <1>2 DEF Gallery!ids, Gallery!ImageRow
<1> QED
  BY <1>1, <1>3

\* An action of one window.
LEMMA OnlyOneWindow ==
    ASSUME ImagesInv, NEW w \in Windows,
           NEW g \in Gallery!WindowRow \cup {None}, window' = [window EXCEPT ![w] = g],
           NEW u \in UploadRow \cup {None}, upload' = [upload EXCEPT ![w] = u],
           NEW r \in Gallery!WindowRow \cup {None}, saving' = [saving EXCEPT ![w] = r],
           NEW gone \in SUBSET Nat, removed' = [removed EXCEPT ![w] = gone],
           text' \in Int, photos' \subseteq photos,
           Listed(images') /\ Gallery!ids(images') \cap photos' = {},
           g # None => Listed(g.images) /\ Gallery!ids(g.images) \cap photos' = {},
           r # None => Listed(r.images) /\ Gallery!ids(r.images) \cap photos' = {},
           u # None => /\ g # None
                       /\ u.left > 0 /\ Once(allOf(u)) /\ CoverFirst(allOf(u))
                       /\ Len(allOf(u)) + u.left <= MaxImages
                       /\ Gallery!ids(allOf(u)) \cap photos' = {},
           gone \cap photos' = {},
           Patient /\ g # None => gone \cap Gallery!ids(g.images) = {},
           Patient /\ u # None => gone \cap Gallery!ids(allOf(u)) = {}
    PROVE  ImagesInv'
<1>1. /\ window' \in [Windows -> Gallery!WindowRow \cup {None}]
      /\ saving' \in [Windows -> Gallery!WindowRow \cup {None}]
      /\ upload' \in [Windows -> UploadRow \cup {None}]
      /\ removed' \in [Windows -> SUBSET Nat]
  BY DEF ImagesInv
<1>2. window'[w] = g /\ upload'[w] = u /\ saving'[w] = r /\ removed'[w] = gone
  BY DEF ImagesInv
<1>3. WindowSays(w)'
  BY <1>2 DEF WindowSays, IsList, UploadSays
<1>4. ASSUME NEW v \in Windows \ {w} PROVE WindowSays(v)'
  <2>1. /\ window'[v] = window[v] /\ upload'[v] = upload[v]
        /\ saving'[v] = saving[v] /\ removed'[v] = removed[v]
    BY DEF ImagesInv
  <2>2. WindowSays(v)
    BY DEF ImagesInv
  <2> QED
    BY <2>1, <2>2 DEF WindowSays, IsList, UploadSays
<1>5. IsList(images)' /\ photos' \subseteq Nat
  BY DEF ImagesInv, IsList
<1> QED
  BY <1>1, <1>3, <1>4, <1>5 DEF ImagesInv

LEMMA ImagesInit ==
    ASSUME Gallery!ImagesAssumption, Gallery!Init
    PROVE  ImagesInv
<1>1. PICK s : s = [i \in 1 .. AtFirst |-> Gallery!Image(i, FALSE)]
  OBVIOUS
<1>2. AtFirst \in Nat /\ MaxImages \in Nat /\ AtFirst <= MaxImages
  BY DEF Gallery!ImagesAssumption
<1>3. \A i \in 1 .. AtFirst : s[i] \in Gallery!ImageRow /\ s[i].id = i
  BY <1>1, <1>2 DEF Gallery!Image, Gallery!ImageRow
<1>4. s \in [1 .. AtFirst -> Gallery!ImageRow]
  BY <1>1, <1>3
<1>5. s \in Seq(Gallery!ImageRow) /\ Len(s) = AtFirst /\ DOMAIN s = 1 .. AtFirst
  BY <1>2, <1>4
<1>6. Once(s)
  BY <1>2, <1>3, <1>5 DEF Once
<1>7. images = Numbered(s)
  BY <1>1, <1>3, <1>5 DEF Gallery!Init, Numbered
<1>8. Gallery!ids(s) = 1 .. AtFirst
  BY <1>3, <1>5 DEF Gallery!ids
<1>9. Listed(images) /\ Gallery!ids(images) = 1 .. AtFirst
  BY <1>6, <1>7, <1>8, NumberedIsListed
<1>10. \A w \in Windows : WindowSays(w)
  BY DEF Gallery!Init, WindowSays
<1>11. IsList(images) /\ photos \subseteq Nat /\ text \in Int /\ None \notin Gallery!WindowRow
  <2>1. photos = Photos /\ text = 0
    BY DEF Gallery!Init
  <2>2. /\ Photos \subseteq Nat /\ (1 .. AtFirst) \cap Photos = {}
        /\ None \notin Gallery!WindowRow
    BY DEF Gallery!ImagesAssumption
  <2>3. Gallery!ids(images) \cap photos = {}
    BY <1>9, <2>1, <2>2
  <2> QED
    BY <1>9, <2>1, <2>2, <2>3 DEF IsList
<1>12. /\ window \in [Windows -> Gallery!WindowRow \cup {None}]
       /\ saving \in [Windows -> Gallery!WindowRow \cup {None}]
       /\ upload \in [Windows -> UploadRow \cup {None}]
       /\ removed \in [Windows -> SUBSET Nat]
  BY DEF Gallery!Init
<1> QED
  BY <1>10, <1>11, <1>12 DEF ImagesInv

\* An action that keeps what is stored and what is under way, and gives a window another
\* list.
LEMMA NewListStep ==
    ASSUME ImagesInv, NEW w \in Windows, window[w] # None, Patient => upload[w] = None,
           NEW seq, Listed(seq), Gallery!ids(seq) \subseteq Gallery!ids(window[w].images),
           Gallery!Set(w, seq),
           NEW gone, removed' = [removed EXCEPT ![w] = gone],
           gone \subseteq removed[w] \cup Gallery!ids(window[w].images),
           Patient => gone \cap Gallery!ids(seq) = {},
           UNCHANGED <<images, text, upload, saving, photos>>
    PROVE  ImagesInv'
<1>1. WindowSays(w) /\ window[w] \in Gallery!WindowRow /\ None \notin Gallery!WindowRow
  BY DEF ImagesInv
<1>2. PICK g : g = [window[w] EXCEPT !.images = seq]
  OBVIOUS
<1>3. seq \in Seq(Gallery!ImageRow)
  BY ListSays
<1>4. g \in Gallery!WindowRow /\ g.images = seq /\ g # None
  BY <1>1, <1>2, <1>3 DEF Gallery!WindowRow
<1>5. window' = [window EXCEPT ![w] = g]
  BY <1>2 DEF Gallery!Set
<1>6. upload' = [upload EXCEPT ![w] = upload[w]] /\ saving' = [saving EXCEPT ![w] = saving[w]]
  BY DEF ImagesInv
<1>7. Listed(images') /\ Gallery!ids(images') \cap photos' = {} /\ text' \in Int
  BY DEF ImagesInv, IsList
<1>8. /\ saving[w] # None
           => Listed(saving[w].images) /\ Gallery!ids(saving[w].images) \cap photos' = {}
      /\ upload[w] # None => UploadSays(upload[w])
      /\ removed[w] \cap photos = {} /\ Gallery!ids(window[w].images) \cap photos = {}
      /\ Listed(window[w].images)
  BY <1>1 DEF WindowSays, IsList
<1>10. gone \cap photos' = {} /\ Gallery!ids(seq) \cap photos' = {}
  BY <1>8
<1>11. g # None => Listed(g.images) /\ Gallery!ids(g.images) \cap photos' = {}
  BY <1>4, <1>10
<1>12. upload[w] # None =>
          /\ upload[w].left > 0 /\ Once(allOf(upload[w])) /\ CoverFirst(allOf(upload[w]))
          /\ Len(allOf(upload[w])) + upload[w].left <= MaxImages
          /\ Gallery!ids(allOf(upload[w])) \cap photos' = {}
  BY <1>8 DEF UploadSays
<1>13. gone \in SUBSET Nat
  BY <1>8, ListSays DEF ImagesInv
<1>14. upload[w] \in UploadRow \cup {None} /\ saving[w] \in Gallery!WindowRow \cup {None}
  BY DEF ImagesInv
<1> QED
  BY <1>4, <1>5, <1>6, <1>7, <1>8, <1>10, <1>11, <1>12, <1>13, <1>14, OnlyOneWindow

LEMMA PrimaryStep ==
    ASSUME ImagesInv, NEW w \in Windows, NEW i, Gallery!makePrimary(w, i)
    PROVE  ImagesInv'
<1>1. PICK seq : seq = window[w].images
  OBVIOUS
<1>2. Listed(seq) /\ i \in 1 .. Len(seq)
  BY <1>1, ListSays DEF Gallery!makePrimary, Gallery!MayTouch, Gallery!Open, ImagesInv,
      WindowSays, IsList
<1>3. PICK f : f = Gallery!ToFront(seq, i)
  OBVIOUS
<1>4. Once(f) /\ Gallery!ids(f) = Gallery!ids(seq)
  BY <1>2, <1>3, ListedIsOnce, ToFrontIsOnce
<1>5. [j \in DOMAIN f |-> Gallery!Image(f[j].id, j = 1)] = Numbered(f)
  BY <1>4 DEF Once, Numbered
<1>6. Gallery!Set(w, Numbered(f))
  BY <1>1, <1>3, <1>5 DEF Gallery!makePrimary
<1>7. Listed(Numbered(f)) /\ Gallery!ids(Numbered(f)) = Gallery!ids(seq)
  BY <1>4, NumberedIsListed
<1>8. removed' = [removed EXCEPT ![w] = removed[w]]
  BY DEF Gallery!makePrimary, ImagesInv
<1>9. Patient => removed[w] \cap Gallery!ids(seq) = {}
  BY <1>1 DEF ImagesInv, WindowSays, Gallery!makePrimary, Gallery!MayTouch, Gallery!Open
<1> QED
  BY <1>1, <1>6, <1>7, <1>8, <1>9, NewListStep DEF Gallery!makePrimary, Gallery!MayTouch,
      Gallery!Open

LEMMA RemoveStep ==
    ASSUME ImagesInv, NEW w \in Windows, NEW i, Gallery!remove(w, i)
    PROVE  ImagesInv'
<1>1. PICK seq : seq = window[w].images
  OBVIOUS
<1>2. Listed(seq) /\ i \in 1 .. Len(seq)
  BY <1>1, ListSays DEF Gallery!remove, Gallery!MayTouch, Gallery!Open, ImagesInv,
      WindowSays, IsList
<1>3. Gallery!Set(w, Gallery!left(seq, i)) /\ Listed(Gallery!left(seq, i))
      /\ Gallery!ids(Gallery!left(seq, i)) = Gallery!ids(seq) \ {seq[i].id}
  BY <1>1, <1>2, LeftIsListed DEF Gallery!remove
<1>4. seq[i].id \in Gallery!ids(seq)
  BY <1>2, ListSays DEF Gallery!ids
<1>5. PICK gone : gone = removed[w] \cup {seq[i].id}
  OBVIOUS
<1>6. removed' = [removed EXCEPT ![w] = gone]
  BY <1>1, <1>5 DEF Gallery!remove
<1>7. window[w] # None /\ (Patient => upload[w] = None)
      /\ UNCHANGED <<images, text, upload, saving, photos>>
  BY DEF Gallery!remove, Gallery!MayTouch, Gallery!Open
<1>8. Patient => removed[w] \cap Gallery!ids(seq) = {}
  BY <1>1, <1>7 DEF ImagesInv, WindowSays
<1>9. Patient => gone \cap Gallery!ids(Gallery!left(seq, i)) = {}
  BY <1>3, <1>5, <1>8
<1>10. gone \subseteq removed[w] \cup Gallery!ids(seq)
       /\ Gallery!ids(Gallery!left(seq, i)) \subseteq Gallery!ids(seq)
  BY <1>3, <1>4, <1>5
<1> QED
  BY <1>1, <1>3, <1>6, <1>7, <1>9, <1>10, NewListStep
LEMMA WindowsKeep ==
    ASSUME ImagesInv, NEW w \in Windows
    PROVE  /\ window = [window EXCEPT ![w] = window[w]]
           /\ upload = [upload EXCEPT ![w] = upload[w]]
           /\ saving = [saving EXCEPT ![w] = saving[w]]
           /\ removed = [removed EXCEPT ![w] = removed[w]]
           /\ window[w] \in Gallery!WindowRow \cup {None} /\ upload[w] \in UploadRow \cup {None}
           /\ saving[w] \in Gallery!WindowRow \cup {None} /\ removed[w] \in SUBSET Nat
           /\ WindowSays(w)
           /\ Listed(images) /\ Gallery!ids(images) \cap photos = {} /\ text \in Int
           /\ None \notin Gallery!WindowRow
BY DEF ImagesInv, IsList

LEMMA OpenWindowStep ==
    ASSUME ImagesInv, NEW w \in Windows, NEW kind \in {"edit", "images"}, Gallery!OpenWindow(w,
           kind)
    PROVE  ImagesInv'
<1>1. WindowSays(w) /\ window[w] = None /\ upload[w] = None
  BY WindowsKeep DEF Gallery!OpenWindow, Gallery!Open, WindowSays
<1>2. PICK seq : seq = Gallery!normalizeProductImages(images)
  OBVIOUS
<1>3. Listed(seq) /\ Gallery!ids(seq) \cap photos = {}
  BY <1>2, WindowsKeep, ListedIsOnce, NormalizedIsListed
<1>4. PICK g : g = [kind |-> kind, images |-> seq, text |-> text]
  OBVIOUS
<1>5. g \in Gallery!WindowRow /\ g.images = seq
  BY <1>3, <1>4, ListSays, WindowsKeep DEF Gallery!WindowRow
<1>6. window' = [window EXCEPT ![w] = g] /\ removed' = [removed EXCEPT ![w] = {}]
  BY <1>2, <1>4 DEF Gallery!OpenWindow
<1>7. UNCHANGED <<images, text, upload, saving, photos>>
  BY DEF Gallery!OpenWindow
<1>8. saving[w] # None => Listed(saving[w].images)
      /\ Gallery!ids(saving[w].images) \cap photos' = {}
  BY <1>1, <1>7 DEF WindowSays, IsList
<1>9. /\ upload' = [upload EXCEPT ![w] = None] /\ saving' = [saving EXCEPT ![w] = saving[w]]
      /\ text' \in Int /\ photos' = photos
      /\ Listed(images') /\ Gallery!ids(images') \cap photos' = {}
      /\ saving[w] \in Gallery!WindowRow \cup {None}
  BY <1>1, <1>7, WindowsKeep
<1>10. Gallery!ids(g.images) \cap photos' = {} /\ Listed(g.images)
  BY <1>3, <1>5, <1>9
<1>11. PICK gone \in SUBSET Nat : gone = {}
  OBVIOUS
<1>12. /\ removed' = [removed EXCEPT ![w] = gone]
       /\ gone \cap photos' = {} /\ gone \cap Gallery!ids(g.images) = {}
  BY <1>6, <1>11
<1> QED
  BY <1>5, <1>6, <1>8, <1>9, <1>10, <1>12, OnlyOneWindow

LEMMA TextStep ==
    ASSUME ImagesInv, NEW w \in Windows, Gallery!ChangeText(w)
    PROVE  ImagesInv'
<1>1. WindowSays(w) /\ window[w] # None /\ window[w] \in Gallery!WindowRow /\ text \in Int
  BY WindowsKeep DEF Gallery!ChangeText, Gallery!Open
<1>2. PICK g : g = [window[w] EXCEPT !.text = 1 - window[w].text]
  OBVIOUS
<1>3. g \in Gallery!WindowRow /\ g.images = window[w].images
  BY <1>1, <1>2 DEF Gallery!WindowRow
<1>4. window' = [window EXCEPT ![w] = g]
  BY <1>2 DEF Gallery!ChangeText
<1>5. UNCHANGED <<images, text, upload, saving, photos, removed>>
  BY DEF Gallery!ChangeText
<1>6. g # None
  BY <1>3, WindowsKeep
<1>7. Listed(g.images) /\ Gallery!ids(g.images) \cap photos' = {} /\ removed[w] \cap photos' = {}
  BY <1>1, <1>3, <1>5 DEF WindowSays, IsList
<1>8. saving[w] # None => Listed(saving[w].images)
      /\ Gallery!ids(saving[w].images) \cap photos' = {}
  BY <1>1, <1>5 DEF WindowSays, IsList
<1>9. upload[w] # None =>
          /\ upload[w].left > 0 /\ Once(allOf(upload[w])) /\ CoverFirst(allOf(upload[w]))
          /\ Len(allOf(upload[w])) + upload[w].left <= MaxImages
          /\ Gallery!ids(allOf(upload[w])) \cap photos' = {}
  BY <1>1, <1>5 DEF WindowSays, UploadSays
<1>10. /\ Patient => removed[w] \cap Gallery!ids(g.images) = {}
       /\ Patient /\ upload[w] # None => removed[w] \cap Gallery!ids(allOf(upload[w])) = {}
  BY <1>1, <1>3 DEF WindowSays
<1>11. /\ upload' = [upload EXCEPT ![w] = upload[w]]
       /\ saving' = [saving EXCEPT ![w] = saving[w]]
       /\ removed' = [removed EXCEPT ![w] = removed[w]]
       /\ text' \in Int /\ photos' = photos
       /\ Listed(images') /\ Gallery!ids(images') \cap photos' = {}
       /\ saving[w] \in Gallery!WindowRow \cup {None} /\ upload[w] \in UploadRow \cup {None}
       /\ removed[w] \in SUBSET Nat
  BY <1>5, WindowsKeep
<1> QED
  BY <1>3, <1>4, <1>6, <1>7, <1>8, <1>9, <1>10, <1>11, OnlyOneWindow

LEMMA StartStep ==
    ASSUME ImagesInv, NEW w \in Windows, NEW n, Gallery!StartUpload(w, n)
    PROVE  ImagesInv'
<1>1. WindowSays(w) /\ window[w] # None /\ window[w] \in Gallery!WindowRow
  BY WindowsKeep DEF Gallery!StartUpload, Gallery!Open
<1>2. PICK seq : seq = window[w].images
  OBVIOUS
<1>3. Listed(seq) /\ Gallery!ids(seq) \cap photos = {}
  BY <1>1, <1>2 DEF WindowSays, IsList
<1>4. /\ seq \in Seq(Gallery!ImageRow) /\ Len(seq) \in Nat /\ MaxImages \in Nat
      /\ Once(seq) /\ CoverFirst(seq)
  BY <1>3, ListSays, ListedIsOnce
<1>5. n \in 1 .. MaxImages - Len(seq)
  BY <1>2 DEF Gallery!StartUpload, Gallery!availableSlots
<1>6. PICK u : u = [base |-> seq, left |-> n, uploaded |-> <<>>]
  OBVIOUS
<1>7. u \in UploadRow
  <2>1. <<>> \in Seq(Gallery!ImageRow) /\ n \in Nat
    BY <1>4, <1>5
  <2> QED
    BY <1>4, <1>6, <2>1 DEF UploadRow
<1>8. allOf(u) = seq
  BY <1>4, <1>6, ConcatEmptySeq DEF allOf
<1>9. u.left > 0 /\ Len(seq) + u.left <= MaxImages
  BY <1>4, <1>5, <1>6
<1>10. upload' = [upload EXCEPT ![w] = u]
  BY <1>2, <1>6 DEF Gallery!StartUpload, Gallery!base
<1>11. UNCHANGED <<images, text, window, saving, photos, removed>>
  BY DEF Gallery!StartUpload
<1>12. saving[w] # None => Listed(saving[w].images)
       /\ Gallery!ids(saving[w].images) \cap photos' = {}
  BY <1>1, <1>11 DEF WindowSays, IsList
<1>13. removed[w] \cap photos' = {} /\ (Patient => removed[w] \cap Gallery!ids(seq) = {})
  BY <1>1, <1>2, <1>11 DEF WindowSays
<1>14. /\ window' = [window EXCEPT ![w] = window[w]]
       /\ saving' = [saving EXCEPT ![w] = saving[w]]
       /\ removed' = [removed EXCEPT ![w] = removed[w]]
       /\ text' \in Int /\ photos' = photos
       /\ Listed(images') /\ Gallery!ids(images') \cap photos' = {}
       /\ saving[w] \in Gallery!WindowRow \cup {None} /\ removed[w] \in SUBSET Nat
  BY <1>11, WindowsKeep
<1>15. /\ Listed(window[w].images) /\ Gallery!ids(window[w].images) \cap photos' = {}
       /\ Patient => removed[w] \cap Gallery!ids(window[w].images) = {}
       /\ Patient => removed[w] \cap Gallery!ids(allOf(u)) = {}
  BY <1>2, <1>3, <1>8, <1>13, <1>14
<1>16. /\ u.left > 0 /\ Once(allOf(u)) /\ CoverFirst(allOf(u))
       /\ Len(allOf(u)) + u.left <= MaxImages
       /\ Gallery!ids(allOf(u)) \cap photos' = {}
  BY <1>3, <1>4, <1>8, <1>9, <1>14
<1> QED
  BY <1>1, <1>7, <1>10, <1>12, <1>13, <1>14, <1>15, <1>16, OnlyOneWindow
\* The answer of an upload is a list again.
LEMMA AddedIsListed ==
    ASSUME NEW u, Once(allOf(u)), CoverFirst(allOf(u))
    PROVE  Listed(Gallery!Added(u)) /\ Gallery!ids(Gallery!Added(u)) = Gallery!ids(allOf(u))
BY NormalizedIsListed DEF Gallery!Added, allOf

LEMMA FileIsAdded ==
    ASSUME NEW u \in UploadRow, u.left > 0, Once(allOf(u)), CoverFirst(allOf(u)),
           Len(allOf(u)) + u.left <= MaxImages,
           NEW y \in Gallery!ImageRow, y.id \notin Gallery!ids(allOf(u)),
           y.cover = TRUE => u.base = <<>> /\ u.uploaded = <<>>,
           NEW x, x = [u EXCEPT !.left = u.left - 1, !.uploaded = Append(u.uploaded, y)]
    PROVE  /\ x \in UploadRow /\ Once(allOf(x)) /\ CoverFirst(allOf(x))
           /\ Gallery!ids(allOf(x)) = Gallery!ids(allOf(u)) \cup {y.id} /\ x.left = u.left - 1
           /\ Len(allOf(x)) + x.left <= MaxImages
<1>1. PICK more : more = Append(u.uploaded, y)
  OBVIOUS
<1>2. PICK a, b : a = u.base /\ b = u.uploaded
  OBVIOUS
<1>3. a \in Seq(Gallery!ImageRow) /\ b \in Seq(Gallery!ImageRow) /\ u.left \in Nat
  BY <1>2 DEF UploadRow
<1>4. more \in Seq(Gallery!ImageRow)
  BY <1>1, <1>2, <1>3
<1>5. x = [u EXCEPT !.left = u.left - 1, !.uploaded = more] /\ u.left - 1 \in Nat
  BY <1>1, <1>3
<1>6. x.base = a /\ x.left = u.left - 1 /\ x.uploaded = more /\ x \in UploadRow
  BY <1>2, <1>3, <1>4, <1>5 DEF UploadRow
<1>7. allOf(u) = a \o b /\ allOf(x) = a \o more
  BY <1>2, <1>6 DEF allOf
<1>8. PICK all : all = a \o b
  OBVIOUS
<1>9. all \in Seq(Gallery!ImageRow)
  BY <1>3, <1>8
<1>10. a \o more = Append(all, y)
  <2>1. <<y>> \in Seq(Gallery!ImageRow) /\ more = b \o <<y>>
    BY <1>1, <1>2, <1>3, AppendIsConcat
  <2>2. (a \o b) \o <<y>> = a \o (b \o <<y>>)
    BY <1>3, <2>1, ConcatAssociative
  <2>3. Append(all, y) = all \o <<y>>
    BY <1>9, AppendIsConcat
  <2> QED
    BY <1>8, <2>1, <2>2, <2>3
<1>11. y.cover = TRUE => Len(all) = 0
  <2>1. SUFFICES ASSUME a = <<>>, b = <<>> PROVE Len(all) = 0
    BY <1>2
  <2>2. Len(a \o b) = Len(a) + Len(b)
    BY <1>3, ConcatProperties
  <2> QED
    BY <1>8, <2>1, <2>2
<1>12. Len(all) \in Nat /\ Len(all) + 1 <= MaxImages /\ MaxImages \in Nat
  BY <1>3, <1>7, <1>8, <1>9 DEF Once
<1>13. /\ Once(Append(all, y)) /\ CoverFirst(Append(all, y))
       /\ Gallery!ids(Append(all, y)) = Gallery!ids(all) \cup {y.id}
       /\ Len(Append(all, y)) = Len(all) + 1
  BY <1>7, <1>8, <1>11, <1>12, AppendIsOnce
<1>14. Len(Append(all, y)) + x.left <= MaxImages
  BY <1>3, <1>6, <1>7, <1>8, <1>12, <1>13
<1> QED
  BY <1>6, <1>7, <1>8, <1>10, <1>13, <1>14

\* The least of the photographs is one.
LEMMA LeastPhoto ==
    ASSUME photos \subseteq Nat, photos # {}
    PROVE  (CHOOSE p \in photos : \A q \in photos : p <= q) \in photos
<1>1. PICK p \in photos : \A q \in photos : ~(<<q, p>> \in OpToRel(<, Nat))
  BY NatLessThanWellFounded, WFMin
<1>2. \A q \in photos : ~(q < p)
  BY <1>1 DEF OpToRel
<1>3. \A q \in photos : p <= q
  BY <1>2
<1> QED
  BY <1>3
LEMMA FileStep ==
    ASSUME ImagesInv, NEW w \in Windows, Gallery!FileUploaded(w)
    PROVE  ImagesInv'
<1>1. /\ WindowSays(w) /\ upload[w] # None /\ upload[w] \in UploadRow
      /\ window[w] # None /\ window[w] \in Gallery!WindowRow
  BY WindowsKeep DEF Gallery!FileUploaded, WindowSays
<1>2. PICK id : id = CHOOSE p \in photos : \A q \in photos : p <= q
  OBVIOUS
<1>3. id \in photos /\ id \in Nat
  BY <1>2, LeastPhoto DEF Gallery!FileUploaded, ImagesInv
<1>4. PICK u : u = upload[w]
  OBVIOUS
<1>5. /\ u \in UploadRow /\ u.left > 0 /\ Once(allOf(u)) /\ CoverFirst(allOf(u))
      /\ Len(allOf(u)) + u.left <= MaxImages /\ Gallery!ids(allOf(u)) \cap photos = {}
  BY <1>1, <1>4 DEF WindowSays, UploadSays
<1>6. PICK y : y = Gallery!Image(id, u.base = <<>> /\ u.uploaded = <<>>)
  OBVIOUS
<1>7. y \in Gallery!ImageRow /\ y.id = id /\ (y.cover = TRUE => u.base = <<>>
      /\ u.uploaded = <<>>)
  <2>1. y = [id |-> id, cover |-> (u.base = <<>> /\ u.uploaded = <<>>)]
    BY <1>6 DEF Gallery!Image
  <2>2. (u.base = <<>> /\ u.uploaded = <<>>) \in BOOLEAN
    OBVIOUS
  <2>3. y \in Gallery!ImageRow
    BY <1>3, <2>1, <2>2 DEF Gallery!ImageRow
  <2>4. y.id = id
    BY <2>1
  <2>5. y.cover = (u.base = <<>> /\ u.uploaded = <<>>)
    BY <2>1
  <2> QED
    BY <2>3, <2>4, <2>5
<1>8. PICK x : x = [u EXCEPT !.left = u.left - 1, !.uploaded = Append(u.uploaded, y)]
  OBVIOUS
<1>9. x = [upload[w] EXCEPT !.left = @ - 1,
             !.uploaded = Append(@, Gallery!Image(id, upload[w].base = <<>> /\ @ = <<>>))]
  BY <1>4, <1>6, <1>8
<1>10. /\ photos' = photos \ {id}
       /\ IF x.left = 0
          THEN Gallery!Set(w, Gallery!Added(x)) /\ upload' = [upload EXCEPT ![w] = None]
          ELSE upload' = [upload EXCEPT ![w] = x] /\ UNCHANGED window
       /\ UNCHANGED <<images, text, saving, removed>>
  BY <1>2, <1>9 DEF Gallery!FileUploaded
<1>11. /\ x \in UploadRow /\ Once(allOf(x)) /\ CoverFirst(allOf(x))
       /\ Gallery!ids(allOf(x)) = Gallery!ids(allOf(u)) \cup {id} /\ x.left = u.left - 1
       /\ Len(allOf(x)) + x.left <= MaxImages
  <2>1. y.id \notin Gallery!ids(allOf(u))
    BY <1>3, <1>5, <1>7
  <2> QED
    BY <1>5, <1>7, <1>8, <2>1, FileIsAdded
<1>12. Gallery!ids(allOf(x)) \cap photos' = {} /\ (Patient
       => removed[w] \cap Gallery!ids(allOf(x)) = {})
  <2>1. removed[w] \cap photos = {} /\ (Patient => removed[w] \cap Gallery!ids(allOf(u)) = {})
    BY <1>1, <1>4 DEF WindowSays
  <2> QED
    BY <1>3, <1>5, <1>10, <1>11, <2>1
<1>13. /\ saving' = [saving EXCEPT ![w] = saving[w]]
       /\ removed' = [removed EXCEPT ![w] = removed[w]]
       /\ text' \in Int /\ photos' \subseteq photos
       /\ Listed(images') /\ Gallery!ids(images') \cap photos' = {}
       /\ saving[w] \in Gallery!WindowRow \cup {None} /\ removed[w] \in SUBSET Nat
  BY <1>10, WindowsKeep
<1>14. /\ saving[w] # None
            => Listed(saving[w].images) /\ Gallery!ids(saving[w].images) \cap photos' = {}
       /\ removed[w] \cap photos' = {}
       /\ Listed(window[w].images) /\ Gallery!ids(window[w].images) \cap photos' = {}
       /\ Patient => removed[w] \cap Gallery!ids(window[w].images) = {}
  BY <1>1, <1>13 DEF WindowSays, IsList
<1>15. CASE x.left = 0
  <2>1. PICK seq : seq = Gallery!Added(x)
    OBVIOUS
  <2>2. Listed(seq) /\ Gallery!ids(seq) = Gallery!ids(allOf(x)) /\ seq \in Seq(Gallery!ImageRow)
    BY <1>11, <2>1, AddedIsListed, ListSays
  <2>3. PICK g : g = [window[w] EXCEPT !.images = seq]
    OBVIOUS
  <2>4. g \in Gallery!WindowRow /\ g.images = seq
    BY <1>1, <2>2, <2>3 DEF Gallery!WindowRow
  <2>5. window' = [window EXCEPT ![w] = g] /\ upload' = [upload EXCEPT ![w] = None]
    BY <1>10, <1>15, <2>1, <2>3 DEF Gallery!Set
  <2>6. /\ Listed(g.images) /\ Gallery!ids(g.images) \cap photos' = {}
        /\ Patient => removed[w] \cap Gallery!ids(g.images) = {}
    BY <1>12, <2>2, <2>4
  <2> QED
    BY <1>13, <1>14, <2>4, <2>5, <2>6, OnlyOneWindow
<1>16. CASE x.left # 0
  <2>1. window' = [window EXCEPT ![w] = window[w]] /\ upload' = [upload EXCEPT ![w] = x]
    BY <1>10, <1>16, WindowsKeep
  <2>2. x.left > 0
    BY <1>5, <1>11, <1>16 DEF UploadRow
  <2> QED
    BY <1>1, <1>11, <1>12, <1>13, <1>14, <2>1, <2>2, OnlyOneWindow
<1> QED
  BY <1>15, <1>16

LEMMA FailStep ==
    ASSUME ImagesInv, NEW w \in Windows, Gallery!UploadFails(w)
    PROVE  ImagesInv'
<1>1. /\ WindowSays(w) /\ upload[w] # None
      /\ window[w] # None /\ window[w] \in Gallery!WindowRow
  BY WindowsKeep DEF Gallery!UploadFails, WindowSays
<1>2. PICK u : u = upload[w]
  OBVIOUS
<1>3. /\ Once(allOf(u)) /\ CoverFirst(allOf(u)) /\ Gallery!ids(allOf(u)) \cap photos = {}
      /\ Patient => removed[w] \cap Gallery!ids(allOf(u)) = {}
  BY <1>1, <1>2 DEF WindowSays, UploadSays
<1>4. UNCHANGED <<images, text, saving, photos, removed>> /\ upload' = [upload EXCEPT ![w] = None]
  BY DEF Gallery!UploadFails
<1>5. /\ saving' = [saving EXCEPT ![w] = saving[w]]
      /\ removed' = [removed EXCEPT ![w] = removed[w]]
      /\ text' \in Int /\ photos' = photos
      /\ Listed(images') /\ Gallery!ids(images') \cap photos' = {}
      /\ saving[w] \in Gallery!WindowRow \cup {None} /\ removed[w] \in SUBSET Nat
  BY <1>4, WindowsKeep
<1>6. /\ saving[w] # None
           => Listed(saving[w].images) /\ Gallery!ids(saving[w].images) \cap photos' = {}
      /\ removed[w] \cap photos' = {}
      /\ Listed(window[w].images) /\ Gallery!ids(window[w].images) \cap photos' = {}
      /\ Patient => removed[w] \cap Gallery!ids(window[w].images) = {}
  BY <1>1, <1>5 DEF WindowSays, IsList
<1>7. CASE u.uploaded # <<>>
  <2>1. PICK seq : seq = Gallery!Added(u)
    OBVIOUS
  <2>2. Listed(seq) /\ Gallery!ids(seq) = Gallery!ids(allOf(u)) /\ seq \in Seq(Gallery!ImageRow)
    BY <1>3, <2>1, AddedIsListed, ListSays
  <2>3. PICK g : g = [window[w] EXCEPT !.images = seq]
    OBVIOUS
  <2>4. g \in Gallery!WindowRow /\ g.images = seq
    BY <1>1, <2>2, <2>3 DEF Gallery!WindowRow
  <2>5. window' = [window EXCEPT ![w] = g]
    BY <1>2, <1>7, <2>1, <2>3 DEF Gallery!Set, Gallery!UploadFails
  <2>6. /\ Listed(g.images) /\ Gallery!ids(g.images) \cap photos' = {}
        /\ Patient => removed[w] \cap Gallery!ids(g.images) = {}
    BY <1>3, <1>5, <2>2, <2>4
  <2> QED
    BY <1>4, <1>5, <1>6, <2>4, <2>5, <2>6, OnlyOneWindow
<1>8. CASE u.uploaded = <<>>
  <2>1. window' = [window EXCEPT ![w] = window[w]]
    BY <1>2, <1>8, WindowsKeep DEF Gallery!UploadFails
  <2> QED
    BY <1>1, <1>4, <1>5, <1>6, <2>1, OnlyOneWindow
<1> QED
  BY <1>7, <1>8

LEMMA SubmitStep ==
    ASSUME ImagesInv, NEW w \in Windows, Gallery!submit(w)
    PROVE  ImagesInv'
<1>1. UNCHANGED <<images, text, window, upload, photos, removed>>
  BY DEF Gallery!submit
<1>2. WindowSays(w) /\ window[w] # None /\ window[w] \in Gallery!WindowRow
  BY WindowsKeep DEF Gallery!submit, Gallery!Open
<1>3. /\ window' = [window EXCEPT ![w] = window[w]] /\ upload' = [upload EXCEPT ![w] = upload[w]]
      /\ saving' = [saving EXCEPT ![w] = window[w]]
      /\ removed' = [removed EXCEPT ![w] = removed[w]]
      /\ text' \in Int /\ photos' = photos
      /\ Listed(images') /\ Gallery!ids(images') \cap photos' = {}
      /\ upload[w] \in UploadRow \cup {None} /\ removed[w] \in SUBSET Nat
  BY <1>1, WindowsKeep DEF Gallery!submit
<1>4. /\ Listed(window[w].images) /\ Gallery!ids(window[w].images) \cap photos' = {}
      /\ removed[w] \cap photos' = {}
      /\ Patient => removed[w] \cap Gallery!ids(window[w].images) = {}
      /\ Patient /\ upload[w] # None => removed[w] \cap Gallery!ids(allOf(upload[w])) = {}
  BY <1>2, <1>3 DEF WindowSays, IsList
<1>5. upload[w] # None =>
          /\ upload[w].left > 0 /\ Once(allOf(upload[w])) /\ CoverFirst(allOf(upload[w]))
          /\ Len(allOf(upload[w])) + upload[w].left <= MaxImages
          /\ Gallery!ids(allOf(upload[w])) \cap photos' = {}
  BY <1>2, <1>3 DEF WindowSays, UploadSays
<1> QED
  BY <1>2, <1>3, <1>4, <1>5, OnlyOneWindow

LEMMA SaveStep ==
    ASSUME ImagesInv, NEW w \in Windows, Gallery!updateProduct(w)
    PROVE  ImagesInv'
<1>1. WindowSays(w) /\ saving[w] # None /\ saving[w] \in Gallery!WindowRow
  BY WindowsKeep DEF Gallery!updateProduct
<1>2. images' = saving[w].images /\ photos' = photos
  BY DEF Gallery!updateProduct
<1>3. Listed(images') /\ Gallery!ids(images') \cap photos' = {}
  BY <1>1, <1>2 DEF WindowSays, IsList
<1>4. text' \in Int
  BY <1>1, WindowsKeep DEF Gallery!updateProduct, Gallery!WindowRow
<1>5. PICK gone \in SUBSET Nat : gone = {}
  OBVIOUS
<1>6. /\ window' = [window EXCEPT ![w] = None] /\ upload' = [upload EXCEPT ![w] = None]
      /\ saving' = [saving EXCEPT ![w] = None] /\ removed' = [removed EXCEPT ![w] = gone]
      /\ gone \cap photos' = {}
  BY <1>5 DEF Gallery!updateProduct
<1> QED
  BY <1>2, <1>3, <1>4, <1>6, OnlyOneWindow

LEMMA SaveFailsStep ==
    ASSUME ImagesInv, NEW w \in Windows, Gallery!SaveFails(w)
    PROVE  ImagesInv'
<1>1. WindowSays(w) /\ saving[w] # None /\ saving[w] \in Gallery!WindowRow
  BY WindowsKeep DEF Gallery!SaveFails
<1>2. UNCHANGED <<window, upload, photos, removed>> /\ saving' = [saving EXCEPT ![w] = None]
  BY DEF Gallery!SaveFails
<1>3. \/ images' = saving[w].images /\ (text' = saving[w].text \/ text' = text)
      \/ UNCHANGED <<images, text>>
  BY DEF Gallery!SaveFails
<1>4. /\ Listed(saving[w].images) /\ Gallery!ids(saving[w].images) \cap photos = {}
      /\ saving[w].text \in Int
  BY <1>1 DEF WindowSays, IsList, Gallery!WindowRow
<1>5. Listed(images') /\ Gallery!ids(images') \cap photos' = {} /\ text' \in Int
  BY <1>2, <1>3, <1>4, WindowsKeep
<1>6. /\ window' = [window EXCEPT ![w] = window[w]] /\ upload' = [upload EXCEPT ![w] = upload[w]]
      /\ removed' = [removed EXCEPT ![w] = removed[w]]
      /\ photos' = photos
      /\ window[w] \in Gallery!WindowRow \cup {None}
      /\ upload[w] \in UploadRow \cup {None} /\ removed[w] \in SUBSET Nat
  BY <1>2, WindowsKeep
<1>7. /\ window[w] # None
           => Listed(window[w].images) /\ Gallery!ids(window[w].images) \cap photos' = {}
      /\ removed[w] \cap photos' = {}
      /\ Patient /\ window[w] # None => removed[w] \cap Gallery!ids(window[w].images) = {}
      /\ Patient /\ upload[w] # None => removed[w] \cap Gallery!ids(allOf(upload[w])) = {}
      /\ upload[w] # None => window[w] # None
  BY <1>1, <1>6 DEF WindowSays, IsList
<1>8. upload[w] # None =>
          /\ upload[w].left > 0 /\ Once(allOf(upload[w])) /\ CoverFirst(allOf(upload[w]))
          /\ Len(allOf(upload[w])) + upload[w].left <= MaxImages
          /\ Gallery!ids(allOf(upload[w])) \cap photos' = {}
  BY <1>1, <1>6 DEF WindowSays, UploadSays
<1> QED
  BY <1>2, <1>5, <1>6, <1>7, <1>8, OnlyOneWindow

\* Every step of a window, of its uploads and of the API keeps the lists.
LEMMA ImagesStep ==
    ASSUME ImagesInv, [Gallery!Next]_Gallery!vars
    PROVE  ImagesInv'
<1>1. CASE UNCHANGED Gallery!vars
  BY <1>1 DEF ImagesInv, Gallery!vars, WindowSays, IsList, UploadSays
<1>2. CASE Gallery!Next
  BY <1>2, OpenWindowStep, TextStep, PrimaryStep, RemoveStep, StartStep, FileStep, FailStep,
     SubmitStep, SaveStep, SaveFailsStep DEF Gallery!Next
<1> QED
  BY <1>1, <1>2

\* A product's images are at most the limit and their cover is the first, as stored and
\* in every window, for any number of employees who order, remove, upload and save at
\* once and of uploads and saves that fail (ProductImageManager, updateProduct).
THEOREM ListsAreWhole ==
    ASSUME Gallery!ImagesAssumption
    PROVE  Gallery!Spec => [](Gallery!AtMostEight /\ Gallery!CoverIsFirst)
<1>1. ASSUME ImagesInv PROVE Gallery!AtMostEight /\ Gallery!CoverIsFirst
  <2>1. \A seq \in Gallery!AllLists : Listed(seq)
    BY <1>1 DEF Gallery!AllLists, ImagesInv, WindowSays, IsList, Gallery!Open
  <2> QED
    BY <2>1, ListSays DEF Gallery!AtMostEight, Gallery!CoverIsFirst, Listed
<1> QED
  BY <1>1, ImagesInit, ImagesStep, PTL DEF Gallery!Spec

\* Where employees leave the images alone while one is uploaded, an image removed in a
\* window is not in its list again: no answer of an upload adds it to the list it began with.
THEOREM RemovedImagesStayRemoved ==
    ASSUME Gallery!ImagesAssumption, Patient
    PROVE  Gallery!Spec => []Gallery!RemovedStaysRemoved
<1>1. ASSUME ImagesInv PROVE Gallery!RemovedStaysRemoved
  BY <1>1 DEF ImagesInv, WindowSays, Gallery!RemovedStaysRemoved, Gallery!Open
<1> QED
  BY <1>1, ImagesInit, ImagesStep, PTL DEF Gallery!Spec
-----------------------------------------------------------------------------
(***************************************************************************)
(* The campaigns (PromotionDesk), for every number of employees, codes and *)
(* dates. A change is checked against a row that may be old when it        *)
(* writes; the CHECKs of the table and its unique slug and code decide     *)
(* then.                                                                   *)
(***************************************************************************)

Fields == {"slug", "code", "requiresCode", "startsAt", "endsAt", "isActive",
           "perCustomerLimit", "number"}
Ends == (0..Horizon) \cup {None}
FormFields == [slug : Slugs, code : Typed \cup {Blank}, startsAt : 0..Horizon, endsAt : Ends,
               isActive : BOOLEAN]
FormRow == [id : Ids \cup {None}, number : Nat, fields : FormFields]

\* What a caller may send: some of the fields, each as it is typed.
IsInput(c) ==
    /\ c = [f \in DOMAIN c |-> c[f]] /\ DOMAIN c \subseteq Fields \ {"number"}
    /\ "slug" \in DOMAIN c => c.slug \in Slugs
    /\ "code" \in DOMAIN c => c.code \in Typed \cup {Blank}
    /\ "requiresCode" \in DOMAIN c => c.requiresCode \in BOOLEAN
    /\ "startsAt" \in DOMAIN c => c.startsAt \in 0..Horizon
    /\ "endsAt" \in DOMAIN c => c.endsAt \in Ends
    /\ "isActive" \in DOMAIN c => c.isActive \in BOOLEAN
    /\ "perCustomerLimit" \in DOMAIN c => c.perCustomerLimit \in Limits

NewFields == Fields \ {"number", "perCustomerLimit"}

Apart ==
    \A i, j \in Campaigns!Rows : i # j =>
        /\ promotion[i].slug # promotion[j].slug
        /\ promotion[i].code # None => promotion[j].code # promotion[i].code

\* Which campaign a form for a new one stands for.
NewForms == {e \in Employees : form[e] # None /\ form[e].id = None}
NewRequests == {e \in Requests : asked[e] # None /\ asked[e].id = None}
Claiming == {i \in Campaigns!Rows : promotion[i].number # 0}   \* and not renamed
Claims == {<<promotion[i].number, promotion[i].slug>> : i \in Claiming}
            \cup {<<form[e].number, form[e].fields.slug>> : e \in NewForms}
            \cup {<<asked[e].number, asked[e].input.slug>> : e \in NewRequests}
ClaimsSay ==
    /\ \A p \in Claims : p[1] \in 1..forms
    /\ \A p, q \in Claims : p[1] = q[1] => p[2] = q[2]

FormsSay ==
    \A e \in Employees : form[e] # None =>
        form[e] \in FormRow /\ (form[e].id # None => form[e].id \in Campaigns!Rows)
ChangeSays(r) ==
    /\ IsInput(r.input)
    /\ r.id # None => r.id \in Campaigns!Rows
    /\ r.id = None => DOMAIN r.input = NewFields

PromotionInv ==
    /\ Campaigns!PromotionAssumption
    /\ promotion \in [Ids -> Campaigns!Row \cup {None}] /\ forms \in 0..MaxForms
    /\ today \in 0..Horizon
    /\ DOMAIN form = Employees /\ DOMAIN asked = Requests
    /\ \A i \in Campaigns!Rows : Campaigns!checks(promotion[i])
    /\ Apart /\ ClaimsSay /\ FormsSay
    /\ \A e \in Requests : asked[e] # None => ChangeSays(asked[e])

LEMMA StoredCodes ==
    ASSUME Campaigns!PromotionAssumption, NEW t \in Typed \cup {Blank}
    PROVE  Campaigns!storedCode(t) \in Campaigns!Codes \cup {None}
BY DEF Campaigns!storedCode, Campaigns!Codes

LEMMA RowFields ==
    ASSUME NEW r \in Campaigns!Row
    PROVE  /\ DOMAIN r = Fields /\ r = [f \in Fields |-> r[f]]
           /\ r.slug \in Slugs /\ r.code \in Campaigns!Codes \cup {None}
           /\ r.requiresCode \in BOOLEAN
           /\ r.startsAt \in 0..Horizon /\ r.endsAt \in Ends /\ r.isActive \in BOOLEAN
           /\ r.perCustomerLimit \in Limits \cup {None} /\ r.number \in 0..MaxForms
BY DEF Campaigns!Row, Fields, Ends

LEMMA IsRow ==
    ASSUME NEW r, r = [f \in Fields |-> r[f]],
           r["slug"] \in Slugs, r["code"] \in Campaigns!Codes \cup {None}, r["requiresCode"] \in BOOLEAN,
           r["startsAt"] \in 0..Horizon, r["endsAt"] \in Ends, r["isActive"] \in BOOLEAN,
           r["perCustomerLimit"] \in Limits \cup {None}, r["number"] \in 0..MaxForms
    PROVE  r \in Campaigns!Row
<1>1. r = [slug |-> r["slug"], code |-> r["code"], requiresCode |-> r["requiresCode"],
           startsAt |-> r["startsAt"], endsAt |-> r["endsAt"], isActive |-> r["isActive"],
           perCustomerLimit |-> r["perCustomerLimit"], number |-> r["number"]]
  BY DEF Fields
<1> QED
  BY <1>1 DEF Campaigns!Row, Ends

\* What updatePromotion writes is a row; one that keeps its number keeps its slug.
LEMMA WrittenIsRow ==
    ASSUME Campaigns!PromotionAssumption, NEW row \in Campaigns!Row, NEW r, IsInput(r.input)
    PROVE  /\ Campaigns!written(r, row) \in Campaigns!Row
           /\ Campaigns!written(r, row).number # 0
                => /\ Campaigns!written(r, row).number = row.number
                   /\ Campaigns!written(r, row).slug = row.slug
           /\ \A f \in Fields \ (DOMAIN r.input \cup {"number"}) :
                 Campaigns!written(r, row)[f] = row[f]
<1>1. PICK c : c = r.input
  OBVIOUS
<1>2. PICK d : d = IF "code" \in DOMAIN c THEN [c EXCEPT !.code = Campaigns!storedCode(@)] ELSE c
  OBVIOUS
<1>3. /\ DOMAIN d = DOMAIN c /\ \A f \in DOMAIN c \ {"code"} : d[f] = c[f]
      /\ "code" \in DOMAIN c => d["code"] = Campaigns!storedCode(c.code)
  <2>1. c = [f \in DOMAIN c |-> c[f]]
    BY <1>1 DEF IsInput
  <2>2. CASE "code" \in DOMAIN c
    BY <1>2, <2>1, <2>2
  <2>3. CASE "code" \notin DOMAIN c
    BY <1>2, <2>3
  <2> QED
    BY <2>2, <2>3
<1>4. PICK w : w = Campaigns!over(d, row)
  OBVIOUS
<1>5. Campaigns!written(r, row) = [w EXCEPT !.number = IF w.slug = row.slug THEN @ ELSE 0]
  BY <1>1, <1>2, <1>4 DEF Campaigns!written, Campaigns!changes
<1>6. DOMAIN row = Fields /\ DOMAIN c \subseteq Fields \ {"number"}
  BY <1>1, RowFields DEF IsInput
<1>7. /\ w = [f \in Fields |-> w[f]]
      /\ \A f \in DOMAIN c : w[f] = d[f]
      /\ \A f \in Fields \ DOMAIN c : w[f] = row[f]
  <2>1. /\ DOMAIN w = DOMAIN d \cup DOMAIN row
        /\ \A f \in DOMAIN d : w[f] = d[f]
        /\ \A f \in DOMAIN row \ DOMAIN d : w[f] = row[f]
        /\ w = [f \in DOMAIN w |-> w[f]]
    BY <1>4 DEF Campaigns!over
  <2>2. DOMAIN w = Fields
    BY <1>3, <1>6, <2>1
  <2> QED
    BY <1>3, <1>6, <2>1, <2>2
<1>8. w["slug"] \in Slugs /\ w["number"] = row.number
  <2>1. /\ "slug" \in DOMAIN c => c["slug"] \in Slugs
        /\ row.slug \in Slugs
    BY <1>1, RowFields DEF IsInput
  <2> QED
    BY <1>3, <1>6, <1>7, <2>1 DEF Fields
<1>9. w["code"] \in Campaigns!Codes \cup {None}
  <2>1. "code" \in DOMAIN c => Campaigns!storedCode(c.code) \in Campaigns!Codes \cup {None}
    BY <1>1, StoredCodes DEF IsInput
  <2>2. row.code \in Campaigns!Codes \cup {None}
    BY RowFields
  <2> QED
    BY <1>3, <1>7, <2>1, <2>2 DEF Fields
<1>10. /\ w["requiresCode"] \in BOOLEAN /\ w["isActive"] \in BOOLEAN
       /\ w["perCustomerLimit"] \in Limits \cup {None}
  <2>1. /\ row.requiresCode \in BOOLEAN /\ row.isActive \in BOOLEAN
        /\ row.perCustomerLimit \in Limits \cup {None}
    BY RowFields
  <2>2. /\ "requiresCode" \in DOMAIN c => c["requiresCode"] \in BOOLEAN
        /\ "isActive" \in DOMAIN c => c["isActive"] \in BOOLEAN
        /\ "perCustomerLimit" \in DOMAIN c => c["perCustomerLimit"] \in Limits
    BY <1>1 DEF IsInput
  <2> QED
    BY <1>3, <1>7, <2>1, <2>2 DEF Fields
<1>11. w["startsAt"] \in 0..Horizon /\ w["endsAt"] \in Ends
  <2>1. row.startsAt \in 0..Horizon /\ row.endsAt \in Ends
    BY RowFields
  <2>2. /\ "startsAt" \in DOMAIN c => c["startsAt"] \in 0..Horizon
        /\ "endsAt" \in DOMAIN c => c["endsAt"] \in Ends
    BY <1>1 DEF IsInput
  <2> QED
    BY <1>3, <1>7, <2>1, <2>2 DEF Fields
<1>12. w \in Campaigns!Row
  <2>1. w["number"] \in 0..MaxForms
    BY <1>8, RowFields
  <2> QED
    BY <1>7, <1>8, <1>9, <1>10, <1>11, <2>1, IsRow
<1>13. PICK n : n = IF w.slug = row.slug THEN w.number ELSE 0
  OBVIOUS
<1>14. PICK v : v = [w EXCEPT !.number = n]
  OBVIOUS
<1>15. /\ DOMAIN v = Fields /\ v = [f \in Fields |-> v[f]] /\ v["number"] = n
       /\ \A f \in Fields \ {"number"} : v[f] = w[f]
  BY <1>7, <1>14 DEF Fields
<1>16. n \in 0..MaxForms /\ (n # 0 => n = row.number /\ w["slug"] = row.slug)
  <2>1. row.number \in 0..MaxForms /\ MaxForms \in Nat
    BY RowFields DEF Campaigns!PromotionAssumption
  <2> QED
    BY <1>8, <1>13, <2>1
<1>17. v \in Campaigns!Row
  BY <1>8, <1>9, <1>10, <1>11, <1>15, <1>16, IsRow DEF Fields
<1>18. Campaigns!written(r, row) = v
  BY <1>5, <1>13, <1>14
<1>19. v["slug"] = w["slug"]
  BY <1>15 DEF Fields
<1> QED
  BY <1>1, <1>7, <1>15, <1>16, <1>17, <1>18, <1>19

created(c, n) ==
    Campaigns!over([c EXCEPT !.code = Campaigns!storedCode(@)], [perCustomerLimit |-> None, number |-> n])

LEMMA CreatedIsRow ==
    ASSUME Campaigns!PromotionAssumption, NEW c, IsInput(c), DOMAIN c = NewFields,
           NEW n \in 1..MaxForms, MaxForms \in Nat
    PROVE  /\ created(c, n) \in Campaigns!Row
           /\ created(c, n).slug = c.slug
           /\ created(c, n).number = n
<1>1. PICK d : d = [c EXCEPT !.code = Campaigns!storedCode(@)]
  OBVIOUS
<1>2. c = [f \in DOMAIN c |-> c[f]] /\ "code" \in DOMAIN c
  BY DEF IsInput, NewFields, Fields
<1>3. /\ DOMAIN d = NewFields /\ \A f \in NewFields \ {"code"} : d[f] = c[f]
      /\ d["code"] = Campaigns!storedCode(c.code)
  BY <1>1, <1>2
<1>4. PICK row : row = [perCustomerLimit |-> None, number |-> n]
  OBVIOUS
<1>5. /\ DOMAIN row = {"perCustomerLimit", "number"}
      /\ row["perCustomerLimit"] = None /\ row["number"] = n
  BY <1>4
<1>6. PICK w : w = Campaigns!over(d, row)
  OBVIOUS
<1>7. created(c, n) = w
  BY <1>1, <1>4, <1>6 DEF created
<1>8. /\ w = [f \in Fields |-> w[f]]
      /\ \A f \in NewFields : w[f] = d[f]
      /\ w["perCustomerLimit"] = None /\ w["number"] = n
  <2>1. /\ DOMAIN w = DOMAIN d \cup DOMAIN row
        /\ \A f \in DOMAIN d : w[f] = d[f]
        /\ \A f \in DOMAIN row \ DOMAIN d : w[f] = row[f]
        /\ w = [f \in DOMAIN w |-> w[f]]
    BY <1>6 DEF Campaigns!over
  <2>2. DOMAIN w = Fields
    BY <1>3, <1>5, <2>1 DEF NewFields, Fields
  <2> QED
    BY <1>3, <1>5, <2>1, <2>2 DEF NewFields, Fields
<1>9. Campaigns!storedCode(c.code) \in Campaigns!Codes \cup {None}
  BY StoredCodes DEF IsInput, NewFields, Fields
<1>10. /\ w["slug"] = c.slug /\ w["code"] = Campaigns!storedCode(c.code)
       /\ w["requiresCode"] = c["requiresCode"] /\ w["startsAt"] = c["startsAt"]
       /\ w["endsAt"] = c["endsAt"] /\ w["isActive"] = c["isActive"]
  BY <1>3, <1>8 DEF NewFields, Fields
<1>11. /\ c["slug"] \in Slugs /\ c["requiresCode"] \in BOOLEAN /\ c["startsAt"] \in 0..Horizon
       /\ c["endsAt"] \in Ends /\ c["isActive"] \in BOOLEAN
  BY DEF IsInput, NewFields, Fields
<1>12. w \in Campaigns!Row
  BY <1>8, <1>9, <1>10, <1>11, IsRow
<1> QED
  BY <1>7, <1>8, <1>10, <1>12

LEMMA PayloadIsInput ==
    ASSUME NEW fields \in FormFields
    PROVE  /\ IsInput(Campaigns!payload(fields)) /\ DOMAIN Campaigns!payload(fields) = NewFields
           /\ Campaigns!payload(fields).slug = fields.slug
<1>1. PICK c : c = [requiresCode |-> fields.code # Blank]
  OBVIOUS
<1>2. DOMAIN c = {"requiresCode"} /\ c["requiresCode"] \in BOOLEAN
  BY <1>1
<1>3. /\ DOMAIN fields = {"slug", "code", "startsAt", "endsAt", "isActive"}
      /\ fields["slug"] \in Slugs /\ fields["code"] \in Typed \cup {Blank}
      /\ fields["startsAt"] \in 0..Horizon /\ fields["endsAt"] \in Ends
      /\ fields["isActive"] \in BOOLEAN
  BY DEF FormFields
<1>4. PICK p : p = Campaigns!over(c, fields)
  OBVIOUS
<1>5. Campaigns!payload(fields) = p
  BY <1>1, <1>4 DEF Campaigns!payload
<1>6. /\ DOMAIN p = NewFields /\ p = [f \in DOMAIN p |-> p[f]]
      /\ p["requiresCode"] = c["requiresCode"]
      /\ \A f \in NewFields \ {"requiresCode"} : p[f] = fields[f]
  <2>1. /\ DOMAIN p = DOMAIN c \cup DOMAIN fields
        /\ \A f \in DOMAIN c : p[f] = c[f]
        /\ \A f \in DOMAIN fields \ DOMAIN c : p[f] = fields[f]
        /\ p = [f \in DOMAIN p |-> p[f]]
    BY <1>4 DEF Campaigns!over
  <2>2. DOMAIN p = NewFields
    BY <1>2, <1>3, <2>1 DEF NewFields, Fields
  <2> QED
    BY <1>2, <1>3, <2>1, <2>2 DEF NewFields, Fields
<1>7. /\ p["slug"] = fields["slug"] /\ p["code"] = fields["code"]
      /\ p["startsAt"] = fields["startsAt"] /\ p["endsAt"] = fields["endsAt"]
      /\ p["isActive"] = fields["isActive"]
  BY <1>6 DEF NewFields, Fields
<1>8. IsInput(p)
  BY <1>2, <1>3, <1>6, <1>7 DEF IsInput, NewFields, Fields
<1> QED
  BY <1>5, <1>6, <1>7, <1>8

LEMMA SingleIsInput ==
    ASSUME NEW c \in Campaigns!single
    PROVE  IsInput(c)
BY DEF Campaigns!single, Campaigns!entry, IsInput, Fields, Ends

LEMMA ToggledIsInput ==
    ASSUME NEW row \in Campaigns!Row
    PROVE  IsInput(Campaigns!toggled(row))
BY RowFields DEF Campaigns!toggled, IsInput, Fields
LEMMA RequestsChange ==
    ASSUME PromotionInv, NEW e \in Requests, UNCHANGED <<promotion, form, today, forms>>,
           NEW r, asked' = [asked EXCEPT ![e] = r], r # None => ChangeSays(r),
           r # None /\ r.id = None => <<r.number, r.input.slug>> \in Claims
    PROVE  PromotionInv'
<1>1. /\ DOMAIN asked' = Requests /\ asked'[e] = r
      /\ \A f \in Requests \ {e} : asked'[f] = asked[f]
  BY DEF PromotionInv
<1>2. /\ Campaigns!Rows' = Campaigns!Rows /\ NewForms' = NewForms
      /\ Claiming' = Claiming
  BY DEF Campaigns!Rows, Claiming, NewForms
<1>3. Claims' \subseteq Claims
  <2>1. ASSUME NEW f \in NewRequests'
        PROVE  <<asked'[f].number, asked'[f].input.slug>> \in Claims
    <3>1. CASE f = e
      BY <1>1, <2>1, <3>1 DEF NewRequests
    <3>2. CASE f # e
      <4>1. f \in NewRequests /\ asked'[f] = asked[f]
        BY <1>1, <2>1, <3>2 DEF NewRequests
      <4> QED
        BY <4>1 DEF Claims
    <3> QED
      BY <3>1, <3>2
  <2>2. /\ \A i \in Claiming : <<promotion[i].number, promotion[i].slug>> \in Claims
        /\ \A f \in NewForms : <<form[f].number, form[f].fields.slug>> \in Claims
    BY DEF Claims
  <2> QED
    BY <1>2, <2>1, <2>2 DEF Claims
<1>4. ClaimsSay'
  BY <1>3 DEF ClaimsSay, PromotionInv
<1>5. \A f \in Requests : asked'[f] # None => ChangeSays(asked[f])'
  <2>1. ASSUME NEW f \in Requests, asked'[f] # None PROVE ChangeSays(asked'[f])
    BY <1>1, <2>1 DEF PromotionInv
  <2>2. ASSUME NEW f \in Requests, asked'[f] # None PROVE ChangeSays(asked[f])'
    <3>1. ChangeSays(asked'[f])
      BY <2>1, <2>2
    <3> QED
      BY <1>2, <3>1 DEF ChangeSays
  <2> QED
    BY <2>2
<1>6. (\A i \in Campaigns!Rows : Campaigns!checks(promotion[i]))' /\ Apart' /\ FormsSay'
  BY <1>2 DEF PromotionInv, Apart, FormsSay
<1> QED
  BY <1>1, <1>2, <1>4, <1>5, <1>6 DEF PromotionInv

LEMMA FormsChange ==
    ASSUME PromotionInv, NEW e \in Employees, UNCHANGED <<promotion, asked, today>>,
           NEW g, form' = [form EXCEPT ![e] = g],
           g # None => g \in FormRow /\ (g.id # None => g.id \in Campaigns!Rows),
           \/ /\ forms' = forms
              /\ g # None /\ g.id = None => <<g.number, g.fields.slug>> \in Claims
           \/ /\ forms' = forms + 1 /\ forms < MaxForms
              /\ g # None /\ g.id = None => g.number = forms'
    PROVE  PromotionInv'
<1>1. /\ DOMAIN form' = Employees /\ form'[e] = g
      /\ \A f \in Employees \ {e} : form'[f] = form[f]
  BY DEF PromotionInv
<1>2. /\ Campaigns!Rows' = Campaigns!Rows /\ NewRequests' = NewRequests
      /\ Claiming' = Claiming
  BY DEF Campaigns!Rows, Claiming, NewRequests
<1>3. forms' \in 0..MaxForms /\ forms \in 0..MaxForms /\ forms' >= forms /\ MaxForms \in Nat
  BY DEF PromotionInv, Campaigns!PromotionAssumption
<1>4. \A p \in Claims' : \/ p \in Claims
                         \/ (forms' = forms + 1 /\ p = <<forms', g.fields.slug>>)
  <2>1. ASSUME NEW f \in NewForms'
        PROVE  \/ <<form'[f].number, form'[f].fields.slug>> \in Claims
               \/ /\ forms' = forms + 1
                  /\ <<form'[f].number, form'[f].fields.slug>> = <<forms', g.fields.slug>>
    <3>1. CASE f = e
      BY <1>1, <2>1, <3>1 DEF NewForms
    <3>2. CASE f # e
      <4>1. f \in NewForms /\ form'[f] = form[f]
        BY <1>1, <2>1, <3>2 DEF NewForms
      <4> QED
        BY <4>1 DEF Claims
    <3> QED
      BY <3>1, <3>2
  <2>2. /\ \A i \in Claiming : <<promotion[i].number, promotion[i].slug>> \in Claims
        /\ \A f \in NewRequests : <<asked[f].number, asked[f].input.slug>> \in Claims
    BY DEF Claims
  <2> QED
    BY <1>2, <2>1, <2>2 DEF Claims
<1>5. ClaimsSay'
  <2>1. \A p \in Claims : p[1] \in 1..forms
    BY DEF PromotionInv, ClaimsSay
  <2>2. \A p \in Claims' : p[1] \in 1..forms'
    BY <1>3, <1>4, <2>1
  <2>3. ASSUME NEW p \in Claims', NEW q \in Claims', p[1] = q[1] PROVE p[2] = q[2]
    <3>1. CASE p \in Claims /\ q \in Claims
      BY <2>3, <3>1 DEF PromotionInv, ClaimsSay
    <3>2. CASE p \notin Claims /\ q \notin Claims
      BY <1>4, <3>2
    <3>3. CASE p \in Claims /\ q \notin Claims
      BY <1>3, <1>4, <2>1, <2>3, <3>3
    <3>4. CASE p \notin Claims /\ q \in Claims
      BY <1>3, <1>4, <2>1, <2>3, <3>4
    <3> QED
      BY <3>1, <3>2, <3>3, <3>4
  <2> QED
    BY <2>2, <2>3 DEF ClaimsSay
<1>6. FormsSay'
  <2>1. ASSUME NEW f \in Employees, form'[f] # None
        PROVE  form'[f] \in FormRow /\ (form'[f].id # None => form'[f].id \in Campaigns!Rows)
    <3>1. CASE f = e
      BY <1>1, <2>1, <3>1
    <3>2. CASE f # e
      BY <1>1, <2>1, <3>2 DEF PromotionInv, FormsSay
    <3> QED
      BY <3>1, <3>2
  <2> QED
    BY <1>2, <2>1 DEF FormsSay
<1>7. \A f \in Requests : asked'[f] # None => ChangeSays(asked[f])'
  BY <1>2 DEF PromotionInv, ChangeSays
<1>8. (\A i \in Campaigns!Rows : Campaigns!checks(promotion[i]))' /\ Apart'
  BY <1>2 DEF PromotionInv, Apart
<1> QED
  BY <1>1, <1>3, <1>5, <1>6, <1>7, <1>8 DEF PromotionInv

\* A row that the table takes; one with a number has the slug it is claimed for.
LEMMA RowIsStored ==
    ASSUME PromotionInv, NEW e \in Requests, NEW i \in Ids, NEW row \in Campaigns!Row,
           Campaigns!Stored(e, i, row),
           row.number # 0 => <<row.number, row.slug>> \in Claims
    PROVE  PromotionInv'
<1>1. /\ Campaigns!checks(row) /\ Campaigns!unique(i, row)
      /\ promotion' = [promotion EXCEPT ![i] = row]
      /\ asked' = [asked EXCEPT ![e] = None]
      /\ (form' = [form EXCEPT ![asked[e].of] = None] \/ form' = form) /\ UNCHANGED <<today, forms>>
  BY DEF Campaigns!Stored
<1>2. row # None
  BY DEF PromotionInv, Campaigns!PromotionAssumption
<1>3. /\ promotion' \in [Ids -> Campaigns!Row \cup {None}] /\ promotion'[i] = row
      /\ \A j \in Ids \ {i} : promotion'[j] = promotion[j]
  BY <1>1 DEF PromotionInv
<1>4. Campaigns!Rows' = Campaigns!Rows \cup {i}
  BY <1>2, <1>3 DEF Campaigns!Rows
<1>5. /\ DOMAIN asked' = Requests /\ DOMAIN form' = Employees /\ asked'[e] = None
      /\ \A f \in Requests : asked'[f] # None => f # e /\ asked'[f] = asked[f]
      /\ \A f \in Employees : form'[f] # None => form'[f] = form[f]
  BY <1>1 DEF PromotionInv
<1>6. Claims' \subseteq Claims
  <2>1. ASSUME NEW j \in Claiming'
        PROVE  <<promotion'[j].number, promotion'[j].slug>> \in Claims
    <3>1. CASE j = i
      BY <1>3, <2>1, <3>1 DEF Claiming
    <3>2. CASE j # i
      <4>1. j \in Claiming /\ promotion'[j] = promotion[j]
        BY <1>3, <1>4, <2>1, <3>2 DEF Campaigns!Rows, Claiming
      <4> QED
        BY <4>1 DEF Claims
    <3> QED
      BY <3>1, <3>2
  <2>2. ASSUME NEW f \in NewForms' PROVE <<form'[f].number, form'[f].fields.slug>> \in Claims
    <3>1. f \in NewForms /\ form'[f] = form[f]
      BY <1>5, <2>2 DEF NewForms
    <3> QED
      BY <3>1 DEF Claims
  <2>3. ASSUME NEW f \in NewRequests' PROVE <<asked'[f].number, asked'[f].input.slug>> \in Claims
    <3>1. f \in NewRequests /\ asked'[f] = asked[f]
      BY <1>5, <2>3 DEF NewRequests
    <3> QED
      BY <3>1 DEF Claims
  <2> QED
    BY <2>1, <2>2, <2>3 DEF Claims
<1>7. ClaimsSay'
  BY <1>1, <1>6 DEF ClaimsSay, PromotionInv
<1>8. FormsSay'
  <2>1. ASSUME NEW f \in Employees, form'[f] # None
        PROVE  /\ form'[f] \in FormRow
               /\ form'[f].id # None => form'[f].id \in Campaigns!Rows'
    <3>1. form'[f] = form[f] /\ form[f] # None
      BY <1>5, <2>1
    <3>2. form[f] \in FormRow /\ (form[f].id # None => form[f].id \in Campaigns!Rows)
      BY <3>1 DEF PromotionInv, FormsSay
    <3> QED
      BY <1>4, <3>1, <3>2
  <2> QED
    BY <2>1 DEF FormsSay
<1>9. \A f \in Requests : asked'[f] # None => ChangeSays(asked[f])'
  <2>1. ASSUME NEW f \in Requests, asked'[f] # None PROVE ChangeSays(asked[f])'
    <3>1. asked'[f] = asked[f] /\ asked[f] # None
      BY <1>5, <2>1
    <3>2. ChangeSays(asked[f])
      BY <3>1 DEF PromotionInv
    <3> QED
      BY <1>4, <3>1, <3>2 DEF ChangeSays
  <2> QED
    BY <2>1
<1>10. \A j \in Campaigns!Rows' : Campaigns!checks(promotion'[j])
  BY <1>1, <1>3, <1>4 DEF PromotionInv, Campaigns!Rows
<1>11. Apart'
  <2>1. ASSUME NEW j \in Campaigns!Rows, j # i
        PROVE  /\ promotion'[j] = promotion[j] /\ promotion[j].slug # row.slug
               /\ row.code # None => promotion[j].code # row.code
    BY <1>1, <1>3, <2>1 DEF Campaigns!unique, Campaigns!Rows
  <2>2. ASSUME NEW j \in Campaigns!Rows', NEW k \in Campaigns!Rows', j # k
        PROVE  /\ promotion'[j].slug # promotion'[k].slug
               /\ promotion'[j].code # None => promotion'[k].code # promotion'[j].code
    <3>1. CASE j = i
      BY <1>3, <1>4, <2>1, <2>2, <3>1
    <3>2. CASE k = i
      BY <1>3, <1>4, <2>1, <2>2, <3>2
    <3>3. CASE j # i /\ k # i
      BY <1>4, <2>1, <2>2, <3>3 DEF PromotionInv, Apart
    <3> QED
      BY <3>1, <3>2, <3>3
  <2> QED
    BY <2>2 DEF Apart
<1>12. forms' \in 0..MaxForms /\ today' \in 0..Horizon
  BY <1>1 DEF PromotionInv
<1>13. (\A j \in Campaigns!Rows : Campaigns!checks(promotion[j]))'
  BY <1>10
<1> QED
  BY <1>3, <1>5, <1>7, <1>8, <1>9, <1>11, <1>12, <1>13 DEF PromotionInv
LEMMA PromotionInit == ASSUME Campaigns!PromotionAssumption, Campaigns!Init PROVE PromotionInv
<1>1. Campaigns!Rows = {} /\ Claiming = {} /\ NewForms = {} /\ NewRequests = {}
  BY DEF Campaigns!Init, Campaigns!Rows, Claiming, NewForms, NewRequests
<1>2. Claims = {}
  BY <1>1 DEF Claims
<1>3. promotion \in [Ids -> Campaigns!Row \cup {None}] /\ forms \in 0..MaxForms
      /\ today \in 0..Horizon
  BY DEF Campaigns!Init, Campaigns!PromotionAssumption
<1>4. DOMAIN form = Employees /\ DOMAIN asked = Requests
  BY DEF Campaigns!Init
<1>5. FormsSay /\ \A e \in Requests : asked[e] # None => ChangeSays(asked[e])
  BY DEF Campaigns!Init, FormsSay
<1> QED
  BY <1>1, <1>2, <1>3, <1>4, <1>5 DEF PromotionInv, Apart, ClaimsSay

LEMMA RowIs ==
    ASSUME PromotionInv, NEW i \in Campaigns!Rows
    PROVE  /\ i \in Ids
           /\ i # None
           /\ promotion[i] \in Campaigns!Row
           /\ Campaigns!checks(promotion[i])
BY DEF PromotionInv, Campaigns!Rows, Campaigns!PromotionAssumption

LEMMA AskStep ==
    ASSUME PromotionInv, NEW r \in Requests, NEW e, NEW i, NEW input, Campaigns!Ask(r, e, i, input),
           IsInput(input)
    PROVE  PromotionInv'
<1>1. PICK c : c = [of |-> e, id |-> i, number |-> 0, input |-> input]
  OBVIOUS
<1>2. asked' = [asked EXCEPT ![r] = c] /\ i \in Campaigns!Rows /\ i # None
      /\ UNCHANGED <<promotion, form, today, forms>>
  BY <1>1, RowIs DEF Campaigns!Ask, Campaigns!Send
<1>3. c.id = i /\ c.input = input
  BY <1>1
<1>4. ChangeSays(c)
  BY <1>2, <1>3 DEF ChangeSays
<1> QED
  BY <1>2, <1>3, <1>4, RequestsChange

LEMMA OpenRowStep ==
    ASSUME PromotionInv, NEW e \in Employees, NEW i, Campaigns!Open(e, i) PROVE PromotionInv'
<1>1. i \in Campaigns!Rows /\ i \in Ids /\ i # None /\ promotion[i] \in Campaigns!Row
  BY RowIs DEF Campaigns!Open
<1>2. PICK fields : fields = Campaigns!formFields(promotion[i])
  OBVIOUS
<1>3. PICK c : c = IF promotion[i].code = None THEN Blank ELSE promotion[i].code
  OBVIOUS
<1>4. c \in Typed \cup {Blank}
  <2>1. promotion[i].code \in Campaigns!Codes \cup {None}
    BY <1>1, RowFields
  <2> QED
    BY <1>3, <2>1 DEF Campaigns!Codes, PromotionInv, Campaigns!PromotionAssumption
<1>5. fields \in FormFields
  BY <1>1, <1>2, <1>3, <1>4, RowFields DEF Campaigns!formFields, FormFields
<1>6. PICK g : g = [id |-> i, number |-> 0, fields |-> fields]
  OBVIOUS
<1>7. g \in FormRow /\ g.id = i /\ g.fields = fields
  BY <1>1, <1>5, <1>6 DEF FormRow
<1>8. form' = [form EXCEPT ![e] = g] /\ UNCHANGED <<promotion, asked, today, forms>>
  BY <1>2, <1>6 DEF Campaigns!Open
<1> QED
  BY <1>1, <1>5, <1>7, <1>8, FormsChange

LEMMA OpenNewStep ==
    ASSUME PromotionInv, NEW e \in Employees, NEW s \in Slugs, Campaigns!OpenNew(e, s)
    PROVE  PromotionInv'
<1>1. PICK fields : fields = [slug |-> s, code |-> Blank, startsAt |-> today, endsAt |-> Horizon,
                              isActive |-> TRUE]
  OBVIOUS
<1>2. today \in 0..Horizon /\ Horizon \in 0..Horizon /\ forms \in Nat /\ None \notin Ids
  BY DEF PromotionInv, Campaigns!PromotionAssumption
<1>3. fields \in FormFields
  BY <1>1, <1>2 DEF FormFields, Ends
<1>4. PICK g : g = [id |-> None, number |-> forms', fields |-> fields]
  OBVIOUS
<1>5. /\ form' = [form EXCEPT ![e] = g] /\ UNCHANGED <<promotion, asked, today>>
      /\ forms' = forms + 1 /\ forms < MaxForms
  BY <1>1, <1>4 DEF Campaigns!OpenNew
<1>6. g \in FormRow /\ g.id = None /\ g.number = forms'
  BY <1>2, <1>3, <1>4, <1>5 DEF FormRow
<1> QED
  BY <1>5, <1>6, FormsChange

LEMMA EntryIsField ==
    ASSUME NEW c \in Campaigns!entry, NEW fields \in FormFields
    PROVE  Campaigns!over(c, fields) \in FormFields /\ Campaigns!over(c, fields).slug = fields.slug
<1> DEFINE names == {"slug", "code", "startsAt", "endsAt", "isActive"}
<1>1. /\ DOMAIN fields = names
      /\ fields["slug"] \in Slugs /\ fields["code"] \in Typed \cup {Blank}
      /\ fields["startsAt"] \in 0..Horizon /\ fields["endsAt"] \in Ends
      /\ fields["isActive"] \in BOOLEAN
  BY DEF FormFields
<1>2. /\ DOMAIN c \subseteq names \ {"slug"}
      /\ "code" \in DOMAIN c => c["code"] \in Typed \cup {Blank}
      /\ "startsAt" \in DOMAIN c => c["startsAt"] \in 0..Horizon
      /\ "endsAt" \in DOMAIN c => c["endsAt"] \in Ends
      /\ "isActive" \in DOMAIN c => c["isActive"] \in BOOLEAN
  BY DEF Campaigns!entry, Ends
<1>3. PICK w : w = Campaigns!over(c, fields)
  OBVIOUS
<1>4. /\ w = [f \in names |-> w[f]]
      /\ \A f \in names : w[f] = IF f \in DOMAIN c THEN c[f] ELSE fields[f]
  <2>1. DOMAIN c \cup DOMAIN fields = names
    BY <1>1, <1>2
  <2> QED
    BY <1>3, <2>1 DEF Campaigns!over
<1>5. /\ w["slug"] = fields["slug"] /\ w["code"] \in Typed \cup {Blank}
      /\ w["startsAt"] \in 0..Horizon /\ w["endsAt"] \in Ends /\ w["isActive"] \in BOOLEAN
  BY <1>1, <1>2, <1>4
<1>6. w = [slug |-> w["slug"], code |-> w["code"], startsAt |-> w["startsAt"],
           endsAt |-> w["endsAt"], isActive |-> w["isActive"]]
  BY <1>4
<1>7. w \in FormFields
  BY <1>1, <1>5, <1>6 DEF FormFields
<1> QED
  BY <1>3, <1>5, <1>7

LEMMA TypeStep ==
    ASSUME PromotionInv, NEW e \in Employees, NEW c \in Entries, Campaigns!Type(e, c)
    PROVE  PromotionInv'
<1>1. PICK f : f = form[e]
  OBVIOUS
<1>2. f # None /\ f \in FormRow /\ (f.id # None => f.id \in Campaigns!Rows)
  BY <1>1 DEF Campaigns!Type, PromotionInv, FormsSay
<1>3. PICK fields : fields = Campaigns!over(c, f.fields)
  OBVIOUS
<1>4. fields \in FormFields /\ fields.slug = f.fields.slug
  <2>1. c \in Campaigns!entry /\ f.fields \in FormFields
    BY <1>2 DEF PromotionInv, Campaigns!PromotionAssumption, FormRow
  <2> QED
    BY <1>3, <2>1, EntryIsField
<1>5. PICK g : g = [f EXCEPT !.fields = fields]
  OBVIOUS
<1>6. g \in FormRow /\ g.id = f.id /\ g.number = f.number /\ g.fields = fields
  BY <1>2, <1>4, <1>5 DEF FormRow
<1>7. form' = [form EXCEPT ![e] = g] /\ UNCHANGED <<promotion, asked, today, forms>>
  BY <1>1, <1>3, <1>5 DEF Campaigns!Type
<1>8. f.id = None => <<f.number, f.fields.slug>> \in Claims
  BY <1>1, <1>2 DEF Claims, NewForms
<1> QED
  BY <1>2, <1>4, <1>6, <1>7, <1>8, FormsChange

LEMMA TypeSlugStep ==
    ASSUME PromotionInv, NEW e \in Employees, NEW s \in Slugs, Campaigns!TypeSlug(e, s)
    PROVE  PromotionInv'
<1>1. PICK f : f = form[e]
  OBVIOUS
<1>2. f # None /\ f \in FormRow /\ (f.id # None => f.id \in Campaigns!Rows)
  BY <1>1 DEF Campaigns!TypeSlug, PromotionInv, FormsSay
<1>3. PICK n : n = IF f.id = None THEN forms' ELSE 0
  OBVIOUS
<1>4. PICK g : g = [f EXCEPT !.fields.slug = s, !.number = n]
  OBVIOUS
<1>5. \/ f.id # None /\ forms' = forms
      \/ f.id = None /\ forms < MaxForms /\ forms' = forms + 1
  BY <1>1 DEF Campaigns!TypeSlug
<1>6. n \in Nat
  BY <1>3, <1>5 DEF PromotionInv
<1>7. g \in FormRow /\ g.id = f.id /\ g.number = n
  BY <1>2, <1>4, <1>6 DEF FormRow, FormFields
<1>8. form' = [form EXCEPT ![e] = g] /\ UNCHANGED <<promotion, asked, today>>
  BY <1>1, <1>3, <1>4 DEF Campaigns!TypeSlug
<1> QED
  BY <1>2, <1>3, <1>5, <1>7, <1>8, FormsChange

LEMMA SubmitNewStep ==
    ASSUME PromotionInv, NEW r \in Requests, NEW e \in Employees, Campaigns!SubmitNew(r, e)
    PROVE  PromotionInv'
<1>1. PICK f : f = form[e]
  OBVIOUS
<1>2. f # None /\ f.id = None /\ f.fields \in FormFields
  BY <1>1 DEF Campaigns!SubmitNew, PromotionInv, FormsSay, FormRow
<1>3. PICK p : p = Campaigns!payload(f.fields)
  OBVIOUS
<1>4. IsInput(p) /\ DOMAIN p = NewFields /\ p.slug = f.fields.slug
  BY <1>2, <1>3, PayloadIsInput
<1>5. PICK c : c = [of |-> e, id |-> None, number |-> f.number, input |-> p]
  OBVIOUS
<1>6. c.id = None /\ c.input = p /\ c.number = f.number
  BY <1>5
<1>7. asked' = [asked EXCEPT ![r] = c] /\ UNCHANGED <<promotion, form, today, forms>>
  BY <1>1, <1>3, <1>5 DEF Campaigns!SubmitNew, Campaigns!Send
<1>8. ChangeSays(c)
  BY <1>4, <1>6 DEF ChangeSays
<1>9. <<f.number, f.fields.slug>> \in Claims
  BY <1>1, <1>2 DEF Claims, NewForms
<1> QED
  BY <1>4, <1>6, <1>7, <1>8, <1>9, RequestsChange

LEMMA UpdateStep ==
    ASSUME PromotionInv, NEW e \in Requests, Campaigns!updatePromotion(e)
    PROVE  /\ PromotionInv'
           /\ \A f \in Fields \ (DOMAIN asked[e].input \cup {"number"}) :
                 promotion'[asked[e].id][f] = promotion[asked[e].id][f]
<1>1. PICK r : r = asked[e]
  OBVIOUS
<1>2. PICK i : i = r.id
  OBVIOUS
<1>3. IsInput(r.input) /\ i \in Campaigns!Rows /\ r # None
  BY <1>1, <1>2 DEF Campaigns!updatePromotion, PromotionInv, ChangeSays
<1>4. i \in Ids /\ promotion[i] \in Campaigns!Row /\ Campaigns!PromotionAssumption
  BY <1>3, RowIs DEF PromotionInv
<1>5. PICK row : row = Campaigns!written(r, promotion[i])
  OBVIOUS
<1>6. /\ row \in Campaigns!Row
      /\ row.number # 0 => row.number = promotion[i].number /\ row.slug = promotion[i].slug
      /\ \A f \in Fields \ (DOMAIN r.input \cup {"number"}) : row[f] = promotion[i][f]
  BY <1>3, <1>4, <1>5, WrittenIsRow
<1>7. Campaigns!Stored(e, i, row)
  BY <1>1, <1>2, <1>5 DEF Campaigns!updatePromotion
<1>8. row.number # 0 => <<row.number, row.slug>> \in Claims
  BY <1>3, <1>6 DEF Claims, Claiming
<1>9. PromotionInv'
  BY <1>4, <1>6, <1>7, <1>8, RowIsStored
<1>10. promotion'[i] = row
  BY <1>4, <1>7 DEF Campaigns!Stored, PromotionInv
<1> QED
  BY <1>1, <1>2, <1>6, <1>9, <1>10

LEMMA CreateStep ==
    ASSUME PromotionInv, NEW e \in Requests, NEW i \in Ids, Campaigns!createPromotion(e, i)
    PROVE  PromotionInv'
<1>1. PICK r : r = asked[e]
  OBVIOUS
<1>2. r # None /\ r.id = None /\ i \notin Campaigns!Rows /\ IsInput(r.input)
      /\ DOMAIN r.input = NewFields
  BY <1>1 DEF Campaigns!createPromotion, PromotionInv, ChangeSays
<1>3. <<r.number, r.input.slug>> \in Claims
  BY <1>1, <1>2 DEF Claims, NewRequests
<1>4. r.number \in 1..MaxForms /\ MaxForms \in Nat /\ Campaigns!PromotionAssumption
  <2>1. r.number \in 1..forms /\ forms \in 0..MaxForms
    BY <1>3 DEF PromotionInv, ClaimsSay
  <2> QED
    BY <2>1 DEF PromotionInv, Campaigns!PromotionAssumption
<1>5. PICK row : row = created(r.input, r.number)
  OBVIOUS
<1>6. row \in Campaigns!Row /\ row.slug = r.input.slug /\ row.number = r.number
  BY <1>2, <1>4, <1>5, CreatedIsRow
<1>7. Campaigns!Stored(e, i, row)
  BY <1>1, <1>5 DEF Campaigns!createPromotion, created
<1> QED
  BY <1>2, <1>3, <1>6, <1>7, RowIsStored

LEMMA FormStepKeeps ==
    ASSUME PromotionInv, NEW e \in Employees, Campaigns!FormStep(e) PROVE PromotionInv'
<1>1. CASE Campaigns!Close(e)
  BY <1>1, FormsChange DEF Campaigns!Close
<1> QED
  BY <1>1, OpenRowStep, OpenNewStep, TypeStep, TypeSlugStep DEF Campaigns!FormStep

LEMMA RequestStepKeeps ==
    ASSUME PromotionInv, NEW r \in Requests, Campaigns!RequestStep(r) PROVE PromotionInv'
<1>1. ASSUME NEW e \in Employees, NEW i \in Ids, Campaigns!Toggle(r, e, i) PROVE PromotionInv'
  <2>1. promotion[i] \in Campaigns!Row
    BY <1>1, RowIs DEF Campaigns!Toggle
  <2> QED
    BY <1>1, <2>1, ToggledIsInput, AskStep DEF Campaigns!Toggle
<1>2. ASSUME NEW e \in Employees, NEW i \in Ids, NEW input \in Singles,
             Campaigns!AskOne(r, e, i, input)
      PROVE  PromotionInv'
  <2>1. input \in Campaigns!single
    BY DEF PromotionInv, Campaigns!PromotionAssumption
  <2> QED
    BY <1>2, <2>1, SingleIsInput, AskStep DEF Campaigns!AskOne
<1>3. ASSUME NEW e \in Employees, Campaigns!Submit(r, e) PROVE PromotionInv'
  <2>1. PICK f : f = form[e]
    OBVIOUS
  <2>2. f.fields \in FormFields /\ Campaigns!Ask(r, e, f.id, Campaigns!payload(f.fields))
    BY <1>3, <2>1 DEF Campaigns!Submit, PromotionInv, FormsSay, FormRow
  <2> QED
    BY <2>2, PayloadIsInput, AskStep
<1>4. CASE Campaigns!Refused(r)
  BY <1>4, RequestsChange DEF Campaigns!Refused
<1> QED
  BY <1>1, <1>2, <1>3, <1>4, SubmitNewStep, UpdateStep, CreateStep DEF Campaigns!RequestStep

\* Every step of an employee and of the API keeps the campaigns.
LEMMA PromotionStep == ASSUME PromotionInv, [Campaigns!Next]_Campaigns!vars PROVE PromotionInv'
<1>1. ASSUME UNCHANGED <<promotion, asked, form, forms>>, today' \in 0..Horizon
      PROVE  PromotionInv'
  <2>1. Campaigns!Rows' = Campaigns!Rows /\ Claims' = Claims
    BY <1>1 DEF Campaigns!Rows, Claims, Claiming, NewForms, NewRequests
  <2>2. ClaimsSay' /\ Apart' /\ FormsSay'
    BY <1>1, <2>1 DEF PromotionInv, ClaimsSay, Apart, FormsSay
  <2>3. \A e \in Requests : (asked[e] # None => ChangeSays(asked[e]))'
    BY <1>1, <2>1 DEF PromotionInv, ChangeSays
  <2> QED
    BY <1>1, <2>1, <2>2, <2>3 DEF PromotionInv
<1>2. CASE UNCHANGED Campaigns!vars
  BY <1>1, <1>2 DEF Campaigns!vars, PromotionInv
<1>3. CASE Campaigns!Tick
  <2>1. today' \in 0..Horizon
    BY <1>3 DEF Campaigns!Tick, PromotionInv, Campaigns!PromotionAssumption
  <2> QED
    BY <1>1, <1>3, <2>1 DEF Campaigns!Tick
<1> QED
  BY <1>2, <1>3, FormStepKeeps, RequestStepKeeps DEF Campaigns!Next

\* A campaign shown as automatic is a candidate of an order without a code, and a code
\* that is shown finds its campaign and no other, however it is typed: for any number of
\* employees whose changes were checked against rows that had changed when they wrote.
THEOREM ShownCampaignsApply ==
    ASSUME Campaigns!PromotionAssumption
    PROVE  Campaigns!Spec => [](Campaigns!ShownAsAutomaticApplies /\ Campaigns!ShownCodeApplies)
<1>1. ASSUME PromotionInv PROVE Campaigns!ShownAsAutomaticApplies
  BY <1>1 DEF PromotionInv, Campaigns!ShownAsAutomaticApplies, Campaigns!shownAsAutomatic,
      Campaigns!shown, Campaigns!promotionCandidates,
     Campaigns!inPeriod, Campaigns!checks, Campaigns!Rows, Campaigns!Row
<1>2. ASSUME PromotionInv PROVE Campaigns!ShownCodeApplies
  <2>1. ASSUME NEW i \in Campaigns!shownWithCode, NEW t \in Typed,
               trimUpper[t] = trimUpper[promotion[i].code]
        PROVE  Campaigns!promotionCandidates(t) = {i}
    <3>1. i \in Campaigns!Rows /\ promotion[i] \in Campaigns!Row /\ promotion[i].code # None
      BY <1>2, <2>1, RowIs DEF Campaigns!shownWithCode, Campaigns!shown
    <3>2. promotion[i].code \in Campaigns!Codes
      BY <3>1, RowFields
    <3>3. trimUpper[t] = promotion[i].code /\ t # Blank
      BY <1>2, <2>1, <3>2 DEF Campaigns!Codes, PromotionInv, Campaigns!PromotionAssumption
    <3>4. i \in Campaigns!promotionCandidates(t)
      BY <2>1, <3>1, <3>3 DEF Campaigns!shownWithCode, Campaigns!shown,
          Campaigns!promotionCandidates, Campaigns!inPeriod
    <3>5. ASSUME NEW j \in Campaigns!promotionCandidates(t) PROVE j = i
      <4>1. j \in Campaigns!Rows /\ promotion[j].code = promotion[i].code
        BY <3>3, <3>5 DEF Campaigns!promotionCandidates
      <4> QED
        BY <1>2, <3>1, <4>1 DEF PromotionInv, Apart
    <3> QED
      BY <3>4, <3>5
  <2> QED
    BY <2>1 DEF Campaigns!ShownCodeApplies
<1> QED
  BY <1>1, <1>2, PromotionInit, PromotionStep, PTL DEF Campaigns!Spec

\* A form pressed again, after a lost answer or before the first is answered, publishes no
\* second campaign, unless the first was renamed meanwhile: both requests have one slug, and
\* Promotion_slug_key refuses the second.
THEOREM FormsPublishOnce ==
    ASSUME Campaigns!PromotionAssumption
    PROVE  Campaigns!Spec => []Campaigns!OncePerForm
<1>1. ASSUME PromotionInv PROVE Campaigns!OncePerForm
  <2>1. ASSUME NEW i \in Campaigns!Rows, NEW j \in Campaigns!Rows,
               promotion[i].number = promotion[j].number, promotion[i].number # 0
        PROVE  i = j
    <3>1. /\ <<promotion[i].number, promotion[i].slug>> \in Claims
          /\ <<promotion[j].number, promotion[j].slug>> \in Claims
      BY <2>1 DEF Claims, Claiming
    <3>2. promotion[i].slug = promotion[j].slug
      BY <1>1, <2>1, <3>1 DEF PromotionInv, ClaimsSay
    <3> QED
      BY <1>1, <3>2 DEF PromotionInv, Apart
  <2> QED
    BY <2>1 DEF Campaigns!OncePerForm
<1> QED
  BY <1>1, PromotionInit, PromotionStep, PTL DEF Campaigns!Spec

\* A change writes the fields its caller gave and no other, also where a colleague wrote
\* the row after the change had read it (updatePromotion).
THEOREM ChangesWriteWhatIsGiven ==
    ASSUME Campaigns!PromotionAssumption
    PROVE  Campaigns!Spec => [][Campaigns!NothingElseChanges]_Campaigns!vars
<1>1. ASSUME PromotionInv, Campaigns!Next PROVE Campaigns!NothingElseChanges
  <2>1. SUFFICES ASSUME NEW e \in Requests, NEW i \in Ids, asked[e] # None, asked'[e] = None,
                        asked[e].id = i, promotion'[i] # promotion[i],
                        NEW f \in DOMAIN promotion[i] \ (DOMAIN asked[e].input \cup {"number"})
                 PROVE  promotion'[i][f] = promotion[i][f]
    BY DEF Campaigns!NothingElseChanges
  <2>2. i \in Campaigns!Rows /\ i # None /\ DOMAIN promotion[i] = Fields
    BY <1>1, <2>1, RowIs, RowFields DEF PromotionInv, ChangeSays,
        Campaigns!PromotionAssumption
  <2>3. promotion' # promotion
    BY <2>1
  <2>4. PICK k \in Requests :
           Campaigns!updatePromotion(k) \/ \E j \in Ids : Campaigns!createPromotion(k, j)
    BY <1>1, <2>3 DEF Campaigns!Next, Campaigns!FormStep, Campaigns!RequestStep, Campaigns!Tick,
        Campaigns!Open, Campaigns!OpenNew, Campaigns!Type, Campaigns!TypeSlug, Campaigns!Submit,
        Campaigns!SubmitNew, Campaigns!Toggle, Campaigns!AskOne, Campaigns!Ask, Campaigns!Send,
        Campaigns!Refused, Campaigns!Close
  <2>5. asked' = [asked EXCEPT ![k] = None]
    BY <2>4 DEF Campaigns!updatePromotion, Campaigns!createPromotion, Campaigns!Stored
  <2>6. k = e
    BY <1>1, <2>1, <2>5 DEF PromotionInv
  <2>7. Campaigns!updatePromotion(e)
    BY <2>1, <2>2, <2>4, <2>6 DEF Campaigns!createPromotion
  <2> QED
    BY <1>1, <2>1, <2>2, <2>7, UpdateStep
<1>2. ASSUME PromotionInv, [Campaigns!Next]_Campaigns!vars
      PROVE  [Campaigns!NothingElseChanges]_Campaigns!vars
  BY <1>1, <1>2
<1> QED
  BY <1>2, PromotionInit, PromotionStep, PTL DEF Campaigns!Spec
===============================================================================

--------------------------- MODULE PromotionRules ---------------------------
(***************************************************************************)
(* The promotions an order is given and the discount they amount to        *)
(* (orders.service.ts, commerce-rules.ts), for a cart of priced lines.     *)
(* A promotion is a record; None stands for a limit that is not set.       *)
(***************************************************************************)
EXTENDS Integers, FiniteSets, Sequences

CONSTANT None  \* no limit

smaller(a, b) == IF a < b THEN a ELSE b
\* The sum of a cart's lines, a sequence, that are for the given products;
\* of all of them when none are given.
sum(cart, products) ==
    LET first[n \in 0..Len(cart)] ==
            IF n = 0 THEN 0
            ELSE first[n - 1] + IF products = {} \/ cart[n].product \in products THEN cart[n].cents ELSE 0
    IN  first[Len(cart)]
subtotalCents(cart) == sum(cart, {})
eligibleSubtotal(cart, p) == sum(cart, p.products)

calculatePromotionDiscount(p, eligibleSubtotalCents) ==
    LET rawDiscount == IF p.type = "PERCENTAGE" THEN (eligibleSubtotalCents * p.value) \div 100
                       ELSE smaller(p.value, eligibleSubtotalCents)
    IN  IF p.maximumDiscount = None THEN rawDiscount ELSE smaller(rawDiscount, p.maximumDiscount)

customerCanUsePromotion(p, hasPreviousOrder) == p.welcome => ~hasPreviousOrder
below(count, limit) == limit # None => count < limit
usable(p, customer) ==
    /\ customerCanUsePromotion(p, customer.hasPreviousOrder)
    /\ below(p.uses, p.maximumUses)
    /\ below(customer.used[p.id], p.perCustomerLimit)

\* The promotions that a customer's cart meets, each with its discount.
evaluated(promotions, customer, cart) ==
    {[promotion |-> p, discount |-> calculatePromotionDiscount(p, eligibleSubtotal(cart, p))] :
        p \in {q \in promotions : /\ usable(q, customer)
                                  /\ subtotalCents(cart) >= q.minimum
                                  /\ eligibleSubtotal(cart, q) # 0}}

\* The greatest discount first, then the highest priority.
precedes(a, b) ==
    \/ a.discount > b.discount
    \/ a.discount = b.discount /\ a.promotion.priority > b.promotion.priority
\* The sort leaves equals as the query brought them: by id, say.
rank(entries, e) ==
    Cardinality({x \in entries : \/ precedes(x, e)
                                 \/ ~precedes(e, x) /\ x.promotion.id <= e.promotion.id})
sorted(entries) == [i \in 1..Cardinality(entries) |-> CHOOSE e \in entries : rank(entries, e) = i]

head(s) == SubSeq(s, 1, smaller(1, Len(s)))
selected(entries, explicitCode) ==
    LET isStackable(e) == e.promotion.stackable
        isExclusive(e) == ~e.promotion.stackable
    IN  IF explicitCode THEN head(entries)
        ELSE head(SelectSeq(entries, isExclusive)) \o SelectSeq(entries, isStackable)

\* selectAppliedPromotions: each takes what the ones before it left.
remainingAfter(remaining, discount) == remaining - discount
selectAppliedPromotions(entries, explicitCode, subtotal) ==
    LET chosen == selected(entries, explicitCode)
        remaining[n \in 0..Len(chosen)] ==
            IF n = 0 THEN subtotal
            ELSE remainingAfter(remaining[n - 1], smaller(chosen[n].discount, remaining[n - 1]))
        cut == [n \in DOMAIN chosen |->
                   [chosen[n] EXCEPT !.discount = smaller(@, remaining[n - 1])]]
        helps(e) == e.discount > 0
    IN  SelectSeq(cut, helps)

appliedPromotions(promotions, customer, cart, explicitCode) ==
    selectAppliedPromotions(sorted(evaluated(promotions, customer, cart)), explicitCode,
                            subtotalCents(cart))
discountCents(applied) ==
    LET upTo[n \in 0..Len(applied)] == IF n = 0 THEN 0 ELSE upTo[n - 1] + applied[n].discount
    IN  upTo[Len(applied)]
=============================================================================

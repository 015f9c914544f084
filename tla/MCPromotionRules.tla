-------------------------- MODULE MCPromotionRules --------------------------
(***************************************************************************)
(* The discount of an order over a table of campaigns and carts: a state   *)
(* is what a customer has in the cart and which campaigns run; a step      *)
(* starts one more campaign or puts one more line into the cart.           *)
(***************************************************************************)
EXTENDS PromotionRules

CONSTANT Limit   \* bound: how many campaigns run at once

VARIABLES running, cart, customer

vars == <<running, cart, customer>>

Campaign(id, type, value, products, stackable, minimum, maximum, priority) ==
    [id |-> id, type |-> type, value |-> value, products |-> products, stackable |-> stackable,
     minimum |-> minimum, maximumDiscount |-> maximum, priority |-> priority,
     welcome |-> FALSE, uses |-> 0, maximumUses |-> None, perCustomerLimit |-> None]

Campaigns ==
    {Campaign(1, "PERCENTAGE", 10, {}, FALSE, 0, None, 9),
     Campaign(2, "PERCENTAGE", 100, {"cream"}, FALSE, 0, None, 0),
     Campaign(3, "FIXED_AMOUNT", 500, {}, FALSE, 900, None, 5),
     Campaign(4, "PERCENTAGE", 50, {}, TRUE, 0, 200, 0),
     Campaign(5, "FIXED_AMOUNT", 700, {"perfume"}, TRUE, 0, None, 1),
     Campaign(6, "FIXED_AMOUNT", 1, {"cream"}, TRUE, 0, None, 3),
     [Campaign(7, "PERCENTAGE", 30, {}, FALSE, 0, None, 9) EXCEPT !.welcome = TRUE],
     [Campaign(8, "FIXED_AMOUNT", 400, {}, TRUE, 0, None, 2) EXCEPT !.uses = 1, !.maximumUses = 2,
                                                                    !.perCustomerLimit = 1]}
perfume == [product |-> "perfume", cents |-> 701]
cream == [product |-> "cream", cents |-> 299]
carts == {<<perfume>>, <<cream>>, <<perfume, cream>>}

Init ==
    /\ running \in {r \in SUBSET Campaigns : Cardinality(r) <= Limit}
    /\ cart \in carts
    /\ customer \in {[hasPreviousOrder |-> before, used |-> [id \in 1..8 |-> used]] :
                        before \in BOOLEAN, used \in 0..1}

Start(p) == running' = running \cup {p} /\ Cardinality(running') <= Limit /\ UNCHANGED <<cart, customer>>
Fill == /\ Len(cart) = 1 /\ cart' = <<perfume, cream>>
        /\ UNCHANGED <<running, customer>>
Next == (\E p \in Campaigns \ running : Start(p)) \/ Fill

Spec == Init /\ [][Next]_vars

Applied(code) == appliedPromotions(running, customer, cart, code)
Discount == discountCents(Applied(FALSE))

\* 'el total nunca supera el subtotal' and is never negative: what the
\* campaigns give together is at most what the cart costs.
NeverBelowZero == Discount <= subtotalCents(cart)

\* 'Por defecto se aplica la mejor promocion automatica': no campaign alone
\* would have given the customer more.
BestIsGranted == \A e \in evaluated(running, customer, cart) : Discount >= e.discount

\* 'solo se combinan campanas marcadas explicitamente como acumulables': two
\* of the others are never given together.
ExclusiveOnce ==
    Cardinality({i \in DOMAIN Applied(FALSE) : ~Applied(FALSE)[i].promotion.stackable}) <= 1

\* One more campaign takes nothing from a customer.
MoreNeverCosts == running \subseteq running' /\ cart' = cart => Discount' >= Discount
=============================================================================

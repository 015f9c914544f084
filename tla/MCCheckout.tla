----------------------------- MODULE MCCheckout -----------------------------
(***************************************************************************)
(* Small instances of Checkout, over the same rows, for TLC: they differ   *)
(* in what customers may do and how often, and a behaviour is one of one   *)
(* instance.                                                               *)
(***************************************************************************)
EXTENDS CheckoutProperties, TLC

CONSTANTS o1, o2, v1, v2, c1, c2, c3, d1, d2

VARIABLE part

TwoEach == [v \in Variants |-> 2]
oneEach == [v \in Variants |-> 1]
twoOfV1 == [v \in Variants |-> IF v = v1 THEN 2 ELSE 0]
oneOfV1 == [v \in Variants |-> IF v = v1 THEN 1 ELSE 0]
\* A cart with both variants and a cart with two units of one: together they
\* want more of v1 than the store has.
MixedCarts == {oneEach, twoOfV1}

\* Two orders of one customer compete for the stock, which the owner recounts.
Stocked == INSTANCE CheckoutProperties WITH
    Customers <- {"ana"}, Proofs <- {d1}, Choices <- {"CASH", "BANK_TRANSFER"},
    Destinations <- {"PICKUP", "MERIDA"}, TransferLife <- 1, CashLife <- 2,
    QuoteLife <- 1, LastCall <- 0, MaxTime <- 2, MaxAttempts <- 1

\* One order, its method and its address changed again and again; it is quoted,
\* cancelled, reopened, paid and left to expire; no proofs are sent.
OneEach == INSTANCE CheckoutProperties WITH Baskets <- {oneOfV1}
ChoicesMade == INSTANCE CheckoutProperties WITH
    Orders <- {o1}, Customers <- {"ana"}, Carts <- {c1, c3}, Recounts <- {}
\* One order paid by transfer, with two proofs.
ProofsSent == INSTANCE CheckoutProperties WITH
    Orders <- {o1}, Customers <- {"ana"}, Carts <- {c1, c3},
    Choices <- {"CASH", "BANK_TRANSFER"}, Destinations <- {"PICKUP"},
    Recounts <- {}
\* Two customers want the welcome promotion, of which one use is left.
Welcomed == INSTANCE CheckoutProperties WITH
    Choices <- {"CASH"}, Destinations <- {"PICKUP"}, Recounts <- {},
    CashLife <- 2, LastCall <- 2, MaxTime <- 4, MaxAttempts <- 1

ShopsInit ==
    \/ part = "stock" /\ Init
    \/ part \in {"choices", "proofs", "welcome"} /\ OneEach!Init

ShopsNext ==
    \/ part = "stock" /\ Stocked!Next /\ UNCHANGED part
    \/ part = "choices" /\ ChoicesMade!Next /\ UNCHANGED <<part, proof, uploads>>
    \/ part = "proofs" /\ ProofsSent!Next /\ UNCHANGED part
    \/ part = "welcome" /\ Welcomed!Next /\ UNCHANGED part

ShopsSpec == ShopsInit /\ [][ShopsNext]_<<part, vars>>

\* The orders are interchangeable, and so are the carts that open filled: where
\* a part uses one of each, no state it reaches is another one permuted.
OrderSymmetry == Permutations(Orders) \cup Permutations(OpeningCarts)
=============================================================================

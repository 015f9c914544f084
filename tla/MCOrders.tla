------------------------------- MODULE MCOrders ------------------------------
(***************************************************************************)
(* Small instances of the payment gateways and of the order desk, over the *)
(* same rows of one order, for TLC.  They differ in what may happen, and a *)
(* behaviour is one of one instance: either providers are called or the    *)
(* desk is at work.                                                        *)
(***************************************************************************)
EXTENDS PaymentGateway, OrderDesk, TLC

CONSTANTS a, b, k1, k2

VARIABLE part

all == <<part, vars, gatewayVars, deskVars>>

OneEach == [v \in Variants |-> 1]
SmallBaskets == {OneEach}

\* A Stripe payment that succeeds at once and one that is processed first; links
\* and cards of Mercado Pago that wait, are approved, declined and cancelled.
AtOnce == {<<"requires_payment_method", "succeeded">>}
ProcessedFirst ==
    {<<"requires_payment_method", "processing">>, <<"processing", "succeeded">>,
     <<"processing", "requires_payment_method">>}
MercadoPagoAndDeclined ==
    {<<"pending", "approved">>, <<"pending", "cancelled">>, <<"in_process", "approved">>,
     <<"in_process", "rejected">>}
AllMoves == AtOnce \cup ProcessedFirst \cup MercadoPagoAndDeclined

Interrupted == INSTANCE PaymentGateway WITH
    Choices <- {"CARD_STRIPE", "CASH"}, Destinations <- {"PICKUP"}, LastCall <- 0,
    MaxAttempts <- 1, Charges <- {k1}, Workers <- {a}, Moves <- ProcessedFirst
Contended == INSTANCE PaymentGateway WITH
    Choices <- {"CARD_STRIPE", "CASH"}, Destinations <- {"PICKUP"}, LastCall <- 0,
    MaxAttempts <- 1, Charges <- {k1}, Moves <- AtOnce
Replaced == INSTANCE PaymentGateway WITH
    Choices <- {"CARD_STRIPE", "CASH"}, Destinations <- {"PICKUP"}, LastCall <- 0,
    Moves <- AtOnce, Faults <- FALSE
Quoted == INSTANCE PaymentGateway WITH
    Choices <- {"CARD_STRIPE"}, Destinations <- {"MERIDA"}, Charges <- {k1},
    Moves <- AtOnce, Faults <- FALSE
Linked == INSTANCE PaymentGateway WITH
    Choices <- {"PAYMENT_LINK", "CARD_MERCADO_PAGO"}, Destinations <- {"PICKUP"},
    LastCall <- 0, Workers <- {a}, Moves <- MercadoPagoAndDeclined,
    Faults <- FALSE
Concurrent == INSTANCE PaymentGateway WITH
    Choices <- {"CARD_STRIPE"}, Destinations <- {"PICKUP"}, LastCall <- 0,
    MaxTime <- 0, Moves <- AtOnce, Faults <- FALSE
Overtaken == INSTANCE PaymentGateway WITH
    Choices <- {"CARD_STRIPE"}, Destinations <- {"PICKUP"}, LastCall <- 0,
    Charges <- {k1}, Moves <- AtOnce, Faults <- FALSE
Desk == INSTANCE OrderDesk WITH
    Choices <- {"CASH", "BANK_TRANSFER"}, Destinations <- {"PICKUP", "TIZIMIN"},
    Quotes <- {1}, LastCall <- 0, Employees <- {a}
TwoEmployees == INSTANCE OrderDesk WITH
    Choices <- {"CASH", "BANK_TRANSFER"}, Destinations <- {"PICKUP"},
    LastCall <- 0, MaxTime <- 0, MaxAttempts <- 1

OrdersInit ==
    /\ part \in {"interrupted", "contended", "replaced", "quoted", "linked",
                 "concurrent", "desk", "two employees"}
    /\ GatewayInit /\ DeskInit
OvertakenInit == part = "overtaken" /\ GatewayInit /\ DeskInit

OrdersNext ==
    \/ part = "interrupted" /\ Interrupted!GatewayNext /\ UNCHANGED <<part, deskVars>>
    \/ part = "contended" /\ Contended!GatewayNext /\ UNCHANGED <<part, deskVars>>
    \/ part = "replaced" /\ Replaced!GatewayNext /\ UNCHANGED <<part, deskVars>>
    \/ part = "quoted" /\ Quoted!GatewayNext /\ UNCHANGED <<part, deskVars>>
    \/ part = "linked" /\ Linked!GatewayNext /\ UNCHANGED <<part, deskVars>>
    \/ part = "concurrent" /\ Concurrent!GatewayNext /\ UNCHANGED <<part, deskVars>>
    \/ part = "desk" /\ Desk!DeskNext /\ UNCHANGED <<part, gatewayVars>>
    \/ part = "two employees" /\ TwoEmployees!DeskNext /\ UNCHANGED <<part, gatewayVars>>
OvertakenNext == part = "overtaken" /\ Overtaken!GatewayNext /\ UNCHANGED <<part, deskVars>>

OrdersSpec == OrdersInit /\ [][OrdersNext]_all
OvertakenSpec == OvertakenInit /\ [][OvertakenNext]_all
-----------------------------------------------------------------------------
\* What follows from a payment fits it, however the handlers of two charges, an
\* employee and the deadline meet: an order has one live attempt at most, one sold
\* before its deadline keeps its payment, and only paid orders are shipped.
ChargedIsSold ==
    /\ part = "replaced" => OneLiveAttempt
    /\ part = "concurrent" => OneLiveAttempt /\ SoldIsNotRefunded
    /\ part = "desk" => ShipmentsOfPaidOrders

Sym == Permutations({a, b}) \cup Permutations({k1, k2})
=============================================================================

---------------------------- MODULE StockLedger ----------------------------
(***************************************************************************)
(* What the shop promises about its stock, without counters, orders,       *)
(* payments or time: every unit in the store is either free or held by     *)
(* exactly one holder, a holder's basket is taken all at once, and units   *)
(* leave the store only when their holder buys them or the owner recounts. *)
(*                                                                         *)
(* Checkout implements this specification: a holder is an order and a unit *)
(* is held while the reservation of its order line is ACTIVE               *)
(* (docs/BACKEND.md, "Reglas invariantes").                                *)
(***************************************************************************)
EXTENDS Integers, FiniteSets

CONSTANTS
    Holders,    \* those who can hold units: the orders
    Variants,   \* the product variants that are sold
    MaxQty      \* bound: units of one variant in one basket

VARIABLES
    onHand,     \* [Variants -> Nat]: units physically in the store
    hold        \* [Holders -> [Variants -> 0..MaxQty]]: units held

ledgerVars == <<onHand, hold>>

LedgerBaskets == [Variants -> 0..MaxQty]
NoUnits == [v \in Variants |-> 0]

\* The units of v that are held; a unit is named by its holder and a number.
HeldUnits(v) == {u \in Holders \X (1..MaxQty) : u[2] <= hold[u[1]][v]}
Free(v) == onHand[v] - Cardinality(HeldUnits(v))

LedgerInit ==
    /\ onHand \in [Variants -> Nat]
    /\ hold = [h \in Holders |-> NoUnits]

\* A holder without units takes a whole basket of free units.
Reserve(h, basket) ==
    /\ hold[h] = NoUnits
    /\ \A v \in Variants : basket[v] <= Free(v)
    /\ hold' = [hold EXCEPT ![h] = basket]
    /\ UNCHANGED onHand

\* The holder's units of some variants become free again.
Release(h, returned) ==
    /\ hold' = [hold EXCEPT ![h] =
                  [v \in Variants |-> IF v \in returned THEN 0 ELSE @[v]]]
    /\ UNCHANGED onHand

\* The holder buys what it still holds.
Sell(h) ==
    /\ onHand' = [v \in Variants |-> onHand[v] - hold[h][v]]
    /\ hold' = [hold EXCEPT ![h] = NoUnits]

\* The owner recounts a variant; the units held must be there.
Recount(v) ==
    /\ onHand'[v] >= Cardinality(HeldUnits(v))
    /\ onHand' = [onHand EXCEPT ![v] = onHand'[v]]
    /\ UNCHANGED hold

LedgerNext ==
    \/ \E h \in Holders, basket \in LedgerBaskets : Reserve(h, basket)
    \/ \E h \in Holders, returned \in SUBSET Variants : Release(h, returned)
    \/ \E h \in Holders : Sell(h)
    \/ \E v \in Variants : Recount(v)

LedgerSpec == LedgerInit /\ [][LedgerNext]_ledgerVars
=============================================================================

------------------------- MODULE CheckoutProperties -------------------------
(***************************************************************************)
(* What the transactions of Checkout guarantee, and the stock ledger they  *)
(* implement.                                                              *)
(***************************************************************************)
EXTENDS Checkout

\* The rows of the tables.
CartRow == [status : {"NONE", "ACTIVE", "CONVERTED"}, items : AllBaskets,
            customer : Customers \cup {"none"}]
OrderRow == [status : OrderStatuses \cup {"NONE"}, paymentStatus : PaymentStatuses,
             method : {"CASH", "BANK_TRANSFER", "PAYMENT_LINK", "CARD"},
             destination : Destinations \cup {"PICKUP"},
             quote : {"NOT_REQUIRED", "PENDING", "QUOTED"}, shipping : Nat,
             createdAt : Nat, expiresAt : Nat, customer : Customers \cup {"none"},
             items : AllBaskets]
ReservationRow == [status : ReservationStatuses, expiresAt : Nat]
Attempt == [choice : AllChoices, status : PaymentStatuses, amount : Nat,
            started : BOOLEAN]
ProofRow == [status : {"PENDING_REVIEW", "APPROVED", "REJECTED"}, order : Orders,
             attempt : Nat]

\* Every row has the shape of its table: counters are whole numbers and each
\* status column holds a value of its enumeration (schema.prisma).
TypeOK ==
    /\ now \in Nat
    /\ onHand \in [Variants -> Int]
    /\ available \in [Variants -> Int]
    /\ reserved \in [Variants -> Int]
    /\ movement \in [Variants -> [MovementTypes -> Int]]
    /\ cart \in [Carts -> CartRow]
    /\ order \in [Orders -> OrderRow]
    /\ reservation \in [Orders -> [Variants -> ReservationRow]]
    /\ payments \in [Orders -> Seq(Attempt)]
    /\ proof \in [Proofs -> ProofRow \cup {NoProof}]
    /\ uploads \subseteq Orders \X Nat
    /\ uses \in Nat
    /\ applied \in [Orders -> {"NONE", "APPLIED", "RELEASED"}]
    /\ approvals \in [Orders -> Nat]
-----------------------------------------------------------------------------
(* Stock.                                                                  *)

\* The units of v that ACTIVE reservations hold, one element per unit.
HeldUnits(v) ==
    {u \in Orders \X (1..MaxQty) : /\ reservation[u[1]][v].status = "ACTIVE"
                                   /\ u[2] <= order[u[1]].items[v]}

\* Nothing is oversold: what is free and what is reserved make up what is in
\* the store, and neither is ever negative, whatever orders are created,
\* changed, paid, cancelled or expired and however the owner recounts.
StockBalanced ==
    \A v \in Variants : /\ available[v] >= 0 /\ reserved[v] >= 0
                        /\ available[v] + reserved[v] = onHand[v]

\* The reserved counter is exactly the number of units that ACTIVE reservations
\* hold: no transaction releases, consumes or forgets a unit twice.
ReservedIsHeld == \A v \in Variants : reserved[v] = Cardinality(HeldUnits(v))

\* The stock movements explain the counters: a reader of the audit trail alone
\* finds the units on hand and the units reserved.
AuditTrail ==
    \A v \in Variants :
        /\ onHand[v] = OpeningStock[v] + movement[v].SALE + movement[v].ADJUSTMENT
        /\ reserved[v] = movement[v].RESERVATION - movement[v].RELEASE
                         + movement[v].SALE

\* Checkout implements the ledger: the units an order holds are those of its
\* lines whose reservation is ACTIVE.
Ledger == INSTANCE StockLedger WITH
    Holders <- Orders,
    hold <- [o \in Orders |-> [v \in Variants |->
                IF reservation[o][v].status = "ACTIVE" THEN order[o].items[v] ELSE 0]]
LedgerSpec == Ledger!LedgerSpec
-----------------------------------------------------------------------------
(* Orders and their reservations.                                          *)

\* A pending order still holds something and its reservations end when it says
\* they do; a closed order holds nothing: neither stock, nor a use of the
\* promotion, nor a payment that could still be collected.
HoldsWhatItsStatusSays ==
    \A o \in Orders :
        /\ order[o].status = "PENDING_PAYMENT" => ActiveItems(o) # {}
        /\ \A v \in ActiveItems(o) : reservation[o][v].expiresAt = order[o].expiresAt
        /\ order[o].status \in ClosedStatuses =>
              /\ ActiveItems(o) = {}
              /\ applied[o] # "APPLIED"
              /\ \A i \in DOMAIN payments[o] :
                    payments[o][i].status \notin {"PENDING", "IN_PROCESS"}

\* An order is announced as paid exactly once, when it is paid, and only a paid
\* order has sold anything.
SoldOncePaid ==
    \A o \in Orders :
        /\ approvals[o] = IF order[o].paymentStatus = "APPROVED" THEN 1 ELSE 0
        /\ (\E v \in Variants : reservation[o][v].status = "CONSUMED")
              <=> order[o].paymentStatus = "APPROVED"

\* At most one attempt of an order can still be collected, and while the order
\* is pending it asks for the order's total.
Collectable(o) ==
    /\ Cardinality(Live(o)) <= 1
    /\ order[o].status = "PENDING_PAYMENT" =>
          \A i \in Live(o) : payments[o][i].amount = order[o].shipping

\* Until it is paid, an order can be paid by one attempt at most: neither a
\* change of method nor a quote leaves an older attempt payable or with an old
\* amount.  (A late proof of a replaced attempt can add one when it is approved.)
OnePayableAttempt == \A o \in Orders : order[o].paymentStatus # "APPROVED" => Collectable(o)

\* The same of paid orders.
OneLiveAttempt == \A o \in Orders : Collectable(o)

\* A reservation whose deadline has passed is never extended: once late, the
\* order's lines only expire, are released or are sold.
NoLateExtension ==
    \A o \in Orders, v \in Variants :
        reservation[o][v].status = "ACTIVE" /\ reservation[o][v].expiresAt <= now
        => reservation'[o][v].expiresAt <= now
LateReservationsStayLate == [][NoLateExtension]_vars

\* A paid order is whole: each of its lines was taken from stock.
PaidOrderIsWhole ==
    \A o \in Orders : order[o].paymentStatus = "APPROVED" =>
        \A v \in OrderItems(o) : reservation[o][v].status = "CONSUMED"

\* A proof that waits for its review belongs to an attempt that can still be
\* paid: changing the method rejects the proofs of the attempts it replaces
\* (orders.service.ts, reviewNotes 'Método de pago cambiado por el cliente.').
ProofsOfPayableAttempts ==
    \A d \in Proofs : proof[d].status = "PENDING_REVIEW" =>
        \/ proof[d].attempt \in Live(proof[d].order)
        \/ order[proof[d].order].status \in ClosedStatuses

\* A change that keeps the address of a quoted order keeps its quote
\* (orders.service.ts, preserveExistingQuote).
SameAddressKeepsQuote ==
    [][\A o \in Orders :
          /\ order[o].quote = "QUOTED" /\ order[o].status # "NONE"
          /\ order'[o].destination = order[o].destination
          => order'[o].quote = "QUOTED" /\ order'[o].shipping = order[o].shipping]_vars
-----------------------------------------------------------------------------
(* The promotion.                                                          *)

\* The uses counter is the number of orders that hold a use, within the limits.
UsesAreHeld ==
    /\ uses = Cardinality({o \in Orders : applied[o] = "APPLIED"})
    /\ uses <= MaximumUses
    /\ \A customer \in Customers :
          Cardinality({o \in Orders : /\ order[o].customer = customer
                                      /\ applied[o] = "APPLIED"}) <= PerCustomerLimit

\* A welcome promotion is held by one order of a customer, the oldest of the
\* customer's orders that are not closed.
WelcomeIsFirst ==
    WelcomeOnly => \A o, p \in Orders :
        /\ o # p /\ order[o].customer = order[p].customer
        /\ applied[o] = "APPLIED" /\ order[p].status \notin ClosedStatuses \cup {"NONE"}
        => /\ applied[p] # "APPLIED"
           /\ order[o].createdAt <= order[p].createdAt
-----------------------------------------------------------------------------
(* Liveness.                                                               *)

Holding(o, v) == reservation[o][v].status = "ACTIVE"
Awaiting(o) == order[o].status = "PENDING_PAYMENT"

\* No stock is held for ever: every reservation ends.
StockComesBack == \A o \in Orders, v \in Variants : Holding(o, v) ~> ~Holding(o, v)

\* Every order stops waiting for its payment: it is paid, cancelled or expired.
OrdersSettle == \A o \in Orders : Awaiting(o) ~> ~Awaiting(o)
=============================================================================

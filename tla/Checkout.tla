------------------------------ MODULE Checkout ------------------------------
(***************************************************************************)
(* Orders, the stock they reserve, their payment attempts and the          *)
(* promotion they use, as the API's database transactions change them:     *)
(* apps/api/src/orders.service.ts, reservations.service.ts, the manual     *)
(* payments of payments.service.ts, the shipping quote of                  *)
(* admin-commerce.service.ts and the recount of admin.service.ts.          *)
(*                                                                         *)
(* Each of those transactions runs at the SERIALIZABLE isolation level, so *)
(* one transaction is one action.  A transaction that throws is rolled     *)
(* back and changes nothing: its guard is a conjunct of the action.  The   *)
(* one handler here that reads before its transaction, the upload of a     *)
(* transfer proof, is two actions.  Card and link payments, whose handlers *)
(* talk to a provider, belong to the modules that extend this one.         *)
(*                                                                         *)
(* An order's identity is its Idempotency-Key: a second request with the   *)
(* key of an existing order returns that order and changes nothing.        *)
(***************************************************************************)
EXTENDS Integers, Sequences, FiniteSets

CONSTANTS
    Orders,             \* the Idempotency-Keys clients send
    Variants,           \* product variants
    Customers,
    Carts,
    Proofs,             \* transfer proofs that may be uploaded
    Choices,            \* configured payment choices, a subset of AllChoices
    Destinations,       \* addresses; "PICKUP" and "TIZIMIN" are special
    OpeningStock,       \* [Variants -> Nat]: the stock before the first sale
    OpeningCarts,       \* the carts filled before the first order
    Baskets,            \* what a cart may hold, a subset of AllBaskets
    MaxQty,             \* bound: units of one variant in a cart
    Recounts,           \* what the owner may find when recounting a variant
    LocalFee, Quotes,   \* the fixed local fee and the fees the owner may quote
    ShortLife, TransferLife, CashLife, QuoteLife, \* lifetimes, in ticks
    LastCall, MaxTime,  \* bounds: last tick with new requests, last tick
    MaxAttempts,        \* bound: payment attempts of one order
    MaximumUses, PerCustomerLimit, WelcomeOnly   \* the promotion's limits

VARIABLES
    now,            \* the clock
    onHand, available, reserved,    \* inventoryLevel, one row per variant
    movement,       \* stockMovement: the sum of each type, per variant
    cart,           \* [Carts -> the cart's row with its items]
    order,          \* [Orders -> the order's row]
    reservation,    \* [Orders -> [Variants -> inventoryReservation]]
    payments,       \* [Orders -> Seq(attempt)], the newest last
    proof,          \* [Proofs -> transferProof]
    uploads,        \* proof uploads that have read and not yet written
    uses,           \* promotion.uses
    applied,        \* [Orders -> the order's orderPromotion row]
    approvals       \* [Orders -> Nat]: PAYMENT_APPROVED events enqueued

stock == <<onHand, available, reserved, movement>>
promotion == <<uses, applied>>
vars == <<now, stock, cart, order, reservation, payments, proof, uploads,
          promotion, approvals>>

AllBaskets == [Variants -> 0..MaxQty]
AllChoices == {"CASH", "BANK_TRANSFER", "PAYMENT_LINK", "CARD_MERCADO_PAGO",
               "CARD_STRIPE"}

ASSUME FiniteOrders == IsFiniteSet(Orders)
ASSUME QuantityAssumption == MaxQty \in Nat \ {0}
ASSUME StockAssumption == /\ OpeningStock \in [Variants -> Nat]
                          /\ Recounts \subseteq Nat
ASSUME BasketAssumption == Baskets \subseteq AllBaskets
ASSUME CartAssumption == OpeningCarts \subseteq Carts
ASSUME ChoiceAssumption == Choices \subseteq AllChoices
ASSUME FeeAssumption == LocalFee \in Nat /\ Quotes \subseteq Nat
ASSUME TimeAssumption ==
    /\ {ShortLife, TransferLife, CashLife, QuoteLife} \subseteq Nat \ {0}
    /\ LastCall \in Nat /\ MaxTime \in Nat /\ MaxAttempts \in Nat \ {0}
ASSUME PromotionAssumption ==
    MaximumUses \in Nat /\ PerCustomerLimit \in Nat /\ WelcomeOnly \in BOOLEAN
-----------------------------------------------------------------------------
(* Values of the rows.                                                     *)

PaymentStatuses == {"PENDING", "IN_PROCESS", "APPROVED", "REJECTED",
                    "CANCELLED", "REFUNDED", "CHARGED_BACK"}
OrderStatuses == {"PENDING_PAYMENT", "CONFIRMED", "PROCESSING", "READY",
                  "COMPLETED", "CANCELLED", "EXPIRED"}
ClosedStatuses == {"CANCELLED", "EXPIRED"}
ReservationStatuses == {"NONE", "ACTIVE", "CONSUMED", "RELEASED", "EXPIRED"}
MovementTypes == {"RESERVATION", "RELEASE", "SALE", "ADJUSTMENT"}

\* Mutated form: the orders that wait for their payment are left out.
ExpirableStatuses_InProgress == {"PROCESSING", "READY"}
\* The orders that expire with their last reservation.
ExpirableStatuses == {"PENDING_PAYMENT", "PROCESSING", "READY"}
\* isSupersededPaymentStatus
SupersededStatuses == {"CANCELLED", "REFUNDED", "CHARGED_BACK"}
\* immutablePaymentStatuses
ImmutableStatuses == {"APPROVED", "IN_PROCESS", "REFUNDED", "CHARGED_BACK"}

NoBasket == [v \in Variants |-> 0]
NoOrder == [status |-> "NONE", paymentStatus |-> "PENDING", method |-> "CASH",
            destination |-> "PICKUP", quote |-> "NOT_REQUIRED", shipping |-> 0,
            createdAt |-> 0, expiresAt |-> 0, customer |-> "none",
            items |-> NoBasket]
NoCart == [status |-> "NONE", items |-> NoBasket, customer |-> "none"]
NoReservation == [status |-> "NONE", expiresAt |-> 0]
NoProof == [status |-> "NONE"]

\* A payment choice is a method and, for cards, the provider.
MethodOf(choice) ==
    IF choice \in {"CARD_MERCADO_PAGO", "CARD_STRIPE"} THEN "CARD" ELSE choice
ProviderOf(choice) ==
    CASE choice \in {"PAYMENT_LINK", "CARD_MERCADO_PAGO"} -> "MERCADO_PAGO"
      [] choice = "CARD_STRIPE" -> "STRIPE"
      [] OTHER -> "MANUAL"

reservationLifetime(method) ==
    CASE method = "BANK_TRANSFER" -> TransferLife
      [] method = "CASH" -> CashLife
      [] OTHER -> ShortLife

\* resolveShippingQuote.  The goods' part of an order's total never changes,
\* so the shipping part stands for the total, here and in an attempt's amount.
deliveryMethod(destination) ==
    CASE destination = "PICKUP" -> "STORE_PICKUP"
      [] destination = "TIZIMIN" -> "LOCAL_DELIVERY"
      [] OTHER -> "SHIPPING"
quoteStatus(destination) ==
    CASE destination = "PICKUP" -> "NOT_REQUIRED"
      [] destination = "TIZIMIN" -> "QUOTED"
      [] OTHER -> "PENDING"
shippingCents(destination) == IF destination = "TIZIMIN" THEN LocalFee ELSE 0

expirationAfter(quote, method) ==
    now + (IF quote = "PENDING" THEN QuoteLife ELSE reservationLifetime(method))

\* validateDeliveryPaymentPair
validPair(choice, destination) ==
    choice = "CASH" => deliveryMethod(destination) = "STORE_PICKUP"

\* Mutated form: the status of another table.
newAttempt_Active(choice, amount) ==
    [choice |-> choice, status |-> "ACTIVE", amount |-> amount, started |-> FALSE]
newAttempt(choice, amount) ==
    [choice |-> choice, status |-> "PENDING", amount |-> amount,
     started |-> FALSE]
-----------------------------------------------------------------------------
(* What the transactions read.                                             *)

Live(o) == {i \in DOMAIN payments[o] :
                payments[o][i].status \notin SupersededStatuses}
Newest(attempts) == CHOOSE i \in attempts : \A j \in attempts : j <= i

\* Mutated form: a query without its status filter.
ActiveItems_AnyStatus(o) == {v \in Variants : reservation[o][v].status # "NONE"}
ActiveItems(o) == {v \in Variants : reservation[o][v].status = "ACTIVE"}
OrderItems(o) == {v \in Variants : order[o].items[v] > 0}
\* Mutated form: the deadline is not looked at.
Unexpired_NotChecked(o) == TRUE
Unexpired(o) == \A v \in ActiveItems(o) : reservation[o][v].expiresAt > now
\* The units of v that the order's ACTIVE reservation holds.
Held(o, v) == IF v \in ActiveItems(o) THEN order[o].items[v] ELSE 0

\* Mutated form: only paid orders count.
hasPreviousOrder_OnlyPaid(customer) ==
    \E p \in Orders : /\ order[p].customer = customer
                      /\ order[p].paymentStatus = "APPROVED"
\* hasPreviousOrder: an order of the customer that is not closed.
hasPreviousOrder(customer) ==
    \E p \in Orders : /\ order[p].customer = customer
                      /\ order[p].status \notin ClosedStatuses \cup {"NONE"}
usesOf(customer) ==
    Cardinality({p \in Orders : /\ order[p].customer = customer
                               /\ applied[p] = "APPLIED"})
\* customerCanUsePromotion, maximumUses and perCustomerLimit
promotionAvailable(customer) ==
    /\ WelcomeOnly => ~hasPreviousOrder(customer)
    /\ uses < MaximumUses
    /\ usesOf(customer) < PerCustomerLimit

\* Mutated form: a paid order may be cancelled.
Cancellable_PaidToo(o) == order[o].status \notin ClosedStatuses \cup {"NONE"}
\* cancelOrderInTransaction throws for a paid order and returns at once for a
\* closed one.
Cancellable(o) ==
    /\ order[o].status \notin ClosedStatuses \cup {"NONE"}
    /\ order[o].paymentStatus # "APPROVED"

\* Mutated form: orders that wait for a quote are skipped.
Overdue_QuotedOnly(o, v) ==
    /\ v \in ActiveItems(o) /\ reservation[o][v].expiresAt <= now
    /\ order[o].quote # "PENDING"
\* What the interval job's query selects and its claim checks again.
Overdue(o, v) == v \in ActiveItems(o) /\ reservation[o][v].expiresAt <= now
-----------------------------------------------------------------------------
(* Changes several transactions make.                                      *)

\* Mutated form: a movement replaces the ones before it.
Moved_Overwritten(m, type, units) ==
    [v \in Variants |-> [m[v] EXCEPT ![type] = units[v]]]
Moved(m, type, units) ==
    [v \in Variants |-> [m[v] EXCEPT ![type] = @ + units[v]]]

\* The units of some lines of an order go back to the shelf.
ReturnUnits(o, lines, to) ==
    LET units == [v \in Variants |-> IF v \in lines THEN order[o].items[v] ELSE 0]
    IN  /\ available' = [v \in Variants |-> available[v] + units[v]]
        /\ reserved' = [v \in Variants |-> reserved[v] - units[v]]
        /\ movement' = Moved(movement, "RELEASE", units)
        /\ reservation' = [reservation EXCEPT ![o] =
               [v \in Variants |-> IF v \in lines
                                   THEN [@[v] EXCEPT !.status = to] ELSE @[v]]]
        /\ UNCHANGED onHand

\* Mutated form: the counter is decremented, the order keeps its use.
ReleasePromotion_CounterOnly(o) ==
    /\ uses' = IF applied[o] = "APPLIED" THEN uses - 1 ELSE uses
    /\ UNCHANGED applied
ReleasePromotion(o) ==
    IF applied[o] = "APPLIED"
    THEN /\ uses' = IF uses > 0 THEN uses - 1 ELSE uses
         /\ applied' = [applied EXCEPT ![o] = "RELEASED"]
    ELSE UNCHANGED promotion

\* Mutated form: the attempts are left as they are.
CancelAttempts_None(o, statuses) == payments
CancelAttempts(o, statuses) ==
    [payments EXCEPT ![o] =
        [i \in DOMAIN @ |-> IF @[i].status \in statuses
                            THEN [@[i] EXCEPT !.status = "CANCELLED"] ELSE @[i]]]

\* cancelOrderInTransaction
CancelOrder(o) ==
    /\ Cancellable(o)
    /\ \A v \in Variants : reserved[v] >= Held(o, v)
    /\ ReturnUnits(o, ActiveItems(o), "RELEASED")
    /\ payments' = CancelAttempts(o, {"PENDING", "IN_PROCESS"})
    /\ ReleasePromotion(o)
    /\ order' = [order EXCEPT ![o].status = "CANCELLED",
                              ![o].paymentStatus = "CANCELLED"]

\* confirmOrderPayment, for an order that is not paid yet.  What is consumed
\* is what is still ACTIVE; "attempts" are the order's attempts as the caller's
\* transaction left them.
ConfirmOrderPayment(o, i, attempts) ==
    LET units == [v \in Variants |-> Held(o, v)]
    IN  /\ order[o].status \notin ClosedStatuses \cup {"NONE"}
        /\ ActiveItems(o) # {}
        /\ \A v \in Variants : reserved[v] >= units[v] /\ onHand[v] >= units[v]
        /\ onHand' = [v \in Variants |-> onHand[v] - units[v]]
        /\ reserved' = [v \in Variants |-> reserved[v] - units[v]]
        /\ movement' = Moved(movement, "SALE", [v \in Variants |-> -units[v]])
        /\ reservation' = [reservation EXCEPT ![o] =
               [v \in Variants |-> IF v \in ActiveItems(o)
                                   THEN [@[v] EXCEPT !.status = "CONSUMED"]
                                   ELSE @[v]]]
        /\ payments' = [payments EXCEPT ![o] =
                           [attempts EXCEPT ![i].status = "APPROVED"]]
        /\ order' = [order EXCEPT ![o].status = "CONFIRMED",
                                  ![o].paymentStatus = "APPROVED"]
        /\ approvals' = [approvals EXCEPT ![o] = @ + 1]
        /\ UNCHANGED available
-----------------------------------------------------------------------------
(* Customers.                                                              *)

\* createInTransaction.  "eligible" says that the priced cart meets the
\* promotion's conditions, so that its discount is positive.
Create(o, c, customer, choice, destination, eligible) ==
    LET items == cart[c].items
        quote == quoteStatus(destination)
        expiresAt == expirationAfter(quote, MethodOf(choice))
        applies == eligible /\ promotionAvailable(customer)
    IN  /\ now <= LastCall
        /\ order[o].status = "NONE"
        /\ cart[c].status = "ACTIVE" /\ items # NoBasket
        /\ cart[c].customer \in {"none", customer}
        /\ validPair(choice, destination)
        /\ \A v \in Variants : available[v] >= items[v]
        /\ order' = [order EXCEPT ![o] =
               [status |-> "PENDING_PAYMENT", paymentStatus |-> "PENDING",
                method |-> MethodOf(choice), destination |-> destination,
                quote |-> quote, shipping |-> shippingCents(destination),
                createdAt |-> now, expiresAt |-> expiresAt,
                customer |-> customer, items |-> items]]
        /\ available' = [v \in Variants |-> available[v] - items[v]]
        /\ reserved' = [v \in Variants |-> reserved[v] + items[v]]
        /\ movement' = Moved(movement, "RESERVATION", items)
        /\ reservation' = [reservation EXCEPT ![o] =
               [v \in Variants |->
                   IF items[v] > 0
                   THEN [status |-> "ACTIVE", expiresAt |-> expiresAt]
                   ELSE NoReservation]]
        /\ payments' = [payments EXCEPT ![o] =
               <<newAttempt(choice, shippingCents(destination))>>]
        /\ IF applies
           THEN /\ uses' = uses + 1
                /\ applied' = [applied EXCEPT ![o] = "APPLIED"]
           ELSE UNCHANGED promotion
        /\ cart' = [cart EXCEPT ![c].status = "CONVERTED", ![c].customer = customer]
        /\ UNCHANGED <<now, onHand, proof, uploads, approvals>>

\* addressChanged.  The stored address comes back from a JSONB column, which
\* does not keep the order of an object's keys, and is compared as text with a
\* freshly built object: only two absent addresses compare equal.
addressChanged(o, destination) ==
    ~(order[o].destination = "PICKUP" /\ destination = "PICKUP")

\* updatePendingCheckout
UpdatePendingCheckout(o, choice, destination) ==
    LET requested == deliveryMethod(destination)
        delivery == deliveryMethod(order[o].destination)
        preserveExistingQuote ==
            /\ ~addressChanged(o, destination)
            /\ delivery = "SHIPPING" /\ requested = "SHIPPING"
            /\ order[o].quote = "QUOTED"
        quote == IF preserveExistingQuote THEN "QUOTED" ELSE quoteStatus(destination)
        shipping == IF preserveExistingQuote THEN order[o].shipping
                                             ELSE shippingCents(destination)
        current == payments[o][Newest(Live(o))]
        choicesChanged ==
            \/ order[o].method # MethodOf(choice)
            \/ Live(o) = {} \/ ProviderOf(current.choice) # ProviderOf(choice)
            \/ delivery # requested
            \/ addressChanged(o, destination)
            \/ order[o].shipping # shipping
        replaceAttempt ==
            choicesChanged \/ Live(o) = {} \/ current.status = "REJECTED"
        latest == order[o].createdAt + CashLife
        proposed == expirationAfter(quote, MethodOf(choice))
        expiresAt == CASE ~choicesChanged -> order[o].expiresAt
                       [] proposed < latest -> proposed
                       [] OTHER -> latest
        superseded == {i \in DOMAIN payments[o] :
                           payments[o][i].status \in {"PENDING", "REJECTED"}}
    IN  /\ now <= LastCall
        /\ order[o].status = "PENDING_PAYMENT"
        /\ order[o].paymentStatus \notin ImmutableStatuses
        /\ ActiveItems(o) # {} /\ Unexpired(o)
        /\ validPair(choice, destination)
        /\ IF replaceAttempt
           THEN /\ Len(payments[o]) < MaxAttempts
                /\ payments' = [payments EXCEPT ![o] =
                       Append(CancelAttempts(o, {"PENDING", "REJECTED"})[o],
                              newAttempt(choice, shipping))]
                /\ proof' = [d \in Proofs |->
                       IF /\ proof[d].status = "PENDING_REVIEW"
                          /\ proof[d].order = o /\ proof[d].attempt \in superseded
                       THEN [proof[d] EXCEPT !.status = "REJECTED"] ELSE proof[d]]
           ELSE UNCHANGED <<payments, proof>>
        /\ order' = [order EXCEPT ![o].method = MethodOf(choice),
               ![o].destination = destination, ![o].quote = quote,
               ![o].shipping = shipping, ![o].paymentStatus = "PENDING",
               ![o].expiresAt = expiresAt]
        /\ reservation' = [reservation EXCEPT ![o] =
               [v \in Variants |-> IF v \in ActiveItems(o)
                                   THEN [@[v] EXCEPT !.expiresAt = expiresAt]
                                   ELSE @[v]]]
        /\ UNCHANGED <<now, stock, cart, uploads, promotion, approvals>>

\* reopenCheckout: the order's items go to a new cart and the order is
\* cancelled.  A second request finds the first one's outbox event and only
\* returns its cart.
ReopenCheckout(o, c) ==
    /\ order[o].status = "PENDING_PAYMENT"
    /\ order[o].paymentStatus \notin ImmutableStatuses
    /\ ActiveItems(o) = OrderItems(o) /\ Unexpired(o)
    /\ cart[c].status = "NONE"
    /\ cart' = [cart EXCEPT ![c] =
           [status |-> "ACTIVE", items |-> order[o].items,
            customer |-> order[o].customer]]
    /\ CancelOrder(o)
    /\ UNCHANGED <<now, proof, uploads, approvals>>

\* cancel and cancelByAdmin
Cancel(o) ==
    /\ CancelOrder(o)
    /\ UNCHANGED <<now, cart, proof, uploads, approvals>>

\* confirmTransferProof reads the order and its newest transfer attempt ...
UploadRead(o) ==
    LET transfers == {i \in Live(o) : payments[o][i].choice = "BANK_TRANSFER"}
    IN  /\ order[o].status # "NONE" /\ order[o].method = "BANK_TRANSFER"
        /\ order[o].quote # "PENDING"
        /\ transfers # {}
        /\ uploads' = uploads \cup {<<o, Newest(transfers)>>}
        /\ UNCHANGED <<now, stock, cart, order, reservation, payments, proof,
                       promotion, approvals>>

\* ... and then, in a transaction of its own, stores the proof.
UploadWrite(o, i, d) ==
    /\ <<o, i>> \in uploads
    /\ proof[d] = NoProof
    /\ proof' = [proof EXCEPT ![d] =
           [status |-> "PENDING_REVIEW", order |-> o, attempt |-> i]]
    /\ uploads' = uploads \ {<<o, i>>}
    /\ UNCHANGED <<now, stock, cart, order, reservation, payments, promotion,
                   approvals>>
-----------------------------------------------------------------------------
(* The owner and the interval job.                                         *)

\* reviewTransferProof.  An approval confirms the order's payment; when the
\* order is paid already, confirmOrderPayment returns at once.
ReviewTransferProof(d, verdict) ==
    /\ proof[d].status = "PENDING_REVIEW"
    /\ proof' = [proof EXCEPT ![d].status = verdict]
    /\ LET o == proof[d].order
       IN  IF verdict = "APPROVED" /\ order[o].paymentStatus # "APPROVED"
           THEN ConfirmOrderPayment(o, proof[d].attempt, payments[o])
           ELSE UNCHANGED <<stock, order, reservation, payments, approvals>>
    /\ UNCHANGED <<now, cart, uploads, promotion>>

\* confirmCashPayment
ConfirmCashPayment(o) ==
    LET cash == {i \in Live(o) : payments[o][i].choice = "CASH"}
    IN  /\ order[o].status # "NONE" /\ order[o].method = "CASH"
        /\ cash # {}
        /\ order[o].paymentStatus # "APPROVED"
        /\ ConfirmOrderPayment(o, Newest(cash), payments[o])
        /\ UNCHANGED <<now, cart, proof, uploads, promotion>>

\* setShippingQuote
SetShippingQuote(o, fee) ==
    LET expiresAt == now + reservationLifetime(order[o].method)
    IN  /\ now <= LastCall
        /\ order[o].status = "PENDING_PAYMENT"
        /\ deliveryMethod(order[o].destination) = "SHIPPING"
        /\ order[o].quote \in {"PENDING", "QUOTED"}
        /\ order[o].paymentStatus \notin ImmutableStatuses
        /\ Live(o) # {} /\ ~payments[o][Newest(Live(o))].started
        /\ ActiveItems(o) = OrderItems(o) /\ Unexpired(o)
        /\ payments' = [payments EXCEPT ![o][Newest(Live(o))].amount = fee]
        /\ order' = [order EXCEPT ![o].shipping = fee, ![o].quote = "QUOTED",
                                  ![o].expiresAt = expiresAt]
        /\ reservation' = [reservation EXCEPT ![o] =
               [v \in Variants |-> IF v \in ActiveItems(o)
                                   THEN [@[v] EXCEPT !.expiresAt = expiresAt]
                                   ELSE @[v]]]
        /\ UNCHANGED <<now, stock, cart, proof, uploads, promotion, approvals>>

\* expireOne: one reservation, and with the order's last one the order.
ExpireOne(o, v) ==
    /\ Overdue(o, v)
    /\ ReturnUnits(o, {v}, "EXPIRED")
    /\ IF ActiveItems(o) = {v}
       THEN /\ ReleasePromotion(o)
            /\ payments' = CancelAttempts(o, {"PENDING", "IN_PROCESS"})
            /\ order' = IF /\ order[o].status \in ExpirableStatuses
                           /\ order[o].paymentStatus # "APPROVED"
                        THEN [order EXCEPT ![o].status = "EXPIRED",
                                           ![o].paymentStatus = "CANCELLED"]
                        ELSE order
       ELSE UNCHANGED <<order, payments, promotion>>
    /\ UNCHANGED <<now, cart, proof, uploads, approvals>>

\* Mutated form: the units reserved are counted as free.
UpdateInventory_AllFree(v, counted) ==
    /\ counted >= reserved[v]
    /\ onHand' = [onHand EXCEPT ![v] = counted]
    /\ available' = [available EXCEPT ![v] = counted]
    /\ movement' = [movement EXCEPT ![v].ADJUSTMENT = @ + counted - onHand[v]]
    /\ UNCHANGED <<now, reserved, cart, order, reservation, payments, proof,
                   uploads, promotion, approvals>>
\* Mutated form: the units reserved need not be there.
UpdateInventory_BelowReserved(v, counted) ==
    /\ onHand' = [onHand EXCEPT ![v] = counted]
    /\ available' = [available EXCEPT ![v] = counted - reserved[v]]
    /\ movement' = [movement EXCEPT ![v].ADJUSTMENT = @ + counted - onHand[v]]
    /\ UNCHANGED <<now, reserved, cart, order, reservation, payments, proof,
                   uploads, promotion, approvals>>
\* updateInventory
UpdateInventory(v, counted) ==
    /\ counted >= reserved[v]
    /\ onHand' = [onHand EXCEPT ![v] = counted]
    /\ available' = [available EXCEPT ![v] = counted - reserved[v]]
    /\ movement' = [movement EXCEPT ![v].ADJUSTMENT = @ + counted - onHand[v]]
    /\ UNCHANGED <<now, reserved, cart, order, reservation, payments, proof,
                   uploads, promotion, approvals>>

Tick ==
    /\ now < MaxTime
    /\ now' = now + 1
    /\ UNCHANGED <<stock, cart, order, reservation, payments, proof, uploads,
                   promotion, approvals>>
-----------------------------------------------------------------------------
Init ==
    /\ now = 0
    /\ onHand = OpeningStock /\ available = OpeningStock
    /\ reserved = NoBasket
    /\ movement = [v \in Variants |-> [t \in MovementTypes |-> 0]]
    /\ \E filled \in [OpeningCarts -> Baskets] :
          cart = [c \in Carts |->
                     IF c \in OpeningCarts
                     THEN [status |-> "ACTIVE", items |-> filled[c], customer |-> "none"]
                     ELSE NoCart]
    /\ order = [o \in Orders |-> NoOrder]
    /\ reservation = [o \in Orders |-> [v \in Variants |-> NoReservation]]
    /\ payments = [o \in Orders |-> <<>>]
    /\ proof = [d \in Proofs |-> NoProof]
    /\ uploads = {}
    /\ uses = 0 /\ applied = [o \in Orders |-> "NONE"]
    /\ approvals = [o \in Orders |-> 0]

Next ==
    \/ \E o \in Orders, c \in Carts, customer \in Customers, choice \in Choices,
          destination \in Destinations, eligible \in BOOLEAN :
          Create(o, c, customer, choice, destination, eligible)
    \/ \E o \in Orders, choice \in Choices, destination \in Destinations :
          UpdatePendingCheckout(o, choice, destination)
    \/ \E o \in Orders, c \in Carts : ReopenCheckout(o, c)
    \/ \E o \in Orders : Cancel(o)
    \/ \E o \in Orders : UploadRead(o)
    \/ \E o \in Orders, i \in 1..MaxAttempts, d \in Proofs : UploadWrite(o, i, d)
    \/ \E d \in Proofs, verdict \in {"APPROVED", "REJECTED"} :
          ReviewTransferProof(d, verdict)
    \/ \E o \in Orders : ConfirmCashPayment(o)
    \/ \E o \in Orders, fee \in Quotes : SetShippingQuote(o, fee)
    \/ \E o \in Orders, v \in Variants : ExpireOne(o, v)
    \/ \E v \in Variants, counted \in Recounts : UpdateInventory(v, counted)
    \/ Tick

\* The interval job runs every minute, and the clock does not stop.
Fairness ==
    /\ WF_vars(Tick)
    /\ \A o \in Orders, v \in Variants : WF_vars(ExpireOne(o, v))

Spec == Init /\ [][Next]_vars
FairSpec == Spec /\ Fairness
=============================================================================

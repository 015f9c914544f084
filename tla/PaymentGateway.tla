--------------------------- MODULE PaymentGateway ---------------------------
(***************************************************************************)
(* Card and link payments: the handlers of payments.service.ts that call a *)
(* provider between their reads and their writes, the two webhooks, and    *)
(* the refund of payments that arrive too late.                            *)
(*                                                                         *)
(* A handler is a request that moves through its steps while the rest of   *)
(* the shop (Checkout) goes on; a step is one query, one transaction or    *)
(* one call to the provider.  applyMercadoPagoPayment and                  *)
(* applyStripePaymentIntent have the same steps and differ in where the    *)
(* provider's status comes from.  Mercado Pago and Stripe are external:    *)
(* charges are made and change at their side, and their notifications may  *)
(* be late, out of order, repeated or lost.                                *)
(***************************************************************************)
EXTENDS CheckoutProperties

CONSTANTS
    Charges,    \* payments at Mercado Pago and payment intents at Stripe
    Workers,    \* the requests the API handles at a time
    Moves,      \* bound: the changes of a charge's status looked at
    Faults      \* may a call be refused, a transaction conflict, a replica stop?

VARIABLES
    charge,     \* [Charges -> the provider's record]
    notified,   \* the notifications sent, each delivered any number of times
    webhook,    \* [Notifications -> how far its webhookEvent row is]
    request     \* [Workers -> the request being handled]

gatewayVars == <<charge, notified, webhook, request>>
allVars == <<vars, gatewayVars>>
-----------------------------------------------------------------------------
(* The providers' records.                                                 *)

mapMercadoPagoStatus ==
    [pending |-> "PENDING", in_process |-> "IN_PROCESS", approved |-> "APPROVED",
     rejected |-> "REJECTED", cancelled |-> "CANCELLED", refunded |-> "REFUNDED",
     charged_back |-> "CHARGED_BACK"]
mapStripeStatus ==
    [canceled |-> "CANCELLED", processing |-> "IN_PROCESS",
     requires_action |-> "PENDING", requires_capture |-> "IN_PROCESS",
     requires_confirmation |-> "PENDING", requires_payment_method |-> "REJECTED",
     succeeded |-> "APPROVED"]
mapped(provider, status) ==
    IF provider = "STRIPE" THEN mapStripeStatus[status]
                           ELSE mapMercadoPagoStatus[status]

\* A charge names its attempt in its metadata, which is how
\* mercadoPagoPaymentAttempt and stripePaymentAttempt find it.
NoCharge == [status |-> "none", provider |-> "NONE"]
Made(c) == charge[c] # NoCharge
ChargesOf(o, i) == {c \in Charges : Made(c) /\ charge[c].order = o
                                            /\ charge[c].attempt = i}
newCharge(o, i, amount, status) ==
    [order |-> o, attempt |-> i, amount |-> amount, status |-> status,
     refunded |-> FALSE, provider |-> ProviderOf(payments[o][i].choice)]

\* How charges change at their provider.
StripeMoves ==
    {<<"requires_payment_method", "requires_payment_method">>,
     <<"requires_payment_method", "processing">>,
     <<"requires_payment_method", "succeeded">>,
     <<"processing", "succeeded">>, <<"processing", "requires_payment_method">>}
MercadoPagoMoves ==
    {<<"pending", "approved">>, <<"pending", "cancelled">>,
     <<"in_process", "approved">>, <<"in_process", "rejected">>}

\* A Stripe event carries the intent as it was, under an identifier of its own.
\* All notifications of one Mercado Pago payment have the payment's identifier.
Notifications == {<<c, s>> : c \in Charges, s \in {m[2] : m \in StripeMoves}}
                 \cup {<<c, "payment">> : c \in Charges}
Notified(c, status) ==
    notified' = notified \cup
        {<<c, IF charge'[c].provider = "STRIPE" THEN status ELSE "payment">>}

\* The customer pays with the Stripe form, whose secret is returned once the
\* intent is stored, or a provider decides about a charge.
Settle(c) ==
    /\ Made(c)
    /\ charge[c].provider = "STRIPE" =>
          payments[charge[c].order][charge[c].attempt].started
    /\ \E status \in DOMAIN mapStripeStatus \cup DOMAIN mapMercadoPagoStatus :
          /\ <<charge[c].status, status>> \in Moves \cap
                (IF charge[c].provider = "STRIPE" THEN StripeMoves
                                                  ELSE MercadoPagoMoves)
          /\ charge' = [charge EXCEPT ![c].status = status]
          /\ Notified(c, status)
    /\ UNCHANGED <<vars, webhook, request>>

\* The customer pays a link, any number of times.  The preference lists the
\* order's lines at their prices, so that shipping and discount are left out.
PayLink(o, i, c, status) ==
    /\ i \in DOMAIN payments[o] /\ payments[o][i].choice = "PAYMENT_LINK"
    /\ payments[o][i].started
    /\ ~Made(c)
    /\ charge' = [charge EXCEPT ![c] = newCharge(o, i, 0, status)]
    /\ Notified(c, status)
    /\ UNCHANGED <<vars, webhook, request>>
-----------------------------------------------------------------------------
(* Requests.                                                               *)

Idle == [pc |-> "idle"]
At(w, pc) == request[w].pc = pc
Goto(w, pc) == request' = [request EXCEPT ![w] = [@ EXCEPT !.pc = pc]]
Respond(w) == request' = [request EXCEPT ![w] = Idle]

\* A request that will apply a charge's status; notification <<>> is none.
applying(pc, c, status, notification) ==
    [pc |-> pc, order |-> charge'[c].order, attempt |-> charge'[c].attempt,
     charge |-> c, status |-> mapped(charge'[c].provider, status),
     notification |-> notification, preserveOrder |-> FALSE, caught |-> FALSE]

\* The attempts of a choice that can still be paid.
Payable(o, choice) == {i \in Live(o) : payments[o][i].choice = choice}

\* createMercadoPagoPreference reads the order ...
BeginPreference(w, o) ==
    LET links == Payable(o, "PAYMENT_LINK")
    IN  /\ At(w, "idle")
        /\ order[o].status # "NONE" /\ order[o].method = "PAYMENT_LINK"
        /\ order[o].quote # "PENDING" /\ order[o].paymentStatus # "APPROVED"
        /\ links # {} /\ ~payments[o][Newest(links)].started
        /\ request' = [request EXCEPT ![w] =
               [pc |-> "save", order |-> o, attempt |-> Newest(links)]]
        /\ UNCHANGED <<vars, charge, notified, webhook>>

\* getOwnedCardOrder and cardPayment, as createStripePaymentIntent and
\* processMercadoPagoCard read them ...
BeginCard(w, o, choice) ==
    LET cards == Payable(o, choice)
    IN  /\ At(w, "idle")
        /\ order[o].status \notin ClosedStatuses \cup {"NONE"}
        /\ order[o].method = "CARD" /\ order[o].quote # "PENDING"
        /\ order[o].paymentStatus # "APPROVED"
        /\ cards # {}
        /\ choice = "CARD_STRIPE" => ~payments[o][Newest(cards)].started
        /\ request' = [request EXCEPT ![w] =
               [pc |-> choice, order |-> o, attempt |-> Newest(cards),
                amount |-> order[o].shipping]]
        /\ UNCHANGED <<vars, charge, notified, webhook>>

\* ... createStripePaymentIntent asks for an intent under the attempt's own
\* idempotency key: Stripe returns the one it has, or refuses another amount ...
CreateIntent(w, c) ==
    LET r == request[w]
        existing == ChargesOf(r.order, r.attempt)
    IN  /\ At(w, "CARD_STRIPE")
        /\ IF existing = {}
           THEN /\ ~Made(c)
                /\ charge' = [charge EXCEPT ![c] = newCharge(r.order, r.attempt,
                                  r.amount, "requires_payment_method")]
                /\ Goto(w, "save")
           ELSE /\ c \in existing /\ UNCHANGED charge
                /\ IF charge[c].amount = r.amount THEN Goto(w, "save") ELSE Respond(w)
        /\ UNCHANGED <<vars, notified, webhook>>

\* ... and the intent or the preference is stored with its attempt.
SaveStarted(w) ==
    LET r == request[w]
    IN  /\ At(w, "save")
        /\ payments' = [payments EXCEPT ![r.order][r.attempt].started = TRUE]
        /\ Respond(w)
        /\ UNCHANGED <<now, stock, cart, order, reservation, proof, uploads,
                       promotion, approvals, charge, notified, webhook>>

\* processMercadoPagoCard charges the card; the same card token again gives the
\* charge it made before.
ChargeCard(w, c, status) ==
    LET r == request[w]
    IN  /\ At(w, "CARD_MERCADO_PAGO")
        /\ \/ /\ ~Made(c)
              /\ charge' = [charge EXCEPT ![c] =
                                newCharge(r.order, r.attempt, r.amount, status)]
              /\ Notified(c, status)
           \/ /\ c \in ChargesOf(r.order, r.attempt) /\ charge[c].status = status
              /\ UNCHANGED <<charge, notified>>
        /\ request' = [request EXCEPT ![w] = applying("apply", c, status, <<>>)]
        /\ UNCHANGED <<vars, webhook>>

\* syncStripePayment: the browser asks for the intent's present status.
SyncStripe(w, c) ==
    LET o == charge[c].order
    IN  /\ At(w, "idle") /\ Made(c) /\ charge[c].provider = "STRIPE"
        /\ order[o].method = "CARD" /\ order[o].quote # "PENDING"
        /\ Payable(o, "CARD_STRIPE") # {}
        /\ charge[c].attempt = Newest(Payable(o, "CARD_STRIPE"))
        /\ payments[o][charge[c].attempt].started
        /\ UNCHANGED charge
        /\ request' = [request EXCEPT ![w] =
                           applying("apply", c, charge[c].status, <<>>)]
        /\ UNCHANGED <<vars, notified, webhook>>

\* receiveStripeWebhook and receiveMercadoPagoWebhook: a notification whose row
\* exists is answered as a duplicate and changes nothing.
ReceiveWebhook(w, n) ==
    /\ At(w, "idle") /\ n \in notified /\ webhook[n] = "none"
    /\ webhook' = [webhook EXCEPT ![n] = "received"]
    /\ UNCHANGED charge
    /\ request' = [request EXCEPT ![w] =
           IF n[2] = "payment" THEN applying("fetch", n[1], charge[n[1]].status, n)
                               ELSE applying("apply", n[1], n[2], n)]
    /\ UNCHANGED <<vars, notified>>

\* fetchMercadoPagoPayment: the status is the one the payment has by now.
Fetch(w) ==
    LET r == request[w]
    IN  /\ At(w, "fetch")
        /\ UNCHANGED charge
        /\ request' = [request EXCEPT ![w] =
               applying("apply", r.charge, charge[r.charge].status, r.notification)]
        /\ UNCHANGED <<vars, notified, webhook>>
-----------------------------------------------------------------------------
(* applyMercadoPagoPayment and applyStripePaymentIntent.                   *)

\* Mutated form: the amounts are not compared.
amountsMatch_NotChecked(o, i, c) == TRUE
amountsMatch(o, i, c) ==
    charge[c].amount = order[o].shipping /\ payments[o][i].amount = order[o].shipping
\* paymentAttemptWasSuperseded
Superseded(o, i) == i \notin Live(o) \/ \E j \in Live(o) : j > i

\* Mutated form: a replaced attempt is never refunded.
HandleSuperseded_RecordOnly(w) == Goto(w, "record")
\* Where an approved charge of an attempt that is or was superseded goes, and
\* where any other status of one goes: handleSupersededMercadoPagoPayment and
\* handleSupersededStripePayment.
HandleSuperseded(w) ==
    request' = [request EXCEPT ![w] =
        IF @.status = "APPROVED"
        THEN [@ EXCEPT !.pc = "readRefund", !.preserveOrder = TRUE]
        ELSE [@ EXCEPT !.pc = "record"]]
Refund(w) ==
    request' = [request EXCEPT ![w] =
                   [@ EXCEPT !.pc = "readRefund", !.preserveOrder = FALSE]]

\* The order and its attempts are read outside any transaction.
ReadOrder(w) ==
    LET r == request[w]
    IN  /\ At(w, "apply")
        /\ IF ~amountsMatch(r.order, r.attempt, r.charge) THEN Goto(w, "failed")
           ELSE IF Superseded(r.order, r.attempt) THEN HandleSuperseded(w)
           ELSE IF r.status = "APPROVED" THEN Goto(w, "classify")
           ELSE Goto(w, "transact")
        /\ UNCHANGED <<vars, charge, notified, webhook>>

\* classifyOrderReservation
classify(o) ==
    CASE order[o].status \in ClosedStatuses -> "INACTIVE"
      [] order[o].paymentStatus = "APPROVED" -> "FINALIZED"
      [] order[o].expiresAt <= now -> "INACTIVE"
      [] OTHER -> "ACTIVE"

\* orderReservationState: the order, its reservations, and the order again.
ReadState(w) ==
    LET state == classify(request[w].order)
    IN  /\ At(w, "classify")
        /\ CASE state = "ACTIVE" -> Goto(w, "count")
             [] state = "FINALIZED" -> Goto(w, "processed")
             [] OTHER -> Refund(w)
        /\ UNCHANGED <<vars, charge, notified, webhook>>
\* An error caught in a transaction is thrown again when the order is ACTIVE.
CountReservations(w) ==
    /\ At(w, "count")
    /\ CASE ActiveItems(request[w].order) = {} -> Goto(w, "reread")
         [] request[w].caught -> Goto(w, "failed")
         [] OTHER -> Goto(w, "transact")
    /\ UNCHANGED <<vars, charge, notified, webhook>>
\* Mutated form: the order is not read again.
RereadState_NotRead(w) ==
    /\ At(w, "reread")
    /\ Refund(w)
    /\ UNCHANGED <<vars, charge, notified, webhook>>
RereadState(w) ==
    /\ At(w, "reread")
    /\ IF classify(request[w].order) = "FINALIZED" THEN Goto(w, "processed")
                                                   ELSE Refund(w)
    /\ UNCHANGED <<vars, charge, notified, webhook>>

\* confirmOrderPayment throws for an order that is closed or holds nothing.
Confirmable(o) ==
    /\ order[o].status \notin ClosedStatuses
    /\ ActiveItems(o) # {}
    /\ \A v \in Variants : reserved[v] >= Held(o, v) /\ onHand[v] >= Held(o, v)

\* Mutated form: a paid order's status is overwritten like any other.
statusAfter_Overwritten(o, status) == status
\* A paid order keeps its status whatever the event says.
statusAfter(o, status) ==
    IF order[o].paymentStatus = "APPROVED" THEN "APPROVED" ELSE status

\* The SERIALIZABLE transaction: the attempt's row, then the sale or the order's
\* payment status.
Transact(w) ==
    LET r == request[w]
        o == r.order
        i == r.attempt
        paid == order[o].paymentStatus = "APPROVED"
        written == [payments EXCEPT ![o][i].status = r.status, ![o][i].started = TRUE]
    IN  /\ At(w, "transact")
        /\ \/ /\ Superseded(o, i)
              /\ HandleSuperseded(w)
              /\ UNCHANGED vars
           \/ /\ ~Superseded(o, i) /\ r.status = "APPROVED" /\ ~paid
              /\ ConfirmOrderPayment(o, i, written[o])
              /\ Goto(w, "processed")
              /\ UNCHANGED <<now, cart, proof, uploads, promotion>>
           \/ /\ ~Superseded(o, i) /\ (r.status # "APPROVED" \/ paid)
              /\ payments' = written
              /\ order' = [order EXCEPT ![o].paymentStatus = statusAfter(o, r.status)]
              /\ Goto(w, "processed")
              /\ UNCHANGED <<now, stock, cart, reservation, proof, uploads,
                             promotion, approvals>>
        /\ UNCHANGED <<charge, notified, webhook>>

\* The transaction throws: the order cannot be confirmed, or it conflicts with
\* another one.
Throw(w) ==
    LET r == request[w]
    IN  /\ At(w, "transact")
        /\ \/ Faults
           \/ /\ ~Superseded(r.order, r.attempt) /\ r.status = "APPROVED"
              /\ order[r.order].paymentStatus # "APPROVED" /\ ~Confirmable(r.order)
        /\ Goto(w, IF r.status = "APPROVED" THEN "caught" ELSE "failed")
        /\ UNCHANGED <<vars, charge, notified, webhook>>
ReadLatest(w) ==
    LET r == request[w]
    IN  /\ At(w, "caught")
        /\ IF payments[r.order][r.attempt].status \in SupersededStatuses
           THEN HandleSuperseded(w)
           ELSE request' = [request EXCEPT ![w] =
                                [@ EXCEPT !.pc = "classify", !.caught = TRUE]]
        /\ UNCHANGED <<vars, charge, notified, webhook>>

\* recordSupersededProviderState
RecordSuperseded(w) ==
    LET r == request[w]
        status == IF r.status \in {"REFUNDED", "CHARGED_BACK"} THEN r.status
                                                               ELSE "CANCELLED"
    IN  /\ At(w, "record")
        /\ payments' = [payments EXCEPT ![r.order][r.attempt].status = status,
                                        ![r.order][r.attempt].started = TRUE]
        /\ Goto(w, "processed")
        /\ UNCHANGED <<now, stock, cart, order, reservation, proof, uploads,
                       promotion, approvals, charge, notified, webhook>>

\* refundLateMercadoPagoPayment and refundLateStripePayment: an attempt that is
\* REFUNDED needs nothing more; the provider refunds a charge once; then the
\* attempt and, unless the order goes on, its payment status are written.
ReadRefund(w) ==
    LET r == request[w]
    IN  /\ At(w, "readRefund")
        /\ Goto(w, IF payments[r.order][r.attempt].status = "REFUNDED"
                   THEN "processed" ELSE "refund")
        /\ UNCHANGED <<vars, charge, notified, webhook>>
CallRefund(w) ==
    LET c == request[w].charge
    IN  /\ At(w, "refund")
        /\ charge' = [charge EXCEPT ![c].refunded = TRUE,
               ![c].status = IF charge[c].provider = "STRIPE" THEN @ ELSE "refunded"]
        /\ IF charge[c].provider = "STRIPE" THEN UNCHANGED notified
                                            ELSE Notified(c, "refunded")
        /\ Goto(w, "mark")
        /\ UNCHANGED <<vars, webhook>>
\* markLatePaymentRefunded
MarkRefunded(w) ==
    LET r == request[w]
    IN  /\ At(w, "mark")
        /\ payments' = [payments EXCEPT ![r.order][r.attempt].status = "REFUNDED",
                                        ![r.order][r.attempt].started = TRUE]
        /\ order' = IF r.preserveOrder THEN order
                    ELSE [order EXCEPT ![r.order].paymentStatus = "REFUNDED"]
        /\ Goto(w, "processed")
        /\ UNCHANGED <<now, stock, cart, reservation, proof, uploads, promotion,
                       approvals, charge, notified, webhook>>

\* The provider does not answer or refuses; with no charge left, the bound,
\* it refuses every new one.
Refused(w) ==
    /\ \/ Faults /\ request[w].pc \in {"fetch", "refund"} /\ Goto(w, "failed")
       \/ /\ Faults \/ \A c \in Charges : Made(c)
          /\ request[w].pc \in {"CARD_STRIPE", "CARD_MERCADO_PAGO"}
          /\ Respond(w)
    /\ UNCHANGED <<vars, charge, notified, webhook>>

\* Mutated form: the row is marked processed whatever happened.
Finish_AlwaysProcessed(w) ==
    LET n == request[w].notification
    IN  /\ request[w].pc \in {"processed", "failed"}
        /\ webhook' = IF n = <<>> THEN webhook
                      ELSE [webhook EXCEPT ![n] = "processed"]
        /\ Respond(w)
        /\ UNCHANGED <<vars, charge, notified>>
\* The webhook's row is closed, with or without an error, and the request ends.
Finish(w) ==
    LET n == request[w].notification
    IN  /\ request[w].pc \in {"processed", "failed"}
        /\ webhook' = IF n = <<>> THEN webhook ELSE
               [webhook EXCEPT ![n] = IF At(w, "processed") THEN "processed"
                                                            ELSE "error"]
        /\ Respond(w)
        /\ UNCHANGED <<vars, charge, notified>>

\* A replica stops; its requests are gone.
Crash(w) ==
    /\ Faults /\ ~At(w, "idle")
    /\ Respond(w)
    /\ UNCHANGED <<vars, charge, notified, webhook>>
-----------------------------------------------------------------------------
GatewayInit ==
    /\ Init
    /\ charge = [c \in Charges |-> NoCharge]
    /\ notified = {}
    /\ webhook = [n \in Notifications |-> "none"]
    /\ request = [w \in Workers |-> Idle]

\* The steps of a request that is being handled.
Step(w) ==
    \/ \E c \in Charges : CreateIntent(w, c)
    \/ \E c \in Charges, status \in {"in_process", "approved", "rejected"} :
          ChargeCard(w, c, status)
    \/ SaveStarted(w) \/ Fetch(w) \/ ReadOrder(w)
    \/ ReadState(w) \/ CountReservations(w) \/ RereadState(w)
    \/ Transact(w) \/ Throw(w) \/ ReadLatest(w) \/ RecordSuperseded(w)
    \/ ReadRefund(w) \/ CallRefund(w) \/ MarkRefunded(w) \/ Refused(w) \/ Finish(w)

GatewayNext ==
    \/ Next /\ UNCHANGED gatewayVars
    \/ \E c \in Charges : Settle(c)
    \/ \E o \in Orders, i \in 1..MaxAttempts, c \in Charges,
          status \in {"pending", "approved", "rejected"} : PayLink(o, i, c, status)
    \/ \E w \in Workers, o \in Orders : BeginPreference(w, o)
    \/ \E w \in Workers, o \in Orders,
          choice \in {"CARD_STRIPE", "CARD_MERCADO_PAGO"} : BeginCard(w, o, choice)
    \/ \E w \in Workers, c \in Charges : SyncStripe(w, c)
    \/ \E w \in Workers, n \in Notifications : ReceiveWebhook(w, n)
    \/ \E w \in Workers : Step(w) \/ Crash(w)

\* Providers send a notification until it is accepted, a request that is being
\* handled goes on, and time passes.
GatewayFairness ==
    /\ Fairness
    /\ \A w \in Workers : WF_allVars(Step(w))
    /\ \A n \in Notifications : SF_allVars(\E w \in Workers : ReceiveWebhook(w, n))

GatewaySpec == GatewayInit /\ [][GatewayNext]_allVars
FairGatewaySpec == GatewaySpec /\ GatewayFairness
-----------------------------------------------------------------------------
(* Properties.                                                             *)

\* A charge whose money the provider has taken and not given back.
Kept(c) == Made(c) /\ mapped(charge[c].provider, charge[c].status) = "APPROVED"
                   /\ ~charge[c].refunded
\* Something still knows of the charge: a request is at work on it, or one of
\* its notifications is on its way or has a row without a successful end.
Pending(c) ==
    \/ \E w \in Workers : ~At(w, "idle") /\ "charge" \in DOMAIN request[w]
                          /\ request[w].charge = c
    \/ \E n \in notified : n[1] = c /\ webhook[n] # "processed"

\* However often browsers and webhooks report the same payment, and whatever a
\* refund wrote in between, an order is sold and announced at most once.
SoldOnce ==
    \A o \in Orders :
        /\ approvals[o] <= 1
        /\ approvals[o] = 1 <=>
              \E v \in Variants : reservation[o][v].status = "CONSUMED"

\* An order paid by card or link was charged its total: changes of address and
\* quotes race the creation of the charge.  A card of Mercado Pago is charged before
\* its payment is stored, and a quote given in between is not noticed.
PaidOrdersWereCharged ==
    \A o \in Orders : \A i \in Live(o) :
        /\ order[o].paymentStatus = "APPROVED"
        /\ ProviderOf(payments[o][i].choice) # "MANUAL"
        => \E c \in ChargesOf(o, i) : charge[c].amount = order[o].shipping
              /\ charge[c].status \in {"approved", "succeeded", "refunded"}

\* A paid order never goes back to waiting: events that arrive late or out of
\* order can at most refund it.
StaysPaid ==
    \A o \in Orders : order[o].paymentStatus = "APPROVED" =>
       order'[o].paymentStatus \in {"APPROVED", "REFUNDED"}
PaidStaysPaid == [][StaysPaid]_allVars

\* Money that was taken is accounted for: its order was sold, or something still
\* knows of the charge, if only a webhook's row that has no successful end
\* (docs/REQUIREMENTS.md, 'Webhooks verificados, idempotentes y auditables').
NoChargeIsForgotten ==
    \A c \in Charges : Kept(c) => Pending(c) \/ approvals[charge[c].order] = 1

\* The same of the money that Stripe took.  Stripe's events have identifiers of
\* their own; all events of a Mercado Pago payment share a row of webhookEvent.
StripeMoneyIsAccounted ==
    \A c \in Charges : charge[c].provider = "STRIPE" /\ Kept(c)
                          => Pending(c) \/ approvals[charge[c].order] = 1

\* When everything is at rest, the charge of an attempt that the customer
\* replaced has been given back (payments.service.spec.ts, 'Stripe reembolsa un
\* intento sustituido sin alterar la nueva forma de pago').
ReplacedChargesAreRefunded ==
    \A c \in Charges : Kept(c) =>
        Pending(c) \/ charge[c].attempt \in Live(charge[c].order)

\* An order that was sold keeps its payment: the automatic refund is for orders
\* that nobody confirmed (payments.service.spec.ts, 'Stripe no reembolsa cuando
\* otra solicitud ya confirmo y consumio la reserva').
SoldIsNotRefunded ==
    \A o \in Orders : approvals[o] = 1 => order[o].paymentStatus = "APPROVED"

\* What a provider charges is the order's total (payments.service.spec.ts,
\* 'Mercado Pago cobra el total y correo guardados en la orden').
ChargesAreTheTotal ==
    \A c \in Charges : Made(c) =>
        charge[c].amount = payments[charge[c].order][charge[c].attempt].amount

SettledCharge(c) == ~Kept(c) \/ approvals[charge[c].order] = 1

\* Without faults, every payment a provider takes ends as a sold order or as a
\* refund.
ChargesSettle == \A c \in Charges : Kept(c) ~> SettledCharge(c)
=============================================================================

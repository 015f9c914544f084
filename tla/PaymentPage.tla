---------------------------- MODULE PaymentPage ----------------------------
(***************************************************************************)
(* The page /pago/<order> of the store (payment-experience.tsx): it waits  *)
(* for the shipping quote, shows the form of the order's gateway, charges  *)
(* and can give the order back as a cart (reopenCheckout).  The page knows *)
(* the order from answers that may be old; the order is the server's.  The *)
(* gateways' own faults are PaymentGateway's: here a charge is made or     *)
(* refused, and applied to the order by the page's call or by a webhook.   *)
(***************************************************************************)
EXTENDS Integers, FiniteSets

CONSTANTS
    Pages,     \* tabs that show the order
    Fees,      \* the shipping costs the store may quote; the rest of the total is fixed
    None,      \* no snapshot, fee, intent, charge
    Quotes,    \* bound: quotes given
    Answers    \* bound: answers of one kind under way to one page

\* What a page may be told of the order.
Seen == [status : {"PENDING_PAYMENT", "CONFIRMED", "CANCELLED", "EXPIRED"},
         payment : {"PENDING", "APPROVED", "REFUNDED"}, fee : Fees \cup {None}]

PaymentPageAssumption ==
    /\ Fees \subseteq Nat /\ Quotes \in Nat /\ Answers \in Nat \ {0}
    /\ None \notin Seen

VARIABLES
    order,     \* the order at the server
    provider,  \* its gateway: "MERCADO_PAGO" or "STRIPE"
    intent,    \* the amount of Stripe's intent, or None
    charged,   \* what the customer was charged, or None
    applied,   \* a charge was applied to the order
    page,      \* what each page shows and waits for
    held,      \* the reopened cart is the browser's
    quotes     \* how many quotes were given

server == <<order, intent, charged, applied, quotes>>
allVars == <<server, provider, page, held>>

\* A page that was just opened: nothing is shown, asked or told.
opened == [state |-> "loading", shown |-> None, loads |-> {}, polls |-> {},
           form |-> "none", back |-> "none", told |-> "none"]

Init ==
    /\ \E fee \in Fees \cup {None} :
         order = [status |-> "PENDING_PAYMENT", payment |-> "PENDING", fee |-> fee, cart |-> None]
    /\ provider \in {"MERCADO_PAGO", "STRIPE"}
    /\ intent = None /\ charged = None /\ applied = FALSE
    /\ page = [p \in Pages |-> opened]
    /\ held = FALSE /\ quotes = 0

\* A fee of None is a quote that is PENDING.
Snapshot == [status |-> order.status, payment |-> order.payment, fee |-> order.fee]
closed(o) == o.payment = "REFUNDED" \/ o.status \in {"CANCELLED", "EXPIRED"}
\* The form of the gateway is on the page.
payableOn(record) ==
    /\ record.state = "open" /\ record.shown.fee # None
    /\ ~closed(record.shown) /\ record.shown.payment # "APPROVED"
payable(p) == payableOn(page[p])
canEditCheckout(p) ==
    page[p].state = "open" /\ page[p].shown.status = "PENDING_PAYMENT"
                           /\ page[p].shown.payment = "PENDING"
Page(p, record) == page' = [page EXCEPT ![p] = record]
\* A form that is taken off the page is lost, but not what it has begun.
remaining(record) ==
    IF record.form = "ready" /\ ~payableOn(record) THEN [record EXCEPT !.form = "none"] ELSE record
-----------------------------------------------------------------------------
(* Loading the order and waiting for the quote.                            *)

\* loadPayment, on the first view and again whenever the session is renewed; the
\* effect of the quote is then run anew and the polls under way are cancelled.
LoadRead(p) ==
    /\ page[p].state # "left" /\ Cardinality(page[p].loads) < Answers
    /\ Page(p, [page[p] EXCEPT !.loads = @ \cup {Snapshot}, !.polls = {}])
    /\ UNCHANGED <<server, provider, held>>

\* So they are when the quote's state changes: their answers are dropped.
pollsAfter(p, s) == IF page[p].shown # None /\ page[p].shown.fee = None /\ s.fee = None
                    THEN page[p].polls ELSE {}
\* An error that is told stays told.
LoadArrives(p, s) ==
    /\ s \in page[p].loads /\ page[p].state # "left"
    /\ Page(p, remaining([page[p] EXCEPT !.state = IF @ = "failed" THEN @ ELSE "open", !.shown = s,
                                         !.loads = @ \ {s}, !.polls = pollsAfter(p, s)]))
    /\ UNCHANGED <<server, provider, held>>

\* Any load that fails, the first or a later one, puts its error in the page's place.
LoadFails(p, s) ==
    /\ s \in page[p].loads /\ page[p].state # "left"
    /\ Page(p, remaining([page[p] EXCEPT !.state = "failed", !.loads = @ \ {s}]))
    /\ UNCHANGED <<server, provider, held>>

\* refreshQuote, every four seconds while the quote is awaited, also behind an error:
\* an answer takes the error away, a poll that fails tells one.
polling(p) ==
    page[p].state \in {"open", "failed"} /\ page[p].shown # None /\ page[p].shown.fee = None
PollRead(p) ==
    /\ polling(p) /\ Cardinality(page[p].polls) < Answers
    /\ Page(p, [page[p] EXCEPT !.polls = @ \cup {Snapshot}])
    /\ UNCHANGED <<server, provider, held>>

PollArrives(p, s) ==
    /\ s \in page[p].polls /\ page[p].state # "left"
    /\ Page(p, [page[p] EXCEPT !.state = "open", !.shown = s, !.polls = pollsAfter(p, s) \ {s}])
    /\ UNCHANGED <<server, provider, held>>

PollFails(p, s) ==
    /\ s \in page[p].polls /\ page[p].state # "left"
    /\ Page(p, [page[p] EXCEPT !.state = "failed", !.polls = @ \ {s}])
    /\ UNCHANGED <<server, provider, held>>
-----------------------------------------------------------------------------
(* The store and the clock.                                                *)

\* setShippingQuote, also over an earlier quote until a charge was begun.
setShippingQuote(fee) ==
    /\ quotes < Quotes /\ fee # order.fee
    /\ order.status = "PENDING_PAYMENT" /\ order.payment = "PENDING"
    /\ intent = None /\ charged = None
    /\ order' = [order EXCEPT !.fee = fee] /\ quotes' = quotes + 1
    /\ UNCHANGED <<intent, charged, applied, provider, page, held>>

\* The order expires, or is cancelled on another page.
Close(status) ==
    /\ order.status = "PENDING_PAYMENT"
    /\ order' = [order EXCEPT !.status = status]
    /\ UNCHANGED <<intent, charged, applied, quotes, provider, page, held>>
-----------------------------------------------------------------------------
(* The gateways.                                                           *)

\* getOwnedCardOrder.
chargeable == order.fee # None /\ ~closed(order) /\ order.payment # "APPROVED"

\* MercadoPagoForm: the order is charged its total of now, or refused.
ProcessMercadoPagoCard(p) ==
    /\ provider = "MERCADO_PAGO" /\ payable(p) /\ page[p].form = "none"
    /\ \/ /\ chargeable /\ charged = None /\ charged' = order.fee
          /\ Page(p, [page[p] EXCEPT !.form = "charged"])
       \/ /\ UNCHANGED charged
          /\ Page(p, [page[p] EXCEPT !.told = "rejected"])
    /\ UNCHANGED <<order, intent, applied, quotes, provider, held>>

\* StripeForm asks for the intent as soon as it shows; one is made per order.
CreateStripeIntent(p) ==
    /\ provider = "STRIPE" /\ payable(p) /\ page[p].form = "none" /\ chargeable
    /\ intent' = IF intent = None THEN order.fee ELSE intent
    /\ Page(p, [page[p] EXCEPT !.form = "ready"])
    /\ UNCHANGED <<order, charged, applied, quotes, provider, held>>

\* confirmPayment: Stripe charges what the intent says, whatever the order does.
ConfirmStripe(p) ==
    /\ page[p].form = "ready" /\ payable(p)
    /\ \/ /\ charged = None /\ charged' = intent
          /\ Page(p, [page[p] EXCEPT !.form = "charged"])
       \/ /\ UNCHANGED charged /\ Page(p, [page[p] EXCEPT !.told = "rejected"])
    /\ UNCHANGED <<order, intent, applied, quotes, provider, held>>

\* applyMercadoPagoPayment and applyStripePaymentIntent: an order that is
\* still open is paid, for another the charge is returned.
afterCharge ==
    IF order.payment \in {"APPROVED", "REFUNDED"} THEN order
    ELSE IF closed(order) THEN [order EXCEPT !.payment = "REFUNDED"]
    ELSE [order EXCEPT !.payment = "APPROVED", !.status = "CONFIRMED"]

\* What the page says of the charge: what the server made of it.
outcome_Charged(o) == "paid"
outcome(o) == IF o.payment = "APPROVED" THEN "paid" ELSE "refunded"

\* The card call, or the sync after Stripe's form or on the way back from it.
Settle(p) ==
    /\ page[p].form = "charged"
    /\ order' = afterCharge /\ applied' = TRUE
    /\ Page(p, [page[p] EXCEPT !.form = "none", !.told = outcome(afterCharge),
                               !.state = IF outcome(afterCharge) = "paid" THEN "left" ELSE @])
    /\ UNCHANGED <<intent, charged, quotes, provider, held>>

\* The answer is lost, before or after it was applied.
SettleFails(p) ==
    /\ page[p].form = "charged"
    /\ \/ order' = afterCharge /\ applied' = TRUE
       \/ UNCHANGED <<order, applied>>
    /\ Page(p, [page[p] EXCEPT !.form = "none", !.told = "error"])
    /\ UNCHANGED <<intent, charged, quotes, provider, held>>

Webhook ==
    /\ charged # None /\ ~applied
    /\ order' = afterCharge /\ applied' = TRUE
    /\ UNCHANGED <<intent, charged, quotes, provider, page, held>>
-----------------------------------------------------------------------------
(* Back to the checkout.                                                   *)

PressBack(p) ==
    /\ canEditCheckout(p) /\ page[p].back = "none"
    /\ Page(p, [page[p] EXCEPT !.back = "asked"])
    /\ UNCHANGED <<server, provider, held>>

\* The reopening is recorded under a key of the order: asking again answers
\* with the cart that was made.
previous == order.cart # None
reopenable == order.status = "PENDING_PAYMENT" /\ order.payment = "PENDING"
reopenCheckout(p) ==
    /\ page[p].back = "asked"
    /\ order' = IF ~previous /\ reopenable
                THEN [order EXCEPT !.status = "CANCELLED", !.cart = "ACTIVE"] ELSE order
    /\ Page(p, [page[p] EXCEPT !.back = IF previous \/ reopenable THEN "answered" ELSE "refused"])
    /\ UNCHANGED <<intent, charged, applied, quotes, provider, held>>

\* adoptCartToken, the draft, and on to the checkout.
BackArrives(p) ==
    /\ page[p].back = "answered"
    /\ held' = TRUE /\ Page(p, [page[p] EXCEPT !.back = "none", !.state = "left"])
    /\ UNCHANGED <<server, provider>>

\* Refused, or the answer or the cart it names is lost.
BackFails(p) ==
    /\ page[p].back # "none"
    /\ Page(p, [page[p] EXCEPT !.back = "none"])
    /\ UNCHANGED <<server, provider, held>>

\* The page is loaded again, also after it was left.
Reload(p) ==
    /\ page[p].state # "loading" /\ Page(p, opened)
    /\ UNCHANGED <<server, provider, held>>

OfPage(p) ==
    \/ LoadRead(p) \/ PollRead(p)
    \/ \E s \in page[p].loads : LoadArrives(p, s) \/ LoadFails(p, s)
    \/ \E s \in page[p].polls : PollArrives(p, s) \/ PollFails(p, s)
    \/ ProcessMercadoPagoCard(p) \/ CreateStripeIntent(p) \/ ConfirmStripe(p)
    \/ Settle(p) \/ SettleFails(p)
    \/ PressBack(p) \/ reopenCheckout(p) \/ BackArrives(p) \/ BackFails(p) \/ Reload(p)

Next ==
    \/ \E p \in Pages : OfPage(p)
    \/ \E fee \in Fees : setShippingQuote(fee)
    \/ \E status \in {"EXPIRED", "CANCELLED"} : Close(status)
    \/ Webhook

Spec == Init /\ [][Next]_allVars

\* The timer of a page that waits ticks, and not every poll fails.
QuoteSpec ==
    /\ Spec
    /\ \A p \in Pages : WF_allVars(PollRead(p))
                        /\ SF_allVars(\E s \in page[p].polls : PollArrives(p, s))

\* The customer presses again until the page goes back, and not every request
\* or answer is lost.
BackSpec ==
    /\ Spec
    /\ \A p \in Pages : /\ WF_allVars(PressBack(p)) /\ SF_allVars(reopenCheckout(p))
                        /\ SF_allVars(BackArrives(p))

\* Besides, a page that is loaded again shows the order in the end.
BackAndLoadSpec ==
    /\ BackSpec
    /\ \A p \in Pages : /\ SF_allVars(LoadRead(p))
                        /\ SF_allVars(\E s \in page[p].loads : LoadArrives(p, s))
-----------------------------------------------------------------------------
(* Properties.                                                             *)

\* A page that is open shows a state the order has been in; a cart was made
\* only of an order that was closed for it.
TypeOK ==
    /\ order.status \in {"PENDING_PAYMENT", "CONFIRMED", "CANCELLED", "EXPIRED"}
    /\ order.payment \in {"PENDING", "APPROVED", "REFUNDED"} /\ order.fee \in Fees \cup {None}
    /\ order.cart # None => order.status = "CANCELLED"
    /\ \A p \in Pages :
         /\ page[p].state = "open" => page[p].shown # None
         /\ page[p].shown # None => page[p].shown.status \in {"PENDING_PAYMENT", order.status}
         /\ page[p].polls # {} => page[p].shown.fee = None

\* The customer is sent to the page of success only for an order that is
\* paid: a charge that came after the order had been closed or reopened is
\* told as returned (Settle, 'El reembolso ya fue iniciado.').
ToldPaidIsPaid ==
    \A p \in Pages : page[p].told = "paid" => order.payment = "APPROVED"

\* A page that knows a quote goes back to waiting only by loading as a whole:
\* the answers of polls that were overtaken are dropped (cancelled).
QuoteStays ==
    \A p \in Pages :
      page[p].shown # None /\ page'[p].shown # None
      /\ page[p].shown.fee # None /\ page'[p].shown.fee = None
      => page'[p].loads # page[p].loads

Outdated(p) == polling(p) /\ order.fee # None
Updated(p) == ~polling(p) \/ closed(page[p].shown)

\* 'el total se actualizará aquí automáticamente': a page that waits comes to
\* know the quote, or what became of the order instead.
QuoteArrives == \A p \in Pages : Outdated(p) ~> Updated(p)

\* What the code does not have: the page then shows it. The answer of a load takes
\* no error away, and with the quote in it nothing is polled that would.
QuoteIsShown ==
    \A p \in Pages : Outdated(p) ~> page[p].state # "failed" /\ Updated(p)

\* 'Volver a revisar' pressed again after a lost answer gives back the same
\* cart: the goods of an order that was closed to be reviewed are not lost as
\* long as its page is open (deduplicationKey of reopenCheckout).
RetryReopens ==
    \A p \in Pages : order.cart # None /\ canEditCheckout(p) ~> held \/ ~canEditCheckout(p)

\* What is charged is the total the page shows.
ChargedAsShown ==
    [][\A p \in Pages :
         page[p].form # "charged" /\ page'[p].form = "charged" => charged' = page[p].shown.fee]_allVars

\* The cart of a reopened order comes to be the browser's, unless its page
\* shows an error.
ReopenedIsFound == order.cart # None ~> held \/ \E p \in Pages : page[p].state = "failed"
=============================================================================

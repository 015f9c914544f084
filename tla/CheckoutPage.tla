---------------------------- MODULE CheckoutPage ----------------------------
(***************************************************************************)
(* The page /carrito of the store (checkout-experience.tsx) and the draft  *)
(* it keeps in the tab's session storage (checkout-draft.ts).  The effects *)
(* of React that a change sets off run before the customer's next action   *)
(* and belong to the action; the answers of requests arrive when they      *)
(* arrive.  The order itself is Checkout's: here it is created or refused. *)
(***************************************************************************)
EXTENDS Integers, FiniteSets

CONSTANTS
    Tokens,          \* cart tokens
    Addresses,       \* addresses the account may have saved
    Nothing,         \* no token, address, draft, request, instruction
    Configurations,  \* what the API may offer: [mpCard, mpLink, stripe]
    MaxPresses,      \* bound: orders asked for
    Tried            \* bound: the methods and deliveries the customer presses

PageAssumption ==
    /\ MaxPresses \in Nat /\ Nothing \notin Tokens \cup Addresses
    /\ Configurations \subseteq [mpCard : BOOLEAN, mpLink : BOOLEAN, stripe : BOOLEAN]

VARIABLES
    offer,      \* the configuration of the API
    saved,      \* the addresses the account has at the server
    signedIn,   \* auth.status is 'authenticated'
    cart,       \* the token of the cart provider, Nothing without a cart
    draft,      \* session storage: [Tokens -> step and selection or Nothing]
    url,        \* the step in the address bar
    page,       \* the state of the page; ready is FALSE until it shows
    asked,      \* the selection of the request POST /orders under way, or Nothing
    served,     \* what the server did with it: Nothing, "CREATED" or "REFUSED"
    ordered,    \* the carts that have an order
    presses,    \* how many orders were asked for
    fetching,   \* the payment methods whose instructions are under way
    strayed     \* the delivery shown is not the one the customer pressed last

orderVars == <<asked, served, ordered, presses>>
checkoutVars == <<offer, saved, signedIn, cart, draft, url, page, orderVars, fetching, strayed>>

StepNames == {"review", "delivery", "payment"}
Deliveries == {"SHIPPING", "LOCAL_DELIVERY", "STORE_PICKUP"}
Pays == {"CARD", "PAYMENT_LINK", "BANK_TRANSFER", "CASH"}
\* The typed address counts only as complete or not (full).
Selections == [delivery : Deliveries, pay : Pays, provider : {"MERCADO_PAGO", "STRIPE"},
               addressId : Addresses \cup {Nothing}, newAddress : BOOLEAN, full : BOOLEAN]

firstSelection == [delivery |-> "SHIPPING", pay |-> "CARD", provider |-> "MERCADO_PAGO",
                   addressId |-> Nothing, newAddress |-> FALSE, full |-> FALSE]
\* A page that has just been mounted: nothing was restored or loaded.
mounted == [ready |-> FALSE, step |-> "review", sel |-> firstSelection,
            addresses |-> {}, config |-> Nothing, instruction |-> Nothing, failed |-> FALSE]

CheckoutInit ==
    /\ offer \in Configurations
    /\ saved \in SUBSET Addresses
    /\ signedIn = FALSE
    /\ cart \in Tokens
    /\ draft = [t \in Tokens |-> Nothing]
    /\ url = Nothing
    /\ page = mounted
    /\ asked = Nothing /\ served = Nothing /\ presses = 0
    /\ ordered = {}
    /\ fetching = {}
    /\ strayed = FALSE

\* The save effect: a page that is ready writes what it shows to the draft.
savesDraft(before, after) == after.ready
Show(after) ==
    /\ page' = after
    /\ draft' = IF savesDraft(page, after)
                THEN [draft EXCEPT ![cart] = [step |-> after.step, sel |-> after.sel]]
                ELSE draft

Choose(sel) == Show([page EXCEPT !.sel = sel])
-----------------------------------------------------------------------------
(* Loading.                                                                *)

\* The draft of the cart is restored; the step of the address bar wins.
restored(d) == d.sel
Restore ==
    /\ ~page.ready /\ cart # Nothing
    /\ LET d == draft[cart]
           step == IF url # Nothing THEN url ELSE IF d # Nothing THEN d.step ELSE "review"
           sel == IF d # Nothing THEN restored(d) ELSE page.sel
       IN /\ Show([page EXCEPT !.ready = TRUE, !.step = step, !.sel = sel])
          /\ strayed' = FALSE
          /\ fetching' = IF sel.pay \in {"BANK_TRANSFER", "CASH"}
                         THEN fetching \cup {sel.pay} ELSE fetching
    /\ UNCHANGED <<offer, saved, signedIn, cart, url, orderVars>>

\* The addresses of the account answer, at first and whenever auth changes.
AddressesArrive ==
    /\ signedIn
    /\ LET sel == page.sel
           after == [page EXCEPT !.addresses = saved]
       IN IF saved = {} THEN Show([after EXCEPT !.sel.newAddress = TRUE])
          ELSE \E preferred \in saved :
                 Show([after EXCEPT !.sel.addressId =
                         IF sel.addressId = Nothing THEN preferred ELSE sel.addressId])
    /\ UNCHANGED <<offer, saved, signedIn, cart, url, orderVars, fetching, strayed>>

ConfigurationArrives ==
    /\ page.config = Nothing
    /\ Show([page EXCEPT !.config = offer,
               !.sel.provider = IF ~offer.mpCard /\ offer.stripe THEN "STRIPE" ELSE @])
    /\ UNCHANGED <<offer, saved, signedIn, cart, url, orderVars, fetching, strayed>>

\* An instruction answers (or fails: Nothing), for whichever method asked for it.
InstructionArrives(p) ==
    /\ p \in fetching /\ fetching' = fetching \ {p}
    /\ \E i \in {p, Nothing} : page' = [page EXCEPT !.instruction = i]
    /\ UNCHANGED <<offer, saved, signedIn, cart, draft, url, orderVars, strayed>>
-----------------------------------------------------------------------------
(* The customer on the page.                                               *)

goToStep(step) ==
    /\ url' = step /\ Show([page EXCEPT !.step = step])
    /\ UNCHANGED <<offer, saved, signedIn, cart, orderVars, fetching, strayed>>

continueFromReview == page.ready /\ page.step = "review" /\ signedIn /\ goToStep("delivery")

deliveryIssue(s) ==
    /\ s.delivery # "STORE_PICKUP"
    /\ IF s.newAddress THEN ~s.full ELSE s.addressId = Nothing

continueFromDelivery ==
    /\ page.ready /\ page.step = "delivery" /\ ~deliveryIssue(page.sel)
    /\ goToStep("payment")

\* goBack and the steps that are done.
GoBack ==
    /\ page.ready
    /\ \/ page.step = "payment" /\ goToStep("delivery")
       \/ page.step \in {"payment", "delivery"} /\ goToStep("review")

\* The browser's own buttons and its address bar reach any step.
handlePopState(u) ==
    /\ page.ready
    /\ url' = u /\ Show([page EXCEPT !.step = IF u = Nothing THEN "review" ELSE u])
    /\ UNCHANGED <<offer, saved, signedIn, cart, orderVars, fetching, strayed>>

choosing(step) == page.ready /\ page.step = step /\ asked = Nothing
unchosen == <<offer, saved, signedIn, cart, url, orderVars>>

\* The effect of a payment method: cash is paid at the store, and the
\* instructions of transfer and cash are fetched.
effectOfPay_NoPickup(s) == s
effectOfPay(s) == IF s.pay = "CASH" THEN [s EXCEPT !.delivery = "STORE_PICKUP"] ELSE s
Pay(s) ==
    IF s.pay \in {"BANK_TRANSFER", "CASH"}
    THEN Choose(effectOfPay(s)) /\ fetching' = fetching \cup {s.pay}
    ELSE Show([page EXCEPT !.sel = s, !.instruction = Nothing]) /\ UNCHANGED fetching

chooseDelivery(d) ==
    /\ choosing("delivery")
    /\ LET s == [page.sel EXCEPT !.delivery = d]
       IN IF d # "STORE_PICKUP" /\ s.pay = "CASH" THEN Pay([s EXCEPT !.pay = "CARD"])
          ELSE Choose(s) /\ UNCHANGED fetching
    /\ strayed' = FALSE
    /\ UNCHANGED unchosen

PickAddress(a) ==
    /\ choosing("delivery") /\ page.sel.delivery # "STORE_PICKUP" /\ a \in page.addresses
    /\ Choose([page.sel EXCEPT !.addressId = a, !.newAddress = FALSE])
    /\ UNCHANGED <<unchosen, fetching, strayed>>

NewAddress ==
    /\ choosing("delivery") /\ page.sel.delivery # "STORE_PICKUP"
    /\ Choose([page.sel EXCEPT !.addressId = Nothing, !.newAddress = TRUE])
    /\ UNCHANGED <<unchosen, fetching, strayed>>

InlineAddressFields(full) ==
    /\ choosing("delivery") /\ page.sel.delivery # "STORE_PICKUP" /\ page.sel.newAddress
    /\ Choose([page.sel EXCEPT !.full = full])
    /\ UNCHANGED <<unchosen, fetching, strayed>>

choosePayment(p) ==
    /\ choosing("payment") /\ p # page.sel.pay
    /\ p = "PAYMENT_LINK" => page.config # Nothing /\ page.config.mpLink
    /\ Pay([page.sel EXCEPT !.pay = p])
    /\ strayed' = (strayed \/ (p = "CASH" /\ page.sel.delivery # "STORE_PICKUP"))
    /\ UNCHANGED unchosen

chooseProvider(q) ==
    /\ choosing("payment") /\ page.sel.pay = "CARD" /\ page.config # Nothing
    /\ IF q = "STRIPE" THEN page.config.stripe ELSE page.config.mpCard
    /\ Choose([page.sel EXCEPT !.provider = q])
    /\ UNCHANGED <<unchosen, fetching, strayed>>
-----------------------------------------------------------------------------
(* Placing the order.                                                      *)

gatewayAvailable(s) ==
    CASE s.pay = "CARD" ->
           page.config # Nothing /\ (IF s.provider = "STRIPE" THEN page.config.stripe
                                                               ELSE page.config.mpCard)
      [] s.pay = "PAYMENT_LINK" -> page.config # Nothing /\ page.config.mpLink
      [] OTHER -> TRUE

canCheckout == signedIn /\ gatewayAvailable(page.sel)

\* Every press asks with a new idempotency key.
placeOrder ==
    /\ choosing("payment") /\ canCheckout
    /\ IF deliveryIssue(page.sel)
       THEN goToStep("delivery")
       ELSE /\ presses < MaxPresses /\ presses' = presses + 1
            /\ asked' = page.sel /\ served' = Nothing
            /\ page' = [page EXCEPT !.failed = FALSE]
            /\ UNCHANGED <<offer, saved, signedIn, cart, draft, url, ordered, fetching, strayed>>

\* POST /orders: a cart has one order, and the address is the account's.
OrdersCreate ==
    /\ asked # Nothing /\ served = Nothing
    /\ LET known == asked.delivery = "STORE_PICKUP" \/ asked.newAddress \/ asked.addressId \in saved
           accepted == cart \notin ordered /\ known
       IN \/ accepted /\ served' = "CREATED" /\ ordered' = ordered \cup {cart}
          \/ served' = "REFUSED" /\ UNCHANGED ordered  \* also: no stock, a bad code
    /\ UNCHANGED <<offer, saved, signedIn, cart, draft, url, page, asked, presses, fetching, strayed>>

\* The order arrives: the draft is cleared, the cart dropped, the page left.
OrderArrives ==
    /\ served = "CREATED"
    /\ draft' = [draft EXCEPT ![cart] = Nothing]
    /\ cart' = Nothing /\ page' = mounted /\ url' = Nothing /\ fetching' = {}
    /\ asked' = Nothing /\ served' = Nothing
    /\ UNCHANGED <<offer, saved, signedIn, ordered, presses, strayed>>

\* The request is refused, or its answer is lost on the way.
OrderFails ==
    /\ asked # Nothing
    /\ page' = [page EXCEPT !.failed = TRUE]
    /\ asked' = Nothing /\ served' = Nothing
    /\ UNCHANGED <<offer, saved, signedIn, cart, draft, url, ordered, presses, fetching, strayed>>
-----------------------------------------------------------------------------
(* Around the page.                                                        *)

\* The page is loaded again or left and opened again: the tab's storage and
\* the address stay, a cart that was ordered is not found again.
Remount ==
    /\ page.ready /\ asked = Nothing
    /\ page' = mounted /\ fetching' = {}
    /\ cart' = IF cart \in ordered THEN Nothing ELSE cart
    /\ UNCHANGED <<offer, saved, signedIn, draft, url, orderVars, strayed>>

\* continueFromReview sends a guest to /cuenta, which comes back to
\* /carrito?step=delivery; the claim may have changed the cart.
SignIn ==
    /\ ~signedIn /\ signedIn' = TRUE
    /\ url' = "delivery" /\ page' = mounted /\ fetching' = {}
    /\ cart' \in {cart} \cup (Tokens \ ordered)
    /\ UNCHANGED <<offer, saved, draft, orderVars, strayed>>

\* The session ends under the page.
SessionEnds ==
    /\ signedIn /\ asked = Nothing /\ signedIn' = FALSE
    /\ UNCHANGED <<offer, saved, cart, draft, url, page, orderVars, fetching, strayed>>

\* A cart is begun elsewhere in the store.
NewCart(t) ==
    /\ cart = Nothing /\ t \notin ordered /\ cart' = t
    /\ UNCHANGED <<offer, saved, signedIn, draft, url, page, orderVars, fetching, strayed>>

\* The account deletes an address on another page.
DeleteAddress(a) ==
    /\ signedIn /\ a \in saved /\ saved' = saved \ {a}
    /\ UNCHANGED <<offer, signedIn, cart, draft, url, page, orderVars, fetching, strayed>>

CheckoutNext ==
    \/ Restore \/ AddressesArrive \/ ConfigurationArrives
    \/ \E p \in Pays : InstructionArrives(p)
    \/ \E p \in Pays \cap Tried : choosePayment(p)
    \/ continueFromReview \/ continueFromDelivery \/ GoBack
    \/ \E u \in StepNames \cup {Nothing} : handlePopState(u)
    \/ \E d \in Deliveries \cap Tried : chooseDelivery(d)
    \/ \E a \in Addresses : PickAddress(a) \/ DeleteAddress(a)
    \/ NewAddress \/ \E full \in BOOLEAN : InlineAddressFields(full)
    \/ \E q \in {"MERCADO_PAGO", "STRIPE"} : chooseProvider(q)
    \/ placeOrder \/ OrdersCreate \/ OrderArrives \/ OrderFails
    \/ Remount \/ SignIn \/ SessionEnds \/ \E t \in Tokens : NewCart(t)

CheckoutSpec == CheckoutInit /\ [][CheckoutNext]_checkoutVars
-----------------------------------------------------------------------------
(* Properties.                                                             *)

\* A page that is ready belongs to a cart and the draft of the cart says what
\* the page shows (save effect); an order is asked for from a page that shows.
CheckoutTypesOK ==
    /\ page.sel \in Selections /\ page.step \in StepNames /\ page.addresses \subseteq Addresses
    /\ page.ready => cart # Nothing /\ draft[cart] = [step |-> page.step, sel |-> page.sel]
    /\ asked # Nothing => page.ready

\* Whatever way the customer took through the steps, the back button, the
\* address bar and a reload, an order that is asked for says completely where
\* to deliver, pays in cash only at the store and through a gateway the API
\* offers (deliveryIssue, canCheckout, the effect of paymentMethod).
PlacedIsComplete ==
    asked # Nothing =>
        /\ ~(asked.delivery # "STORE_PICKUP" /\ asked.newAddress /\ ~asked.full)
        /\ asked.delivery # "STORE_PICKUP" /\ ~asked.newAddress => asked.addressId # Nothing
        /\ asked.pay = "CASH" => asked.delivery = "STORE_PICKUP"
        /\ asked.pay = "PAYMENT_LINK" => offer.mpLink
        /\ asked.pay = "CARD" => IF asked.provider = "STRIPE" THEN offer.stripe ELSE offer.mpCard

\* A page that is shown again for its cart shows the selection it had when it
\* was last seen, except for the address and the gateway that what loaded
\* before may have set (loadCheckoutDraft, the effect of the cart's token).
ReloadKeepsSelection ==
    ~page.ready /\ page'.ready /\ draft[cart] # Nothing => page'.sel = draft[cart].sel

\* 'Tu selección se conserva al avanzar o regresar.': the delivery of an order
\* is the one the customer pressed last, or that of a payment in cash.
SelectionIsKept ==
    asked # Nothing /\ asked.pay # "CASH" => ~strayed

\* 'No pudimos crear el pedido' is true: the cart shown has no order.
FailedMeansNone == page.failed => cart \notin ordered

\* 'Selecciona una dirección guardada o captura una nueva.': an order is asked
\* for with an address of the list the page shows, when it shows one, or a new one.
PlacedAddressIsListed ==
    [][asked' # asked /\ asked' # Nothing /\ page.addresses # {} /\ asked'.delivery # "STORE_PICKUP" /\ ~asked'.newAddress
         => asked'.addressId \in page.addresses]_checkoutVars

\* The instructions shown under the chosen method are that method's.
InstructionIsOfMethod ==
    page.ready /\ page.instruction # Nothing => page.instruction = page.sel.pay
=============================================================================

------------------------- MODULE CustomerPageProofs -------------------------
(***************************************************************************)
(* What holds of the pages of the customer, each with the handlers of the  *)
(* API that serve it, for every instance: of the checkout (/carrito), of   *)
(* the payment of an order and of its tracking, and of the addresses and   *)
(* the favourites of an account, a part for each; no part uses another.    *)
(***************************************************************************)
EXTENDS CheckoutPage, SequenceTheorems, FiniteSetTheorems, NaturalsInduction,
        WellFoundedInduction, TLAPS

CONSTANTS
    None,
    Pages, Fees, Quotes, Answers,             \* the payment page
    Tabs, Desks, Files, Shown, Loads, Faults, \* the tracking page
    Requests, Ids, Flags,                     \* the addresses
    Cards, Details, Lists, Presses, Withdrawals  \* the favourites
VARIABLES
    order, provider, intent, charged, applied, paying, held, quotes,
    placed, proofs, bucket, tab, desk, faults,
    isDefault, newest, found, transaction, overtaken, crossed,
    favourite, active, heart, list, calls, spent

Payment == INSTANCE PaymentPage WITH page <- paying
Tracking == INSTANCE OrderTracking WITH order <- placed
Book == INSTANCE AddressBook
Wish == INSTANCE Wishlist WITH row <- favourite

\* Tracking counts as this module does.
LEMMA TrackingCounts == ASSUME NEW S PROVE Tracking!Cardinality(S) = Cardinality(S)
BY Zenon DEF Tracking!Cardinality, Cardinality
\* And so do the addresses.
LEMMA BookCounts ==
    ASSUME NEW S
    PROVE  (Book!IsFiniteSet(S) <=> IsFiniteSet(S)) /\ Book!Cardinality(S) = Cardinality(S)
<1>1. Book!IsFiniteSet(S) <=> IsFiniteSet(S)
  BY Zenon DEF Book!IsFiniteSet, IsFiniteSet
<1>2. Book!Cardinality(S) = Cardinality(S)
  BY Zenon DEF Book!Cardinality, Cardinality
<1> QED
  BY <1>1, <1>2
-----------------------------------------------------------------------------
(***************************************************************************)
(* The page /carrito, for every number of carts, addresses and presses,    *)
(* whatever the API offers and in whatever order its answers, the          *)
(* customer's clicks, the browser's buttons and reloads come.              *)
(*                                                                         *)
(* The page asks for an order with the selection it shows, and a selection *)
(* comes from the page or from a draft of it: both pay in cash only at the *)
(* store. The rest is compared when the order is asked for, with an offer  *)
(* that is the API's once it has arrived.                                  *)
(***************************************************************************)

PageRow == [ready : BOOLEAN, step : StepNames, sel : Selections, addresses : SUBSET Addresses,
            config : Configurations \cup {Nothing}, instruction : Pays \cup {Nothing},
            failed : BOOLEAN]
Drafts == [step : StepNames, sel : Selections]

CashAtStore(s) == s.pay = "CASH" => s.delivery = "STORE_PICKUP"

\* What the page may come to show.
Showable(p) == p \in PageRow /\ CashAtStore(p.sel) /\ p.config \in {Nothing, offer}

DraftsSay ==
    /\ DOMAIN draft = Tokens
    /\ \A t \in Tokens : draft[t] # Nothing => draft[t] \in Drafts /\ CashAtStore(draft[t].sel)

\* A page that is ready has saved what it shows.
ShownIsSaved ==
    page.ready => cart # Nothing /\ draft[cart] = [step |-> page.step, sel |-> page.sel]

\* An order is asked for by a customer who is signed in, and whose page stays.
AskedFromPage == asked # Nothing => page.ready /\ signedIn

Around ==
    /\ offer \in Configurations /\ saved \subseteq Addresses
    /\ cart \in Tokens \cup {Nothing} /\ url \in StepNames \cup {Nothing}

PageInv ==
    /\ Around /\ Showable(page) /\ DraftsSay /\ ShownIsSaved
    /\ AskedFromPage /\ PlacedIsComplete

-----------------------------------------------------------------------------
(* Lemmas.                                                                 *)

\* A page that shows something else has saved it.
LEMMA ShowKeeps ==
    ASSUME Around, DraftsSay, ShownIsSaved, NEW after, Showable(after), Show(after),
           after.ready => cart # Nothing, UNCHANGED <<offer, cart>>
    PROVE  Showable(page)' /\ DraftsSay' /\ ShownIsSaved'
<1>1. page' = after /\ offer' = offer /\ cart' = cart
  BY DEF Show
<1>2. Showable(page)'
  BY <1>1 DEF Showable
<1>3. CASE ~after.ready
  BY <1>1, <1>2, <1>3 DEF Show, savesDraft, DraftsSay, ShownIsSaved
<1>4. CASE after.ready
  <2>1. cart \in Tokens
    BY <1>4 DEF Around
  <2> DEFINE d == [step |-> after.step, sel |-> after.sel]
  <2>2. d \in Drafts /\ d.sel = after.sel
    BY DEF Showable, PageRow, Drafts
  <2>3. draft' = [draft EXCEPT ![cart] = d]
    BY <1>4 DEF Show, savesDraft
  <2>4. DraftsSay'
    BY <2>1, <2>2, <2>3 DEF DraftsSay, Showable
  <2>5. ShownIsSaved'
    BY <1>1, <2>1, <2>3 DEF ShownIsSaved, DraftsSay
  <2> QED
    BY <1>2, <2>4, <2>5
<1> QED
  BY <1>3, <1>4

\* The order that was asked for does not change.
LEMMA AskedStays ==
    ASSUME PageInv, asked' = asked, offer' = offer, signedIn' = signedIn,
           page'.ready = page.ready
    PROVE  AskedFromPage' /\ PlacedIsComplete'
BY DEF PageInv, AskedFromPage, PlacedIsComplete

\* The customer chooses something, or something that was loaded does.
LEMMA ShowStep ==
    ASSUME PageInv, NEW after, Showable(after), Show(after), after.ready = page.ready,
           Around', UNCHANGED <<offer, cart, asked, signedIn>>
    PROVE  PageInv'
<1>1. page' = after
  BY DEF Show
<1>2. Showable(page)' /\ DraftsSay' /\ ShownIsSaved'
  BY ShowKeeps DEF PageInv, ShownIsSaved
<1>3. AskedFromPage' /\ PlacedIsComplete'
  BY <1>1, AskedStays
<1> QED
  BY <1>2, <1>3 DEF PageInv

\* Only the selection changes.
LEMMA ChooseStep ==
    ASSUME PageInv, NEW s \in Selections, CashAtStore(s), Choose(s),
           UNCHANGED <<offer, saved, signedIn, cart, url, asked>>
    PROVE  PageInv'
<1> DEFINE after == [page EXCEPT !.sel = s]
<1>1. after \in PageRow /\ after.sel = s /\ after.config = page.config /\ after.ready = page.ready
  BY DEF PageInv, Showable, PageRow
<1>2. Showable(after) /\ Show(after)
  BY <1>1 DEF Choose, PageInv, Showable
<1>3. Around'
  BY DEF PageInv, Around
<1> HIDE DEF after
<1> QED
  BY <1>1, <1>2, <1>3, ShowStep

LEMMA GoToStep ==
    ASSUME PageInv, NEW step \in StepNames, NEW u \in StepNames \cup {Nothing}, url' = u,
           Show([page EXCEPT !.step = step]), UNCHANGED <<offer, saved, signedIn, cart, asked>>
    PROVE  PageInv'
<1> DEFINE after == [page EXCEPT !.step = step]
<1>1. after \in PageRow /\ after.sel = page.sel /\ after.config = page.config
      /\ after.ready = page.ready
  BY DEF PageInv, Showable, PageRow
<1>2. Showable(after)
  BY <1>1 DEF PageInv, Showable
<1>3. Around'
  BY DEF PageInv, Around
<1> HIDE DEF after
<1>4. Show(after)
  BY DEF after
<1> QED
  BY <1>1, <1>2, <1>3, <1>4, ShowStep
-----------------------------------------------------------------------------
(* Loading.                                                                *)

LEMMA RestoreStep == ASSUME PageInv, Restore PROVE PageInv' /\ ReloadKeepsSelection
<1>1. /\ ~page.ready /\ cart # Nothing /\ cart \in Tokens
      /\ UNCHANGED <<offer, saved, signedIn, cart, url, asked>>
  BY DEF Restore, orderVars, PageInv, Around
<1>2. PICK step, sel :
        /\ step = IF url # Nothing THEN url
                  ELSE IF draft[cart] # Nothing THEN draft[cart].step ELSE "review"
        /\ sel = IF draft[cart] # Nothing THEN restored(draft[cart]) ELSE page.sel
        /\ Show([page EXCEPT !.ready = TRUE, !.step = step, !.sel = sel])
  BY DEF Restore
<1>3. step \in StepNames /\ sel \in Selections /\ CashAtStore(sel)
  BY <1>1, <1>2 DEF PageInv, Around, DraftsSay, Drafts, Showable, PageRow, StepNames, restored
<1>4. PICK after : after = [page EXCEPT !.ready = TRUE, !.step = step, !.sel = sel]
  OBVIOUS
<1>5. after \in PageRow /\ after.sel = sel /\ after.config = page.config
  BY <1>3, <1>4 DEF PageInv, Showable, PageRow
<1>6. Showable(after) /\ Show(after)
  BY <1>2, <1>3, <1>4, <1>5 DEF PageInv, Showable
<1>7. Showable(page)' /\ DraftsSay' /\ ShownIsSaved'
  BY <1>1, <1>6, ShowKeeps DEF PageInv
<1>8. asked = Nothing
  BY <1>1 DEF PageInv, AskedFromPage
<1>9. AskedFromPage' /\ PlacedIsComplete' /\ Around'
  BY <1>1, <1>8 DEF PageInv, Around, AskedFromPage, PlacedIsComplete
<1>10. ReloadKeepsSelection
  BY <1>2, <1>5, <1>6 DEF Show, ReloadKeepsSelection, restored
<1> QED
  BY <1>7, <1>9, <1>10 DEF PageInv

LEMMA AddressesArriveStep == ASSUME PageInv, AddressesArrive PROVE PageInv'
<1>1. UNCHANGED <<offer, saved, signedIn, cart, url, asked>>
  BY DEF AddressesArrive, orderVars
<1>2. Around' /\ saved \subseteq Addresses /\ page \in PageRow /\ page.sel \in Selections
  BY <1>1 DEF PageInv, Around, Showable, PageRow
<1>3. PICK after :
        /\ Show(after)
        /\ \/ after = [[page EXCEPT !.addresses = saved] EXCEPT !.sel.newAddress = TRUE]
           \/ \E preferred \in saved :
                after = [[page EXCEPT !.addresses = saved] EXCEPT !.sel.addressId =
                           IF page.sel.addressId = Nothing THEN preferred ELSE page.sel.addressId]
  BY DEF AddressesArrive
<1>4. \E s \in Selections : /\ after = [page EXCEPT !.addresses = saved, !.sel = s]
                            /\ s.pay = page.sel.pay /\ s.delivery = page.sel.delivery
  <2>1. CASE after = [[page EXCEPT !.addresses = saved] EXCEPT !.sel.newAddress = TRUE]
    <3> DEFINE s == [page.sel EXCEPT !.newAddress = TRUE]
    <3>1. s \in Selections /\ s.pay = page.sel.pay /\ s.delivery = page.sel.delivery
      BY <1>2 DEF Selections
    <3>2. after = [page EXCEPT !.addresses = saved, !.sel = s]
      BY <1>2, <2>1 DEF PageRow
    <3> QED
      BY <3>1, <3>2
  <2>2. CASE \E preferred \in saved :
               after = [[page EXCEPT !.addresses = saved] EXCEPT !.sel.addressId =
                          IF page.sel.addressId = Nothing THEN preferred ELSE page.sel.addressId]
    <3>1. PICK a \in Addresses \cup {Nothing} :
             after = [[page EXCEPT !.addresses = saved] EXCEPT !.sel.addressId = a]
      BY <1>2, <2>2 DEF Selections
    <3> DEFINE s == [page.sel EXCEPT !.addressId = a]
    <3>2. s \in Selections /\ s.pay = page.sel.pay /\ s.delivery = page.sel.delivery
      BY <1>2 DEF Selections
    <3>3. after = [page EXCEPT !.addresses = saved, !.sel = s]
      BY <1>2, <3>1 DEF PageRow
    <3> QED
      BY <3>2, <3>3
  <2> QED
    BY <1>3, <2>1, <2>2
<1>5. /\ after \in PageRow /\ after.ready = page.ready /\ after.config = page.config
      /\ CashAtStore(after.sel)
  BY <1>2, <1>4 DEF PageInv, Showable, CashAtStore, PageRow
<1>6. Showable(after)
  BY <1>5 DEF PageInv, Showable
<1> QED
  BY <1>1, <1>2, <1>3, <1>5, <1>6, ShowStep

LEMMA ConfigurationArrivesStep == ASSUME PageInv, ConfigurationArrives PROVE PageInv'
<1>1. UNCHANGED <<offer, saved, signedIn, cart, url, asked>>
  BY DEF ConfigurationArrives, orderVars
<1>2. Around' /\ offer \in Configurations /\ page \in PageRow /\ page.sel \in Selections
  BY <1>1 DEF PageInv, Around, Showable, PageRow
<1>3. PICK q : /\ q \in {"STRIPE", page.sel.provider}
               /\ Show([page EXCEPT !.config = offer, !.sel.provider = q])
  BY DEF ConfigurationArrives
<1>4. PICK after : after = [page EXCEPT !.config = offer, !.sel.provider = q]
  OBVIOUS
<1>5. after.sel = [page.sel EXCEPT !.provider = q]
  BY <1>2, <1>4 DEF PageRow
<1>6. after.sel \in Selections /\ after.sel.pay = page.sel.pay
      /\ after.sel.delivery = page.sel.delivery
  BY <1>2, <1>3, <1>5 DEF Selections
<1>7. after \in PageRow /\ after.ready = page.ready /\ after.config = offer
  BY <1>2, <1>4, <1>5, <1>6 DEF PageRow
<1>8. Showable(after)
  BY <1>6, <1>7 DEF PageInv, Showable, CashAtStore
<1> QED
  BY <1>1, <1>2, <1>3, <1>4, <1>7, <1>8, ShowStep

LEMMA InstructionArrivesStep ==
    ASSUME PageInv, NEW p \in Pays, InstructionArrives(p) PROVE PageInv'
<1>1. PICK i \in {p, Nothing} : page' = [page EXCEPT !.instruction = i]
  BY DEF InstructionArrives
<1>2. UNCHANGED <<offer, saved, signedIn, cart, draft, url, asked>>
  BY DEF InstructionArrives, orderVars
<1>3. /\ page' \in PageRow /\ page'.sel = page.sel /\ page'.config = page.config
      /\ page'.ready = page.ready /\ page'.step = page.step
  BY <1>1 DEF PageInv, Showable, PageRow
<1>4. Showable(page)' /\ ShownIsSaved' /\ DraftsSay' /\ Around'
  BY <1>2, <1>3 DEF PageInv, Showable, ShownIsSaved, DraftsSay, Around
<1>5. AskedFromPage' /\ PlacedIsComplete'
  BY <1>2, <1>3, AskedStays
<1> QED
  BY <1>4, <1>5 DEF PageInv
-----------------------------------------------------------------------------
(* The customer on the page.                                               *)

LEMMA StepsStep ==
    ASSUME PageInv,
           \/ continueFromReview \/ continueFromDelivery \/ GoBack
           \/ \E u \in StepNames \cup {Nothing} : handlePopState(u)
    PROVE  PageInv'
<1>1. CASE \E step \in StepNames : goToStep(step)
  BY <1>1, GoToStep DEF goToStep, orderVars
<1>2. ASSUME NEW u \in StepNames \cup {Nothing}, handlePopState(u) PROVE PageInv'
  <2>1. PICK step \in StepNames : step = IF u = Nothing THEN "review" ELSE u
    BY DEF StepNames
  <2>2. Show([page EXCEPT !.step = step]) /\ url' = u
    BY <1>2, <2>1 DEF handlePopState
  <2>3. UNCHANGED <<offer, saved, signedIn, cart, asked>>
    BY <1>2 DEF handlePopState, orderVars
  <2> QED
    BY <2>2, <2>3, GoToStep
<1>3. continueFromReview \/ continueFromDelivery \/ GoBack
      => \E step \in StepNames : goToStep(step)
  BY DEF continueFromReview, continueFromDelivery, GoBack, StepNames
<1> QED
  BY <1>1, <1>2, <1>3

\* A method of payment: what it shows has the delivery that cash asks for.
LEMMA PayStep ==
    ASSUME PageInv, NEW s \in Selections, Pay(s),
           UNCHANGED <<offer, saved, signedIn, cart, url, asked>>
    PROVE  PageInv'
<1>1. CASE s.pay \in {"BANK_TRANSFER", "CASH"}
  <2>1. effectOfPay(s) \in Selections /\ CashAtStore(effectOfPay(s))
    BY <1>1 DEF effectOfPay, CashAtStore, Selections, Deliveries
  <2>2. Choose(effectOfPay(s))
    BY <1>1 DEF Pay
  <2> QED
    BY <2>1, <2>2, ChooseStep
<1>2. CASE s.pay \notin {"BANK_TRANSFER", "CASH"}
  <2>1. PICK after : after = [page EXCEPT !.sel = s, !.instruction = Nothing]
    OBVIOUS
  <2>2. /\ after \in PageRow /\ after.sel = s /\ after.config = page.config
        /\ after.ready = page.ready
    BY <2>1 DEF PageInv, Showable, PageRow
  <2>3. Showable(after) /\ Show(after)
    BY <1>2, <2>1, <2>2 DEF PageInv, Showable, CashAtStore, Pay
  <2>4. Around'
    BY DEF PageInv, Around
  <2> QED
    BY <2>2, <2>3, <2>4, ShowStep
<1> QED
  BY <1>1, <1>2

LEMMA ChoicesStep ==
    ASSUME PageInv,
           \/ \E p \in Pays : choosePayment(p)
           \/ \E d \in Deliveries : chooseDelivery(d)
           \/ \E q \in {"MERCADO_PAGO", "STRIPE"} : chooseProvider(q)
           \/ \E a \in Addresses : PickAddress(a)
           \/ NewAddress \/ \E full \in BOOLEAN : InlineAddressFields(full)
    PROVE  PageInv'
<1>1. page.sel \in Selections /\ CashAtStore(page.sel) /\ page.addresses \subseteq Addresses
  BY DEF PageInv, Showable, PageRow
<1>2. UNCHANGED <<offer, saved, signedIn, cart, url, asked>>
  BY DEF choosePayment, chooseDelivery, chooseProvider, PickAddress, NewAddress,
         InlineAddressFields, unchosen, orderVars
<1>3. ASSUME NEW p \in Pays, choosePayment(p) PROVE PageInv'
  <2>1. [page.sel EXCEPT !.pay = p] \in Selections
    BY <1>1 DEF Selections
  <2> QED
    BY <1>2, <1>3, <2>1, PayStep DEF choosePayment
<1>4. ASSUME NEW d \in Deliveries, chooseDelivery(d) PROVE PageInv'
  <2>1. PICK s : s = [page.sel EXCEPT !.delivery = d]
    OBVIOUS
  <2>2. s \in Selections /\ s.pay = page.sel.pay /\ s.delivery = d
    BY <1>1, <2>1 DEF Selections
  <2>3. CASE d # "STORE_PICKUP" /\ s.pay = "CASH"
    <3>1. [s EXCEPT !.pay = "CARD"] \in Selections
      BY <2>2 DEF Selections, Pays
    <3>2. Pay([s EXCEPT !.pay = "CARD"])
      BY <1>4, <2>1, <2>3 DEF chooseDelivery
    <3> QED
      BY <1>2, <3>1, <3>2, PayStep
  <2>4. CASE ~(d # "STORE_PICKUP" /\ s.pay = "CASH")
    <3>1. Choose(s) /\ CashAtStore(s)
      BY <1>4, <2>1, <2>2, <2>4 DEF chooseDelivery, CashAtStore
    <3> QED
      BY <1>2, <2>2, <3>1, ChooseStep
  <2> QED
    BY <2>3, <2>4
<1>5. ASSUME NEW q \in {"MERCADO_PAGO", "STRIPE"}, chooseProvider(q) PROVE PageInv'
  <2>1. /\ [page.sel EXCEPT !.provider = q] \in Selections
        /\ CashAtStore([page.sel EXCEPT !.provider = q])
    BY <1>1 DEF Selections, CashAtStore
  <2> QED
    BY <1>2, <1>5, <2>1, ChooseStep DEF chooseProvider
<1>6. ASSUME NEW a \in Addresses, PickAddress(a) PROVE PageInv'
  <2>1. /\ [page.sel EXCEPT !.addressId = a, !.newAddress = FALSE] \in Selections
        /\ CashAtStore([page.sel EXCEPT !.addressId = a, !.newAddress = FALSE])
    BY <1>1 DEF Selections, CashAtStore
  <2> QED
    BY <1>2, <1>6, <2>1, ChooseStep DEF PickAddress
<1>7. CASE NewAddress
  <2>1. /\ [page.sel EXCEPT !.addressId = Nothing, !.newAddress = TRUE] \in Selections
        /\ CashAtStore([page.sel EXCEPT !.addressId = Nothing, !.newAddress = TRUE])
    BY <1>1 DEF Selections, CashAtStore
  <2> QED
    BY <1>2, <1>7, <2>1, ChooseStep DEF NewAddress
<1>8. ASSUME NEW full \in BOOLEAN, InlineAddressFields(full) PROVE PageInv'
  <2>1. /\ [page.sel EXCEPT !.full = full] \in Selections
        /\ CashAtStore([page.sel EXCEPT !.full = full])
    BY <1>1 DEF Selections, CashAtStore
  <2> QED
    BY <1>2, <1>8, <2>1, ChooseStep DEF InlineAddressFields
<1> QED
  BY <1>3, <1>4, <1>5, <1>6, <1>7, <1>8
-----------------------------------------------------------------------------
(* Placing the order.                                                      *)

\* Whoever asks is signed in; what is asked for is what the page shows, whose
\* address and gateway were just looked at.
LEMMA PlaceStep == ASSUME PageInv, placeOrder PROVE PageInv'
<1>1. page.ready /\ signedIn /\ page.sel \in Selections /\ CashAtStore(page.sel)
  BY DEF placeOrder, choosing, canCheckout, PageInv, Showable, PageRow
<1>2. CASE deliveryIssue(page.sel)
  BY <1>2, StepsStep, GoToStep DEF placeOrder, goToStep, orderVars, StepNames
<1>3. CASE ~deliveryIssue(page.sel)
  <2>1. /\ asked' = page.sel /\ page' = [page EXCEPT !.failed = FALSE]
        /\ UNCHANGED <<offer, saved, signedIn, cart, draft, url>>
    BY <1>3 DEF placeOrder
  <2>2. /\ page' \in PageRow /\ page'.sel = page.sel /\ page'.config = page.config
        /\ page'.ready = page.ready /\ page'.step = page.step
    BY <2>1 DEF PageInv, Showable, PageRow
  <2>3. Showable(page)' /\ ShownIsSaved' /\ DraftsSay' /\ Around'
    BY <2>1, <2>2 DEF PageInv, Showable, ShownIsSaved, DraftsSay, Around
  <2>4. AskedFromPage'
    BY <1>1, <2>1, <2>2 DEF AskedFromPage
  <2>5. PlacedIsComplete'
    <3>1. gatewayAvailable(page.sel) /\ page.config \in {Nothing, offer}
      BY DEF placeOrder, canCheckout, PageInv, Showable
    <3>2. /\ page.sel.pay = "PAYMENT_LINK" => offer.mpLink
          /\ page.sel.pay = "CARD" => IF page.sel.provider = "STRIPE" THEN offer.stripe
                                                                      ELSE offer.mpCard
      BY <3>1 DEF gatewayAvailable
    <3> QED
      BY <1>1, <1>3, <2>1, <3>2 DEF PlacedIsComplete, deliveryIssue, CashAtStore
  <2> QED
    BY <2>3, <2>4, <2>5 DEF PageInv
<1> QED
  BY <1>2, <1>3

LEMMA MountedShowable == ASSUME PageInv PROVE mounted \in PageRow /\ Showable(mounted)
BY DEF mounted, firstSelection, PageInv, Showable, PageRow, CashAtStore, Selections,
       Deliveries, Pays, StepNames

LEMMA AnswersStep == ASSUME PageInv, OrdersCreate \/ OrderArrives \/ OrderFails PROVE PageInv'
<1>1. CASE OrdersCreate
  BY <1>1, AskedStays DEF OrdersCreate, PageInv, Around, Showable, DraftsSay, ShownIsSaved
<1>2. CASE OrderArrives
  <2>1. asked' = Nothing /\ cart' = Nothing /\ page' = mounted /\ url' = Nothing
    BY <1>2 DEF OrderArrives
  <2>2. Showable(page)' /\ ~page'.ready /\ Around'
    BY <1>2, <2>1, MountedShowable DEF OrderArrives, Showable, mounted, PageInv, Around
  <2>3. DraftsSay'
    BY <1>2 DEF OrderArrives, PageInv, DraftsSay
  <2> QED
    BY <2>1, <2>2, <2>3 DEF PageInv, ShownIsSaved, AskedFromPage, PlacedIsComplete
<1>3. CASE OrderFails
  <2>1. /\ page' = [page EXCEPT !.failed = TRUE] /\ asked' = Nothing
        /\ UNCHANGED <<offer, saved, signedIn, cart, draft, url>>
    BY <1>3 DEF OrderFails
  <2>2. /\ page' \in PageRow /\ page'.sel = page.sel /\ page'.config = page.config
        /\ page'.ready = page.ready /\ page'.step = page.step
    BY <2>1 DEF PageInv, Showable, PageRow
  <2> QED
    BY <2>1, <2>2 DEF PageInv, Showable, ShownIsSaved, DraftsSay, Around, AskedFromPage,
                      PlacedIsComplete
<1> QED
  BY <1>1, <1>2, <1>3
-----------------------------------------------------------------------------
(* Around the page.                                                        *)

LEMMA AroundStep ==
    ASSUME PageInv,
           \/ Remount \/ SignIn \/ SessionEnds \/ \E t \in Tokens : NewCart(t)
           \/ \E a \in Addresses : DeleteAddress(a)
    PROVE  PageInv'
<1>1. CASE Remount \/ SignIn
  <2>1. /\ page' = mounted /\ asked' = asked /\ cart' \in Tokens \cup {Nothing} /\ asked = Nothing
        /\ url' \in StepNames \cup {Nothing} /\ UNCHANGED <<offer, saved, draft>>
    BY <1>1 DEF Remount, SignIn, orderVars, PageInv, Around, AskedFromPage, StepNames
  <2>2. Showable(page)' /\ ~page'.ready /\ Around' /\ DraftsSay'
    BY <2>1, MountedShowable DEF Showable, mounted, PageInv, Around, DraftsSay
  <2> QED
    BY <2>1, <2>2 DEF PageInv, ShownIsSaved, AskedFromPage, PlacedIsComplete
<1>2. CASE SessionEnds
  BY <1>2 DEF SessionEnds, orderVars, PageInv, Around, Showable, DraftsSay, ShownIsSaved,
              AskedFromPage, PlacedIsComplete
<1>3. ASSUME NEW t \in Tokens, NewCart(t) PROVE PageInv'
  BY <1>3 DEF NewCart, orderVars, PageInv, Around, Showable, DraftsSay, ShownIsSaved,
              AskedFromPage, PlacedIsComplete
<1>4. ASSUME NEW a \in Addresses, DeleteAddress(a) PROVE PageInv'
  BY <1>4 DEF DeleteAddress, orderVars, PageInv, Around, Showable, DraftsSay, ShownIsSaved,
              AskedFromPage, PlacedIsComplete
<1> QED
  BY <1>1, <1>2, <1>3, <1>4

LEMMA PageInitially == ASSUME PageAssumption, CheckoutInit PROVE PageInv
<1>1. page = mounted /\ asked = Nothing /\ ~page.ready
  BY DEF CheckoutInit, mounted
<1>2. Showable(page)
  BY <1>1 DEF mounted, firstSelection, Showable, PageRow, CashAtStore, Selections, Deliveries,
              Pays, StepNames
<1> QED
  BY <1>1, <1>2 DEF PageInv, CheckoutInit, Around, DraftsSay, ShownIsSaved, AskedFromPage,
                    PlacedIsComplete

LEMMA PageStep == ASSUME PageInv, [CheckoutNext]_checkoutVars PROVE PageInv'
<1>1. CASE Restore
  BY <1>1, RestoreStep
<1>2. CASE AddressesArrive \/ ConfigurationArrives
  BY <1>2, AddressesArriveStep, ConfigurationArrivesStep
<1>3. CASE \E p \in Pays : InstructionArrives(p)
  BY <1>3, InstructionArrivesStep
<1>4. CASE \/ continueFromReview \/ continueFromDelivery \/ GoBack
           \/ \E u \in StepNames \cup {Nothing} : handlePopState(u)
  BY <1>4, StepsStep
<1>5. CASE \/ \E p \in Pays \cap Tried : choosePayment(p)
           \/ \E d \in Deliveries \cap Tried : chooseDelivery(d)
           \/ \E q \in {"MERCADO_PAGO", "STRIPE"} : chooseProvider(q)
           \/ \E a \in Addresses : PickAddress(a)
           \/ NewAddress \/ \E full \in BOOLEAN : InlineAddressFields(full)
  BY <1>5, ChoicesStep
<1>6. CASE placeOrder
  BY <1>6, PlaceStep
<1>7. CASE OrdersCreate \/ OrderArrives \/ OrderFails
  BY <1>7, AnswersStep
<1>8. CASE \/ Remount \/ SignIn \/ SessionEnds \/ \E t \in Tokens : NewCart(t)
           \/ \E a \in Addresses : DeleteAddress(a)
  BY <1>8, AroundStep
<1>9. CASE UNCHANGED checkoutVars
  BY <1>9 DEF checkoutVars, orderVars, PageInv, Around, Showable, DraftsSay, ShownIsSaved,
              AskedFromPage, PlacedIsComplete
<1> QED
  BY <1>1, <1>2, <1>3, <1>4, <1>5, <1>6, <1>7, <1>8, <1>9 DEF CheckoutNext

\* A page becomes ready by Restore only.
LEMMA ReloadStep == ASSUME PageInv, [CheckoutNext]_checkoutVars PROVE ReloadKeepsSelection
<1>1. CASE Restore
  BY <1>1, RestoreStep
<1>2. CASE AddressesArrive
  BY <1>2 DEF AddressesArrive, Show, ReloadKeepsSelection, PageInv, Showable, PageRow
<1>3. CASE ConfigurationArrives
  BY <1>3 DEF ConfigurationArrives, Show, ReloadKeepsSelection, PageInv, Showable, PageRow
<1>4. CASE \E p \in Pays : InstructionArrives(p)
  BY <1>4 DEF InstructionArrives, ReloadKeepsSelection, PageInv, Showable, PageRow
<1>5. CASE OrdersCreate \/ OrderFails
  BY <1>5 DEF OrdersCreate, OrderFails, ReloadKeepsSelection, PageInv, Showable, PageRow
<1>6. CASE OrderArrives \/ Remount \/ SignIn
  BY <1>6 DEF OrderArrives, Remount, SignIn, mounted, ReloadKeepsSelection
<1>7. CASE \/ SessionEnds \/ \E t \in Tokens : NewCart(t)
           \/ (\E a \in Addresses : DeleteAddress(a)) \/ UNCHANGED checkoutVars
  BY <1>7 DEF SessionEnds, NewCart, DeleteAddress, checkoutVars, ReloadKeepsSelection
<1>8. CASE \/ continueFromReview \/ continueFromDelivery \/ GoBack
           \/ \E u \in StepNames \cup {Nothing} : handlePopState(u)
           \/ \E p \in Pays \cap Tried : choosePayment(p)
           \/ \E d \in Deliveries \cap Tried : chooseDelivery(d)
           \/ \E q \in {"MERCADO_PAGO", "STRIPE"} : chooseProvider(q)
           \/ \E a \in Addresses : PickAddress(a)
           \/ NewAddress \/ \E full \in BOOLEAN : InlineAddressFields(full)
           \/ placeOrder
  BY <1>8 DEF continueFromReview, continueFromDelivery, GoBack, handlePopState, choosePayment,
              chooseDelivery, chooseProvider, PickAddress, NewAddress, InlineAddressFields,
              placeOrder, choosing, ReloadKeepsSelection
<1> QED
  BY <1>1, <1>2, <1>3, <1>4, <1>5, <1>6, <1>7, <1>8 DEF CheckoutNext
-----------------------------------------------------------------------------
(* The specification.                                                      *)

LEMMA PageAlways == ASSUME PageAssumption PROVE CheckoutSpec => []PageInv
<1>1. CheckoutInit => PageInv
  BY PageInitially
<1>2. PageInv /\ [CheckoutNext]_checkoutVars => PageInv'
  BY PageStep
<1> QED
  BY <1>1, <1>2, PTL DEF CheckoutSpec

\* The page keeps its types, its draft says what it shows, and the page of an
\* order that is asked for stays (the save effect, choosing).
THEOREM PageTypeCorrect == ASSUME PageAssumption PROVE CheckoutSpec => []CheckoutTypesOK
<1>1. PageInv => CheckoutTypesOK
  BY DEF PageInv, Showable, PageRow, ShownIsSaved, AskedFromPage, CheckoutTypesOK
<1> QED
  BY <1>1, PageAlways, PTL

\* Whatever way the customer took, with however many carts, addresses, reloads and
\* late answers: an order that is asked for says completely where to deliver, pays
\* in cash only at the store and through a gateway that is offered.
THEOREM OrdersAreComplete == ASSUME PageAssumption PROVE CheckoutSpec => []PlacedIsComplete
<1>1. PageInv => PlacedIsComplete
  BY DEF PageInv
<1> QED
  BY <1>1, PageAlways, PTL

\* A page that is shown again for its cart shows the selection it had, whatever has
\* loaded before the draft is restored.
THEOREM ReloadsKeepSelection ==
    ASSUME PageAssumption PROVE CheckoutSpec => [][ReloadKeepsSelection]_checkoutVars
<1>1. PageInv /\ [CheckoutNext]_checkoutVars => [ReloadKeepsSelection]_checkoutVars
  BY ReloadStep
<1> QED
  BY <1>1, PageAlways, PTL DEF CheckoutSpec
-----------------------------------------------------------------------------
(***************************************************************************)
(* The page that pays an order (PaymentPage), for every number of tabs,    *)
(* quotes and answers under way.                                           *)
(*                                                                         *)
(* What an answer says of the order was so when it was read. What was so   *)
(* stays possible: an order leaves PENDING_PAYMENT once and is paid once,  *)
(* so that an old answer says the order waits for payment or what it is    *)
(* now, and what was told as paid is paid.                                 *)
(***************************************************************************)

OrderRow == [status : {"PENDING_PAYMENT", "CONFIRMED", "CANCELLED", "EXPIRED"},
             payment : {"PENDING", "APPROVED", "REFUNDED"}, fee : Fees \cup {None},
             cart : {"ACTIVE", None}]
PaymentRow ==
    [state : {"loading", "open", "failed", "left"}, shown : Payment!Seen \cup {None},
     loads : SUBSET Payment!Seen, polls : SUBSET Payment!Seen,
     form : {"none", "ready", "charged"},
     back : {"none", "asked", "answered", "refused"},
     told : {"none", "paid", "refunded", "rejected", "error"}]

\* What an answer, shown or under way, may say of the order.
WasSo(s) == s.status \in {"PENDING_PAYMENT", order.status}
PageSays(g) ==
    /\ g.state = "open" => g.shown # None
    /\ g.shown # None => WasSo(g.shown)
    /\ \A s \in g.loads \cup g.polls : WasSo(s)
    /\ g.polls # {} => g.shown # None /\ g.shown.fee = None
    /\ g.told = "paid" => order.payment = "APPROVED"

PaymentInv ==
    /\ order \in OrderRow /\ paying \in [Pages -> PaymentRow]
    /\ order.cart # None => order.status = "CANCELLED"
    /\ \A p \in Pages : PageSays(paying[p])

LEMMA PaymentInit == ASSUME Payment!PaymentPageAssumption, Payment!Init PROVE PaymentInv
<1>1. order \in OrderRow /\ order.cart = None
  BY DEF Payment!Init, OrderRow
<1>2. paying \in [Pages -> PaymentRow]
  BY DEF Payment!Init, Payment!opened, PaymentRow
<1>3. \A p \in Pages : PageSays(paying[p])
  BY DEF Payment!Init, Payment!opened, PageSays
<1> QED
  BY <1>1, <1>2, <1>3 DEF PaymentInv

\* What the store makes of the order: what was seen stays possible and paid stays paid.
GoesOn ==
    /\ order' \in OrderRow
    /\ order'.cart # None => order'.status = "CANCELLED"
    /\ order.status # "PENDING_PAYMENT" => order'.status = order.status
    /\ order.payment = "APPROVED" => order'.payment = "APPROVED"

LEMMA StaysGoesOn == ASSUME PaymentInv, UNCHANGED order PROVE GoesOn
BY DEF PaymentInv, GoesOn

LEMMA Elsewhere ==
    ASSUME PaymentInv, GoesOn, NEW q \in Pages, paying'[q] = paying[q]
    PROVE  PageSays(paying[q])'
<1>1. paying[q] \in PaymentRow /\ PageSays(paying[q])
  BY DEF PaymentInv
<1> QED
  BY <1>1 DEF PaymentInv, GoesOn, PageSays, WasSo, OrderRow, PaymentRow

\* A step of one page, and one of none.
LEMMA OnePage ==
    ASSUME PaymentInv, GoesOn, NEW p \in Pages, NEW g \in PaymentRow, Payment!Page(p, g),
           \A s \in g.loads \cup g.polls : WasSo(s)',
           g.state = "open" => g.shown # None,
           g.shown # None => WasSo(g.shown)',
           g.polls # {} => g.shown # None /\ g.shown.fee = None,
           g.told = "paid" => order'.payment = "APPROVED"
    PROVE  PaymentInv'
<1>1. paying' = [paying EXCEPT ![p] = g] /\ paying' \in [Pages -> PaymentRow]
  BY DEF PaymentInv, Payment!Page
<1>2. paying'[p] = g
  BY <1>1 DEF PaymentInv
<1>3. PageSays(paying[p])'
  BY <1>2 DEF PageSays, WasSo
<1>4. \A q \in Pages \ {p} : paying'[q] = paying[q]
  BY <1>1 DEF PaymentInv
<1> QED
  BY <1>1, <1>3, <1>4, Elsewhere DEF PaymentInv, GoesOn

LEMMA NoPage ==
    ASSUME PaymentInv, GoesOn, UNCHANGED paying
    PROVE  PaymentInv'
BY Elsewhere DEF PaymentInv, GoesOn

\* The snapshot of now.
LEMMA SnapshotSeen ==
    ASSUME PaymentInv
    PROVE  Payment!Snapshot \in Payment!Seen /\ WasSo(Payment!Snapshot)
BY DEF PaymentInv, Payment!Snapshot, Payment!Seen, WasSo, OrderRow

\* Answers.
LEMMA Answered ==
    ASSUME Payment!PaymentPageAssumption, PaymentInv, UNCHANGED order, NEW p \in Pages,
           NEW s \in Payment!Seen, WasSo(s),
           NEW g \in PaymentRow, Payment!Page(p, g), g.shown = s,
           g.loads \subseteq paying[p].loads, g.polls \subseteq Payment!pollsAfter(p, s),
           g.told = paying[p].told
    PROVE  PaymentInv'
<1>1. paying[p] \in PaymentRow /\ PageSays(paying[p])
  BY DEF PaymentInv
<1>2. GoesOn
  BY StaysGoesOn
<1>3. Payment!pollsAfter(p, s) \subseteq paying[p].polls
  BY DEF Payment!pollsAfter
<1>4. g.polls # {} => s.fee = None
  BY DEF Payment!pollsAfter
<1>5. \A r \in g.loads \cup g.polls : WasSo(r)'
  BY <1>1, <1>3 DEF PageSays, WasSo
<1>6. WasSo(s)'
  BY DEF WasSo
<1>7. g.shown # None
  BY DEF Payment!PaymentPageAssumption
<1>8. g.told = "paid" => order'.payment = "APPROVED"
  BY <1>1 DEF PageSays
<1> QED
  BY <1>2, <1>4, <1>5, <1>6, <1>7, <1>8, OnePage

\* Steps that leave what the page shows and waits for, or take from it.
LEMMA ShowsTheSame ==
    ASSUME PaymentInv, GoesOn, NEW p \in Pages, NEW g \in PaymentRow, Payment!Page(p, g),
           g.shown = paying[p].shown, g.state = "open" => paying[p].shown # None,
           g.loads \subseteq paying[p].loads \cup {Payment!Snapshot},
           \/ g.polls \subseteq paying[p].polls
           \/ /\ paying[p].shown # None /\ paying[p].shown.fee = None
              /\ g.polls \subseteq paying[p].polls \cup {Payment!Snapshot},
           g.told = "paid" => order'.payment = "APPROVED"
    PROVE  PaymentInv'
<1>1. paying[p] \in PaymentRow /\ PageSays(paying[p])
  BY DEF PaymentInv
<1>2. WasSo(Payment!Snapshot)
  BY SnapshotSeen
<1>3. \A r \in Payment!Seen : WasSo(r) => WasSo(r)'
  BY DEF WasSo, GoesOn, PaymentInv, OrderRow
<1>4. \A r \in g.loads \cup g.polls : WasSo(r)
  BY <1>1, <1>2 DEF PageSays
<1>5. \A r \in g.loads \cup g.polls : WasSo(r)'
  BY <1>3, <1>4 DEF PaymentRow
<1>6. g.shown # None => WasSo(g.shown)'
  BY <1>1, <1>3 DEF PageSays, PaymentRow
<1>7. g.polls # {} => g.shown # None /\ g.shown.fee = None
  BY <1>1 DEF PageSays
<1> QED
  BY <1>5, <1>6, <1>7, OnePage

\* A form that is taken off the page is all that goes with it.
LEMMA Remains ==
    ASSUME NEW g \in PaymentRow, NEW h, h = Payment!remaining(g)
    PROVE  /\ h \in PaymentRow /\ h.state = g.state /\ h.shown = g.shown
           /\ h.loads = g.loads /\ h.polls = g.polls /\ h.told = g.told
BY DEF PaymentRow, Payment!remaining

LEMMA OpenedAnew ==
    ASSUME Payment!PaymentPageAssumption, PaymentInv, UNCHANGED order, NEW p \in Pages,
           Payment!Page(p, Payment!opened)
    PROVE  PaymentInv'
<1>1. Payment!opened \in PaymentRow /\ Payment!opened.shown = None
      /\ Payment!opened.loads = {} /\ Payment!opened.polls = {}
      /\ Payment!opened.state = "loading" /\ Payment!opened.told = "none"
  BY DEF Payment!opened, PaymentRow
<1>2. GoesOn
  BY StaysGoesOn
<1> QED
  BY <1>1, <1>2, OnePage
-----------------------------------------------------------------------------
\* What each kind of step does to the order.
LEMMA ChargeGoesOn == ASSUME PaymentInv, order' = Payment!afterCharge PROVE GoesOn
BY DEF PaymentInv, GoesOn, OrderRow, Payment!afterCharge, Payment!closed

LEMMA ReopenGoesOn ==
    ASSUME PaymentInv, NEW p \in Pages, Payment!reopenCheckout(p)
    PROVE  GoesOn
BY DEF PaymentInv, GoesOn, OrderRow, Payment!reopenCheckout, Payment!previous,
    Payment!reopenable

LEMMA StoreGoesOn ==
    ASSUME PaymentInv
    PROVE  /\ \A fee \in Fees : Payment!setShippingQuote(fee) => GoesOn
           /\ \A status \in {"EXPIRED", "CANCELLED"} : Payment!Close(status) => GoesOn
           /\ Payment!Webhook => GoesOn
<1>1. ASSUME NEW fee \in Fees, Payment!setShippingQuote(fee) PROVE GoesOn
  BY <1>1 DEF Payment!setShippingQuote, PaymentInv, GoesOn, OrderRow
<1>2. ASSUME NEW status \in {"EXPIRED", "CANCELLED"}, Payment!Close(status) PROVE GoesOn
  BY <1>2 DEF Payment!Close, PaymentInv, GoesOn, OrderRow
<1>3. ASSUME Payment!Webhook PROVE GoesOn
  BY <1>3, ChargeGoesOn DEF Payment!Webhook
<1> QED
  BY <1>1, <1>2, <1>3

LEMMA PayingStep ==
    ASSUME Payment!PaymentPageAssumption, PaymentInv, NEW p \in Pages, Payment!OfPage(p)
    PROVE  PaymentInv'
<1> USE DEF PaymentRow
<1>0. paying[p] \in PaymentRow /\ PageSays(paying[p])
  BY DEF PaymentInv
<1>1. CASE Payment!LoadRead(p)
  <2>1. PICK g : g = [paying[p] EXCEPT !.loads = @ \cup {Payment!Snapshot}, !.polls = {}]
    OBVIOUS
  <2>2. g \in PaymentRow
    BY <1>0, <2>1, SnapshotSeen
  <2>3. Payment!Page(p, g) /\ UNCHANGED order
    BY <1>1, <2>1 DEF Payment!LoadRead, Payment!server
  <2> QED
    BY <1>0, <2>1, <2>2, <2>3, StaysGoesOn, ShowsTheSame DEF PageSays
<1>2. ASSUME NEW s \in paying[p].loads, Payment!LoadFails(p, s) PROVE PaymentInv'
  <2>1. PICK g : g = [paying[p] EXCEPT !.state = "failed", !.loads = @ \ {s}]
    OBVIOUS
  <2>2. g \in PaymentRow
    BY <1>0, <2>1
  <2>3. PICK h : h = Payment!remaining(g)
    OBVIOUS
  <2>4. Payment!Page(p, h) /\ UNCHANGED order
    BY <1>2, <2>1, <2>3 DEF Payment!LoadFails, Payment!server
  <2>5. g.state = "failed" /\ g.shown = paying[p].shown
        /\ g.loads \subseteq paying[p].loads /\ g.polls = paying[p].polls
        /\ g.told = paying[p].told
    BY <1>0, <2>1
  <2> HIDE DEF PaymentRow
  <2>6. h \in PaymentRow /\ h.state = "failed" /\ h.shown = paying[p].shown
        /\ h.loads \subseteq paying[p].loads /\ h.polls = paying[p].polls
        /\ h.told = paying[p].told
    BY <2>2, <2>3, <2>5, Remains
  <2> QED
    BY <1>0, <2>4, <2>6, StaysGoesOn, ShowsTheSame DEF PageSays
<1>3. CASE Payment!PollRead(p)
  <2>1. PICK g : g = [paying[p] EXCEPT !.polls = @ \cup {Payment!Snapshot}]
    OBVIOUS
  <2>2. g \in PaymentRow
    BY <1>0, <2>1, SnapshotSeen
  <2>3. Payment!Page(p, g) /\ UNCHANGED order /\ paying[p].shown # None
        /\ paying[p].shown.fee = None
    BY <1>3, <2>1 DEF Payment!PollRead, Payment!polling, Payment!server
  <2> QED
    BY <1>0, <2>1, <2>2, <2>3, StaysGoesOn, ShowsTheSame DEF PageSays
<1>4. ASSUME NEW s \in paying[p].loads, Payment!LoadArrives(p, s) PROVE PaymentInv'
  <2>1. PICK st : st = IF paying[p].state = "failed" THEN "failed" ELSE "open"
    OBVIOUS
  <2>2. PICK g : g = [paying[p] EXCEPT !.state = st, !.shown = s, !.loads = @ \ {s},
                                     !.polls = Payment!pollsAfter(p, s)]
    OBVIOUS
  <2>3. g \in PaymentRow
    BY <1>0, <2>1, <2>2 DEF Payment!pollsAfter
  <2>4. PICK h : h = Payment!remaining(g)
    OBVIOUS
  <2>5. Payment!Page(p, h) /\ UNCHANGED order
    BY <1>0, <1>4, <2>1, <2>2, <2>4 DEF Payment!LoadArrives, Payment!server
  <2>6. s \in Payment!Seen /\ WasSo(s)
    BY <1>0 DEF PageSays
  <2>7. g.shown = s /\ g.loads \subseteq paying[p].loads
        /\ g.polls = Payment!pollsAfter(p, s) /\ g.told = paying[p].told
    BY <1>0, <2>2
  <2>8. h \in PaymentRow /\ h.shown = s /\ h.loads \subseteq paying[p].loads
        /\ h.polls \subseteq Payment!pollsAfter(p, s) /\ h.told = paying[p].told
    BY <2>3, <2>4, <2>7, Remains
  <2> HIDE DEF PaymentRow
  <2> QED
    BY <2>5, <2>6, <2>8, Answered
<1>5. ASSUME NEW s \in paying[p].polls, Payment!PollArrives(p, s) PROVE PaymentInv'
  <2>1. PICK g : g = [paying[p] EXCEPT !.state = "open", !.shown = s,
                                     !.polls = Payment!pollsAfter(p, s) \ {s}]
    OBVIOUS
  <2>2. g \in PaymentRow
    BY <1>0, <2>1 DEF Payment!pollsAfter
  <2>3. Payment!Page(p, g) /\ UNCHANGED order
    BY <1>5, <2>1 DEF Payment!PollArrives, Payment!server
  <2> QED
    BY <1>0, <2>1, <2>2, <2>3, Answered DEF PageSays
<1>6. ASSUME NEW s \in paying[p].polls, Payment!PollFails(p, s) PROVE PaymentInv'
  <2>1. PICK g : g = [paying[p] EXCEPT !.state = "failed", !.polls = @ \ {s}]
    OBVIOUS
  <2>2. g \in PaymentRow
    BY <1>0, <2>1
  <2>3. Payment!Page(p, g) /\ UNCHANGED order
    BY <1>6, <2>1 DEF Payment!PollFails, Payment!server
  <2> QED
    BY <1>0, <2>1, <2>2, <2>3, StaysGoesOn, ShowsTheSame DEF PageSays
<1>7. CASE Payment!ProcessMercadoPagoCard(p)
  <2>1. PICK g \in {[paying[p] EXCEPT !.form = "charged"],
                   [paying[p] EXCEPT !.told = "rejected"]} :
           Payment!Page(p, g) /\ UNCHANGED order
    BY <1>7 DEF Payment!ProcessMercadoPagoCard
  <2>2. g \in PaymentRow
    BY <1>0, <2>1
  <2> QED
    BY <1>0, <2>1, <2>2, StaysGoesOn, ShowsTheSame DEF PageSays
<1>8. CASE Payment!CreateStripeIntent(p)
  <2>1. PICK g : g = [paying[p] EXCEPT !.form = "ready"]
    OBVIOUS
  <2>2. g \in PaymentRow
    BY <1>0, <2>1
  <2>3. Payment!Page(p, g) /\ UNCHANGED order
    BY <1>8, <2>1 DEF Payment!CreateStripeIntent
  <2> QED
    BY <1>0, <2>1, <2>2, <2>3, StaysGoesOn, ShowsTheSame DEF PageSays
<1>9. CASE Payment!ConfirmStripe(p)
  <2>1. PICK g \in {[paying[p] EXCEPT !.form = "charged"],
                   [paying[p] EXCEPT !.told = "rejected"]} :
           Payment!Page(p, g) /\ UNCHANGED order
    BY <1>9 DEF Payment!ConfirmStripe
  <2>2. g \in PaymentRow
    BY <1>0, <2>1
  <2> QED
    BY <1>0, <2>1, <2>2, StaysGoesOn, ShowsTheSame DEF PageSays
<1>10. CASE Payment!Settle(p)
  <2>1. PICK g : g = [paying[p] EXCEPT !.form = "none",
                         !.told = Payment!outcome(Payment!afterCharge),
                         !.state = IF Payment!outcome(Payment!afterCharge) = "paid"
                                   THEN "left" ELSE @]
    OBVIOUS
  <2>2. Payment!Page(p, g) /\ order' = Payment!afterCharge
    BY <1>10, <2>1 DEF Payment!Settle
  <2>3. Payment!outcome(Payment!afterCharge) \in {"paid", "refunded"}
        /\ (Payment!outcome(Payment!afterCharge) = "paid" => order'.payment = "APPROVED")
    BY <2>2 DEF Payment!outcome
  <2>4. g \in PaymentRow
    BY <1>0, <2>1, <2>3
  <2>5. g.told = "paid" => order'.payment = "APPROVED"
    BY <1>0, <2>1, <2>3
  <2>6. g.shown = paying[p].shown /\ g.loads = paying[p].loads /\ g.polls = paying[p].polls
        /\ g.state \in {"left", paying[p].state}
    BY <1>0, <2>1
  <2> QED
    BY <1>0, <2>2, <2>4, <2>5, <2>6, ChargeGoesOn, ShowsTheSame DEF PageSays
<1>11. CASE Payment!SettleFails(p)
  <2>1. PICK g : g = [paying[p] EXCEPT !.form = "none", !.told = "error"]
    OBVIOUS
  <2>2. g \in PaymentRow
    BY <1>0, <2>1
  <2>3. Payment!Page(p, g) /\ (order' = Payment!afterCharge \/ UNCHANGED order)
    BY <1>11, <2>1 DEF Payment!SettleFails
  <2>4. GoesOn
    BY <2>3, ChargeGoesOn, StaysGoesOn
  <2> QED
    BY <1>0, <2>1, <2>2, <2>3, <2>4, ShowsTheSame DEF PageSays
<1>12. CASE Payment!PressBack(p) \/ Payment!reopenCheckout(p) \/ Payment!BackArrives(p)
            \/ Payment!BackFails(p)
  <2>1. PICK b \in {"none", "asked", "answered", "refused"}, st \in {"left", paying[p].state} :
          Payment!Page(p, [paying[p] EXCEPT !.back = b, !.state = st])
    <3>1. CASE Payment!PressBack(p)
      BY <1>0, <3>1 DEF Payment!PressBack, Payment!Page
    <3>2. CASE Payment!reopenCheckout(p)
      BY <1>0, <3>2 DEF Payment!reopenCheckout, Payment!Page
    <3>3. CASE Payment!BackArrives(p)
      BY <1>0, <3>3 DEF Payment!BackArrives, Payment!Page
    <3>4. CASE Payment!BackFails(p)
      BY <1>0, <3>4 DEF Payment!BackFails, Payment!Page
    <3> QED BY <1>12, <3>1, <3>2, <3>3, <3>4
  <2>2. PICK g : g = [paying[p] EXCEPT !.back = b, !.state = st]
    OBVIOUS
  <2>3. g \in PaymentRow
    BY <1>0, <2>1, <2>2
  <2>4. GoesOn
    BY <1>12, ReopenGoesOn, StaysGoesOn DEF Payment!PressBack, Payment!BackArrives,
        Payment!BackFails, Payment!server
  <2> QED
    BY <1>0, <2>1, <2>2, <2>3, <2>4, ShowsTheSame DEF PageSays, GoesOn
<1>13. CASE Payment!Reload(p)
  BY <1>13, OpenedAnew DEF Payment!Reload, Payment!server
<1> QED
  BY <1>1, <1>2, <1>3, <1>4, <1>5, <1>6, <1>7, <1>8, <1>9, <1>10, <1>11,
     <1>12, <1>13 DEF Payment!OfPage

LEMMA PaymentStep ==
    ASSUME Payment!PaymentPageAssumption, PaymentInv, [Payment!Next]_Payment!allVars
    PROVE  PaymentInv'
<1>1. ASSUME NEW p \in Pages, Payment!OfPage(p) PROVE PaymentInv'
  BY <1>1, PayingStep
<1>2. ASSUME NEW fee \in Fees, Payment!setShippingQuote(fee) PROVE PaymentInv'
  BY <1>2, StoreGoesOn, NoPage DEF Payment!setShippingQuote
<1>3. ASSUME NEW status \in {"EXPIRED", "CANCELLED"}, Payment!Close(status) PROVE PaymentInv'
  BY <1>3, StoreGoesOn, NoPage DEF Payment!Close
<1>4. CASE Payment!Webhook
  BY <1>4, StoreGoesOn, NoPage DEF Payment!Webhook
<1>5. CASE UNCHANGED Payment!allVars
  BY <1>5, StaysGoesOn, NoPage DEF Payment!allVars, Payment!server
<1> QED
  BY <1>1, <1>2, <1>3, <1>4, <1>5 DEF Payment!Next

\* What a page shows of an order is what the order was, in every order of loads, polls,
\* charges and reloads: a page that is open shows something, and it polls only while a
\* quote is awaited.
THEOREM PaymentPageTypeCorrect ==
    ASSUME Payment!PaymentPageAssumption
    PROVE  Payment!Spec => []Payment!TypeOK
<1>1. PaymentInv => Payment!TypeOK
  BY DEF PaymentInv, PageSays, WasSo, Payment!TypeOK, OrderRow, PaymentRow
<1> QED
  BY <1>1, PaymentInit, PaymentStep, PTL DEF Payment!Spec

\* The customer is sent to the page of success only for an order that is paid, for every
\* number of pages, quotes and answers under way (Settle): what was charged for an order
\* that had been closed or reopened is told as returned.
THEOREM ToldIsPaid ==
    ASSUME Payment!PaymentPageAssumption
    PROVE  Payment!Spec => []Payment!ToldPaidIsPaid
<1>1. PaymentInv => Payment!ToldPaidIsPaid
  BY DEF PaymentInv, PageSays, Payment!ToldPaidIsPaid
<1> QED
  BY <1>1, PaymentInit, PaymentStep, PTL DEF Payment!Spec

LEMMA QuoteStep ==
    ASSUME Payment!PaymentPageAssumption, PaymentInv, Payment!Next
    PROVE  Payment!QuoteStays
<1> SUFFICES ASSUME NEW p \in Pages, paying[p].shown # None, paying'[p].shown # None,
                    paying[p].shown.fee # None, paying'[p].shown.fee = None
             PROVE  paying'[p].loads # paying[p].loads
  BY DEF Payment!QuoteStays
<1>0. paying \in [Pages -> PaymentRow] /\ PageSays(paying[p])
  BY DEF PaymentInv
<1>1. paying[p].polls = {}
  BY <1>0 DEF PageSays
<1>2. PICK q \in Pages : Payment!OfPage(q)
  BY DEF Payment!Next, Payment!setShippingQuote, Payment!Close, Payment!Webhook
<1>3. q = p
  <2>1. \E g : Payment!Page(q, g)
    BY <1>2 DEF Payment!OfPage, Payment!LoadRead, Payment!LoadFails, Payment!PollRead,
        Payment!LoadArrives, Payment!PollArrives, Payment!PollFails,
           Payment!ProcessMercadoPagoCard, Payment!CreateStripeIntent,
           Payment!ConfirmStripe, Payment!Settle, Payment!SettleFails,
           Payment!PressBack, Payment!reopenCheckout, Payment!BackArrives,
           Payment!BackFails, Payment!Reload
  <2> QED
    BY <1>0, <2>1 DEF Payment!Page
<1>4. \A g : Payment!Page(p, g) => paying'[p] = g
  BY <1>0 DEF Payment!Page
<1>5. paying[p] \in PaymentRow
  BY <1>0
<1>6. PICK s \in paying[p].loads : Payment!LoadArrives(p, s)
  <2>1. ~Payment!Reload(p)
    BY <1>4, <1>5 DEF Payment!Reload, Payment!opened, PaymentRow
  <2>2. ~Payment!LoadRead(p) /\ ~Payment!PollRead(p)
    BY <1>4, <1>5 DEF Payment!LoadRead, Payment!PollRead, PaymentRow
  <2>3. ASSUME NEW s \in paying[p].loads, Payment!LoadFails(p, s) PROVE FALSE
    <3>1. PICK g : g = [paying[p] EXCEPT !.state = "failed", !.loads = @ \ {s}]
      OBVIOUS
    <3>2. g \in PaymentRow /\ g.shown = paying[p].shown
      BY <1>5, <3>1 DEF PaymentRow
    <3>3. paying'[p] = Payment!remaining(g)
      BY <1>4, <2>3, <3>1 DEF Payment!LoadFails
    <3> QED
      BY <3>2, <3>3, Remains
  <2>4. ~Payment!ProcessMercadoPagoCard(p) /\ ~Payment!CreateStripeIntent(p)
        /\ ~Payment!ConfirmStripe(p)
    BY <1>4, <1>5 DEF Payment!ProcessMercadoPagoCard, Payment!CreateStripeIntent,
        Payment!ConfirmStripe, PaymentRow
  <2>5. ~Payment!Settle(p) /\ ~Payment!SettleFails(p)
    BY <1>4, <1>5 DEF Payment!Settle, Payment!SettleFails, PaymentRow
  <2>6. ~Payment!PressBack(p) /\ ~Payment!reopenCheckout(p) /\ ~Payment!BackArrives(p)
        /\ ~Payment!BackFails(p)
    BY <1>4, <1>5 DEF Payment!PressBack, Payment!reopenCheckout, Payment!BackArrives,
        Payment!BackFails, PaymentRow
  <2> QED
    BY <1>1, <1>2, <1>3, <2>1, <2>2, <2>3, <2>4, <2>5, <2>6 DEF Payment!OfPage
<1>7. paying'[p].loads = paying[p].loads \ {s}
  <2>1. PICK st : st = IF paying[p].state = "failed" THEN "failed" ELSE "open"
    OBVIOUS
  <2>2. PICK g : g = [paying[p] EXCEPT !.state = st, !.shown = s, !.loads = @ \ {s},
                                     !.polls = Payment!pollsAfter(p, s)]
    OBVIOUS
  <2>3. g \in PaymentRow /\ g.loads = paying[p].loads \ {s}
    BY <1>5, <2>1, <2>2 DEF PaymentRow, Payment!pollsAfter
  <2>4. paying'[p] = Payment!remaining(g)
    BY <1>4, <1>5, <1>6, <2>1, <2>2 DEF Payment!LoadArrives, PaymentRow
  <2> QED
    BY <2>3, <2>4, Remains
<1> QED
  BY <1>6, <1>7

\* A quote that a page knows is not replaced by an older answer that has none, except
\* by the answer of a load it asked for itself (the poll of payment-experience.tsx).
THEOREM QuotesStayShown ==
    ASSUME Payment!PaymentPageAssumption
    PROVE  Payment!Spec => [][Payment!QuoteStays]_Payment!allVars
<1>1. PaymentInv /\ [Payment!Next]_Payment!allVars => [Payment!QuoteStays]_Payment!allVars
  BY QuoteStep
<1> QED
  BY <1>1, PaymentInit, PaymentStep, PTL DEF Payment!Spec
-----------------------------------------------------------------------------
(***************************************************************************)
(* The tracking of an order and its proofs of transfer (OrderTracking),    *)
(* for every number of pages of the customer and of employees, files and   *)
(* faults.                                                                 *)
(*                                                                         *)
(* A proof is stored only where its upload goes on, whose file is in the   *)
(* bucket, and nothing is taken from the bucket; a proof is approved       *)
(* together with the order's payment, and nothing takes a payment back.    *)
(***************************************************************************)

ProofRow == [file : Files, status : {"PENDING_REVIEW", "APPROVED", "REJECTED"}]
CustomersRead ==
    [order : Tracking!Order, latest : {"NONE", "PENDING_REVIEW", "APPROVED", "REJECTED"}]
TabRow ==
    [view : CustomersRead \cup {None}, reading : SUBSET CustomersRead,
     at : {"idle", "put", "register", "store", "registered", "failed"},
     file : Files \cup {None}, told : {None, "sent", "failed"}]

\* A page of an employee: it waits for as many answers as it may, and what it offers to
\* review is one of the customer's files.
EmployeesRead == [order : Tracking!Order, proof : Files \cup {None}]
DeskRow == [view : EmployeesRead \cup {None}, reading : SUBSET EmployeesRead]
DeskPage(g) == g \in DeskRow /\ IsFiniteSet(g.reading) /\ Cardinality(g.reading) <= Loads

\* What makes the properties inductive: a file is stored where its upload goes on, and
\* nothing takes a payment back.
TrackingInv ==
    /\ placed \in Tracking!Order /\ proofs \in Seq(ProofRow) /\ bucket \subseteq Files
    /\ tab \in [Tabs -> TabRow]
    /\ \A t \in Tabs : /\ tab[t].at = "put" => tab[t].file \in Files
                       /\ tab[t].at \in {"register", "store"} => tab[t].file \in bucket
    /\ DOMAIN desk = Desks /\ \A d \in Desks : DeskPage(desk[d])
    /\ Tracking!ProofHasFile /\ Tracking!ApprovedIsPaid

\* A set of numbers up to n has a highest one.
LEMMA Highest ==
    ASSUME NEW n \in Nat, NEW T \in SUBSET (1..n), T # {}
    PROVE  \E i \in T : \A j \in T : j <= i
<1> DEFINE D == {d \in Nat : n - d \in T}
<1>1. \A i \in T : i \in Nat /\ n - i \in D
  OBVIOUS
<1>2. D \subseteq Nat /\ D # {}
  BY <1>1
<1>3. PICK d \in D : \A e \in D : ~(<<e, d>> \in OpToRel(<, Nat))
  BY <1>2, NatLessThanWellFounded, WFMin
<1>4. \A e \in D : ~(e < d)
  BY <1>3 DEF OpToRel
<1> QED
  BY <1>1, <1>4

LEMMA TrackingInit == ASSUME Tracking!OrderTrackingAssumption, Tracking!Init PROVE TrackingInv
<1>1. placed \in Tracking!Order
  BY DEF Tracking!Init, Tracking!Order
<1>2. proofs \in Seq(ProofRow) /\ DOMAIN proofs = {}
  BY DEF Tracking!Init
<1>3. tab \in [Tabs -> TabRow] /\ \A t \in Tabs : tab[t].at = "idle"
  BY DEF Tracking!Init, TabRow
<1>4. \A d \in Desks : DeskPage(desk[d])
  <2>1. IsFiniteSet({}) /\ Cardinality({}) <= Loads
    BY FS_EmptySet DEF Tracking!OrderTrackingAssumption
  <2>2. \A d \in Desks : desk[d] \in DeskRow /\ desk[d].reading = {}
    BY DEF Tracking!Init, DeskRow
  <2> QED
    BY <2>1, <2>2 DEF DeskPage
<1>5. DOMAIN desk = Desks /\ bucket \subseteq Files
  BY DEF Tracking!Init
<1> QED
  BY <1>1, <1>2, <1>3, <1>4, <1>5 DEF TrackingInv, Tracking!ProofHasFile,
      Tracking!ApprovedIsPaid

-----------------------------------------------------------------------------
\* What a step does to the order: a payment is not taken back, and what is closed stays.
OrderGoesOn == /\ placed' \in Tracking!Order
               /\ placed.paid => placed'.paid
               /\ Tracking!ClosedStays

\* What a step does to the proofs: it stores one whose file is there, or reviews one.
ProofAdded ==
    \E f \in bucket : proofs' = Append(proofs, [file |-> f, status |-> "PENDING_REVIEW"])
ProofReviewed ==
    \E status \in {"APPROVED", "REJECTED"} : \E i :
       /\ proofs[i].status = "PENDING_REVIEW" /\ proofs' = [proofs EXCEPT ![i].status = status]
       /\ status = "APPROVED" => placed'.paid
ProofsGoOn == UNCHANGED proofs \/ ProofAdded \/ ProofReviewed

LEMMA ProofsStep ==
    ASSUME TrackingInv, OrderGoesOn, ProofsGoOn, bucket \subseteq bucket'
    PROVE  /\ proofs' \in Seq(ProofRow) /\ Tracking!ProofHasFile' /\ Tracking!ApprovedIsPaid'
           /\ Tracking!ReviewedOnce
<1>0. /\ proofs \in Seq(ProofRow) /\ bucket \subseteq Files /\ placed \in Tracking!Order
      /\ DOMAIN proofs = 1..Len(proofs) /\ Len(proofs) \in Nat
      /\ \A i \in DOMAIN proofs : /\ proofs[i] \in ProofRow /\ proofs[i].file \in bucket
                                  /\ proofs[i].status = "APPROVED" => placed.paid
  BY DEF TrackingInv, Tracking!ProofHasFile, Tracking!ApprovedIsPaid
<1>1. CASE UNCHANGED proofs
  BY <1>0, <1>1 DEF OrderGoesOn, Tracking!ProofHasFile, Tracking!ApprovedIsPaid,
      Tracking!ReviewedOnce
<1>2. CASE ProofAdded
  <2>1. PICK f \in bucket : proofs' = Append(proofs, [file |-> f, status |-> "PENDING_REVIEW"])
    BY <1>2 DEF ProofAdded
  <2>2. PICK row \in ProofRow : row.file = f /\ row.status = "PENDING_REVIEW"
                                /\ proofs' = Append(proofs, row)
    BY <1>0, <2>1 DEF ProofRow
  <2>3. /\ proofs' \in Seq(ProofRow) /\ DOMAIN proofs' = 1..(Len(proofs) + 1)
        /\ \A i \in DOMAIN proofs : proofs'[i] = proofs[i]
        /\ proofs'[Len(proofs) + 1] = row
    BY <1>0, <2>2
  <2>4. \A i \in DOMAIN proofs' : i \in DOMAIN proofs \/ i = Len(proofs) + 1
    BY <1>0, <2>3
  <2> QED
    BY <1>0, <2>2, <2>3, <2>4 DEF OrderGoesOn, Tracking!ProofHasFile,
        Tracking!ApprovedIsPaid, Tracking!ReviewedOnce
<1>3. CASE ProofReviewed
  <2>1. PICK status \in {"APPROVED", "REJECTED"} : \E i :
          /\ proofs[i].status = "PENDING_REVIEW" /\ proofs' = [proofs EXCEPT ![i].status = status]
          /\ status = "APPROVED" => placed'.paid
    BY <1>3 DEF ProofReviewed
  <2>0. PICK i :
          /\ proofs[i].status = "PENDING_REVIEW" /\ proofs' = [proofs EXCEPT ![i].status = status]
          /\ status = "APPROVED" => placed'.paid
    BY <2>1
  <2>2. DOMAIN proofs' = DOMAIN proofs /\ \A j \in DOMAIN proofs : j # i => proofs'[j] = proofs[j]
    BY <1>0, <2>0
  <2>3. i \in DOMAIN proofs => /\ proofs'[i] \in ProofRow /\ proofs'[i].file = proofs[i].file
                               /\ proofs'[i].status = status
    BY <1>0, <2>0 DEF ProofRow
  <2>4. \A j \in 1..Len(proofs) : proofs'[j] \in ProofRow
    BY <1>0, <2>2, <2>3
  <2>5. proofs' \in [1..Len(proofs) -> ProofRow]
    BY <1>0, <2>0, <2>2, <2>4
  <2>6. proofs' \in Seq(ProofRow)
    BY <1>0, <2>5
  <2> QED
    BY <1>0, <2>0, <2>2, <2>3, <2>6 DEF OrderGoesOn, Tracking!ProofHasFile,
        Tracking!ApprovedIsPaid, Tracking!ReviewedOnce
<1> QED
  BY <1>1, <1>2, <1>3 DEF ProofsGoOn
-----------------------------------------------------------------------------
\* What a step does to the pages.
TabsGoOn ==
    \/ UNCHANGED tab
    \/ \E t \in Tabs, g \in TabRow :
         /\ tab' = [tab EXCEPT ![t] = g]
         /\ g.at = "put" => g.file \in Files
         /\ g.at \in {"register", "store"} => g.file \in bucket'
DesksGoOn == \/ UNCHANGED desk
             \/ \E d \in Desks : \E g : DeskPage(g) /\ desk' = [desk EXCEPT ![d] = g]

LEMMA TrackingStays ==
    ASSUME TrackingInv, OrderGoesOn, ProofsGoOn, bucket \subseteq bucket',
           bucket' \subseteq Files,
           TabsGoOn, DesksGoOn
    PROVE  TrackingInv'
<1>1. /\ tab' \in [Tabs -> TabRow]
      /\ \A t \in Tabs : /\ tab'[t].at = "put" => tab'[t].file \in Files
                         /\ tab'[t].at \in {"register", "store"} => tab'[t].file \in bucket'
  BY DEF TabsGoOn, TrackingInv
<1>2. DOMAIN desk' = Desks /\ \A d \in Desks : DeskPage(desk'[d])
  BY DEF DesksGoOn, TrackingInv
<1> QED
  BY <1>1, <1>2, ProofsStep DEF TrackingInv, OrderGoesOn, DeskPage

LEMMA TabStep ==
    ASSUME TrackingInv, NEW t \in Tabs, NEW g \in TabRow, Tracking!Tab(t, g),
           g.at = "put" => g.file \in Files,
           g.at \in {"register", "store"} => g.file \in bucket'
    PROVE  TabsGoOn
BY DEF Tracking!Tab, TabsGoOn

LEMMA DeskStep ==
    ASSUME NEW d \in Desks, NEW g, DeskPage(g), Tracking!Desk(d, g)
    PROVE  DesksGoOn
BY DEF Tracking!Desk, DesksGoOn

\* A row of the table offers a proof of the order, if one waits among the newest.
LEMMA RowNow ==
    ASSUME TrackingInv, Tracking!OrderTrackingAssumption
    PROVE  Tracking!rowRead \in EmployeesRead
<1>1. /\ proofs \in Seq(ProofRow) /\ Len(proofs) \in Nat /\ Shown \in Nat
      /\ placed \in Tracking!Order
      /\ \A i \in 1..Len(proofs) : proofs[i] \in ProofRow
  BY DEF TrackingInv, Tracking!OrderTrackingAssumption
<1>2. PICK s : s = Tracking!newest(proofs)
  OBVIOUS
<1>3. s \in Seq(ProofRow) /\ Len(s) \in Nat /\ DOMAIN s = 1..Len(s)
      /\ \A i \in DOMAIN s : s[i] \in ProofRow
  <2>0. PICK m : m = IF Len(proofs) > Shown THEN Len(proofs) - Shown + 1 ELSE 1
    OBVIOUS
  <2>1. m \in Int /\ m >= 1 /\ s = SubSeq(proofs, m, Len(proofs))
    BY <1>1, <1>2, <2>0 DEF Tracking!newest
  <2>2. s \in Seq(ProofRow)
    BY <1>1, <2>1, SubSeqProperties
  <2> QED
    BY <2>2
<1>4. Tracking!firstPending(s) \in Files \cup {None}
  <2>1. PICK counted : counted = {i \in DOMAIN s : s[i].status = "PENDING_REVIEW"}
    OBVIOUS
  <2>2. CASE counted = {}
    BY <2>1, <2>2 DEF Tracking!firstPending
  <2>3. CASE counted # {}
    <3>1. \E i \in counted : \A j \in counted : j <= i
      BY <1>3, <2>1, <2>3, Highest
    <3>2. PICK k : k = CHOOSE i \in counted : \A j \in counted : j <= i
      OBVIOUS
    <3>3. k \in counted
      BY <3>1, <3>2
    <3>4. Tracking!firstPending(s) = s[k].file
      BY <2>1, <2>3, <3>2 DEF Tracking!firstPending
    <3> QED
      BY <1>3, <2>1, <3>3, <3>4 DEF ProofRow
  <2> QED BY <2>2, <2>3
<1> QED
  BY <1>1, <1>2, <1>4 DEF Tracking!rowRead, EmployeesRead

LEMMA Refreshed ==
    ASSUME NEW g, DeskPage(g), TrackingInv, Tracking!OrderTrackingAssumption
    PROVE  DeskPage(Tracking!refreshes(g))
<1>1. CASE Cardinality(g.reading) < Loads
  <2>1. PICK h : h = Tracking!refreshes(g)
    OBVIOUS
  <2>2. h \in DeskRow /\ h.reading = g.reading \cup {Tracking!rowRead}
    BY <1>1, <2>1, RowNow, TrackingCounts DEF Tracking!refreshes, DeskPage, DeskRow
  <2>3. IsFiniteSet(g.reading \cup {Tracking!rowRead})
        /\ Cardinality(g.reading \cup {Tracking!rowRead}) <= Cardinality(g.reading) + 1
    <3>1. PICK S, x : S = g.reading /\ x = Tracking!rowRead
      OBVIOUS
    <3>2. IsFiniteSet(S)
      BY <3>1 DEF DeskPage
    <3>3. IsFiniteSet(S \cup {x})
          /\ \/ Cardinality(S \cup {x}) = Cardinality(S)
             \/ Cardinality(S \cup {x}) = Cardinality(S) + 1
      BY <3>2, FS_AddElement
    <3> QED
      BY <3>1, <3>2, <3>3, FS_CardinalityType
  <2>4. Cardinality(g.reading) \in Nat
        /\ Cardinality(g.reading \cup {Tracking!rowRead}) \in Nat /\ Loads \in Nat
    BY <2>3, FS_CardinalityType DEF DeskPage, Tracking!OrderTrackingAssumption
  <2> QED
    BY <1>1, <2>1, <2>2, <2>3, <2>4 DEF DeskPage
<1>2. CASE ~(Cardinality(g.reading) < Loads)
  BY <1>2, TrackingCounts DEF Tracking!refreshes
<1> QED
  BY <1>1, <1>2

LEMMA Fewer ==
    ASSUME NEW g, DeskPage(g), NEW h \in DeskRow, NEW s, h.reading = g.reading \ {s},
           Tracking!OrderTrackingAssumption
    PROVE  DeskPage(h)
<1>1. IsFiniteSet(g.reading \ {s}) /\ Cardinality(g.reading \ {s}) <= Cardinality(g.reading)
  <2>1. PICK S : S = g.reading
    OBVIOUS
  <2>2. IsFiniteSet(S)
    BY <2>1 DEF DeskPage
  <2>3. IsFiniteSet(S \ {s})
        /\ (Cardinality(S \ {s}) = Cardinality(S) \/ Cardinality(S \ {s}) = Cardinality(S) - 1)
    BY <2>2, FS_RemoveElement
  <2> QED
    BY <2>1, <2>2, <2>3, FS_CardinalityType
<1>2. Cardinality(g.reading) \in Nat /\ Cardinality(g.reading \ {s}) \in Nat /\ Loads \in Nat
  BY <1>1, FS_CardinalityType DEF DeskPage, Tracking!OrderTrackingAssumption
<1> QED
  BY <1>1, <1>2 DEF DeskPage

LEMMA ReadNow == ASSUME TrackingInv PROVE Tracking!orderRead \in CustomersRead
<1>1. proofs # <<>> => Tracking!Last(proofs) \in ProofRow
  BY DEF TrackingInv, Tracking!Last
<1> QED
  BY <1>1 DEF TrackingInv, Tracking!orderRead, CustomersRead, ProofRow
-----------------------------------------------------------------------------
\* The steps, one after another.
TrackingGoesOn ==
    /\ OrderGoesOn /\ ProofsGoOn /\ bucket \subseteq bucket' /\ bucket' \subseteq Files
    /\ TabsGoOn /\ DesksGoOn

LEMMA OrderStays == ASSUME TrackingInv, UNCHANGED placed PROVE OrderGoesOn
BY DEF TrackingInv, OrderGoesOn, Tracking!ClosedStays

LEMMA PaymentConfirmed ==
    ASSUME TrackingInv, Tracking!confirmable(placed), Tracking!confirmOrderPayment
    PROVE  OrderGoesOn /\ placed'.paid
BY DEF TrackingInv, OrderGoesOn, Tracking!ClosedStays, Tracking!confirmable,
    Tracking!confirmOrderPayment, Tracking!isTerminalOrder, Tracking!Order

LEMMA OrderCancelled == ASSUME TrackingInv, Tracking!cancelOrder PROVE OrderGoesOn
BY DEF TrackingInv, OrderGoesOn, Tracking!ClosedStays, Tracking!cancelOrder,
    Tracking!keepsClosed, Tracking!isTerminalOrder, Tracking!Order

\* The pages of the customer.
CustomerStep(t) ==
    \/ Tracking!Load(t) \/ Tracking!LoadArrives(t) \/ Tracking!LoadFails(t) 
    \/ Tracking!Cancel(t) \/ Tracking!Uploads(t)
    \/ Tracking!PutRefused(t) \/ Tracking!UploadLost(t)
    \/ \E f \in Files : Tracking!Choose(t, f)

LEMMA CustomerGoesOn ==
    ASSUME TrackingInv, NEW t \in Tabs, CustomerStep(t)
    PROVE  TrackingGoesOn
<1> USE DEF TabRow
<1>0. /\ tab[t] \in TabRow /\ placed \in Tracking!Order /\ bucket \subseteq Files
      /\ tab[t].at = "put" => tab[t].file \in Files
      /\ tab[t].at \in {"register", "store"} => tab[t].file \in bucket
  BY DEF TrackingInv
<1>1. CASE Tracking!Load(t)
  <2>1. PICK g : g = Tracking!reads(tab[t])
    OBVIOUS
  <2>2. g \in TabRow /\ g.at = tab[t].at /\ g.file = tab[t].file
    BY <1>0, <2>1, ReadNow DEF Tracking!reads
  <2>3. Tracking!Tab(t, g) /\ UNCHANGED <<placed, proofs, bucket, desk>>
    BY <1>1, <2>1 DEF Tracking!Load
  <2> QED
    BY <1>0, <2>2, <2>3, TabStep, OrderStays DEF TrackingGoesOn, ProofsGoOn, DesksGoOn
<1>2. CASE Tracking!LoadArrives(t)
  <2>1. PICK read \in tab[t].reading :
           Tracking!Tab(t, [tab[t] EXCEPT !.view = read, !.reading = @ \ {read}])
    BY <1>2 DEF Tracking!LoadArrives
  <2>2. PICK g : g = [tab[t] EXCEPT !.view = read, !.reading = @ \ {read}]
    OBVIOUS
  <2>3. g \in TabRow /\ g.at = tab[t].at /\ g.file = tab[t].file
    BY <1>0, <2>2
  <2>4. Tracking!Tab(t, g) /\ UNCHANGED <<placed, proofs, bucket, desk>>
    BY <1>2, <2>1, <2>2 DEF Tracking!LoadArrives
  <2> QED
    BY <1>0, <2>3, <2>4, TabStep, OrderStays DEF TrackingGoesOn, ProofsGoOn, DesksGoOn
<1>3. CASE Tracking!LoadFails(t)
  <2>1. PICK read \in tab[t].reading : Tracking!Tab(t, [tab[t] EXCEPT !.reading = @ \ {read}])
    BY <1>3 DEF Tracking!LoadFails
  <2>2. PICK g : g = [tab[t] EXCEPT !.reading = @ \ {read}]
    OBVIOUS
  <2>3. g \in TabRow /\ g.at = tab[t].at /\ g.file = tab[t].file
    BY <1>0, <2>2
  <2>4. Tracking!Tab(t, g) /\ UNCHANGED <<placed, proofs, bucket, desk>>
    BY <1>3, <2>1, <2>2 DEF Tracking!LoadFails
  <2> QED
    BY <1>0, <2>3, <2>4, TabStep, OrderStays DEF TrackingGoesOn, ProofsGoOn, DesksGoOn
<1>4. CASE Tracking!Cancel(t)
  <2>1. OrderGoesOn
    BY <1>4, OrderCancelled DEF Tracking!Cancel
  <2>2. PICK g : g = [tab[t] EXCEPT !.view = [@ EXCEPT !.order = placed']]
    OBVIOUS
  <2>3. tab[t].view \in CustomersRead
    BY <1>0, <1>4 DEF Tracking!Cancel
  <2>4. g \in TabRow /\ g.at = tab[t].at /\ g.file = tab[t].file
    BY <1>0, <2>1, <2>2, <2>3 DEF OrderGoesOn, CustomersRead
  <2>5. Tracking!Tab(t, g) /\ UNCHANGED <<proofs, bucket, desk>>
    BY <1>4, <2>2 DEF Tracking!Cancel
  <2> QED
    BY <1>0, <2>1, <2>4, <2>5, TabStep DEF TrackingGoesOn, ProofsGoOn, DesksGoOn
<1>5. ASSUME NEW f \in Files, Tracking!Choose(t, f) PROVE TrackingGoesOn
  <2>1. PICK g : g = [tab[t] EXCEPT !.at = "put", !.file = f, !.told = None]
    OBVIOUS
  <2>2. g \in TabRow /\ g.at = "put" /\ g.file = f
    BY <1>0, <2>1
  <2>3. Tracking!Tab(t, g) /\ UNCHANGED <<placed, proofs, bucket, desk>>
    BY <1>5, <2>1 DEF Tracking!Choose
  <2> QED
    BY <1>0, <2>2, <2>3, TabStep, OrderStays DEF TrackingGoesOn, ProofsGoOn, DesksGoOn
<1>6. CASE Tracking!Put(t)
  <2>1. PICK g : g = [tab[t] EXCEPT !.at = "register"]
    OBVIOUS
  <2>2. g \in TabRow /\ g.at = "register" /\ g.file = tab[t].file
    BY <1>0, <2>1
  <2>3. Tracking!Tab(t, g) /\ UNCHANGED <<placed, proofs, desk>>
        /\ bucket' = bucket \cup {tab[t].file}
        /\ tab[t].at = "put"
    BY <1>6, <2>1 DEF Tracking!Put
  <2> QED
    BY <1>0, <2>2, <2>3, TabStep, OrderStays DEF TrackingGoesOn, ProofsGoOn, DesksGoOn
<1>7. CASE Tracking!PutRefused(t) \/ Tracking!UploadLost(t)
  <2>1. PICK g : g = [tab[t] EXCEPT !.at = "failed"]
    OBVIOUS
  <2>2. g \in TabRow /\ g.at = "failed"
    BY <1>0, <2>1
  <2>3. Tracking!Tab(t, g) /\ UNCHANGED <<placed, proofs, bucket, desk>>
    BY <1>7, <2>1 DEF Tracking!PutRefused, Tracking!UploadLost, Tracking!checksUpload
  <2> QED
    BY <1>0, <2>2, <2>3, TabStep, OrderStays DEF TrackingGoesOn, ProofsGoOn, DesksGoOn
<1>8. CASE Tracking!RegisterRead(t)
  <2>1. PICK g : g = [tab[t] EXCEPT !.at = IF Tracking!acceptsProof(placed)
                                           THEN "store" ELSE "failed"]
    OBVIOUS
  <2>2. g \in TabRow /\ g.at \in {"store", "failed"} /\ g.file = tab[t].file
    BY <1>0, <2>1
  <2>3. Tracking!Tab(t, g) /\ UNCHANGED <<placed, proofs, bucket, desk>> /\ tab[t].at = "register"
    BY <1>8, <2>1 DEF Tracking!RegisterRead
  <2> QED
    BY <1>0, <2>2, <2>3, TabStep, OrderStays DEF TrackingGoesOn, ProofsGoOn, DesksGoOn
<1>9. CASE Tracking!RegisterStore(t)
  <2>1. PICK g : g = [tab[t] EXCEPT !.at = "registered"]
    OBVIOUS
  <2>2. g \in TabRow /\ g.at = "registered"
    BY <1>0, <2>1
  <2>3. Tracking!Tab(t, g) /\ UNCHANGED <<placed, bucket, desk>> /\ tab[t].at = "store"
        /\ proofs' = Append(proofs, [file |-> tab[t].file, status |-> "PENDING_REVIEW"])
    BY <1>9, <2>1 DEF Tracking!RegisterStore
  <2>4. ProofAdded
    BY <1>0, <2>3 DEF ProofAdded
  <2> QED
    BY <1>0, <2>2, <2>3, <2>4, TabStep, OrderStays DEF TrackingGoesOn, ProofsGoOn, DesksGoOn
<1>10. CASE Tracking!UploadArrives(t)
  <2>1. PICK h : h = [tab[t] EXCEPT !.at = "idle", !.file = None, !.told = "sent"]
    OBVIOUS
  <2>2. PICK g : g = Tracking!reads(h)
    OBVIOUS
  <2>3. h \in TabRow /\ h.at = "idle"
    BY <1>0, <2>1
  <2>4. g \in TabRow /\ g.at = "idle"
    BY <2>2, <2>3, ReadNow DEF Tracking!reads
  <2>5. Tracking!Tab(t, g) /\ UNCHANGED <<placed, proofs, bucket, desk>>
    BY <1>10, <2>1, <2>2 DEF Tracking!UploadArrives
  <2> QED
    BY <1>0, <2>4, <2>5, TabStep, OrderStays DEF TrackingGoesOn, ProofsGoOn, DesksGoOn
<1>11. CASE Tracking!UploadFails(t)
  <2>1. PICK g : g = [tab[t] EXCEPT !.at = "idle", !.file = None, !.told = "failed"]
    OBVIOUS
  <2>2. g \in TabRow /\ g.at = "idle"
    BY <1>0, <2>1
  <2>3. Tracking!Tab(t, g) /\ UNCHANGED <<placed, proofs, bucket, desk>>
    BY <1>11, <2>1 DEF Tracking!UploadFails
  <2> QED
    BY <1>0, <2>2, <2>3, TabStep, OrderStays DEF TrackingGoesOn, ProofsGoOn, DesksGoOn
<1> QED
  BY <1>1, <1>2, <1>3, <1>4, <1>5, <1>6, <1>7, <1>8, <1>9, <1>10, <1>11 DEF CustomerStep,
      Tracking!Uploads
-----------------------------------------------------------------------------
\* The pages of the employees.
EmployeeStep(d) ==
    \/ Tracking!Refresh(d) \/ Tracking!RefreshArrives(d) \/ Tracking!ConfirmCash(d)
    \/ \E status \in {"APPROVED", "REJECTED"} : Tracking!ReviewProof(d, status)
    \/ \E to \in {"PENDING_PAYMENT", "CONFIRMED", "PROCESSING", "READY", "COMPLETED",
                  "CANCELLED", "EXPIRED"} : Tracking!UpdateStatus(d, to)

\* Most presses end with the table being read again.
LEMMA DeskRefreshes ==
    ASSUME TrackingInv, Tracking!OrderTrackingAssumption, NEW d \in Desks,
           Tracking!Desk(d, Tracking!refreshes(desk[d]))
    PROVE  DesksGoOn
<1>1. DeskPage(Tracking!refreshes(desk[d]))
  BY Refreshed DEF TrackingInv
<1> QED
  BY <1>1, DeskStep

LEMMA EmployeeGoesOn ==
    ASSUME TrackingInv, Tracking!OrderTrackingAssumption, NEW d \in Desks, EmployeeStep(d)
    PROVE  TrackingGoesOn
<1>0. bucket \subseteq Files /\ placed \in Tracking!Order /\ DeskPage(desk[d])
  BY DEF TrackingInv
<1>1. CASE Tracking!Refresh(d)
  BY <1>0, <1>1, DeskRefreshes, OrderStays DEF Tracking!Refresh, TrackingGoesOn, ProofsGoOn,
      TabsGoOn
<1>2. CASE Tracking!RefreshArrives(d)
  <2>1. PICK read \in desk[d].reading :
           Tracking!Desk(d, [desk[d] EXCEPT !.view = read, !.reading = @ \ {read}])
    BY <1>2 DEF Tracking!RefreshArrives
  <2>2. PICK g : g = [desk[d] EXCEPT !.view = read, !.reading = @ \ {read}]
    OBVIOUS
  <2>3. g \in DeskRow /\ g.reading = desk[d].reading \ {read}
    BY <1>0, <2>2 DEF DeskPage, DeskRow
  <2>4. DesksGoOn
    BY <1>0, <2>1, <2>2, <2>3, Fewer, DeskStep
  <2> QED
    BY <1>0, <1>2, <2>4, OrderStays DEF Tracking!RefreshArrives, TrackingGoesOn, ProofsGoOn,
        TabsGoOn
<1>3. CASE Tracking!ConfirmCash(d)
  <2>1. OrderGoesOn
    BY <1>3, PaymentConfirmed DEF Tracking!ConfirmCash, Tracking!confirmCashPayment
  <2> QED
    BY <1>0, <1>3, <2>1, DeskRefreshes DEF Tracking!ConfirmCash, TrackingGoesOn, ProofsGoOn,
        TabsGoOn
<1>4. ASSUME NEW status \in {"APPROVED", "REJECTED"}, Tracking!ReviewProof(d, status)
      PROVE  TrackingGoesOn
  <2>1. PICK i : Tracking!reviewTransferProof(i, status)
    BY <1>4 DEF Tracking!ReviewProof
  <2>2. OrderGoesOn /\ (status = "APPROVED" => placed'.paid)
    BY <2>1, PaymentConfirmed, OrderStays DEF Tracking!reviewTransferProof
  <2>3. ProofReviewed
    BY <2>1, <2>2 DEF ProofReviewed, Tracking!reviewTransferProof, Tracking!reviewable
  <2> QED
    BY <1>0, <1>4, <2>2, <2>3, DeskRefreshes DEF Tracking!ReviewProof, TrackingGoesOn,
        ProofsGoOn, TabsGoOn
<1>5. ASSUME NEW to \in {"PENDING_PAYMENT", "CONFIRMED", "PROCESSING", "READY", "COMPLETED",
                         "CANCELLED", "EXPIRED"}, Tracking!UpdateStatus(d, to)
      PROVE  TrackingGoesOn
  <2>1. OrderGoesOn
    <3>1. CASE to = "CANCELLED"
      BY <1>5, <3>1, OrderCancelled DEF Tracking!UpdateStatus
    <3>2. CASE to # "CANCELLED"
      <4>1. Tracking!canTransitionOrder(placed.status, to)
            /\ placed' = [placed EXCEPT !.status = to]
        BY <1>5, <3>2 DEF Tracking!UpdateStatus
      <4> QED
        BY <1>0, <4>1 DEF OrderGoesOn, Tracking!ClosedStays, Tracking!canTransitionOrder,
            Tracking!isTerminalOrder, Tracking!Order
    <3> QED BY <3>1, <3>2
  <2> QED
    BY <1>0, <1>5, <2>1, DeskRefreshes DEF Tracking!UpdateStatus, TrackingGoesOn,
        ProofsGoOn, TabsGoOn
<1> QED
  BY <1>1, <1>2, <1>3, <1>4, <1>5 DEF EmployeeStep

LEMMA ExpireGoesOn == ASSUME TrackingInv, Tracking!Expire PROVE TrackingGoesOn
<1>1. OrderGoesOn
  BY DEF Tracking!Expire, TrackingInv, OrderGoesOn, Tracking!ClosedStays,
      Tracking!isTerminalOrder, Tracking!Order
<1> QED
  BY <1>1 DEF Tracking!Expire, TrackingInv, TrackingGoesOn, ProofsGoOn, TabsGoOn, DesksGoOn

LEMMA TrackingStep ==
    ASSUME TrackingInv, Tracking!OrderTrackingAssumption, [Tracking!Next]_Tracking!vars
    PROVE  TrackingGoesOn /\ TrackingInv' /\ Tracking!ReviewedOnce /\ Tracking!ClosedStays
<1>1. TrackingGoesOn
  <2>1. CASE UNCHANGED Tracking!vars
    BY <2>1, OrderStays
       DEF Tracking!vars, TrackingInv, TrackingGoesOn, ProofsGoOn, TabsGoOn, DesksGoOn
  <2>2. CASE Tracking!Next
    BY <2>2, CustomerGoesOn, EmployeeGoesOn, ExpireGoesOn DEF Tracking!Next, CustomerStep,
        EmployeeStep
  <2> QED BY <2>1, <2>2
<1> QED
  BY <1>1, TrackingStays, ProofsStep DEF TrackingGoesOn, OrderGoesOn

\* The order, its proofs and the pages keep their types, however many pages ask at once.
THEOREM TrackingTypeCorrect ==
    ASSUME Tracking!OrderTrackingAssumption
    PROVE  Tracking!Spec => []Tracking!TypeOK
<1>1. TrackingInv => Tracking!TypeOK
  BY TrackingCounts DEF TrackingInv, Tracking!TypeOK, ProofRow, TabRow, DeskPage
<1> QED
  BY <1>1, TrackingInit, TrackingStep, PTL DEF Tracking!Spec

\* An approved proof is of an order that is paid, and a stored proof has its file, for any
\* number of customers' and employees' pages (reviewTransferProof, registerTransferProof).
THEOREM ApprovedProofsArePaid ==
    ASSUME Tracking!OrderTrackingAssumption
    PROVE  Tracking!Spec => [](Tracking!ApprovedIsPaid /\ Tracking!ProofHasFile)
<1>1. TrackingInv => Tracking!ApprovedIsPaid /\ Tracking!ProofHasFile
  BY DEF TrackingInv
<1> QED
  BY <1>1, TrackingInit, TrackingStep, PTL DEF Tracking!Spec

\* A proof is reviewed once and an order that is closed stays so, whatever older rows the
\* pages of the employees still show (canTransitionOrder, cancelOrder, expiry).
THEOREM ReviewsAreFinal ==
    ASSUME Tracking!OrderTrackingAssumption
    PROVE  Tracking!Spec => [][Tracking!ReviewedOnce /\ Tracking!ClosedStays]_Tracking!vars
<1>1. TrackingInv /\ [Tracking!Next]_Tracking!vars
      => [Tracking!ReviewedOnce /\ Tracking!ClosedStays]_Tracking!vars
  BY TrackingStep
<1> QED
  BY <1>1, TrackingInit, TrackingStep, PTL DEF Tracking!Spec
-----------------------------------------------------------------------------
(***************************************************************************)
(* The saved addresses, for every number of addresses, of requests under   *)
(* way at once and of what callers send.                                   *)
(*                                                                         *)
(* What a change read, and then what its transaction will write, says how  *)
(* the addresses are until another change is committed: of a change that   *)
(* none overtook nothing more is needed to see what its commit does. The   *)
(* places in newest differ, so that an address that goes leaves exactly    *)
(* one newest, and nobody else creates the row that a change creates.      *)
(***************************************************************************)

IsMain(a) == isDefault[a] = TRUE
OneMain == \A a, b \in Ids : IsMain(a) /\ IsMain(b) => a = b

\* Places in the order of creation: no two rows have the same.
Placed(S, f) ==
    /\ f \in [S -> Nat] /\ \A a \in S : f[a] < Cardinality(S)
    /\ \A a, b \in S : f[a] = f[b] => a = b

\* What requests read and what transactions write, whatever overtook them.
FoundIs(f) ==
    /\ f.kind \in {"create", "update", "delete"} /\ f.id \in Ids
    /\ f.flag \in BOOLEAN \cup {None} /\ f.isDefault \in BOOLEAN
TransactionIs(w) ==
    \/ w.kind = "create" /\ w.id \in Ids /\ w.isDefault \in BOOLEAN /\ w.promote = {}
    \/ w.kind = "update" /\ w.isDefault \in BOOLEAN \cup {None} /\ w.promote = {}
    \/ w.kind = "delete" /\ w.isDefault = None

\* And of those that none overtook.
FoundSays(f) ==
    f.kind # "create" =>
        /\ f.id \in Book!Rows /\ f.isDefault = isDefault[f.id]
        /\ f.kind = "update" => ~(IsMain(f.id) /\ f.flag = FALSE)
TransactionSays(w) ==
    \/ /\ w.kind \in {"create", "update"} /\ w.unset = Book!unset(w.id, w.isDefault)
       /\ w.kind = "update" => w.id \in Book!Rows /\ ~(IsMain(w.id) /\ w.isDefault = FALSE)
    \/ /\ w.kind = "delete" /\ w.id \in Book!Rows /\ w.unset = {}
       /\ w.promote \subseteq Book!Rows \ {w.id} /\ \A a, b \in w.promote : a = b
       /\ IsMain(w.id) => (Book!Rows \ {w.id} # {} => w.promote # {})
       /\ ~IsMain(w.id) => w.promote = {}

\* A request creates an address.
Creates(r, a) ==
    \/ found[r] # None /\ found[r].kind = "create" /\ found[r].id = a
    \/ transaction[r] # None /\ transaction[r].kind = "create" /\ transaction[r].id = a

AddressInv ==
    /\ Book!AddressAssumption
    /\ isDefault \in [Ids -> BOOLEAN \cup {None}]
    /\ Placed(Book!Rows, newest)
    /\ found = [r \in Requests |-> found[r]] /\ transaction = [r \in Requests |-> transaction[r]]
    /\ \A r \in Requests : found[r] # None => transaction[r] = None /\ FoundIs(found[r])
    /\ \A r \in Requests : transaction[r] # None => TransactionIs(transaction[r])
    /\ \A r \in Requests, a \in Ids :
          Creates(r, a) => a \notin Book!Rows /\ \A s \in Requests : Creates(s, a) => s = r
    /\ \A r \in Requests : r \notin overtaken /\ found[r] # None => FoundSays(found[r])
    /\ \A r \in Requests :
          r \notin overtaken /\ transaction[r] # None => TransactionSays(transaction[r])
    /\ ~crossed => OneMain

LEMMA DefaultsAre ==
    ASSUME AddressInv
    PROVE  /\ Book!Defaults = {a \in Ids : IsMain(a)} /\ Book!Rows \subseteq Ids
           /\ Book!Defaults \subseteq Book!Rows
           /\ IsFiniteSet(Book!Rows) /\ Cardinality(Book!Rows) \in Nat
<1>1. \A a \in Ids : IsMain(a) => a \in Book!Rows
  BY DEF AddressInv, Book!AddressAssumption, IsMain, Book!Rows
<1>2. \A a \in Book!Rows : isDefault[a] \in BOOLEAN
  BY DEF AddressInv, Book!Rows
<1>3. Book!Rows \subseteq Ids
  BY DEF Book!Rows
<1>4. IsFiniteSet(Book!Rows)
  BY <1>3, FS_Subset, BookCounts DEF AddressInv, Book!AddressAssumption
<1> QED
  BY <1>1, <1>2, <1>3, <1>4, FS_CardinalityType DEF Book!Defaults, IsMain

LEMMA AddressInit == ASSUME Book!AddressAssumption, Book!Init PROVE AddressInv
<1>1. isDefault \in [Ids -> BOOLEAN \cup {None}] /\ \A a \in Ids : isDefault[a] = None
  BY DEF Book!Init
<1>2. Book!Rows = {} /\ \A a \in Ids : ~IsMain(a)
  BY <1>1 DEF Book!Rows, IsMain, Book!AddressAssumption
<1>3. newest \in [{} -> Nat]
  BY DEF Book!Init
<1>4. Placed(Book!Rows, newest)
  BY <1>2, <1>3 DEF Placed
<1>5. \A r \in Requests : found[r] = None /\ transaction[r] = None
  BY DEF Book!Init
<1>6. OneMain
  BY <1>2 DEF OneMain
<1> QED
  BY <1>1, <1>4, <1>5, <1>6 DEF Book!Init, AddressInv, Creates

\* One of some rows is newer than the others.
LEMMA NewestOf ==
    ASSUME NEW S, NEW f, Placed(S, f), IsFiniteSet(S), NEW T \in SUBSET S, T # {}
    PROVE  \E a \in T : \A b \in T \ {a} : f[b] < f[a]
<1>1. PICK n \in Nat : n = Cardinality(S)
  BY FS_CardinalityType
<1>2. \A a \in S : f[a] \in Nat /\ f[a] < n
  BY <1>1 DEF Placed
<1>3. PICK M : M = {n - f[a] : a \in T}
  OBVIOUS
<1>4. M \in SUBSET Nat /\ M # {}
  BY <1>2, <1>3
<1>5. PICK m \in M : \A q \in M : ~(<<q, m>> \in OpToRel(<, Nat))
  BY <1>4, NatLessThanWellFounded, WFMin
<1>6. \A q \in M : ~(q < m)
  BY <1>4, <1>5 DEF OpToRel
<1>7. PICK a \in T : m = n - f[a]
  BY <1>3, <1>5
<1>8. \A b \in T : ~(n - f[b] < n - f[a])
  BY <1>3, <1>6, <1>7
<1>9. \A b \in T \ {a} : f[b] # f[a]
  BY DEF Placed
<1> QED
  BY <1>2, <1>8, <1>9

LEMMA PromotesOne ==
    ASSUME AddressInv, NEW f, f.id \in Book!Rows, f.isDefault = isDefault[f.id]
    PROVE  /\ Book!promoted(f) \subseteq Book!Rows \ {f.id}
           /\ \A a, b \in Book!promoted(f) : a = b
           /\ IsMain(f.id) => (Book!Rows \ {f.id} # {} => Book!promoted(f) # {})
           /\ ~IsMain(f.id) => Book!promoted(f) = {}
<1>1. f.id \in Ids /\ f.isDefault \in BOOLEAN /\ (f.isDefault <=> IsMain(f.id))
  BY DefaultsAre DEF AddressInv, Book!Rows, IsMain
<1>2. CASE ~IsMain(f.id)
  BY <1>1, <1>2 DEF Book!promoted
<1>3. CASE IsMain(f.id)
  <2>1. Book!promoted(f) = {a \in Book!Rows \ {f.id} :
                              \A b \in (Book!Rows \ {f.id}) \ {a} : newest[b] < newest[a]}
    BY <1>1, <1>3 DEF Book!promoted
  <2>2. Placed(Book!Rows, newest) /\ IsFiniteSet(Book!Rows)
    BY DefaultsAre DEF AddressInv
  <2>3. Book!Rows \ {f.id} # {} => Book!promoted(f) # {}
    BY <2>1, <2>2, NewestOf
  <2>4. \A a, b \in Book!promoted(f) : a = b
    <3>1. \A a \in Book!Rows : newest[a] \in Nat
      BY <2>2 DEF Placed
    <3> QED
      BY <2>1, <3>1
  <2> QED
    BY <1>3, <2>1, <2>3, <2>4
<1> QED
  BY <1>2, <1>3

\* What leaves the addresses alone: a request reads, begins its transaction or gives up.
LEMMA BookKept ==
    ASSUME AddressInv, UNCHANGED <<isDefault, newest, crossed>>, NEW r \in Requests,
           NEW f, found' = [found EXCEPT ![r] = f],
           NEW w, transaction' = [transaction EXCEPT ![r] = w],
           overtaken \subseteq overtaken' \cup {r},
           f # None => w = None /\ FoundIs(f),
           f # None /\ r \notin overtaken' => FoundSays(f),
           w # None => TransactionIs(w),
           w # None /\ r \notin overtaken' => TransactionSays(w),
           \A a \in Ids :
             Creates(r, a)' => a \notin Book!Rows /\ \A s \in Requests \ {r} : ~Creates(s, a)
    PROVE  AddressInv'
<1>1. Book!Rows' = Book!Rows /\ \A a : IsMain(a)' <=> IsMain(a)
  BY DEF Book!Rows, IsMain
<1>2. Book!Defaults' = Book!Defaults
  BY <1>1 DEF Book!Defaults
<1>3. DOMAIN found = Requests /\ DOMAIN transaction = Requests
  BY DEF AddressInv
<1>4. /\ found'[r] = f /\ transaction'[r] = w
      /\ \A s \in Requests \ {r} : found'[s] = found[s] /\ transaction'[s] = transaction[s]
  BY <1>3
<1>5. found' = [s \in Requests |-> found'[s]] /\ transaction' = [s \in Requests |-> transaction'[s]]
  BY <1>3
<1>6. Placed(Book!Rows, newest)'
  BY <1>1 DEF AddressInv, Placed
<1>7. \A g : FoundSays(g) => FoundSays(g)'
  BY <1>1 DEF FoundSays
<1>8. \A v : TransactionSays(v) => TransactionSays(v)'
  BY <1>1, <1>2 DEF TransactionSays, Book!unset
<1>9. ~crossed' => OneMain'
  BY <1>1 DEF AddressInv, OneMain
<1>10. \A g : FoundIs(g) => FoundIs(g)'
  BY DEF FoundIs
<1>11. \A v : TransactionIs(v) => TransactionIs(v)'
  BY DEF TransactionIs
<1>12. \A s \in Requests : /\ found'[s] # None => transaction'[s] = None /\ FoundIs(found[s])'
                           /\ transaction'[s] # None => TransactionIs(transaction[s])'
  BY <1>4, <1>10, <1>11 DEF AddressInv
<1>13. \A s \in Requests : s \notin overtaken' =>
          /\ found'[s] # None => FoundSays(found[s])'
          /\ transaction'[s] # None => TransactionSays(transaction[s])'
  BY <1>4, <1>7, <1>8 DEF AddressInv
<1>14. \A s \in Requests, a \in Ids :
          Creates(s, a)' => /\ a \notin Book!Rows'
                            /\ \A q \in Requests : Creates(q, a)' => q = s
  <2>1. \A s \in Requests \ {r} : \A a : Creates(s, a)' <=> Creates(s, a)
    BY <1>4 DEF Creates
  <2> QED
    BY <1>1, <2>1 DEF AddressInv
<1>15. Book!AddressAssumption' /\ (isDefault \in [Ids -> BOOLEAN \cup {None}])'
  BY DEF AddressInv, Book!AddressAssumption
<1> QED
  BY <1>5, <1>6, <1>9, <1>12, <1>13, <1>14, <1>15 DEF AddressInv

LEMMA CreateStep ==
    ASSUME AddressInv, NEW r \in Requests, NEW a \in Ids, NEW flag \in Flags,
           Book!createAddress(r, a, flag)
    PROVE  AddressInv'
<1>1. PICK default : default = Book!becomesDefault(flag)
  OBVIOUS
<1>2. flag \in BOOLEAN \cup {None}
  BY DEF AddressInv, Book!AddressAssumption
<1>3. default \in BOOLEAN
  <2>1. (Book!Rows = {}) \in BOOLEAN
    OBVIOUS
  <2> QED
    BY <1>1, <1>2, <2>1 DEF Book!becomesDefault
<1>4. PICK f : f = [kind |-> "create", id |-> a, flag |-> flag, isDefault |-> default]
  OBVIOUS
<1>5. /\ a \notin Book!Rows /\ a \notin Book!Mentioned /\ r \notin Book!UnderWay
      /\ found' = [found EXCEPT ![r] = f]
      /\ UNCHANGED <<isDefault, newest, transaction, overtaken, crossed>>
  BY <1>1, <1>4 DEF Book!createAddress, Book!Reads, Book!rows
<1>6. transaction[r] = None /\ transaction' = [transaction EXCEPT ![r] = None]
  BY <1>5 DEF AddressInv, Book!UnderWay, Book!Open
<1>7. FoundIs(f) /\ FoundSays(f)
  BY <1>2, <1>3, <1>4 DEF FoundIs, FoundSays
<1>8. \A s \in Requests : ~Creates(s, a)
  BY <1>5 DEF Creates, Book!Mentioned, Book!Open
<1>9. \A c : Creates(r, c)' => c = a
  <2>1. found'[r] = f /\ transaction'[r] = None
    BY <1>5, <1>6 DEF AddressInv
  <2> QED
    BY <1>4, <2>1 DEF Creates
<1> QED
  BY <1>5, <1>6, <1>7, <1>8, <1>9, BookKept

LEMMA LookUpStep ==
    ASSUME AddressInv, NEW r \in Requests, NEW a \in Book!Rows, NEW kind \in {"update", "delete"},
           NEW flag \in BOOLEAN \cup {None}, Book!lookUp(r, a, kind, flag),
           kind = "update" => ~Book!refuses(isDefault[a], flag)
    PROVE  AddressInv'
<1>1. PICK f : f = [kind |-> kind, id |-> a, flag |-> flag, isDefault |-> isDefault[a]]
  OBVIOUS
<1>2. /\ r \notin Book!UnderWay /\ found' = [found EXCEPT ![r] = f]
      /\ UNCHANGED <<isDefault, newest, transaction, overtaken, crossed>>
  BY <1>1 DEF Book!lookUp, Book!Reads, Book!rows
<1>3. f.kind = kind /\ f.id = a /\ f.flag = flag /\ f.isDefault = isDefault[a]
  BY <1>1
<1>4. FoundIs(f)
  BY <1>3 DEF FoundIs, AddressInv, Book!Rows
<1>5. FoundSays(f)
  <2>1. kind = "update" => ~(IsMain(a) /\ flag = FALSE)
    BY DEF Book!refuses, IsMain
  <2> QED
    BY <1>3, <2>1 DEF FoundSays
<1>6. transaction[r] = None /\ transaction' = [transaction EXCEPT ![r] = None]
  BY <1>2 DEF AddressInv, Book!UnderWay, Book!Open
<1>7. \A c : ~Creates(r, c)'
  <2>1. found'[r] = f /\ transaction'[r] = None
    BY <1>2, <1>6 DEF AddressInv
  <2> QED
    BY <1>3, <2>1 DEF Creates
<1> QED
  BY <1>2, <1>4, <1>5, <1>6, <1>7, BookKept

LEMMA BeginStep ==
    ASSUME AddressInv, NEW r \in Requests,
           Book!beginCreate(r) \/ Book!beginUpdate(r) \/ Book!beginDelete(r)
    PROVE  AddressInv'
<1>1. PICK f : f = found[r]
  OBVIOUS
<1>2. f # None /\ FoundIs(f) /\ (r \notin overtaken => FoundSays(f))
  BY <1>1 DEF Book!beginCreate, Book!beginUpdate, Book!beginDelete, AddressInv
<1>3. CASE Book!beginCreate(r)
  <2>1. PICK w : w = [kind |-> "create", id |-> f.id, unset |-> Book!unset(f.id, f.isDefault),
                      promote |-> {}, isDefault |-> f.isDefault]
    OBVIOUS
  <2>2. /\ f.kind = "create" /\ transaction' = [transaction EXCEPT ![r] = w]
        /\ found' = [found EXCEPT ![r] = None]
        /\ UNCHANGED <<isDefault, newest, overtaken, crossed>>
    BY <1>1, <1>3, <2>1 DEF Book!beginCreate, Book!Begin, Book!rows
  <2>3. TransactionIs(w) /\ TransactionSays(w)
    BY <1>2, <2>1 DEF FoundIs, TransactionIs, TransactionSays
  <2>4. \A a : Creates(r, a)' => Creates(r, a)
    <3>1. found'[r] = None /\ transaction'[r] = w
      BY <2>2 DEF AddressInv
    <3> QED
      BY <1>1, <1>2, <2>1, <2>2, <3>1 DEF Creates
  <2>5. \A a \in Ids : Creates(r, a)' => a \notin Book!Rows
                                        /\ \A s \in Requests \ {r} : ~Creates(s, a)
    BY <2>4 DEF AddressInv
  <2> QED
    BY <2>2, <2>3, <2>5, BookKept
<1>4. CASE Book!beginUpdate(r)
  <2>1. PICK w : w = [kind |-> "update", id |-> f.id, unset |-> Book!unset(f.id, f.flag),
                      promote |-> {}, isDefault |-> f.flag]
    OBVIOUS
  <2>2. /\ f.kind = "update" /\ transaction' = [transaction EXCEPT ![r] = w]
        /\ found' = [found EXCEPT ![r] = None]
        /\ UNCHANGED <<isDefault, newest, overtaken, crossed>>
    BY <1>1, <1>4, <2>1 DEF Book!beginUpdate, Book!Begin, Book!rows
  <2>3. TransactionIs(w) /\ (r \notin overtaken => TransactionSays(w))
    BY <1>2, <2>1, <2>2 DEF FoundIs, FoundSays, TransactionIs, TransactionSays
  <2>4. \A a : ~Creates(r, a)'
    <3>1. found'[r] = None /\ transaction'[r] = w
      BY <2>2 DEF AddressInv
    <3> QED
      BY <2>1, <3>1 DEF Creates
  <2> QED
    BY <2>2, <2>3, <2>4, BookKept
<1>5. CASE Book!beginDelete(r)
  <2>1. PICK w : w = [kind |-> "delete", id |-> f.id, unset |-> {}, promote |-> Book!promoted(f),
                      isDefault |-> None]
    OBVIOUS
  <2>2. /\ f.kind = "delete" /\ transaction' = [transaction EXCEPT ![r] = w]
        /\ found' = [found EXCEPT ![r] = None]
        /\ UNCHANGED <<isDefault, newest, overtaken, crossed>>
    BY <1>1, <1>5, <2>1 DEF Book!beginDelete, Book!Begin, Book!rows
  <2>3. TransactionIs(w)
    BY <2>1 DEF TransactionIs
  <2>4. ASSUME r \notin overtaken PROVE TransactionSays(w)
    <3>1. f.id \in Book!Rows /\ f.isDefault = isDefault[f.id]
      BY <1>2, <2>2, <2>4 DEF FoundSays
    <3>2. /\ w.kind = "delete" /\ w.id = f.id /\ w.unset = {} /\ w.promote = Book!promoted(f)
      BY <2>1
    <3> QED
      BY <3>1, <3>2, PromotesOne DEF TransactionSays
  <2>5. \A a : ~Creates(r, a)'
    <3>1. found'[r] = None /\ transaction'[r] = w
      BY <2>2 DEF AddressInv
    <3> QED
      BY <2>1, <3>1 DEF Creates
  <2> QED
    BY <2>2, <2>3, <2>4, <2>5, BookKept
<1> QED
  BY <1>3, <1>4, <1>5

LEMMA RollBackStep == ASSUME AddressInv, NEW r \in Requests, Book!rollBack(r) PROVE AddressInv'
<1>1. /\ found' = [found EXCEPT ![r] = None] /\ transaction' = [transaction EXCEPT ![r] = None]
      /\ overtaken' = overtaken \ {r} /\ UNCHANGED <<isDefault, newest, crossed>>
  BY DEF Book!rollBack, Book!rows
<1>2. found'[r] = None /\ transaction'[r] = None
  BY <1>1 DEF AddressInv
<1>3. \A a : ~Creates(r, a)'
  BY <1>2 DEF Creates
<1> QED
  BY <1>1, <1>3, BookKept
-----------------------------------------------------------------------------
(* A commit.                                                               *)

\* Which addresses there are afterwards: none that another change deleted.
LEMMA CommitWrites ==
    ASSUME AddressInv, NEW r \in Requests, Book!commit(r), NEW w, w = transaction[r]
    PROVE  /\ w # None /\ TransactionIs(w)
           /\ isDefault' \in [Ids -> BOOLEAN \cup {None}]
           /\ \A a \in Ids : isDefault'[a] = Book!written(w, a)
           /\ w.kind = "create" => w.id \in Ids \ Book!Rows /\ Book!Rows' = Book!Rows \cup {w.id}
           /\ w.kind = "update" => Book!Rows' = Book!Rows
           /\ w.kind = "delete" => w.id \in Book!Rows /\ Book!Rows' = Book!Rows \ {w.id}
<1>1. w # None /\ TransactionIs(w) /\ Book!needed(w) \subseteq Book!Rows
  BY DEF Book!commit, AddressInv
<1>2. isDefault' = [a \in Ids |-> Book!written(w, a)]
  BY DEF Book!commit
<1>3. /\ None \notin BOOLEAN /\ isDefault \in [Ids -> BOOLEAN \cup {None}]
      /\ Book!Rows \subseteq Ids
  BY DefaultsAre DEF AddressInv, Book!AddressAssumption
<1>4. w.isDefault \in BOOLEAN \cup {None}
  BY <1>1 DEF TransactionIs
<1>5. \A a \in Ids : Book!written(w, a) \in BOOLEAN \cup {None}
  BY <1>3, <1>4 DEF Book!written
<1>6. isDefault' \in [Ids -> BOOLEAN \cup {None}]
  BY <1>2, <1>5
<1>7. Book!Rows' = {a \in Ids : Book!written(w, a) # None}
  BY <1>2 DEF Book!Rows
<1>8. CASE w.kind = "create"
  <2>1. w.id \in Ids /\ w.isDefault \in BOOLEAN /\ w.promote = {}
    BY <1>1, <1>8 DEF TransactionIs
  <2>2. w.id \notin Book!Rows
    BY <1>1, <1>8, <2>1 DEF AddressInv, Creates
  <2>3. \A a \in Ids : Book!written(w, a) # None <=> a \in Book!Rows \cup {w.id}
    BY <1>3, <1>8, <2>1, <2>2 DEF Book!written, Book!Rows
  <2> QED
    BY <1>1, <1>2, <1>3, <1>6, <1>7, <1>8, <2>1, <2>2, <2>3
<1>9. CASE w.kind = "update"
  <2>1. w.id \in Book!Rows /\ w.promote = {}
    BY <1>1, <1>9 DEF TransactionIs, Book!needed
  <2>2. \A a \in Ids : Book!written(w, a) # None <=> a \in Book!Rows
    BY <1>3, <1>9, <2>1 DEF Book!written, Book!Rows
  <2> QED
    BY <1>1, <1>2, <1>3, <1>6, <1>7, <1>9, <2>2
<1>10. CASE w.kind = "delete"
  <2>1. w.id \in Book!Rows /\ w.promote \subseteq Book!Rows /\ w.isDefault = None
    BY <1>1, <1>10 DEF TransactionIs, Book!needed
  <2>2. \A a \in Ids : Book!written(w, a) # None <=> a \in Book!Rows \ {w.id}
    BY <1>3, <1>10, <2>1 DEF Book!written, Book!Rows
  <2> QED
    BY <1>1, <1>2, <1>3, <1>6, <1>7, <1>10, <2>1, <2>2
<1> QED
  BY <1>1, <1>8, <1>9, <1>10 DEF TransactionIs

\* What a commit that no other overtook leaves of the default address.
Kept ==
    /\ (\E a \in Ids : IsMain(a)) /\ Book!Rows' # {} => \E a \in Ids : IsMain(a)'
    /\ OneMain => OneMain'

LEMMA CommitKeeps ==
    ASSUME AddressInv, NEW r \in Requests, Book!commit(r), r \notin overtaken
    PROVE  Kept
<1>1. PICK w : w = transaction[r]
  OBVIOUS
<1>2. /\ w # None /\ TransactionIs(w) /\ TransactionSays(w)
      /\ isDefault' \in [Ids -> BOOLEAN \cup {None}]
      /\ \A a \in Ids : isDefault'[a] = Book!written(w, a)
  BY <1>1, CommitWrites DEF AddressInv
<1>3. /\ Book!Defaults = {a \in Ids : IsMain(a)} /\ None \notin BOOLEAN
      /\ Book!Defaults \subseteq Book!Rows /\ Book!Rows \subseteq Ids
  BY DefaultsAre DEF AddressInv, Book!AddressAssumption
<1>4. CASE w.kind \in {"create", "update"} /\ w.isDefault = TRUE
  <2>1. w.unset = Book!Defaults \ {w.id} /\ w.promote = {} /\ w.id \in Ids
    BY <1>2, <1>3, <1>4 DEF TransactionIs, TransactionSays, Book!unset
  <2>2. \A a \in Ids : IsMain(a)' <=> a = w.id
    BY <1>2, <1>3, <1>4, <2>1 DEF Book!written, IsMain
  <2> QED
    BY <2>1, <2>2 DEF Kept, OneMain
<1>5. CASE w.kind \in {"create", "update"} /\ w.isDefault # TRUE
  <2>1. w.unset = {} /\ w.promote = {}
    BY <1>2, <1>5 DEF TransactionIs, TransactionSays, Book!unset
  <2>2. w.isDefault \in {FALSE, None} /\ (w.kind = "create" => w.isDefault = FALSE)
    BY <1>2, <1>5 DEF TransactionIs
  <2>3. w.isDefault = FALSE => ~IsMain(w.id)
    <3>1. w.kind = "create" => w.id \in Ids \ Book!Rows
      BY <1>1, CommitWrites
    <3> QED
      BY <1>2, <1>3, <1>5, <3>1 DEF TransactionSays
  <2>4. \A a \in Ids : IsMain(a)' <=> IsMain(a)
    BY <1>2, <1>3, <1>5, <2>1, <2>2, <2>3 DEF Book!written, IsMain
  <2> QED
    BY <2>4 DEF Kept, OneMain
<1>6. CASE w.kind = "delete"
  <2>1. /\ w.id \in Book!Rows /\ w.isDefault = None /\ w.unset = {}
        /\ w.promote \subseteq Book!Rows \ {w.id} /\ \A a, b \in w.promote : a = b
        /\ IsMain(w.id) => (Book!Rows \ {w.id} # {} => w.promote # {})
        /\ ~IsMain(w.id) => w.promote = {}
    BY <1>2, <1>6 DEF TransactionIs, TransactionSays
  <2>2. \A a \in Ids : IsMain(a)' <=> (a \in w.promote \/ (IsMain(a) /\ a # w.id))
    BY <1>2, <1>3, <1>6, <2>1 DEF Book!written, IsMain
  <2>3. Book!Rows' = Book!Rows \ {w.id}
    BY <1>1, <1>6, CommitWrites
  <2>4. CASE ~IsMain(w.id)
    BY <1>3, <2>1, <2>2, <2>4 DEF Kept, OneMain
  <2>5. CASE IsMain(w.id)
    <3>1. Book!Rows' # {} => \E a \in Ids : IsMain(a)'
      BY <1>3, <2>1, <2>2, <2>3, <2>5
    <3>2. OneMain => OneMain'
      BY <1>3, <2>1, <2>2, <2>5 DEF OneMain
    <3> QED
      BY <3>1, <3>2 DEF Kept
  <2> QED
    BY <2>4, <2>5
<1> QED
  BY <1>2, <1>4, <1>5, <1>6 DEF TransactionIs

\* A new row is the newest.
LEMMA AddedIsPlaced ==
    ASSUME NEW S, IsFiniteSet(S), NEW f, Placed(S, f), NEW x, x \notin S,
           NEW g, g = [a \in S \cup {x} |-> IF a = x THEN Cardinality(S) ELSE f[a]]
    PROVE  Placed(S \cup {x}, g)
<1>1. PICK n \in Nat : n = Cardinality(S)
  BY FS_CardinalityType
<1>2. Cardinality(S \cup {x}) = n + 1
  BY <1>1, FS_AddElement
<1>3. \A a \in S : f[a] \in Nat /\ f[a] < n /\ g[a] = f[a]
  BY <1>1 DEF Placed
<1>4. g[x] = n
  BY <1>1
<1>5. g \in [S \cup {x} -> Nat]
  BY <1>1, <1>3
<1>6. \A a \in S \cup {x} : g[a] < n + 1
  BY <1>3, <1>4
<1>7. \A a, b \in S \cup {x} : g[a] = g[b] => a = b
  BY <1>3, <1>4 DEF Placed
<1> QED
  BY <1>2, <1>5, <1>6, <1>7 DEF Placed

\* Those that are left keep their order.
LEMMA LeftArePlaced ==
    ASSUME NEW S, IsFiniteSet(S), NEW f, Placed(S, f), NEW T \in SUBSET S,
           NEW g, g = [a \in T |-> Cardinality({b \in T : f[b] < f[a]})]
    PROVE  Placed(T, g)
<1>1. IsFiniteSet(T) /\ \A a \in T : f[a] \in Nat
  BY FS_Subset DEF Placed
<1>2. ASSUME NEW a \in T
      PROVE  g[a] \in Nat /\ g[a] < Cardinality(T)
  <2>1. PICK B : B = {b \in T : f[b] < f[a]}
    OBVIOUS
  <2>2. B \in SUBSET T /\ a \notin B
    BY <1>1, <2>1
  <2>3. /\ Cardinality(B) \in Nat /\ Cardinality(T) \in Nat /\ Cardinality(B) <= Cardinality(T)
        /\ Cardinality(B) # Cardinality(T)
    BY <1>1, <2>2, FS_Subset, FS_CardinalityType
  <2> QED
    BY <2>1, <2>3
<1>3. ASSUME NEW a \in T, NEW b \in T, f[a] < f[b] PROVE g[a] # g[b]
  <2>1. PICK A : A = {c \in T : f[c] < f[a]}
    OBVIOUS
  <2>2. PICK B : B = {c \in T : f[c] < f[b]}
    OBVIOUS
  <2>3. A \in SUBSET B /\ a \in B /\ a \notin A /\ B \in SUBSET T
    BY <1>1, <1>3, <2>1, <2>2
  <2>4. IsFiniteSet(B)
    BY <1>1, <2>3, FS_Subset
  <2>5. Cardinality(A) # Cardinality(B)
    BY <2>3, <2>4, FS_Subset
  <2> QED
    BY <2>1, <2>2, <2>5
<1>4. ASSUME NEW a \in T, NEW b \in T, g[a] = g[b] PROVE a = b
  <2>1. ~(f[a] < f[b]) /\ ~(f[b] < f[a])
    BY <1>3, <1>4
  <2>2. f[a] = f[b]
    BY <1>1, <2>1
  <2> QED
    BY <2>2 DEF Placed
<1>5. g \in [T -> Nat]
  BY <1>2
<1> QED
  BY <1>2, <1>4, <1>5 DEF Placed

LEMMA CommitStep == ASSUME AddressInv, NEW r \in Requests, Book!commit(r) PROVE AddressInv'
<1>1. PICK w : w = transaction[r]
  OBVIOUS
<1>2. /\ TransactionIs(w) /\ isDefault' \in [Ids -> BOOLEAN \cup {None}]
      /\ w.kind = "create" => w.id \in Ids \ Book!Rows /\ Book!Rows' = Book!Rows \cup {w.id}
      /\ w.kind = "update" => Book!Rows' = Book!Rows
      /\ w.kind = "delete" => w.id \in Book!Rows /\ Book!Rows' = Book!Rows \ {w.id}
  BY <1>1, CommitWrites
<1>3. Placed(Book!Rows, newest) /\ IsFiniteSet(Book!Rows)
  BY DefaultsAre DEF AddressInv
<1>4. newest' = Book!places(w)
  BY <1>1 DEF Book!commit
<1>5. Placed(Book!Rows', newest')
  <2>1. CASE w.kind = "create"
    <3>1. newest' = [a \in Book!Rows \cup {w.id} |->
                       IF a = w.id THEN Cardinality(Book!Rows) ELSE newest[a]]
      BY <1>4, <2>1, BookCounts DEF Book!places
    <3>2. Placed(Book!Rows \cup {w.id}, newest')
      BY <1>2, <1>3, <2>1, <3>1, AddedIsPlaced
    <3> QED
      BY <1>2, <2>1, <3>2
  <2>2. CASE w.kind = "delete"
    <3>1. PICK T \in SUBSET Book!Rows : T = Book!Rows \ {w.id}
      OBVIOUS
    <3>2. newest' = [a \in T |-> Cardinality({b \in T : newest[b] < newest[a]})]
      BY <1>4, <2>2, <3>1, BookCounts DEF Book!places
    <3>3. Placed(T, newest')
      BY <1>3, <3>2, LeftArePlaced
    <3> QED
      BY <1>2, <2>2, <3>1, <3>3
  <2>3. CASE w.kind = "update"
    BY <1>2, <1>3, <1>4, <2>3 DEF Book!places
  <2> QED
    BY <1>2, <2>1, <2>2, <2>3 DEF TransactionIs
<1>6. Placed(Book!Rows, newest)'
  BY <1>5 DEF Placed
<1>7. /\ transaction' = [transaction EXCEPT ![r] = None] /\ found' = found
      /\ transaction[r] # None /\ overtaken' = Book!UnderWay \ {r}
      /\ crossed' = (crossed \/ r \in overtaken)
  BY DEF Book!commit
<1>8. /\ found'[r] = None /\ transaction'[r] = None
      /\ \A s \in Requests \ {r} : found'[s] = found[s] /\ transaction'[s] = transaction[s]
  BY <1>7 DEF AddressInv
<1>9. found' = [s \in Requests |-> found'[s]] /\ transaction' = [s \in Requests |-> transaction'[s]]
  BY <1>7 DEF AddressInv
<1>10. \A s \in Requests : /\ found'[s] # None => transaction'[s] = None /\ FoundIs(found[s])'
                           /\ transaction'[s] # None => TransactionIs(transaction[s])'
  BY <1>8 DEF AddressInv, FoundIs, TransactionIs
<1>11. \A s \in Requests : s \notin overtaken' => found'[s] = None /\ transaction'[s] = None
  BY <1>7, <1>8 DEF Book!UnderWay, Book!Open
<1>12. \A s \in Requests, a \in Ids :
          Creates(s, a)' => /\ a \notin Book!Rows'
                            /\ \A q \in Requests : Creates(q, a)' => q = s
  <2>1. \A s \in Requests, a \in Ids : Creates(s, a)' => Creates(s, a) /\ s # r
    BY <1>8 DEF Creates
  <2>2. \A a : w.kind = "create" /\ w.id = a => Creates(r, a)
    BY <1>1, <1>7 DEF Creates
  <2>3. \A a \in Book!Rows' : a \in Book!Rows \/ Creates(r, a)
    BY <1>2, <2>2 DEF TransactionIs
  <2> QED
    BY <2>1, <2>3 DEF AddressInv
<1>13. ~crossed' => OneMain'
  BY <1>7, CommitKeeps DEF AddressInv, Kept
<1>14. Book!AddressAssumption'
  BY DEF AddressInv, Book!AddressAssumption
<1> QED
  BY <1>2, <1>6, <1>9, <1>10, <1>11, <1>12, <1>13, <1>14 DEF AddressInv

LEMMA AddressStep == ASSUME AddressInv, [Book!Next]_Book!vars PROVE AddressInv'
<1>1. ASSUME NEW r \in Requests, NEW a \in Book!Rows, NEW flag \in Flags,
             Book!updateAddress(r, a, flag)
      PROVE  AddressInv'
  <2>1. flag \in BOOLEAN \cup {None}
    BY DEF AddressInv, Book!AddressAssumption
  <2> QED
    BY <1>1, <2>1, LookUpStep DEF Book!updateAddress
<1>2. ASSUME NEW r \in Requests, NEW a \in Book!Rows, Book!deleteAddress(r, a) PROVE AddressInv'
  BY <1>2, LookUpStep DEF Book!deleteAddress
<1>3. ASSUME UNCHANGED Book!vars PROVE AddressInv'
  <2>1. Book!Rows' = Book!Rows /\ \A a : IsMain(a)' <=> IsMain(a)
    BY <1>3 DEF Book!vars, Book!rows, Book!Rows, IsMain
  <2>2. Book!Defaults' = Book!Defaults
    BY <1>3, <2>1 DEF Book!Defaults, Book!vars, Book!rows
  <2>3. \A f : FoundSays(f) => FoundSays(f)'
    BY <1>3, <2>1 DEF Book!vars, Book!rows, FoundSays
  <2>4. \A w : TransactionSays(w) => TransactionSays(w)'
    BY <2>1, <2>2 DEF TransactionSays, Book!unset
  <2>5. Placed(Book!Rows, newest) => Placed(Book!Rows, newest)'
    BY <1>3, <2>1 DEF Book!vars, Book!rows, Placed
  <2>6. \A f, w : (FoundIs(f) => FoundIs(f)') /\ (TransactionIs(w) => TransactionIs(w)')
    BY DEF FoundIs, TransactionIs
  <2>7. \A r, a : Creates(r, a)' <=> Creates(r, a)
    BY <1>3 DEF Book!vars, Book!rows, Creates
  <2>8. OneMain => OneMain'
    BY <2>1 DEF OneMain
  <2>9. UNCHANGED <<isDefault, found, transaction, overtaken, crossed>>
    BY <1>3 DEF Book!vars, Book!rows
  <2>10. Book!AddressAssumption'
    BY DEF AddressInv, Book!AddressAssumption
  <2> QED
    BY <2>1, <2>3, <2>4, <2>5, <2>6, <2>7, <2>8, <2>9, <2>10 DEF AddressInv
<1>4. ASSUME Book!Next PROVE AddressInv'
  BY <1>1, <1>2, <1>4, CreateStep, BeginStep, RollBackStep, CommitStep DEF Book!Next
<1> QED
  BY <1>3, <1>4

\* One default address at most is one whose addresses are all the same.
LEMMA OneAtMost ==
    ASSUME NEW S, IsFiniteSet(S)
    PROVE  (Cardinality(S) <= 1) <=> (\A a, b \in S : a = b)
<1>1. CASE S = {}
  BY <1>1, FS_EmptySet
<1>2. CASE \E a \in S : S = {a}
  BY <1>2, FS_Singleton
<1>3. CASE \E a, b \in S : a # b
  <2>1. PICK a \in S, b \in S : a # b
    BY <1>3
  <2>2. {a, b} \in SUBSET S /\ Cardinality({a, b}) = 2
    <3>1. Cardinality({a} \cup {b}) = Cardinality({a}) + 1
      BY <2>1, FS_Singleton, FS_AddElement
    <3>2. Cardinality({a}) = 1 /\ {a} \cup {b} = {a, b}
      BY FS_Singleton
    <3> QED
      BY <3>1, <3>2
  <2>3. Cardinality(S) \in Nat /\ Cardinality({a, b}) <= Cardinality(S)
    BY <2>2, FS_Subset, FS_CardinalityType
  <2> QED
    BY <2>1, <2>2, <2>3
<1> QED
  BY <1>1, <1>2, <1>3

\* At most one address of a customer is the default, whatever is created, changed and
\* deleted at once, until a change is committed that another one had overtaken
\* (createAddress, updateAddress, deleteAddress).
THEOREM OneDefaultAddress ==
    ASSUME Book!AddressAssumption
    PROVE  Book!Spec => []Book!OneDefaultUntilCrossed
<1>1. ASSUME AddressInv PROVE Book!OneDefaultUntilCrossed
  <2>1. IsFiniteSet(Book!Defaults)
    BY <1>1, DefaultsAre, FS_Subset
  <2>2. ~crossed => \A a, b \in Book!Defaults : a = b
    BY <1>1, DefaultsAre DEF AddressInv, OneMain
  <2> QED
    BY <2>1, <2>2, OneAtMost, BookCounts DEF Book!OneDefaultUntilCrossed
<1> QED
  BY <1>1, AddressInit, AddressStep, PTL DEF Book!Spec

\* A change that no other overtook moves the default address and does not lose it:
\* whatever is under way beside it and was crossed before it, another takes its place as
\* long as there is one (the newest, in deleteAddress), and none is added to it.
THEOREM DefaultAddressMoves ==
    ASSUME Book!AddressAssumption
    PROVE  Book!Spec => [][Book!DefaultOnlyMoves]_Book!vars
<1>1. ASSUME AddressInv, [Book!Next]_Book!vars, AddressInv'
      PROVE  [Book!DefaultOnlyMoves]_Book!vars
  <2>1. Book!Defaults = {a \in Ids : IsMain(a)} /\ IsFiniteSet(Book!Defaults)
    BY <1>1, DefaultsAre, FS_Subset
  <2>2. Book!Defaults' = {a \in Ids : IsMain(a)'} /\ IsFiniteSet(Book!Defaults')
    <3>1. \A a \in Ids : isDefault'[a] \in BOOLEAN \cup {None}
      BY <1>1 DEF AddressInv
    <3>2. None \notin BOOLEAN /\ IsFiniteSet(Ids)
      BY <1>1, BookCounts DEF AddressInv, Book!AddressAssumption
    <3>3. Book!Defaults' = {a \in Ids : IsMain(a)'}
      BY <3>1, <3>2 DEF Book!Defaults, Book!Rows, IsMain
    <3> QED
      BY <3>2, <3>3, FS_Subset
  <2>3. ASSUME NEW r \in Requests, Book!commit(r) PROVE Book!DefaultOnlyMoves
    <3>1. \A q \in Book!Open \ {r} : transaction'[q] # None
      BY <1>1, <2>3 DEF AddressInv, Book!commit, Book!Open
    <3>2. CASE r \notin overtaken
      <4>1. Kept
        BY <1>1, <2>3, <3>2, CommitKeeps
      <4>2. Book!Defaults # {} /\ Book!Rows' # {} => Book!Defaults' # {}
        BY <2>1, <2>2, <4>1 DEF Kept
      <4>3. /\ (Cardinality(Book!Defaults) <= 1) <=> (\A a, b \in Book!Defaults : a = b)
            /\ (Cardinality(Book!Defaults') <= 1) <=> (\A a, b \in Book!Defaults' : a = b)
        BY <2>1, <2>2, OneAtMost
      <4>4. Cardinality(Book!Defaults) <= 1 => Cardinality(Book!Defaults') <= 1
        BY <2>1, <2>2, <4>1, <4>3 DEF Kept, OneMain
      <4> QED
        BY <4>2, <4>4, BookCounts DEF Book!DefaultOnlyMoves
    <3>3. CASE r \in overtaken
      BY <3>1, <3>3 DEF Book!DefaultOnlyMoves
    <3> QED
      BY <3>2, <3>3
  <2>4. CASE UNCHANGED isDefault
    <3>1. Book!Defaults' = Book!Defaults /\ Book!Rows' = Book!Rows
      BY <2>4 DEF Book!Defaults, Book!Rows
    <3> QED
      BY <3>1 DEF Book!DefaultOnlyMoves
  <2>5. (\E r \in Requests : Book!commit(r)) \/ UNCHANGED isDefault
    BY <1>1 DEF Book!Next, Book!vars, Book!rows, Book!createAddress, Book!updateAddress,
        Book!deleteAddress, Book!lookUp, Book!Reads, Book!beginCreate, Book!beginUpdate,
        Book!beginDelete, Book!Begin, Book!rollBack
  <2> QED
    BY <2>3, <2>4, <2>5
<1> QED
  BY <1>1, AddressInit, AddressStep, PTL DEF Book!Spec

\* An address that one change deletes is not brought back by another, nor put in the place
\* of the default: only a creation adds a row, and its own (the updates of a transaction
\* fail when a row of theirs is gone).
THEOREM DeletedStaysDeleted ==
    ASSUME Book!AddressAssumption
    PROVE  Book!Spec => [][Book!NothingComesBack]_Book!vars
<1>1. ASSUME AddressInv, [Book!Next]_Book!vars
      PROVE  [Book!NothingComesBack]_Book!vars
  <2>1. ASSUME NEW r \in Requests, Book!commit(r) PROVE Book!NothingComesBack
    <3>1. PICK w : w = transaction[r]
      OBVIOUS
    <3>2. /\ w # None /\ TransactionIs(w)
          /\ w.kind = "create" => Book!Rows' = Book!Rows \cup {w.id}
          /\ w.kind = "update" => Book!Rows' = Book!Rows
          /\ w.kind = "delete" => Book!Rows' = Book!Rows \ {w.id}
      BY <1>1, <2>1, <3>1, CommitWrites
    <3>3. r \in Book!Open
      BY <3>1, <3>2 DEF Book!Open
    <3>4. \A a \in Ids : isDefault[a] = None /\ isDefault'[a] # None =>
             w.kind = "create" /\ w.id = a
      BY <3>2 DEF Book!Rows, TransactionIs
    <3> QED
      BY <3>1, <3>3, <3>4 DEF Book!NothingComesBack
  <2>2. CASE UNCHANGED isDefault
    BY <2>2 DEF Book!NothingComesBack
  <2>3. (\E r \in Requests : Book!commit(r)) \/ UNCHANGED isDefault
    BY <1>1 DEF Book!Next, Book!vars, Book!rows, Book!createAddress, Book!updateAddress,
        Book!deleteAddress, Book!lookUp, Book!Reads, Book!beginCreate, Book!beginUpdate,
        Book!beginDelete, Book!Begin, Book!rollBack
  <2> QED
    BY <2>1, <2>2, <2>3
<1> QED
  BY <1>1, AddressInit, AddressStep, PTL DEF Book!Spec
-----------------------------------------------------------------------------
(***************************************************************************)
(* The favourites, for every number of presses and of changes of the       *)
(* product, with one card whose requests are all answered.                 *)
(*                                                                         *)
(* A card that saves is disabled, so that a heart that is told has the     *)
(* only request there is, and the row is what that one says.               *)
(***************************************************************************)

\* One heart of a card, and no answer is lost.
OneHeart == Details = {} /\ Lists = {} /\ Faults = 0 /\ \A g, h \in Cards : g = h

HeartRow == [liked : BOOLEAN, saving : BOOLEAN, told : BOOLEAN]

\* A press waits for its answer; what it has done is in the row.
CallIs(c) ==
    /\ c \in Wish!Calls /\ c.from \in Cards /\ c.method = IF c.was THEN "DELETE" ELSE "POST"
    /\ c.live = TRUE => heart[c.from].saving = TRUE /\ c.was = heart[c.from].liked

\* It is the only request there is, and the row follows it.
Follows(c) ==
    /\ calls = {c} /\ c.live = TRUE
    /\ c.step = "DONE" => favourite = ~c.was

HeartInv ==
    /\ OneHeart /\ favourite \in BOOLEAN /\ active \in BOOLEAN /\ spent.faults = 0
    /\ spent \in [presses : Nat, faults : Nat, withdrawals : Nat] /\ Presses \in Nat
    /\ heart \in [Cards -> HeartRow]
    /\ \A c \in calls : CallIs(c)
    /\ \A c, d \in calls : c.live = TRUE /\ d.live = TRUE => c = d
    /\ \A c \in calls : c.alone = TRUE /\ c.live = TRUE => Follows(c)
    /\ \A h \in Cards : heart[h].told = TRUE =>
         /\ \A c \in calls : Follows(c) /\ (c.step # "DONE" => favourite = c.was)
         /\ calls = {} => heart[h].liked = favourite

LEMMA OneHeartIs ==
    ASSUME OneHeart
    PROVE  Wish!Hearts = Cards
BY DEF OneHeart, Wish!Hearts

LEMMA HeartInit == ASSUME Wish!WishlistAssumption, OneHeart, Wish!Init PROVE HeartInv
<1>1. spent = [presses |-> 0, faults |-> 0, withdrawals |-> 0] /\ Presses \in Nat
  BY DEF Wish!Init, Wish!WishlistAssumption
<1>2. /\ heart = [h \in Cards |-> Wish!mounted]
      /\ Wish!mounted \in HeartRow /\ Wish!mounted.told = FALSE
  BY OneHeartIs DEF Wish!Init, Wish!mounted, HeartRow
<1>3. heart \in [Cards -> HeartRow] /\ \A h \in Cards : heart[h].told = FALSE
  BY <1>2
<1>4. calls = {} /\ favourite = FALSE /\ active = TRUE
  BY DEF Wish!Init
<1>5. spent \in [presses : Nat, faults : Nat, withdrawals : Nat] /\ spent.faults = 0
  BY <1>1
<1> QED
  BY <1>1, <1>3, <1>4, <1>5 DEF HeartInv

\* What a heart that is pressed asks.
LEMMA ToggleStep == ASSUME HeartInv, NEW h \in Cards, Wish!Toggle(h) PROVE HeartInv'
<1>1. heart[h] \in HeartRow /\ heart[h].saving = FALSE
  BY DEF HeartInv, Wish!Toggle, Wish!canPress, HeartRow
<1>2. PICK c : c = Wish!request(h, IF heart[h].liked THEN "DELETE" ELSE "POST", heart[h].liked)
  OBVIOUS
<1>3. /\ calls' = calls \cup {c} /\ spent.presses < Presses
      /\ spent' = [spent EXCEPT !.presses = @ + 1]
      /\ heart' = [heart EXCEPT ![h].saving = TRUE] /\ UNCHANGED <<favourite, active, list>>
  BY <1>2 DEF Wish!Toggle, Wish!Send
<1>4. /\ spent' \in [presses : Nat, faults : Nat, withdrawals : Nat] /\ spent'.faults = 0
      /\ spent.presses + 1 \in 1 .. Presses
  BY <1>3 DEF HeartInv
<1>5. /\ c.from = h /\ c.was = heart[h].liked /\ c.live = TRUE /\ c.step = "SENT"
      /\ c.method = (IF c.was THEN "DELETE" ELSE "POST") /\ c.alone = (calls = {})
  BY <1>2 DEF Wish!request
<1>6. c \in Wish!Calls
  <2>1. (calls = {}) \in BOOLEAN /\ heart[h].liked \in BOOLEAN
    BY <1>1 DEF HeartRow
  <2>2. h \in Wish!Hearts \cup Lists
    BY DEF Wish!Hearts
  <2> QED
    BY <1>2, <1>4, <2>1, <2>2 DEF Wish!request, Wish!Calls
<1>7. PICK g : g = [heart[h] EXCEPT !.saving = TRUE]
  OBVIOUS
<1>8. g \in HeartRow /\ g.saving = TRUE /\ g.liked = heart[h].liked /\ g.told = heart[h].told
  BY <1>1, <1>7 DEF HeartRow
<1>9. heart' = [heart EXCEPT ![h] = g] /\ heart' \in [Cards -> HeartRow] /\ heart'[h] = g
  BY <1>3, <1>7, <1>8 DEF HeartInv
<1>10. \A d \in calls : d.live # TRUE
  BY <1>1 DEF HeartInv, CallIs, OneHeart
<1>11. CallIs(c)'
  BY <1>5, <1>6, <1>8, <1>9 DEF CallIs
<1>12. \A d \in calls : CallIs(d)'
  BY <1>10 DEF HeartInv, CallIs
<1>13. calls = {} => Follows(c)'
  BY <1>3, <1>5 DEF Follows
<1>14. ASSUME NEW k \in Cards, heart'[k].told = TRUE
       PROVE  /\ calls = {} /\ heart[k].liked = favourite
  <2>1. k = h /\ heart[h].told = TRUE
    BY <1>8, <1>9, <1>14 DEF HeartInv, OneHeart
  <2>2. \A d \in calls : d.live = TRUE
    BY <2>1 DEF HeartInv, Follows
  <2> QED
    BY <1>10, <2>1, <2>2 DEF HeartInv
<1>15. \A d \in calls' : d.alone = TRUE /\ d.live = TRUE => Follows(d)'
  BY <1>3, <1>5, <1>10, <1>13
<1>16. \A d \in calls' : CallIs(d)'
  BY <1>3, <1>11, <1>12
<1>17. \A d, e \in calls' : d.live = TRUE /\ e.live = TRUE => d = e
  BY <1>3, <1>10
<1>18. \A k \in Cards : heart'[k].told = TRUE =>
         /\ \A d \in calls' : Follows(d)' /\ (d.step # "DONE" => favourite' = d.was)
         /\ calls' = {} => heart'[k].liked = favourite'
  <2>1. ASSUME NEW k \in Cards, heart'[k].told = TRUE
        PROVE  \A d \in calls' : Follows(d)' /\ (d.step # "DONE" => favourite' = d.was)
    <3>1. k = h
      BY DEF HeartInv, OneHeart
    <3> QED
      BY <1>3, <1>5, <1>13, <1>14, <2>1, <3>1
  <2> QED
    BY <1>3, <2>1
<1> QED
  BY <1>3, <1>4, <1>9, <1>15, <1>16, <1>17, <1>18 DEF HeartInv

LEMMA RemountStep == ASSUME HeartInv, NEW h \in Cards, Wish!Remount(h) PROVE HeartInv'
<1>1. /\ heart' = [heart EXCEPT ![h] = Wish!mounted]
      /\ UNCHANGED <<favourite, active, list, spent>>
      /\ calls' = {IF c.from = h THEN [c EXCEPT !.live = FALSE] ELSE c : c \in calls}
  BY DEF Wish!Remount
<1>2. Wish!mounted \in HeartRow /\ Wish!mounted.told = FALSE
  BY DEF Wish!mounted, HeartRow
<1>3. heart' \in [Cards -> HeartRow] /\ \A k \in Cards : heart'[k].told = FALSE
  BY <1>1, <1>2 DEF HeartInv, OneHeart
<1>4. \A d \in calls' : CallIs(d)' /\ d.live = FALSE
  <2>1. SUFFICES ASSUME NEW d \in calls' PROVE CallIs(d)' /\ d.live = FALSE
    OBVIOUS
  <2>2. PICK c \in calls : d = IF c.from = h THEN [c EXCEPT !.live = FALSE] ELSE c
    BY <1>1, <2>1
  <2>3. CallIs(c) /\ c.from = h
    BY DEF HeartInv, CallIs, OneHeart
  <2>4. d = [c EXCEPT !.live = FALSE]
    BY <2>2, <2>3
  <2>5. /\ d \in Wish!Calls /\ d.from = c.from /\ d.method = c.method /\ d.was = c.was
        /\ d.live = FALSE
    BY <2>3, <2>4 DEF CallIs, Wish!Calls
  <2> QED
    BY <2>3, <2>5 DEF CallIs
<1> QED
  BY <1>1, <1>3, <1>4 DEF HeartInv

\* A request is served: the row becomes what it asks, unless it is refused.
LEMMA ServeStep ==
    ASSUME HeartInv, NEW c \in calls, c.step = "SENT", NEW step \in {"DONE", "FAILED"},
           Wish!Answer(c, step, FALSE), favourite' \in BOOLEAN,
           UNCHANGED <<active, heart, list, spent>>,
           step = "DONE" => favourite' = ~c.was, step = "FAILED" => favourite' = favourite
    PROVE  HeartInv'
<1>1. PICK d : d = [c EXCEPT !.step = step, !.says = FALSE]
  OBVIOUS
<1>2. calls' = (calls \ {c}) \cup {d}
  BY <1>1 DEF Wish!Answer
<1>3. CallIs(c)
  BY DEF HeartInv
<1>4. /\ d \in Wish!Calls /\ d.from = c.from /\ d.method = c.method /\ d.was = c.was
      /\ d.live = c.live /\ d.alone = c.alone /\ d.step = step
  BY <1>1, <1>3 DEF CallIs, Wish!Calls
<1>5. \A e \in calls' : CallIs(e)'
  BY <1>2, <1>3, <1>4 DEF CallIs, HeartInv
<1>6. \A e, f \in calls' : e.live = TRUE /\ f.live = TRUE => e = f
  BY <1>2, <1>4 DEF HeartInv
<1>7. Follows(c) => Follows(d)'
  BY <1>2, <1>4 DEF Follows
<1>8. \A e \in calls' : e.alone = TRUE /\ e.live = TRUE => Follows(e)'
  <2>1. SUFFICES ASSUME NEW e \in calls', e.alone = TRUE, e.live = TRUE PROVE Follows(e)'
    OBVIOUS
  <2>2. CASE e = d
    BY <1>4, <1>7, <2>1, <2>2 DEF HeartInv
  <2>3. CASE e \in calls \ {c}
    <3>1. calls = {e}
      BY <2>1, <2>3 DEF HeartInv, Follows
    <3> QED
      BY <2>3, <3>1
  <2> QED
    BY <1>2, <2>2, <2>3
<1>9. ASSUME NEW k \in Cards, heart'[k].told = TRUE
      PROVE  /\ \A e \in calls' : Follows(e)' /\ (e.step # "DONE" => favourite' = e.was)
             /\ calls' # {}
  <2>1. Follows(c) /\ favourite = c.was
    BY <1>9 DEF HeartInv
  <2>2. calls' = {d}
    BY <1>2, <2>1 DEF Follows
  <2>3. d.step # "DONE" => favourite' = d.was
    BY <1>4, <2>1
  <2> QED
    BY <1>7, <2>1, <2>2, <2>3
<1> QED
  BY <1>5, <1>6, <1>8, <1>9 DEF HeartInv

LEMMA AnsweredStep == ASSUME HeartInv, NEW c \in calls, Wish!Toggled(c) PROVE HeartInv'
<1>1. PICK h : h = c.from
  OBVIOUS
<1>2. CallIs(c) /\ h \in Cards /\ heart[h] \in HeartRow /\ \A k \in Cards : k = h
  BY <1>1 DEF HeartInv, CallIs, OneHeart
<1>3. /\ c.step # "SENT" /\ calls' = calls \ {c} /\ UNCHANGED <<favourite, active, list, spent>>
      /\ c.live \in BOOLEAN /\ c.was \in BOOLEAN /\ c.alone \in BOOLEAN
      /\ c.step \in {"SENT", "DONE", "FAILED"}
  BY <1>2 DEF Wish!Toggled, CallIs, Wish!Calls
<1>4. CASE c.live = FALSE
  <2>1. heart' = heart
    BY <1>4 DEF Wish!Toggled
  <2>2. \A e \in calls' : CallIs(e)'
    BY <1>3, <2>1 DEF HeartInv, CallIs
  <2>3. \A e \in calls' : ~Follows(e)
    BY <1>3 DEF Follows
  <2>4. \A k \in Cards : heart[k].told # TRUE
    BY <1>4 DEF HeartInv, Follows
  <2> QED
    BY <1>3, <2>1, <2>2, <2>3, <2>4 DEF HeartInv
<1>5. CASE c.live = TRUE
  <2>1. PICK g : g = [liked |-> Wish!likedAfter(c, heart[h].liked), saving |-> FALSE,
                      told |-> heart[h].told \/ (c.alone /\ c.step = "DONE")]
    OBVIOUS
  <2>2. heart' = [heart EXCEPT ![h] = g]
    BY <1>1, <1>5, <2>1 DEF Wish!Toggled
  <2>3. g \in HeartRow /\ g.liked = Wish!likedAfter(c, heart[h].liked)
    <3>1. Wish!likedAfter(c, heart[h].liked) \in BOOLEAN
      BY <1>2, <1>3 DEF Wish!likedAfter, HeartRow
    <3>2. (heart[h].told \/ (c.alone /\ c.step = "DONE")) \in BOOLEAN
      OBVIOUS
    <3> QED
      BY <2>1, <3>1, <3>2 DEF HeartRow
  <2>4. g.told = TRUE => heart[h].told = TRUE \/ (c.alone = TRUE /\ c.step = "DONE")
    BY <1>2, <1>3, <2>1 DEF HeartRow
  <2>5. heart' \in [Cards -> HeartRow] /\ heart'[h] = g
    BY <1>2, <2>2, <2>3 DEF HeartInv
  <2>6. \A e \in calls' : CallIs(e)' /\ e.live # TRUE
    BY <1>3, <1>5 DEF HeartInv, CallIs
  <2>7. ASSUME NEW k \in Cards, heart'[k].told = TRUE PROVE calls' = {} /\ g.liked = favourite
    <3>1. k = h /\ g.told = TRUE
      BY <1>2, <2>5, <2>7
    <3>2. heart[h].told = TRUE \/ (c.alone = TRUE /\ c.step = "DONE")
      BY <2>4, <3>1
    <3>3. Follows(c)
      BY <1>2, <1>5, <3>2 DEF HeartInv
    <3>4. calls' = {}
      BY <1>3, <3>3 DEF Follows
    <3>5. CASE c.step = "DONE"
      BY <2>3, <3>3, <3>4, <3>5 DEF Follows, Wish!likedAfter
    <3>6. CASE c.step # "DONE"
      <4>1. favourite = c.was
        BY <1>2, <3>2, <3>6 DEF HeartInv
      <4>2. c.was = heart[h].liked
        BY <1>1, <1>2, <1>5 DEF CallIs
      <4> QED
        BY <2>3, <3>4, <3>6, <4>1, <4>2 DEF Wish!likedAfter
    <3> QED
      BY <3>4, <3>5, <3>6
  <2> QED
    BY <1>2, <1>3, <2>5, <2>6, <2>7 DEF HeartInv
<1> QED
  BY <1>3, <1>4, <1>5

LEMMA HeartStep == ASSUME HeartInv, [Wish!Next]_Wish!wishVars PROVE HeartInv'
<1>1. Wish!Hearts = Cards /\ Lists = {} /\ Faults = 0 /\ spent.faults = 0
  BY OneHeartIs DEF HeartInv, OneHeart
<1>2. ASSUME NEW c \in calls PROVE c.method # "GET" /\ c.was \in BOOLEAN /\ c.from \notin Lists
  BY <1>1 DEF HeartInv, CallIs, Wish!Calls
<1>3. ASSUME NEW c \in calls, Wish!addWishlistItem(c) PROVE HeartInv'
  <2>1. c.was = FALSE
    BY <1>2, <1>3 DEF Wish!addWishlistItem, HeartInv, CallIs
  <2>2. active \in BOOLEAN /\ favourite \in BOOLEAN
    BY DEF HeartInv
  <2>3. CASE active
    BY <1>3, <2>1, <2>2, <2>3, ServeStep DEF Wish!addWishlistItem
  <2>4. CASE ~active
    BY <1>3, <2>1, <2>2, <2>4, ServeStep DEF Wish!addWishlistItem
  <2> QED
    BY <2>3, <2>4
<1>4. ASSUME NEW c \in calls, Wish!removeWishlistItem(c) PROVE HeartInv'
  <2>1. c.was = TRUE
    BY <1>2, <1>4 DEF Wish!removeWishlistItem, HeartInv, CallIs
  <2> QED
    BY <1>4, <2>1, ServeStep DEF Wish!removeWishlistItem
<1>5. ASSUME Wish!SetActive PROVE HeartInv'
  <2>1. /\ spent' = [spent EXCEPT !.withdrawals = @ + 1] /\ active' = ~active
        /\ UNCHANGED <<favourite, heart, list, calls>>
    BY <1>5 DEF Wish!SetActive
  <2>2. spent' \in [presses : Nat, faults : Nat, withdrawals : Nat] /\ spent'.faults = 0
    BY <2>1 DEF HeartInv
  <2> QED
    BY <2>1, <2>2 DEF HeartInv, CallIs, Follows
<1>6. ASSUME UNCHANGED Wish!wishVars PROVE HeartInv'
  BY <1>6 DEF Wish!wishVars, HeartInv, CallIs, Follows
<1>7. ASSUME Wish!Next PROVE HeartInv'
  <2>1. \A c \in calls : ~Wish!wishlist(c) /\ ~Wish!Listed(c) /\ ~Wish!Lose(c)
    BY <1>1, <1>2 DEF Wish!wishlist, Wish!Listed, Wish!Lose
  <2> QED
    BY <1>1, <1>3, <1>4, <1>5, <1>7, <2>1, ToggleStep, RemountStep, AnsweredStep DEF Wish!Next
<1> QED
  BY <1>6, <1>7

\* A heart that was told of a press shows what is stored (toggleWishlist), however often
\* it is pressed, left and shown again and the product withdrawn: with one card and no
\* answer lost.
THEOREM HeartsAgree ==
    ASSUME Wish!WishlistAssumption, OneHeart
    PROVE  Wish!Spec => []Wish!HeartAgrees
<1>1. HeartInv => Wish!HeartAgrees
  <2>1. SUFFICES ASSUME HeartInv, NEW h \in Wish!Hearts, heart[h].told, ~Wish!waitedFor(h)
                 PROVE  heart[h].liked = favourite
    BY DEF Wish!HeartAgrees
  <2>2. h \in Cards /\ heart[h] \in HeartRow
    BY <2>1, OneHeartIs DEF HeartInv
  <2>3. heart[h].told = TRUE
    BY <2>1, <2>2 DEF HeartRow
  <2>4. calls = {}
    BY <2>1, <2>2 DEF Wish!waitedFor, HeartInv, CallIs, OneHeart
  <2> QED
    BY <2>1, <2>2, <2>3, <2>4 DEF HeartInv
<1> QED
  BY <1>1, HeartInit, HeartStep, PTL DEF Wish!Spec
=============================================================================

--------------------------- MODULE CheckoutProofs ---------------------------
(***************************************************************************)
(* Proofs about Checkout, for every set of orders, variants, carts and     *)
(* customers, every stock and every bound.                                 *)
(*                                                                         *)
(* First its stock: each transaction writes only rows that its tables can  *)
(* hold; the stock counters stay balanced and the reserved counter is the  *)
(* number of units that ACTIVE reservations hold, so nothing is oversold;  *)
(* the stock movements explain the counters; and Checkout implements the   *)
(* stock ledger.                                                           *)
(*                                                                         *)
(* Then what its orders hold while they are pending, paid and closed:      *)
(* their reservations, their payment attempts and their use of the         *)
(* promotion.                                                              *)
(***************************************************************************)
EXTENDS CheckoutProperties, SequenceTheorems, WellFoundedInduction, FiniteSetTheorems, TLAPS
-----------------------------------------------------------------------------
(* Attempts.                                                               *)

\* Newest picks the greatest element of a set of positions.
LEMMA NewestIsGreatest ==
    ASSUME NEW n \in Nat, NEW T \in SUBSET (1..n), T # {}
    PROVE  /\ Newest(T) \in T
           /\ \A j \in T : j <= Newest(T)
<1> DEFINE D == {d \in Nat : n - d \in T}
<1>1. \A i \in T : i \in Nat /\ n - i \in D
  OBVIOUS
<1>2. D \subseteq Nat /\ D # {}
  BY <1>1
<1>3. PICK d \in D : \A e \in D : ~ (<<e, d>> \in OpToRel(<, Nat))
  BY <1>2, NatLessThanWellFounded, WFMin
<1>4. ASSUME NEW e \in D PROVE ~ (e < d)
  <2>1. e \in Nat /\ d \in Nat
    OBVIOUS
  <2>2. e < d => <<e, d>> \in OpToRel(<, Nat)
    BY <2>1 DEF OpToRel
  <2> QED
    BY <1>3, <2>2
<1>5. n - d \in T /\ d \in Nat
  OBVIOUS
<1>6. ASSUME NEW j \in T PROVE j <= n - d
  <2>1. n - j \in D /\ ~ (n - j < d)
    BY <1>1, <1>4
  <2> QED
    BY <1>1, <1>5, <2>1
<1> QED
  BY <1>1, <1>5, <1>6 DEF Newest

\* Changing one attempt to another one, or all of them one by one, gives a
\* sequence of attempts of the same length.
LEMMA SameLengthSeq ==
    ASSUME NEW S, NEW s \in Seq(S), NEW t, t \in [DOMAIN s -> S]
    PROVE  t \in Seq(S) /\ Len(t) = Len(s) /\ DOMAIN t = DOMAIN s
<1>1. /\ Len(s) \in Nat /\ DOMAIN s = 1..Len(s)
  BY LenProperties
<1>2. t \in [1..Len(s) -> S]
  BY <1>1
<1>3. t \in Seq(S)
  BY <1>1, <1>2, SeqDef
<1>4. Len(t) \in Nat /\ DOMAIN t = 1..Len(t)
  BY <1>3, LenProperties
<1> QED
  BY <1>1, <1>2, <1>3, <1>4
-----------------------------------------------------------------------------
(* Types.                                                                  *)

\* Types of the changes that several transactions make.
LEMMA MovedType ==
    ASSUME NEW m \in [Variants -> [MovementTypes -> Int]], NEW type \in MovementTypes,
           NEW units \in [Variants -> Int]
    PROVE  Moved(m, type, units) \in [Variants -> [MovementTypes -> Int]]
BY DEF Moved

LEMMA CancelAttemptsType ==
    ASSUME payments \in [Orders -> Seq(Attempt)], NEW o \in Orders, NEW statuses
    PROVE  /\ CancelAttempts(o, statuses) \in [Orders -> Seq(Attempt)]
           /\ Len(CancelAttempts(o, statuses)[o]) = Len(payments[o])
<1> DEFINE s == payments[o]
           t == [i \in DOMAIN s |-> IF s[i].status \in statuses
                                    THEN [s[i] EXCEPT !.status = "CANCELLED"]
                                    ELSE s[i]]
<1>1. s \in Seq(Attempt)
  OBVIOUS
<1>2. ASSUME NEW i \in DOMAIN s PROVE t[i] \in Attempt
  <2>1. s[i] \in Attempt
    BY <1>1, ElementOfSeq, LenProperties
  <2>2. [s[i] EXCEPT !.status = "CANCELLED"] \in Attempt
    BY <2>1 DEF Attempt, PaymentStatuses
  <2> QED
    BY <2>1, <2>2
<1>3. t \in [DOMAIN s -> Attempt]
  BY <1>2
<1> HIDE DEF t
<1>4. t \in Seq(Attempt) /\ Len(t) = Len(s)
  BY <1>1, <1>3, SameLengthSeq
<1>5. CancelAttempts(o, statuses) = [payments EXCEPT ![o] = t]
  BY DEF CancelAttempts, t
<1> QED
  BY <1>4, <1>5

\* Types of what a request's choice and destination stand for.
LEMMA ChoiceTypes ==
    ASSUME NEW choice \in Choices, NEW destination
    PROVE  /\ MethodOf(choice) \in {"CASH", "BANK_TRANSFER", "PAYMENT_LINK", "CARD"}
           /\ quoteStatus(destination) \in {"NOT_REQUIRED", "PENDING", "QUOTED"}
           /\ shippingCents(destination) \in Nat
<1>1. choice \in AllChoices
  BY ChoiceAssumption
<1> QED
  BY <1>1, FeeAssumption DEF AllChoices, MethodOf, quoteStatus, shippingCents

LEMMA LifetimeType == ASSUME NEW method PROVE reservationLifetime(method) \in Nat
BY TimeAssumption DEF reservationLifetime

LEMMA ExpirationType ==
    ASSUME now \in Nat, NEW quote, NEW method
    PROVE  expirationAfter(quote, method) \in Nat
BY LifetimeType, TimeAssumption DEF expirationAfter

LEMMA NewAttemptType ==
    ASSUME NEW choice \in Choices, NEW amount \in Nat
    PROVE  newAttempt(choice, amount) \in Attempt
BY ChoiceAssumption DEF newAttempt, Attempt, PaymentStatuses

\* A row keeps its type when some of its columns change.
LEMMA OrderRowStatus ==
    ASSUME NEW r \in OrderRow, NEW s \in OrderStatuses, NEW p \in PaymentStatuses
    PROVE  [r EXCEPT !.status = s, !.paymentStatus = p] \in OrderRow
BY DEF OrderRow

LEMMA ReservationRowChange ==
    ASSUME NEW r \in ReservationRow
    PROVE  /\ \A s \in ReservationStatuses : [r EXCEPT !.status = s] \in ReservationRow
           /\ \A t \in Nat : [r EXCEPT !.expiresAt = t] \in ReservationRow
BY DEF ReservationRow

\* Types of what returning units, releasing the promotion and confirming a
\* payment change.
LEMMA ReturnUnitsType ==
    ASSUME TypeOK, NEW o \in Orders, NEW lines, NEW to \in ReservationStatuses,
           ReturnUnits(o, lines, to)
    PROVE  /\ onHand' \in [Variants -> Int]
           /\ available' \in [Variants -> Int]
           /\ reserved' \in [Variants -> Int]
           /\ movement' \in [Variants -> [MovementTypes -> Int]]
           /\ reservation' \in [Orders -> [Variants -> ReservationRow]]
<1> DEFINE units == [v \in Variants |-> IF v \in lines THEN order[o].items[v] ELSE 0]
<1>1. units \in [Variants -> Int]
  BY DEF TypeOK, OrderRow, AllBaskets
<1> HIDE DEF units
<1>2. /\ available' = [v \in Variants |-> available[v] + units[v]]
      /\ reserved' = [v \in Variants |-> reserved[v] - units[v]]
      /\ movement' = Moved(movement, "RELEASE", units)
      /\ onHand' = onHand
  BY DEF ReturnUnits, units
<1>3. movement' \in [Variants -> [MovementTypes -> Int]]
  BY <1>1, <1>2, MovedType DEF TypeOK, MovementTypes
<1>4. reservation' \in [Orders -> [Variants -> ReservationRow]]
  <2> DEFINE t == [v \in Variants |-> IF v \in lines
                                      THEN [reservation[o][v] EXCEPT !.status = to]
                                      ELSE reservation[o][v]]
  <2>1. reservation' = [reservation EXCEPT ![o] = t]
    BY DEF ReturnUnits
  <2>2. \A v \in Variants : reservation[o][v] \in ReservationRow
    BY DEF TypeOK
  <2>3. t \in [Variants -> ReservationRow]
    BY <2>2, ReservationRowChange
  <2> HIDE DEF t
  <2> QED
    BY <2>1, <2>3 DEF TypeOK
<1> QED
  BY <1>1, <1>2, <1>3, <1>4 DEF TypeOK

LEMMA ReleasePromotionType ==
    ASSUME TypeOK, NEW o \in Orders, ReleasePromotion(o)
    PROVE  uses' \in Nat /\ applied' \in [Orders -> {"NONE", "APPLIED", "RELEASED"}]
<1>1. CASE applied[o] = "APPLIED"
  <2>1. /\ uses' = IF uses > 0 THEN uses - 1 ELSE uses
        /\ applied' = [applied EXCEPT ![o] = "RELEASED"]
    BY <1>1 DEF ReleasePromotion
  <2>2. uses \in Nat /\ applied \in [Orders -> {"NONE", "APPLIED", "RELEASED"}]
    BY DEF TypeOK
  <2>3. uses' \in Nat
    BY <2>1, <2>2
  <2> QED
    BY <2>1, <2>2, <2>3
<1>2. CASE applied[o] # "APPLIED"
  BY <1>2 DEF TypeOK, ReleasePromotion, promotion
<1> QED
  BY <1>1, <1>2

LEMMA CancelOrderType ==
    ASSUME TypeOK, NEW o \in Orders, CancelOrder(o)
    PROVE  /\ onHand' \in [Variants -> Int]
           /\ available' \in [Variants -> Int]
           /\ reserved' \in [Variants -> Int]
           /\ movement' \in [Variants -> [MovementTypes -> Int]]
           /\ reservation' \in [Orders -> [Variants -> ReservationRow]]
           /\ payments' \in [Orders -> Seq(Attempt)]
           /\ order' \in [Orders -> OrderRow]
           /\ uses' \in Nat
           /\ applied' \in [Orders -> {"NONE", "APPLIED", "RELEASED"}]
<1>1. ReturnUnits(o, ActiveItems(o), "RELEASED") /\ ReleasePromotion(o)
  BY DEF CancelOrder
<1>2. payments' \in [Orders -> Seq(Attempt)]
  BY CancelAttemptsType DEF CancelOrder, TypeOK
<1>3. order' \in [Orders -> OrderRow]
  <2>1. order[o] \in OrderRow
    BY DEF TypeOK
  <2>2. [order[o] EXCEPT !.status = "CANCELLED", !.paymentStatus = "CANCELLED"]
           \in OrderRow
    BY <2>1, OrderRowStatus DEF OrderStatuses, PaymentStatuses
  <2>3. order' = [order EXCEPT ![o] =
            [@ EXCEPT !.status = "CANCELLED", !.paymentStatus = "CANCELLED"]]
    BY DEF CancelOrder, TypeOK
  <2> QED
    BY <2>2, <2>3 DEF TypeOK
<1> QED
  BY <1>1, <1>2, <1>3, ReturnUnitsType, ReleasePromotionType DEF ReservationStatuses

LEMMA ConfirmType ==
    ASSUME TypeOK, NEW o \in Orders, NEW i, NEW attempts \in Seq(Attempt),
           ConfirmOrderPayment(o, i, attempts)
    PROVE  /\ onHand' \in [Variants -> Int]
           /\ available' \in [Variants -> Int]
           /\ reserved' \in [Variants -> Int]
           /\ movement' \in [Variants -> [MovementTypes -> Int]]
           /\ reservation' \in [Orders -> [Variants -> ReservationRow]]
           /\ payments' \in [Orders -> Seq(Attempt)]
           /\ order' \in [Orders -> OrderRow]
           /\ approvals' \in [Orders -> Nat]
<1> DEFINE units == [v \in Variants |-> Held(o, v)]
           sold == [v \in Variants |-> -units[v]]
<1>1. units \in [Variants -> Int] /\ sold \in [Variants -> Int]
  BY DEF TypeOK, OrderRow, AllBaskets, Held
<1> HIDE DEF units
<1>2. /\ onHand' = [v \in Variants |-> onHand[v] - units[v]]
      /\ reserved' = [v \in Variants |-> reserved[v] - units[v]]
      /\ movement' = Moved(movement, "SALE", sold)
      /\ available' = available
  BY DEF ConfirmOrderPayment, units
<1>3. movement' \in [Variants -> [MovementTypes -> Int]]
  <2> HIDE DEF sold
  <2> QED
    BY <1>1, <1>2, MovedType DEF TypeOK, MovementTypes
<1>4. reservation' \in [Orders -> [Variants -> ReservationRow]]
  <2> DEFINE t == [v \in Variants |-> IF v \in ActiveItems(o)
                                      THEN [reservation[o][v] EXCEPT !.status = "CONSUMED"]
                                      ELSE reservation[o][v]]
  <2>1. reservation' = [reservation EXCEPT ![o] = t]
    BY DEF ConfirmOrderPayment
  <2>2. \A v \in Variants : reservation[o][v] \in ReservationRow
    BY DEF TypeOK
  <2>3. t \in [Variants -> ReservationRow]
    BY <2>2, ReservationRowChange DEF ReservationStatuses
  <2> HIDE DEF t
  <2> QED
    BY <2>1, <2>3 DEF TypeOK
<1>5. order' \in [Orders -> OrderRow] /\ approvals' \in [Orders -> Nat]
  <2>1. order[o] \in OrderRow
    BY DEF TypeOK
  <2>2. [order[o] EXCEPT !.status = "CONFIRMED", !.paymentStatus = "APPROVED"]
           \in OrderRow
    BY <2>1, OrderRowStatus DEF OrderStatuses, PaymentStatuses
  <2>3. order' = [order EXCEPT ![o] =
            [@ EXCEPT !.status = "CONFIRMED", !.paymentStatus = "APPROVED"]]
    BY DEF ConfirmOrderPayment, TypeOK
  <2>4. approvals' = [approvals EXCEPT ![o] = @ + 1]
    BY DEF ConfirmOrderPayment
  <2> QED
    BY <2>2, <2>3, <2>4 DEF TypeOK
<1>6. payments' \in [Orders -> Seq(Attempt)]
  <2> DEFINE t == [attempts EXCEPT ![i].status = "APPROVED"]
  <2>1. payments' = [payments EXCEPT ![o] = t]
    BY DEF ConfirmOrderPayment
  <2>2. ASSUME NEW j \in DOMAIN attempts PROVE t[j] \in Attempt
    <3>1. attempts[j] \in Attempt
      BY ElementOfSeq, LenProperties
    <3>2. [attempts[j] EXCEPT !.status = "APPROVED"] \in Attempt
      BY <3>1 DEF Attempt, PaymentStatuses
    <3> QED
      BY <3>1, <3>2
  <2>3. t \in [DOMAIN attempts -> Attempt]
    BY <2>2
  <2> HIDE DEF t
  <2>4. t \in Seq(Attempt)
    BY <2>3, SameLengthSeq
  <2> QED
    BY <2>1, <2>4 DEF TypeOK
<1>7. /\ onHand' \in [Variants -> Int]
      /\ reserved' \in [Variants -> Int]
      /\ available' \in [Variants -> Int]
  <2>1. /\ onHand \in [Variants -> Int]
        /\ reserved \in [Variants -> Int]
        /\ available \in [Variants -> Int]
    BY DEF TypeOK
  <2> HIDE DEF sold
  <2> QED
    BY <1>1, <1>2, <2>1
<1> QED
  BY <1>3, <1>4, <1>5, <1>6, <1>7

-----------------------------------------------------------------------------
\* What a new deadline of an order does to its reservations.
LEMMA DeadlineType ==
    ASSUME reservation \in [Orders -> [Variants -> ReservationRow]],
           NEW o \in Orders, NEW expiresAt \in Nat
    PROVE  [reservation EXCEPT ![o] =
               [v \in Variants |-> IF v \in ActiveItems(o)
                                   THEN [@[v] EXCEPT !.expiresAt = expiresAt]
                                   ELSE @[v]]]
              \in [Orders -> [Variants -> ReservationRow]]
<1> DEFINE t == [v \in Variants |-> IF v \in ActiveItems(o)
                                    THEN [reservation[o][v] EXCEPT !.expiresAt = expiresAt]
                                    ELSE reservation[o][v]]
<1>1. t \in [Variants -> ReservationRow]
  BY ReservationRowChange
<1>2. [reservation EXCEPT ![o] = t] \in [Orders -> [Variants -> ReservationRow]]
  <2> HIDE DEF t
  <2> QED
    BY <1>1
<1> QED
  BY <1>2

\* Reviewing or rejecting a stored proof leaves a proof.
LEMMA ProofStatusType ==
    ASSUME NEW p \in ProofRow \cup {NoProof}, p.status = "PENDING_REVIEW",
           NEW s \in {"APPROVED", "REJECTED"}
    PROVE  [p EXCEPT !.status = s] \in ProofRow
<1>1. p \in ProofRow
  BY DEF NoProof
<1> QED
  BY <1>1 DEF ProofRow

\* What a change of a pending checkout writes, whatever it decides.
CheckoutWritten(o, choice, destination, quote, shipping, expiresAt) ==
    /\ order' = [order EXCEPT ![o].method = MethodOf(choice),
         ![o].destination = destination, ![o].quote = quote,
         ![o].shipping = shipping, ![o].paymentStatus = "PENDING",
         ![o].expiresAt = expiresAt]
    /\ reservation' = [reservation EXCEPT ![o] =
         [v \in Variants |-> IF v \in ActiveItems(o)
                             THEN [@[v] EXCEPT !.expiresAt = expiresAt]
                             ELSE @[v]]]
AttemptWritten(o, choice, shipping) ==
    \/ UNCHANGED <<payments, proof>>
    \/ /\ payments' = [payments EXCEPT ![o] =
              Append(CancelAttempts(o, {"PENDING", "REJECTED"})[o],
                     newAttempt(choice, shipping))]
       /\ \E superseded : proof' = [d \in Proofs |->
              IF /\ proof[d].status = "PENDING_REVIEW"
                 /\ proof[d].order = o /\ proof[d].attempt \in superseded
              THEN [proof[d] EXCEPT !.status = "REJECTED"] ELSE proof[d]]

\* A change of a pending checkout writes values of the right types.
LEMMA UpdateShape ==
    ASSUME TypeOK, NEW o \in Orders, NEW choice \in Choices,
           NEW destination \in Destinations,
           UpdatePendingCheckout(o, choice, destination)
    PROVE  \E quote \in {"NOT_REQUIRED", "PENDING", "QUOTED"}, shipping \in Nat,
              expiresAt \in Nat :
              /\ CheckoutWritten(o, choice, destination, quote, shipping, expiresAt)
              /\ AttemptWritten(o, choice, shipping)
<1> DEFINE
      kept == /\ ~addressChanged(o, destination)
              /\ deliveryMethod(order[o].destination) = "SHIPPING"
              /\ deliveryMethod(destination) = "SHIPPING"
              /\ order[o].quote = "QUOTED"
      quote == IF kept THEN "QUOTED" ELSE quoteStatus(destination)
      shipping == IF kept THEN order[o].shipping ELSE shippingCents(destination)
      current == payments[o][Newest(Live(o))]
      changed == \/ order[o].method # MethodOf(choice)
                 \/ Live(o) = {} \/ ProviderOf(current.choice) # ProviderOf(choice)
                 \/ deliveryMethod(order[o].destination) # deliveryMethod(destination)
                 \/ addressChanged(o, destination)
                 \/ order[o].shipping # shipping
      latest == order[o].createdAt + CashLife
      proposed == expirationAfter(quote, MethodOf(choice))
      expiresAt == CASE ~changed -> order[o].expiresAt
                     [] proposed < latest -> proposed
                     [] OTHER -> latest
<1>1. order[o] \in OrderRow /\ now \in Nat
  BY DEF TypeOK
<1>2. quote \in {"NOT_REQUIRED", "PENDING", "QUOTED"} /\ shipping \in Nat
  BY <1>1, ChoiceTypes DEF OrderRow
<1>3. latest \in Nat /\ order[o].expiresAt \in Nat
  BY <1>1, TimeAssumption DEF OrderRow
<1>4. proposed \in Nat
  BY <1>1, ExpirationType
<1>5. expiresAt \in Nat
  <2> HIDE DEF changed, proposed, latest
  <2> QED
    BY <1>3, <1>4
<1>6. CheckoutWritten(o, choice, destination, quote, shipping, expiresAt)
  BY DEF UpdatePendingCheckout, CheckoutWritten
<1>7. AttemptWritten(o, choice, shipping)
  BY Zenon DEF UpdatePendingCheckout, AttemptWritten
<1> HIDE DEF quote, shipping, expiresAt
<1> QED
  BY <1>2, <1>5, <1>6, <1>7

\* The initial state is type-correct.
LEMMA TypeInit == Init => TypeOK
<1> SUFFICES ASSUME Init PROVE TypeOK
  OBVIOUS
<1>1. NoBasket \in AllBaskets
  BY QuantityAssumption DEF NoBasket, AllBaskets
<1>2. /\ onHand \in [Variants -> Int] /\ available \in [Variants -> Int]
      /\ reserved \in [Variants -> Int]
      /\ movement \in [Variants -> [MovementTypes -> Int]]
  BY StockAssumption DEF Init, NoBasket
<1>3. cart \in [Carts -> CartRow]
  <2>1. PICK filled \in [OpeningCarts -> Baskets] :
           cart = [c \in Carts |->
                     IF c \in OpeningCarts
                     THEN [status |-> "ACTIVE", items |-> filled[c], customer |-> "none"]
                     ELSE NoCart]
    BY DEF Init
  <2>2. \A c \in OpeningCarts : filled[c] \in AllBaskets
    BY BasketAssumption
  <2> QED
    BY <1>1, <2>1, <2>2 DEF CartRow, NoCart
<1>4. order \in [Orders -> OrderRow]
  BY <1>1 DEF Init, NoOrder, OrderRow, PaymentStatuses
<1>5. reservation \in [Orders -> [Variants -> ReservationRow]]
  BY DEF Init, NoReservation, ReservationRow, ReservationStatuses
<1>6. payments \in [Orders -> Seq(Attempt)]
  <2>1. <<>> \in Seq(Attempt)
    BY EmptySeq
  <2> QED
    BY <2>1 DEF Init
<1> QED
  BY <1>2, <1>3, <1>4, <1>5, <1>6 DEF Init, TypeOK

\* Every step keeps the types.
LEMMA TypeNext == TypeOK /\ [Next]_vars => TypeOK'
<1> SUFFICES ASSUME TypeOK, [Next]_vars PROVE TypeOK'
  OBVIOUS
<1>1. ASSUME NEW o \in Orders, NEW c \in Carts, NEW customer \in Customers,
             NEW choice \in Choices, NEW destination \in Destinations,
             NEW eligible \in BOOLEAN,
             Create(o, c, customer, choice, destination, eligible)
      PROVE  TypeOK'
  <2> DEFINE items == cart[c].items
             quote == quoteStatus(destination)
             expiresAt == expirationAfter(quote, MethodOf(choice))
  <2>1. items \in AllBaskets /\ expiresAt \in Nat
    BY ExpirationType DEF TypeOK, CartRow
  <2>2. items \in [Variants -> Int]
    BY <2>1 DEF AllBaskets
  <2>3. /\ available' \in [Variants -> Int] /\ reserved' \in [Variants -> Int]
        /\ onHand' \in [Variants -> Int]
    BY <1>1, <2>2 DEF Create, TypeOK
  <2>4. movement' \in [Variants -> [MovementTypes -> Int]]
    <3>1. movement' = Moved(movement, "RESERVATION", items)
      BY <1>1 DEF Create
    <3> QED
      BY <2>2, <3>1, MovedType DEF TypeOK, MovementTypes
  <2>5. cart' \in [Carts -> CartRow]
    BY <1>1 DEF Create, TypeOK, CartRow
  <2>6. order' \in [Orders -> OrderRow]
    <3> DEFINE r == [status |-> "PENDING_PAYMENT", paymentStatus |-> "PENDING",
                method |-> MethodOf(choice), destination |-> destination,
                quote |-> quote, shipping |-> shippingCents(destination),
                createdAt |-> now, expiresAt |-> expiresAt,
                customer |-> customer, items |-> items]
    <3>1. r \in OrderRow
      <4> HIDE DEF items, expiresAt
      <4> QED
        BY <2>1, ChoiceTypes DEF OrderRow, OrderStatuses, PaymentStatuses, TypeOK
    <3>2. order' = [order EXCEPT ![o] = r]
      BY <1>1 DEF Create
    <3> HIDE DEF r
    <3> QED
      BY <3>1, <3>2 DEF TypeOK
  <2>7. reservation' \in [Orders -> [Variants -> ReservationRow]]
    <3> DEFINE t == [v \in Variants |->
                   IF items[v] > 0
                   THEN [status |-> "ACTIVE", expiresAt |-> expiresAt]
                   ELSE NoReservation]
    <3>1. t \in [Variants -> ReservationRow]
      <4> HIDE DEF items, expiresAt
      <4> QED
        BY <2>1 DEF ReservationRow, ReservationStatuses, NoReservation
    <3>2. reservation' = [reservation EXCEPT ![o] = t]
      BY <1>1 DEF Create
    <3> HIDE DEF t
    <3> QED
      BY <3>1, <3>2 DEF TypeOK
  <2>8. payments' \in [Orders -> Seq(Attempt)]
    <3>1. <<newAttempt(choice, shippingCents(destination))>> \in Seq(Attempt)
      BY NewAttemptType, ChoiceTypes
    <3>2. payments' = [payments EXCEPT ![o] =
                          <<newAttempt(choice, shippingCents(destination))>>]
      BY <1>1 DEF Create
    <3> QED
      BY <3>1, <3>2 DEF TypeOK
  <2>9. uses' \in Nat /\ applied' \in [Orders -> {"NONE", "APPLIED", "RELEASED"}]
    <3>1. \/ uses' = uses + 1 /\ applied' = [applied EXCEPT ![o] = "APPLIED"]
          \/ uses' = uses /\ applied' = applied
      BY <1>1 DEF Create, promotion
    <3>2. uses \in Nat /\ applied \in [Orders -> {"NONE", "APPLIED", "RELEASED"}]
      BY DEF TypeOK
    <3> QED
      BY <3>1, <3>2
  <2> QED
    BY <1>1, <2>3, <2>4, <2>5, <2>6, <2>7, <2>8, <2>9 DEF Create, TypeOK
<1>2. ASSUME NEW o \in Orders, NEW choice \in Choices, NEW destination \in Destinations,
             UpdatePendingCheckout(o, choice, destination)
      PROVE  TypeOK'
  <2>1. PICK quote \in {"NOT_REQUIRED", "PENDING", "QUOTED"}, shipping \in Nat,
             expiresAt \in Nat :
              /\ CheckoutWritten(o, choice, destination, quote, shipping, expiresAt)
              /\ AttemptWritten(o, choice, shipping)
    BY <1>2, UpdateShape
  <2>2. order' \in [Orders -> OrderRow]
    <3>1. order[o] \in OrderRow
      BY DEF TypeOK
    <3> DEFINE r == [order[o] EXCEPT !.method = MethodOf(choice),
               !.destination = destination, !.quote = quote,
               !.shipping = shipping, !.paymentStatus = "PENDING",
               !.expiresAt = expiresAt]
    <3>2. r \in OrderRow
      BY <3>1, ChoiceTypes DEF OrderRow, PaymentStatuses
    <3>3. order' = [order EXCEPT ![o] = r]
      BY <2>1 DEF CheckoutWritten, TypeOK
    <3> HIDE DEF r
    <3> QED
      BY <3>2, <3>3 DEF TypeOK
  <2>3. reservation' \in [Orders -> [Variants -> ReservationRow]]
    BY <2>1, DeadlineType DEF CheckoutWritten, TypeOK
  <2>4. payments' \in [Orders -> Seq(Attempt)]
    <3>1. CancelAttempts(o, {"PENDING", "REJECTED"})[o] \in Seq(Attempt)
      BY CancelAttemptsType DEF TypeOK
    <3>2. Append(CancelAttempts(o, {"PENDING", "REJECTED"})[o],
                 newAttempt(choice, shipping)) \in Seq(Attempt)
      BY <3>1, NewAttemptType, AppendProperties
    <3> QED
      BY <2>1, <3>2 DEF AttemptWritten, TypeOK
  <2>5. proof' \in [Proofs -> ProofRow \cup {NoProof}]
    <3>1. CASE proof' = proof
      BY <3>1 DEF TypeOK
    <3>2. CASE proof' # proof
      <4>1. PICK superseded : proof' = [d \in Proofs |->
                       IF /\ proof[d].status = "PENDING_REVIEW"
                          /\ proof[d].order = o /\ proof[d].attempt \in superseded
                       THEN [proof[d] EXCEPT !.status = "REJECTED"] ELSE proof[d]]
        BY <2>1, <3>2 DEF AttemptWritten
      <4>2. ASSUME NEW d \in Proofs, proof[d].status = "PENDING_REVIEW"
            PROVE  [proof[d] EXCEPT !.status = "REJECTED"] \in ProofRow
        BY <4>2, ProofStatusType DEF TypeOK
      <4> QED
        BY <4>1, <4>2 DEF TypeOK
    <3> QED
      BY <3>1, <3>2
  <2> QED
    BY <1>2, <2>2, <2>3, <2>4, <2>5
       DEF UpdatePendingCheckout, TypeOK, stock, promotion
<1>3. ASSUME NEW o \in Orders, NEW c \in Carts, ReopenCheckout(o, c)
      PROVE  TypeOK'
  <2>1. cart' \in [Carts -> CartRow]
    BY <1>3 DEF ReopenCheckout, TypeOK, CartRow, OrderRow
  <2>2. CancelOrder(o)
    BY <1>3 DEF ReopenCheckout
  <2> QED
    BY <1>3, <2>1, <2>2, CancelOrderType DEF ReopenCheckout, TypeOK
<1>4. ASSUME NEW o \in Orders, Cancel(o)
      PROVE  TypeOK'
  <2>1. CancelOrder(o)
    BY <1>4 DEF Cancel
  <2> QED
    BY <1>4, <2>1, CancelOrderType DEF Cancel, TypeOK
<1>5. ASSUME NEW o \in Orders, UploadRead(o)
      PROVE  TypeOK'
  <2> DEFINE transfers == {i \in Live(o) : payments[o][i].choice = "BANK_TRANSFER"}
  <2>1. /\ uploads' = uploads \cup {<<o, Newest(transfers)>>}
        /\ transfers # {}
    BY <1>5 DEF UploadRead
  <2>2. Newest(transfers) \in Nat
    <3>1. payments[o] \in Seq(Attempt)
      BY DEF TypeOK
    <3>2. Len(payments[o]) \in Nat /\ DOMAIN payments[o] = 1..Len(payments[o])
      BY <3>1, LenProperties
    <3>3. transfers \in SUBSET (1..Len(payments[o]))
      BY <3>2 DEF Live
    <3> HIDE DEF transfers
    <3>4. Newest(transfers) \in transfers
      BY <2>1, <3>2, <3>3, NewestIsGreatest
    <3>5. Newest(transfers) \in 1..Len(payments[o])
      BY <3>3, <3>4
    <3> HIDE DEF Newest
    <3> QED
      BY <3>2, <3>5
  <2>3. uploads' \subseteq Orders \X Nat
    <3> HIDE DEF transfers
    <3> QED
      BY <2>1, <2>2 DEF TypeOK
  <2> QED
    BY <1>5, <2>3 DEF UploadRead, TypeOK, stock, promotion
<1>6. ASSUME NEW o \in Orders, NEW i \in 1..MaxAttempts, NEW d \in Proofs,
             UploadWrite(o, i, d)
      PROVE  TypeOK'
  <2>1. proof' = [proof EXCEPT ![d] =
            [status |-> "PENDING_REVIEW", order |-> o, attempt |-> i]]
    BY <1>6 DEF UploadWrite
  <2>2. [status |-> "PENDING_REVIEW", order |-> o, attempt |-> i] \in ProofRow
    BY TimeAssumption DEF ProofRow
  <2>3. proof' \in [Proofs -> ProofRow \cup {NoProof}]
    BY <2>1, <2>2 DEF TypeOK
  <2> QED
    BY <1>6, <2>3 DEF UploadWrite, TypeOK, stock, promotion
<1>7. ASSUME NEW d \in Proofs, NEW verdict \in {"APPROVED", "REJECTED"},
             ReviewTransferProof(d, verdict)
      PROVE  TypeOK'
  <2>1. proof[d] \in ProofRow /\ [proof[d] EXCEPT !.status = verdict] \in ProofRow
    <3>1. proof[d].status = "PENDING_REVIEW" /\ proof[d] \in ProofRow \cup {NoProof}
      BY <1>7 DEF ReviewTransferProof, TypeOK
    <3>2. proof[d] \in ProofRow
      BY <3>1 DEF NoProof
    <3>3. [proof[d] EXCEPT !.status = verdict] \in ProofRow
      BY <3>1, ProofStatusType
    <3> QED
      BY <3>2, <3>3
  <2>2. proof' \in [Proofs -> ProofRow \cup {NoProof}]
    <3>1. proof' = [proof EXCEPT ![d] = [@ EXCEPT !.status = verdict]]
      BY <1>7 DEF ReviewTransferProof
    <3> QED
      BY <2>1, <3>1 DEF TypeOK
  <2> DEFINE o == proof[d].order
  <2>3. o \in Orders /\ payments[o] \in Seq(Attempt)
    BY <2>1 DEF ProofRow, TypeOK
  <2>4. \/ ConfirmOrderPayment(o, proof[d].attempt, payments[o])
        \/ UNCHANGED <<stock, order, reservation, payments, approvals>>
    BY <1>7 DEF ReviewTransferProof
  <2>5. CASE ConfirmOrderPayment(o, proof[d].attempt, payments[o])
    <3> HIDE DEF o
    <3> QED
      BY <1>7, <2>2, <2>3, <2>5, ConfirmType DEF ReviewTransferProof, TypeOK, promotion
  <2>6. CASE UNCHANGED <<stock, order, reservation, payments, approvals>>
    BY <1>7, <2>2, <2>6 DEF ReviewTransferProof, TypeOK, promotion, stock
  <2> QED
    BY <2>4, <2>5, <2>6
<1>8. ASSUME NEW o \in Orders, ConfirmCashPayment(o)
      PROVE  TypeOK'
  <2>1. PICK i : ConfirmOrderPayment(o, i, payments[o])
    BY <1>8 DEF ConfirmCashPayment
  <2>2. payments[o] \in Seq(Attempt)
    BY DEF TypeOK
  <2> QED
    BY <1>8, <2>1, <2>2, ConfirmType DEF ConfirmCashPayment, TypeOK, promotion
<1>9. ASSUME NEW o \in Orders, NEW fee \in Quotes, SetShippingQuote(o, fee)
      PROVE  TypeOK'
  <2> DEFINE expiresAt == now + reservationLifetime(order[o].method)
             i == Newest(Live(o))
             r == [order[o] EXCEPT !.shipping = fee, !.quote = "QUOTED",
                                   !.expiresAt = expiresAt]
             s == [payments[o] EXCEPT ![i].amount = fee]
  <2>1. expiresAt \in Nat /\ fee \in Nat
    BY LifetimeType, FeeAssumption DEF TypeOK
  <2>2. /\ order' = [order EXCEPT ![o] = r]
        /\ payments' = [payments EXCEPT ![o] = s]
        /\ reservation' = [reservation EXCEPT ![o] =
               [v \in Variants |-> IF v \in ActiveItems(o)
                                   THEN [@[v] EXCEPT !.expiresAt = expiresAt]
                                   ELSE @[v]]]
    BY <1>9 DEF SetShippingQuote, TypeOK
  <2> HIDE DEF expiresAt, i
  <2>3. order' \in [Orders -> OrderRow]
    <3>1. r \in OrderRow
      BY <2>1 DEF TypeOK, OrderRow
    <3> HIDE DEF r
    <3> QED
      BY <2>2, <3>1 DEF TypeOK
  <2>4. payments' \in [Orders -> Seq(Attempt)]
    <3>1. payments[o] \in Seq(Attempt)
      BY DEF TypeOK
    <3>2. ASSUME NEW j \in DOMAIN payments[o] PROVE s[j] \in Attempt
      <4>1. payments[o][j] \in Attempt
        BY <3>1, ElementOfSeq, LenProperties
      <4>2. [payments[o][j] EXCEPT !.amount = fee] \in Attempt
        BY <2>1, <4>1 DEF Attempt
      <4> QED
        BY <4>1, <4>2
    <3>3. s \in [DOMAIN payments[o] -> Attempt]
      BY <3>2
    <3> HIDE DEF s
    <3>4. s \in Seq(Attempt)
      BY <3>1, <3>3, SameLengthSeq
    <3> QED
      BY <2>2, <3>4 DEF TypeOK
  <2>5. reservation' \in [Orders -> [Variants -> ReservationRow]]
    BY <2>1, <2>2, DeadlineType DEF TypeOK
  <2> QED
    BY <1>9, <2>3, <2>4, <2>5 DEF SetShippingQuote, TypeOK, stock, promotion
<1>10. ASSUME NEW o \in Orders, NEW v \in Variants, ExpireOne(o, v)
       PROVE  TypeOK'
  <2>1. ReturnUnits(o, {v}, "EXPIRED")
    BY <1>10 DEF ExpireOne
  <2>2. CASE ActiveItems(o) = {v}
    <3>1. /\ ReleasePromotion(o)
          /\ payments' = CancelAttempts(o, {"PENDING", "IN_PROCESS"})
      BY <1>10, <2>2 DEF ExpireOne
    <3>2. payments' \in [Orders -> Seq(Attempt)]
      BY <3>1, CancelAttemptsType DEF TypeOK
    <3>3. order' \in [Orders -> OrderRow]
      <4>1. \/ order' = order
            \/ order' = [order EXCEPT ![o] =
                  [@ EXCEPT !.status = "EXPIRED", !.paymentStatus = "CANCELLED"]]
        BY <1>10, <2>2 DEF ExpireOne, TypeOK
      <4>2. order[o] \in OrderRow
        BY DEF TypeOK
      <4>3. [order[o] EXCEPT !.status = "EXPIRED", !.paymentStatus = "CANCELLED"]
               \in OrderRow
        BY <4>2, OrderRowStatus DEF OrderStatuses, PaymentStatuses
      <4> QED
        BY <4>1, <4>3 DEF TypeOK
    <3> QED
      BY <1>10, <2>1, <3>1, <3>2, <3>3, ReturnUnitsType, ReleasePromotionType
         DEF ExpireOne, TypeOK, ReservationStatuses
  <2>3. CASE ActiveItems(o) # {v}
    BY <1>10, <2>1, <2>3, ReturnUnitsType
       DEF ExpireOne, TypeOK, ReservationStatuses, promotion
  <2> QED
    BY <2>2, <2>3
<1>11. ASSUME NEW v \in Variants, NEW counted \in Recounts, UpdateInventory(v, counted)
       PROVE  TypeOK'
  <2>1. counted \in Int
    BY StockAssumption
  <2>2. /\ onHand' \in [Variants -> Int]
        /\ available' \in [Variants -> Int]
    BY <1>11, <2>1 DEF UpdateInventory, TypeOK
  <2>3. movement' \in [Variants -> [MovementTypes -> Int]]
    <3> DEFINE m == [movement[v] EXCEPT !.ADJUSTMENT = @ + counted - onHand[v]]
    <3>1. movement[v] \in [MovementTypes -> Int] /\ onHand[v] \in Int
      BY DEF TypeOK
    <3>2. m \in [MovementTypes -> Int]
      BY <2>1, <3>1 DEF MovementTypes
    <3>3. movement' = [movement EXCEPT ![v] = m]
      BY <1>11 DEF UpdateInventory, TypeOK
    <3> HIDE DEF m
    <3> QED
      BY <3>2, <3>3 DEF TypeOK
  <2> QED
    BY <1>11, <2>2, <2>3 DEF UpdateInventory, TypeOK, promotion
<1>12. CASE Tick
  BY <1>12 DEF Tick, TypeOK, stock, promotion
<1>13. CASE UNCHANGED vars
  BY <1>13 DEF vars, TypeOK, stock, promotion
<1> QED
  BY <1>1, <1>2, <1>3, <1>4, <1>5, <1>6, <1>7, <1>8, <1>9, <1>10, <1>11, <1>12,
     <1>13 DEF Next

\* TypeOK holds for every set of orders, carts, customers and variants, every
\* stock and every lifetime: no transaction writes a row its table cannot hold.
THEOREM TypeCorrect == Spec => []TypeOK
<1>1. Init => TypeOK
  BY TypeInit
<1>2. TypeOK /\ [Next]_vars => TypeOK'
  BY TypeNext
<1> QED
  BY <1>1, <1>2, PTL DEF Spec
-----------------------------------------------------------------------------
(* Units.  A function h that says how many units each order holds stands   *)
(* for the set of those units.                                             *)

Units(h) == {u \in Orders \X (1..MaxQty) : u[2] <= h[u[1]]}

LEMMA UnitsFinite ==
    ASSUME NEW h
    PROVE  IsFiniteSet(Units(h)) /\ Cardinality(Units(h)) \in Nat
<1>1. IsFiniteSet(1..MaxQty)
  BY QuantityAssumption, FS_Interval
<1>2. IsFiniteSet(Orders \X (1..MaxQty))
  BY <1>1, FiniteOrders, FS_Product
<1>3. Units(h) \in SUBSET (Orders \X (1..MaxQty))
  BY DEF Units
<1> QED
  BY <1>2, <1>3, FS_Subset, FS_CardinalityType

\* When one order comes to hold k units, the number of units held changes by k
\* less what the order held.
LEMMA UnitsOfOneOrder ==
    ASSUME NEW h \in [Orders -> 0..MaxQty], NEW o \in Orders, NEW k \in 0..MaxQty
    PROVE  /\ Cardinality(Units([h EXCEPT ![o] = k]))
                = Cardinality(Units(h)) - h[o] + k
           /\ h[o] <= Cardinality(Units(h))
<1> DEFINE Rest == {u \in Orders \X (1..MaxQty) : u[1] # o /\ u[2] <= h[u[1]]}
           Own(n) == {o} \X (1..n)
<1>1. IsFiniteSet(Rest) /\ Cardinality(Rest) \in Nat
  <2>1. Rest \in SUBSET Units(h)
    BY DEF Units
  <2> QED
    BY <2>1, UnitsFinite, FS_Subset, FS_CardinalityType
<1>2. ASSUME NEW n \in 0..MaxQty
      PROVE  IsFiniteSet(Own(n)) /\ Cardinality(Own(n)) = n
  <2>0. n \in Nat
    BY QuantityAssumption
  <2>1. IsFiniteSet(1..n) /\ Cardinality(1..n) = n
    BY <2>0, FS_Interval
  <2>2. IsFiniteSet({o}) /\ Cardinality({o}) = 1
    BY FS_Singleton
  <2> QED
    BY <2>1, <2>2, FS_Product
<1>3. ASSUME NEW g \in [Orders -> 0..MaxQty], \A p \in Orders \ {o} : g[p] = h[p]
      PROVE  Cardinality(Units(g)) = Cardinality(Rest) + g[o]
  <2>1. Units(g) = Rest \cup Own(g[o])
    BY <1>3, QuantityAssumption DEF Units
  <2>2. Rest \cap Own(g[o]) = {}
    OBVIOUS
  <2>3. IsFiniteSet(Own(g[o])) /\ Cardinality(Own(g[o])) = g[o] /\ g[o] \in Nat
    BY <1>2, <1>3, QuantityAssumption
  <2> HIDE DEF Rest, Own
  <2>4. Cardinality(Units(g)) = Cardinality(Rest) + Cardinality(Own(g[o]))
                                - Cardinality({})
    BY <1>1, <2>1, <2>2, <2>3, FS_Union
  <2> QED
    BY <1>1, <2>3, <2>4, FS_EmptySet
<1>4. Cardinality(Units(h)) = Cardinality(Rest) + h[o]
  BY <1>3
<1>5. Cardinality(Units([h EXCEPT ![o] = k])) = Cardinality(Rest) + k
  <2> DEFINE g == [h EXCEPT ![o] = k]
  <2>1. g \in [Orders -> 0..MaxQty] /\ g[o] = k /\ \A p \in Orders \ {o} : g[p] = h[p]
    OBVIOUS
  <2> HIDE DEF g
  <2>2. Cardinality(Units(g)) = Cardinality(Rest) + k
    BY <1>3, <2>1
  <2> QED
    BY <2>2 DEF g
<1> QED
  BY <1>1, <1>4, <1>5, QuantityAssumption

-----------------------------------------------------------------------------
(* The units that the orders hold of one variant.                          *)

Holds(v) == [o \in Orders |-> IF reservation[o][v].status = "ACTIVE"
                              THEN order[o].items[v] ELSE 0]

\* An order that was not created holds nothing.  Without it a new order could
\* overwrite ACTIVE reservations, and the counters would keep their units.
UnplacedHoldsNothing ==
    \A o \in Orders : order[o].status = "NONE" => ActiveItems(o) = {}

StockInv == TypeOK /\ StockBalanced /\ ReservedIsHeld /\ UnplacedHoldsNothing

LEMMA HoldsType ==
    ASSUME TypeOK, NEW v \in Variants
    PROVE  Holds(v) \in [Orders -> 0..MaxQty] /\ HeldUnits(v) = Units(Holds(v))
<1>1. \A o \in Orders : order[o].items[v] \in 0..MaxQty
  BY DEF TypeOK, OrderRow, AllBaskets
<1>2. Holds(v) \in [Orders -> 0..MaxQty]
  BY <1>1, QuantityAssumption DEF Holds
<1>3. HeldUnits(v) = Units(Holds(v))
  BY <1>1, QuantityAssumption DEF HeldUnits, Units, Holds
<1> QED
  BY <1>2, <1>3

LEMMA CountersType ==
    ASSUME TypeOK, NEW v \in Variants, NEW o \in Orders
    PROVE  /\ reserved[v] \in Int /\ available[v] \in Int /\ onHand[v] \in Int
           /\ Holds(v)[o] \in Nat /\ Holds(v)[o] \in 0..MaxQty
<1>1. reserved[v] \in Int /\ available[v] \in Int /\ onHand[v] \in Int
  BY DEF TypeOK
<1>2. Holds(v)[o] \in 0..MaxQty
  <2>1. Holds(v) \in [Orders -> 0..MaxQty]
    BY HoldsType
  <2> QED
    BY <2>1
<1> QED
  BY <1>1, <1>2, QuantityAssumption

\* Changing an order's statuses changes nothing else of it.
LEMMA StatusKeepsItems ==
    ASSUME NEW r \in OrderRow, NEW s, NEW p
    PROVE  /\ [r EXCEPT !.status = s, !.paymentStatus = p].items = r.items
           /\ [r EXCEPT !.status = s, !.paymentStatus = p].status = s
BY DEF OrderRow

LEMMA HoldsTypeNext ==
    ASSUME TypeOK', NEW v \in Variants
    PROVE  Holds(v)' \in [Orders -> 0..MaxQty] /\ HeldUnits(v)' = Units(Holds(v)')
<1>1. \A o \in Orders : order'[o].items[v] \in 0..MaxQty
  BY DEF TypeOK, OrderRow, AllBaskets
<1>2. Holds(v)' \in [Orders -> 0..MaxQty]
  BY <1>1, QuantityAssumption DEF Holds
<1>3. HeldUnits(v)' = Units(Holds(v)')
  BY <1>1, QuantityAssumption DEF HeldUnits, Units, Holds
<1> QED
  BY <1>2, <1>3

\* When one order comes to hold k units of v and the reserved counter moves by
\* as much, the counter is still right.  The counter covers what any order holds.
LEMMA CounterFollows ==
    ASSUME StockInv, TypeOK', NEW v \in Variants, NEW o \in Orders, NEW k \in 0..MaxQty,
           Holds(v)' = [Holds(v) EXCEPT ![o] = k],
           reserved'[v] = reserved[v] - Holds(v)[o] + k
    PROVE  /\ reserved'[v] = Cardinality(HeldUnits(v)')
           /\ reserved'[v] >= 0
<1>1. /\ Holds(v) \in [Orders -> 0..MaxQty]
      /\ reserved[v] = Cardinality(Units(Holds(v)))
  BY HoldsType DEF StockInv, ReservedIsHeld
<1>2. HeldUnits(v)' = Units([Holds(v) EXCEPT ![o] = k])
  BY HoldsTypeNext
<1>3. Cardinality(Units([Holds(v) EXCEPT ![o] = k]))
         = Cardinality(Units(Holds(v))) - Holds(v)[o] + k
  BY <1>1, UnitsOfOneOrder
<1>4. Cardinality(Units([Holds(v) EXCEPT ![o] = k])) \in Nat
  BY UnitsFinite
<1> QED
  BY <1>1, <1>2, <1>3, <1>4

LEMMA CounterCovers ==
    ASSUME StockInv, NEW v \in Variants, NEW o \in Orders
    PROVE  Holds(v)[o] <= reserved[v]
BY HoldsType, UnitsOfOneOrder, QuantityAssumption DEF StockInv, ReservedIsHeld

\* A step that changes neither the counters nor what is held.
LEMMA StockUntouched ==
    ASSUME StockInv, TypeOK', UNCHANGED stock,
           \A v \in Variants : Holds(v)' = Holds(v)
    PROVE  StockBalanced' /\ ReservedIsHeld'
<1>1. StockBalanced'
  BY DEF StockInv, StockBalanced, stock
<1>2. ReservedIsHeld'
  BY HoldsType, HoldsTypeNext DEF StockInv, ReservedIsHeld, stock
<1> QED
  BY <1>1, <1>2
-----------------------------------------------------------------------------
(* The changes several transactions make keep the stock right.             *)

\* Returning units of lines that are ACTIVE.
LEMMA ReturnKeepsStock ==
    ASSUME StockInv, TypeOK', NEW o \in Orders, NEW lines \in SUBSET ActiveItems(o),
           NEW to \in ReservationStatuses \ {"ACTIVE"}, ReturnUnits(o, lines, to),
           \A p \in Orders : order'[p].items = order[p].items
    PROVE  /\ StockBalanced' /\ ReservedIsHeld'
           /\ \A v \in Variants :
                 Holds(v)' = [Holds(v) EXCEPT ![o] = IF v \in lines THEN 0 ELSE @]
           /\ \A p \in Orders : ActiveItems(p)' \subseteq ActiveItems(p)
<1> DEFINE k(v) == IF v \in lines THEN 0 ELSE Holds(v)[o]
<1>1. ASSUME NEW p \in Orders, NEW v \in Variants
      PROVE  reservation'[p][v].status =
                IF p = o /\ v \in lines THEN to ELSE reservation[p][v].status
  <2>1. reservation[p][v] \in ReservationRow
    BY DEF StockInv, TypeOK
  <2>2. reservation'[p][v] = IF p = o /\ v \in lines
                             THEN [reservation[p][v] EXCEPT !.status = to]
                             ELSE reservation[p][v]
    BY DEF ReturnUnits, StockInv, TypeOK
  <2> QED
    BY <2>1, <2>2 DEF ReservationRow
<1>2. \A v \in lines : Holds(v)[o] = order[o].items[v]
  BY DEF ActiveItems, Holds
<1>3. ASSUME NEW v \in Variants
      PROVE  Holds(v)' = [Holds(v) EXCEPT ![o] = k(v)]
  BY <1>1 DEF Holds
<1>4. ASSUME NEW v \in Variants
      PROVE  /\ reserved'[v] = reserved[v] - Holds(v)[o] + k(v)
             /\ available'[v] = available[v] + Holds(v)[o] - k(v)
             /\ onHand'[v] = onHand[v]
             /\ Holds(v)[o] >= k(v) /\ k(v) \in 0..MaxQty
  <2>1. /\ reserved[v] \in Int /\ available[v] \in Int
        /\ Holds(v)[o] \in 0..MaxQty
    BY HoldsType DEF StockInv, TypeOK
  <2> HIDE DEF Holds
  <2> QED
    BY <1>2, <2>1, QuantityAssumption DEF ReturnUnits
<1> HIDE DEF k, Holds
<1>5. ReservedIsHeld' /\ \A v \in Variants : reserved'[v] >= 0
  BY <1>3, <1>4, CounterFollows DEF ReservedIsHeld
<1>6. StockBalanced'
  <2> SUFFICES ASSUME NEW v \in Variants
               PROVE  /\ available'[v] >= 0 /\ reserved'[v] >= 0
                      /\ available'[v] + reserved'[v] = onHand'[v]
    BY DEF StockBalanced
  <2>1. /\ reserved[v] \in Int /\ available[v] \in Int /\ onHand[v] \in Int
        /\ Holds(v)[o] \in Nat
    BY CountersType DEF StockInv
  <2>2. available[v] >= 0 /\ available[v] + reserved[v] = onHand[v]
    BY DEF StockInv, StockBalanced
  <2>3. k(v) \in Nat
    BY <1>4, QuantityAssumption
  <2> QED
    BY <1>4, <1>5, <2>1, <2>2, <2>3
<1>7. \A p \in Orders : ActiveItems(p)' \subseteq ActiveItems(p)
  BY <1>1 DEF ActiveItems
<1> QED
  BY <1>3, <1>5, <1>6, <1>7 DEF k

\* Selling what an order still holds.
LEMMA ConfirmKeepsStock ==
    ASSUME StockInv, TypeOK', NEW o \in Orders, NEW i, NEW attempts,
           ConfirmOrderPayment(o, i, attempts)
    PROVE  /\ StockBalanced' /\ ReservedIsHeld'
           /\ \A v \in Variants : /\ Holds(v)' = [Holds(v) EXCEPT ![o] = 0]
                                  /\ onHand'[v] = onHand[v] - Holds(v)[o]
           /\ \A p \in Orders : ActiveItems(p)' \subseteq ActiveItems(p)
<1>1. ASSUME NEW p \in Orders, NEW v \in Variants
      PROVE  /\ reservation'[p][v].status =
                   IF p = o /\ v \in ActiveItems(o) THEN "CONSUMED"
                   ELSE reservation[p][v].status
             /\ order'[p].items = order[p].items
  <2>1. reservation[p][v] \in ReservationRow /\ order[p] \in OrderRow
    BY DEF StockInv, TypeOK
  <2>2. reservation'[p][v] = IF p = o /\ v \in ActiveItems(o)
                             THEN [reservation[p][v] EXCEPT !.status = "CONSUMED"]
                             ELSE reservation[p][v]
    BY DEF ConfirmOrderPayment, StockInv, TypeOK
  <2>3. order'[p].items = order[p].items
    <3>1. order' = [order EXCEPT ![o] =
             [@ EXCEPT !.status = "CONFIRMED", !.paymentStatus = "APPROVED"]]
      BY DEF ConfirmOrderPayment, StockInv, TypeOK
    <3> QED
      BY <2>1, <3>1, StatusKeepsItems DEF StockInv, TypeOK
  <2> QED
    BY <2>1, <2>2, <2>3 DEF ReservationRow
<1>2. ASSUME NEW v \in Variants PROVE Holds(v)[o] = Held(o, v)
  BY DEF ActiveItems, Holds, Held
<1>3. ASSUME NEW v \in Variants
      PROVE  Holds(v)' = [Holds(v) EXCEPT ![o] = 0]
  BY <1>1 DEF Holds, ActiveItems
<1>4. ASSUME NEW v \in Variants
      PROVE  /\ reserved'[v] = reserved[v] - Holds(v)[o]
             /\ onHand'[v] = onHand[v] - Holds(v)[o]
             /\ available'[v] = available[v]
             /\ Holds(v)[o] \in Nat
  BY <1>2, HoldsType, QuantityAssumption DEF ConfirmOrderPayment, StockInv
<1> HIDE DEF Holds
<1>5. ASSUME NEW v \in Variants
      PROVE  reserved'[v] = reserved[v] - Holds(v)[o] + 0 /\ 0 \in 0..MaxQty
  BY <1>4, QuantityAssumption DEF StockInv, TypeOK
<1>6. ReservedIsHeld' /\ \A v \in Variants : reserved'[v] >= 0
  BY <1>3, <1>5, CounterFollows DEF ReservedIsHeld
<1>7. StockBalanced'
  <2> SUFFICES ASSUME NEW v \in Variants
               PROVE  /\ available'[v] >= 0 /\ reserved'[v] >= 0
                      /\ available'[v] + reserved'[v] = onHand'[v]
    BY DEF StockBalanced
  <2>1. /\ reserved[v] \in Int /\ available[v] \in Int /\ onHand[v] \in Int
        /\ Holds(v)[o] \in Nat
    BY CountersType DEF StockInv
  <2>2. available[v] >= 0 /\ available[v] + reserved[v] = onHand[v]
    BY DEF StockInv, StockBalanced
  <2> QED
    BY <1>4, <1>6, <2>1, <2>2
<1>8. \A p \in Orders : ActiveItems(p)' \subseteq ActiveItems(p)
  BY <1>1 DEF ActiveItems
<1> QED
  BY <1>3, <1>4, <1>6, <1>7, <1>8

\* Reserving a whole cart for an order that was not there.
LEMMA CreateKeepsStock ==
    ASSUME StockInv, TypeOK', NEW o \in Orders, NEW c \in Carts,
           NEW customer, NEW choice, NEW destination, NEW eligible,
           Create(o, c, customer, choice, destination, eligible)
    PROVE  /\ StockBalanced' /\ ReservedIsHeld' /\ UnplacedHoldsNothing'
           /\ \A v \in Variants : /\ Holds(v)' = [Holds(v) EXCEPT ![o] = cart[c].items[v]]
                                  /\ Holds(v)[o] = 0
<1> DEFINE items == cart[c].items
<1>1. \A v \in Variants : items[v] \in 0..MaxQty
  BY DEF StockInv, TypeOK, CartRow, AllBaskets
<1>2. /\ order'[o].status = "PENDING_PAYMENT" /\ order'[o].items = items
      /\ \A p \in Orders \ {o} : order'[p] = order[p] /\ reservation'[p] = reservation[p]
      /\ \A v \in Variants : reservation'[o][v].status =
                                IF items[v] > 0 THEN "ACTIVE" ELSE "NONE"
  <2> DEFINE t(e) == [v \in Variants |-> IF items[v] > 0
                                     THEN [status |-> "ACTIVE", expiresAt |-> e]
                                     ELSE NoReservation]
  <2>1. PICK e : reservation' = [reservation EXCEPT ![o] = t(e)]
    BY DEF Create
  <2>2. \A v \in Variants : t(e)[v].status = IF items[v] > 0 THEN "ACTIVE" ELSE "NONE"
    BY DEF NoReservation
  <2> HIDE DEF t
  <2>3. reservation'[o] = t(e) /\ \A p \in Orders \ {o} : reservation'[p] = reservation[p]
    BY <2>1 DEF StockInv, TypeOK
  <2>4. order'[o].status = "PENDING_PAYMENT" /\ order'[o].items = items
    BY DEF Create, StockInv, TypeOK
  <2>5. \A p \in Orders \ {o} : order'[p] = order[p]
    BY DEF Create, StockInv, TypeOK
  <2> QED
    BY <2>2, <2>3, <2>4, <2>5
<1>3. \A v \in Variants : Holds(v)[o] = 0
  BY DEF Create, StockInv, UnplacedHoldsNothing, ActiveItems, Holds
<1> HIDE DEF items
<1>4. ASSUME NEW v \in Variants
      PROVE  Holds(v)' = [Holds(v) EXCEPT ![o] = items[v]]
  <2>1. ASSUME NEW p \in Orders
        PROVE  Holds(v)'[p] = IF p = o THEN items[v] ELSE Holds(v)[p]
    <3>1. CASE p = o
      <4>1. Holds(v)'[p] = IF items[v] > 0 THEN items[v] ELSE 0
        BY <1>2, <3>1 DEF Holds
      <4> QED
        BY <1>1, <3>1, <4>1, QuantityAssumption
    <3>2. CASE p # o
      BY <1>2, <3>2 DEF Holds
    <3> QED
      BY <3>1, <3>2
  <2> QED
    BY <2>1 DEF Holds
<1>5. ASSUME NEW v \in Variants
      PROVE  /\ reserved'[v] = reserved[v] + items[v]
             /\ available'[v] = available[v] - items[v]
             /\ available[v] >= items[v]
             /\ onHand'[v] = onHand[v]
  BY DEF Create, items
<1>6. ASSUME NEW v \in Variants
      PROVE  reserved'[v] = reserved[v] - Holds(v)[o] + items[v]
  BY <1>1, <1>3, <1>5, QuantityAssumption DEF StockInv, TypeOK
<1>7. ReservedIsHeld' /\ \A v \in Variants : reserved'[v] >= 0
  <2> HIDE DEF Holds
  <2> QED
    BY <1>1, <1>4, <1>6, CounterFollows DEF ReservedIsHeld
<1>8. StockBalanced'
  <2> SUFFICES ASSUME NEW v \in Variants
               PROVE  /\ available'[v] >= 0 /\ reserved'[v] >= 0
                      /\ available'[v] + reserved'[v] = onHand'[v]
    BY DEF StockBalanced
  <2>1. /\ reserved[v] \in Int /\ available[v] \in Int /\ onHand[v] \in Int
        /\ items[v] \in Nat
    BY <1>1, CountersType, QuantityAssumption DEF StockInv
  <2>2. available[v] + reserved[v] = onHand[v]
    BY DEF StockInv, StockBalanced
  <2> QED
    BY <1>5, <1>7, <2>1, <2>2
<1>9. UnplacedHoldsNothing'
  BY <1>2 DEF UnplacedHoldsNothing, StockInv, ActiveItems
<1> QED
  BY <1>3, <1>4, <1>7, <1>8, <1>9 DEF items

\* A new deadline keeps what every order holds.
LEMMA DeadlineKeepsHolds ==
    ASSUME TypeOK, NEW o \in Orders, NEW expiresAt \in Nat,
           reservation' = [reservation EXCEPT ![o] =
               [v \in Variants |-> IF v \in ActiveItems(o)
                                   THEN [@[v] EXCEPT !.expiresAt = expiresAt]
                                   ELSE @[v]]],
           \A p \in Orders : order'[p].items = order[p].items
    PROVE  /\ \A v \in Variants : Holds(v)' = Holds(v)
           /\ \A p \in Orders : ActiveItems(p)' = ActiveItems(p)
<1>1. ASSUME NEW p \in Orders, NEW v \in Variants
      PROVE  reservation'[p][v].status = reservation[p][v].status
  <2>1. reservation[p][v] \in ReservationRow
    BY DEF TypeOK
  <2>2. reservation'[p][v] = IF p = o /\ v \in ActiveItems(o)
                             THEN [reservation[p][v] EXCEPT !.expiresAt = expiresAt]
                             ELSE reservation[p][v]
    BY DEF TypeOK
  <2> QED
    BY <2>1, <2>2 DEF ReservationRow
<1> QED
  BY <1>1 DEF Holds, ActiveItems

\* Cancelling gives back all that the order holds.
LEMMA CancelKeepsStock ==
    ASSUME StockInv, TypeOK', NEW o \in Orders, CancelOrder(o)
    PROVE  /\ StockBalanced' /\ ReservedIsHeld' /\ UnplacedHoldsNothing'
           /\ \A v \in Variants :
                 Holds(v)' = [Holds(v) EXCEPT ![o] = IF v \in ActiveItems(o) THEN 0 ELSE @]
<1>1. ReturnUnits(o, ActiveItems(o), "RELEASED")
  BY DEF CancelOrder
<1>2. ASSUME NEW p \in Orders
      PROVE  /\ order'[p].items = order[p].items
             /\ order'[p].status = IF p = o THEN "CANCELLED" ELSE order[p].status
  <2>1. order' = [order EXCEPT ![o] =
            [@ EXCEPT !.status = "CANCELLED", !.paymentStatus = "CANCELLED"]]
    BY DEF CancelOrder, StockInv, TypeOK
  <2>2. order[p] \in OrderRow
    BY DEF StockInv, TypeOK
  <2> QED
    BY <2>1, <2>2, StatusKeepsItems DEF StockInv, TypeOK
<1>3. /\ StockBalanced' /\ ReservedIsHeld'
      /\ \A v \in Variants :
            Holds(v)' = [Holds(v) EXCEPT ![o] = IF v \in ActiveItems(o) THEN 0 ELSE @]
      /\ \A p \in Orders : ActiveItems(p)' \subseteq ActiveItems(p)
  BY <1>1, <1>2, ReturnKeepsStock DEF ReservationStatuses
<1>4. UnplacedHoldsNothing'
  BY <1>2, <1>3 DEF UnplacedHoldsNothing, StockInv
<1> QED
  BY <1>3, <1>4
\* Selling, a change of a pending checkout, a quote and an expiry: no order
\* stops having been created, and only a sale and an expiry change what is held.
LEMMA ConfirmKeepsPlaced ==
    ASSUME TypeOK, NEW o \in Orders, NEW i, NEW attempts,
           ConfirmOrderPayment(o, i, attempts)
    PROVE  \A p \in Orders : order'[p].status = "NONE" => order[p].status = "NONE"
<1>1. order' = [order EXCEPT ![o] =
          [@ EXCEPT !.status = "CONFIRMED", !.paymentStatus = "APPROVED"]]
  BY DEF ConfirmOrderPayment, TypeOK
<1>2. order[o] \in OrderRow
  BY DEF TypeOK
<1> QED
  BY <1>1, <1>2, StatusKeepsItems DEF TypeOK

LEMMA UpdateKeepsHolds ==
    ASSUME TypeOK, NEW o \in Orders, NEW choice \in Choices,
           NEW destination \in Destinations,
           UpdatePendingCheckout(o, choice, destination)
    PROVE  /\ UNCHANGED stock
           /\ \A v \in Variants : Holds(v)' = Holds(v)
           /\ \A p \in Orders : /\ ActiveItems(p)' = ActiveItems(p)
                                /\ order'[p].status = order[p].status
<1>1. PICK quote \in {"NOT_REQUIRED", "PENDING", "QUOTED"}, shipping \in Nat,
           expiresAt \in Nat :
              CheckoutWritten(o, choice, destination, quote, shipping, expiresAt)
  BY UpdateShape
<1>2. order' = [order EXCEPT ![o] = [@ EXCEPT !.method = MethodOf(choice),
             !.destination = destination, !.quote = quote, !.shipping = shipping,
             !.paymentStatus = "PENDING", !.expiresAt = expiresAt]]
  BY <1>1 DEF CheckoutWritten, TypeOK
<1>3. ASSUME NEW p \in Orders
      PROVE  order'[p].items = order[p].items /\ order'[p].status = order[p].status
  <2>1. order[p] \in OrderRow
    BY DEF TypeOK
  <2> QED
    BY <1>2, <2>1 DEF TypeOK, OrderRow
<1>4. UNCHANGED stock
  BY DEF UpdatePendingCheckout
<1> QED
  BY <1>1, <1>3, <1>4, DeadlineKeepsHolds DEF CheckoutWritten

LEMMA QuoteKeepsHolds ==
    ASSUME TypeOK, NEW o \in Orders, NEW fee \in Quotes, SetShippingQuote(o, fee)
    PROVE  /\ UNCHANGED stock
           /\ \A v \in Variants : Holds(v)' = Holds(v)
           /\ \A p \in Orders : /\ ActiveItems(p)' = ActiveItems(p)
                                /\ order'[p].status = order[p].status
<1> DEFINE expiresAt == now + reservationLifetime(order[o].method)
<1>1. expiresAt \in Nat
  BY LifetimeType DEF TypeOK
<1>2. /\ order' = [order EXCEPT ![o] = [@ EXCEPT !.shipping = fee, !.quote = "QUOTED",
                                               !.expiresAt = expiresAt]]
      /\ reservation' = [reservation EXCEPT ![o] =
               [v \in Variants |-> IF v \in ActiveItems(o)
                                   THEN [@[v] EXCEPT !.expiresAt = expiresAt]
                                   ELSE @[v]]]
  BY DEF SetShippingQuote, TypeOK
<1> HIDE DEF expiresAt
<1>3. ASSUME NEW p \in Orders
      PROVE  order'[p].items = order[p].items /\ order'[p].status = order[p].status
  <2>1. order[p] \in OrderRow
    BY DEF TypeOK
  <2> QED
    BY <1>2, <2>1 DEF TypeOK, OrderRow
<1>4. UNCHANGED stock
  BY DEF SetShippingQuote
<1> QED
  BY <1>1, <1>2, <1>3, <1>4, DeadlineKeepsHolds

LEMMA ExpireKeepsStock ==
    ASSUME StockInv, TypeOK', NEW o \in Orders, NEW w \in Variants, ExpireOne(o, w)
    PROVE  /\ StockBalanced' /\ ReservedIsHeld' /\ UnplacedHoldsNothing'
           /\ \A v \in Variants :
                 Holds(v)' = [Holds(v) EXCEPT ![o] = IF v \in {w} THEN 0 ELSE @]
<1>1. ReturnUnits(o, {w}, "EXPIRED") /\ {w} \in SUBSET ActiveItems(o)
  BY DEF ExpireOne, Overdue
<1>2. ASSUME NEW p \in Orders
      PROVE  /\ order'[p].items = order[p].items
             /\ order'[p].status = "NONE" => order[p].status = "NONE"
  <2>1. \/ order' = order
        \/ order' = [order EXCEPT ![o] =
              [@ EXCEPT !.status = "EXPIRED", !.paymentStatus = "CANCELLED"]]
    BY DEF ExpireOne, StockInv, TypeOK
  <2>2. order[p] \in OrderRow /\ order \in [Orders -> OrderRow]
    BY DEF StockInv, TypeOK
  <2>3. CASE order' = order
    BY <2>3
  <2>4. CASE order' # order
    <3>1. order' = [order EXCEPT ![o] =
              [@ EXCEPT !.status = "EXPIRED", !.paymentStatus = "CANCELLED"]]
      BY <2>1, <2>4
    <3>2. CASE p = o
      BY <2>2, <3>1, <3>2, StatusKeepsItems
    <3>3. CASE p # o
      BY <2>2, <3>1, <3>3
    <3> QED
      BY <3>2, <3>3
  <2> QED
    BY <2>3, <2>4
<1>3. /\ StockBalanced' /\ ReservedIsHeld'
      /\ \A v \in Variants :
            Holds(v)' = [Holds(v) EXCEPT ![o] = IF v \in {w} THEN 0 ELSE @]
      /\ \A p \in Orders : ActiveItems(p)' \subseteq ActiveItems(p)
  BY <1>1, <1>2, ReturnKeepsStock DEF ReservationStatuses
<1>4. UnplacedHoldsNothing'
  BY <1>2, <1>3 DEF UnplacedHoldsNothing, StockInv
<1> QED
  BY <1>3, <1>4
-----------------------------------------------------------------------------
\* The inductive invariant holds at first ...
LEMMA StockInit == Init => StockInv
<1> SUFFICES ASSUME Init PROVE StockInv
  OBVIOUS
<1>1. TypeOK
  BY TypeInit
<1>2. StockBalanced
  BY StockAssumption DEF Init, StockBalanced, NoBasket
<1>3. \A o \in Orders, v \in Variants : reservation[o][v].status = "NONE"
  BY DEF Init, NoReservation
<1>4. ReservedIsHeld
  <2>1. \A v \in Variants : HeldUnits(v) = {}
    BY <1>3 DEF HeldUnits
  <2> QED
    BY <2>1, FS_EmptySet DEF ReservedIsHeld, Init, NoBasket
<1>5. UnplacedHoldsNothing
  BY <1>3 DEF UnplacedHoldsNothing, ActiveItems
<1> QED
  BY <1>1, <1>2, <1>4, <1>5 DEF StockInv

\* ... and every step keeps it.
LEMMA StockNext == StockInv /\ [Next]_vars => StockInv'
<1> SUFFICES ASSUME StockInv, [Next]_vars PROVE StockInv'
  OBVIOUS
<1>0. TypeOK /\ TypeOK'
  BY TypeNext DEF StockInv
<1>1. ASSUME NEW o \in Orders, NEW c \in Carts, NEW customer \in Customers,
             NEW choice \in Choices, NEW destination \in Destinations,
             NEW eligible \in BOOLEAN,
             Create(o, c, customer, choice, destination, eligible)
      PROVE  StockInv'
  BY <1>0, <1>1, CreateKeepsStock DEF StockInv
<1>2. ASSUME NEW o \in Orders, NEW choice \in Choices, NEW destination \in Destinations,
             UpdatePendingCheckout(o, choice, destination)
      PROVE  StockInv'
  BY <1>0, <1>2, UpdateKeepsHolds, StockUntouched DEF StockInv, UnplacedHoldsNothing
<1>3. ASSUME NEW o \in Orders, NEW c \in Carts, ReopenCheckout(o, c)
      PROVE  StockInv'
  <2>1. CancelOrder(o)
    BY <1>3 DEF ReopenCheckout
  <2> QED
    BY <1>0, <2>1, CancelKeepsStock DEF StockInv
<1>4. ASSUME NEW o \in Orders, Cancel(o)
      PROVE  StockInv'
  <2>1. CancelOrder(o)
    BY <1>4 DEF Cancel
  <2> QED
    BY <1>0, <2>1, CancelKeepsStock DEF StockInv
<1>5. ASSUME UNCHANGED <<stock, order, reservation>>
      PROVE  StockInv'
  <2>1. \A v \in Variants : Holds(v)' = Holds(v)
    BY <1>5 DEF Holds
  <2>2. UnplacedHoldsNothing'
    BY <1>5 DEF StockInv, UnplacedHoldsNothing, ActiveItems
  <2>3. UNCHANGED stock
    BY <1>5
  <2> QED
    BY <1>0, <2>1, <2>2, <2>3, StockUntouched DEF StockInv
<1>6. ASSUME NEW o \in Orders, UploadRead(o)
      PROVE  StockInv'
  BY <1>5, <1>6 DEF UploadRead
<1>7. ASSUME NEW o \in Orders, NEW i \in 1..MaxAttempts, NEW d \in Proofs,
             UploadWrite(o, i, d)
      PROVE  StockInv'
  BY <1>5, <1>7 DEF UploadWrite
<1>8. ASSUME NEW o \in Orders, NEW i, NEW attempts, ConfirmOrderPayment(o, i, attempts)
      PROVE  StockInv'
  BY <1>0, <1>8, ConfirmKeepsStock, ConfirmKeepsPlaced
     DEF StockInv, UnplacedHoldsNothing
<1>9. ASSUME NEW d \in Proofs, NEW verdict \in {"APPROVED", "REJECTED"},
             ReviewTransferProof(d, verdict)
      PROVE  StockInv'
  <2>1. proof[d].order \in Orders
    BY <1>9 DEF ReviewTransferProof, StockInv, TypeOK, ProofRow, NoProof
  <2>2. \/ ConfirmOrderPayment(proof[d].order, proof[d].attempt, payments[proof[d].order])
        \/ UNCHANGED <<stock, order, reservation>>
    BY <1>9 DEF ReviewTransferProof
  <2> QED
    BY <1>5, <1>8, <2>1, <2>2
<1>10. ASSUME NEW o \in Orders, ConfirmCashPayment(o)
       PROVE  StockInv'
  BY <1>8, <1>10 DEF ConfirmCashPayment
<1>11. ASSUME NEW o \in Orders, NEW fee \in Quotes, SetShippingQuote(o, fee)
       PROVE  StockInv'
  BY <1>0, <1>11, QuoteKeepsHolds, StockUntouched DEF StockInv, UnplacedHoldsNothing
<1>12. ASSUME NEW o \in Orders, NEW v \in Variants, ExpireOne(o, v)
       PROVE  StockInv'
  BY <1>0, <1>12, ExpireKeepsStock DEF StockInv
<1>13. ASSUME NEW v \in Variants, NEW counted \in Recounts, UpdateInventory(v, counted)
       PROVE  StockInv'
  <2>1. counted \in Int /\ counted >= reserved[v]
    BY <1>13, StockAssumption DEF UpdateInventory
  <2>2. StockBalanced'
    <3>1. \A w \in Variants : /\ onHand[w] \in Int /\ reserved[w] \in Int
                              /\ available[w] \in Int
      BY DEF StockInv, TypeOK
    <3>2. \A w \in Variants :
             /\ onHand'[w] = IF w = v THEN counted ELSE onHand[w]
             /\ available'[w] = IF w = v THEN counted - reserved[v] ELSE available[w]
             /\ reserved'[w] = reserved[w]
      BY <1>13 DEF UpdateInventory, StockInv, TypeOK
    <3> QED
      BY <2>1, <3>1, <3>2 DEF StockInv, StockBalanced
  <2>3. ReservedIsHeld' /\ UnplacedHoldsNothing'
    BY <1>13 DEF UpdateInventory, StockInv, ReservedIsHeld, HeldUnits,
                 UnplacedHoldsNothing, ActiveItems
  <2> QED
    BY <1>0, <2>2, <2>3 DEF StockInv
<1>14. CASE Tick
  BY <1>5, <1>14 DEF Tick
<1>15. CASE UNCHANGED vars
  BY <1>5, <1>15 DEF vars
<1> QED
  BY <1>1, <1>2, <1>3, <1>4, <1>6, <1>7, <1>9, <1>10, <1>11, <1>12, <1>13, <1>14,
     <1>15 DEF Next

\* Nothing is oversold, for every number of orders and variants, every stock,
\* every recount and every interleaving of the transactions.
THEOREM NothingOversold == Spec => []StockBalanced
<1>1. StockInv => StockBalanced
  BY DEF StockInv
<1> QED
  BY <1>1, StockInit, StockNext, PTL DEF Spec

\* The reserved counter is exact: every unit it counts is held by an ACTIVE
\* reservation of one order, and every such unit is counted.
THEOREM ReservedIsExact == Spec => []ReservedIsHeld
<1>1. StockInv => ReservedIsHeld
  BY DEF StockInv
<1> QED
  BY <1>1, StockInit, StockNext, PTL DEF Spec
-----------------------------------------------------------------------------
(* The movements.                                                          *)

\* One movement more, of one type, for every variant.
LEMMA MovedFields ==
    ASSUME TypeOK, NEW type \in MovementTypes, NEW units \in [Variants -> Int],
           movement' = Moved(movement, type, units), NEW v \in Variants
    PROVE  /\ movement'[v].SALE = movement[v].SALE + (IF type = "SALE" THEN units[v] ELSE 0)
           /\ movement'[v].ADJUSTMENT = movement[v].ADJUSTMENT
                 + (IF type = "ADJUSTMENT" THEN units[v] ELSE 0)
           /\ movement'[v].RESERVATION = movement[v].RESERVATION
                 + (IF type = "RESERVATION" THEN units[v] ELSE 0)
           /\ movement'[v].RELEASE = movement[v].RELEASE
                 + (IF type = "RELEASE" THEN units[v] ELSE 0)
<1>1. movement[v] \in [MovementTypes -> Int] /\ units[v] \in Int
  BY DEF TypeOK
<1>2. movement'[v] = [movement[v] EXCEPT ![type] = movement[v][type] + units[v]]
  BY DEF Moved
<1> QED
  BY <1>1, <1>2 DEF MovementTypes

\* A change of the counters that is moved as it is made keeps the trail.
LEMMA TrailFollows ==
    ASSUME TypeOK, AuditTrail, NEW type \in {"RESERVATION", "RELEASE", "SALE"},
           NEW units \in [Variants -> Int], movement' = Moved(movement, type, units),
           \A v \in Variants :
              /\ onHand'[v] = onHand[v] + (IF type = "SALE" THEN units[v] ELSE 0)
              /\ reserved'[v] = reserved[v] + (IF type = "RELEASE" THEN -units[v] ELSE units[v])
    PROVE  AuditTrail'
<1> SUFFICES ASSUME NEW v \in Variants
             PROVE  /\ onHand'[v] = OpeningStock[v] + movement'[v].SALE
                                    + movement'[v].ADJUSTMENT
                    /\ reserved'[v] = movement'[v].RESERVATION - movement'[v].RELEASE
                                      + movement'[v].SALE
  BY DEF AuditTrail
<1>1. /\ movement[v].SALE \in Int /\ movement[v].ADJUSTMENT \in Int
      /\ movement[v].RESERVATION \in Int /\ movement[v].RELEASE \in Int
      /\ units[v] \in Int /\ onHand[v] \in Int /\ reserved[v] \in Int
      /\ OpeningStock[v] \in Int
  BY StockAssumption DEF TypeOK, MovementTypes
<1>2. /\ onHand[v] = OpeningStock[v] + movement[v].SALE + movement[v].ADJUSTMENT
      /\ reserved[v] = movement[v].RESERVATION - movement[v].RELEASE + movement[v].SALE
  BY DEF AuditTrail
<1>3. type \in MovementTypes
  BY DEF MovementTypes
<1> QED
  BY <1>1, <1>2, <1>3, MovedFields

\* A sale leaves a movement for every unit sold.
LEMMA ConfirmKeepsTrail ==
    ASSUME TypeOK, AuditTrail, NEW o \in Orders, NEW i, NEW attempts,
           ConfirmOrderPayment(o, i, attempts)
    PROVE  AuditTrail'
<1> DEFINE units == [v \in Variants |-> -Held(o, v)]
<1>1. \A v \in Variants : Held(o, v) \in Int
  BY DEF Held, TypeOK, OrderRow, AllBaskets
<1>2. units \in [Variants -> Int]
  BY <1>1
<1>3. movement' = Moved(movement, "SALE", units)
  BY DEF ConfirmOrderPayment, Moved
<1>4. /\ onHand' = [v \in Variants |-> onHand[v] - Held(o, v)]
      /\ reserved' = [v \in Variants |-> reserved[v] - Held(o, v)]
  BY DEF ConfirmOrderPayment
<1>5. \A v \in Variants : /\ onHand'[v] = onHand[v] + units[v]
                          /\ reserved'[v] = reserved[v] + units[v]
  BY <1>1, <1>4 DEF TypeOK
<1> HIDE DEF units
<1> QED
  BY <1>2, <1>3, <1>5, TrailFollows

LEMMA TrailNext == TypeOK /\ AuditTrail /\ [Next]_vars => AuditTrail'
<1> SUFFICES ASSUME TypeOK, AuditTrail, [Next]_vars PROVE AuditTrail'
  OBVIOUS
<1>1. ASSUME NEW o \in Orders, NEW c \in Carts, NEW customer \in Customers,
             NEW choice \in Choices, NEW destination \in Destinations,
             NEW eligible \in BOOLEAN,
             Create(o, c, customer, choice, destination, eligible)
      PROVE  AuditTrail'
  <2> DEFINE items == cart[c].items
  <2>1. items \in [Variants -> Int]
    BY DEF TypeOK, CartRow, AllBaskets
  <2>2. /\ movement' = Moved(movement, "RESERVATION", items) /\ onHand' = onHand
        /\ reserved' = [v \in Variants |-> reserved[v] + items[v]]
    BY <1>1 DEF Create
  <2> HIDE DEF items
  <2>3. \A v \in Variants : onHand'[v] = onHand[v] + 0 /\ reserved'[v] = reserved[v] + items[v]
    BY <2>2 DEF TypeOK
  <2> QED
    BY <2>1, <2>2, <2>3, TrailFollows
<1>2. ASSUME NEW o \in Orders, NEW lines, NEW to, ReturnUnits(o, lines, to)
      PROVE  AuditTrail'
  <2> DEFINE units == [v \in Variants |-> IF v \in lines THEN order[o].items[v] ELSE 0]
  <2>1. units \in [Variants -> Int]
    BY DEF TypeOK, OrderRow, AllBaskets
  <2>2. /\ movement' = Moved(movement, "RELEASE", units) /\ onHand' = onHand
        /\ reserved' = [v \in Variants |-> reserved[v] - units[v]]
    BY <1>2 DEF ReturnUnits
  <2> HIDE DEF units
  <2>3. \A v \in Variants : /\ onHand'[v] = onHand[v] + 0
                            /\ reserved'[v] = reserved[v] + (-units[v])
    BY <2>1, <2>2 DEF TypeOK
  <2> QED
    BY <2>1, <2>2, <2>3, TrailFollows
<1>3. ASSUME NEW o \in Orders, NEW i, NEW attempts, ConfirmOrderPayment(o, i, attempts)
      PROVE  AuditTrail'
  BY <1>3, ConfirmKeepsTrail
<1>4. ASSUME UNCHANGED stock
      PROVE  AuditTrail'
  BY <1>4 DEF AuditTrail, stock
<1>5. ASSUME NEW w \in Variants, NEW counted \in Recounts, UpdateInventory(w, counted)
      PROVE  AuditTrail'
  <2> SUFFICES ASSUME NEW v \in Variants
               PROVE  /\ onHand'[v] = OpeningStock[v] + movement'[v].SALE
                                      + movement'[v].ADJUSTMENT
                      /\ reserved'[v] = movement'[v].RESERVATION - movement'[v].RELEASE
                                        + movement'[v].SALE
    BY DEF AuditTrail
  <2>1. /\ movement[v] \in [MovementTypes -> Int] /\ onHand[v] \in Int
        /\ OpeningStock[v] \in Int /\ counted \in Int
    BY StockAssumption DEF TypeOK
  <2>2. /\ onHand'[v] = IF v = w THEN counted ELSE onHand[v]
        /\ reserved'[v] = reserved[v]
        /\ movement'[v] = IF v = w
                          THEN [movement[v] EXCEPT !["ADJUSTMENT"] = @ + counted - onHand[v]]
                          ELSE movement[v]
    BY <1>5 DEF UpdateInventory, TypeOK
  <2>3. /\ movement'[v].SALE = movement[v].SALE
        /\ movement'[v].RESERVATION = movement[v].RESERVATION
        /\ movement'[v].RELEASE = movement[v].RELEASE
        /\ movement'[v].ADJUSTMENT = movement[v].ADJUSTMENT
               + (IF v = w THEN counted - onHand[v] ELSE 0)
        /\ movement[v].SALE \in Int /\ movement[v].ADJUSTMENT \in Int
    BY <2>1, <2>2 DEF MovementTypes
  <2>4. /\ onHand[v] = OpeningStock[v] + movement[v].SALE + movement[v].ADJUSTMENT
        /\ reserved[v] = movement[v].RESERVATION - movement[v].RELEASE + movement[v].SALE
    BY DEF AuditTrail
  <2> QED
    BY <2>1, <2>2, <2>3, <2>4
<1>6. ASSUME NEW d \in Proofs, NEW verdict, ReviewTransferProof(d, verdict)
      PROVE  AuditTrail'
  <2>1. proof[d].order \in Orders
    BY <1>6 DEF ReviewTransferProof, TypeOK, ProofRow, NoProof
  <2>2. \/ ConfirmOrderPayment(proof[d].order, proof[d].attempt, payments[proof[d].order])
        \/ UNCHANGED stock
    BY <1>6 DEF ReviewTransferProof
  <2> QED
    BY <1>3, <1>4, <2>1, <2>2
<1>7. ASSUME NEW o \in Orders, ConfirmCashPayment(o)
      PROVE  AuditTrail'
  BY <1>3, <1>7 DEF ConfirmCashPayment
<1>8. ASSUME NEW o \in Orders, CancelOrder(o)
      PROVE  AuditTrail'
  BY <1>2, <1>8 DEF CancelOrder
<1>9. ASSUME NEW o \in Orders, NEW v \in Variants, ExpireOne(o, v)
      PROVE  AuditTrail'
  BY <1>2, <1>9 DEF ExpireOne
<1>10. ASSUME NEW o \in Orders, NEW choice, NEW destination,
              UpdatePendingCheckout(o, choice, destination)
       PROVE  AuditTrail'
  BY <1>4, <1>10 DEF UpdatePendingCheckout
<1>11. ASSUME NEW o \in Orders,
              \/ UploadRead(o) \/ \E i \in 1..MaxAttempts, d \in Proofs : UploadWrite(o, i, d)
              \/ \E fee \in Quotes : SetShippingQuote(o, fee)
       PROVE  AuditTrail'
  BY <1>4, <1>11 DEF UploadRead, UploadWrite, SetShippingQuote
<1>12. CASE Tick
  BY <1>4, <1>12 DEF Tick
<1>13. CASE UNCHANGED vars
  BY <1>4, <1>13 DEF vars
<1> QED
  BY <1>1, <1>5, <1>6, <1>7, <1>8, <1>9, <1>10, <1>11, <1>12, <1>13
     DEF Next, ReopenCheckout, Cancel

LEMMA TrailInit == Init => AuditTrail
BY StockAssumption DEF Init, AuditTrail, MovementTypes, NoBasket

\* The stock movements explain the counters, whatever orders and recounts follow
\* one another (stockMovement.create in every transaction that changes stock).
THEOREM MovementsExplain == Spec => []AuditTrail
BY TrailInit, TypeInit, TypeNext, TrailNext, PTL DEF Spec
-----------------------------------------------------------------------------
(* Checkout implements the ledger.                                         *)

\* The value of the ledger's variable hold.
LedgerHold == [o \in Orders |-> [v \in Variants |->
                IF reservation[o][v].status = "ACTIVE" THEN order[o].items[v] ELSE 0]]

LEMMA LedgerHoldChange ==
    ASSUME NEW o \in Orders, NEW k \in [Variants -> 0..MaxQty],
           \A v \in Variants : Holds(v)' = [Holds(v) EXCEPT ![o] = k[v]]
    PROVE  LedgerHold' = [LedgerHold EXCEPT ![o] = k]
<1>1. ASSUME NEW p \in Orders, NEW v \in Variants
      PROVE  LedgerHold'[p][v] = IF p = o THEN k[v] ELSE LedgerHold[p][v]
  <2>1. Holds(v)'[p] = IF p = o THEN k[v] ELSE Holds(v)[p]
    BY DEF Holds
  <2>2. LedgerHold[p][v] = Holds(v)[p] /\ LedgerHold'[p][v] = Holds(v)'[p]
    BY DEF LedgerHold, Holds
  <2> QED
    BY <2>1, <2>2
<1>2. ASSUME NEW p \in Orders
      PROVE  LedgerHold'[p] = IF p = o THEN k ELSE LedgerHold[p]
  BY <1>1 DEF LedgerHold
<1> QED
  BY <1>2 DEF LedgerHold

\* Both modules count with the same operator.
LEMMA SameCardinality == ASSUME NEW S PROVE Ledger!Cardinality(S) = Cardinality(S)
BY DEF Cardinality, Ledger!Cardinality, IsFiniteSet, Ledger!IsFiniteSet

LEMMA LedgerUnits ==
    ASSUME StockInv, NEW v \in Variants
    PROVE  /\ Ledger!HeldUnits(v) = Units(Holds(v))
           /\ Ledger!Cardinality(Ledger!HeldUnits(v)) = reserved[v]
           /\ Ledger!Free(v) = available[v]
<1>1. Ledger!HeldUnits(v) = Units(Holds(v))
  BY DEF Ledger!HeldUnits, Units, Holds
<1>2. Ledger!Cardinality(Ledger!HeldUnits(v)) = reserved[v]
  BY <1>1, HoldsType, SameCardinality DEF StockInv, ReservedIsHeld
<1>3. Ledger!Free(v) = available[v]
  BY <1>2 DEF Ledger!Free, StockInv, StockBalanced, TypeOK
<1> QED
  BY <1>1, <1>2, <1>3

\* The opening state is an opening state of the ledger.
LEMMA LedgerInitially == Init => Ledger!LedgerInit
<1> SUFFICES ASSUME Init PROVE Ledger!LedgerInit
  OBVIOUS
<1>1. onHand \in [Variants -> Nat]
  BY StockAssumption DEF Init
<1>2. LedgerHold = [o \in Orders |-> [v \in Variants |-> 0]]
  BY DEF Init, NoReservation, LedgerHold
<1> QED
  BY <1>1, <1>2 DEF Ledger!LedgerInit, Ledger!NoUnits, LedgerHold

\* Steps that release or sell what an order holds.
LEMMA ReleaseStep ==
    ASSUME StockInv, NEW o \in Orders, NEW lines, UNCHANGED onHand,
           \A v \in Variants :
              Holds(v)' = [Holds(v) EXCEPT ![o] = IF v \in lines THEN 0 ELSE @]
    PROVE  Ledger!Release(o, lines)
<1> DEFINE k == [v \in Variants |-> IF v \in lines THEN 0 ELSE Holds(v)[o]]
<1>1. k \in [Variants -> 0..MaxQty]
  BY CountersType, QuantityAssumption DEF StockInv
<1>2. \A v \in Variants : Holds(v)' = [Holds(v) EXCEPT ![o] = k[v]]
  OBVIOUS
<1>3. k = [v \in Variants |-> IF v \in lines THEN 0 ELSE LedgerHold[o][v]]
  BY DEF LedgerHold, Holds
<1> HIDE DEF k
<1>4. LedgerHold' = [LedgerHold EXCEPT ![o] = k]
  BY <1>1, <1>2, LedgerHoldChange
<1>5. LedgerHold' = [LedgerHold EXCEPT ![o] =
                        [v \in Variants |-> IF v \in lines THEN 0 ELSE @[v]]]
  BY <1>3, <1>4
<1> QED
  BY <1>5 DEF Ledger!Release, LedgerHold

LEMMA SellStep ==
    ASSUME StockInv, TypeOK', NEW o \in Orders, NEW i, NEW attempts,
           ConfirmOrderPayment(o, i, attempts)
    PROVE  Ledger!Sell(o)
<1> DEFINE k == [v \in Variants |-> 0]
<1>1. k \in [Variants -> 0..MaxQty] /\ \A v \in Variants : k[v] = 0
  BY QuantityAssumption
<1>2. \A v \in Variants : /\ Holds(v)' = [Holds(v) EXCEPT ![o] = k[v]]
                          /\ onHand'[v] = onHand[v] - Holds(v)[o]
  BY ConfirmKeepsStock
<1>3. LedgerHold' = [LedgerHold EXCEPT ![o] = k]
  <2> HIDE DEF k
  <2> QED
    BY <1>1, <1>2, LedgerHoldChange
<1>4. \A v \in Variants : LedgerHold[o][v] = Holds(v)[o]
  BY DEF LedgerHold, Holds
<1>5. onHand' = [v \in Variants |-> onHand[v] - LedgerHold[o][v]]
  BY <1>2, <1>4 DEF TypeOK
<1> QED
  BY <1>3, <1>5 DEF Ledger!Sell, Ledger!NoUnits, LedgerHold

\* Every step is a step of the ledger or leaves it alone.
LEMMA LedgerStep ==
    StockInv /\ [Next]_vars => [Ledger!LedgerNext]_(Ledger!ledgerVars)
<1> SUFFICES ASSUME StockInv, [Next]_vars
             PROVE  [Ledger!LedgerNext]_(Ledger!ledgerVars)
  OBVIOUS
<1>0. TypeOK /\ TypeOK'
  BY TypeNext DEF StockInv
<1>1. ASSUME NEW o \in Orders, NEW c \in Carts, NEW customer \in Customers,
             NEW choice \in Choices, NEW destination \in Destinations,
             NEW eligible \in BOOLEAN,
             Create(o, c, customer, choice, destination, eligible)
      PROVE  Ledger!LedgerNext
  <2>1. PICK items \in [Variants -> 0..MaxQty] : items = cart[c].items
    BY <1>0 DEF TypeOK, CartRow, AllBaskets
  <2>2. \A v \in Variants : /\ Holds(v)' = [Holds(v) EXCEPT ![o] = items[v]]
                            /\ Holds(v)[o] = 0
    BY <1>0, <1>1, <2>1, CreateKeepsStock
  <2>3. \A v \in Variants : items[v] <= Ledger!Free(v)
    BY <1>1, LedgerUnits, <2>1, QuantityAssumption, <1>0 DEF Create, TypeOK
  <2>4. UNCHANGED onHand
    BY <1>1 DEF Create
  <2>5. LedgerHold' = [LedgerHold EXCEPT ![o] = items]
    BY <2>1, <2>2, LedgerHoldChange
  <2>6. LedgerHold[o] = [v \in Variants |-> 0]
    BY <2>2 DEF LedgerHold, Holds
  <2>7. Ledger!Reserve(o, items)
    BY <2>3, <2>4, <2>5, <2>6 DEF Ledger!Reserve, Ledger!NoUnits, LedgerHold
  <2> QED
    BY <2>7 DEF Ledger!LedgerNext, Ledger!LedgerBaskets
<1>2. ASSUME UNCHANGED onHand, \A v \in Variants : Holds(v)' = Holds(v)
      PROVE  UNCHANGED (Ledger!ledgerVars)
  <2>1. \A o \in Orders, v \in Variants :
           /\ LedgerHold[o][v] = Holds(v)[o]
           /\ LedgerHold'[o][v] = Holds(v)'[o]
    BY DEF LedgerHold, Holds
  <2>2. LedgerHold' = LedgerHold
    BY <1>2, <2>1 DEF LedgerHold
  <2> QED
    BY <1>2, <2>2 DEF Ledger!ledgerVars, LedgerHold
<1>3. ASSUME NEW o \in Orders, NEW choice \in Choices, NEW destination \in Destinations,
             UpdatePendingCheckout(o, choice, destination)
      PROVE  UNCHANGED (Ledger!ledgerVars)
  BY <1>0, <1>2, <1>3, UpdateKeepsHolds DEF stock
<1>4. ASSUME NEW o \in Orders, CancelOrder(o)
      PROVE  Ledger!LedgerNext
  <2>1. UNCHANGED onHand
    BY <1>4 DEF CancelOrder, ReturnUnits
  <2>2. PICK lines \in SUBSET Variants : lines = ActiveItems(o)
    BY DEF ActiveItems
  <2>3. Ledger!Release(o, lines)
    BY <1>0, <1>4, <2>1, <2>2, CancelKeepsStock, ReleaseStep
  <2> QED
    BY <2>3 DEF Ledger!LedgerNext
<1>5. ASSUME NEW o \in Orders, NEW i, NEW attempts, ConfirmOrderPayment(o, i, attempts)
      PROVE  Ledger!LedgerNext
  BY <1>0, <1>5, SellStep DEF Ledger!LedgerNext
<1>6. ASSUME UNCHANGED <<stock, order, reservation>>
      PROVE  UNCHANGED (Ledger!ledgerVars)
  BY <1>2, <1>6 DEF Holds, stock
<1>7. ASSUME NEW d \in Proofs, NEW verdict \in {"APPROVED", "REJECTED"},
             ReviewTransferProof(d, verdict)
      PROVE  [Ledger!LedgerNext]_(Ledger!ledgerVars)
  <2>1. proof[d].order \in Orders
    BY <1>0, <1>7 DEF ReviewTransferProof, TypeOK, ProofRow, NoProof
  <2>2. \/ ConfirmOrderPayment(proof[d].order, proof[d].attempt, payments[proof[d].order])
        \/ UNCHANGED <<stock, order, reservation>>
    BY <1>7 DEF ReviewTransferProof
  <2> QED
    BY <1>5, <1>6, <2>1, <2>2
<1>8. ASSUME NEW o \in Orders, NEW fee \in Quotes, SetShippingQuote(o, fee)
      PROVE  UNCHANGED (Ledger!ledgerVars)
  BY <1>0, <1>2, <1>8, QuoteKeepsHolds DEF stock
<1>9. ASSUME NEW o \in Orders, NEW v \in Variants, ExpireOne(o, v)
      PROVE  Ledger!LedgerNext
  <2>1. UNCHANGED onHand
    BY <1>9 DEF ExpireOne, ReturnUnits
  <2>2. Ledger!Release(o, {v})
    BY <1>0, <1>9, <2>1, ExpireKeepsStock, ReleaseStep
  <2> QED
    BY <2>2 DEF Ledger!LedgerNext
<1>10. ASSUME NEW v \in Variants, NEW counted \in Recounts, UpdateInventory(v, counted)
       PROVE  Ledger!LedgerNext
  <2>1. onHand' = [onHand EXCEPT ![v] = counted] /\ counted >= reserved[v]
    BY <1>10 DEF UpdateInventory
  <2>2. onHand'[v] = counted
    BY <1>0, <2>1 DEF TypeOK
  <2>3. LedgerHold' = LedgerHold
    BY <1>10 DEF UpdateInventory, LedgerHold
  <2>4. counted >= Ledger!Cardinality(Ledger!HeldUnits(v))
    BY <2>1, LedgerUnits
  <2>5. Ledger!Recount(v)
    BY <2>1, <2>2, <2>3, <2>4 DEF Ledger!Recount, LedgerHold
  <2> QED
    BY <2>5 DEF Ledger!LedgerNext
<1>11. ASSUME Next PROVE [Ledger!LedgerNext]_(Ledger!ledgerVars)
  <2>1. ASSUME NEW o \in Orders, NEW c \in Carts, ReopenCheckout(o, c)
        PROVE  Ledger!LedgerNext
    BY <1>4, <2>1 DEF ReopenCheckout
  <2>2. ASSUME NEW o \in Orders, Cancel(o) PROVE Ledger!LedgerNext
    BY <1>4, <2>2 DEF Cancel
  <2>3. ASSUME NEW o \in Orders, UploadRead(o) PROVE UNCHANGED (Ledger!ledgerVars)
    BY <1>6, <2>3 DEF UploadRead
  <2>4. ASSUME NEW o \in Orders, NEW i, NEW d, UploadWrite(o, i, d)
        PROVE  UNCHANGED (Ledger!ledgerVars)
    BY <1>6, <2>4 DEF UploadWrite
  <2>5. ASSUME NEW o \in Orders, ConfirmCashPayment(o) PROVE Ledger!LedgerNext
    BY <1>5, <2>5 DEF ConfirmCashPayment
  <2>6. ASSUME Tick PROVE UNCHANGED (Ledger!ledgerVars)
    BY <1>6, <2>6 DEF Tick
  <2> QED
    BY <1>1, <1>3, <1>7, <1>8, <1>9, <1>10, <1>11, <2>1, <2>2, <2>3, <2>4, <2>5, <2>6
       DEF Next
<1>12. CASE UNCHANGED vars
  BY <1>6, <1>12 DEF vars
<1> QED
  BY <1>11, <1>12

\* Checkout implements the stock ledger, whatever the orders and the stock:
\* baskets are reserved whole from free units, units come back only from their
\* order and leave the store only when it is paid or on a recount.
THEOREM ImplementsLedger == Spec => LedgerSpec
<1>1. Init => Ledger!LedgerInit
  BY LedgerInitially
<1>2. StockInv /\ [Next]_vars => [Ledger!LedgerNext]_(Ledger!ledgerVars)
  BY LedgerStep
<1> QED
  BY <1>1, <1>2, StockInit, StockNext, PTL DEF Spec, LedgerSpec, Ledger!LedgerSpec

-----------------------------------------------------------------------------
(* The shapes of a step.  A transaction changes the rows of one order at   *)
(* most, in one of six ways.                                               *)

Untouched(p) ==
    /\ order'[p] = order[p] /\ reservation'[p] = reservation[p]
    /\ payments'[p] = payments[p] /\ applied'[p] = applied[p]
    /\ approvals'[p] = approvals[p]

SameOrder(o) ==
    /\ order'[o].customer = order[o].customer
    /\ order'[o].createdAt = order[o].createdAt
    /\ order'[o].expiresAt = order[o].expiresAt
    /\ order'[o].shipping = order[o].shipping
    /\ \A v \in Variants : reservation'[o][v].expiresAt = reservation[o][v].expiresAt

Released(o) ==
    /\ uses' = IF applied[o] = "APPLIED" /\ uses > 0 THEN uses - 1 ELSE uses
    /\ applied'[o] = IF applied[o] = "APPLIED" THEN "RELEASED" ELSE applied[o]

Placed(o) == \E customer \in Customers :
    /\ order[o].status = "NONE" /\ order'[o].status = "PENDING_PAYMENT"
    /\ order'[o].paymentStatus = "PENDING"
    /\ order'[o].customer = customer /\ order'[o].createdAt = now
    /\ \E v \in Variants : reservation'[o][v].status = "ACTIVE"
    /\ \A v \in Variants : reservation'[o][v].status \in {"ACTIVE", "NONE"}
    /\ \A v \in Variants : reservation'[o][v].status = "ACTIVE"
                              => reservation'[o][v].expiresAt = order'[o].expiresAt
    /\ \E choice \in Choices : payments'[o] = <<newAttempt(choice, order'[o].shipping)>>
    /\ \/ promotionAvailable(customer) /\ uses' = uses + 1 /\ applied'[o] = "APPLIED"
       \/ uses' = uses /\ applied'[o] = applied[o]
    /\ approvals'[o] = approvals[o]

Rewritten(o) ==
    /\ order[o].status = "PENDING_PAYMENT" /\ order'[o].status = "PENDING_PAYMENT"
    /\ order[o].paymentStatus # "APPROVED" /\ order'[o].paymentStatus # "APPROVED"
    /\ order[o].paymentStatus \notin ImmutableStatuses
    /\ order'[o].customer = order[o].customer
    /\ order'[o].createdAt = order[o].createdAt
    /\ Unexpired(o)
    /\ \A v \in Variants : reservation'[o][v].status = reservation[o][v].status
    /\ \A v \in ActiveItems(o) : reservation'[o][v].expiresAt = order'[o].expiresAt
    /\ \/ payments'[o] = payments[o] /\ order'[o].shipping = order[o].shipping
       \/ \E choice \in Choices : payments'[o] =
             Append(CancelAttempts(o, {"PENDING", "REJECTED"})[o],
                    newAttempt(choice, order'[o].shipping))
       \/ /\ Live(o) # {} /\ ~payments[o][Newest(Live(o))].started
          /\ payments'[o] =
                [payments[o] EXCEPT ![Newest(Live(o))].amount = order'[o].shipping]
    /\ uses' = uses /\ applied'[o] = applied[o] /\ approvals'[o] = approvals[o]

\* What a confirmed payment does to the order, except to its attempts.
Confirmed(o) ==
    /\ order[o].status \notin ClosedStatuses \cup {"NONE"}
    /\ order'[o].status = "CONFIRMED" /\ order'[o].paymentStatus = "APPROVED"
    /\ SameOrder(o) /\ ActiveItems(o) # {}
    /\ \A v \in Variants : reservation'[o][v].status =
          IF v \in ActiveItems(o) THEN "CONSUMED" ELSE reservation[o][v].status
    /\ uses' = uses /\ applied'[o] = applied[o]
    /\ approvals'[o] = approvals[o] + 1

Sold(o) ==
    /\ Confirmed(o)
    /\ \E i : /\ payments'[o] = [payments[o] EXCEPT ![i].status = "APPROVED"]
              /\ Proofs = {} => i \in Live(o) /\ payments[o][i].choice = "CASH"

Closed(o) ==
    /\ order[o].status \notin ClosedStatuses \cup {"NONE"}
    /\ order[o].paymentStatus # "APPROVED"
    /\ order'[o].status \in ClosedStatuses /\ order'[o].paymentStatus = "CANCELLED"
    /\ SameOrder(o)
    /\ \E to \in {"RELEASED", "EXPIRED"} : \A v \in Variants :
          reservation'[o][v].status =
             IF v \in ActiveItems(o) THEN to ELSE reservation[o][v].status
    /\ payments'[o] = CancelAttempts(o, {"PENDING", "IN_PROCESS"})[o]
    /\ Released(o) /\ approvals'[o] = approvals[o]

\* A line that expires while the order stays as it is: not its last line, or the
\* last one of an order that is paid or no longer expires.
LineExpired(o) ==
    /\ order'[o] = order[o] /\ SameOrder(o) /\ approvals'[o] = approvals[o]
    /\ \E w \in ActiveItems(o) :
          /\ \A v \in Variants : reservation'[o][v].status =
                IF v = w THEN "EXPIRED" ELSE reservation[o][v].status
          /\ \/ /\ ActiveItems(o) # {w}
                /\ payments'[o] = payments[o]
                /\ uses' = uses /\ applied'[o] = applied[o]
             \/ /\ \/ order[o].status \notin ExpirableStatuses
                   \/ order[o].paymentStatus = "APPROVED"
                /\ payments'[o] = CancelAttempts(o, {"PENDING", "IN_PROCESS"})[o]
                /\ Released(o)

Changed(o) == \/ Placed(o) \/ Rewritten(o) \/ Sold(o) \/ Closed(o) \/ LineExpired(o)

LEMMA PlacedShape ==
    ASSUME TypeOK, NEW o \in Orders, NEW c \in Carts, NEW customer \in Customers,
           NEW choice \in Choices, NEW destination \in Destinations, NEW eligible \in BOOLEAN,
           Create(o, c, customer, choice, destination, eligible)
    PROVE  Placed(o) /\ \A p \in Orders \ {o} : Untouched(p)
<1> DEFINE items == cart[c].items
           t == expirationAfter(quoteStatus(destination), MethodOf(choice))
           row == [v \in Variants |-> IF items[v] > 0
                                      THEN [status |-> "ACTIVE", expiresAt |-> t]
                                      ELSE NoReservation]
           new == [status |-> "PENDING_PAYMENT", paymentStatus |-> "PENDING",
                   method |-> MethodOf(choice), destination |-> destination,
                   quote |-> quoteStatus(destination),
                   shipping |-> shippingCents(destination), createdAt |-> now,
                   expiresAt |-> t, customer |-> customer, items |-> items]
<1>1. /\ order' = [order EXCEPT ![o] = new]
      /\ reservation' = [reservation EXCEPT ![o] = row]
  BY DEF Create
<1>2. /\ payments' = [payments EXCEPT ![o] = <<newAttempt(choice, shippingCents(destination))>>]
      /\ order[o].status = "NONE" /\ items # NoBasket /\ approvals' = approvals
      /\ \/ /\ promotionAvailable(customer) /\ uses' = uses + 1
            /\ applied' = [applied EXCEPT ![o] = "APPLIED"]
         \/ uses' = uses /\ applied' = applied
  BY DEF Create, promotion
<1>3. items \in [Variants -> 0..MaxQty]
  BY DEF TypeOK, CartRow, AllBaskets
<1>4. PICK w \in Variants : items[w] > 0
  BY <1>2, <1>3, QuantityAssumption DEF NoBasket
<1>5. \A p \in Orders \ {o} : Untouched(p)
  BY <1>1, <1>2 DEF Untouched, TypeOK
<1>6. order'[o] = new /\ reservation'[o] = row
  <2> HIDE DEF new, row
  <2> QED
    BY <1>1 DEF TypeOK
<1>7. /\ payments'[o] = <<newAttempt(choice, shippingCents(destination))>>
      /\ \/ promotionAvailable(customer) /\ uses' = uses + 1 /\ applied'[o] = "APPLIED"
         \/ uses' = uses /\ applied'[o] = applied[o]
  BY <1>2 DEF TypeOK
<1>8. /\ reservation'[o][w].status = "ACTIVE"
      /\ \A v \in Variants : reservation'[o][v].status \in {"ACTIVE", "NONE"}
      /\ \A v \in Variants : reservation'[o][v].status = "ACTIVE"
                                => reservation'[o][v].expiresAt = t
  BY <1>4, <1>6 DEF NoReservation
<1>9. /\ order'[o].status = "PENDING_PAYMENT" /\ order'[o].paymentStatus = "PENDING"
      /\ order'[o].customer = customer /\ order'[o].createdAt = now
      /\ order'[o].shipping = shippingCents(destination) /\ order'[o].expiresAt = t
  <2> HIDE DEF t
  <2> QED
    BY <1>6
<1> HIDE DEF items, row, t, new
<1> QED
  BY <1>2, <1>5, <1>7, <1>8, <1>9 DEF Placed

\* The new deadline of a pending order.
LEMMA DeadlineShape ==
    ASSUME TypeOK, NEW o \in Orders, NEW expiresAt,
           reservation' = [reservation EXCEPT ![o] =
               [v \in Variants |-> IF v \in ActiveItems(o)
                                   THEN [reservation[o][v] EXCEPT !.expiresAt = expiresAt]
                                   ELSE reservation[o][v]]]
    PROVE  /\ \A v \in Variants : reservation'[o][v].status = reservation[o][v].status
           /\ \A v \in ActiveItems(o) : reservation'[o][v].expiresAt = expiresAt
           /\ \A p \in Orders \ {o} : reservation'[p] = reservation[p]
<1>1. \A v \in Variants : reservation[o][v] \in ReservationRow
  BY DEF TypeOK
<1>2. ASSUME NEW v \in Variants
      PROVE  reservation'[o][v] = IF v \in ActiveItems(o)
                                  THEN [reservation[o][v] EXCEPT !.expiresAt = expiresAt]
                                  ELSE reservation[o][v]
  <2> DEFINE row == [u \in Variants |-> IF u \in ActiveItems(o)
                                        THEN [reservation[o][u] EXCEPT !.expiresAt = expiresAt]
                                        ELSE reservation[o][u]]
  <2>1. reservation'[o] = row
    BY DEF TypeOK
  <2> QED
    BY <2>1
<1>3. ActiveItems(o) \subseteq Variants
  BY DEF ActiveItems
<1>4. \A p \in Orders \ {o} : reservation'[p] = reservation[p]
  BY DEF TypeOK
<1>5. ASSUME NEW v \in Variants
      PROVE  /\ reservation'[o][v].status = reservation[o][v].status
             /\ v \in ActiveItems(o) => reservation'[o][v].expiresAt = expiresAt
  <2>1. reservation[o][v] \in ReservationRow
    BY <1>1
  <2>2. /\ [reservation[o][v] EXCEPT !.expiresAt = expiresAt].status = reservation[o][v].status
        /\ [reservation[o][v] EXCEPT !.expiresAt = expiresAt].expiresAt = expiresAt
    BY <2>1 DEF ReservationRow
  <2> QED
    BY <1>2, <2>2
<1> QED
  BY <1>3, <1>4, <1>5

LEMMA UpdatedShape ==
    ASSUME TypeOK, NEW o \in Orders, NEW choice \in Choices,
           NEW destination \in Destinations,
           UpdatePendingCheckout(o, choice, destination)
    PROVE  Rewritten(o) /\ \A p \in Orders \ {o} : Untouched(p)
<1> DEFINE
      kept == /\ ~addressChanged(o, destination)
              /\ deliveryMethod(order[o].destination) = "SHIPPING"
              /\ deliveryMethod(destination) = "SHIPPING"
              /\ order[o].quote = "QUOTED"
      quote == IF kept THEN "QUOTED" ELSE quoteStatus(destination)
      shipping == IF kept THEN order[o].shipping ELSE shippingCents(destination)
      current == payments[o][Newest(Live(o))]
      changed == \/ order[o].method # MethodOf(choice)
                 \/ Live(o) = {} \/ ProviderOf(current.choice) # ProviderOf(choice)
                 \/ deliveryMethod(order[o].destination) # deliveryMethod(destination)
                 \/ addressChanged(o, destination)
                 \/ order[o].shipping # shipping
      latest == order[o].createdAt + CashLife
      proposed == expirationAfter(quote, MethodOf(choice))
      expiresAt == CASE ~changed -> order[o].expiresAt
                     [] proposed < latest -> proposed
                     [] OTHER -> latest
      replaced == [payments EXCEPT ![o] =
                      Append(CancelAttempts(o, {"PENDING", "REJECTED"})[o],
                             newAttempt(choice, shipping))]
<1>1. /\ order' = [order EXCEPT ![o].method = MethodOf(choice),
             ![o].destination = destination, ![o].quote = quote,
             ![o].shipping = shipping, ![o].paymentStatus = "PENDING",
             ![o].expiresAt = expiresAt]
      /\ reservation' = [reservation EXCEPT ![o] =
             [v \in Variants |-> IF v \in ActiveItems(o)
                                 THEN [reservation[o][v] EXCEPT !.expiresAt = expiresAt]
                                 ELSE reservation[o][v]]]
  BY DEF UpdatePendingCheckout
<1>2. payments' = replaced \/ (payments' = payments /\ order[o].shipping = shipping)
  BY Zenon DEF UpdatePendingCheckout
<1>3. /\ order[o].status = "PENDING_PAYMENT" /\ order[o].paymentStatus # "APPROVED"
      /\ order[o].paymentStatus \notin ImmutableStatuses
      /\ Unexpired(o) /\ uses' = uses /\ applied' = applied /\ approvals' = approvals
  BY DEF UpdatePendingCheckout, ImmutableStatuses, promotion
<1> HIDE DEF kept, quote, shipping, expiresAt
<1>4. order[o] \in OrderRow /\ order \in [Orders -> OrderRow]
  BY DEF TypeOK
<1>5. order'[o] = [order[o] EXCEPT !.method = MethodOf(choice),
         !.destination = destination, !.quote = quote, !.shipping = shipping,
         !.paymentStatus = "PENDING", !.expiresAt = expiresAt]
  BY <1>1, <1>4
<1>6. /\ order'[o].status = order[o].status /\ order'[o].customer = order[o].customer
      /\ order'[o].createdAt = order[o].createdAt /\ order'[o].paymentStatus = "PENDING"
      /\ order'[o].shipping = shipping /\ order'[o].expiresAt = expiresAt
  BY <1>4, <1>5 DEF OrderRow
<1>7. /\ \A v \in Variants : reservation'[o][v].status = reservation[o][v].status
      /\ \A v \in ActiveItems(o) : reservation'[o][v].expiresAt = expiresAt
      /\ \A p \in Orders \ {o} : reservation'[p] = reservation[p]
  BY <1>1, DeadlineShape
<1>8. payments \in [Orders -> Seq(Attempt)] /\ applied \in [Orders -> {"NONE", "APPLIED", "RELEASED"}]
  BY DEF TypeOK
<1>9. \/ payments'[o] = payments[o] /\ order'[o].shipping = order[o].shipping
      \/ payments'[o] = Append(CancelAttempts(o, {"PENDING", "REJECTED"})[o],
                               newAttempt(choice, order'[o].shipping))
  BY <1>2, <1>6, <1>8
<1>10. \A p \in Orders \ {o} : Untouched(p)
  BY <1>1, <1>2, <1>3, <1>4, <1>7, <1>8 DEF Untouched
<1> QED
  BY <1>3, <1>6, <1>7, <1>9, <1>10 DEF Rewritten

LEMMA QuotedShape ==
    ASSUME TypeOK, NEW o \in Orders, NEW fee \in Quotes, SetShippingQuote(o, fee)
    PROVE  Rewritten(o) /\ \A p \in Orders \ {o} : Untouched(p)
<1> DEFINE expiresAt == now + reservationLifetime(order[o].method)
           newest == Newest(Live(o))
<1>1. /\ payments' = [payments EXCEPT ![o][newest].amount = fee]
      /\ order' = [order EXCEPT ![o].shipping = fee, ![o].quote = "QUOTED",
                                ![o].expiresAt = expiresAt]
      /\ reservation' = [reservation EXCEPT ![o] =
             [v \in Variants |-> IF v \in ActiveItems(o)
                                 THEN [reservation[o][v] EXCEPT !.expiresAt = expiresAt]
                                 ELSE reservation[o][v]]]
  BY DEF SetShippingQuote
<1>2. /\ order[o].status = "PENDING_PAYMENT" /\ order[o].paymentStatus # "APPROVED"
      /\ order[o].paymentStatus \notin ImmutableStatuses
      /\ Unexpired(o) /\ Live(o) # {} /\ ~payments[o][newest].started
      /\ uses' = uses /\ applied' = applied /\ approvals' = approvals
  BY DEF SetShippingQuote, ImmutableStatuses, promotion
<1> HIDE DEF expiresAt, newest
<1>3. order[o] \in OrderRow /\ order \in [Orders -> OrderRow]
  BY DEF TypeOK
<1>4. order'[o] = [order[o] EXCEPT !.shipping = fee, !.quote = "QUOTED", !.expiresAt = expiresAt]
  BY <1>1, <1>3
<1>5. /\ order'[o].status = order[o].status /\ order'[o].customer = order[o].customer
      /\ order'[o].createdAt = order[o].createdAt
      /\ order'[o].paymentStatus = order[o].paymentStatus
      /\ order'[o].shipping = fee /\ order'[o].expiresAt = expiresAt
  BY <1>3, <1>4 DEF OrderRow
<1>6. /\ \A v \in Variants : reservation'[o][v].status = reservation[o][v].status
      /\ \A v \in ActiveItems(o) : reservation'[o][v].expiresAt = expiresAt
      /\ \A p \in Orders \ {o} : reservation'[p] = reservation[p]
  BY <1>1, DeadlineShape
<1>7. payments \in [Orders -> Seq(Attempt)] /\ applied \in [Orders -> {"NONE", "APPLIED", "RELEASED"}]
  BY DEF TypeOK
<1>8. payments'[o] = [payments[o] EXCEPT ![newest].amount = order'[o].shipping]
  BY <1>1, <1>5, <1>7
<1>9. \A p \in Orders \ {o} : Untouched(p)
  BY <1>1, <1>2, <1>3, <1>6, <1>7 DEF Untouched
<1> QED
  BY <1>2, <1>5, <1>6, <1>8, <1>9 DEF Rewritten, newest

\* The rows of an order whose status changes.
StatusTo(o, s, p) == [order EXCEPT ![o].status = s, ![o].paymentStatus = p]
LinesTo(o, lines, to) ==
    [reservation EXCEPT ![o] =
        [v \in Variants |-> IF v \in lines
                            THEN [reservation[o][v] EXCEPT !.status = to]
                            ELSE reservation[o][v]]]

LEMMA StatusRow ==
    ASSUME TypeOK, NEW o \in Orders, NEW s, NEW p, order' = StatusTo(o, s, p)
    PROVE  /\ order'[o].status = s /\ order'[o].paymentStatus = p
           /\ order'[o].customer = order[o].customer
           /\ order'[o].createdAt = order[o].createdAt
           /\ order'[o].expiresAt = order[o].expiresAt
           /\ order'[o].shipping = order[o].shipping
           /\ \A q \in Orders \ {o} : order'[q] = order[q]
<1>1. order[o] \in OrderRow /\ order \in [Orders -> OrderRow]
  BY DEF TypeOK
<1>2. order'[o] = [order[o] EXCEPT !.status = s, !.paymentStatus = p]
  BY <1>1 DEF StatusTo
<1>3. \A q \in Orders \ {o} : order'[q] = order[q]
  BY <1>1 DEF StatusTo
<1> QED
  BY <1>1, <1>2, <1>3 DEF OrderRow

\* The lines of an order whose status changes.
LEMMA LineStatuses ==
    ASSUME TypeOK, NEW o \in Orders, NEW lines, NEW to,
           reservation' = LinesTo(o, lines, to)
    PROVE  /\ \A v \in Variants :
                /\ reservation'[o][v].status =
                      IF v \in lines THEN to ELSE reservation[o][v].status
                /\ reservation'[o][v].expiresAt = reservation[o][v].expiresAt
           /\ \A p \in Orders \ {o} : reservation'[p] = reservation[p]
<1>1. ASSUME NEW v \in Variants
      PROVE  /\ reservation'[o][v].status =
                   IF v \in lines THEN to ELSE reservation[o][v].status
             /\ reservation'[o][v].expiresAt = reservation[o][v].expiresAt
  <2> DEFINE row == [u \in Variants |-> IF u \in lines
                                        THEN [reservation[o][u] EXCEPT !.status = to]
                                        ELSE reservation[o][u]]
  <2>1. reservation'[o] = row
    BY DEF TypeOK, LinesTo
  <2>2. reservation'[o][v] = IF v \in lines
                             THEN [reservation[o][v] EXCEPT !.status = to]
                             ELSE reservation[o][v]
    BY <2>1
  <2>3. reservation[o][v] \in ReservationRow
    BY DEF TypeOK
  <2>4. /\ [reservation[o][v] EXCEPT !.status = to].status = to
        /\ [reservation[o][v] EXCEPT !.status = to].expiresAt = reservation[o][v].expiresAt
    BY <2>3 DEF ReservationRow
  <2>5. CASE v \in lines
    BY <2>2, <2>4, <2>5
  <2>6. CASE v \notin lines
    BY <2>2, <2>6
  <2> QED
    BY <2>5, <2>6
<1>2. \A p \in Orders \ {o} : reservation'[p] = reservation[p]
  BY DEF TypeOK, LinesTo
<1> QED
  BY <1>1, <1>2

LEMMA ConfirmShape ==
    ASSUME TypeOK, NEW o \in Orders, NEW i, NEW attempts,
           ConfirmOrderPayment(o, i, attempts), UNCHANGED promotion
    PROVE  /\ Confirmed(o)
           /\ payments' = [payments EXCEPT ![o] = [attempts EXCEPT ![i].status = "APPROVED"]]
           /\ \A p \in Orders \ {o} : Untouched(p)
<1>1. /\ order' = StatusTo(o, "CONFIRMED", "APPROVED")
      /\ reservation' = LinesTo(o, ActiveItems(o), "CONSUMED")
      /\ payments' = [payments EXCEPT ![o] = [attempts EXCEPT ![i].status = "APPROVED"]]
      /\ order[o].status \notin ClosedStatuses \cup {"NONE"} /\ ActiveItems(o) # {}
      /\ approvals' = [approvals EXCEPT ![o] = @ + 1]
  BY DEF ConfirmOrderPayment, StatusTo, LinesTo
<1>2. \A p \in Orders \ {o} : payments'[p] = payments[p]
  BY <1>1 DEF TypeOK
<1>3. /\ \A v \in Variants :
            /\ reservation'[o][v].status =
                  IF v \in ActiveItems(o) THEN "CONSUMED" ELSE reservation[o][v].status
            /\ reservation'[o][v].expiresAt = reservation[o][v].expiresAt
      /\ \A p \in Orders \ {o} : reservation'[p] = reservation[p]
  BY <1>1, LineStatuses
<1>4. approvals'[o] = approvals[o] + 1 /\ \A p \in Orders \ {o} : approvals'[p] = approvals[p]
  BY <1>1 DEF TypeOK
<1>5. /\ order'[o].status = "CONFIRMED" /\ order'[o].paymentStatus = "APPROVED" /\ SameOrder(o)
      /\ \A q \in Orders \ {o} : order'[q] = order[q]
  BY <1>1, <1>3, StatusRow DEF SameOrder
<1>6. uses' = uses /\ applied' = applied
  BY DEF promotion
<1>7. \A p \in Orders \ {o} : Untouched(p)
  BY <1>2, <1>3, <1>4, <1>5, <1>6 DEF Untouched
<1> QED
  BY <1>1, <1>3, <1>4, <1>5, <1>6, <1>7 DEF Confirmed

LEMMA SoldShape ==
    ASSUME TypeOK, NEW o \in Orders, NEW i, ConfirmOrderPayment(o, i, payments[o]),
           UNCHANGED promotion,
           Proofs = {} => i \in Live(o) /\ payments[o][i].choice = "CASH"
    PROVE  Sold(o) /\ \A p \in Orders \ {o} : Untouched(p)
<1>1. /\ Confirmed(o) /\ \A p \in Orders \ {o} : Untouched(p)
      /\ payments' = [payments EXCEPT ![o] = [payments[o] EXCEPT ![i].status = "APPROVED"]]
  BY ConfirmShape
<1>2. payments'[o] = [payments[o] EXCEPT ![i].status = "APPROVED"]
  BY <1>1 DEF TypeOK
<1> QED
  BY <1>1, <1>2 DEF Sold

\* The release of a use of the promotion and of the attempts of one order.
LEMMA ReleasedShape ==
    ASSUME TypeOK, NEW o \in Orders, ReleasePromotion(o),
           payments' = CancelAttempts(o, {"PENDING", "IN_PROCESS"})
    PROVE  /\ Released(o)
           /\ payments'[o] = CancelAttempts(o, {"PENDING", "IN_PROCESS"})[o]
           /\ \A p \in Orders \ {o} : payments'[p] = payments[p] /\ applied'[p] = applied[p]
<1>1. \A p \in Orders \ {o} : payments'[p] = payments[p]
  BY DEF CancelAttempts, TypeOK
<1>2. CASE applied[o] = "APPLIED"
  BY <1>1, <1>2 DEF ReleasePromotion, Released, TypeOK
<1>3. CASE applied[o] # "APPLIED"
  BY <1>1, <1>3 DEF ReleasePromotion, Released, TypeOK, promotion
<1> QED
  BY <1>2, <1>3

LEMMA ClosedShape ==
    ASSUME TypeOK, NEW o \in Orders, CancelOrder(o), approvals' = approvals
    PROVE  Closed(o) /\ \A p \in Orders \ {o} : Untouched(p)
<1>1. /\ order' = StatusTo(o, "CANCELLED", "CANCELLED")
      /\ reservation' = LinesTo(o, ActiveItems(o), "RELEASED")
      /\ order[o].status \notin ClosedStatuses \cup {"NONE"}
      /\ order[o].paymentStatus # "APPROVED"
  BY DEF CancelOrder, Cancellable, ReturnUnits, StatusTo, LinesTo
<1>2. /\ Released(o) /\ payments'[o] = CancelAttempts(o, {"PENDING", "IN_PROCESS"})[o]
      /\ \A p \in Orders \ {o} : payments'[p] = payments[p] /\ applied'[p] = applied[p]
  BY ReleasedShape DEF CancelOrder
<1>3. /\ \A v \in Variants :
            /\ reservation'[o][v].status =
                  IF v \in ActiveItems(o) THEN "RELEASED" ELSE reservation[o][v].status
            /\ reservation'[o][v].expiresAt = reservation[o][v].expiresAt
      /\ \A p \in Orders \ {o} : reservation'[p] = reservation[p]
  BY <1>1, LineStatuses
<1>5. /\ order'[o].status = "CANCELLED" /\ order'[o].paymentStatus = "CANCELLED" /\ SameOrder(o)
      /\ \A q \in Orders \ {o} : order'[q] = order[q]
  BY <1>1, <1>3, StatusRow DEF SameOrder
<1>6. \A p \in Orders \ {o} : Untouched(p)
  BY <1>2, <1>3, <1>5 DEF Untouched
<1> QED
  BY <1>1, <1>2, <1>3, <1>5, <1>6 DEF Closed, ClosedStatuses

LEMMA ExpiredShape ==
    ASSUME TypeOK, NEW o \in Orders, NEW w \in Variants, ExpireOne(o, w)
    PROVE  (Closed(o) \/ LineExpired(o)) /\ \A p \in Orders \ {o} : Untouched(p)
<1>1. /\ w \in ActiveItems(o)
      /\ reservation' = LinesTo(o, {w}, "EXPIRED") /\ approvals' = approvals
  BY DEF ExpireOne, Overdue, ReturnUnits, LinesTo
<1>2. /\ \A v \in Variants :
            /\ reservation'[o][v].status =
                  IF v \in {w} THEN "EXPIRED" ELSE reservation[o][v].status
            /\ reservation'[o][v].expiresAt = reservation[o][v].expiresAt
      /\ \A p \in Orders \ {o} : reservation'[p] = reservation[p]
  BY <1>1, LineStatuses
<1>3. CASE ActiveItems(o) # {w}
  <2>1. order' = order /\ payments' = payments /\ uses' = uses /\ applied' = applied
    BY <1>3 DEF ExpireOne, promotion
  <2> QED
    BY <1>1, <1>2, <1>3, <2>1 DEF LineExpired, SameOrder, Untouched
<1>4. CASE ActiveItems(o) = {w}
  <2>1. /\ Released(o) /\ payments'[o] = CancelAttempts(o, {"PENDING", "IN_PROCESS"})[o]
        /\ \A p \in Orders \ {o} : payments'[p] = payments[p] /\ applied'[p] = applied[p]
    BY <1>4, ReleasedShape DEF ExpireOne
  <2>2. CASE order[o].status \in ExpirableStatuses /\ order[o].paymentStatus # "APPROVED"
    <3>1. order' = StatusTo(o, "EXPIRED", "CANCELLED")
      BY <1>4, <2>2 DEF ExpireOne, StatusTo
    <3>2. /\ order'[o].status = "EXPIRED" /\ order'[o].paymentStatus = "CANCELLED"
          /\ SameOrder(o) /\ \A q \in Orders \ {o} : order'[q] = order[q]
      BY <1>2, <3>1, StatusRow DEF SameOrder
    <3>3. \A v \in Variants : reservation'[o][v].status =
            IF v \in ActiveItems(o) THEN "EXPIRED" ELSE reservation[o][v].status
      BY <1>2, <1>4
    <3> QED
      BY <1>1, <1>2, <2>1, <2>2, <3>2, <3>3
         DEF Closed, Untouched, ClosedStatuses, ExpirableStatuses
  <2>3. CASE ~(order[o].status \in ExpirableStatuses /\ order[o].paymentStatus # "APPROVED")
    <3>1. order' = order
      BY <1>4, <2>3 DEF ExpireOne
    <3> QED
      BY <1>1, <1>2, <2>1, <2>3, <3>1 DEF LineExpired, SameOrder, Untouched
  <2> QED
    BY <2>2, <2>3
<1> QED
  BY <1>3, <1>4

\* Every step leaves all orders alone or changes one; the clock only goes on.
LEMMA StepShape ==
    ASSUME TypeOK, [Next]_vars
    PROVE  \/ /\ \A p \in Orders : Untouched(p)
              /\ uses' = uses /\ now' \in Nat /\ now' >= now
           \/ \E o \in Orders : /\ Changed(o) /\ now' = now
                                /\ \A p \in Orders \ {o} : Untouched(p)
<1>1. ASSUME NEW o \in Orders, NEW c \in Carts, NEW customer \in Customers,
             NEW choice \in Choices, NEW destination \in Destinations,
             NEW eligible \in BOOLEAN,
             Create(o, c, customer, choice, destination, eligible)
      PROVE  Placed(o) /\ now' = now /\ \A p \in Orders \ {o} : Untouched(p)
  BY <1>1, PlacedShape DEF Create
<1>2. ASSUME NEW o \in Orders, NEW choice \in Choices, NEW destination \in Destinations,
             UpdatePendingCheckout(o, choice, destination)
      PROVE  Rewritten(o) /\ now' = now /\ \A p \in Orders \ {o} : Untouched(p)
  BY <1>2, UpdatedShape DEF UpdatePendingCheckout
<1>3. ASSUME NEW o \in Orders, NEW fee \in Quotes, SetShippingQuote(o, fee)
      PROVE  Rewritten(o) /\ now' = now /\ \A p \in Orders \ {o} : Untouched(p)
  BY <1>3, QuotedShape DEF SetShippingQuote
<1>4. ASSUME NEW o \in Orders, Cancel(o) \/ \E c \in Carts : ReopenCheckout(o, c)
      PROVE  Closed(o) /\ now' = now /\ \A p \in Orders \ {o} : Untouched(p)
  BY <1>4, ClosedShape DEF Cancel, ReopenCheckout
<1>5. ASSUME NEW o \in Orders, NEW v \in Variants, ExpireOne(o, v)
      PROVE  (Closed(o) \/ LineExpired(o)) /\ now' = now /\ \A p \in Orders \ {o} : Untouched(p)
  BY <1>5, ExpiredShape DEF ExpireOne
<1>6. ASSUME NEW o \in Orders, ConfirmCashPayment(o)
      PROVE  Sold(o) /\ now' = now /\ \A p \in Orders \ {o} : Untouched(p)
  <2> DEFINE cash == {i \in Live(o) : payments[o][i].choice = "CASH"}
  <2>1. /\ cash # {} /\ ConfirmOrderPayment(o, Newest(cash), payments[o])
        /\ UNCHANGED promotion /\ now' = now
    BY <1>6 DEF ConfirmCashPayment
  <2>2. payments[o] \in Seq(Attempt)
    BY DEF TypeOK
  <2>3. Len(payments[o]) \in Nat /\ cash \subseteq 1..Len(payments[o]) /\ cash \subseteq Live(o)
    BY <2>2 DEF Live
  <2>4. Newest(cash) \in cash
    BY <2>1, <2>3, NewestIsGreatest
  <2>5. Newest(cash) \in Live(o) /\ payments[o][Newest(cash)].choice = "CASH"
    BY <2>4
  <2> QED
    BY <2>1, <2>5, SoldShape
<1>7. ASSUME NEW d \in Proofs, NEW verdict, ReviewTransferProof(d, verdict)
      PROVE  /\ now' = now
             /\ \/ (\A p \in Orders : Untouched(p)) /\ uses' = uses
                \/ /\ proof[d].order \in Orders /\ Sold(proof[d].order)
                   /\ \A p \in Orders \ {proof[d].order} : Untouched(p)
  <2>1. proof[d].order \in Orders
    BY <1>7 DEF ReviewTransferProof, TypeOK, ProofRow, NoProof
  <2>2. CASE verdict = "APPROVED" /\ order[proof[d].order].paymentStatus # "APPROVED"
    <3>1. ConfirmOrderPayment(proof[d].order, proof[d].attempt, payments[proof[d].order])
      BY <1>7, <2>2 DEF ReviewTransferProof
    <3>2. now' = now /\ UNCHANGED promotion
      BY <1>7 DEF ReviewTransferProof
    <3> QED
      BY <2>1, <3>1, <3>2, SoldShape
  <2>3. CASE ~(verdict = "APPROVED" /\ order[proof[d].order].paymentStatus # "APPROVED")
    BY <1>7, <2>3 DEF ReviewTransferProof, Untouched, promotion
  <2> QED
    BY <2>2, <2>3
<1>8. ASSUME UNCHANGED <<now, order, reservation, payments, promotion, approvals>>
      PROVE  (\A p \in Orders : Untouched(p)) /\ uses' = uses /\ now' = now
  BY <1>8 DEF Untouched, promotion
<1>9. ASSUME NEW o \in Orders,
             UploadRead(o) \/ \E i \in 1..MaxAttempts, d \in Proofs : UploadWrite(o, i, d)
      PROVE  (\A p \in Orders : Untouched(p)) /\ uses' = uses /\ now' = now
  BY <1>8, <1>9 DEF UploadRead, UploadWrite
<1>10. ASSUME NEW v \in Variants, NEW counted \in Recounts, UpdateInventory(v, counted)
       PROVE  (\A p \in Orders : Untouched(p)) /\ uses' = uses /\ now' = now
  BY <1>8, <1>10 DEF UpdateInventory
<1>11. ASSUME Tick
       PROVE  (\A p \in Orders : Untouched(p)) /\ uses' = uses /\ now' = now + 1
  BY <1>11 DEF Tick, Untouched, promotion
<1>12. ASSUME UNCHANGED vars
       PROVE  (\A p \in Orders : Untouched(p)) /\ uses' = uses /\ now' = now
  BY <1>8, <1>12 DEF vars
<1>13. now \in Nat
  BY DEF TypeOK
<1> DEFINE Still == (\A p \in Orders : Untouched(p)) /\ uses' = uses /\ now' \in {now, now + 1}
           OneChanges(o) == Changed(o) /\ now' = now /\ \A p \in Orders \ {o} : Untouched(p)
           Shape == Still \/ \E o \in Orders : OneChanges(o)
<1> HIDE DEF Untouched, Placed, Rewritten, Sold, Confirmed, Closed, LineExpired
<1>14. ASSUME NEW o \in Orders, NEW c \in Carts, NEW customer \in Customers,
              NEW choice \in Choices, NEW destination \in Destinations,
              NEW eligible \in BOOLEAN,
              Create(o, c, customer, choice, destination, eligible)
       PROVE  OneChanges(o)
  BY <1>1, <1>14 DEF Changed
<1>15. ASSUME NEW o \in Orders, NEW choice \in Choices, NEW destination \in Destinations,
              UpdatePendingCheckout(o, choice, destination)
       PROVE  OneChanges(o)
  BY <1>2, <1>15 DEF Changed
<1>16. ASSUME NEW o \in Orders,
              \/ \E fee \in Quotes : SetShippingQuote(o, fee)
              \/ Cancel(o) \/ \E c \in Carts : ReopenCheckout(o, c)
              \/ ConfirmCashPayment(o) \/ \E v \in Variants : ExpireOne(o, v)
       PROVE  OneChanges(o)
  BY <1>3, <1>4, <1>5, <1>6, <1>16 DEF Changed
<1>17. ASSUME NEW d \in Proofs, NEW verdict, ReviewTransferProof(d, verdict)
       PROVE  Shape
  <2>1. CASE (\A p \in Orders : Untouched(p)) /\ uses' = uses
    BY <1>7, <1>17, <2>1
  <2>2. CASE /\ proof[d].order \in Orders /\ Sold(proof[d].order)
             /\ \A p \in Orders \ {proof[d].order} : Untouched(p)
    <3>1. OneChanges(proof[d].order)
      BY <1>7, <1>17, <2>2 DEF Changed
    <3> QED
      BY <2>2, <3>1
  <2> QED
    BY <1>7, <1>17, <2>1, <2>2
<1>18. ASSUME \/ \E o \in Orders : UploadRead(o)
              \/ \E o \in Orders, i \in 1..MaxAttempts, d \in Proofs : UploadWrite(o, i, d)
              \/ \E v \in Variants, counted \in Recounts : UpdateInventory(v, counted)
              \/ Tick \/ UNCHANGED vars
       PROVE  Still
  BY <1>9, <1>10, <1>11, <1>12, <1>18
<1>19. Still => /\ \A p \in Orders : Untouched(p)
                /\ uses' = uses /\ now' \in Nat /\ now' >= now
  BY <1>13
<1> HIDE DEF Still, OneChanges
<1>20. Shape
  BY <1>14, <1>15, <1>16, <1>17, <1>18 DEF Next
<1> QED
  BY <1>19, <1>20 DEF OneChanges
-----------------------------------------------------------------------------
(* What an order holds.                                                    *)

\* HoldsWhatItsStatusSays for one order, strengthened: an order that waits for
\* its payment is not paid, and an Idempotency-Key nobody has used holds
\* nothing, exactly as a closed order does.
OrderSays(o) ==
    /\ order[o].status = "PENDING_PAYMENT" =>
          ActiveItems(o) # {} /\ order[o].paymentStatus # "APPROVED"
    /\ \A v \in ActiveItems(o) : reservation[o][v].expiresAt = order[o].expiresAt
    /\ order[o].status \in ClosedStatuses \cup {"NONE"} =>
          /\ ActiveItems(o) = {}
          /\ applied[o] # "APPLIED"
          /\ \A i \in DOMAIN payments[o] :
                payments[o][i].status \notin {"PENDING", "IN_PROCESS"}
OrderInv == TypeOK /\ \A o \in Orders : OrderSays(o)

LEMMA OrderInit == Init => OrderInv
<1> SUFFICES ASSUME Init PROVE OrderInv
  OBVIOUS
<1>1. ASSUME NEW o \in Orders PROVE OrderSays(o)
  BY DEF Init, OrderSays, ActiveItems, NoOrder, NoReservation, ClosedStatuses
<1> QED
  BY <1>1, TypeInit DEF OrderInv

\* The attempts of an order some of which are cancelled.
LEMMA CancelledRows ==
    ASSUME TypeOK, NEW o \in Orders, NEW statuses
    PROVE  /\ DOMAIN CancelAttempts(o, statuses)[o] = DOMAIN payments[o]
           /\ \A i \in DOMAIN payments[o] :
                 /\ CancelAttempts(o, statuses)[o][i].status =
                       IF payments[o][i].status \in statuses THEN "CANCELLED"
                       ELSE payments[o][i].status
                 /\ CancelAttempts(o, statuses)[o][i].amount = payments[o][i].amount
<1> DEFINE s == payments[o]
           t == [i \in DOMAIN s |-> IF s[i].status \in statuses
                                    THEN [s[i] EXCEPT !.status = "CANCELLED"] ELSE s[i]]
<1>1. CancelAttempts(o, statuses)[o] = t
  BY DEF CancelAttempts, TypeOK
<1>2. s \in Seq(Attempt)
  BY DEF TypeOK
<1>3. ASSUME NEW i \in DOMAIN s
      PROVE  /\ t[i].status = IF s[i].status \in statuses THEN "CANCELLED" ELSE s[i].status
             /\ t[i].amount = s[i].amount
  <2>1. s[i] \in Attempt
    BY <1>2
  <2>2. /\ [s[i] EXCEPT !.status = "CANCELLED"].status = "CANCELLED"
        /\ [s[i] EXCEPT !.status = "CANCELLED"].amount = s[i].amount
    BY <2>1 DEF Attempt
  <2>3. CASE s[i].status \in statuses
    BY <2>2, <2>3
  <2>4. CASE s[i].status \notin statuses
    BY <2>4
  <2> QED
    BY <2>3, <2>4
<1>4. DOMAIN t = DOMAIN s
  OBVIOUS
<1> HIDE DEF t
<1> QED
  BY <1>1, <1>3, <1>4

LEMMA OrderStep ==
    ASSUME OrderInv, NEW o \in Orders, Untouched(o) \/ Changed(o)
    PROVE  OrderSays(o)'
<1> USE DEF OrderInv
<1>1. OrderSays(o)
  OBVIOUS
<1>2. CASE Untouched(o)
  BY <1>1, <1>2 DEF Untouched, OrderSays, ActiveItems
<1>3. CASE Placed(o)
  BY <1>3 DEF Placed, OrderSays, ActiveItems, ClosedStatuses
<1>4. CASE Rewritten(o)
  BY <1>1, <1>4 DEF Rewritten, OrderSays, ActiveItems, ClosedStatuses
<1>5. CASE Sold(o)
  BY <1>5 DEF Sold, Confirmed, OrderSays, ActiveItems, ClosedStatuses
<1>6. CASE Closed(o)
  <2>1. /\ ActiveItems(o)' = {} /\ order'[o].status \in ClosedStatuses
        /\ applied'[o] # "APPLIED"
    BY <1>6 DEF Closed, Released, ActiveItems
  <2>2. \A i \in DOMAIN payments'[o] : payments'[o][i].status \notin {"PENDING", "IN_PROCESS"}
    BY <1>6, CancelledRows DEF Closed
  <2> QED
    BY <2>1, <2>2 DEF OrderSays, ClosedStatuses
<1>7. CASE LineExpired(o)
  <2>1. PICK w \in ActiveItems(o) :
          /\ \A v \in Variants : reservation'[o][v].status =
                IF v = w THEN "EXPIRED" ELSE reservation[o][v].status
          /\ \/ ActiveItems(o) # {w}
             \/ order[o].status \notin ExpirableStatuses
             \/ order[o].paymentStatus = "APPROVED"
    BY <1>7 DEF LineExpired
  <2>2. ActiveItems(o)' = ActiveItems(o) \ {w}
    BY <2>1 DEF ActiveItems
  <2>3. order'[o] = order[o]
        /\ \A v \in Variants : reservation'[o][v].expiresAt = reservation[o][v].expiresAt
    BY <1>7 DEF LineExpired, SameOrder
  <2>4. order[o].status \notin ClosedStatuses \cup {"NONE"}
    BY <1>1, <2>1 DEF OrderSays
  <2>5. \A v \in ActiveItems(o)' : reservation'[o][v].expiresAt = order'[o].expiresAt
    BY <1>1, <2>2, <2>3 DEF OrderSays, ActiveItems
  <2>6. order[o].status = "PENDING_PAYMENT" =>
           ActiveItems(o)' # {} /\ order'[o].paymentStatus # "APPROVED"
    BY <1>1, <2>1, <2>2, <2>3 DEF OrderSays, ExpirableStatuses
  <2> QED
    BY <2>3, <2>4, <2>5, <2>6 DEF OrderSays
<1> QED
  BY <1>2, <1>3, <1>4, <1>5, <1>6, <1>7 DEF Changed

LEMMA OrderNext == OrderInv /\ [Next]_vars => OrderInv'
<1> SUFFICES ASSUME OrderInv, [Next]_vars PROVE OrderInv'
  OBVIOUS
<1>1. TypeOK'
  BY TypeNext DEF OrderInv
<1>2. \A o \in Orders : Untouched(o) \/ Changed(o)
  BY StepShape DEF OrderInv
<1>3. \A o \in Orders : OrderSays(o)'
  BY <1>2, OrderStep
<1> QED
  BY <1>1, <1>3 DEF OrderInv

\* A pending order holds stock until the deadline it states; a closed order
\* holds no stock, no use of the promotion and no attempt that can be paid.
THEOREM StatusTellsWhatIsHeld == Spec => []HoldsWhatItsStatusSays
<1>1. OrderInv => HoldsWhatItsStatusSays
  BY DEF OrderInv, OrderSays, HoldsWhatItsStatusSays
<1> QED
  BY <1>1, OrderInit, OrderNext, PTL DEF Spec

LEMMA LateStep ==
    ASSUME OrderInv, NEW o \in Orders, Untouched(o) \/ Changed(o), NEW v \in Variants,
           reservation[o][v].status = "ACTIVE", reservation[o][v].expiresAt <= now
    PROVE  reservation'[o][v].expiresAt <= now
<1>1. v \in ActiveItems(o)
  BY DEF ActiveItems
<1>2. ~Placed(o)
  BY <1>1 DEF Placed, OrderInv, OrderSays
<1>3. reservation[o][v].expiresAt \in Nat /\ now \in Nat
  BY DEF OrderInv, TypeOK, ReservationRow
<1>4. ~Rewritten(o)
  BY <1>1, <1>3 DEF Rewritten, Unexpired
<1>5. reservation'[o][v].expiresAt = reservation[o][v].expiresAt
  BY <1>2, <1>4 DEF Untouched, Changed, Sold, Confirmed, Closed, LineExpired, SameOrder
<1> QED
  BY <1>5

\* Nothing extends a reservation once its deadline has passed: no change of
\* method, quote or address, nor a new order, moves a late deadline.
THEOREM LateStaysLate == Spec => LateReservationsStayLate
<1>1. OrderInv /\ [Next]_vars => [NoLateExtension]_vars
  <2> SUFFICES ASSUME OrderInv, [Next]_vars PROVE NoLateExtension
    OBVIOUS
  <2>1. \A o \in Orders : Untouched(o) \/ Changed(o)
    BY StepShape DEF OrderInv
  <2> QED
    BY <2>1, LateStep DEF NoLateExtension
<1> QED
  BY <1>1, OrderInit, OrderNext, PTL DEF Spec, LateReservationsStayLate
-----------------------------------------------------------------------------
(* The promotion.                                                          *)

\* The orders that hold a use of the promotion, and those of one customer.
Users == {o \in Orders : applied[o] = "APPLIED"}
UsersOf(customer) ==
    {o \in Orders : order[o].customer = customer /\ applied[o] = "APPLIED"}

LEMMA UsersFinite ==
    ASSUME NEW S \in SUBSET Orders
    PROVE  IsFiniteSet(S) /\ Cardinality(S) \in Nat
BY FiniteOrders, FS_Subset, FS_CardinalityType

\* The counter follows the orders: with no change of the users, with one more
\* user of a customer within the limits, with one user less.
LEMMA UsesKept ==
    ASSUME UsesAreHeld, uses' = uses, Users' = Users,
           \A customer \in Customers : UsersOf(customer)' = UsersOf(customer)
    PROVE  UsesAreHeld'
BY DEF UsesAreHeld, Users, UsersOf

LEMMA UsesTaken ==
    ASSUME UsesAreHeld, NEW o \in Orders, applied[o] # "APPLIED",
           NEW customer \in Customers, promotionAvailable(customer), uses' = uses + 1,
           Users' = Users \cup {o}, UsersOf(customer)' = UsersOf(customer) \cup {o},
           \A c \in Customers \ {customer} : UsersOf(c)' = UsersOf(c)
    PROVE  UsesAreHeld'
<1>1. Users \in SUBSET Orders /\ UsersOf(customer) \in SUBSET Orders
  BY DEF Users, UsersOf
<1>2. o \notin Users /\ o \notin UsersOf(customer)
  BY DEF Users, UsersOf
<1>3. /\ uses = Cardinality(Users) /\ uses < MaximumUses
      /\ Cardinality(UsersOf(customer)) < PerCustomerLimit
  BY DEF UsesAreHeld, Users, UsersOf, promotionAvailable, usesOf
<1>4. /\ Cardinality(Users \cup {o}) = Cardinality(Users) + 1
      /\ Cardinality(UsersOf(customer) \cup {o}) = Cardinality(UsersOf(customer)) + 1
  BY <1>1, <1>2, UsersFinite, FS_AddElement
<1>5. Cardinality(Users) \in Nat /\ Cardinality(UsersOf(customer)) \in Nat
  BY <1>1, UsersFinite
<1>6. \A c \in Customers : Cardinality(UsersOf(c)) <= PerCustomerLimit
  BY DEF UsesAreHeld, UsersOf
<1>7. /\ uses' = Cardinality(Users') /\ uses' <= MaximumUses
      /\ Cardinality(UsersOf(customer)') <= PerCustomerLimit
  BY <1>3, <1>4, <1>5, PromotionAssumption
<1>8. \A c \in Customers : Cardinality(UsersOf(c)') <= PerCustomerLimit
  BY <1>6, <1>7
<1> QED
  BY <1>7, <1>8 DEF UsesAreHeld, Users, UsersOf

LEMMA UsesGivenBack ==
    ASSUME UsesAreHeld, NEW o \in Orders, applied[o] = "APPLIED",
           uses' = IF uses > 0 THEN uses - 1 ELSE uses, Users' = Users \ {o},
           \A c \in Customers : UsersOf(c)' = UsersOf(c) \ {o}
    PROVE  UsesAreHeld'
<1>1. Users \in SUBSET Orders /\ o \in Users
  BY DEF Users
<1>2. /\ uses = Cardinality(Users) /\ uses <= MaximumUses
  BY DEF UsesAreHeld, Users
<1>3. /\ Cardinality(Users) \in Nat /\ Cardinality(Users) # 0
      /\ Cardinality(Users \ {o}) = Cardinality(Users) - 1
  BY <1>1, UsersFinite, FS_RemoveElement, FS_EmptySet
<1>4. uses' = Cardinality(Users') /\ uses' <= MaximumUses
  BY <1>2, <1>3, PromotionAssumption
<1>5. ASSUME NEW c \in Customers
      PROVE  Cardinality(UsersOf(c)') <= PerCustomerLimit
  <2>1. Cardinality(UsersOf(c)) <= PerCustomerLimit
    BY DEF UsesAreHeld, UsersOf
  <2>2. UsersOf(c) \in SUBSET Orders
    BY DEF UsersOf
  <2>3. UsersOf(c) \ {o} \in SUBSET UsersOf(c)
    OBVIOUS
  <2>4. IsFiniteSet(UsersOf(c)) /\ Cardinality(UsersOf(c)) \in Nat
    BY <2>2, UsersFinite
  <2>5. UsersOf(c) \ {o} \in SUBSET Orders
    BY <2>2
  <2>6. Cardinality(UsersOf(c) \ {o}) \in Nat
    BY <2>5, UsersFinite
  <2>7. Cardinality(UsersOf(c) \ {o}) <= Cardinality(UsersOf(c))
    BY <2>3, <2>4, FS_Subset
  <2> QED
    BY <2>1, <2>4, <2>6, <2>7, PromotionAssumption
<1> QED
  BY <1>4, <1>5 DEF UsesAreHeld, Users, UsersOf

\* A change of an order that is placed already keeps its customer and its date,
\* never reopens it and never takes a use of the promotion.
Continues(o) ==
    /\ order'[o].customer = order[o].customer
    /\ order'[o].createdAt = order[o].createdAt
    /\ order'[o].status \notin ClosedStatuses \cup {"NONE"}
          => order[o].status \notin ClosedStatuses \cup {"NONE"}
    /\ \/ uses' = uses /\ applied'[o] = applied[o]
       \/ Released(o)

LEMMA ChangeContinues ==
    ASSUME NEW o, Changed(o), ~Placed(o)
    PROVE  Continues(o)
BY DEF Changed, Continues, Rewritten, Sold, Confirmed, Closed, LineExpired, SameOrder, ClosedStatuses

LEMMA UsesStep ==
    ASSUME OrderInv, UsesAreHeld, NEW o \in Orders, Changed(o),
           \A p \in Orders \ {o} : Untouched(p)
    PROVE  UsesAreHeld'
<1>1. \A p \in Orders \ {o} : /\ order'[p].customer = order[p].customer
                              /\ applied'[p] = applied[p]
  BY DEF Untouched
<1>2. CASE Placed(o)
  <2>1. PICK customer \in Customers :
          /\ order[o].status = "NONE" /\ order'[o].customer = customer
          /\ \/ promotionAvailable(customer) /\ uses' = uses + 1 /\ applied'[o] = "APPLIED"
             \/ uses' = uses /\ applied'[o] = applied[o]
    BY <1>2 DEF Placed
  <2>2. applied[o] # "APPLIED"
    BY <2>1 DEF OrderInv, OrderSays
  <2>3. CASE promotionAvailable(customer) /\ uses' = uses + 1 /\ applied'[o] = "APPLIED"
    <3>1. /\ Users' = Users \cup {o} /\ UsersOf(customer)' = UsersOf(customer) \cup {o}
          /\ \A c \in Customers \ {customer} : UsersOf(c)' = UsersOf(c)
      BY <1>1, <2>1, <2>2, <2>3 DEF Users, UsersOf
    <3> QED
      BY <2>2, <2>3, <3>1, UsesTaken
  <2>4. CASE uses' = uses /\ applied'[o] = applied[o]
    <3>1. Users' = Users /\ \A c \in Customers : UsersOf(c)' = UsersOf(c)
      BY <1>1, <2>2, <2>4 DEF Users, UsersOf
    <3> QED
      BY <2>4, <3>1, UsesKept
  <2> QED
    BY <2>1, <2>3, <2>4
<1>3. CASE ~Placed(o)
  <2>1. Continues(o)
    BY <1>3, ChangeContinues
  <2>2. CASE uses' = uses /\ applied'[o] = applied[o]
    <3>1. Users' = Users /\ \A c \in Customers : UsersOf(c)' = UsersOf(c)
      BY <1>1, <2>1, <2>2 DEF Users, UsersOf, Continues
    <3> QED
      BY <2>2, <3>1, UsesKept
  <2>3. CASE Released(o) /\ applied[o] # "APPLIED"
    <3>1. Users' = Users /\ \A c \in Customers : UsersOf(c)' = UsersOf(c)
      BY <1>1, <2>1, <2>3 DEF Users, UsersOf, Continues, Released
    <3> QED
      BY <2>3, <3>1, UsesKept DEF Released
  <2>4. CASE Released(o) /\ applied[o] = "APPLIED"
    <3>1. Users' = Users \ {o} /\ \A c \in Customers : UsersOf(c)' = UsersOf(c) \ {o}
      BY <1>1, <2>1, <2>4 DEF Users, UsersOf, Continues, Released
    <3> QED
      BY <2>4, <3>1, UsesGivenBack DEF Released
  <2> QED
    BY <2>1, <2>2, <2>3, <2>4 DEF Continues
<1> QED
  BY <1>2, <1>3

LEMMA UsesInit == Init => UsesAreHeld
<1> SUFFICES ASSUME Init PROVE UsesAreHeld
  OBVIOUS
<1>1. Users = {} /\ \A c \in Customers : UsersOf(c) = {}
  BY DEF Init, Users, UsersOf
<1>2. uses = 0
  BY DEF Init
<1> QED
  BY <1>1, <1>2, FS_EmptySet, PromotionAssumption DEF UsesAreHeld, Users, UsersOf

LEMMA UsesNext == OrderInv /\ UsesAreHeld /\ [Next]_vars => UsesAreHeld'
<1> SUFFICES ASSUME OrderInv, UsesAreHeld, [Next]_vars PROVE UsesAreHeld'
  OBVIOUS
<1>1. CASE (\A p \in Orders : Untouched(p)) /\ uses' = uses
  <2>1. Users' = Users /\ \A c \in Customers : UsersOf(c)' = UsersOf(c)
    BY <1>1 DEF Untouched, Users, UsersOf
  <2> QED
    BY <1>1, <2>1, UsesKept
<1>2. CASE \E o \in Orders : Changed(o) /\ \A p \in Orders \ {o} : Untouched(p)
  BY <1>2, UsesStep
<1> QED
  BY <1>1, <1>2, StepShape DEF OrderInv

\* The promotion's counter of uses is the number of orders that hold one, and
\* neither its maximum nor a customer's limit is ever passed.
THEOREM UsesAreExact == Spec => []UsesAreHeld
BY OrderInit, OrderNext, UsesInit, UsesNext, PTL DEF Spec

\* WelcomeIsFirst, strengthened: no order is dated in the future.
WelcomeInv ==
    /\ WelcomeIsFirst
    /\ \A o \in Orders : order[o].status # "NONE" => order[o].createdAt <= now

LEMMA WelcomeInit == Init => WelcomeInv
BY DEF Init, WelcomeInv, WelcomeIsFirst, NoOrder

LEMMA DatesNext ==
    ASSUME OrderInv, WelcomeInv, [Next]_vars, NEW o \in Orders,
           order'[o].status # "NONE"
    PROVE  order'[o].createdAt <= now'
<1>0. TypeOK /\ now \in Nat /\ order[o].createdAt \in Nat
  BY DEF OrderInv, TypeOK, OrderRow
<1>1. now' >= now /\ now \in Nat /\ now' \in Nat /\ order[o].createdAt \in Nat
  <2>1. (now' \in Nat /\ now' >= now) \/ now' = now
    BY <1>0, StepShape
  <2> QED
    BY <1>0, <2>1
<1>2. Untouched(o) \/ (Changed(o) /\ now' = now)
  BY StepShape DEF OrderInv
<1>3. CASE Untouched(o)
  BY <1>1, <1>3 DEF WelcomeInv, Untouched
<1>4. CASE Placed(o) /\ now' = now
  BY <1>1, <1>4 DEF Placed
<1>5. CASE Changed(o) /\ ~Placed(o) /\ order[o].status # "NONE"
  BY <1>1, <1>5, ChangeContinues DEF WelcomeInv, Continues
<1>6. CASE Changed(o) /\ ~Placed(o) /\ order[o].status = "NONE"
  BY <1>6 DEF Changed, Rewritten, Sold, Confirmed, Closed, LineExpired, OrderInv, OrderSays
<1> QED
  BY <1>2, <1>3, <1>4, <1>5, <1>6

LEMMA WelcomeStep ==
    ASSUME OrderInv, WelcomeInv, WelcomeOnly, [Next]_vars, NEW o \in Orders, NEW p \in Orders,
           o # p, order'[o].customer = order'[p].customer, applied'[o] = "APPLIED",
           order'[p].status \notin ClosedStatuses \cup {"NONE"}
    PROVE  applied'[p] # "APPLIED" /\ order'[o].createdAt <= order'[p].createdAt
<1> DEFINE Open(q) == order[q].status \notin ClosedStatuses \cup {"NONE"}
<1>1. \A q \in Orders : applied[q] = "APPLIED" => Open(q)
  BY DEF OrderInv, OrderSays
<1>2. /\ order[o].customer = order[p].customer /\ applied[o] = "APPLIED" /\ Open(p)
      => applied[p] # "APPLIED" /\ order[o].createdAt <= order[p].createdAt
  BY DEF WelcomeInv, WelcomeIsFirst
<1>3. (Untouched(o) \/ Changed(o)) /\ (Untouched(p) \/ Changed(p)) /\ (Untouched(o) \/ Untouched(p))
  BY StepShape DEF OrderInv
<1>4. CASE Placed(o)
  <2>1. PICK customer \in Customers :
          /\ order[o].status = "NONE" /\ order'[o].status = "PENDING_PAYMENT"
          /\ order'[o].customer = customer
          /\ \/ promotionAvailable(customer)
             \/ applied'[o] = applied[o]
    BY <1>4 DEF Placed
  <2>2. applied[o] # "APPLIED" /\ ~Untouched(o)
    BY <1>1, <2>1 DEF Untouched
  <2>3. Open(p) /\ order[p].customer = customer
    BY <1>3, <2>1, <2>2 DEF Untouched
  <2> QED
    BY <2>1, <2>2, <2>3 DEF promotionAvailable, hasPreviousOrder
<1>5. CASE Placed(p)
  <2>1. PICK customer \in Customers :
          /\ order[p].status = "NONE" /\ order'[p].status = "PENDING_PAYMENT"
          /\ order'[p].customer = customer /\ order'[p].createdAt = now
          /\ \/ promotionAvailable(customer)
             \/ applied'[p] = applied[p]
    BY <1>5 DEF Placed
  <2>2. applied[p] # "APPLIED" /\ ~Untouched(p)
    BY <1>1, <2>1 DEF Untouched
  <2>3. /\ applied[o] = "APPLIED" /\ order[o].customer = customer
        /\ order'[o].createdAt = order[o].createdAt
    BY <1>3, <2>1, <2>2 DEF Untouched
  <2>4. ~promotionAvailable(customer)
    BY <1>1, <2>3 DEF promotionAvailable, hasPreviousOrder
  <2>5. order[o].createdAt <= now
    BY <1>1, <2>3 DEF WelcomeInv
  <2> QED
    BY <2>1, <2>2, <2>3, <2>4, <2>5
<1>6. CASE ~Placed(o) /\ ~Placed(p)
  <2>1. /\ order'[o].customer = order[o].customer /\ order'[p].customer = order[p].customer
        /\ order'[o].createdAt = order[o].createdAt /\ order'[p].createdAt = order[p].createdAt
        /\ applied[o] = "APPLIED" /\ Open(p)
        /\ applied'[p] = "APPLIED" => applied[p] = "APPLIED"
    BY <1>3, <1>6, ChangeContinues DEF Untouched, Continues, Released
  <2> QED
    BY <1>2, <2>1
<1> QED
  BY <1>4, <1>5, <1>6

LEMMA WelcomeNext == OrderInv /\ WelcomeInv /\ [Next]_vars => WelcomeInv'
<1> SUFFICES ASSUME OrderInv, WelcomeInv, [Next]_vars PROVE WelcomeInv'
  OBVIOUS
<1>1. WelcomeIsFirst'
  BY WelcomeStep DEF WelcomeIsFirst
<1>2. \A o \in Orders : order'[o].status # "NONE" => order'[o].createdAt <= now'
  BY DatesNext
<1> QED
  BY <1>1, <1>2 DEF WelcomeInv

\* A welcome promotion is used by one order of a customer, the oldest of those
\* that are not closed, in whatever order they are placed, cancelled or expire.
THEOREM WelcomeGoesFirst == Spec => []WelcomeIsFirst
<1>1. WelcomeInv => WelcomeIsFirst
  BY DEF WelcomeInv
<1> QED
  BY <1>1, OrderInit, OrderNext, WelcomeInit, WelcomeNext, PTL DEF Spec
-----------------------------------------------------------------------------
(* The attempts at paying an order.                                        *)

\* OnePayableAttempt and OneLiveAttempt for one order, strengthened.  A proof uploaded for an
\* attempt that was replaced meanwhile may still be approved and then revives
\* that attempt beside the one that replaced it; so where there are proofs the
\* claim is about orders that are not paid yet, and it needs that an approved
\* attempt is one of a paid order.
AttemptsSay(o) ==
    /\ \A i \in DOMAIN payments[o] :
          /\ payments[o][i].status \in {"PENDING", "CANCELLED", "APPROVED"}
          /\ payments[o][i].status = "APPROVED" => order[o].paymentStatus = "APPROVED"
    /\ order[o].paymentStatus # "APPROVED" \/ Proofs = {} =>
          \A i, j \in Live(o) : i = j
    /\ order[o].status = "PENDING_PAYMENT" =>
          \A i \in Live(o) : payments[o][i].amount = order[o].shipping
AttemptInv == \A o \in Orders : AttemptsSay(o)

LEMMA AttemptInit == Init => AttemptInv
BY DEF Init, AttemptInv, AttemptsSay, NoOrder, Live

\* A change that pays nothing and revives nothing.
LEMMA FewerAttempts ==
    ASSUME NEW o \in Orders, AttemptsSay(o),
           DOMAIN payments'[o] = DOMAIN payments[o],
           \A i \in DOMAIN payments[o] :
              /\ payments'[o][i].status \in {payments[o][i].status, "CANCELLED"}
              /\ payments'[o][i].amount = payments[o][i].amount,
           order'[o].paymentStatus = order[o].paymentStatus
             \/ (order[o].paymentStatus # "APPROVED" /\ order'[o].paymentStatus # "APPROVED"),
           order'[o].status = "PENDING_PAYMENT" => order[o].status = "PENDING_PAYMENT",
           order'[o].shipping = order[o].shipping
    PROVE  AttemptsSay(o)'
<1>1. Live(o)' \subseteq Live(o)
  BY DEF Live, SupersededStatuses
<1>2. \A i \in DOMAIN payments'[o] :
          /\ payments'[o][i].status \in {"PENDING", "CANCELLED", "APPROVED"}
          /\ payments'[o][i].status = "APPROVED" => order'[o].paymentStatus = "APPROVED"
  BY DEF AttemptsSay
<1>3. order'[o].paymentStatus # "APPROVED" \/ Proofs = {} =>
          \A i, j \in Live(o)' : i = j
  BY <1>1 DEF AttemptsSay
<1>4. order'[o].status = "PENDING_PAYMENT" =>
          \A i \in Live(o)' : payments'[o][i].amount = order'[o].shipping
  BY <1>1 DEF AttemptsSay, Live
<1> QED
  BY <1>2, <1>3, <1>4 DEF AttemptsSay

\* The attempts of a pending order all end when another one replaces them.
LEMMA ReplacedAttempts ==
    ASSUME OrderInv, TypeOK', NEW o \in Orders, AttemptsSay(o),
           order[o].paymentStatus # "APPROVED",
           NEW choice \in Choices, NEW amount, amount = order'[o].shipping,
           payments'[o] = Append(CancelAttempts(o, {"PENDING", "REJECTED"})[o],
                                 newAttempt(choice, amount))
    PROVE  AttemptsSay(o)'
<1> DEFINE c == CancelAttempts(o, {"PENDING", "REJECTED"})[o]
           new == newAttempt(choice, amount)
           n == Len(c)
<1>1. c \in Seq(Attempt) /\ n \in Nat /\ DOMAIN c = 1..n
  BY CancelAttemptsType DEF OrderInv, TypeOK
<1>2. amount \in Nat
  BY DEF TypeOK, OrderRow
<1>3. new \in Attempt /\ new.status = "PENDING" /\ new.amount = amount
  BY <1>2, NewAttemptType DEF newAttempt
<1>4. ASSUME NEW i \in 1..n PROVE c[i].status = "CANCELLED"
  <2>1. i \in DOMAIN payments[o]
    BY <1>1, CancelledRows DEF OrderInv
  <2>2. payments[o][i].status \in {"PENDING", "CANCELLED"}
    BY <2>1 DEF AttemptsSay
  <2> QED
    BY <2>1, <2>2, CancelledRows DEF OrderInv
<1> HIDE DEF c, new
<1>5. payments'[o] = Append(c, new)
  BY DEF c, new
<1>6. /\ DOMAIN payments'[o] = 1..(n + 1) /\ payments'[o][n + 1] = new
      /\ \A i \in 1..n : payments'[o][i] = c[i]
  BY <1>1, <1>3, <1>5
<1>7. Live(o)' = {n + 1}
  BY <1>1, <1>3, <1>4, <1>6 DEF Live, SupersededStatuses
<1>8. \A i \in DOMAIN payments'[o] : payments'[o][i].status \in {"PENDING", "CANCELLED"}
  BY <1>1, <1>3, <1>4, <1>6
<1>9. \A i \in Live(o)' : payments'[o][i].amount = order'[o].shipping
  BY <1>3, <1>6, <1>7
<1> QED
  BY <1>7, <1>8, <1>9 DEF AttemptsSay

\* A quote changes the amount of the one attempt that can be paid.
LEMMA QuotedAttempts ==
    ASSUME OrderInv, NEW o \in Orders, AttemptsSay(o),
           order[o].paymentStatus # "APPROVED", order'[o].paymentStatus # "APPROVED",
           Live(o) # {}, NEW amount, amount = order'[o].shipping,
           payments'[o] = [payments[o] EXCEPT ![Newest(Live(o))].amount = amount]
    PROVE  AttemptsSay(o)'
<1> DEFINE k == Newest(Live(o))
           s == payments[o]
<1>1. s \in Seq(Attempt) /\ Len(s) \in Nat /\ DOMAIN s = 1..Len(s)
  BY DEF OrderInv, TypeOK
<1>2. Live(o) \in SUBSET (1..Len(s))
  BY <1>1 DEF Live
<1>3. k \in Live(o) /\ k \in DOMAIN s
  BY <1>1, <1>2, NewestIsGreatest
<1> HIDE DEF k, s
<1>4. s[k] \in Attempt
  BY <1>1, <1>3
<1>5. payments'[o] = [s EXCEPT ![k] = [s[k] EXCEPT !.amount = amount]]
  BY DEF k, s
<1>6. [s[k] EXCEPT !.amount = amount].status = s[k].status
      /\ [s[k] EXCEPT !.amount = amount].amount = amount
  BY <1>4 DEF Attempt
<1>7. /\ DOMAIN payments'[o] = DOMAIN s
      /\ \A i \in DOMAIN s : payments'[o][i].status = s[i].status
      /\ payments'[o][k].amount = amount
  <2> DEFINE row == [s[k] EXCEPT !.amount = amount]
  <2>1. row.status = s[k].status /\ row.amount = amount /\ payments'[o] = [s EXCEPT ![k] = row]
    BY <1>5, <1>6
  <2> HIDE DEF row
  <2> QED
    BY <1>3, <2>1
<1>8. Live(o)' = Live(o)
  BY <1>7 DEF Live, s
<1>9. \A i \in Live(o) : i = k
  BY <1>3 DEF AttemptsSay
<1>10. \A i \in Live(o)' : payments'[o][i].amount = order'[o].shipping
  BY <1>7, <1>8, <1>9
<1>11. \A i \in DOMAIN payments'[o] : payments'[o][i].status \in {"PENDING", "CANCELLED"}
  BY <1>7 DEF AttemptsSay, s
<1> QED
  BY <1>8, <1>9, <1>10, <1>11 DEF AttemptsSay

\* A payment approves an attempt.
LEMMA ApprovedAttempts ==
    ASSUME OrderInv, NEW o \in Orders, AttemptsSay(o), NEW k,
           Proofs = {} => k \in Live(o), order'[o].paymentStatus = "APPROVED",
           order'[o].status = "CONFIRMED",
           payments'[o] = [payments[o] EXCEPT ![k].status = "APPROVED"]
    PROVE  AttemptsSay(o)'
<1> DEFINE s == payments[o]
           row == [s[k] EXCEPT !.status = "APPROVED"]
<1>1. \A i \in DOMAIN s : s[i] \in Attempt
  BY DEF OrderInv, TypeOK
<1>2. k \in DOMAIN s => row.status = "APPROVED"
  BY <1>1 DEF Attempt
<1>3. payments'[o] = [s EXCEPT ![k] = row]
  OBVIOUS
<1> HIDE DEF row, s
<1>4. /\ DOMAIN payments'[o] = DOMAIN s
      /\ \A i \in DOMAIN s : payments'[o][i].status =
            IF i = k THEN "APPROVED" ELSE s[i].status
  BY <1>2, <1>3
<1>5. Proofs = {} => \A i, j \in Live(o)' : i = j
  <2> SUFFICES ASSUME Proofs = {}, NEW i \in Live(o)' PROVE i = k
    OBVIOUS
  <2>1. k \in Live(o) /\ \A j \in Live(o) : j = k
    BY DEF AttemptsSay
  <2>2. i # k => i \in Live(o)
    BY <1>4 DEF Live, s
  <2> QED
    BY <2>1, <2>2
<1>6. \A i \in DOMAIN payments'[o] :
         payments'[o][i].status \in {"PENDING", "CANCELLED", "APPROVED"}
  BY <1>4 DEF AttemptsSay, s
<1> QED
  BY <1>5, <1>6 DEF AttemptsSay

LEMMA AttemptStep ==
    ASSUME OrderInv, TypeOK', NEW o \in Orders, AttemptsSay(o), Untouched(o) \/ Changed(o)
    PROVE  AttemptsSay(o)'
<1>1. CASE Untouched(o)
  BY <1>1, FewerAttempts DEF Untouched
<1>2. CASE Placed(o)
  <2>1. PICK choice \in Choices : payments'[o] = <<newAttempt(choice, order'[o].shipping)>>
    BY <1>2 DEF Placed
  <2>2. /\ DOMAIN payments'[o] = {1} /\ payments'[o][1].status = "PENDING"
        /\ payments'[o][1].amount = order'[o].shipping
    BY <2>1 DEF newAttempt
  <2>3. Live(o)' = {1}
    BY <2>2 DEF Live, SupersededStatuses
  <2> QED
    BY <2>2, <2>3 DEF AttemptsSay
<1>3. CASE Rewritten(o)
  <2>1. /\ order[o].status = "PENDING_PAYMENT" /\ order[o].paymentStatus # "APPROVED"
        /\ order'[o].paymentStatus # "APPROVED"
    BY <1>3 DEF Rewritten
  <2>2. CASE payments'[o] = payments[o] /\ order'[o].shipping = order[o].shipping
    BY <2>1, <2>2, FewerAttempts
  <2>3. CASE \E choice \in Choices : payments'[o] =
                Append(CancelAttempts(o, {"PENDING", "REJECTED"})[o],
                       newAttempt(choice, order'[o].shipping))
    BY <2>1, <2>3, ReplacedAttempts
  <2>4. CASE /\ Live(o) # {}
             /\ payments'[o] =
                   [payments[o] EXCEPT ![Newest(Live(o))].amount = order'[o].shipping]
    BY <2>1, <2>4, QuotedAttempts
  <2> QED
    BY <1>3, <2>2, <2>3, <2>4 DEF Rewritten
<1>4. CASE Sold(o)
  BY <1>4, ApprovedAttempts DEF Sold, Confirmed
<1>5. CASE Closed(o)
  <2>1. /\ order[o].paymentStatus # "APPROVED" /\ order'[o].paymentStatus # "APPROVED"
        /\ order'[o].status # "PENDING_PAYMENT" /\ order'[o].shipping = order[o].shipping
        /\ payments'[o] = CancelAttempts(o, {"PENDING", "IN_PROCESS"})[o]
    BY <1>5 DEF Closed, SameOrder, ClosedStatuses
  <2> QED
    BY <2>1, FewerAttempts, CancelledRows DEF OrderInv
<1>6. CASE LineExpired(o)
  <2>1. /\ order'[o] = order[o]
        /\ \/ payments'[o] = payments[o]
           \/ payments'[o] = CancelAttempts(o, {"PENDING", "IN_PROCESS"})[o]
    BY <1>6 DEF LineExpired
  <2> QED
    BY <2>1, FewerAttempts, CancelledRows DEF OrderInv
<1> QED
  BY <1>1, <1>2, <1>3, <1>4, <1>5, <1>6 DEF Changed

LEMMA AttemptNext == OrderInv /\ AttemptInv /\ [Next]_vars => AttemptInv'
<1> SUFFICES ASSUME OrderInv, AttemptInv, [Next]_vars, NEW o \in Orders
             PROVE  AttemptsSay(o)'
  BY DEF AttemptInv
<1>1. TypeOK' /\ (Untouched(o) \/ Changed(o))
  BY TypeNext, StepShape DEF OrderInv
<1> QED
  BY <1>1, AttemptStep DEF AttemptInv

\* A set whose elements are all the same has one element at most.
LEMMA AtMostOne == ASSUME NEW S, \A i, j \in S : i = j PROVE Cardinality(S) <= 1
<1>1. CASE S = {}
  BY <1>1, FS_EmptySet
<1>2. CASE S # {}
  <2>1. PICK x \in S : TRUE
    BY <1>2
  <2>2. S = {x}
    BY <2>1
  <2> QED
    BY <2>2, FS_Singleton
<1> QED
  BY <1>1, <1>2

\* An order that is not paid never has two attempts that could be collected, and
\* while it is pending the one it has asks for the order's total; with any number
\* of transfer proofs, uploaded and reviewed however late.
THEOREM UnpaidIsAskedOnce == Spec => []OnePayableAttempt
<1>1. AttemptInv => OnePayableAttempt
  BY AtMostOne DEF AttemptInv, AttemptsSay, Collectable, OnePayableAttempt
<1> QED
  BY <1>1, OrderInit, OrderNext, AttemptInit, AttemptNext, PTL DEF Spec

\* Where no transfer proofs are used (every other way of paying), no order has
\* two attempts that could be collected, before it is paid or after.
THEOREM PayableOnce == ASSUME Proofs = {} PROVE Spec => []OneLiveAttempt
<1>1. AttemptInv => OneLiveAttempt
  BY AtMostOne DEF AttemptInv, AttemptsSay, Collectable, OneLiveAttempt
<1> QED
  BY <1>1, OrderInit, OrderNext, AttemptInit, AttemptNext, PTL DEF Spec
-----------------------------------------------------------------------------
(* The sale.                                                               *)

\* The sale of an order: sold lines, the announcement and the payment status.
\* A number nobody has used has no attempts and no lines.
IsSold(o) == \E v \in Variants : reservation[o][v].status = "CONSUMED"
SaleSays(o) ==
    /\ approvals[o] = IF IsSold(o) THEN 1 ELSE 0
    /\ IsSold(o) => ActiveItems(o) = {}
    /\ order[o].paymentStatus = "APPROVED" => IsSold(o)
    /\ order[o].status = "NONE" => payments[o] = <<>> /\ ActiveItems(o) = {} /\ ~IsSold(o)

\* A confirmation sells the lines that are held, and so never an order twice.
LEMMA ConfirmSells ==
    ASSUME NEW o \in Orders, SaleSays(o), Confirmed(o)
    PROVE  SaleSays(o)'
<1>1. /\ IsSold(o)' /\ ActiveItems(o)' = {}
  BY DEF Confirmed, ActiveItems, IsSold
<1>2. ~IsSold(o)
  BY DEF SaleSays, Confirmed
<1> QED
  BY <1>1, <1>2 DEF SaleSays, Confirmed

LEMMA ShopSales ==
    ASSUME NEW o \in Orders, SaleSays(o), Untouched(o) \/ Changed(o)
    PROVE  SaleSays(o)'
<1>1. CASE Untouched(o)
  BY <1>1 DEF Untouched, SaleSays, IsSold, ActiveItems
<1>2. CASE Placed(o)
  BY <1>2 DEF Placed, SaleSays, IsSold
<1>3. CASE Rewritten(o)
  BY <1>3 DEF Rewritten, SaleSays, IsSold, ActiveItems
<1>4. CASE Sold(o)
  BY <1>4, ConfirmSells DEF Sold
<1>5. CASE Closed(o)
  BY <1>5 DEF Closed, SaleSays, IsSold, ActiveItems, ClosedStatuses
<1>6. CASE LineExpired(o)
  <2>1. IsSold(o)' <=> IsSold(o)
    BY <1>6 DEF LineExpired, IsSold, ActiveItems
  <2>2. ActiveItems(o) # {} /\ ActiveItems(o)' \subseteq ActiveItems(o)
    BY <1>6 DEF LineExpired, ActiveItems
  <2> QED
    BY <1>6, <2>1, <2>2 DEF LineExpired, SaleSays
<1> QED
  BY <1>1, <1>2, <1>3, <1>4, <1>5, <1>6 DEF Changed

\* In the shop itself, where nothing refunds, what was sold is paid.
SaleInv == TypeOK /\ \A o \in Orders :
    SaleSays(o) /\ (IsSold(o) => order[o].paymentStatus = "APPROVED")

LEMMA SaleInit == Init => SaleInv
BY TypeInit DEF Init, SaleInv, SaleSays, IsSold, ActiveItems, NoOrder, NoReservation

LEMMA SaleNext == SaleInv /\ [Next]_vars => SaleInv'
<1> SUFFICES ASSUME SaleInv, [Next]_vars PROVE SaleInv'
  OBVIOUS
<1>1. TypeOK /\ TypeOK'
  BY TypeNext DEF SaleInv
<1>2. ASSUME NEW o \in Orders, Untouched(o) \/ Changed(o)
      PROVE  SaleSays(o)' /\ (IsSold(o)' => order'[o].paymentStatus = "APPROVED")
  <2>1. SaleSays(o) /\ (IsSold(o) => order[o].paymentStatus = "APPROVED")
    BY DEF SaleInv
  <2>2. SaleSays(o)'
    BY <1>2, <2>1, ShopSales
  <2>3. CASE Untouched(o)
    BY <2>1, <2>2, <2>3 DEF Untouched, IsSold
  <2>4. CASE Placed(o)
    BY <2>2, <2>4 DEF Placed, IsSold
  <2>5. CASE Rewritten(o)
    BY <2>1, <2>2, <2>5 DEF Rewritten, IsSold
  <2>6. CASE Sold(o)
    BY <2>2, <2>6 DEF Sold, Confirmed
  <2>7. CASE Closed(o)
    <3>1. IsSold(o)' => IsSold(o)
      BY <2>7 DEF Closed, IsSold
    <3> QED
      BY <2>1, <2>2, <2>7, <3>1 DEF Closed
  <2>8. CASE LineExpired(o)
    <3>1. IsSold(o)' => IsSold(o)
      BY <2>8 DEF LineExpired, IsSold
    <3> QED
      BY <2>1, <2>2, <2>8, <3>1 DEF LineExpired
  <2> QED
    BY <1>2, <2>3, <2>4, <2>5, <2>6, <2>7, <2>8 DEF Changed
<1>3. \A o \in Orders : Untouched(o) \/ Changed(o)
  BY <1>1, StepShape
<1> QED
  BY <1>1, <1>2, <1>3 DEF SaleInv

\* An order is sold and announced as paid exactly once, when its payment is
\* confirmed, and nothing else sells (confirmOrderPayment's early return, the
\* refusals of updatePendingCheckout and cancelOrderInTransaction).
THEOREM SoldExactlyOnce == Spec => []SoldOncePaid
<1>1. SaleInv => SoldOncePaid
  BY DEF SaleInv, SaleSays, IsSold, SoldOncePaid
<1> QED
  BY <1>1, SaleInit, SaleNext, PTL DEF Spec
=============================================================================

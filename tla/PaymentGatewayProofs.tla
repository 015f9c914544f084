----------------------- MODULE PaymentGatewayProofs -----------------------
(***************************************************************************)
(* Proofs about card and link payments, for every set of orders, charges,  *)
(* requests and faults: paid orders stay paid, are sold once and never     *)
(* oversell the stock, whatever providers, browsers and webhooks report,   *)
(* and no Stripe charge is forgotten.                                      *)
(*                                                                         *)
(* Then that the money and the order agree: an order that says it is paid  *)
(* by card or link was charged its total, and it can be paid by one        *)
(* attempt at most.  Where transfer proofs are reviewed neither is so      *)
(* (late_proof), and the first is not so where Mercado Pago charges a card *)
(* (see PaidOrdersWereCharged); the theorems say so.                       *)
(***************************************************************************)
EXTENDS PaymentGateway, CheckoutProofs
-----------------------------------------------------------------------------
(* What the shop's own transactions do to the attempts of an order.        *)

\* Attempts are never removed and never change their payment choice; nothing in
\* the shop itself marks one as refunded.
AttemptsGoOn(o) ==
    /\ \A i \in DOMAIN payments[o] :
          /\ i \in DOMAIN payments'[o]
          /\ payments'[o][i].choice = payments[o][i].choice
    /\ \A i \in DOMAIN payments'[o] \ DOMAIN payments[o] :
          payments'[o][i].choice \in Choices
NoneRefunded(o) ==
    \A i \in DOMAIN payments'[o] : payments'[o][i].status = "REFUNDED" =>
        i \in DOMAIN payments[o] /\ payments[o][i].status = "REFUNDED"

LEMMA CancelledChoices ==
    ASSUME TypeOK, NEW o \in Orders, NEW statuses
    PROVE  /\ DOMAIN CancelAttempts(o, statuses)[o] = DOMAIN payments[o]
           /\ \A i \in DOMAIN payments[o] :
                 CancelAttempts(o, statuses)[o][i].choice = payments[o][i].choice
<1> DEFINE s == payments[o]
           t == [i \in DOMAIN s |-> IF s[i].status \in statuses
                                    THEN [s[i] EXCEPT !.status = "CANCELLED"] ELSE s[i]]
<1>1. CancelAttempts(o, statuses)[o] = t
  BY DEF CancelAttempts, TypeOK
<1>2. ASSUME NEW i \in DOMAIN s PROVE t[i].choice = s[i].choice
  <2>1. s[i] \in Attempt
    BY DEF TypeOK
  <2>2. [s[i] EXCEPT !.status = "CANCELLED"].choice = s[i].choice
    BY <2>1 DEF Attempt
  <2>3. CASE s[i].status \in statuses
    BY <2>2, <2>3
  <2>4. CASE s[i].status \notin statuses
    BY <2>4
  <2> QED
    BY <2>3, <2>4
<1>3. DOMAIN t = DOMAIN s
  OBVIOUS
<1> HIDE DEF t
<1> QED
  BY <1>1, <1>2, <1>3

LEMMA ShopAttempts ==
    ASSUME TypeOK, TypeOK', NEW o \in Orders, SaleSays(o), Untouched(o) \/ Changed(o)
    PROVE  AttemptsGoOn(o) /\ NoneRefunded(o)
<1>1. CASE payments'[o] = payments[o]
  BY <1>1 DEF AttemptsGoOn, NoneRefunded
<1>2. CASE \E statuses : payments'[o] = CancelAttempts(o, statuses)[o]
  BY <1>2, CancelledRows, CancelledChoices DEF AttemptsGoOn, NoneRefunded
<1>3. CASE Placed(o)
  <2>1. PICK choice \in Choices : payments'[o] = <<newAttempt(choice, order'[o].shipping)>>
    BY <1>3 DEF Placed
  <2>2. payments[o] = <<>>
    BY <1>3 DEF Placed, SaleSays
  <2>3. newAttempt(choice, order'[o].shipping).status = "PENDING"
        /\ newAttempt(choice, order'[o].shipping).choice = choice
    BY DEF newAttempt
  <2> QED
    BY <2>1, <2>2, <2>3 DEF AttemptsGoOn, NoneRefunded
<1>4. ASSUME NEW choice \in Choices,
             payments'[o] = Append(CancelAttempts(o, {"PENDING", "REJECTED"})[o],
                                   newAttempt(choice, order'[o].shipping))
      PROVE  AttemptsGoOn(o) /\ NoneRefunded(o)
  <2> DEFINE c == CancelAttempts(o, {"PENDING", "REJECTED"})[o]
             new == newAttempt(choice, order'[o].shipping)
  <2>1. c \in Seq(Attempt) /\ Len(c) \in Nat /\ DOMAIN c = 1..Len(c)
    BY CancelAttemptsType DEF TypeOK
  <2>2. order'[o].shipping \in Nat
    BY DEF TypeOK, OrderRow
  <2>3. new \in Attempt /\ new.status = "PENDING" /\ new.choice = choice
    BY <2>2, NewAttemptType DEF newAttempt
  <2>4. /\ DOMAIN c = DOMAIN payments[o]
        /\ \A i \in DOMAIN c :
              /\ c[i].choice = payments[o][i].choice
              /\ c[i].status = "REFUNDED" => payments[o][i].status = "REFUNDED"
    BY CancelledRows, CancelledChoices
  <2>5. payments'[o] = Append(c, new)
    BY <1>4
  <2> HIDE DEF c, new
  <2>6. /\ DOMAIN payments'[o] = 1..(Len(c) + 1) /\ payments'[o][Len(c) + 1] = new
        /\ \A i \in 1..Len(c) : payments'[o][i] = c[i]
    BY <2>1, <2>3, <2>5
  <2>7. \A i \in DOMAIN payments'[o] :
           \/ i \in DOMAIN payments[o] /\ payments'[o][i] = c[i] /\ i \in DOMAIN c
           \/ i \notin DOMAIN payments[o] /\ payments'[o][i] = new
    BY <2>1, <2>4, <2>6
  <2>8. \A i \in DOMAIN payments[o] : i \in DOMAIN payments'[o]
    BY <2>1, <2>4, <2>6
  <2>9. AttemptsGoOn(o)
    BY <2>3, <2>4, <2>7, <2>8 DEF AttemptsGoOn
  <2>10. NoneRefunded(o)
    BY <2>3, <2>4, <2>7 DEF NoneRefunded
  <2> QED
    BY <2>9, <2>10
<1>5. ASSUME NEW k, NEW amount, payments'[o] = [payments[o] EXCEPT ![k].amount = amount]
      PROVE  AttemptsGoOn(o) /\ NoneRefunded(o)
  <2> DEFINE s == payments[o]
             row == [s[k] EXCEPT !.amount = amount]
  <2>1. k \in DOMAIN s => row.status = s[k].status /\ row.choice = s[k].choice
    BY DEF TypeOK, Attempt
  <2>2. payments'[o] = [s EXCEPT ![k] = row]
    BY <1>5
  <2> HIDE DEF row
  <2> QED
    BY <2>1, <2>2 DEF AttemptsGoOn, NoneRefunded
<1>6. ASSUME NEW k, payments'[o] = [payments[o] EXCEPT ![k].status = "APPROVED"]
      PROVE  AttemptsGoOn(o) /\ NoneRefunded(o)
  <2> DEFINE s == payments[o]
             row == [s[k] EXCEPT !.status = "APPROVED"]
  <2>1. k \in DOMAIN s => row.status = "APPROVED" /\ row.choice = s[k].choice
    BY DEF TypeOK, Attempt
  <2>2. payments'[o] = [s EXCEPT ![k] = row]
    BY <1>6
  <2> HIDE DEF row
  <2> QED
    BY <2>1, <2>2 DEF AttemptsGoOn, NoneRefunded
<1>7. CASE Rewritten(o)
  BY <1>1, <1>4, <1>5, <1>7 DEF Rewritten
<1>8. CASE Sold(o)
  BY <1>6, <1>8 DEF Sold
<1>9. CASE Closed(o)
  <2>1. payments'[o] = CancelAttempts(o, {"PENDING", "IN_PROCESS"})[o]
    BY <1>9 DEF Closed
  <2> QED
    BY <1>2, <2>1
<1>10. CASE LineExpired(o)
  <2>1. \/ payments'[o] = CancelAttempts(o, {"PENDING", "IN_PROCESS"})[o]
        \/ payments'[o] = payments[o]
    BY <1>10 DEF LineExpired
  <2> QED
    BY <1>1, <1>2, <2>1
<1>11. CASE Untouched(o)
  BY <1>1, <1>11 DEF Untouched
<1> QED
  BY <1>3, <1>7, <1>8, <1>9, <1>10, <1>11 DEF Changed
-----------------------------------------------------------------------------
(* Rows of the gateway.                                                    *)

StripeStatuses == DOMAIN mapStripeStatus
MercadoPagoStatuses == DOMAIN mapMercadoPagoStatus
StatusesOf(provider) ==
    IF provider = "STRIPE" THEN StripeStatuses ELSE MercadoPagoStatuses
ChargeRow == [order : Orders, attempt : Nat, amount : Nat,
              status : StripeStatuses \cup MercadoPagoStatuses,
              refunded : BOOLEAN, provider : {"STRIPE", "MERCADO_PAGO"}]

\* A request is idle, about to store that an attempt was started, about to make
\* a charge, or applying a charge.
ApplyPcs == {"fetch", "apply", "classify", "count", "reread", "transact", "caught",
             "record", "readRefund", "refund", "mark", "processed", "failed"}
CardPcs == {"CARD_STRIPE", "CARD_MERCADO_PAGO"}
SaveRow == [pc : {"save"}, order : Orders, attempt : Nat]
CardRow == [pc : CardPcs \cup {"save"}, order : Orders, attempt : Nat, amount : Nat]
ApplyRow == [pc : ApplyPcs, order : Orders, attempt : Nat, charge : Charges,
             status : PaymentStatuses, notification : Notifications \cup {<<>>},
             preserveOrder : BOOLEAN, caught : BOOLEAN]

\* A charge belongs to an attempt and its provider is the attempt's.
ChargeSays(c) ==
    Made(c) =>
        /\ charge[c] \in ChargeRow
        /\ charge[c].attempt \in DOMAIN payments[charge[c].order]
        /\ charge[c].provider =
              ProviderOf(payments[charge[c].order][charge[c].attempt].choice)
        /\ charge[c].status \in StatusesOf(charge[c].provider)

\* A notification is about a charge, in the form its provider gives it.
NotificationSays(n) ==
    /\ n \in Notifications /\ Made(n[1])
    /\ n[2] = "payment" <=> charge[n[1]].provider # "STRIPE"

\* A request is about its charge's attempt, and one that handles a Stripe event
\* has the status of that event.
RequestSays(w) ==
    LET r == request[w]
    IN  /\ r \in {Idle} \cup SaveRow \cup CardRow \cup ApplyRow
        /\ r.pc \in CardPcs => /\ r.attempt \in DOMAIN payments[r.order]
                               /\ payments[r.order][r.attempt].choice = r.pc
        /\ r.pc \in ApplyPcs =>
              /\ Made(r.charge) /\ r.order = charge[r.charge].order
              /\ r.attempt = charge[r.charge].attempt
              /\ charge[r.charge].provider = "STRIPE" => r.status # "REFUNDED"
              /\ \A c \in Charges : r.notification = <<c, "succeeded">> =>
                    /\ r.charge = c /\ charge[c].provider = "STRIPE"
                    /\ r.status = "APPROVED" /\ r.pc # "fetch"

ChoicesSay(o) == \A i \in DOMAIN payments[o] : payments[o][i].choice \in Choices

GatewayInv ==
    /\ TypeOK
    /\ \A o \in Orders : SaleSays(o) /\ ChoicesSay(o)
    /\ charge \in [Charges -> ChargeRow \cup {NoCharge}]
    /\ \A c \in Charges : ChargeSays(c)
    /\ \A n \in notified : NotificationSays(n)
    /\ webhook \in [Notifications -> {"none", "received", "processed", "error"}]
    /\ DOMAIN request = Workers
    /\ \A w \in Workers : RequestSays(w)

\* What the steps do to charges and to the orders they are about: money that was
\* given back and orders that were sold stay so.
ApprovalsGoOn(o) == approvals[o] = 1 => approvals'[o] = 1
ChargesGoOn ==
    /\ \A c \in Charges : Made(c) =>
          /\ Made(c)' /\ charge'[c].order = charge[c].order
          /\ charge'[c].attempt = charge[c].attempt
          /\ charge'[c].provider = charge[c].provider
          /\ charge[c].refunded => charge'[c].refunded
    /\ \A o \in Orders : AttemptsGoOn(o) /\ ApprovalsGoOn(o)

LEMMA MappedType ==
    ASSUME NEW provider, NEW status \in StatusesOf(provider)
    PROVE  /\ mapped(provider, status) \in PaymentStatuses
           /\ provider = "STRIPE" => mapped(provider, status) # "REFUNDED"
           /\ provider = "STRIPE" /\ mapped(provider, status) = "APPROVED"
                 => status = "succeeded"
           /\ provider = "STRIPE" => mapped(provider, "succeeded") = "APPROVED"
BY DEF mapped, StatusesOf, StripeStatuses, MercadoPagoStatuses, mapStripeStatus,
       mapMercadoPagoStatus, PaymentStatuses

LEMMA NotificationShape ==
    ASSUME NEW n \in Notifications
    PROVE  /\ n = <<n[1], n[2]>> /\ n[1] \in Charges /\ n # <<>>
           /\ n[2] \in {"payment", "requires_payment_method", "processing", "succeeded"}
BY DEF Notifications, StripeMoves

LEMMA NotificationsAre ==
    ASSUME NEW c \in Charges
    PROVE  /\ <<c, "payment">> \in Notifications
           /\ <<c, "succeeded">> \in Notifications
           /\ \A m \in StripeMoves : <<c, m[2]>> \in Notifications /\ m[2] # "payment"
BY DEF Notifications, StripeMoves

\* A request keeps what it says while the rest goes on.
LEMMA RequestStays ==
    ASSUME NEW w \in Workers, RequestSays(w), request'[w] = request[w], ChargesGoOn
    PROVE  RequestSays(w)'
<1>1. request[w].pc \in CardPcs => request[w].order \in Orders
  BY DEF RequestSays, CardPcs, Idle, SaveRow, CardRow, ApplyRow, ApplyPcs
<1>2. request[w].pc \in ApplyPcs => request[w].charge \in Charges
  BY DEF RequestSays, ApplyPcs, Idle, SaveRow, CardRow, ApplyRow, CardPcs
<1> QED
  BY <1>1, <1>2 DEF RequestSays, ChargesGoOn, AttemptsGoOn

\* The next step of a request that applies a charge.
LEMMA GotoRow ==
    ASSUME NEW r \in ApplyRow, NEW pc \in ApplyPcs
    PROVE  /\ [r EXCEPT !.pc = pc] \in ApplyRow
           /\ [r EXCEPT !.pc = pc].pc = pc
           /\ [r EXCEPT !.pc = pc].order = r.order
           /\ [r EXCEPT !.pc = pc].attempt = r.attempt
           /\ [r EXCEPT !.pc = pc].charge = r.charge
           /\ [r EXCEPT !.pc = pc].status = r.status
           /\ [r EXCEPT !.pc = pc].notification = r.notification
BY DEF ApplyRow

LEMMA RequestSayings ==
    ASSUME NEW w \in Workers, RequestSays(w), request'[w] \in ApplyRow,
           request[w].pc \in ApplyPcs, ChargesGoOn,
           request'[w].order = request[w].order, request'[w].attempt = request[w].attempt,
           request'[w].charge = request[w].charge, request'[w].status = request[w].status,
           request'[w].notification = request[w].notification, request'[w].pc # "fetch"
    PROVE  RequestSays(w)'
<1>1. request[w].charge \in Charges
  BY DEF RequestSays, ApplyPcs, Idle, SaveRow, CardRow, ApplyRow, CardPcs
<1>2. request'[w].pc \notin CardPcs
  BY DEF ApplyRow, ApplyPcs, CardPcs
<1> QED
  BY <1>1, <1>2 DEF RequestSays, ChargesGoOn

\* A request that takes up a charge.
LEMMA ApplyingSays ==
    ASSUME NEW w \in Workers, NEW c \in Charges, ChargeSays(c)', Made(c)',
           NEW pc \in {"fetch", "apply"}, NEW status \in StatusesOf(charge'[c].provider),
           NEW n \in Notifications \cup {<<>>},
           \A d \in Charges : n = <<d, "succeeded">> =>
              d = c /\ status = "succeeded" /\ pc # "fetch" /\ charge'[c].provider = "STRIPE",
           DOMAIN request = Workers,
           request' = [request EXCEPT ![w] = applying(pc, c, status, n)]
    PROVE  RequestSays(w)'
<1> DEFINE s == mapped(charge'[c].provider, status)
           row == [pc |-> pc, order |-> charge'[c].order, attempt |-> charge'[c].attempt,
                   charge |-> c, status |-> s, notification |-> n,
                   preserveOrder |-> FALSE, caught |-> FALSE]
<1>1. request'[w] = row
  BY DEF applying
<1>2. /\ s \in PaymentStatuses
      /\ charge'[c].provider = "STRIPE" => s # "REFUNDED"
      /\ charge'[c].provider = "STRIPE" /\ status = "succeeded" => s = "APPROVED"
  BY MappedType
<1>3. charge'[c].order \in Orders /\ charge'[c].attempt \in Nat
  BY DEF ChargeSays, ChargeRow
<1> HIDE DEF s
<1>4. row \in ApplyRow
  BY <1>2, <1>3 DEF ApplyRow, ApplyPcs
<1>5. /\ row.pc = pc /\ row.order = charge'[c].order /\ row.attempt = charge'[c].attempt
      /\ row.charge = c /\ row.status = s /\ row.notification = n
  OBVIOUS
<1> HIDE DEF row
<1> QED
  BY <1>1, <1>2, <1>4, <1>5 DEF RequestSays, CardPcs
-----------------------------------------------------------------------------
(* The attempts as a request writes them.                                  *)

Started(o, i) == [payments EXCEPT ![o][i].started = TRUE]
Written(o, i, s) == [payments EXCEPT ![o][i].status = s, ![o][i].started = TRUE]

RowTo(o, i, row) == [payments EXCEPT ![o] = [payments[o] EXCEPT ![i] = row]]

LEMMA AttemptRow ==
    ASSUME NEW a \in Attempt, NEW s \in PaymentStatuses
    PROVE  /\ [a EXCEPT !.started = TRUE] \in Attempt
           /\ [a EXCEPT !.started = TRUE].status = a.status
           /\ [a EXCEPT !.started = TRUE].choice = a.choice
           /\ [a EXCEPT !.started = TRUE].amount = a.amount
           /\ [a EXCEPT !.status = s] \in Attempt
           /\ [a EXCEPT !.status = s].status = s
           /\ [a EXCEPT !.status = s].choice = a.choice
           /\ [a EXCEPT !.status = s].amount = a.amount
BY DEF Attempt

\* One row of one order's attempts changes.
LEMMA OneAttempt ==
    ASSUME TypeOK, NEW o \in Orders, NEW i, NEW row,
           i \in DOMAIN payments[o] => /\ row \in Attempt
                                       /\ row.choice = payments[o][i].choice
                                       /\ row.amount = payments[o][i].amount
    PROVE  LET t == RowTo(o, i, row)
           IN  /\ t \in [Orders -> Seq(Attempt)]
               /\ \A p \in Orders : /\ DOMAIN t[p] = DOMAIN payments[p]
                                    /\ \A j \in DOMAIN payments[p] :
                                          t[p][j].choice = payments[p][j].choice
               /\ \A p \in Orders \ {o} : t[p] = payments[p]
               /\ \A j \in DOMAIN payments[o] :
                     t[o][j] = IF j = i THEN row ELSE payments[o][j]
<1> DEFINE s == payments[o]
           u == [s EXCEPT ![i] = row]
           t == [payments EXCEPT ![o] = u]
<1>0. RowTo(o, i, row) = t
  BY DEF RowTo
<1>1. s \in Seq(Attempt) /\ payments \in [Orders -> Seq(Attempt)]
  BY DEF TypeOK
<1>2. /\ DOMAIN u = DOMAIN s
      /\ \A j \in DOMAIN s : u[j] = IF j = i THEN row ELSE s[j]
  OBVIOUS
<1>3. \A j \in DOMAIN s : s[j] \in Attempt
  BY <1>1
<1>4. u \in [DOMAIN s -> Attempt]
  BY <1>3
<1>5. u \in Seq(Attempt)
  BY <1>1, <1>4, SameLengthSeq
<1>6. \A j \in DOMAIN s : u[j].choice = s[j].choice
  BY <1>2
<1> HIDE DEF u
<1>7. t[o] = u /\ \A p \in Orders \ {o} : t[p] = payments[p]
  BY <1>1
<1>8. t \in [Orders -> Seq(Attempt)]
  BY <1>1, <1>5
<1> HIDE DEF t
<1>9. \A p \in Orders : /\ DOMAIN t[p] = DOMAIN payments[p]
                        /\ \A j \in DOMAIN payments[p] :
                              t[p][j].choice = payments[p][j].choice
  BY <1>2, <1>6, <1>7
<1> QED
  BY <1>0, <1>2, <1>7, <1>8, <1>9

LEMMA WrittenRows ==
    ASSUME TypeOK, NEW o \in Orders, NEW i, NEW s \in PaymentStatuses
    PROVE  /\ Written(o, i, s) \in [Orders -> Seq(Attempt)]
           /\ \A p \in Orders :
                 /\ DOMAIN Written(o, i, s)[p] = DOMAIN payments[p]
                 /\ \A j \in DOMAIN payments[p] :
                       Written(o, i, s)[p][j].choice = payments[p][j].choice
           /\ \A p \in Orders \ {o} : Written(o, i, s)[p] = payments[p]
           /\ \A j \in DOMAIN payments[o] : Written(o, i, s)[o][j].status =
                 IF j = i THEN s ELSE payments[o][j].status
<1> DEFINE a == payments[o][i]
           b == [a EXCEPT !.status = s]
           row == [b EXCEPT !.started = TRUE]
<1>1. i \in DOMAIN payments[o] => a \in Attempt
  BY DEF TypeOK
<1>2. Written(o, i, s) = RowTo(o, i, row)
  BY DEF Written, RowTo, TypeOK
<1> HIDE DEF a
<1>3. a \in Attempt => b \in Attempt /\ b.status = s /\ b.choice = a.choice
                       /\ b.amount = a.amount
  BY AttemptRow
<1> HIDE DEF b
<1>4. b \in Attempt => /\ row \in Attempt /\ row.status = b.status
                       /\ row.choice = b.choice /\ row.amount = b.amount
  BY AttemptRow DEF PaymentStatuses
<1> HIDE DEF row
<1>5. i \in DOMAIN payments[o] => /\ row \in Attempt /\ row.status = s
                                  /\ row.choice = payments[o][i].choice
                                  /\ row.amount = payments[o][i].amount
  BY <1>1, <1>3, <1>4 DEF a
<1> QED
  BY <1>2, <1>5, OneAttempt

LEMMA StartedRows ==
    ASSUME TypeOK, NEW o \in Orders, NEW i
    PROVE  /\ Started(o, i) \in [Orders -> Seq(Attempt)]
           /\ \A p \in Orders :
                 /\ DOMAIN Started(o, i)[p] = DOMAIN payments[p]
                 /\ \A j \in DOMAIN payments[p] :
                       /\ Started(o, i)[p][j].choice = payments[p][j].choice
                       /\ Started(o, i)[p][j].status = payments[p][j].status
<1> DEFINE a == payments[o][i]
           row == [a EXCEPT !.started = TRUE]
<1>1. i \in DOMAIN payments[o] => a \in Attempt
  BY DEF TypeOK
<1>2. Started(o, i) = RowTo(o, i, row)
  BY DEF Started, RowTo, TypeOK
<1> HIDE DEF a
<1>3. a \in Attempt => /\ row \in Attempt /\ row.status = a.status
                       /\ row.choice = a.choice /\ row.amount = a.amount
  BY AttemptRow DEF PaymentStatuses
<1> HIDE DEF row
<1>4. i \in DOMAIN payments[o] => /\ row \in Attempt
                                  /\ row.status = payments[o][i].status
                                  /\ row.choice = payments[o][i].choice
                                  /\ row.amount = payments[o][i].amount
  BY <1>1, <1>3 DEF a
<1> QED
  BY <1>2, <1>4, OneAttempt
-----------------------------------------------------------------------------
(* Steps of requests.                                                      *)

\* One request moves, the others wait.
RequestMoves(w) ==
    /\ DOMAIN request' = Workers
    /\ \A x \in Workers \ {w} : request'[x] = request[x]
    /\ RequestSays(w)'
\* A request that goes on applying the same charge.
Proceeds(w) ==
    /\ request'[w].pc \in ApplyPcs \ {"fetch"}
    /\ request'[w].order = request[w].order
    /\ request'[w].attempt = request[w].attempt
    /\ request'[w].charge = request[w].charge
    /\ request'[w].status = request[w].status
    /\ request'[w].notification = request[w].notification

LEMMA ApplyRows ==
    ASSUME NEW w \in Workers, RequestSays(w), request[w].pc \in ApplyPcs
    PROVE  request[w] \in ApplyRow
BY DEF RequestSays, Idle, SaveRow, CardRow, ApplyRow, ApplyPcs, CardPcs

LEMMA GotoMoves ==
    ASSUME GatewayInv, ChargesGoOn, NEW w \in Workers, request[w].pc \in ApplyPcs,
           NEW pc \in ApplyPcs \ {"fetch"}, Goto(w, pc)
    PROVE  RequestMoves(w) /\ Proceeds(w) /\ request'[w].pc = pc
<1> DEFINE r == request[w]
           row == [r EXCEPT !.pc = pc]
<1>1. r \in ApplyRow /\ RequestSays(w)
  BY ApplyRows DEF GatewayInv
<1>2. request' = [request EXCEPT ![w] = row] /\ DOMAIN request = Workers
  BY DEF Goto, GatewayInv
<1>3. /\ row \in ApplyRow /\ row.pc = pc /\ row.order = r.order /\ row.attempt = r.attempt
      /\ row.charge = r.charge /\ row.status = r.status
      /\ row.notification = r.notification
  BY <1>1, GotoRow
<1> HIDE DEF row
<1>4. request'[w] = row /\ DOMAIN request' = Workers
      /\ \A x \in Workers \ {w} : request'[x] = request[x]
  BY <1>2
<1>5. Proceeds(w)
  BY <1>3, <1>4 DEF Proceeds
<1>6. RequestSays(w)'
  BY <1>1, <1>3, <1>4, RequestSayings
<1> QED
  BY <1>3, <1>4, <1>5, <1>6 DEF RequestMoves

\* A request that turns to the refund, or to recording what the provider says.
LEMMA TurnRow ==
    ASSUME NEW r \in ApplyRow, NEW b \in BOOLEAN
    PROVE  /\ [r EXCEPT !.preserveOrder = b] \in ApplyRow
           /\ [r EXCEPT !.preserveOrder = b].order = r.order
           /\ [r EXCEPT !.preserveOrder = b].attempt = r.attempt
           /\ [r EXCEPT !.preserveOrder = b].charge = r.charge
           /\ [r EXCEPT !.preserveOrder = b].status = r.status
           /\ [r EXCEPT !.preserveOrder = b].notification = r.notification
           /\ [r EXCEPT !.caught = b] \in ApplyRow
           /\ [r EXCEPT !.caught = b].pc = r.pc
           /\ [r EXCEPT !.caught = b].order = r.order
           /\ [r EXCEPT !.caught = b].attempt = r.attempt
           /\ [r EXCEPT !.caught = b].charge = r.charge
           /\ [r EXCEPT !.caught = b].status = r.status
           /\ [r EXCEPT !.caught = b].notification = r.notification
           /\ [r EXCEPT !.preserveOrder = b].pc = r.pc
BY DEF ApplyRow

LEMMA TurnMoves ==
    ASSUME GatewayInv, ChargesGoOn, NEW w \in Workers, request[w].pc \in ApplyPcs,
           NEW pc \in ApplyPcs \ {"fetch"}, NEW b \in BOOLEAN,
           \/ request' = [request EXCEPT ![w] = [@ EXCEPT !.pc = pc, !.preserveOrder = b]]
           \/ request' = [request EXCEPT ![w] = [@ EXCEPT !.pc = pc, !.caught = b]]
    PROVE  RequestMoves(w) /\ Proceeds(w) /\ request'[w].pc = pc
<1> DEFINE r == request[w]
           s == [r EXCEPT !.pc = pc]
           t == [s EXCEPT !.preserveOrder = b]
           u == [s EXCEPT !.caught = b]
<1>1. r \in ApplyRow /\ RequestSays(w)
  BY ApplyRows DEF GatewayInv
<1>2. DOMAIN request = Workers
  BY DEF GatewayInv
<1>3. request' = [request EXCEPT ![w] = t] \/ request' = [request EXCEPT ![w] = u]
  BY <1>2
<1>4. /\ s \in ApplyRow /\ s.pc = pc /\ s.order = r.order /\ s.attempt = r.attempt
      /\ s.charge = r.charge /\ s.status = r.status
      /\ s.notification = r.notification
  BY <1>1, GotoRow
<1> HIDE DEF s, r
<1>5. /\ t \in ApplyRow /\ t.pc = pc /\ t.order = r.order /\ t.attempt = r.attempt
      /\ t.charge = r.charge /\ t.status = r.status
      /\ t.notification = r.notification
  BY <1>4, TurnRow
<1>6. /\ u \in ApplyRow /\ u.pc = pc /\ u.order = r.order /\ u.attempt = r.attempt
      /\ u.charge = r.charge /\ u.status = r.status
      /\ u.notification = r.notification
  BY <1>4, TurnRow
<1> HIDE DEF t, u
<1>7. PICK row \in {t, u} : request' = [request EXCEPT ![w] = row]
  BY <1>3
<1>8. request'[w] = row /\ DOMAIN request' = Workers
      /\ \A x \in Workers \ {w} : request'[x] = request[x]
  BY <1>2, <1>7
<1>9. Proceeds(w) /\ request'[w] \in ApplyRow /\ request'[w].pc = pc
  BY <1>5, <1>6, <1>8 DEF Proceeds, r
<1>10. RequestSays(w)'
  BY <1>1, <1>9, RequestSayings DEF Proceeds, r
<1> QED
  BY <1>8, <1>9, <1>10 DEF RequestMoves

LEMMA SupersededMoves ==
    ASSUME GatewayInv, ChargesGoOn, NEW w \in Workers, request[w].pc \in ApplyPcs,
           HandleSuperseded(w)
    PROVE  /\ RequestMoves(w) /\ Proceeds(w)
           /\ request'[w].pc = IF request[w].status = "APPROVED" THEN "readRefund"
                                                                 ELSE "record"
<1>1. CASE request[w].status = "APPROVED"
  <2>1. request' = [request EXCEPT ![w] =
                       [@ EXCEPT !.pc = "readRefund", !.preserveOrder = TRUE]]
    BY <1>1 DEF HandleSuperseded, GatewayInv
  <2> QED
    BY <1>1, <2>1, TurnMoves DEF ApplyPcs
<1>2. CASE request[w].status # "APPROVED"
  <2>1. Goto(w, "record")
    BY <1>2 DEF HandleSuperseded, Goto, GatewayInv
  <2> QED
    BY <1>2, <2>1, GotoMoves DEF ApplyPcs
<1> QED
  BY <1>1, <1>2

LEMMA RefundMoves ==
    ASSUME GatewayInv, ChargesGoOn, NEW w \in Workers, request[w].pc \in ApplyPcs, Refund(w)
    PROVE  RequestMoves(w) /\ Proceeds(w) /\ request'[w].pc = "readRefund"
<1>1. request' = [request EXCEPT ![w] =
                     [@ EXCEPT !.pc = "readRefund", !.preserveOrder = FALSE]]
  BY DEF Refund
<1> QED
  BY <1>1, TurnMoves DEF ApplyPcs

LEMMA RespondMoves ==
    ASSUME GatewayInv, NEW w \in Workers, Respond(w)
    PROVE  RequestMoves(w) /\ request'[w] = Idle
<1>1. request'[w] = Idle /\ DOMAIN request' = Workers
      /\ \A x \in Workers \ {w} : request'[x] = request[x]
  BY DEF Respond, GatewayInv
<1> QED
  BY <1>1 DEF RequestMoves, RequestSays, Idle, CardPcs, ApplyPcs
-----------------------------------------------------------------------------
(* Where the money of Stripe's charges goes.                               *)

\* The charge was given back or its order was sold.
Accounted(c) == charge[c].refunded \/ approvals[charge[c].order] = 1

\* A request records a replaced attempt only for a charge that was not taken,
\* marks it as refunded only after the refund, and ends well for money that
\* Stripe took only when that money is accounted for.
RequestAccounts(w) ==
    LET r == request[w]
    IN  /\ r.pc = "record" => r.status # "APPROVED"
        /\ r.pc = "mark" => charge[r.charge].refunded
        /\ r.pc = "processed" /\ r.status = "APPROVED"
           /\ charge[r.charge].provider = "STRIPE" => Accounted(r.charge)

\* An attempt that is marked as refunded has a charge that was.
RefundSays(o) ==
    \A i \in DOMAIN payments[o] :
        payments[o][i].status = "REFUNDED" /\ payments[o][i].choice = "CARD_STRIPE"
            => \E c \in ChargesOf(o, i) : charge[c].refunded

EventsSent ==
    \A c \in Charges : Made(c) /\ charge[c].provider = "STRIPE"
                       /\ charge[c].status = "succeeded" => <<c, "succeeded">> \in notified
EventsAccounted ==
    \A c \in Charges : webhook[<<c, "succeeded">>] = "processed" => Made(c) /\ Accounted(c)
OneIntentEach ==
    \A c, d \in Charges :
        /\ Made(c) /\ Made(d) /\ charge[c].provider = "STRIPE"
        /\ charge[c].order = charge[d].order /\ charge[c].attempt = charge[d].attempt
        => c = d

AccountInv ==
    /\ EventsSent /\ EventsAccounted /\ OneIntentEach
    /\ \A o \in Orders : RefundSays(o)
    /\ \A w \in Workers : RequestAccounts(w)

LEMMA AccountedStays ==
    ASSUME GatewayInv, ChargesGoOn, NEW c \in Charges, Made(c), Accounted(c)
    PROVE  Accounted(c)'
<1>1. charge[c].order \in Orders
  BY DEF GatewayInv, ChargeSays, ChargeRow
<1> QED
  BY <1>1 DEF Accounted, ChargesGoOn, ApprovalsGoOn

LEMMA RequestAccountsStay ==
    ASSUME GatewayInv, ChargesGoOn, NEW w \in Workers, RequestAccounts(w),
           request'[w] = request[w]
    PROVE  RequestAccounts(w)'
<1> DEFINE r == request[w]
<1>1. CASE r.pc \in ApplyPcs
  <2>1. r.charge \in Charges /\ Made(r.charge)
    BY <1>1, ApplyRows DEF GatewayInv, RequestSays, ApplyRow
  <2> QED
    BY <2>1, AccountedStays DEF RequestAccounts, ChargesGoOn
<1>2. CASE r.pc \notin ApplyPcs
  BY <1>2 DEF RequestAccounts, ApplyPcs
<1> QED
  BY <1>1, <1>2

\* After a step every request says what it said, or what its own step made it say.
RequestsSay ==
    DOMAIN request = Workers /\ \A w \in Workers : RequestSays(w) /\ RequestAccounts(w)

LEMMA RequestsStay ==
    ASSUME GatewayInv, AccountInv, ChargesGoOn, request' = request
    PROVE  RequestsSay'
BY RequestStays, RequestAccountsStay DEF GatewayInv, AccountInv, RequestsSay

LEMMA RequestsGoOn ==
    ASSUME GatewayInv, AccountInv, ChargesGoOn, NEW w \in Workers, RequestMoves(w),
           RequestAccounts(w)'
    PROVE  RequestsSay'
BY RequestStays, RequestAccountsStay DEF GatewayInv, AccountInv, RequestsSay, RequestMoves

LEMMA ChargesStay ==
    ASSUME GatewayInv, AccountInv, ChargesGoOn, charge' = charge
    PROVE  /\ charge' \in [Charges -> ChargeRow \cup {NoCharge}]
           /\ \A c \in Charges : ChargeSays(c)'
           /\ OneIntentEach'
<1>1. ASSUME NEW c \in Charges PROVE ChargeSays(c)'
  <2>1. ChargeSays(c) /\ (Made(c) => charge[c].order \in Orders)
    BY DEF GatewayInv, ChargeSays, ChargeRow
  <2> QED
    BY <2>1 DEF ChargeSays, ChargesGoOn, AttemptsGoOn, Made
<1>2. OneIntentEach'
  BY DEF AccountInv, OneIntentEach, Made
<1> QED
  BY <1>1, <1>2 DEF GatewayInv

LEMMA NotificationsStay ==
    ASSUME GatewayInv, ChargesGoOn, NEW n \in notified
    PROVE  NotificationSays(n)'
<1>1. NotificationSays(n) /\ n[1] \in Charges
  BY NotificationShape DEF GatewayInv, NotificationSays
<1> QED
  BY <1>1 DEF NotificationSays, ChargesGoOn

LEMMA ChoicesStay ==
    ASSUME GatewayInv, ChargesGoOn, NEW o \in Orders
    PROVE  ChoicesSay(o)'
BY DEF GatewayInv, ChoicesSay, ChargesGoOn, AttemptsGoOn

\* Attempts that are marked as refunded: those that were, and the charge's own.
LEMMA RefundsStay ==
    ASSUME GatewayInv, AccountInv, ChargesGoOn, NEW o \in Orders,
           \A i \in DOMAIN payments'[o] : payments'[o][i].status = "REFUNDED" =>
              \/ i \in DOMAIN payments[o] /\ payments[o][i].status = "REFUNDED"
              \/ payments'[o][i].choice # "CARD_STRIPE"
              \/ \E c \in Charges : /\ Made(c)' /\ charge'[c].order = o
                                    /\ charge'[c].attempt = i /\ charge'[c].refunded
    PROVE  RefundSays(o)'
<1> SUFFICES ASSUME NEW i \in DOMAIN payments'[o], payments'[o][i].status = "REFUNDED",
                    payments'[o][i].choice = "CARD_STRIPE"
             PROVE  \E c \in ChargesOf(o, i)' : charge'[c].refunded
  BY DEF RefundSays
<1>1. CASE i \in DOMAIN payments[o] /\ payments[o][i].status = "REFUNDED"
  <2>1. payments[o][i].choice = "CARD_STRIPE"
    BY <1>1 DEF ChargesGoOn, AttemptsGoOn
  <2>2. PICK c \in ChargesOf(o, i) : charge[c].refunded
    BY <1>1, <2>1 DEF AccountInv, RefundSays
  <2> QED
    BY <2>2 DEF ChargesOf, ChargesGoOn
<1>2. ASSUME NEW c \in Charges, Made(c)', charge'[c].order = o, charge'[c].attempt = i,
             charge'[c].refunded
      PROVE  \E d \in ChargesOf(o, i)' : charge'[d].refunded
  BY <1>2 DEF ChargesOf
<1> QED
  BY <1>1, <1>2
-----------------------------------------------------------------------------
(* Steps that leave the shop, or the charges, alone.                       *)

LEMMA ShopRests ==
    ASSUME GatewayInv, UNCHANGED vars
    PROVE  /\ TypeOK' /\ \A o \in Orders : SaleSays(o)'
           /\ \A o \in Orders : AttemptsGoOn(o) /\ ApprovalsGoOn(o)
           /\ payments' = payments /\ order' = order /\ approvals' = approvals
<1>1. /\ now' = now /\ onHand' = onHand /\ available' = available
      /\ reserved' = reserved /\ movement' = movement /\ cart' = cart
      /\ order' = order /\ reservation' = reservation /\ payments' = payments
      /\ proof' = proof /\ uploads' = uploads /\ uses' = uses /\ applied' = applied
      /\ approvals' = approvals
  BY DEF vars, stock, promotion
<1>2. TypeOK'
  BY <1>1 DEF GatewayInv, TypeOK
<1>3. \A o \in Orders : SaleSays(o)'
  BY <1>1 DEF GatewayInv, SaleSays, IsSold, ActiveItems
<1> QED
  BY <1>1, <1>2, <1>3 DEF AttemptsGoOn, ApprovalsGoOn

LEMMA NothingCharged ==
    ASSUME GatewayInv, UNCHANGED vars, charge' = charge
    PROVE  ChargesGoOn
BY ShopRests DEF ChargesGoOn, Made

\* The invariant after a step, from its parts.
LEMMA Assembled ==
    ASSUME GatewayInv, AccountInv, ChargesGoOn, TypeOK',
           \A o \in Orders : SaleSays(o)' /\ RefundSays(o)',
           charge' \in [Charges -> ChargeRow \cup {NoCharge}],
           \A c \in Charges : ChargeSays(c)',
           OneIntentEach', EventsSent', EventsAccounted',
           \A n \in notified' \ notified : NotificationSays(n)',
           webhook' \in [Notifications -> {"none", "received", "processed", "error"}],
           RequestsSay'
    PROVE  GatewayInv' /\ AccountInv'
<1>1. \A n \in notified' : NotificationSays(n)'
  BY NotificationsStay
<1>2. GatewayInv'
  BY <1>1, ChoicesStay DEF GatewayInv, RequestsSay
<1>3. AccountInv'
  BY DEF AccountInv, RequestsSay
<1> QED
  BY <1>2, <1>3

\* A step of the shop, or of a request that writes to it.
LEMMA ShopMoves ==
    ASSUME GatewayInv, AccountInv, ChargesGoOn, TypeOK',
           \A o \in Orders : SaleSays(o)' /\ RefundSays(o)',
           charge' = charge, notified' = notified, webhook' = webhook, RequestsSay'
    PROVE  GatewayInv' /\ AccountInv'
<1>1. EventsSent'
  BY DEF AccountInv, EventsSent, Made
<1>2. EventsAccounted'
  BY AccountedStays DEF AccountInv, EventsAccounted, ChargesGoOn
<1>3. webhook' \in [Notifications -> {"none", "received", "processed", "error"}]
  BY DEF GatewayInv
<1> QED
  BY <1>1, <1>2, <1>3, ChargesStay, Assembled

\* A step of a request that writes nothing.
LEMMA RefundsRest ==
    ASSUME GatewayInv, AccountInv, ChargesGoOn, UNCHANGED vars
    PROVE  \A o \in Orders : RefundSays(o)'
BY ShopRests, RefundsStay

LEMMA RequestOnly ==
    ASSUME GatewayInv, AccountInv, UNCHANGED <<vars, charge, notified, webhook>>,
           NEW w \in Workers, RequestMoves(w), RequestAccounts(w)'
    PROVE  GatewayInv' /\ AccountInv' /\ ChargesGoOn
<1>1. ChargesGoOn
  BY NothingCharged
<1> QED
  BY <1>1, RequestsGoOn, ShopRests, RefundsRest, ShopMoves

\* A request that ends, or starts without a charge, accounts for nothing.
LEMMA AccountsForNothing ==
    ASSUME NEW w \in Workers, request'[w].pc \notin {"record", "mark", "processed"}
    PROVE  RequestAccounts(w)'
BY DEF RequestAccounts
-----------------------------------------------------------------------------
(* The steps of a request that only read.                                  *)

GatewayGoesOn == GatewayInv' /\ AccountInv' /\ ChargesGoOn

LEMMA ReadOrderStep ==
    ASSUME GatewayInv, AccountInv, NEW w \in Workers, ReadOrder(w)
    PROVE  GatewayGoesOn
<1>1. UNCHANGED <<vars, charge, notified, webhook>> /\ request[w].pc \in ApplyPcs
  BY DEF ReadOrder, At, ApplyPcs
<1>2. ChargesGoOn
  BY <1>1, NothingCharged
<1>3. CASE Goto(w, "failed") \/ Goto(w, "classify") \/ Goto(w, "transact")
  <2>1. RequestMoves(w) /\ request'[w].pc \in {"failed", "classify", "transact"}
    BY <1>1, <1>2, <1>3, GotoMoves DEF ApplyPcs
  <2> QED
    BY <1>1, <2>1, AccountsForNothing, RequestOnly DEF GatewayGoesOn
<1>4. CASE HandleSuperseded(w)
  <2>1. RequestMoves(w) /\ RequestAccounts(w)'
    BY <1>1, <1>2, <1>4, SupersededMoves DEF RequestAccounts, Proceeds
  <2> QED
    BY <1>1, <2>1, RequestOnly DEF GatewayGoesOn
<1> QED
  BY <1>3, <1>4 DEF ReadOrder

\* A request that finds the order paid ends well: the order was sold.
LEMMA FinalizedAccounts ==
    ASSUME GatewayInv, AccountInv, NEW w \in Workers, request[w].pc \in ApplyPcs,
           UNCHANGED <<vars, charge, notified, webhook>>,
           order[request[w].order].paymentStatus = "APPROVED", Goto(w, "processed")
    PROVE  GatewayGoesOn
<1> DEFINE r == request[w]
<1>1. ChargesGoOn
  BY NothingCharged
<1>2. RequestMoves(w) /\ Proceeds(w) /\ request'[w].pc = "processed"
  BY <1>1, GotoMoves DEF ApplyPcs
<1>3. r.charge \in Charges /\ r.order = charge[r.charge].order /\ r.order \in Orders
  BY ApplyRows DEF GatewayInv, RequestSays, ApplyRow
<1>4. approvals[r.order] = 1
  BY <1>3 DEF GatewayInv, SaleSays
<1>5. Accounted(r.charge)'
  BY <1>2, <1>3, <1>4, ShopRests DEF Accounted, Proceeds
<1>6. RequestAccounts(w)'
  BY <1>2, <1>5 DEF RequestAccounts, Proceeds
<1> QED
  BY <1>2, <1>6, RequestOnly DEF GatewayGoesOn

LEMMA RefundTurn ==
    ASSUME GatewayInv, AccountInv, NEW w \in Workers, request[w].pc \in ApplyPcs,
           UNCHANGED <<vars, charge, notified, webhook>>, Refund(w)
    PROVE  GatewayGoesOn
<1>1. RequestMoves(w) /\ request'[w].pc = "readRefund"
  BY NothingCharged, RefundMoves
<1> QED
  BY <1>1, AccountsForNothing, RequestOnly DEF GatewayGoesOn

\* A request that goes on to a step with nothing to account for.
LEMMA GotoTurn ==
    ASSUME GatewayInv, AccountInv, NEW w \in Workers, request[w].pc \in ApplyPcs,
           UNCHANGED <<vars, charge, notified, webhook>>,
           NEW pc \in ApplyPcs \ {"fetch", "record", "mark", "processed"}, Goto(w, pc)
    PROVE  GatewayGoesOn
<1>1. RequestMoves(w) /\ request'[w].pc = pc
  BY NothingCharged, GotoMoves
<1> QED
  BY <1>1, AccountsForNothing, RequestOnly DEF GatewayGoesOn

LEMMA FinalizedIsPaid ==
    ASSUME NEW o, classify(o) = "FINALIZED"
    PROVE  order[o].paymentStatus = "APPROVED"
BY DEF classify

LEMMA ReadStateStep ==
    ASSUME GatewayInv, AccountInv, NEW w \in Workers, ReadState(w)
    PROVE  GatewayGoesOn
<1>1. UNCHANGED <<vars, charge, notified, webhook>> /\ request[w].pc \in ApplyPcs
  BY DEF ReadState, At, ApplyPcs
<1>2. \/ classify(request[w].order) = "FINALIZED" /\ Goto(w, "processed")
      \/ Goto(w, "count") \/ Refund(w)
  BY DEF ReadState
<1> QED
  BY <1>1, <1>2, FinalizedIsPaid, FinalizedAccounts, GotoTurn, RefundTurn DEF ApplyPcs

LEMMA RereadStateStep ==
    ASSUME GatewayInv, AccountInv, NEW w \in Workers, RereadState(w)
    PROVE  GatewayGoesOn
<1>1. UNCHANGED <<vars, charge, notified, webhook>> /\ request[w].pc \in ApplyPcs
  BY DEF RereadState, At, ApplyPcs
<1>2. \/ classify(request[w].order) = "FINALIZED" /\ Goto(w, "processed")
      \/ Refund(w)
  BY DEF RereadState
<1> QED
  BY <1>1, <1>2, FinalizedIsPaid, FinalizedAccounts, RefundTurn

LEMMA CountStep ==
    ASSUME GatewayInv, AccountInv, NEW w \in Workers, CountReservations(w)
    PROVE  GatewayGoesOn
<1>1. UNCHANGED <<vars, charge, notified, webhook>> /\ request[w].pc \in ApplyPcs
  BY DEF CountReservations, At, ApplyPcs
<1>2. Goto(w, "reread") \/ Goto(w, "failed") \/ Goto(w, "transact")
  BY DEF CountReservations
<1> QED
  BY <1>1, <1>2, GotoTurn DEF ApplyPcs

LEMMA ThrowStep ==
    ASSUME GatewayInv, AccountInv, NEW w \in Workers, Throw(w)
    PROVE  GatewayGoesOn
<1>1. UNCHANGED <<vars, charge, notified, webhook>> /\ request[w].pc \in ApplyPcs
  BY DEF Throw, At, ApplyPcs
<1>2. Goto(w, "caught") \/ Goto(w, "failed")
  BY DEF Throw
<1> QED
  BY <1>1, <1>2, GotoTurn DEF ApplyPcs

LEMMA ReadLatestStep ==
    ASSUME GatewayInv, AccountInv, NEW w \in Workers, ReadLatest(w)
    PROVE  GatewayGoesOn
<1>1. UNCHANGED <<vars, charge, notified, webhook>> /\ request[w].pc \in ApplyPcs
  BY DEF ReadLatest, At, ApplyPcs
<1>2. ChargesGoOn
  BY <1>1, NothingCharged
<1>3. CASE HandleSuperseded(w)
  <2>1. RequestMoves(w) /\ RequestAccounts(w)'
    BY <1>1, <1>2, <1>3, SupersededMoves DEF RequestAccounts, Proceeds
  <2> QED
    BY <1>1, <2>1, RequestOnly DEF GatewayGoesOn
<1>4. CASE request' = [request EXCEPT ![w] = [@ EXCEPT !.pc = "classify", !.caught = TRUE]]
  <2>1. RequestMoves(w) /\ request'[w].pc = "classify"
    BY <1>1, <1>2, <1>4, TurnMoves DEF ApplyPcs
  <2> QED
    BY <1>1, <2>1, AccountsForNothing, RequestOnly DEF GatewayGoesOn
<1> QED
  BY <1>3, <1>4 DEF ReadLatest

\* An attempt that is marked as refunded has one charge, which was refunded.
LEMMA ReadRefundStep ==
    ASSUME GatewayInv, AccountInv, NEW w \in Workers, ReadRefund(w)
    PROVE  GatewayGoesOn
<1> DEFINE r == request[w]
<1>1. UNCHANGED <<vars, charge, notified, webhook>> /\ r.pc \in ApplyPcs
  BY DEF ReadRefund, At, ApplyPcs
<1>2. ChargesGoOn
  BY <1>1, NothingCharged
<1>3. CASE payments[r.order][r.attempt].status # "REFUNDED"
  <2>1. Goto(w, "refund")
    BY <1>3 DEF ReadRefund
  <2> QED
    BY <1>1, <2>1, GotoTurn DEF ApplyPcs
<1>4. CASE payments[r.order][r.attempt].status = "REFUNDED"
  <2>1. Goto(w, "processed")
    BY <1>4 DEF ReadRefund
  <2>2. RequestMoves(w) /\ Proceeds(w) /\ request'[w].pc = "processed"
    BY <1>1, <1>2, <2>1, GotoMoves DEF ApplyPcs
  <2>3. /\ r.charge \in Charges /\ Made(r.charge) /\ r.order \in Orders
        /\ r.order = charge[r.charge].order /\ r.attempt = charge[r.charge].attempt
    BY <1>1, ApplyRows DEF GatewayInv, RequestSays, ApplyRow
  <2>4. ASSUME charge[r.charge].provider = "STRIPE" PROVE Accounted(r.charge)'
    <3>1. /\ r.attempt \in DOMAIN payments[r.order]
          /\ ProviderOf(payments[r.order][r.attempt].choice) = "STRIPE"
      BY <2>3, <2>4 DEF GatewayInv, ChargeSays
    <3>2. payments[r.order][r.attempt].choice = "CARD_STRIPE"
      BY <3>1 DEF ProviderOf
    <3>3. PICK d \in ChargesOf(r.order, r.attempt) : charge[d].refunded
      BY <1>4, <2>3, <3>1, <3>2 DEF AccountInv, RefundSays
    <3>4. d = r.charge
      BY <2>3, <2>4, <3>3 DEF AccountInv, OneIntentEach, ChargesOf
    <3> QED
      BY <1>1, <2>2, <3>3, <3>4 DEF Accounted, Proceeds
  <2>5. RequestAccounts(w)'
    BY <1>1, <2>2, <2>4 DEF RequestAccounts, Proceeds
  <2> QED
    BY <1>1, <2>2, <2>5, RequestOnly DEF GatewayGoesOn
<1> QED
  BY <1>3, <1>4

LEMMA RespondTurn ==
    ASSUME GatewayInv, AccountInv, NEW w \in Workers, Respond(w),
           UNCHANGED <<vars, charge, notified, webhook>>
    PROVE  GatewayGoesOn
<1>1. RequestMoves(w) /\ request'[w].pc = "idle"
  BY RespondMoves DEF Idle
<1> QED
  BY <1>1, AccountsForNothing, RequestOnly DEF GatewayGoesOn

LEMMA RefusedStep ==
    ASSUME GatewayInv, AccountInv, NEW w \in Workers, Refused(w)
    PROVE  GatewayGoesOn
<1>1. UNCHANGED <<vars, charge, notified, webhook>>
  BY DEF Refused
<1>2. \/ request[w].pc \in ApplyPcs /\ Goto(w, "failed")
      \/ Respond(w)
  BY DEF Refused, ApplyPcs
<1> QED
  BY <1>1, <1>2, GotoTurn, RespondTurn DEF ApplyPcs

LEMMA CrashStep ==
    ASSUME GatewayInv, AccountInv, NEW w \in Workers, Crash(w)
    PROVE  GatewayGoesOn
BY RespondTurn DEF Crash

\* The attempts a request may start or charge.
LEMMA PayableNewest ==
    ASSUME TypeOK, NEW o \in Orders, NEW choice, Payable(o, choice) # {}
    PROVE  /\ Newest(Payable(o, choice)) \in DOMAIN payments[o]
           /\ Newest(Payable(o, choice)) \in Nat
           /\ payments[o][Newest(Payable(o, choice))].choice = choice
<1>1. payments[o] \in Seq(Attempt)
  BY DEF TypeOK
<1>2. Payable(o, choice) \subseteq DOMAIN payments[o] /\ DOMAIN payments[o] = 1..Len(payments[o])
      /\ Len(payments[o]) \in Nat
  BY <1>1 DEF Payable, Live
<1>3. Newest(Payable(o, choice)) \in Payable(o, choice)
  BY <1>2, NewestIsGreatest
<1> QED
  BY <1>2, <1>3 DEF Payable, Live

LEMMA BeginPreferenceStep ==
    ASSUME GatewayInv, AccountInv, NEW w \in Workers, NEW o \in Orders, BeginPreference(w, o)
    PROVE  GatewayGoesOn
<1> DEFINE row == [pc |-> "save", order |-> o, attempt |-> Newest(Payable(o, "PAYMENT_LINK"))]
<1>1. /\ request' = [request EXCEPT ![w] = row] /\ DOMAIN request = Workers
      /\ UNCHANGED <<vars, charge, notified, webhook>>
      /\ Payable(o, "PAYMENT_LINK") # {}
  BY DEF BeginPreference, GatewayInv
<1>2. row \in SaveRow /\ row.pc = "save"
  BY <1>1, PayableNewest DEF SaveRow, GatewayInv
<1> HIDE DEF row
<1>3. request'[w] = row /\ DOMAIN request' = Workers
      /\ \A x \in Workers \ {w} : request'[x] = request[x]
  BY <1>1
<1>4. RequestMoves(w)
  BY <1>2, <1>3 DEF RequestMoves, RequestSays, CardPcs, ApplyPcs
<1> QED
  BY <1>1, <1>2, <1>3, <1>4, AccountsForNothing, RequestOnly DEF GatewayGoesOn

LEMMA BeginCardStep ==
    ASSUME GatewayInv, AccountInv, NEW w \in Workers, NEW o \in Orders, NEW choice \in CardPcs,
           BeginCard(w, o, choice)
    PROVE  GatewayGoesOn
<1> DEFINE row == [pc |-> choice, order |-> o, attempt |-> Newest(Payable(o, choice)),
                   amount |-> order[o].shipping]
<1>1. /\ request' = [request EXCEPT ![w] = row] /\ DOMAIN request = Workers
      /\ UNCHANGED <<vars, charge, notified, webhook>>
      /\ Payable(o, choice) # {} /\ payments' = payments
  BY ShopRests DEF BeginCard, GatewayInv
<1>2. order[o].shipping \in Nat
  BY DEF GatewayInv, TypeOK, OrderRow
<1>3. /\ row \in CardRow /\ row.pc = choice /\ row.order = o
      /\ row.attempt \in DOMAIN payments[o] /\ payments[o][row.attempt].choice = choice
  BY <1>1, <1>2, PayableNewest DEF CardRow, GatewayInv
<1> HIDE DEF row
<1>4. request'[w] = row /\ DOMAIN request' = Workers
      /\ \A x \in Workers \ {w} : request'[x] = request[x]
  BY <1>1
<1>5. RequestMoves(w)
  BY <1>1, <1>3, <1>4 DEF RequestMoves, RequestSays, CardPcs, ApplyPcs
<1> QED
  BY <1>1, <1>3, <1>4, <1>5, AccountsForNothing, RequestOnly DEF GatewayGoesOn, CardPcs

LEMMA ApplyingRow ==
    ASSUME NEW w \in Workers, NEW pc \in {"fetch", "apply"}, NEW c, NEW status, NEW n,
           DOMAIN request = Workers,
           request' = [request EXCEPT ![w] = applying(pc, c, status, n)]
    PROVE  /\ request'[w].pc = pc /\ DOMAIN request' = Workers
           /\ \A x \in Workers \ {w} : request'[x] = request[x]
BY DEF applying

\* A request that takes up a charge in a step that writes nothing else.
LEMMA ApplyingTurn ==
    ASSUME GatewayInv, AccountInv, NEW w \in Workers, NEW c \in Charges, Made(c),
           NEW n \in Notifications \cup {<<>>}, NEW status \in StatusesOf(charge[c].provider),
           \A d \in Charges : n = <<d, "succeeded">> =>
              d = c /\ status = "succeeded" /\ charge[c].provider = "STRIPE",
           UNCHANGED <<vars, charge, notified, webhook>>,
           request' = [request EXCEPT ![w] = applying("apply", c, status, n)]
    PROVE  GatewayGoesOn
<1>1. ChargesGoOn /\ DOMAIN request = Workers /\ charge' = charge
  BY NothingCharged DEF GatewayInv
<1>2. ChargeSays(c)' /\ Made(c)' /\ status \in StatusesOf(charge'[c].provider)
  BY <1>1, ChargesStay DEF Made
<1>3. \A d \in Charges : n = <<d, "succeeded">> =>
         d = c /\ status = "succeeded" /\ "apply" # "fetch" /\ charge'[c].provider = "STRIPE"
  BY <1>1
<1>4. RequestSays(w)'
  BY <1>1, <1>2, <1>3, ApplyingSays
<1>5. /\ request'[w].pc = "apply" /\ RequestMoves(w)
  BY <1>1, <1>4, ApplyingRow DEF RequestMoves
<1> QED
  BY <1>5, AccountsForNothing, RequestOnly DEF GatewayGoesOn

LEMMA SyncStripeStep ==
    ASSUME GatewayInv, AccountInv, NEW w \in Workers, NEW c \in Charges, SyncStripe(w, c)
    PROVE  GatewayGoesOn
<1>1. /\ UNCHANGED <<vars, charge, notified, webhook>> /\ Made(c)
      /\ request' = [request EXCEPT ![w] = applying("apply", c, charge[c].status, <<>>)]
  BY DEF SyncStripe
<1>2. charge[c].status \in StatusesOf(charge[c].provider)
  BY <1>1 DEF GatewayInv, ChargeSays
<1>3. \A d \in Charges : <<>> # <<d, "succeeded">>
  OBVIOUS
<1> QED
  BY <1>1, <1>2, <1>3, ApplyingTurn

LEMMA FetchStep ==
    ASSUME GatewayInv, AccountInv, NEW w \in Workers, Fetch(w)
    PROVE  GatewayGoesOn
<1> DEFINE r == request[w]
<1>1. /\ UNCHANGED <<vars, charge, notified, webhook>> /\ r.pc = "fetch"
      /\ request' = [request EXCEPT ![w] =
                        applying("apply", r.charge, charge[r.charge].status, r.notification)]
  BY DEF Fetch, At
<1>2. /\ r.charge \in Charges /\ Made(r.charge)
      /\ r.notification \in Notifications \cup {<<>>}
      /\ \A d \in Charges : r.notification # <<d, "succeeded">>
  BY <1>1, ApplyRows DEF GatewayInv, RequestSays, ApplyRow, ApplyPcs
<1>3. charge[r.charge].status \in StatusesOf(charge[r.charge].provider)
  BY <1>2 DEF GatewayInv, ChargeSays
<1> QED
  BY <1>1, <1>2, <1>3, ApplyingTurn
-----------------------------------------------------------------------------
(* The steps of a request that write to the attempts.                      *)

LEMMA PaymentStatusRow ==
    ASSUME NEW a \in OrderRow, NEW s \in PaymentStatuses
    PROVE  /\ [a EXCEPT !.paymentStatus = s] \in OrderRow
           /\ [a EXCEPT !.paymentStatus = s].status = a.status
           /\ [a EXCEPT !.paymentStatus = s].paymentStatus = s
           /\ [a EXCEPT !.paymentStatus = s].items = a.items
BY DEF OrderRow

PaymentStatusTo(o, s) == [order EXCEPT ![o].paymentStatus = s]
LEMMA PaymentStatusOrders ==
    ASSUME TypeOK, NEW o \in Orders, NEW s \in PaymentStatuses
    PROVE  /\ PaymentStatusTo(o, s) \in [Orders -> OrderRow]
           /\ \A p \in Orders : /\ PaymentStatusTo(o, s)[p].status = order[p].status
                                /\ PaymentStatusTo(o, s)[p].items = order[p].items
                                /\ PaymentStatusTo(o, s)[p].paymentStatus =
                                      IF p = o THEN s ELSE order[p].paymentStatus
<1> DEFINE row == [order[o] EXCEPT !.paymentStatus = s]
<1>1. PaymentStatusTo(o, s) = [order EXCEPT ![o] = row] /\ order \in [Orders -> OrderRow]
  BY DEF PaymentStatusTo, TypeOK
<1>2. row \in OrderRow /\ row.status = order[o].status /\ row.paymentStatus = s
      /\ row.items = order[o].items
  BY <1>1, PaymentStatusRow
<1> HIDE DEF row
<1> QED
  BY <1>1, <1>2

\* A step that writes to attempts, and to no order more than that it is not paid.
LEMMA WriterRests ==
    ASSUME GatewayInv, payments' \in [Orders -> Seq(Attempt)],
           \A p \in Orders : /\ DOMAIN payments'[p] = DOMAIN payments[p]
                             /\ \A j \in DOMAIN payments[p] :
                                   payments'[p][j].choice = payments[p][j].choice,
           order' \in [Orders -> OrderRow],
           \A p \in Orders : /\ order'[p].status = order[p].status
                             /\ order'[p].paymentStatus = "APPROVED"
                                   => order[p].paymentStatus = "APPROVED",
           UNCHANGED <<now, stock, cart, reservation, proof, uploads, promotion,
                       approvals, charge>>
    PROVE  ChargesGoOn /\ TypeOK' /\ \A o \in Orders : SaleSays(o)'
<1>1. ChargesGoOn
  BY DEF ChargesGoOn, Made, AttemptsGoOn, ApprovalsGoOn
<1>2. TypeOK'
  BY DEF GatewayInv, TypeOK, stock, promotion
<1>3. ASSUME NEW o \in Orders PROVE SaleSays(o)'
  <2>1. SaleSays(o)
    BY DEF GatewayInv
  <2>2. (IsSold(o)' <=> IsSold(o)) /\ ActiveItems(o)' = ActiveItems(o)
    BY DEF IsSold, ActiveItems
  <2>3. payments[o] = <<>> => payments'[o] = <<>>
    <3>1. payments'[o] \in Seq(Attempt)
      OBVIOUS
    <3>2. ASSUME payments[o] = <<>> PROVE DOMAIN payments'[o] = {}
      BY <3>2
    <3> QED
      BY <3>1, <3>2
  <2> QED
    BY <2>1, <2>2, <2>3 DEF SaleSays
<1> QED
  BY <1>1, <1>2, <1>3

LEMMA SaveStartedStep ==
    ASSUME GatewayInv, AccountInv, NEW w \in Workers, SaveStarted(w)
    PROVE  GatewayGoesOn
<1> DEFINE r == request[w]
<1>1. /\ payments' = Started(r.order, r.attempt) /\ Respond(w)
      /\ charge' = charge /\ notified' = notified /\ webhook' = webhook
      /\ order' = order
      /\ UNCHANGED <<now, stock, cart, reservation, proof, uploads, promotion,
                     approvals, charge>>
  BY DEF SaveStarted, Started
<1>2. r.order \in Orders
  BY DEF SaveStarted, At, GatewayInv, RequestSays, Idle, SaveRow, CardRow, ApplyRow, ApplyPcs
<1>3. /\ payments' \in [Orders -> Seq(Attempt)]
      /\ \A p \in Orders :
            /\ DOMAIN payments'[p] = DOMAIN payments[p]
            /\ \A j \in DOMAIN payments[p] :
                  /\ payments'[p][j].choice = payments[p][j].choice
                  /\ payments'[p][j].status = payments[p][j].status
  BY <1>1, <1>2, StartedRows DEF GatewayInv
<1>4. order' \in [Orders -> OrderRow]
  BY <1>1 DEF GatewayInv, TypeOK
<1>5. ChargesGoOn /\ TypeOK' /\ \A o \in Orders : SaleSays(o)'
  BY <1>1, <1>3, <1>4, WriterRests
<1>6. \A o \in Orders : RefundSays(o)'
  BY <1>3, <1>5, RefundsStay
<1>7. RequestMoves(w) /\ request'[w].pc = "idle"
  BY <1>1, RespondMoves DEF Idle
<1>8. RequestsSay'
  BY <1>5, <1>7, AccountsForNothing, RequestsGoOn
<1> QED
  BY <1>1, <1>5, <1>6, <1>8, ShopMoves DEF GatewayGoesOn

\* The charge a request applies.
LEMMA AboutCharge ==
    ASSUME GatewayInv, NEW w \in Workers, request[w].pc \in ApplyPcs
    PROVE  /\ request[w].charge \in Charges /\ Made(request[w].charge)
           /\ request[w].order \in Orders
           /\ request[w].order = charge[request[w].charge].order
           /\ request[w].attempt = charge[request[w].charge].attempt
           /\ request[w].status \in PaymentStatuses
           /\ charge[request[w].charge].provider = "STRIPE"
                 => request[w].status # "REFUNDED"
BY ApplyRows DEF GatewayInv, RequestSays, ApplyRow

\* What is written of the status of a charge's attempt: only a refunded charge of
\* Stripe makes an attempt refunded.
LEMMA StatusWritten ==
    ASSUME GatewayInv, AccountInv, NEW c \in Charges, Made(c),
           NEW o \in Orders, NEW i, charge[c].order = o, charge[c].attempt = i,
           NEW s \in PaymentStatuses, payments' = Written(o, i, s),
           s # "REFUNDED" \/ charge[c].provider # "STRIPE" \/ charge[c].refunded,
           order' \in [Orders -> OrderRow],
           \A p \in Orders : /\ order'[p].status = order[p].status
                             /\ order'[p].paymentStatus = "APPROVED"
                                   => order[p].paymentStatus = "APPROVED",
           UNCHANGED <<now, stock, cart, reservation, proof, uploads, promotion,
                       approvals, charge>>
    PROVE  ChargesGoOn /\ TypeOK' /\ \A p \in Orders : SaleSays(p)' /\ RefundSays(p)'
<1>1. TypeOK
  BY DEF GatewayInv
<1>2. /\ payments' \in [Orders -> Seq(Attempt)]
      /\ \A p \in Orders : /\ DOMAIN payments'[p] = DOMAIN payments[p]
                           /\ \A j \in DOMAIN payments[p] :
                                 payments'[p][j].choice = payments[p][j].choice
      /\ \A p \in Orders \ {o} : payments'[p] = payments[p]
      /\ \A j \in DOMAIN payments[o] : payments'[o][j].status =
            IF j = i THEN s ELSE payments[o][j].status
  BY <1>1, WrittenRows
<1>3. ChargesGoOn /\ TypeOK' /\ \A p \in Orders : SaleSays(p)'
  BY <1>2, WriterRests
<1>4. charge[c].provider # "STRIPE" => payments[o][i].choice # "CARD_STRIPE"
  BY DEF GatewayInv, ChargeSays, ProviderOf
<1>5. Made(c)' /\ charge' = charge
  BY DEF Made
<1>6. ASSUME NEW p \in Orders, NEW j \in DOMAIN payments'[p],
             payments'[p][j].status = "REFUNDED"
      PROVE  \/ j \in DOMAIN payments[p] /\ payments[p][j].status = "REFUNDED"
             \/ payments'[p][j].choice # "CARD_STRIPE"
             \/ \E d \in Charges : /\ Made(d)' /\ charge'[d].order = p
                                   /\ charge'[d].attempt = j /\ charge'[d].refunded
  <2>1. CASE p = o /\ j = i
    <3>1. s = "REFUNDED" /\ j \in DOMAIN payments[p]
      BY <1>2, <1>6, <2>1
    <3>2. CASE charge[c].provider # "STRIPE"
      BY <1>2, <1>4, <2>1, <3>1, <3>2
    <3>3. CASE charge[c].refunded
      BY <1>5, <2>1, <3>3
    <3> QED
      BY <3>1, <3>2, <3>3
  <2>2. CASE ~(p = o /\ j = i)
    BY <1>2, <1>6, <2>2
  <2> QED
    BY <2>1, <2>2
<1>7. \A p \in Orders : RefundSays(p)'
  BY <1>3, <1>6, RefundsStay
<1> QED
  BY <1>3, <1>7

LEMMA RecordSupersededStep ==
    ASSUME GatewayInv, AccountInv, NEW w \in Workers, RecordSuperseded(w)
    PROVE  GatewayGoesOn
<1> DEFINE r == request[w]
           s == IF r.status \in {"REFUNDED", "CHARGED_BACK"} THEN r.status ELSE "CANCELLED"
<1>1. /\ payments' = Written(r.order, r.attempt, s) /\ Goto(w, "processed")
      /\ r.pc = "record" /\ r.pc \in ApplyPcs
      /\ charge' = charge /\ notified' = notified /\ webhook' = webhook
      /\ order' = order
      /\ UNCHANGED <<now, stock, cart, reservation, proof, uploads, promotion,
                     approvals, charge>>
  BY DEF RecordSuperseded, Written, At, ApplyPcs
<1>2. /\ r.charge \in Charges /\ Made(r.charge) /\ r.order \in Orders
      /\ charge[r.charge].order = r.order /\ charge[r.charge].attempt = r.attempt
      /\ r.status \in PaymentStatuses
      /\ charge[r.charge].provider = "STRIPE" => r.status # "REFUNDED"
  BY <1>1, AboutCharge
<1>3. /\ s \in PaymentStatuses
      /\ s # "REFUNDED" \/ charge[r.charge].provider # "STRIPE"
  BY <1>2 DEF PaymentStatuses
<1>4. order' \in [Orders -> OrderRow]
  BY <1>1 DEF GatewayInv, TypeOK
<1> HIDE DEF s
<1>5. ChargesGoOn /\ TypeOK' /\ \A p \in Orders : SaleSays(p)' /\ RefundSays(p)'
  BY <1>1, <1>2, <1>3, <1>4, StatusWritten
<1>6. RequestMoves(w) /\ Proceeds(w) /\ request'[w].pc = "processed"
  BY <1>1, <1>5, GotoMoves DEF ApplyPcs
<1>7. r.status # "APPROVED"
  BY <1>1 DEF AccountInv, RequestAccounts
<1>8. RequestAccounts(w)'
  BY <1>6, <1>7 DEF RequestAccounts, Proceeds
<1> QED
  BY <1>1, <1>5, <1>6, <1>8, RequestsGoOn, ShopMoves DEF GatewayGoesOn

LEMMA MarkRefundedStep ==
    ASSUME GatewayInv, AccountInv, NEW w \in Workers, MarkRefunded(w)
    PROVE  GatewayGoesOn
<1> DEFINE r == request[w]
<1>1. /\ payments' = Written(r.order, r.attempt, "REFUNDED") /\ Goto(w, "processed")
      /\ r.pc = "mark" /\ r.pc \in ApplyPcs
      /\ charge' = charge /\ notified' = notified /\ webhook' = webhook
      /\ order' = order \/ order' = PaymentStatusTo(r.order, "REFUNDED")
      /\ UNCHANGED <<now, stock, cart, reservation, proof, uploads, promotion,
                     approvals, charge>>
  BY DEF MarkRefunded, Written, PaymentStatusTo, At, ApplyPcs
<1>2. /\ r.charge \in Charges /\ Made(r.charge) /\ r.order \in Orders
      /\ charge[r.charge].order = r.order /\ charge[r.charge].attempt = r.attempt
  BY <1>1, AboutCharge
<1>3. charge[r.charge].refunded
  BY <1>1 DEF AccountInv, RequestAccounts
<1>4. "REFUNDED" \in PaymentStatuses
  BY DEF PaymentStatuses
<1>5. /\ order' \in [Orders -> OrderRow]
      /\ \A p \in Orders : /\ order'[p].status = order[p].status
                           /\ order'[p].paymentStatus = "APPROVED"
                                 => order[p].paymentStatus = "APPROVED"
  <2>1. CASE order' = order
    BY <2>1 DEF GatewayInv, TypeOK
  <2>2. CASE order' = PaymentStatusTo(r.order, "REFUNDED")
    BY <1>2, <1>4, <2>2, PaymentStatusOrders DEF GatewayInv
  <2> QED
    BY <1>1, <2>1, <2>2
<1>6. ChargesGoOn /\ TypeOK' /\ \A p \in Orders : SaleSays(p)' /\ RefundSays(p)'
  BY <1>1, <1>2, <1>3, <1>4, <1>5, StatusWritten
<1>7. RequestMoves(w) /\ Proceeds(w) /\ request'[w].pc = "processed"
  BY <1>1, <1>6, GotoMoves DEF ApplyPcs
<1>8. RequestAccounts(w)'
  BY <1>1, <1>3, <1>7 DEF RequestAccounts, Proceeds, Accounted
<1> QED
  BY <1>1, <1>6, <1>7, <1>8, RequestsGoOn, ShopMoves DEF GatewayGoesOn

\* The sale of an order by a request.
LEMMA SaleRests ==
    ASSUME GatewayInv, AccountInv, NEW o \in Orders, NEW i, NEW s \in PaymentStatuses,
           ConfirmOrderPayment(o, i, Written(o, i, s)[o]),
           UNCHANGED <<now, cart, proof, uploads, promotion>>, charge' = charge
    PROVE  /\ ChargesGoOn /\ TypeOK' /\ approvals'[o] = 1
           /\ \A p \in Orders : SaleSays(p)' /\ RefundSays(p)'
<1> DEFINE u == Written(o, i, s)[o]
           row == [u[i] EXCEPT !.status = "APPROVED"]
<1>1. /\ u \in Seq(Attempt) /\ DOMAIN u = DOMAIN payments[o]
      /\ \A j \in DOMAIN payments[o] :
            /\ u[j].choice = payments[o][j].choice
            /\ u[j].status = IF j = i THEN s ELSE payments[o][j].status
  BY WrittenRows DEF GatewayInv
<1>2. i \in DOMAIN u => row.status = "APPROVED" /\ row.choice = u[i].choice
  <2>1. i \in DOMAIN u => u[i] \in Attempt
    BY <1>1
  <2> QED
    BY <2>1 DEF Attempt
<1>3. /\ Confirmed(o) /\ payments' = [payments EXCEPT ![o] = [u EXCEPT ![i] = row]]
      /\ \A p \in Orders \ {o} : Untouched(p)
  BY ConfirmShape DEF GatewayInv
<1> HIDE DEF row
<1>4. TypeOK'
  <2>1. /\ onHand' \in [Variants -> Int] /\ available' \in [Variants -> Int]
        /\ reserved' \in [Variants -> Int]
        /\ movement' \in [Variants -> [MovementTypes -> Int]]
        /\ reservation' \in [Orders -> [Variants -> ReservationRow]]
        /\ payments' \in [Orders -> Seq(Attempt)]
        /\ order' \in [Orders -> OrderRow] /\ approvals' \in [Orders -> Nat]
    BY <1>1, ConfirmType DEF GatewayInv
  <2> QED
    BY <2>1 DEF GatewayInv, TypeOK, promotion
<1>5. SaleSays(o) /\ approvals[o] = 0
  BY <1>3 DEF GatewayInv, SaleSays, Confirmed, IsSold
<1>6. \A p \in Orders : SaleSays(p)'
  BY <1>3, <1>5, ConfirmSells, ShopSales DEF GatewayInv
<1>7. approvals'[o] = 1
  BY <1>3, <1>5 DEF Confirmed
<1> HIDE DEF u
<1>8. payments'[o] = [u EXCEPT ![i] = row]
  BY <1>3 DEF GatewayInv, TypeOK
<1>9. /\ DOMAIN payments'[o] = DOMAIN payments[o]
      /\ \A j \in DOMAIN payments[o] :
            /\ payments'[o][j].choice = payments[o][j].choice
            /\ j = i => payments'[o][j].status = "APPROVED"
            /\ j # i => payments'[o][j].status = payments[o][j].status
  BY <1>1, <1>2, <1>8
<1>10. ChargesGoOn
  BY <1>3, <1>5, <1>9 DEF ChargesGoOn, AttemptsGoOn, ApprovalsGoOn, Untouched, Made
<1>11. \A p \in Orders : RefundSays(p)'
  BY <1>3, <1>9, <1>10, RefundsStay DEF Untouched
<1> QED
  BY <1>4, <1>6, <1>7, <1>10, <1>11

LEMMA TransactStep ==
    ASSUME GatewayInv, AccountInv, NEW w \in Workers, Transact(w)
    PROVE  GatewayGoesOn
<1> DEFINE r == request[w]
           o == r.order
           i == r.attempt
           paid == order[o].paymentStatus = "APPROVED"
<1>1. /\ r.pc \in ApplyPcs /\ charge' = charge /\ notified' = notified /\ webhook' = webhook
  BY DEF Transact, At, ApplyPcs
<1>2. /\ r.charge \in Charges /\ Made(r.charge) /\ o \in Orders
      /\ charge[r.charge].order = o /\ charge[r.charge].attempt = i
      /\ r.status \in PaymentStatuses
      /\ charge[r.charge].provider = "STRIPE" => r.status # "REFUNDED"
  BY <1>1, AboutCharge
<1>3. CASE HandleSuperseded(w) /\ UNCHANGED vars
  <2>1. RequestMoves(w) /\ RequestAccounts(w)'
    BY <1>1, <1>3, NothingCharged, SupersededMoves DEF RequestAccounts, Proceeds
  <2> QED
    BY <1>1, <1>3, <2>1, RequestOnly DEF GatewayGoesOn
<1>4. CASE /\ ConfirmOrderPayment(o, i, Written(o, i, r.status)[o])
           /\ Goto(w, "processed") /\ UNCHANGED <<now, cart, proof, uploads, promotion>>
  <2>1. /\ ChargesGoOn /\ TypeOK' /\ approvals'[o] = 1
        /\ \A p \in Orders : SaleSays(p)' /\ RefundSays(p)'
    BY <1>1, <1>2, <1>4, SaleRests
  <2>2. RequestMoves(w) /\ Proceeds(w) /\ request'[w].pc = "processed"
    BY <1>1, <1>4, <2>1, GotoMoves DEF ApplyPcs
  <2>3. RequestAccounts(w)'
    BY <1>1, <1>2, <2>1, <2>2 DEF RequestAccounts, Proceeds, Accounted
  <2> QED
    BY <1>1, <2>1, <2>2, <2>3, RequestsGoOn, ShopMoves DEF GatewayGoesOn
<1>5. CASE /\ r.status # "APPROVED" \/ paid
           /\ payments' = Written(o, i, r.status)
           /\ order' = PaymentStatusTo(o, statusAfter(o, r.status))
           /\ Goto(w, "processed")
           /\ UNCHANGED <<now, stock, cart, reservation, proof, uploads, promotion, approvals>>
  <2>1. /\ statusAfter(o, r.status) \in PaymentStatuses
        /\ statusAfter(o, r.status) = "APPROVED" => paid
    BY <1>2, <1>5 DEF statusAfter, PaymentStatuses
  <2>2. /\ order' \in [Orders -> OrderRow]
        /\ \A p \in Orders : /\ order'[p].status = order[p].status
                             /\ order'[p].paymentStatus = "APPROVED"
                                   => order[p].paymentStatus = "APPROVED"
    BY <1>2, <1>5, <2>1, PaymentStatusOrders DEF GatewayInv
  <2>3. ChargesGoOn /\ TypeOK' /\ \A p \in Orders : SaleSays(p)' /\ RefundSays(p)'
    BY <1>1, <1>2, <1>5, <2>2, StatusWritten
  <2>4. RequestMoves(w) /\ Proceeds(w) /\ request'[w].pc = "processed"
    BY <1>1, <1>5, <2>3, GotoMoves DEF ApplyPcs
  <2>5. r.status = "APPROVED" => approvals'[o] = 1
    BY <1>2, <1>5 DEF GatewayInv, SaleSays
  <2>6. RequestAccounts(w)'
    BY <1>1, <1>2, <2>4, <2>5 DEF RequestAccounts, Proceeds, Accounted
  <2> QED
    BY <1>1, <2>2, <2>3, <2>4, <2>6, RequestsGoOn, ShopMoves DEF GatewayGoesOn
<1> QED
  BY <1>3, <1>4, <1>5 DEF Transact, Written, PaymentStatusTo
-----------------------------------------------------------------------------
(* The steps that change charges.                                          *)

LEMMA MoneyMoves ==
    ASSUME GatewayInv, AccountInv, ChargesGoOn, UNCHANGED vars, webhook' = webhook,
           charge' \in [Charges -> ChargeRow \cup {NoCharge}],
           \A c \in Charges : ChargeSays(c)', OneIntentEach', EventsSent',
           \A n \in notified' \ notified : NotificationSays(n)', RequestsSay'
    PROVE  GatewayGoesOn
<1>1. EventsAccounted'
  BY AccountedStays DEF AccountInv, EventsAccounted, ChargesGoOn
<1>2. webhook' \in [Notifications -> {"none", "received", "processed", "error"}]
  BY DEF GatewayInv
<1> QED
  BY <1>1, <1>2, ShopRests, RefundsRest, Assembled DEF GatewayGoesOn

LEMMA RowsAreCharges == ASSUME NEW row \in ChargeRow PROVE row # NoCharge
<1>1. row.provider # "NONE" /\ NoCharge.provider = "NONE"
  BY DEF ChargeRow, NoCharge
<1> QED
  BY <1>1

\* A charge whose status changes at its provider.
LEMMA ChargeChanged ==
    ASSUME GatewayInv, AccountInv, UNCHANGED vars, NEW c \in Charges, Made(c),
           NEW row \in ChargeRow, charge' = [charge EXCEPT ![c] = row],
           row.order = charge[c].order, row.attempt = charge[c].attempt,
           row.provider = charge[c].provider, charge[c].refunded => row.refunded,
           row.status \in StatusesOf(row.provider)
    PROVE  /\ ChargesGoOn /\ charge' \in [Charges -> ChargeRow \cup {NoCharge}]
           /\ \A d \in Charges : ChargeSays(d)'
           /\ OneIntentEach'
<1>1. charge \in [Charges -> ChargeRow \cup {NoCharge}] /\ payments' = payments
  BY ShopRests DEF GatewayInv
<1>2. /\ charge'[c] = row /\ charge' \in [Charges -> ChargeRow \cup {NoCharge}]
      /\ \A d \in Charges \ {c} : charge'[d] = charge[d]
  BY <1>1
<1>3. \A d \in Charges : Made(d)' <=> Made(d)
  BY <1>2, RowsAreCharges DEF Made
<1>4. ChargesGoOn
  BY <1>2, <1>3, ShopRests DEF ChargesGoOn
<1>5. ASSUME NEW d \in Charges PROVE ChargeSays(d)'
  <2>1. ChargeSays(d)
    BY DEF GatewayInv
  <2>2. CASE d = c
    BY <1>1, <1>2, <2>1, <2>2 DEF ChargeSays
  <2>3. CASE d # c
    BY <1>1, <1>2, <1>3, <2>1, <2>3 DEF ChargeSays
  <2> QED
    BY <2>2, <2>3
<1>6. OneIntentEach'
  BY <1>2, <1>3 DEF AccountInv, OneIntentEach
<1> QED
  BY <1>2, <1>4, <1>5, <1>6

\* A new charge.
LEMMA ChargeMade ==
    ASSUME GatewayInv, AccountInv, UNCHANGED vars, NEW c \in Charges, ~Made(c),
           NEW row \in ChargeRow, charge' = [charge EXCEPT ![c] = row],
           row.attempt \in DOMAIN payments[row.order],
           row.provider = ProviderOf(payments[row.order][row.attempt].choice),
           row.provider = "STRIPE" => ChargesOf(row.order, row.attempt) = {},
           row.status \in StatusesOf(row.provider)
    PROVE  /\ ChargesGoOn /\ charge' \in [Charges -> ChargeRow \cup {NoCharge}]
           /\ \A d \in Charges : ChargeSays(d)'
           /\ OneIntentEach' /\ charge'[c] = row /\ Made(c)'
           /\ \A d \in Charges \ {c} : charge'[d] = charge[d]
<1>1. charge \in [Charges -> ChargeRow \cup {NoCharge}] /\ payments' = payments
  BY ShopRests DEF GatewayInv
<1>2. /\ charge'[c] = row /\ charge' \in [Charges -> ChargeRow \cup {NoCharge}]
      /\ \A d \in Charges \ {c} : charge'[d] = charge[d]
  BY <1>1
<1>3. /\ \A d \in Charges \ {c} : Made(d)' <=> Made(d)
      /\ Made(c)'
  BY <1>2, RowsAreCharges DEF Made
<1>4. ChargesGoOn
  BY <1>2, <1>3, ShopRests DEF ChargesGoOn
<1>5. ASSUME NEW d \in Charges PROVE ChargeSays(d)'
  <2>1. ChargeSays(d)
    BY DEF GatewayInv
  <2>2. CASE d = c
    BY <1>1, <1>2, <2>2 DEF ChargeSays
  <2>3. CASE d # c
    BY <1>1, <1>2, <1>3, <2>1, <2>3 DEF ChargeSays
  <2> QED
    BY <2>2, <2>3
<1>6. ASSUME NEW d \in Charges \ {c}, Made(d), charge[d].order = row.order,
             charge[d].attempt = row.attempt
      PROVE  charge[d].provider # "STRIPE" /\ row.provider # "STRIPE"
  <2>1. charge[d].provider = row.provider
    BY <1>6 DEF GatewayInv, ChargeSays
  <2>2. d \in ChargesOf(row.order, row.attempt)
    BY <1>6 DEF ChargesOf
  <2> QED
    BY <2>1, <2>2
<1>7. OneIntentEach'
  <2> SUFFICES ASSUME NEW d \in Charges, NEW e \in Charges, Made(d)', Made(e)',
                      charge'[d].provider = "STRIPE", charge'[d].order = charge'[e].order,
                      charge'[d].attempt = charge'[e].attempt
               PROVE  d = e
    BY DEF OneIntentEach
  <2>1. CASE d # c /\ e # c
    BY <1>2, <1>3, <2>1 DEF AccountInv, OneIntentEach
  <2>2. CASE d = c /\ e # c
    BY <1>2, <1>3, <1>6, <2>2
  <2>3. CASE d # c /\ e = c
    BY <1>2, <1>3, <1>6, <2>3
  <2> QED
    BY <2>1, <2>2, <2>3
<1> QED
  BY <1>2, <1>3, <1>4, <1>5, <1>7

LEMMA NewChargeRow ==
    ASSUME GatewayInv, NEW o \in Orders, NEW i \in DOMAIN payments[o],
           payments[o][i].choice \in {"PAYMENT_LINK", "CARD_MERCADO_PAGO", "CARD_STRIPE"},
           NEW amount \in Nat, NEW status,
           status \in StatusesOf(ProviderOf(payments[o][i].choice))
    PROVE  LET row == newCharge(o, i, amount, status)
           IN  /\ row \in ChargeRow /\ row.order = o /\ row.attempt = i
               /\ row.provider = ProviderOf(payments[o][i].choice) /\ row.status = status
<1>1. payments[o] \in Seq(Attempt)
  BY DEF GatewayInv, TypeOK
<1>2. i \in Nat
  BY <1>1
<1>3. ProviderOf(payments[o][i].choice) \in {"STRIPE", "MERCADO_PAGO"}
  BY DEF ProviderOf
<1>4. status \in StripeStatuses \cup MercadoPagoStatuses
  BY DEF StatusesOf
<1> QED
  BY <1>2, <1>3, <1>4 DEF newCharge, ChargeRow

\* What is sent about a charge.
LEMMA Announced ==
    ASSUME NEW c \in Charges, NEW status, Notified(c, status), Made(c)',
           charge'[c].provider = "STRIPE" => \E m \in StripeMoves : status = m[2]
    PROVE  /\ notified \subseteq notified'
           /\ charge'[c].provider = "STRIPE" => <<c, status>> \in notified'
           /\ \A n \in notified' \ notified : NotificationSays(n)'
<1> DEFINE form == IF charge'[c].provider = "STRIPE" THEN status ELSE "payment"
<1>1. notified' = notified \cup {<<c, form>>}
  BY DEF Notified
<1>2. /\ <<c, form>> \in Notifications
      /\ form = "payment" <=> charge'[c].provider # "STRIPE"
  BY NotificationsAre
<1>3. charge'[c].provider = "STRIPE" => form = status
  OBVIOUS
<1> HIDE DEF form
<1>4. \A n \in notified' \ notified : n = <<c, form>>
  BY <1>1
<1>5. \A n \in notified' \ notified : NotificationSays(n)'
  BY <1>2, <1>4 DEF NotificationSays
<1> QED
  BY <1>1, <1>3, <1>5

LEMMA SettledRow ==
    ASSUME NEW row \in ChargeRow, NEW status \in StatusesOf(row.provider)
    PROVE  /\ [row EXCEPT !.status = status] \in ChargeRow
           /\ [row EXCEPT !.status = status].order = row.order
           /\ [row EXCEPT !.status = status].attempt = row.attempt
           /\ [row EXCEPT !.status = status].provider = row.provider
           /\ [row EXCEPT !.status = status].refunded = row.refunded
           /\ [row EXCEPT !.status = status].status = status
           /\ [row EXCEPT !.refunded = TRUE] \in ChargeRow
           /\ [row EXCEPT !.refunded = TRUE].order = row.order
           /\ [row EXCEPT !.refunded = TRUE].attempt = row.attempt
           /\ [row EXCEPT !.refunded = TRUE].provider = row.provider
           /\ [row EXCEPT !.refunded = TRUE].refunded = TRUE
           /\ [row EXCEPT !.refunded = TRUE].status = row.status
BY DEF ChargeRow, StatusesOf

LEMMA MoveStatuses ==
    /\ \A m \in StripeMoves : m[2] \in StripeStatuses
    /\ \A m \in MercadoPagoMoves : m[2] \in MercadoPagoStatuses
BY DEF StripeMoves, MercadoPagoMoves, StripeStatuses, MercadoPagoStatuses,
       mapStripeStatus, mapMercadoPagoStatus

LEMMA SettleStep ==
    ASSUME GatewayInv, AccountInv, NEW c \in Charges, Settle(c)
    PROVE  GatewayGoesOn
<1>1. Made(c) /\ UNCHANGED vars /\ webhook' = webhook /\ request' = request
  BY DEF Settle
<1>2. PICK status : /\ <<charge[c].status, status>> \in
                           (IF charge[c].provider = "STRIPE" THEN StripeMoves
                                                             ELSE MercadoPagoMoves)
                    /\ charge' = [charge EXCEPT ![c].status = status]
                    /\ Notified(c, status)
  BY DEF Settle
<1> DEFINE row == [charge[c] EXCEPT !.status = status]
<1>3. charge[c] \in ChargeRow /\ charge \in [Charges -> ChargeRow \cup {NoCharge}]
  BY <1>1 DEF GatewayInv, ChargeSays
<1>4. /\ status \in StatusesOf(charge[c].provider)
      /\ charge[c].provider = "STRIPE" => \E m \in StripeMoves : status = m[2]
  BY <1>2, MoveStatuses DEF StatusesOf
<1>5. charge' = [charge EXCEPT ![c] = row]
  BY <1>2
<1>6. /\ row \in ChargeRow /\ row.order = charge[c].order /\ row.attempt = charge[c].attempt
      /\ row.provider = charge[c].provider /\ row.refunded = charge[c].refunded
      /\ row.status = status
  BY <1>3, <1>4, SettledRow
<1> HIDE DEF row
<1>7. /\ ChargesGoOn /\ charge' \in [Charges -> ChargeRow \cup {NoCharge}]
      /\ \A d \in Charges : ChargeSays(d)'
      /\ OneIntentEach'
  BY <1>1, <1>4, <1>5, <1>6, ChargeChanged
<1>8. charge'[c] = row /\ \A d \in Charges \ {c} : charge'[d] = charge[d]
  BY <1>3, <1>5
<1>9. Made(c)'
  BY <1>1, <1>7 DEF ChargesGoOn
<1>10. /\ notified \subseteq notified'
       /\ charge'[c].provider = "STRIPE" => <<c, status>> \in notified'
       /\ \A n \in notified' \ notified : NotificationSays(n)'
  BY <1>2, <1>4, <1>6, <1>8, <1>9, Announced
<1>11. EventsSent'
  BY <1>6, <1>8, <1>10 DEF AccountInv, EventsSent, Made
<1> QED
  BY <1>1, <1>7, <1>10, <1>11, RequestsStay, MoneyMoves

\* The events of a new charge.
LEMMA NewEvents ==
    ASSUME GatewayInv, AccountInv, NEW c \in Charges, notified \subseteq notified',
           \A d \in Charges \ {c} : charge'[d] = charge[d],
           charge'[c].provider = "STRIPE" => charge'[c].status # "succeeded"
    PROVE  EventsSent'
BY DEF AccountInv, EventsSent, Made

LEMMA PayLinkStep ==
    ASSUME GatewayInv, AccountInv, NEW o \in Orders, NEW i, NEW c \in Charges,
           NEW status \in {"pending", "approved", "rejected"}, PayLink(o, i, c, status)
    PROVE  GatewayGoesOn
<1> DEFINE row == newCharge(o, i, 0, status)
<1>1. /\ ~Made(c) /\ UNCHANGED vars /\ webhook' = webhook /\ request' = request
      /\ i \in DOMAIN payments[o] /\ payments[o][i].choice = "PAYMENT_LINK"
      /\ charge' = [charge EXCEPT ![c] = row] /\ Notified(c, status)
  BY DEF PayLink
<1>2. /\ ProviderOf(payments[o][i].choice) = "MERCADO_PAGO"
      /\ status \in StatusesOf("MERCADO_PAGO")
  BY <1>1 DEF ProviderOf, StatusesOf, MercadoPagoStatuses, mapMercadoPagoStatus
<1>3. /\ row \in ChargeRow /\ row.order = o /\ row.attempt = i
      /\ row.provider = ProviderOf(payments[o][i].choice) /\ row.status = status
  BY <1>1, <1>2, NewChargeRow
<1> HIDE DEF row
<1>4. /\ ChargesGoOn /\ charge' \in [Charges -> ChargeRow \cup {NoCharge}]
      /\ \A d \in Charges : ChargeSays(d)'
      /\ OneIntentEach' /\ charge'[c] = row /\ Made(c)'
      /\ \A d \in Charges \ {c} : charge'[d] = charge[d]
  BY <1>1, <1>2, <1>3, ChargeMade
<1>5. charge'[c].provider # "STRIPE"
  BY <1>2, <1>3, <1>4
<1>6. /\ notified \subseteq notified'
      /\ \A n \in notified' \ notified : NotificationSays(n)'
  BY <1>1, <1>4, <1>5, Announced
<1>7. EventsSent'
  BY <1>4, <1>5, <1>6, NewEvents
<1> QED
  BY <1>1, <1>4, <1>6, <1>7, RequestsStay, MoneyMoves

\* A request that charges a card.
LEMMA CardRows ==
    ASSUME GatewayInv, NEW w \in Workers, request[w].pc \in CardPcs
    PROVE  /\ request[w] \in CardRow /\ request[w].order \in Orders
           /\ request[w].amount \in Nat
           /\ request[w].attempt \in DOMAIN payments[request[w].order]
           /\ payments[request[w].order][request[w].attempt].choice = request[w].pc
BY DEF GatewayInv, RequestSays, Idle, SaveRow, CardRow, ApplyRow, ApplyPcs, CardPcs

LEMMA SaveMoves ==
    ASSUME GatewayInv, NEW w \in Workers, request[w].pc \in CardPcs, Goto(w, "save")
    PROVE  RequestMoves(w) /\ request'[w].pc = "save"
<1> DEFINE row == [request[w] EXCEPT !.pc = "save"]
<1>1. row \in CardRow /\ row.pc = "save"
  BY CardRows DEF CardRow
<1>2. request' = [request EXCEPT ![w] = row] /\ DOMAIN request = Workers
  BY DEF Goto, GatewayInv
<1> HIDE DEF row
<1>3. request'[w] = row /\ DOMAIN request' = Workers
      /\ \A x \in Workers \ {w} : request'[x] = request[x]
  BY <1>2
<1> QED
  BY <1>1, <1>3 DEF RequestMoves, RequestSays, CardPcs, ApplyPcs

LEMMA CreateIntentStep ==
    ASSUME GatewayInv, AccountInv, NEW w \in Workers, NEW c \in Charges, CreateIntent(w, c)
    PROVE  GatewayGoesOn
<1> DEFINE r == request[w]
           o == r.order
           i == r.attempt
           row == newCharge(o, i, r.amount, "requires_payment_method")
<1>1. /\ r.pc = "CARD_STRIPE" /\ r.pc \in CardPcs
      /\ UNCHANGED vars /\ notified' = notified /\ webhook' = webhook
  BY DEF CreateIntent, At, CardPcs
<1>2. /\ o \in Orders /\ r.amount \in Nat /\ i \in DOMAIN payments[o]
      /\ payments[o][i].choice = "CARD_STRIPE"
  BY <1>1, CardRows
<1>3. CASE /\ ChargesOf(o, i) = {} /\ ~Made(c) /\ charge' = [charge EXCEPT ![c] = row]
           /\ Goto(w, "save")
  <2>1. /\ ProviderOf(payments[o][i].choice) = "STRIPE"
        /\ "requires_payment_method" \in StatusesOf("STRIPE")
    BY <1>2 DEF ProviderOf, StatusesOf, StripeStatuses, mapStripeStatus
  <2>2. /\ row \in ChargeRow /\ row.order = o /\ row.attempt = i
        /\ row.provider = ProviderOf(payments[o][i].choice)
        /\ row.status = "requires_payment_method"
    BY <1>2, <2>1, NewChargeRow
  <2> HIDE DEF row
  <2>3. /\ ChargesGoOn /\ charge' \in [Charges -> ChargeRow \cup {NoCharge}]
        /\ \A d \in Charges : ChargeSays(d)'
        /\ OneIntentEach' /\ charge'[c] = row
        /\ \A d \in Charges \ {c} : charge'[d] = charge[d]
    BY <1>1, <1>2, <1>3, <2>1, <2>2, ChargeMade
  <2>4. EventsSent'
    BY <1>1, <2>2, <2>3, NewEvents
  <2>5. RequestMoves(w) /\ request'[w].pc = "save"
    BY <1>1, <1>3, SaveMoves
  <2>6. RequestsSay'
    BY <2>3, <2>5, AccountsForNothing, RequestsGoOn
  <2> QED
    BY <1>1, <2>3, <2>4, <2>6, MoneyMoves
<1>4. CASE charge' = charge /\ Goto(w, "save")
  <2>1. RequestMoves(w) /\ request'[w].pc = "save"
    BY <1>1, <1>4, SaveMoves
  <2> QED
    BY <1>1, <1>4, <2>1, AccountsForNothing, RequestOnly DEF GatewayGoesOn
<1>5. CASE charge' = charge /\ Respond(w)
  BY <1>1, <1>5, RespondTurn
<1> QED
  BY <1>3, <1>4, <1>5 DEF CreateIntent

LEMMA ChargeCardStep ==
    ASSUME GatewayInv, AccountInv, NEW w \in Workers, NEW c \in Charges,
           NEW status \in {"in_process", "approved", "rejected"}, ChargeCard(w, c, status)
    PROVE  GatewayGoesOn
<1> DEFINE r == request[w]
           o == r.order
           i == r.attempt
           row == newCharge(o, i, r.amount, status)
<1>1. /\ r.pc = "CARD_MERCADO_PAGO" /\ r.pc \in CardPcs /\ DOMAIN request = Workers
      /\ UNCHANGED vars /\ webhook' = webhook
      /\ request' = [request EXCEPT ![w] = applying("apply", c, status, <<>>)]
  BY DEF ChargeCard, At, CardPcs, GatewayInv
<1>2. /\ o \in Orders /\ r.amount \in Nat /\ i \in DOMAIN payments[o]
      /\ payments[o][i].choice = "CARD_MERCADO_PAGO"
  BY <1>1, CardRows
<1>3. /\ ProviderOf(payments[o][i].choice) = "MERCADO_PAGO"
      /\ status \in StatusesOf("MERCADO_PAGO")
  BY <1>2 DEF ProviderOf, StatusesOf, MercadoPagoStatuses, mapMercadoPagoStatus
<1>4. \A d \in Charges : <<>> # <<d, "succeeded">>
  OBVIOUS
<1>5. CASE ~Made(c) /\ charge' = [charge EXCEPT ![c] = row] /\ Notified(c, status)
  <2>1. /\ row \in ChargeRow /\ row.order = o /\ row.attempt = i
        /\ row.provider = ProviderOf(payments[o][i].choice) /\ row.status = status
    BY <1>2, <1>3, NewChargeRow
  <2> HIDE DEF row
  <2>2. /\ ChargesGoOn /\ charge' \in [Charges -> ChargeRow \cup {NoCharge}]
        /\ \A d \in Charges : ChargeSays(d)'
        /\ OneIntentEach' /\ charge'[c] = row /\ Made(c)'
        /\ \A d \in Charges \ {c} : charge'[d] = charge[d]
    BY <1>1, <1>2, <1>3, <1>5, <2>1, ChargeMade
  <2>3. charge'[c].provider = "MERCADO_PAGO"
    BY <1>3, <2>1, <2>2
  <2>4. /\ notified \subseteq notified'
        /\ \A n \in notified' \ notified : NotificationSays(n)'
    BY <1>5, <2>2, <2>3, Announced
  <2>5. EventsSent'
    BY <2>2, <2>3, <2>4, NewEvents
  <2>6. RequestSays(w)'
    <3>1. ChargeSays(c)' /\ Made(c)' /\ status \in StatusesOf(charge'[c].provider)
      BY <1>3, <2>2, <2>3
    <3>2. \A d \in Charges : <<>> = <<d, "succeeded">> =>
             d = c /\ status = "succeeded" /\ "apply" # "fetch" /\ charge'[c].provider = "STRIPE"
      BY <1>4
    <3>3. <<>> \in Notifications \cup {<<>>}
      OBVIOUS
    <3> QED
      BY <1>1, <3>1, <3>2, <3>3, ApplyingSays
  <2>7. /\ request'[w].pc = "apply" /\ RequestMoves(w)
    BY <1>1, <2>6, ApplyingRow DEF RequestMoves
  <2>8. RequestsSay'
    BY <2>2, <2>7, AccountsForNothing, RequestsGoOn
  <2> QED
    BY <1>1, <2>2, <2>4, <2>5, <2>8, MoneyMoves
<1>6. CASE c \in ChargesOf(o, i) /\ charge' = charge /\ notified' = notified
  <2>1. Made(c) /\ charge[c].order = o /\ charge[c].attempt = i
    BY <1>6 DEF ChargesOf
  <2>2. status \in StatusesOf(charge[c].provider)
    BY <1>3, <2>1 DEF GatewayInv, ChargeSays
  <2> QED
    BY <1>1, <1>4, <1>6, <2>1, <2>2, ApplyingTurn
<1> QED
  BY <1>5, <1>6 DEF ChargeCard

LEMMA CallRefundStep ==
    ASSUME GatewayInv, AccountInv, NEW w \in Workers, CallRefund(w)
    PROVE  GatewayGoesOn
<1>1. PICK c : c = request[w].charge
  OBVIOUS
<1>2. /\ request[w].pc \in ApplyPcs /\ UNCHANGED vars /\ webhook' = webhook
      /\ Goto(w, "mark")
  BY DEF CallRefund, At, ApplyPcs
<1>3. c \in Charges /\ Made(c)
  BY <1>1, <1>2, AboutCharge
<1>4. charge[c] \in ChargeRow /\ charge \in [Charges -> ChargeRow \cup {NoCharge}]
      /\ charge[c].status \in StatusesOf(charge[c].provider)
  BY <1>3 DEF GatewayInv, ChargeSays
<1> DEFINE back == [charge[c] EXCEPT !.refunded = TRUE]
           status == IF charge[c].provider = "STRIPE" THEN charge[c].status ELSE "refunded"
           row == [back EXCEPT !.status = status]
<1>5. /\ charge' = [charge EXCEPT ![c] = row]
      /\ IF charge[c].provider = "STRIPE" THEN notified' = notified ELSE Notified(c, "refunded")
  BY <1>1, <1>3, <1>4 DEF CallRefund, ChargeRow
<1>6. status \in StatusesOf(charge[c].provider)
  BY <1>4 DEF StatusesOf, MercadoPagoStatuses, mapMercadoPagoStatus
<1>7. /\ back \in ChargeRow /\ back.order = charge[c].order
      /\ back.attempt = charge[c].attempt
      /\ back.provider = charge[c].provider /\ back.refunded = TRUE
  BY <1>4, SettledRow
<1>8. charge[c].provider = "STRIPE" => status = charge[c].status
  OBVIOUS
<1> HIDE DEF back, status
<1>9. /\ row \in ChargeRow /\ row.order = charge[c].order
      /\ row.attempt = charge[c].attempt /\ row.provider = charge[c].provider
      /\ row.refunded = TRUE /\ row.status = status
  BY <1>6, <1>7, SettledRow
<1> HIDE DEF row
<1>10. /\ ChargesGoOn /\ charge' \in [Charges -> ChargeRow \cup {NoCharge}]
       /\ \A d \in Charges : ChargeSays(d)'
       /\ OneIntentEach'
  BY <1>2, <1>3, <1>5, <1>6, <1>9, ChargeChanged
<1>11. charge'[c] = row /\ \A d \in Charges \ {c} : charge'[d] = charge[d]
  BY <1>3, <1>4, <1>5
<1>12. Made(c)'
  BY <1>3, <1>10 DEF ChargesGoOn
<1>13. /\ notified \subseteq notified'
       /\ \A n \in notified' \ notified : NotificationSays(n)'
  <2>1. CASE charge[c].provider = "STRIPE"
    BY <1>5, <2>1
  <2>2. CASE charge[c].provider # "STRIPE"
    BY <1>3, <1>5, <1>9, <1>11, <1>12, <2>2, Announced
  <2> QED
    BY <2>1, <2>2
<1>14. EventsSent'
  BY <1>3, <1>8, <1>9, <1>11, <1>13 DEF AccountInv, EventsSent, Made
<1>15. RequestMoves(w) /\ Proceeds(w) /\ request'[w].pc = "mark"
  BY <1>2, <1>10, GotoMoves DEF ApplyPcs
<1>16. RequestAccounts(w)'
  BY <1>1, <1>9, <1>11, <1>15 DEF RequestAccounts, Proceeds
<1> QED
  BY <1>2, <1>10, <1>13, <1>14, <1>15, <1>16, RequestsGoOn, MoneyMoves
-----------------------------------------------------------------------------
(* The steps of webhooks, and those of the shop.                           *)

LEMMA ReceiveWebhookStep ==
    ASSUME GatewayInv, AccountInv, NEW w \in Workers, NEW n \in Notifications,
           ReceiveWebhook(w, n)
    PROVE  GatewayGoesOn
<1>1. PICK c : c = n[1]
  OBVIOUS
<1>2. /\ UNCHANGED vars /\ charge' = charge /\ notified' = notified
      /\ webhook' = [webhook EXCEPT ![n] = "received"] /\ DOMAIN request = Workers
      /\ n \in notified
  BY DEF ReceiveWebhook, GatewayInv
<1>3. /\ c \in Charges /\ n = <<c, n[2]>> /\ n # <<>> /\ Made(c)
      /\ n[2] = "payment" <=> charge[c].provider # "STRIPE"
      /\ n[2] \in {"payment", "requires_payment_method", "processing", "succeeded"}
  BY <1>1, <1>2, NotificationShape DEF GatewayInv, NotificationSays
<1>4. ChargesGoOn
  BY <1>2, NothingCharged
<1>5. /\ charge' \in [Charges -> ChargeRow \cup {NoCharge}]
      /\ \A d \in Charges : ChargeSays(d)'
      /\ OneIntentEach'
  BY <1>2, <1>4, ChargesStay
<1>6. ChargeSays(c)' /\ Made(c)' /\ ChargeSays(c)
  BY <1>2, <1>3, <1>5 DEF Made, GatewayInv
<1>7. n \in Notifications \cup {<<>>}
  OBVIOUS
<1>8. /\ RequestMoves(w) /\ request'[w].pc \in {"fetch", "apply"}
  <2>1. CASE n[2] = "payment"
    <3>1. request' = [request EXCEPT ![w] = applying("fetch", c, charge[c].status, n)]
      BY <1>1, <2>1 DEF ReceiveWebhook
    <3>2. charge[c].status \in StatusesOf(charge'[c].provider)
      BY <1>2, <1>3, <1>6 DEF ChargeSays
    <3>3. \A d \in Charges : n = <<d, "succeeded">> =>
             d = c /\ charge[c].status = "succeeded" /\ "fetch" # "fetch"
             /\ charge'[c].provider = "STRIPE"
      BY <1>3, <2>1
    <3>4. RequestSays(w)'
      BY <1>2, <1>3, <1>6, <1>7, <3>1, <3>2, <3>3, ApplyingSays
    <3> QED
      BY <1>2, <3>1, <3>4, ApplyingRow DEF RequestMoves
  <2>2. CASE n[2] # "payment"
    <3>1. request' = [request EXCEPT ![w] = applying("apply", c, n[2], n)]
      BY <1>1, <2>2 DEF ReceiveWebhook
    <3>2. /\ charge'[c].provider = "STRIPE"
          /\ n[2] \in StatusesOf(charge'[c].provider)
      BY <1>2, <1>3, <2>2 DEF StatusesOf, StripeStatuses, mapStripeStatus
    <3>3. \A d \in Charges : n = <<d, "succeeded">> =>
             d = c /\ n[2] = "succeeded" /\ "apply" # "fetch"
             /\ charge'[c].provider = "STRIPE"
      BY <1>3, <3>2
    <3>4. RequestSays(w)'
      BY <1>2, <1>3, <1>6, <1>7, <3>1, <3>2, <3>3, ApplyingSays
    <3> QED
      BY <1>2, <3>1, <3>4, ApplyingRow DEF RequestMoves
  <2> QED
    BY <2>1, <2>2
<1>9. RequestsSay'
  BY <1>4, <1>8, AccountsForNothing, RequestsGoOn
<1>10. webhook' \in [Notifications -> {"none", "received", "processed", "error"}]
  BY <1>2 DEF GatewayInv
<1>11. EventsAccounted'
  <2>1. \A d \in Charges : webhook'[<<d, "succeeded">>] = "processed"
                             => webhook[<<d, "succeeded">>] = "processed"
    BY <1>2, NotificationsAre DEF GatewayInv
  <2> QED
    BY <1>4, <2>1, AccountedStays DEF AccountInv, EventsAccounted, ChargesGoOn
<1>12. EventsSent'
  BY <1>2 DEF AccountInv, EventsSent, Made
<1> QED
  BY <1>2, <1>4, <1>5, <1>9, <1>10, <1>11, <1>12, ShopRests, RefundsRest, Assembled DEF GatewayGoesOn

LEMMA FinishStep ==
    ASSUME GatewayInv, AccountInv, NEW w \in Workers, Finish(w)
    PROVE  GatewayGoesOn
<1> DEFINE r == request[w]
           n == r.notification
<1>1. /\ UNCHANGED vars /\ charge' = charge /\ notified' = notified /\ Respond(w)
      /\ r.pc \in {"processed", "failed"} /\ r.pc \in ApplyPcs
  BY DEF Finish, ApplyPcs
<1>2. PICK s \in {"processed", "error"} :
         /\ webhook' = IF n = <<>> THEN webhook ELSE [webhook EXCEPT ![n] = s]
         /\ s = "processed" => r.pc = "processed"
  BY DEF Finish, At
<1>3. ChargesGoOn
  BY <1>1, NothingCharged
<1>4. RequestsSay'
  <2>1. RequestMoves(w) /\ request'[w].pc = "idle"
    BY <1>1, RespondMoves DEF Idle
  <2> QED
    BY <1>3, <2>1, AccountsForNothing, RequestsGoOn
<1>5. webhook' \in [Notifications -> {"none", "received", "processed", "error"}]
  BY <1>2 DEF GatewayInv
<1>6. ASSUME NEW c \in Charges, webhook'[<<c, "succeeded">>] = "processed"
      PROVE  Made(c) /\ Accounted(c)
  <2>1. CASE webhook[<<c, "succeeded">>] = "processed"
    BY <2>1 DEF AccountInv, EventsAccounted
  <2>2. CASE webhook[<<c, "succeeded">>] # "processed"
    <3>1. n = <<c, "succeeded">> /\ s = "processed"
      BY <1>2, <1>6, <2>2, NotificationsAre DEF GatewayInv
    <3>2. /\ r.charge = c /\ Made(c) /\ charge[c].provider = "STRIPE"
          /\ r.status = "APPROVED"
      BY <1>1, <3>1 DEF GatewayInv, RequestSays
    <3> QED
      BY <1>2, <3>1, <3>2 DEF AccountInv, RequestAccounts
  <2> QED
    BY <2>1, <2>2
<1>7. EventsAccounted'
  BY <1>3, <1>6, AccountedStays DEF EventsAccounted, ChargesGoOn
<1>8. EventsSent'
  BY <1>1 DEF AccountInv, EventsSent, Made
<1> QED
  BY <1>1, <1>3, <1>4, <1>5, <1>7, <1>8, ChargesStay, ShopRests, RefundsRest, Assembled
     DEF GatewayGoesOn

LEMMA ApprovalsStay ==
    ASSUME NEW o \in Orders, SaleSays(o), Untouched(o) \/ Changed(o)
    PROVE  ApprovalsGoOn(o)
<1>1. CASE Confirmed(o)
  BY <1>1 DEF ApprovalsGoOn, SaleSays, Confirmed
<1> QED
  BY <1>1 DEF Untouched, Changed, Placed, Rewritten, Sold, Closed, LineExpired, ApprovalsGoOn

LEMMA ShopStep ==
    ASSUME GatewayInv, AccountInv, [Next]_vars, UNCHANGED gatewayVars
    PROVE  GatewayGoesOn
<1>1. /\ TypeOK /\ TypeOK' /\ charge' = charge /\ notified' = notified
      /\ webhook' = webhook /\ request' = request
  BY TypeNext DEF GatewayInv, gatewayVars
<1>2. \A o \in Orders : SaleSays(o) /\ (Untouched(o) \/ Changed(o))
  BY <1>1, StepShape DEF GatewayInv
<1>3. \A o \in Orders : /\ SaleSays(o)' /\ AttemptsGoOn(o) /\ NoneRefunded(o)
                        /\ ApprovalsGoOn(o)
  BY <1>1, <1>2, ShopSales, ShopAttempts, ApprovalsStay
<1>4. ChargesGoOn
  BY <1>1, <1>3 DEF ChargesGoOn, Made
<1>5. \A o \in Orders : RefundSays(o)'
  BY <1>3, <1>4, RefundsStay DEF NoneRefunded
<1> QED
  BY <1>1, <1>3, <1>4, <1>5, RequestsStay, ShopMoves DEF GatewayGoesOn
-----------------------------------------------------------------------------
(* The specification.                                                      *)

LEMMA GatewayInitially == GatewayInit => GatewayInv /\ AccountInv
<1> SUFFICES ASSUME GatewayInit PROVE GatewayInv /\ AccountInv
  OBVIOUS
<1>1. TypeOK
  BY TypeInit DEF GatewayInit
<1>2. /\ \A o \in Orders : payments[o] = <<>> /\ approvals[o] = 0
                           /\ order[o].paymentStatus # "APPROVED"
      /\ \A o \in Orders, v \in Variants : reservation[o][v].status = "NONE"
  BY DEF GatewayInit, Init, NoOrder, NoReservation
<1>3. \A c \in Charges : ~Made(c)
  BY DEF GatewayInit, Made
<1>4. \A o \in Orders : SaleSays(o) /\ ChoicesSay(o) /\ RefundSays(o)
  BY <1>2 DEF SaleSays, IsSold, ActiveItems, ChoicesSay, RefundSays
<1>5. \A w \in Workers : RequestSays(w) /\ RequestAccounts(w)
  BY DEF GatewayInit, RequestSays, RequestAccounts, Idle, CardPcs, ApplyPcs
<1>6. /\ charge \in [Charges -> ChargeRow \cup {NoCharge}] /\ notified = {}
      /\ webhook \in [Notifications -> {"none", "received", "processed", "error"}]
      /\ \A c \in Charges : webhook[<<c, "succeeded">>] = "none"
      /\ DOMAIN request = Workers
  BY NotificationsAre DEF GatewayInit
<1>7. GatewayInv
  BY <1>1, <1>3, <1>4, <1>5, <1>6 DEF GatewayInv, ChargeSays
<1>8. AccountInv
  BY <1>3, <1>4, <1>5, <1>6 DEF AccountInv, EventsSent, EventsAccounted, OneIntentEach
<1> QED
  BY <1>7, <1>8

LEMMA GatewayContinues ==
    ASSUME GatewayInv, AccountInv, [GatewayNext]_allVars
    PROVE  GatewayGoesOn
<1>1. CASE UNCHANGED allVars
  BY <1>1, ShopStep DEF allVars
<1>2. CASE Next /\ UNCHANGED gatewayVars
  BY <1>2, ShopStep
<1>3. CASE \E c \in Charges : Settle(c)
  BY <1>3, SettleStep
<1>4. CASE \E o \in Orders, i \in 1..MaxAttempts, c \in Charges,
              status \in {"pending", "approved", "rejected"} : PayLink(o, i, c, status)
  BY <1>4, PayLinkStep
<1>5. CASE \E w \in Workers, o \in Orders : BeginPreference(w, o)
  BY <1>5, BeginPreferenceStep
<1>6. CASE \E w \in Workers, o \in Orders,
              choice \in {"CARD_STRIPE", "CARD_MERCADO_PAGO"} : BeginCard(w, o, choice)
  BY <1>6, BeginCardStep DEF CardPcs
<1>7. CASE \E w \in Workers, c \in Charges : SyncStripe(w, c)
  BY <1>7, SyncStripeStep
<1>8. CASE \E w \in Workers, n \in Notifications : ReceiveWebhook(w, n)
  BY <1>8, ReceiveWebhookStep
<1>9. ASSUME NEW w \in Workers, Step(w) PROVE GatewayGoesOn
  <2>1. CASE \E c \in Charges : CreateIntent(w, c)
    BY <2>1, CreateIntentStep
  <2>2. CASE \E c \in Charges, status \in {"in_process", "approved", "rejected"} :
                ChargeCard(w, c, status)
    BY <2>2, ChargeCardStep
  <2>3. CASE SaveStarted(w)
    BY <2>3, SaveStartedStep
  <2>4. CASE Fetch(w)
    BY <2>4, FetchStep
  <2>5. CASE ReadOrder(w)
    BY <2>5, ReadOrderStep
  <2>6. CASE ReadState(w)
    BY <2>6, ReadStateStep
  <2>7. CASE CountReservations(w)
    BY <2>7, CountStep
  <2>8. CASE RereadState(w)
    BY <2>8, RereadStateStep
  <2>9. CASE Transact(w)
    BY <2>9, TransactStep
  <2>10. CASE Throw(w)
    BY <2>10, ThrowStep
  <2>11. CASE ReadLatest(w)
    BY <2>11, ReadLatestStep
  <2>12. CASE RecordSuperseded(w)
    BY <2>12, RecordSupersededStep
  <2>13. CASE ReadRefund(w)
    BY <2>13, ReadRefundStep
  <2>14. CASE CallRefund(w)
    BY <2>14, CallRefundStep
  <2>15. CASE MarkRefunded(w)
    BY <2>15, MarkRefundedStep
  <2>16. CASE Refused(w)
    BY <2>16, RefusedStep
  <2>17. CASE Finish(w)
    BY <2>17, FinishStep
  <2> QED
    BY <1>9, <2>1, <2>2, <2>3, <2>4, <2>5, <2>6, <2>7, <2>8, <2>9, <2>10, <2>11, <2>12,
       <2>13, <2>14, <2>15, <2>16, <2>17 DEF Step
<1>10. CASE \E w \in Workers : Crash(w)
  BY <1>10, CrashStep
<1> QED
  BY <1>1, <1>2, <1>3, <1>4, <1>5, <1>6, <1>7, <1>8, <1>9, <1>10 DEF GatewayNext

LEMMA GatewayKeeps ==
    GatewayInv /\ AccountInv /\ [GatewayNext]_allVars => GatewayInv' /\ AccountInv'
BY GatewayContinues DEF GatewayGoesOn

\* However often browsers and webhooks report the same payment, and whatever a
\* refund wrote in between, an order is sold and announced at most once.
THEOREM PaymentsSellOnce == GatewaySpec => []SoldOnce
<1>1. GatewayInv => SoldOnce
  BY DEF GatewayInv, SaleSays, IsSold, SoldOnce
<1> QED
  BY <1>1, GatewayInitially, GatewayKeeps, PTL DEF GatewaySpec

LEMMA StripeMoneyAccounted ==
    ASSUME GatewayInv, AccountInv PROVE StripeMoneyIsAccounted
<1> SUFFICES ASSUME NEW c \in Charges, charge[c].provider = "STRIPE", Kept(c)
             PROVE  Pending(c) \/ approvals[charge[c].order] = 1
  BY DEF StripeMoneyIsAccounted
<1>1. charge[c].status = "succeeded" /\ Made(c)
  BY MappedType DEF GatewayInv, ChargeSays, Kept
<1>2. <<c, "succeeded">> \in notified
  BY <1>1 DEF AccountInv, EventsSent
<1>3. CASE webhook[<<c, "succeeded">>] = "processed"
  BY <1>3 DEF AccountInv, EventsAccounted, Accounted, Kept
<1>4. CASE webhook[<<c, "succeeded">>] # "processed"
  BY <1>2, <1>4 DEF Pending
<1> QED
  BY <1>3, <1>4

\* Money that Stripe took is accounted for: its order was sold, or the event that
\* says so is still to be delivered or has no successful end; in every shop, also
\* where links and cards of Mercado Pago are used.
THEOREM StripeForgetsNothing == GatewaySpec => []StripeMoneyIsAccounted
BY StripeMoneyAccounted, GatewayInitially, GatewayKeeps, PTL DEF GatewaySpec

\* Where cards are Stripe's, no charge is forgotten.
THEOREM NothingIsForgotten ==
    ASSUME Choices \cap {"PAYMENT_LINK", "CARD_MERCADO_PAGO"} = {}
    PROVE  GatewaySpec => []NoChargeIsForgotten
<1>1. ASSUME GatewayInv, AccountInv PROVE NoChargeIsForgotten
  <2> SUFFICES ASSUME NEW c \in Charges, Kept(c)
               PROVE  Pending(c) \/ approvals[charge[c].order] = 1
    BY DEF NoChargeIsForgotten
  <2>1. /\ charge[c].provider \in {"STRIPE", "MERCADO_PAGO"}
        /\ charge[c].order \in Orders
        /\ charge[c].attempt \in DOMAIN payments[charge[c].order]
        /\ charge[c].provider =
              ProviderOf(payments[charge[c].order][charge[c].attempt].choice)
    BY <1>1 DEF GatewayInv, ChargeSays, ChargeRow, Kept
  <2>2. payments[charge[c].order][charge[c].attempt].choice \in Choices
    BY <1>1, <2>1 DEF GatewayInv, ChoicesSay
  <2>3. charge[c].provider = "STRIPE"
    BY <2>1, <2>2 DEF ProviderOf
  <2> QED
    BY <1>1, <2>3, StripeMoneyAccounted DEF StripeMoneyIsAccounted
<1> QED
  BY <1>1, GatewayInitially, GatewayKeeps, PTL DEF GatewaySpec
-----------------------------------------------------------------------------
(* What requests do to the shop: they sell an order, or record a payment.  *)

PaymentSells ==
    \E o \in Orders, i \in Nat, attempts \in Seq(Attempt) :
        ConfirmOrderPayment(o, i, attempts) /\ UNCHANGED promotion
PaymentIsRecorded ==
    /\ UNCHANGED <<stock, reservation>>
    /\ \A p \in Orders : /\ order'[p].items = order[p].items
                         /\ order'[p].status = order[p].status
                         /\ order[p].paymentStatus = "APPROVED"
                               => order'[p].paymentStatus \in {"APPROVED", "REFUNDED"}

LEMMA GatewayShape ==
    ASSUME GatewayInv, [GatewayNext]_allVars
    PROVE  [Next]_vars \/ PaymentSells \/ PaymentIsRecorded
<1>1. ASSUME NEW w \in Workers, SaveStarted(w) PROVE PaymentIsRecorded
  BY <1>1 DEF SaveStarted, PaymentIsRecorded
<1>2. ASSUME NEW w \in Workers, RecordSuperseded(w) PROVE PaymentIsRecorded
  BY <1>2 DEF RecordSuperseded, PaymentIsRecorded
<1>3. ASSUME NEW w \in Workers, MarkRefunded(w) PROVE PaymentIsRecorded
  <2>1. /\ UNCHANGED <<stock, reservation>> /\ request[w].pc \in ApplyPcs
        /\ order' = order \/ order' = PaymentStatusTo(request[w].order, "REFUNDED")
    BY <1>3 DEF MarkRefunded, PaymentStatusTo, At, ApplyPcs
  <2>2. request[w].order \in Orders /\ "REFUNDED" \in PaymentStatuses
    BY <2>1, AboutCharge DEF PaymentStatuses
  <2>3. CASE order' = order
    BY <2>1, <2>3 DEF PaymentIsRecorded
  <2>4. CASE order' = PaymentStatusTo(request[w].order, "REFUNDED")
    BY <2>1, <2>2, <2>4, PaymentStatusOrders DEF PaymentIsRecorded, GatewayInv
  <2> QED
    BY <2>1, <2>3, <2>4
<1>4. ASSUME NEW w \in Workers, Transact(w)
      PROVE  UNCHANGED vars \/ PaymentSells \/ PaymentIsRecorded
  <2> DEFINE o == request[w].order
             i == request[w].attempt
             s == request[w].status
  <2>1. request[w].pc \in ApplyPcs
    BY <1>4 DEF Transact, At, ApplyPcs
  <2>2. /\ o \in Orders /\ s \in PaymentStatuses /\ i \in Nat
        /\ Written(o, i, s)[o] \in Seq(Attempt)
    BY <2>1, AboutCharge, ApplyRows, WrittenRows DEF GatewayInv, ApplyRow
  <2>3. CASE ConfirmOrderPayment(o, i, Written(o, i, s)[o]) /\ UNCHANGED promotion
    BY <2>2, <2>3 DEF PaymentSells
  <2>4. CASE /\ order' = PaymentStatusTo(o, statusAfter(o, s))
             /\ UNCHANGED <<stock, reservation>>
    <3>1. /\ statusAfter(o, s) \in PaymentStatuses
          /\ order[o].paymentStatus = "APPROVED" => statusAfter(o, s) = "APPROVED"
      BY <2>2 DEF statusAfter, PaymentStatuses
    <3> QED
      BY <2>2, <2>4, <3>1, PaymentStatusOrders DEF PaymentIsRecorded, GatewayInv
  <2> QED
    BY <1>4, <2>3, <2>4 DEF Transact, Written, PaymentStatusTo
<1>5. ASSUME NEW w \in Workers, Step(w)
      PROVE  UNCHANGED vars \/ PaymentSells \/ PaymentIsRecorded
  <2>1. CASE SaveStarted(w) \/ RecordSuperseded(w) \/ MarkRefunded(w) \/ Transact(w)
    BY <1>1, <1>2, <1>3, <1>4, <2>1
  <2>2. CASE \/ \E c \in Charges : CreateIntent(w, c)
             \/ \E c \in Charges, status \in {"in_process", "approved", "rejected"} :
                   ChargeCard(w, c, status)
    BY <2>2 DEF CreateIntent, ChargeCard
  <2>3. CASE \/ Fetch(w) \/ ReadOrder(w) \/ ReadState(w) \/ CountReservations(w)
             \/ RereadState(w) \/ Throw(w) \/ ReadLatest(w) \/ ReadRefund(w)
             \/ CallRefund(w) \/ Refused(w) \/ Finish(w)
    BY <2>3 DEF Fetch, ReadOrder, ReadState, CountReservations, RereadState, Throw,
                ReadLatest, ReadRefund, CallRefund, Refused, Finish
  <2> QED
    BY <1>5, <2>1, <2>2, <2>3 DEF Step
<1>6. ASSUME GatewayNext, ~(\E w \in Workers : Step(w)) PROVE [Next]_vars
  BY <1>6 DEF GatewayNext, Settle, PayLink, BeginPreference, BeginCard, SyncStripe,
              ReceiveWebhook, Crash
<1>7. CASE UNCHANGED allVars
  BY <1>7 DEF allVars
<1> QED
  BY <1>5, <1>6, <1>7

\* A paid order stays paid or is refunded, whatever older events arrive late.
THEOREM PaidOrdersStayPaid == GatewaySpec => PaidStaysPaid
<1>1. ASSUME GatewayInv, [GatewayNext]_allVars PROVE StaysPaid
  <2>1. TypeOK /\ \A o \in Orders : SaleSays(o)
    BY <1>1 DEF GatewayInv
  <2> SUFFICES ASSUME NEW o \in Orders, order[o].paymentStatus = "APPROVED"
               PROVE  order'[o].paymentStatus \in {"APPROVED", "REFUNDED"}
    BY DEF StaysPaid
  <2>2. CASE [Next]_vars
    <3>1. order[o].status # "NONE"
      BY <2>1 DEF SaleSays
    <3>2. Untouched(o) \/ Changed(o)
      BY <2>1, <2>2, StepShape
    <3> QED
      BY <3>1, <3>2 DEF Untouched, Changed, Placed, Rewritten, Sold, Confirmed, Closed,
                        LineExpired
  <2>3. CASE PaymentSells
    <3>1. \E p \in Orders : Confirmed(p) /\ \A q \in Orders \ {p} : Untouched(q)
      BY <2>1, <2>3, ConfirmShape DEF PaymentSells
    <3> QED
      BY <3>1 DEF Confirmed, Untouched
  <2>4. CASE PaymentIsRecorded
    BY <2>4 DEF PaymentIsRecorded
  <2> QED
    BY <1>1, <2>2, <2>3, <2>4, GatewayShape
<1> QED
  BY <1>1, GatewayInitially, GatewayKeeps, PTL DEF GatewaySpec, PaidStaysPaid
-----------------------------------------------------------------------------
(* Stock, when requests sell while the shop goes on.                       *)

LEMMA RecordedHolds ==
    ASSUME PaymentIsRecorded
    PROVE  /\ \A v \in Variants : Holds(v)' = Holds(v)
           /\ \A p \in Orders : /\ ActiveItems(p)' = ActiveItems(p)
                                /\ order'[p].status = order[p].status
           /\ UNCHANGED stock
BY DEF PaymentIsRecorded, Holds, ActiveItems

LEMMA GatewayStock ==
    ASSUME GatewayInv, StockInv, [GatewayNext]_allVars, GatewayInv'
    PROVE  StockInv'
<1>1. TypeOK /\ TypeOK'
  BY DEF GatewayInv
<1>2. CASE [Next]_vars
  BY <1>2, StockNext
<1>3. CASE PaymentSells
  <2>1. PICK o \in Orders, i \in Nat, attempts \in Seq(Attempt) :
           ConfirmOrderPayment(o, i, attempts)
    BY <1>3 DEF PaymentSells
  <2>2. /\ StockBalanced' /\ ReservedIsHeld'
        /\ \A p \in Orders : ActiveItems(p)' \subseteq ActiveItems(p)
    BY <1>1, <2>1, ConfirmKeepsStock
  <2>3. \A p \in Orders : order'[p].status = "NONE" => order[p].status = "NONE"
    BY <1>1, <2>1, ConfirmKeepsPlaced
  <2>4. UnplacedHoldsNothing'
    BY <2>2, <2>3 DEF StockInv, UnplacedHoldsNothing
  <2> QED
    BY <1>1, <2>2, <2>4 DEF StockInv
<1>4. CASE PaymentIsRecorded
  <2>1. UnplacedHoldsNothing'
    BY <1>4, RecordedHolds DEF StockInv, UnplacedHoldsNothing
  <2> QED
    BY <1>1, <1>4, <2>1, RecordedHolds, StockUntouched DEF StockInv
<1> QED
  BY <1>2, <1>3, <1>4, GatewayShape

\* Nothing is oversold while payments of any kind come in.
LEMMA StockInitially == GatewayInit => StockInv
BY StockInit DEF GatewayInit

THEOREM PaymentsOversellNothing == GatewaySpec => [](StockBalanced /\ ReservedIsHeld)
<1>1. StockInv => StockBalanced /\ ReservedIsHeld
  BY DEF StockInv
<1>2. GatewayInv /\ AccountInv /\ StockInv /\ [GatewayNext]_allVars
        => GatewayInv' /\ AccountInv' /\ StockInv'
  BY GatewayKeeps, GatewayStock
<1> QED
  BY <1>1, <1>2, GatewayInitially, StockInitially, PTL DEF GatewaySpec

LEMMA GatewayLedgerStep ==
    GatewayInv /\ StockInv /\ [GatewayNext]_allVars /\ GatewayInv'
        => [Ledger!LedgerNext]_(Ledger!ledgerVars)
<1> SUFFICES ASSUME GatewayInv, StockInv, [GatewayNext]_allVars, GatewayInv'
             PROVE  [Ledger!LedgerNext]_(Ledger!ledgerVars)
  OBVIOUS
<1>1. TypeOK'
  BY DEF GatewayInv
<1>2. CASE [Next]_vars
  BY <1>2, LedgerStep
<1>3. CASE PaymentSells
  <2>1. \E o \in Orders : Ledger!Sell(o)
    BY <1>1, <1>3, SellStep DEF PaymentSells
  <2> QED
    BY <2>1 DEF Ledger!LedgerNext
<1>4. CASE PaymentIsRecorded
  <2>1. UNCHANGED onHand /\ \A v \in Variants : Holds(v)' = Holds(v)
    BY <1>4, RecordedHolds DEF stock
  <2>2. \A o \in Orders, v \in Variants : /\ LedgerHold[o][v] = Holds(v)[o]
                                          /\ LedgerHold'[o][v] = Holds(v)'[o]
    BY DEF LedgerHold, Holds
  <2>3. LedgerHold' = LedgerHold
    BY <2>1, <2>2 DEF LedgerHold
  <2> QED
    BY <2>1, <2>3 DEF Ledger!ledgerVars, LedgerHold
<1> QED
  BY <1>2, <1>3, <1>4, GatewayShape

\* The shop with its payment gateways implements the stock ledger: baskets are
\* reserved whole, and units leave only when their order is paid or on a recount.
THEOREM GatewayImplementsLedger == GatewaySpec => LedgerSpec
<1>1. GatewayInit => Ledger!LedgerInit
  BY LedgerInitially DEF GatewayInit
<1>2. GatewayInv /\ AccountInv /\ StockInv /\ [GatewayNext]_allVars
        => GatewayInv' /\ AccountInv' /\ StockInv'
  BY GatewayKeeps, GatewayStock
<1> QED
  BY <1>1, <1>2, GatewayLedgerStep, GatewayInitially, StockInitially, PTL
     DEF GatewaySpec, LedgerSpec, Ledger!LedgerSpec
-----------------------------------------------------------------------------
(* The movements, when requests sell while the shop goes on.               *)

LEMMA GatewayTrail ==
    ASSUME GatewayInv, AuditTrail, [GatewayNext]_allVars
    PROVE  AuditTrail'
<1>1. TypeOK
  BY DEF GatewayInv
<1>2. CASE [Next]_vars
  BY <1>1, <1>2, TrailNext
<1>3. CASE PaymentSells
  BY <1>1, <1>3, ConfirmKeepsTrail DEF PaymentSells
<1>4. CASE PaymentIsRecorded
  BY <1>4 DEF PaymentIsRecorded, AuditTrail, stock
<1> QED
  BY <1>2, <1>3, <1>4, GatewayShape

LEMMA TrailInitially == GatewayInit => AuditTrail
BY TrailInit DEF GatewayInit

\* The movements explain the counters while payments of any kind come in.
THEOREM PaymentsLeaveATrail == GatewaySpec => []AuditTrail
<1>1. GatewayInv /\ AccountInv /\ AuditTrail /\ [GatewayNext]_allVars
        => GatewayInv' /\ AccountInv' /\ AuditTrail'
  BY GatewayKeeps, GatewayTrail
<1> QED
  BY <1>1, GatewayInitially, TrailInitially, PTL DEF GatewaySpec
-----------------------------------------------------------------------------
(* The attempts of an order, whoever writes them.                          *)

\* At most one attempt can be collected, it asks for the order's total, and as
\* long as the customer may still change the order it was neither taken nor is it
\* being processed.
LiveSays(o) ==
    /\ \A i, j \in Live(o) : i = j
    /\ \A i \in Live(o) : payments[o][i].amount = order[o].shipping
    /\ order[o].status = "PENDING_PAYMENT" /\ order[o].paymentStatus \notin ImmutableStatuses
          => \A i \in Live(o) : payments[o][i].status \in {"PENDING", "REJECTED"}

\* What a step leaves of the attempts of an order: no attempt is revived, none is
\* forgotten to be started, and a new total is never that of a started attempt.
LiveGoesOn(o) ==
    /\ \A i \in DOMAIN payments[o] :
          /\ payments[o][i].started => payments'[o][i].started
          /\ i \in Live(o)' => /\ i \in Live(o)
                               /\ payments[o][i].started
                                     => order'[o].shipping = order[o].shipping
    /\ LiveSays(o)'

Sells(w, o, i) ==
    /\ At(w, "transact") /\ request[w].status = "APPROVED"
    /\ request[w].order = o /\ request[w].attempt = i /\ i \in Live(o)
    /\ order'[o].shipping = order[o].shipping

\* An order that is paid after a step was paid before it, by one of the same
\* attempts and for the same total, or it is paid in cash, or by a request that
\* applies an approved charge of the attempt.
PaidGoesOn(o) ==
    order'[o].paymentStatus = "APPROVED" => \A i \in Live(o)' :
        \/ /\ i \in Live(o) /\ order[o].paymentStatus = "APPROVED"
           /\ order'[o].shipping = order[o].shipping
        \/ payments'[o][i].choice = "CASH"
        \/ \E w \in Workers : Sells(w, o, i)


\* A change that pays nothing and revives nothing.
LEMMA LiveShrinks ==
    ASSUME NEW o \in Orders, LiveSays(o),
           DOMAIN payments'[o] = DOMAIN payments[o],
           \A i \in DOMAIN payments[o] :
              /\ \/ payments'[o][i].status = payments[o][i].status
                 \/ payments'[o][i].status \in SupersededStatuses
              /\ payments'[o][i].amount = payments[o][i].amount
              /\ payments[o][i].started => payments'[o][i].started,
           order'[o].shipping = order[o].shipping,
           order'[o].status = "PENDING_PAYMENT" /\ order'[o].paymentStatus \notin ImmutableStatuses
             => order[o].status = "PENDING_PAYMENT" /\ order[o].paymentStatus \notin ImmutableStatuses
    PROVE  LiveGoesOn(o) /\ Live(o)' \subseteq Live(o)
<1>1. Live(o)' \subseteq Live(o)
  BY DEF Live, SupersededStatuses
<1>2. \A i, j \in Live(o)' : i = j
  BY <1>1 DEF LiveSays
<1>3. \A i \in Live(o)' : payments'[o][i].amount = order'[o].shipping
  BY <1>1 DEF LiveSays, Live
<1>4. \A i \in Live(o)' : payments'[o][i].status = payments[o][i].status
  BY DEF Live
<1>5. LiveSays(o)'
  BY <1>1, <1>2, <1>3, <1>4 DEF LiveSays
<1> QED
  BY <1>1, <1>5 DEF LiveGoesOn

\* The columns of the attempts some of which are cancelled.
LEMMA CancelledStarted ==
    ASSUME TypeOK, NEW o \in Orders, NEW statuses
    PROVE  \A i \in DOMAIN payments[o] :
              CancelAttempts(o, statuses)[o][i].started = payments[o][i].started
<1> DEFINE s == payments[o]
           t == [i \in DOMAIN s |-> IF s[i].status \in statuses
                                    THEN [s[i] EXCEPT !.status = "CANCELLED"] ELSE s[i]]
<1>1. CancelAttempts(o, statuses)[o] = t
  BY DEF CancelAttempts, TypeOK
<1>2. ASSUME NEW i \in DOMAIN s PROVE t[i].started = s[i].started
  <2>1. s[i] \in Attempt
    BY DEF TypeOK
  <2>2. [s[i] EXCEPT !.status = "CANCELLED"].started = s[i].started
    BY <2>1 DEF Attempt
  <2>3. CASE s[i].status \in statuses
    BY <2>2, <2>3
  <2>4. CASE s[i].status \notin statuses
    BY <2>4
  <2> QED
    BY <2>3, <2>4
<1> HIDE DEF t
<1> QED
  BY <1>1, <1>2

LEMMA LiveCancelled ==
    ASSUME TypeOK, NEW o \in Orders, LiveSays(o), NEW statuses,
           payments'[o] = CancelAttempts(o, statuses)[o],
           order'[o].shipping = order[o].shipping,
           order'[o].status = "PENDING_PAYMENT" /\ order'[o].paymentStatus \notin ImmutableStatuses
             => order[o].status = "PENDING_PAYMENT" /\ order[o].paymentStatus \notin ImmutableStatuses
    PROVE  LiveGoesOn(o) /\ Live(o)' \subseteq Live(o)
BY CancelledRows, CancelledStarted, LiveShrinks DEF SupersededStatuses

LEMMA AppendedRow ==
    ASSUME NEW rows \in Seq(Attempt), NEW row \in Attempt
    PROVE  /\ DOMAIN Append(rows, row) = 1..(Len(rows) + 1)
           /\ Append(rows, row)[Len(rows) + 1] = row
           /\ \A i \in 1..Len(rows) : Append(rows, row)[i] = rows[i]
OBVIOUS

LEMMA LiveReplaced ==
    ASSUME TypeOK, TypeOK', NEW o \in Orders, LiveSays(o),
           order[o].status = "PENDING_PAYMENT", order[o].paymentStatus \notin ImmutableStatuses,
           NEW choice \in Choices, NEW amount, amount = order'[o].shipping,
           payments'[o] = Append(CancelAttempts(o, {"PENDING", "REJECTED"})[o],
                                 newAttempt(choice, amount))
    PROVE  LiveGoesOn(o)
<1> DEFINE c == CancelAttempts(o, {"PENDING", "REJECTED"})[o]
           new == newAttempt(choice, amount)
           n == Len(c)
<1>1. c \in Seq(Attempt) /\ n \in Nat /\ DOMAIN c = 1..n
  BY CancelAttemptsType DEF TypeOK
<1>2. amount \in Nat
  BY DEF TypeOK, OrderRow
<1>3. new \in Attempt /\ new.status = "PENDING" /\ new.amount = amount
  BY <1>2, NewAttemptType DEF newAttempt
<1>4. DOMAIN payments[o] = 1..n
  BY <1>1, CancelledRows
<1>5. ASSUME NEW i \in 1..n
      PROVE  c[i].status \in SupersededStatuses /\ c[i].started = payments[o][i].started
  <2>1. i \in DOMAIN payments[o]
    BY <1>4
  <2>2. CASE i \in Live(o)
    <3>1. payments[o][i].status \in {"PENDING", "REJECTED"}
      BY <2>2 DEF LiveSays
    <3> QED
      BY <2>1, <3>1, CancelledRows, CancelledStarted DEF SupersededStatuses
  <2>3. CASE i \notin Live(o)
    <3>1. payments[o][i].status \in SupersededStatuses
      BY <2>1, <2>3 DEF Live
    <3> QED
      BY <2>1, <3>1, CancelledRows, CancelledStarted DEF SupersededStatuses
  <2> QED
    BY <2>2, <2>3
<1> HIDE DEF c, new
<1>6. payments'[o] = Append(c, new)
  BY DEF c, new
<1>7. /\ DOMAIN payments'[o] = 1..(n + 1) /\ payments'[o][n + 1] = new
      /\ \A i \in 1..n : payments'[o][i] = c[i]
  BY <1>1, <1>3, <1>6, AppendedRow
<1>8. Live(o)' = {n + 1}
  BY <1>1, <1>3, <1>5, <1>7 DEF Live, SupersededStatuses
<1>9. LiveSays(o)'
  BY <1>3, <1>7, <1>8 DEF LiveSays
<1> QED
  BY <1>1, <1>4, <1>5, <1>7, <1>8, <1>9 DEF LiveGoesOn

LEMMA LiveQuoted ==
    ASSUME TypeOK, NEW o \in Orders, LiveSays(o), Live(o) # {},
           order[o].status = "PENDING_PAYMENT", order[o].paymentStatus \notin ImmutableStatuses,
           ~payments[o][Newest(Live(o))].started, NEW amount, amount = order'[o].shipping,
           payments'[o] = [payments[o] EXCEPT ![Newest(Live(o))].amount = amount]
    PROVE  LiveGoesOn(o)
<1> DEFINE k == Newest(Live(o))
           s == payments[o]
           row == [s[k] EXCEPT !.amount = amount]
<1>1. s \in Seq(Attempt) /\ Len(s) \in Nat /\ DOMAIN s = 1..Len(s)
  BY DEF TypeOK
<1>2. Live(o) \in SUBSET (1..Len(s))
  BY <1>1 DEF Live
<1>3. k \in Live(o) /\ k \in DOMAIN s
  BY <1>1, <1>2, NewestIsGreatest
<1>4. s[k] \in Attempt
  BY <1>1, <1>3
<1>5. payments'[o] = [s EXCEPT ![k] = row]
  OBVIOUS
<1>6. row.status = s[k].status /\ row.amount = amount /\ row.started = s[k].started
  BY <1>4 DEF Attempt
<1> HIDE DEF k, s, row
<1>7. /\ DOMAIN payments'[o] = DOMAIN s /\ payments'[o][k].amount = amount
      /\ \A i \in DOMAIN s : /\ payments'[o][i].status = s[i].status
                             /\ payments'[o][i].started = s[i].started
  BY <1>3, <1>5, <1>6
<1>8. Live(o)' = Live(o)
  BY <1>7 DEF Live, s
<1>9. \A i \in Live(o) : i = k
  BY <1>3 DEF LiveSays
<1>10. LiveSays(o)'
  <2>1. \A i \in Live(o)' : payments'[o][i].amount = order'[o].shipping
    BY <1>7, <1>8, <1>9
  <2>2. \A i \in Live(o)' : payments'[o][i].status \in {"PENDING", "REJECTED"}
    BY <1>7, <1>8 DEF LiveSays, Live, s
  <2> QED
    BY <1>8, <2>1, <2>2 DEF LiveSays
<1> QED
  BY <1>7, <1>8, <1>9, <1>10 DEF LiveGoesOn, k, s

\* A payment approves the one attempt that can be collected.
LEMMA LiveApproved ==
    ASSUME TypeOK, NEW o \in Orders, LiveSays(o), NEW k \in Live(o),
           order'[o].status = "CONFIRMED", order'[o].shipping = order[o].shipping,
           payments'[o] = [payments[o] EXCEPT ![k].status = "APPROVED"]
    PROVE  /\ LiveGoesOn(o)
           /\ \A i \in Live(o)' : payments'[o][i].choice = payments[o][k].choice
<1> DEFINE s == payments[o]
           row == [s[k] EXCEPT !.status = "APPROVED"]
<1>1. k \in DOMAIN s /\ s[k] \in Attempt
  BY DEF TypeOK, Live
<1>2. row.status = "APPROVED" /\ row.started = s[k].started /\ row.choice = s[k].choice
      /\ row.amount = s[k].amount
  BY <1>1 DEF Attempt
<1>3. payments'[o] = [s EXCEPT ![k] = row]
  OBVIOUS
<1> HIDE DEF row, s
<1>4. /\ DOMAIN payments'[o] = DOMAIN s
      /\ \A i \in DOMAIN s :
            /\ payments'[o][i].started = s[i].started /\ payments'[o][i].choice = s[i].choice
            /\ payments'[o][i].amount = s[i].amount
            /\ i # k => payments'[o][i].status = s[i].status
  BY <1>1, <1>2, <1>3
<1>5. Live(o)' \subseteq Live(o) /\ \A i \in Live(o) : i = k
  BY <1>4 DEF Live, LiveSays, s
<1>6. LiveSays(o)'
  BY <1>4, <1>5 DEF LiveSays, Live, s
<1> QED
  BY <1>4, <1>5, <1>6 DEF LiveGoesOn, Live, s

\* The shop's own transactions.
LEMMA ShopLive ==
    ASSUME Proofs = {}, TypeOK, TypeOK', NEW o \in Orders, SaleSays(o), LiveSays(o),
           Untouched(o) \/ Changed(o)
    PROVE  LiveGoesOn(o) /\ PaidGoesOn(o)
<1>1. CASE Untouched(o)
  <2>1. order'[o] = order[o] /\ payments'[o] = payments[o]
    BY <1>1 DEF Untouched
  <2> QED
    BY <2>1, LiveShrinks DEF PaidGoesOn
<1>2. CASE Placed(o)
  <2>1. PICK choice \in Choices : payments'[o] = <<newAttempt(choice, order'[o].shipping)>>
    BY <1>2 DEF Placed
  <2>2. /\ DOMAIN payments'[o] = {1} /\ payments'[o][1].status = "PENDING"
        /\ payments'[o][1].amount = order'[o].shipping
    BY <2>1 DEF newAttempt
  <2>3. Live(o)' = {1}
    BY <2>2 DEF Live, SupersededStatuses
  <2>4. LiveSays(o)'
    BY <2>2, <2>3 DEF LiveSays
  <2>5. payments[o] = <<>> /\ order'[o].paymentStatus = "PENDING"
    BY <1>2 DEF Placed, SaleSays
  <2> QED
    BY <2>4, <2>5 DEF LiveGoesOn, PaidGoesOn
<1>3. CASE Rewritten(o)
  <2>1. /\ order[o].status = "PENDING_PAYMENT" /\ order[o].paymentStatus \notin ImmutableStatuses
        /\ order'[o].paymentStatus # "APPROVED"
    BY <1>3 DEF Rewritten
  <2>2. CASE payments'[o] = payments[o] /\ order'[o].shipping = order[o].shipping
    BY <2>1, <2>2, LiveShrinks DEF PaidGoesOn
  <2>3. CASE \E choice \in Choices : payments'[o] =
                Append(CancelAttempts(o, {"PENDING", "REJECTED"})[o],
                       newAttempt(choice, order'[o].shipping))
    BY <2>1, <2>3, LiveReplaced DEF PaidGoesOn
  <2>4. CASE /\ Live(o) # {} /\ ~payments[o][Newest(Live(o))].started
             /\ payments'[o] =
                   [payments[o] EXCEPT ![Newest(Live(o))].amount = order'[o].shipping]
    BY <2>1, <2>4, LiveQuoted DEF PaidGoesOn
  <2> QED
    BY <1>3, <2>2, <2>3, <2>4 DEF Rewritten
<1>4. CASE Sold(o)
  <2>1. PICK k \in Live(o) : /\ payments'[o] = [payments[o] EXCEPT ![k].status = "APPROVED"]
                             /\ payments[o][k].choice = "CASH"
    BY <1>4 DEF Sold
  <2>2. order'[o].status = "CONFIRMED" /\ order'[o].shipping = order[o].shipping
    BY <1>4 DEF Sold, Confirmed, SameOrder
  <2>3. /\ LiveGoesOn(o)
        /\ \A i \in Live(o)' : payments'[o][i].choice = payments[o][k].choice
    BY <2>1, <2>2, LiveApproved
  <2> QED
    BY <2>1, <2>3 DEF PaidGoesOn
<1>5. CASE Closed(o)
  <2>1. /\ order'[o].paymentStatus # "APPROVED"
        /\ order'[o].status # "PENDING_PAYMENT" /\ order'[o].shipping = order[o].shipping
        /\ payments'[o] = CancelAttempts(o, {"PENDING", "IN_PROCESS"})[o]
    BY <1>5 DEF Closed, SameOrder, ClosedStatuses
  <2> QED
    BY <2>1, LiveCancelled DEF PaidGoesOn
<1>6. CASE LineExpired(o)
  <2>1. /\ order'[o] = order[o]
        /\ \/ payments'[o] = payments[o]
           \/ payments'[o] = CancelAttempts(o, {"PENDING", "IN_PROCESS"})[o]
    BY <1>6 DEF LineExpired
  <2>2. LiveGoesOn(o) /\ Live(o)' \subseteq Live(o)
    BY <2>1, LiveShrinks, LiveCancelled
  <2> QED
    BY <2>1, <2>2 DEF PaidGoesOn
<1> QED
  BY <1>1, <1>2, <1>3, <1>4, <1>5, <1>6 DEF Changed
-----------------------------------------------------------------------------
(* ... and those of requests.                                              *)

\* A request writes the one attempt that can be collected.
LEMMA LiveWritten ==
    ASSUME NEW o \in Orders, LiveSays(o), NEW k \in Live(o),
           DOMAIN payments'[o] = DOMAIN payments[o],
           \A i \in DOMAIN payments[o] :
              /\ payments'[o][i].amount = payments[o][i].amount
              /\ payments[o][i].started => payments'[o][i].started
              /\ i # k => payments'[o][i].status = payments[o][i].status,
           order'[o].shipping = order[o].shipping,
           order'[o].status = "PENDING_PAYMENT" /\ order'[o].paymentStatus \notin ImmutableStatuses
             => payments'[o][k].status \in {"PENDING", "REJECTED"} \cup SupersededStatuses
    PROVE  LiveGoesOn(o) /\ Live(o)' \subseteq Live(o) /\ \A i \in Live(o)' : i = k
<1>1. \A i \in Live(o) : i = k
  BY DEF LiveSays
<1>2. Live(o)' \subseteq Live(o)
  BY <1>1 DEF Live
<1>3. LiveSays(o)'
  <2>1. \A i \in Live(o)' : payments'[o][i].amount = order'[o].shipping
    BY <1>2 DEF LiveSays, Live
  <2>2. k \in Live(o)' => payments'[o][k].status \notin SupersededStatuses
    BY DEF Live
  <2> QED
    BY <1>1, <1>2, <2>1, <2>2 DEF LiveSays
<1> QED
  BY <1>1, <1>2, <1>3 DEF LiveGoesOn

\* An order that a step leaves alone.
LEMMA LiveRests ==
    ASSUME NEW o \in Orders, LiveSays(o), payments'[o] = payments[o],
           order'[o].shipping = order[o].shipping, order'[o].status = order[o].status,
           order'[o].paymentStatus = order[o].paymentStatus
    PROVE  LiveGoesOn(o) /\ PaidGoesOn(o)
BY LiveShrinks DEF PaidGoesOn

\* The amounts and marks that a request leaves when it writes a status.
LEMMA WrittenAmounts ==
    ASSUME TypeOK, NEW o \in Orders, NEW i, NEW s \in PaymentStatuses
    PROVE  \A j \in DOMAIN payments[o] :
              /\ Written(o, i, s)[o][j].amount = payments[o][j].amount
              /\ payments[o][j].started => Written(o, i, s)[o][j].started
<1> DEFINE a == payments[o][i]
           b == [a EXCEPT !.status = s]
           row == [b EXCEPT !.started = TRUE]
<1>1. i \in DOMAIN payments[o] => a \in Attempt
  BY DEF TypeOK
<1>2. Written(o, i, s) = RowTo(o, i, row)
  BY DEF Written, RowTo, TypeOK
<1> HIDE DEF a
<1>3. a \in Attempt => b \in Attempt /\ b.choice = a.choice /\ b.amount = a.amount
  BY AttemptRow
<1> HIDE DEF b
<1>4. b \in Attempt => /\ row \in Attempt /\ row.started
                       /\ row.choice = b.choice /\ row.amount = b.amount
  <2>1. b \in Attempt => row.started = TRUE
    BY DEF Attempt
  <2> QED
    BY <2>1, AttemptRow DEF PaymentStatuses
<1> HIDE DEF row
<1>5. i \in DOMAIN payments[o] => /\ row \in Attempt /\ row.started
                                  /\ row.choice = payments[o][i].choice
                                  /\ row.amount = payments[o][i].amount
  BY <1>1, <1>3, <1>4 DEF a
<1> QED
  BY <1>2, <1>5, OneAttempt

LEMMA StartedAmounts ==
    ASSUME TypeOK, NEW o \in Orders, NEW i
    PROVE  /\ \A j \in DOMAIN payments[o] :
                 /\ Started(o, i)[o][j].amount = payments[o][j].amount
                 /\ payments[o][j].started => Started(o, i)[o][j].started
           /\ \A p \in Orders \ {o} : Started(o, i)[p] = payments[p]
<1> DEFINE a == payments[o][i]
           row == [a EXCEPT !.started = TRUE]
<1>1. i \in DOMAIN payments[o] => a \in Attempt
  BY DEF TypeOK
<1>2. Started(o, i) = RowTo(o, i, row)
  BY DEF Started, RowTo, TypeOK
<1> HIDE DEF a
<1>3. a \in Attempt => /\ row \in Attempt /\ row.started
                       /\ row.choice = a.choice /\ row.amount = a.amount
  <2>1. a \in Attempt => row.started = TRUE
    BY DEF Attempt
  <2> QED
    BY <2>1, AttemptRow DEF PaymentStatuses
<1> HIDE DEF row
<1>4. i \in DOMAIN payments[o] => /\ row \in Attempt /\ row.started
                                  /\ row.choice = payments[o][i].choice
                                  /\ row.amount = payments[o][i].amount
  BY <1>1, <1>3 DEF a
<1> QED
  BY <1>2, <1>4, OneAttempt

LEMMA TotalKept ==
    ASSUME TypeOK, NEW o \in Orders, NEW s \in PaymentStatuses, NEW p \in Orders
    PROVE  PaymentStatusTo(o, s)[p].shipping = order[p].shipping
<1> DEFINE row == [order[o] EXCEPT !.paymentStatus = s]
<1>1. PaymentStatusTo(o, s) = [order EXCEPT ![o] = row] /\ order \in [Orders -> OrderRow]
  BY DEF PaymentStatusTo, TypeOK
<1>2. row.shipping = order[o].shipping
  BY <1>1 DEF OrderRow
<1> HIDE DEF row
<1> QED
  BY <1>1, <1>2

LiveAndPaid == \A o \in Orders : LiveGoesOn(o) /\ PaidGoesOn(o)

LEMMA ShopLeftAlone ==
    ASSUME GatewayInv, \A o \in Orders : LiveSays(o), UNCHANGED vars
    PROVE  LiveAndPaid
BY ShopRests, LiveRests DEF LiveAndPaid

LEMMA SaveStartedLive ==
    ASSUME GatewayInv, \A o \in Orders : LiveSays(o), NEW w \in Workers, SaveStarted(w)
    PROVE  LiveAndPaid
<1>1. PICK o, i : o = request[w].order /\ i = request[w].attempt
  OBVIOUS
<1>2. payments' = Started(o, i) /\ order' = order
  BY <1>1 DEF SaveStarted, Started
<1>3. o \in Orders /\ TypeOK
  BY <1>1 DEF SaveStarted, At, GatewayInv, RequestSays, Idle, SaveRow, CardRow, ApplyRow,
              ApplyPcs
<1>4. /\ DOMAIN payments'[o] = DOMAIN payments[o]
      /\ \A j \in DOMAIN payments[o] :
            /\ payments'[o][j].status = payments[o][j].status
            /\ payments'[o][j].amount = payments[o][j].amount
            /\ payments[o][j].started => payments'[o][j].started
      /\ \A p \in Orders \ {o} : payments'[p] = payments[p]
  BY <1>2, <1>3, StartedRows, StartedAmounts
<1>5. LiveGoesOn(o) /\ Live(o)' \subseteq Live(o)
  BY <1>2, <1>3, <1>4, LiveShrinks
<1>6. PaidGoesOn(o)
  BY <1>2, <1>5 DEF PaidGoesOn
<1>7. \A p \in Orders \ {o} : LiveGoesOn(p) /\ PaidGoesOn(p)
  BY <1>2, <1>4, LiveRests
<1> QED
  BY <1>5, <1>6, <1>7 DEF LiveAndPaid

\* A request marks its attempt as cancelled, refunded or charged back.
LEMMA OneGivenUp ==
    ASSUME GatewayInv, \A p \in Orders : LiveSays(p), NEW o \in Orders,
           DOMAIN payments'[o] = DOMAIN payments[o],
           \A j \in DOMAIN payments[o] :
              /\ \/ payments'[o][j].status = payments[o][j].status
                 \/ payments'[o][j].status \in SupersededStatuses
              /\ payments'[o][j].amount = payments[o][j].amount
              /\ payments[o][j].started => payments'[o][j].started,
           \A p \in Orders \ {o} : payments'[p] = payments[p],
           \A p \in Orders : /\ order'[p].shipping = order[p].shipping
                             /\ order'[p].status = order[p].status
                             /\ p # o => order'[p].paymentStatus = order[p].paymentStatus,
           order'[o].paymentStatus \in {order[o].paymentStatus, "REFUNDED"}
    PROVE  LiveAndPaid
<1>1. order'[o].paymentStatus \in ImmutableStatuses
      \/ order'[o].paymentStatus = order[o].paymentStatus
  BY DEF ImmutableStatuses
<1>2. LiveGoesOn(o) /\ Live(o)' \subseteq Live(o)
  BY <1>1, LiveShrinks
<1>3. order'[o].paymentStatus = "APPROVED" => order[o].paymentStatus = "APPROVED"
  OBVIOUS
<1>4. PaidGoesOn(o)
  BY <1>2, <1>3 DEF PaidGoesOn
<1>5. \A p \in Orders \ {o} : LiveGoesOn(p) /\ PaidGoesOn(p)
  BY LiveRests
<1> QED
  BY <1>2, <1>4, <1>5 DEF LiveAndPaid

LEMMA SupersededLive ==
    ASSUME GatewayInv, \A p \in Orders : LiveSays(p),
           NEW o \in Orders, NEW i, NEW s \in SupersededStatuses, s \in PaymentStatuses,
           payments' = Written(o, i, s),
           order' = order \/ order' = PaymentStatusTo(o, "REFUNDED")
    PROVE  LiveAndPaid
<1>1. TypeOK /\ "REFUNDED" \in PaymentStatuses
  BY DEF GatewayInv, PaymentStatuses
<1>2. /\ DOMAIN payments'[o] = DOMAIN payments[o]
      /\ \A j \in DOMAIN payments[o] :
            /\ \/ payments'[o][j].status = payments[o][j].status
               \/ payments'[o][j].status \in SupersededStatuses
            /\ payments'[o][j].amount = payments[o][j].amount
            /\ payments[o][j].started => payments'[o][j].started
      /\ \A p \in Orders \ {o} : payments'[p] = payments[p]
  BY <1>1, WrittenRows, WrittenAmounts
<1>3. /\ \A p \in Orders : /\ order'[p].shipping = order[p].shipping
                           /\ order'[p].status = order[p].status
                           /\ p # o => order'[p].paymentStatus = order[p].paymentStatus
      /\ order'[o].paymentStatus \in {order[o].paymentStatus, "REFUNDED"}
  <2>1. CASE order' = order
    BY <2>1
  <2>2. CASE order' = PaymentStatusTo(o, "REFUNDED")
    BY <1>1, <2>2, PaymentStatusOrders, TotalKept
  <2> QED
    BY <2>1, <2>2
<1> QED
  BY <1>2, <1>3, OneGivenUp

LEMMA RecordSupersededLive ==
    ASSUME GatewayInv, \A o \in Orders : LiveSays(o), NEW w \in Workers, RecordSuperseded(w)
    PROVE  LiveAndPaid
<1> DEFINE r == request[w]
           s == IF r.status \in {"REFUNDED", "CHARGED_BACK"} THEN r.status ELSE "CANCELLED"
<1>1. payments' = Written(r.order, r.attempt, s) /\ r.pc \in ApplyPcs /\ order' = order
  BY DEF RecordSuperseded, Written, At, ApplyPcs
<1>2. s \in SupersededStatuses /\ s \in PaymentStatuses /\ r.order \in Orders
  BY <1>1, AboutCharge DEF SupersededStatuses, PaymentStatuses
<1> QED
  BY <1>1, <1>2, SupersededLive

LEMMA MarkRefundedLive ==
    ASSUME GatewayInv, \A o \in Orders : LiveSays(o), NEW w \in Workers, MarkRefunded(w)
    PROVE  LiveAndPaid
<1> DEFINE r == request[w]
<1>1. /\ payments' = Written(r.order, r.attempt, "REFUNDED") /\ r.pc \in ApplyPcs
      /\ order' = order \/ order' = PaymentStatusTo(r.order, "REFUNDED")
  BY DEF MarkRefunded, Written, PaymentStatusTo, At, ApplyPcs
<1>2. /\ r.order \in Orders
      /\ "REFUNDED" \in SupersededStatuses /\ "REFUNDED" \in PaymentStatuses
  BY <1>1, AboutCharge DEF SupersededStatuses, PaymentStatuses
<1> QED
  BY <1>1, <1>2, SupersededLive

\* The sale, and the record of any other status, of an attempt that was not
\* superseded.
LEMMA SaleLive ==
    ASSUME GatewayInv, \A o \in Orders : LiveSays(o), NEW w \in Workers,
           NEW o \in Orders, NEW i \in Live(o), At(w, "transact"),
           request[w].order = o, request[w].attempt = i, request[w].status = "APPROVED",
           ConfirmOrderPayment(o, i, Written(o, i, "APPROVED")[o]), UNCHANGED promotion
    PROVE  LiveAndPaid
<1> DEFINE u == Written(o, i, "APPROVED")[o]
           row == [u[i] EXCEPT !.status = "APPROVED"]
<1>1. TypeOK /\ "APPROVED" \in PaymentStatuses
  BY DEF GatewayInv, PaymentStatuses
<1>2. /\ u \in Seq(Attempt) /\ DOMAIN u = DOMAIN payments[o]
      /\ \A j \in DOMAIN payments[o] :
            /\ u[j].status = IF j = i THEN "APPROVED" ELSE payments[o][j].status
            /\ u[j].amount = payments[o][j].amount
            /\ payments[o][j].started => u[j].started
  BY <1>1, WrittenRows, WrittenAmounts
<1>3. i \in DOMAIN payments[o]
  BY DEF Live
<1>4. row.status = "APPROVED" /\ row.amount = u[i].amount /\ row.started = u[i].started
  <2>1. u[i] \in Attempt
    BY <1>2, <1>3
  <2> QED
    BY <2>1 DEF Attempt
<1>5. /\ Confirmed(o) /\ payments' = [payments EXCEPT ![o] = [u EXCEPT ![i] = row]]
      /\ \A p \in Orders \ {o} : Untouched(p)
  BY <1>1, ConfirmShape
<1> HIDE DEF row, u
<1>6. payments'[o] = [u EXCEPT ![i] = row]
  BY <1>1, <1>5 DEF TypeOK
<1>7. /\ DOMAIN payments'[o] = DOMAIN payments[o]
      /\ \A j \in DOMAIN payments[o] :
            /\ payments'[o][j].amount = payments[o][j].amount
            /\ payments[o][j].started => payments'[o][j].started
            /\ j # i => payments'[o][j].status = payments[o][j].status
  BY <1>2, <1>3, <1>4, <1>6
<1>8. order'[o].status = "CONFIRMED" /\ order'[o].shipping = order[o].shipping
  BY <1>5 DEF Confirmed, SameOrder
<1>9. LiveGoesOn(o) /\ \A j \in Live(o)' : j = i
  BY <1>7, <1>8, LiveWritten
<1>10. PaidGoesOn(o)
  BY <1>8, <1>9 DEF PaidGoesOn, Sells
<1>11. \A p \in Orders \ {o} : LiveGoesOn(p) /\ PaidGoesOn(p)
  BY <1>5, LiveRests DEF Untouched
<1> QED
  BY <1>9, <1>10, <1>11 DEF LiveAndPaid

LEMMA RecordedLive ==
    ASSUME GatewayInv, \A o \in Orders : LiveSays(o),
           NEW o \in Orders, NEW i \in Live(o), NEW s \in PaymentStatuses,
           s # "APPROVED" \/ order[o].paymentStatus = "APPROVED",
           payments' = Written(o, i, s), order' = PaymentStatusTo(o, statusAfter(o, s))
    PROVE  LiveAndPaid
<1>1. TypeOK /\ statusAfter(o, s) \in PaymentStatuses
  BY DEF GatewayInv, PaymentStatuses, statusAfter
<1>2. /\ DOMAIN payments'[o] = DOMAIN payments[o]
      /\ \A j \in DOMAIN payments[o] :
            /\ payments'[o][j].status = IF j = i THEN s ELSE payments[o][j].status
            /\ payments'[o][j].amount = payments[o][j].amount
            /\ payments[o][j].started => payments'[o][j].started
      /\ \A p \in Orders \ {o} : payments'[p] = payments[p]
  BY <1>1, WrittenRows, WrittenAmounts
<1>3. \A p \in Orders : /\ order'[p].shipping = order[p].shipping
                        /\ order'[p].status = order[p].status
                        /\ order'[p].paymentStatus = IF p = o THEN statusAfter(o, s)
                                                     ELSE order[p].paymentStatus
  BY <1>1, PaymentStatusOrders, TotalKept
<1>4. order'[o].paymentStatus \notin ImmutableStatuses
         => s \in {"PENDING", "REJECTED"} \cup SupersededStatuses
  BY <1>3 DEF statusAfter, ImmutableStatuses, SupersededStatuses, PaymentStatuses
<1>5. order'[o].paymentStatus = "APPROVED" => order[o].paymentStatus = "APPROVED"
  BY <1>3 DEF statusAfter
<1>6. payments'[o][i].status = s
  BY <1>2 DEF Live
<1>7. LiveGoesOn(o) /\ Live(o)' \subseteq Live(o)
  BY <1>2, <1>3, <1>4, <1>6, LiveWritten
<1>8. \A p \in Orders \ {o} : LiveGoesOn(p) /\ PaidGoesOn(p)
  BY <1>2, <1>3, LiveRests
<1> QED
  BY <1>3, <1>5, <1>7, <1>8 DEF PaidGoesOn, LiveAndPaid

LEMMA TransactLive ==
    ASSUME GatewayInv, \A o \in Orders : LiveSays(o), NEW w \in Workers, Transact(w)
    PROVE  LiveAndPaid
<1>0. PICK o, i, s : o = request[w].order /\ i = request[w].attempt /\ s = request[w].status
  OBVIOUS
<1>1. At(w, "transact") /\ request[w].pc \in ApplyPcs
  BY DEF Transact, At, ApplyPcs
<1>2. o \in Orders /\ s \in PaymentStatuses
  BY <1>0, <1>1, AboutCharge
<1>3. CASE UNCHANGED vars
  BY <1>3, ShopLeftAlone
<1>4. CASE /\ i \in Live(o) /\ s = "APPROVED" /\ UNCHANGED promotion
           /\ ConfirmOrderPayment(o, i, Written(o, i, s)[o])
  BY <1>0, <1>1, <1>2, <1>4, SaleLive
<1>5. CASE /\ i \in Live(o)
           /\ s # "APPROVED" \/ order[o].paymentStatus = "APPROVED"
           /\ payments' = Written(o, i, s) /\ order' = PaymentStatusTo(o, statusAfter(o, s))
  BY <1>2, <1>5, RecordedLive
<1>6. i \notin Live(o) => Superseded(o, i)
  BY DEF Superseded
<1> QED
  BY <1>0, <1>3, <1>4, <1>5, <1>6 DEF Transact, Written, PaymentStatusTo

\* Every step of the shop with its gateways.
LEMMA LiveContinues ==
    ASSUME Proofs = {}, GatewayInv, AccountInv, \A o \in Orders : LiveSays(o),
           [GatewayNext]_allVars
    PROVE  LiveAndPaid
<1>1. ASSUME NEW w \in Workers, Step(w), ~UNCHANGED vars PROVE LiveAndPaid
  <2>1. SaveStarted(w) \/ RecordSuperseded(w) \/ MarkRefunded(w) \/ Transact(w)
    BY <1>1 DEF Step, CreateIntent, ChargeCard, Fetch, ReadOrder, ReadState,
                CountReservations, RereadState, Throw, ReadLatest, ReadRefund, CallRefund,
                Refused, Finish
  <2> QED
    BY <2>1, SaveStartedLive, RecordSupersededLive, MarkRefundedLive, TransactLive
<1>2. CASE Next /\ UNCHANGED gatewayVars
  <2>1. TypeOK /\ TypeOK' /\ \A o \in Orders : SaleSays(o)
    BY <1>2, GatewayContinues DEF GatewayInv, GatewayGoesOn
  <2>2. \A o \in Orders : Untouched(o) \/ Changed(o)
    BY <1>2, <2>1, StepShape
  <2> QED
    BY <2>1, <2>2, ShopLive DEF LiveAndPaid
<1>3. CASE UNCHANGED vars
  BY <1>3, ShopLeftAlone
<1>4. ASSUME GatewayNext, ~UNCHANGED vars, ~(\E w \in Workers : Step(w))
      PROVE  Next /\ UNCHANGED gatewayVars
  BY <1>4 DEF GatewayNext, Settle, PayLink, BeginPreference, BeginCard, SyncStripe,
              ReceiveWebhook, Crash
<1> QED
  BY <1>1, <1>2, <1>3, <1>4 DEF allVars

LEMMA LiveInitially == GatewayInit => \A o \in Orders : LiveSays(o)
BY DEF GatewayInit, Init, LiveSays, Live

\* Where no transfer proofs are used, an order can be paid by one attempt at most,
\* whatever providers, browsers and webhooks report of the attempts it had.
THEOREM PayableOnceByGateways == ASSUME Proofs = {} PROVE GatewaySpec => []OneLiveAttempt
<1>1. ASSUME GatewayInv, \A o \in Orders : LiveSays(o) PROVE OneLiveAttempt
  <2> SUFFICES ASSUME NEW o \in Orders PROVE Collectable(o)
    BY DEF OneLiveAttempt
  <2>1. \A i, j \in Live(o) : i = j
    BY <1>1 DEF LiveSays
  <2> QED
    BY <1>1, <2>1, AtMostOne DEF LiveSays, Collectable
<1>2. GatewayInv /\ AccountInv /\ (\A o \in Orders : LiveSays(o)) /\ [GatewayNext]_allVars
        => GatewayInv' /\ AccountInv' /\ (\A o \in Orders : LiveSays(o))'
  BY GatewayKeeps, LiveContinues DEF LiveAndPaid, LiveGoesOn
<1> QED
  BY <1>1, <1>2, GatewayInitially, LiveInitially, PTL DEF GatewaySpec
-----------------------------------------------------------------------------
(* The money, where Mercado Pago charges no cards.                         *)

\* The provider took the money, whether or not it gave it back.
Taken(c) == charge[c].status \in {"approved", "succeeded", "refunded"}

\* An attempt is marked as started before its intent can take money, and before
\* its link can be paid.
ChargeStarted(c) ==
    Made(c) /\ (charge[c].provider # "STRIPE" \/ Taken(c))
        => payments[charge[c].order][charge[c].attempt].started

\* An event that says that an intent succeeded is true.
EventsTrue ==
    \A c \in Charges : <<c, "succeeded">> \in notified => charge[c].status = "succeeded"

\* A request that applies an approved status applies a charge that was taken, and
\* once it has compared the amounts they stay equal while the attempt can be
\* collected: the quote of a started attempt is not changed.
CheckedPcs == {"classify", "count", "reread", "transact", "caught"}
RequestPays(w) ==
    LET r == request[w]
    IN  r.pc \in ApplyPcs /\ r.status = "APPROVED" =>
           /\ Taken(r.charge)
           /\ r.pc \in CheckedPcs /\ r.attempt \in Live(r.order)
                 => charge[r.charge].amount = order[r.order].shipping

ChargedInv ==
    /\ \A o \in Orders : LiveSays(o)
    /\ \A c \in Charges : ChargeStarted(c)
    /\ EventsTrue
    /\ \A w \in Workers : RequestPays(w)
    /\ PaidOrdersWereCharged

\* What a step leaves of a charge, and of what a request says of it.
MoneyStays(c) ==
    Made(c) => /\ charge'[c].amount = charge[c].amount
               /\ Taken(c) => Taken(c)'
MoneyGoesOn ==
    /\ \A c \in Charges : MoneyStays(c) /\ ChargeStarted(c)'
    /\ EventsTrue'
KeepsPaying(w) ==
    /\ request[w].pc \in ApplyPcs
    /\ request'[w].charge = request[w].charge /\ request'[w].order = request[w].order
    /\ request'[w].attempt = request[w].attempt /\ request'[w].status = request[w].status
    /\ request'[w].pc \in CheckedPcs => request[w].pc \in CheckedPcs
StartsPaying(w) ==
    \E c \in Charges :
        /\ request'[w].charge = c /\ Taken(c)'
        /\ request'[w].pc \in CheckedPcs => \E o \in Orders :
              request'[w].order = o /\ charge'[c].amount = order'[o].shipping
PaysOn(w) ==
    request'[w].pc \in ApplyPcs /\ request'[w].status = "APPROVED"
        => KeepsPaying(w) \/ StartsPaying(w)

LEMMA ChargeOf ==
    ASSUME GatewayInv, NEW c \in Charges, Made(c)
    PROVE  /\ charge[c].order \in Orders
           /\ charge[c].attempt \in DOMAIN payments[charge[c].order]
           /\ charge[c].provider \in {"STRIPE", "MERCADO_PAGO"}
           /\ charge[c] \in ChargeRow /\ charge[c].status \in StatusesOf(charge[c].provider)
BY DEF GatewayInv, ChargeSays, ChargeRow

LEMMA RequestPaysOn ==
    ASSUME GatewayInv, ChargedInv, LiveAndPaid, \A c \in Charges : MoneyStays(c),
           NEW w \in Workers, PaysOn(w)
    PROVE  RequestPays(w)'
<1> SUFFICES ASSUME request'[w].pc \in ApplyPcs, request'[w].status = "APPROVED"
             PROVE  /\ Taken(request[w].charge)'
                    /\ request'[w].pc \in CheckedPcs
                       /\ (request[w].attempt \in Live(request[w].order))'
                       => charge'[request'[w].charge].amount
                             = order'[request'[w].order].shipping
  BY DEF RequestPays
<1>1. CASE StartsPaying(w)
  BY <1>1 DEF StartsPaying, Taken
<1>2. CASE KeepsPaying(w)
  <2>1. PICK c, o, i : c = request[w].charge /\ o = request[w].order /\ i = request[w].attempt
    OBVIOUS
  <2>2. /\ request[w].pc \in ApplyPcs /\ request[w].status = "APPROVED"
        /\ request'[w].charge = c /\ request'[w].order = o /\ request'[w].attempt = i
    BY <1>2, <2>1 DEF KeepsPaying
  <2>3. /\ c \in Charges /\ Made(c) /\ o \in Orders /\ charge[c].order = o
        /\ charge[c].attempt = i /\ i \in DOMAIN payments[o]
    BY <2>1, <2>2, AboutCharge, ChargeOf
  <2>4. Taken(c) /\ Taken(c)' /\ charge'[c].amount = charge[c].amount
    BY <2>1, <2>2, <2>3 DEF ChargedInv, RequestPays, MoneyStays
  <2>5. ASSUME request'[w].pc \in CheckedPcs, i \in Live(o)'
        PROVE  charge'[c].amount = order'[o].shipping
    <3>1. payments[o][i].started
      BY <2>3, <2>4 DEF ChargedInv, ChargeStarted
    <3>2. i \in Live(o) /\ order'[o].shipping = order[o].shipping
      BY <2>3, <2>5, <3>1 DEF LiveAndPaid, LiveGoesOn
    <3>3. request[w].pc \in CheckedPcs
      BY <1>2, <2>5 DEF KeepsPaying
    <3> QED
      BY <2>1, <2>2, <2>4, <3>2, <3>3 DEF ChargedInv, RequestPays
  <2>6. (request[w].attempt \in Live(request[w].order))' => i \in Live(o)'
    BY <2>2 DEF Live
  <2> QED
    BY <2>2, <2>4, <2>5, <2>6 DEF Taken
<1> QED
  BY <1>1, <1>2 DEF PaysOn

LEMMA PaidWereCharged ==
    ASSUME GatewayInv, GatewayInv', ChargesGoOn, ChargedInv, LiveAndPaid,
           \A c \in Charges : MoneyStays(c)
    PROVE  PaidOrdersWereCharged'
<1> SUFFICES ASSUME NEW o \in Orders, NEW i, i \in Live(o)',
                    order'[o].paymentStatus = "APPROVED",
                    ProviderOf(payments'[o][i].choice) # "MANUAL"
             PROVE  \E c \in Charges :
                       /\ Made(c)' /\ charge'[c].order = o /\ charge'[c].attempt = i
                       /\ charge'[c].amount = order'[o].shipping /\ Taken(c)'
  BY DEF PaidOrdersWereCharged, ChargesOf, Taken
<1>1. LiveGoesOn(o) /\ PaidGoesOn(o)
  BY DEF LiveAndPaid
<1>2. CASE /\ i \in Live(o) /\ order[o].paymentStatus = "APPROVED"
           /\ order'[o].shipping = order[o].shipping
  <2>1. payments'[o][i].choice = payments[o][i].choice
    BY <1>2 DEF ChargesGoOn, AttemptsGoOn, Live
  <2>2. PICK c \in ChargesOf(o, i) : charge[c].amount = order[o].shipping /\ Taken(c)
    BY <1>2, <2>1 DEF ChargedInv, PaidOrdersWereCharged, Taken
  <2>3. c \in Charges /\ Made(c) /\ charge[c].order = o /\ charge[c].attempt = i
    BY DEF ChargesOf
  <2>4. /\ Made(c)' /\ charge'[c].order = o /\ charge'[c].attempt = i
        /\ charge'[c].amount = charge[c].amount /\ Taken(c)'
    BY <2>2, <2>3 DEF ChargesGoOn, MoneyStays
  <2> QED
    BY <1>2, <2>2, <2>3, <2>4
<1>3. CASE payments'[o][i].choice = "CASH"
  BY <1>3 DEF ProviderOf
<1>4. ASSUME NEW w \in Workers, Sells(w, o, i)
      PROVE  \E c \in Charges :
                /\ Made(c)' /\ charge'[c].order = o /\ charge'[c].attempt = i
                /\ charge'[c].amount = order'[o].shipping /\ Taken(c)'
  <2>1. PICK c : c = request[w].charge
    OBVIOUS
  <2>2. /\ request[w].pc \in ApplyPcs /\ request[w].pc \in CheckedPcs
        /\ request[w].status = "APPROVED" /\ request[w].order = o
        /\ request[w].attempt = i /\ i \in Live(o)
        /\ order'[o].shipping = order[o].shipping
    BY <1>4 DEF Sells, At, ApplyPcs, CheckedPcs
  <2>3. /\ c \in Charges /\ Made(c) /\ charge[c].order = o /\ charge[c].attempt = i
    BY <2>1, <2>2, AboutCharge
  <2>4. Taken(c) /\ charge[c].amount = order[o].shipping
    BY <2>1, <2>2 DEF ChargedInv, RequestPays
  <2> QED
    BY <2>2, <2>3, <2>4 DEF ChargesGoOn, MoneyStays
<1> QED
  BY <1>1, <1>2, <1>3, <1>4 DEF PaidGoesOn

LEMMA ChargedGoesOn ==
    ASSUME GatewayInv, GatewayInv', ChargesGoOn, ChargedInv, LiveAndPaid, MoneyGoesOn,
           \A w \in Workers : PaysOn(w)
    PROVE  ChargedInv'
<1>1. \A w \in Workers : RequestPays(w)'
  BY RequestPaysOn DEF MoneyGoesOn
<1>2. PaidOrdersWereCharged'
  BY PaidWereCharged DEF MoneyGoesOn
<1> QED
  BY <1>1, <1>2 DEF ChargedInv, MoneyGoesOn, LiveAndPaid, LiveGoesOn

\* No charge changes.
LEMMA MoneyRests ==
    ASSUME GatewayInv, ChargedInv, LiveAndPaid, charge' = charge, notified' = notified
    PROVE  MoneyGoesOn
<1>1. ASSUME NEW c \in Charges PROVE MoneyStays(c) /\ ChargeStarted(c)'
  <2>1. MoneyStays(c)
    BY DEF MoneyStays, Taken
  <2>2. ASSUME Made(c), charge[c].provider # "STRIPE" \/ Taken(c)
        PROVE  payments'[charge[c].order][charge[c].attempt].started
    <3>1. payments[charge[c].order][charge[c].attempt].started
      BY <2>2 DEF ChargedInv, ChargeStarted
    <3> QED
      BY <2>2, <3>1, ChargeOf DEF LiveAndPaid, LiveGoesOn
  <2>3. ChargeStarted(c)'
    BY <2>2 DEF ChargeStarted, Made, Taken
  <2> QED
    BY <2>1, <2>3
<1>2. EventsTrue'
  BY DEF ChargedInv, EventsTrue
<1> QED
  BY <1>1, <1>2 DEF MoneyGoesOn

\* One charge is made or changes.
LEMMA OneChargeMoves ==
    ASSUME GatewayInv, ChargedInv, payments' = payments, NEW c \in Charges,
           \A d \in Charges \ {c} : charge'[d] = charge[d],
           MoneyStays(c), ChargeStarted(c)',
           \A n \in notified' \ notified : n[1] = c,
           <<c, "succeeded">> \in notified' => charge'[c].status = "succeeded"
    PROVE  MoneyGoesOn
<1>1. ASSUME NEW d \in Charges \ {c} PROVE MoneyStays(d) /\ ChargeStarted(d)'
  BY <1>1 DEF MoneyStays, Taken, Made, ChargedInv, ChargeStarted
<1>2. ASSUME NEW d \in Charges, <<d, "succeeded">> \in notified'
      PROVE  charge'[d].status = "succeeded"
  <2>1. CASE d = c
    BY <1>2, <2>1
  <2>2. CASE d # c
    <3>1. <<d, "succeeded">> \in notified
      BY <1>2, <2>2
    <3> QED
      BY <2>2, <3>1 DEF ChargedInv, EventsTrue
  <2> QED
    BY <2>1, <2>2
<1> QED
  BY <1>1, <1>2 DEF MoneyGoesOn, EventsTrue

\* What is sent of a charge is about it, and only an event that says so makes
\* known that it succeeded.
LEMMA AnnouncedOf ==
    ASSUME NEW c \in Charges, NEW status, Notified(c, status)
    PROVE  /\ \A n \in notified' \ notified : n[1] = c
           /\ <<c, "succeeded">> \in notified' =>
                 \/ <<c, "succeeded">> \in notified
                 \/ charge'[c].provider = "STRIPE" /\ status = "succeeded"
<1> DEFINE form == IF charge'[c].provider = "STRIPE" THEN status ELSE "payment"
<1>1. notified' = notified \cup {<<c, form>>}
  BY DEF Notified
<1>2. form = "succeeded" => charge'[c].provider = "STRIPE" /\ status = "succeeded"
  OBVIOUS
<1> HIDE DEF form
<1>3. \A n \in notified' \ notified : n = <<c, form>>
  BY <1>1
<1> QED
  BY <1>2, <1>3

LEMMA MovesTaken ==
    /\ \A m \in StripeMoves : m[1] \notin {"approved", "succeeded", "refunded"}
    /\ \A m \in MercadoPagoMoves : m[1] \notin {"approved", "succeeded", "refunded"}
BY DEF StripeMoves, MercadoPagoMoves

LEMMA SettleMoney ==
    ASSUME GatewayInv, ChargedInv, NEW c \in Charges, Settle(c)
    PROVE  MoneyGoesOn
<1>1. /\ Made(c) /\ UNCHANGED vars
      /\ charge[c].provider = "STRIPE" =>
            payments[charge[c].order][charge[c].attempt].started
  BY DEF Settle
<1>2. PICK status : /\ <<charge[c].status, status>> \in
                           (IF charge[c].provider = "STRIPE" THEN StripeMoves
                                                             ELSE MercadoPagoMoves)
                    /\ charge' = [charge EXCEPT ![c].status = status]
                    /\ Notified(c, status)
  BY DEF Settle
<1> DEFINE row == [charge[c] EXCEPT !.status = status]
<1>3. charge[c] \in ChargeRow /\ charge \in [Charges -> ChargeRow \cup {NoCharge}]
  BY <1>1, ChargeOf DEF GatewayInv
<1>4. /\ row.order = charge[c].order /\ row.attempt = charge[c].attempt
      /\ row.amount = charge[c].amount /\ row.status = status
  BY <1>3 DEF ChargeRow
<1>5. charge' = [charge EXCEPT ![c] = row]
  BY <1>2
<1> HIDE DEF row
<1>6. charge'[c] = row /\ \A d \in Charges \ {c} : charge'[d] = charge[d]
  BY <1>3, <1>5
<1>7. payments' = payments
  BY <1>1, ShopRests
<1>8. ~Taken(c)
  BY <1>2, MovesTaken DEF Taken
<1>9. payments[charge[c].order][charge[c].attempt].started
  BY <1>1 DEF ChargedInv, ChargeStarted
<1>10. MoneyStays(c) /\ ChargeStarted(c)'
  BY <1>4, <1>6, <1>7, <1>8, <1>9 DEF MoneyStays, ChargeStarted
<1>11. <<c, "succeeded">> \notin notified
  BY <1>8 DEF ChargedInv, EventsTrue, Taken
<1> QED
  BY <1>2, <1>4, <1>6, <1>7, <1>10, <1>11, AnnouncedOf, OneChargeMoves

LEMMA Unannounced ==
    ASSUME GatewayInv, NEW c \in Charges, ~Made(c)
    PROVE  <<c, "succeeded">> \notin notified
BY DEF GatewayInv, NotificationSays

LEMMA PayLinkMoney ==
    ASSUME GatewayInv, ChargedInv, NEW o \in Orders, NEW i, NEW c \in Charges,
           NEW status \in {"pending", "approved", "rejected"}, PayLink(o, i, c, status)
    PROVE  MoneyGoesOn
<1> DEFINE row == newCharge(o, i, 0, status)
<1>1. /\ ~Made(c) /\ UNCHANGED vars /\ payments[o][i].started
      /\ charge' = [charge EXCEPT ![c] = row] /\ Notified(c, status)
      /\ charge \in [Charges -> ChargeRow \cup {NoCharge}]
  BY DEF PayLink, GatewayInv
<1>2. row.order = o /\ row.attempt = i
  BY DEF newCharge
<1> HIDE DEF row
<1>3. charge'[c] = row /\ \A d \in Charges \ {c} : charge'[d] = charge[d]
  BY <1>1
<1>4. payments' = payments
  BY <1>1, ShopRests
<1>5. MoneyStays(c) /\ ChargeStarted(c)'
  BY <1>1, <1>2, <1>3, <1>4 DEF MoneyStays, ChargeStarted
<1>6. <<c, "succeeded">> \notin notified /\ status # "succeeded"
  BY <1>1, Unannounced
<1> QED
  BY <1>1, <1>3, <1>4, <1>5, <1>6, AnnouncedOf, OneChargeMoves

LEMMA CreateIntentMoney ==
    ASSUME GatewayInv, ChargedInv, LiveAndPaid, NEW w \in Workers, NEW c \in Charges,
           CreateIntent(w, c)
    PROVE  MoneyGoesOn
<1>1. PICK o, i, amount : o = request[w].order /\ i = request[w].attempt
                          /\ amount = request[w].amount
  OBVIOUS
<1> DEFINE row == newCharge(o, i, amount, "requires_payment_method")
<1>2. /\ UNCHANGED vars /\ notified' = notified
      /\ request[w].pc = "CARD_STRIPE" /\ request[w].pc \in CardPcs
      /\ charge \in [Charges -> ChargeRow \cup {NoCharge}]
  BY DEF CreateIntent, GatewayInv, At, CardPcs
<1>3. CASE charge' = charge
  BY <1>2, <1>3, MoneyRests
<1>4. CASE ~Made(c) /\ charge' = [charge EXCEPT ![c] = row]
  <2>1. payments[o][i].choice = "CARD_STRIPE"
    BY <1>1, <1>2, CardRows
  <2>2. row.provider = "STRIPE" /\ row.status = "requires_payment_method"
    BY <2>1 DEF newCharge, ProviderOf
  <2> HIDE DEF row
  <2>3. charge'[c] = row /\ \A d \in Charges \ {c} : charge'[d] = charge[d]
    BY <1>2, <1>4
  <2>4. MoneyStays(c) /\ ChargeStarted(c)'
    BY <1>4, <2>2, <2>3 DEF MoneyStays, ChargeStarted, Taken
  <2>5. <<c, "succeeded">> \notin notified'
    BY <1>2, <1>4, Unannounced
  <2>6. payments' = payments
    BY <1>2, ShopRests
  <2> QED
    BY <1>2, <2>3, <2>4, <2>5, <2>6, OneChargeMoves
<1> QED
  BY <1>1, <1>3, <1>4 DEF CreateIntent

LEMMA CallRefundMoney ==
    ASSUME GatewayInv, ChargedInv, NEW w \in Workers, CallRefund(w)
    PROVE  MoneyGoesOn
<1>1. PICK c : c = request[w].charge
  OBVIOUS
<1>2. /\ request[w].pc \in ApplyPcs /\ UNCHANGED vars
      /\ charge \in [Charges -> ChargeRow \cup {NoCharge}]
  BY DEF CallRefund, At, ApplyPcs, GatewayInv
<1>3. c \in Charges /\ Made(c) /\ charge[c] \in ChargeRow
  BY <1>1, <1>2, AboutCharge, ChargeOf
<1> DEFINE back == [charge[c] EXCEPT !.refunded = TRUE]
           status == IF charge[c].provider = "STRIPE" THEN charge[c].status ELSE "refunded"
           row == [back EXCEPT !.status = status]
<1>4. /\ charge' = [charge EXCEPT ![c] = row]
      /\ IF charge[c].provider = "STRIPE" THEN notified' = notified ELSE Notified(c, "refunded")
  BY <1>1, <1>2, <1>3 DEF CallRefund, ChargeRow
<1>5. /\ row.order = charge[c].order /\ row.attempt = charge[c].attempt
      /\ row.amount = charge[c].amount /\ row.status = status
      /\ row.provider = charge[c].provider
  BY <1>3 DEF ChargeRow
<1> HIDE DEF row
<1>6. charge'[c] = row /\ \A d \in Charges \ {c} : charge'[d] = charge[d]
  BY <1>2, <1>3, <1>4
<1>7. payments' = payments
  BY <1>2, ShopRests
<1>8. charge[c].provider = "STRIPE" => status = charge[c].status
  OBVIOUS
<1>9. charge[c].provider # "STRIPE" => status = "refunded"
  OBVIOUS
<1> HIDE DEF status
<1>10. MoneyStays(c) /\ ChargeStarted(c)'
  BY <1>3, <1>5, <1>6, <1>7, <1>8, <1>9 DEF MoneyStays, ChargeStarted, Taken, ChargedInv
<1>11. <<c, "succeeded">> \in notified => charge[c].provider = "STRIPE"
  <2>1. <<c, "succeeded">>[1] = c /\ <<c, "succeeded">>[2] # "payment"
    OBVIOUS
  <2> QED
    BY <2>1 DEF GatewayInv, NotificationSays
<1>12. <<c, "succeeded">> \in notified' => charge'[c].status = "succeeded"
  <2>1. CASE charge[c].provider = "STRIPE"
    BY <1>3, <1>4, <1>5, <1>6, <1>8, <2>1 DEF ChargedInv, EventsTrue
  <2>2. CASE charge[c].provider # "STRIPE"
    BY <1>3, <1>4, <1>11, <2>2, AnnouncedOf
  <2> QED
    BY <2>1, <2>2
<1>13. \A n \in notified' \ notified : n[1] = c
  <2>1. CASE notified' = notified
    BY <2>1
  <2>2. CASE Notified(c, "refunded")
    BY <1>3, <2>2, AnnouncedOf
  <2> QED
    BY <1>4, <2>1, <2>2
<1> QED
  BY <1>3, <1>6, <1>7, <1>10, <1>12, <1>13, OneChargeMoves

\* No card is charged at Mercado Pago.
LEMMA NoCardCharged ==
    ASSUME "CARD_MERCADO_PAGO" \notin Choices, GatewayInv, NEW w \in Workers, NEW c, NEW status
    PROVE  ~ChargeCard(w, c, status)
<1> SUFFICES ASSUME ChargeCard(w, c, status) PROVE FALSE
  OBVIOUS
<1>1. request[w].pc = "CARD_MERCADO_PAGO" /\ request[w].pc \in CardPcs
  BY DEF ChargeCard, At, CardPcs
<1>2. /\ request[w].order \in Orders
      /\ request[w].attempt \in DOMAIN payments[request[w].order]
      /\ payments[request[w].order][request[w].attempt].choice = "CARD_MERCADO_PAGO"
  BY <1>1, CardRows
<1> QED
  BY <1>2 DEF GatewayInv, ChoicesSay

LEMMA MoneyContinues ==
    ASSUME "CARD_MERCADO_PAGO" \notin Choices, GatewayInv, ChargedInv, LiveAndPaid,
           [GatewayNext]_allVars
    PROVE  MoneyGoesOn
<1>1. CASE charge' = charge /\ notified' = notified
  BY <1>1, MoneyRests
<1>2. CASE \E c \in Charges : Settle(c)
  BY <1>2, SettleMoney
<1>3. CASE \E o \in Orders, i \in 1..MaxAttempts, c \in Charges,
              status \in {"pending", "approved", "rejected"} : PayLink(o, i, c, status)
  BY <1>3, PayLinkMoney
<1>4. ASSUME NEW w \in Workers, Step(w) PROVE MoneyGoesOn
  <2>1. CASE \E c \in Charges : CreateIntent(w, c)
    BY <2>1, CreateIntentMoney
  <2>2. CASE CallRefund(w)
    BY <2>2, CallRefundMoney
  <2>3. ASSUME ~CallRefund(w), ~(\E c \in Charges : CreateIntent(w, c))
        PROVE  charge' = charge /\ notified' = notified
    BY <1>4, <2>3, NoCardCharged
       DEF Step, SaveStarted, Fetch, ReadOrder, ReadState, CountReservations, RereadState,
           Transact, Throw, ReadLatest, RecordSuperseded, ReadRefund, MarkRefunded, Refused,
           Finish
  <2> QED
    BY <1>1, <2>1, <2>2, <2>3
<1>5. ASSUME GatewayNext, ~(\E c \in Charges : Settle(c)),
             ~(\E o \in Orders, i \in 1..MaxAttempts, c \in Charges,
                  status \in {"pending", "approved", "rejected"} : PayLink(o, i, c, status)),
             ~(\E w \in Workers : Step(w))
      PROVE  charge' = charge /\ notified' = notified
  BY <1>5 DEF GatewayNext, gatewayVars, BeginPreference, BeginCard, SyncStripe,
              ReceiveWebhook, Crash
<1>6. CASE UNCHANGED allVars
  BY <1>1, <1>6 DEF allVars, gatewayVars
<1> QED
  BY <1>1, <1>2, <1>3, <1>4, <1>5, <1>6
-----------------------------------------------------------------------------
(* What a request says of the charge it applies.                           *)

LEMMA PaysOnProceeding ==
    ASSUME NEW w \in Workers, request[w].pc \in ApplyPcs, Proceeds(w),
           request'[w].pc \in CheckedPcs => request[w].pc \in CheckedPcs
    PROVE  PaysOn(w)
BY DEF PaysOn, KeepsPaying, Proceeds

LEMMA PaysOnResting ==
    ASSUME NEW w \in Workers, request'[w] = request[w]
    PROVE  PaysOn(w)
BY DEF PaysOn, KeepsPaying

LEMMA PaysNothing ==
    ASSUME NEW w \in Workers, request'[w].pc \notin ApplyPcs
    PROVE  PaysOn(w)
BY DEF PaysOn

LEMMA RespondPays ==
    ASSUME GatewayInv, NEW w \in Workers, Respond(w)
    PROVE  PaysOn(w)
BY RespondMoves, PaysNothing DEF Idle, ApplyPcs

LEMMA GotoPays ==
    ASSUME GatewayInv, ChargesGoOn, NEW w \in Workers, request[w].pc \in ApplyPcs,
           NEW pc \in ApplyPcs \ {"fetch"}, Goto(w, pc),
           pc \in CheckedPcs => request[w].pc \in CheckedPcs
    PROVE  PaysOn(w)
<1>1. Proceeds(w) /\ request'[w].pc = pc
  BY GotoMoves
<1> QED
  BY <1>1, PaysOnProceeding

LEMMA SupersededPays ==
    ASSUME GatewayInv, ChargesGoOn, NEW w \in Workers, request[w].pc \in ApplyPcs,
           HandleSuperseded(w)
    PROVE  PaysOn(w)
<1>1. Proceeds(w) /\ request'[w].pc \in {"readRefund", "record"}
  BY SupersededMoves
<1> QED
  BY <1>1, PaysOnProceeding DEF CheckedPcs

LEMMA RefundPays ==
    ASSUME GatewayInv, ChargesGoOn, NEW w \in Workers, request[w].pc \in ApplyPcs, Refund(w)
    PROVE  PaysOn(w)
<1>1. Proceeds(w) /\ request'[w].pc = "readRefund"
  BY RefundMoves
<1> QED
  BY <1>1, PaysOnProceeding DEF CheckedPcs

\* A request that has compared the amounts.
LEMMA ReadOrderPays ==
    ASSUME GatewayInv, ChargesGoOn, ChargedInv, NEW w \in Workers, ReadOrder(w)
    PROVE  PaysOn(w)
<1>1. PICK c, o, i : c = request[w].charge /\ o = request[w].order /\ i = request[w].attempt
  OBVIOUS
<1>2. /\ request[w].pc \in ApplyPcs /\ UNCHANGED vars /\ charge' = charge
      /\ c \in Charges /\ o \in Orders
  BY <1>1, AboutCharge DEF ReadOrder, At, ApplyPcs
<1>3. CASE Goto(w, "failed")
  BY <1>2, <1>3, GotoPays DEF ApplyPcs, CheckedPcs
<1>4. CASE HandleSuperseded(w)
  BY <1>2, <1>4, SupersededPays
<1>5. CASE Goto(w, "classify") /\ amountsMatch(o, i, c) /\ request[w].status = "APPROVED"
  <2>1. /\ request'[w].charge = c /\ request'[w].order = o
    BY <1>1, <1>2, <1>5, GotoMoves DEF ApplyPcs, Proceeds
  <2>2. Taken(c)
    BY <1>1, <1>2, <1>5 DEF ChargedInv, RequestPays
  <2>3. charge[c].amount = order[o].shipping
    BY <1>5 DEF amountsMatch
  <2>4. order' = order
    BY <1>2, ShopRests
  <2>5. Taken(c)'
    BY <1>2, <2>2 DEF Taken
  <2>6. StartsPaying(w)
    BY <1>2, <2>1, <2>3, <2>4, <2>5 DEF StartsPaying
  <2> QED
    BY <2>6 DEF PaysOn
<1>6. CASE Goto(w, "transact") /\ request[w].status # "APPROVED"
  <2>1. request'[w].status = request[w].status
    BY <1>2, <1>6, GotoMoves DEF ApplyPcs, Proceeds
  <2> QED
    BY <1>6, <2>1 DEF PaysOn
<1> QED
  BY <1>1, <1>3, <1>4, <1>5, <1>6 DEF ReadOrder

\* The steps of a request that has compared them.
LEMMA CheckedPays ==
    ASSUME GatewayInv, ChargesGoOn, NEW w \in Workers,
           \/ ReadState(w) \/ CountReservations(w) \/ RereadState(w)
           \/ Throw(w) \/ ReadLatest(w) \/ Transact(w)
    PROVE  PaysOn(w)
<1>1. request[w].pc \in CheckedPcs /\ request[w].pc \in ApplyPcs
  BY DEF ReadState, CountReservations, RereadState, Throw, ReadLatest, Transact, At,
         CheckedPcs, ApplyPcs
<1>2. CASE \E pc \in ApplyPcs \ {"fetch"} : Goto(w, pc)
  BY <1>1, <1>2, GotoPays
<1>3. CASE HandleSuperseded(w)
  BY <1>1, <1>3, SupersededPays
<1>4. CASE Refund(w)
  BY <1>1, <1>4, RefundPays
<1>5. CASE request' = [request EXCEPT ![w] = [@ EXCEPT !.pc = "classify", !.caught = TRUE]]
  <2>1. Proceeds(w)
    BY <1>1, <1>5, TurnMoves DEF ApplyPcs
  <2> QED
    BY <1>1, <2>1, PaysOnProceeding
<1>6. CASE ReadState(w)
  BY <1>2, <1>4, <1>6 DEF ReadState, ApplyPcs
<1>7. CASE CountReservations(w)
  BY <1>2, <1>7 DEF CountReservations, ApplyPcs
<1>8. CASE RereadState(w)
  BY <1>2, <1>4, <1>8 DEF RereadState, ApplyPcs
<1>9. CASE Throw(w)
  BY <1>2, <1>9 DEF Throw, ApplyPcs
<1>10. CASE ReadLatest(w)
  BY <1>3, <1>5, <1>10 DEF ReadLatest
<1>11. CASE Transact(w)
  BY <1>2, <1>3, <1>11 DEF Transact, ApplyPcs
<1> QED
  BY <1>6, <1>7, <1>8, <1>9, <1>10, <1>11

\* The steps after that.
LEMMA EndingPays ==
    ASSUME GatewayInv, ChargesGoOn, NEW w \in Workers,
           \/ RecordSuperseded(w) \/ ReadRefund(w) \/ CallRefund(w) \/ MarkRefunded(w)
           \/ Refused(w) \/ Finish(w) \/ SaveStarted(w) \/ Crash(w)
    PROVE  PaysOn(w)
<1>1. CASE Respond(w)
  BY <1>1, RespondPays
<1>2. CASE /\ request[w].pc \in ApplyPcs
           /\ \E pc \in {"processed", "refund", "mark", "failed"} : Goto(w, pc)
  BY <1>2, GotoPays DEF ApplyPcs, CheckedPcs
<1>3. CASE RecordSuperseded(w)
  BY <1>2, <1>3 DEF RecordSuperseded, At, ApplyPcs
<1>4. CASE ReadRefund(w)
  BY <1>2, <1>4 DEF ReadRefund, At, ApplyPcs
<1>5. CASE CallRefund(w)
  BY <1>2, <1>5 DEF CallRefund, At, ApplyPcs
<1>6. CASE MarkRefunded(w)
  BY <1>2, <1>6 DEF MarkRefunded, At, ApplyPcs
<1>7. CASE Refused(w)
  BY <1>1, <1>2, <1>7 DEF Refused, ApplyPcs
<1>8. CASE Finish(w) \/ SaveStarted(w) \/ Crash(w)
  BY <1>1, <1>8 DEF Finish, SaveStarted, Crash
<1> QED
  BY <1>3, <1>4, <1>5, <1>6, <1>7, <1>8

LEMMA MappedTaken ==
    ASSUME NEW provider, NEW status \in StatusesOf(provider),
           mapped(provider, status) = "APPROVED"
    PROVE  status \in {"approved", "succeeded"}
BY DEF mapped, StatusesOf, StripeStatuses, MercadoPagoStatuses, mapStripeStatus,
       mapMercadoPagoStatus

\* A request that takes up a charge.
LEMMA ApplyingPays ==
    ASSUME GatewayInv, NEW w \in Workers, NEW c \in Charges, charge' = charge,
           NEW pc \in {"fetch", "apply"}, NEW status, NEW n,
           mapped(charge[c].provider, status) = "APPROVED" => Taken(c),
           request' = [request EXCEPT ![w] = applying(pc, c, status, n)]
    PROVE  PaysOn(w)
<1>1. /\ request'[w].pc = pc /\ request'[w].charge = c
      /\ request'[w].status = mapped(charge[c].provider, status)
  BY DEF applying, GatewayInv
<1>2. pc \notin CheckedPcs
  BY DEF CheckedPcs
<1>3. Taken(c) => Taken(c)'
  BY DEF Taken
<1> QED
  BY <1>1, <1>2, <1>3 DEF PaysOn, StartsPaying

LEMMA CurrentTaken ==
    ASSUME GatewayInv, NEW c \in Charges, Made(c),
           mapped(charge[c].provider, charge[c].status) = "APPROVED"
    PROVE  Taken(c)
BY ChargeOf, MappedTaken DEF Taken

LEMMA TakingUpPays ==
    ASSUME GatewayInv, ChargedInv, NEW w \in Workers,
           \/ \E c \in Charges : SyncStripe(w, c)
           \/ \E n \in Notifications : ReceiveWebhook(w, n)
           \/ Fetch(w)
    PROVE  PaysOn(w)
<1>1. ASSUME NEW c \in Charges, SyncStripe(w, c) PROVE PaysOn(w)
  <2>1. /\ Made(c) /\ charge' = charge
        /\ request' = [request EXCEPT ![w] = applying("apply", c, charge[c].status, <<>>)]
    BY <1>1 DEF SyncStripe
  <2> QED
    BY <2>1, CurrentTaken, ApplyingPays
<1>2. CASE Fetch(w)
  <2>1. PICK c, n : c = request[w].charge /\ n = request[w].notification
    OBVIOUS
  <2>2. /\ request[w].pc \in ApplyPcs /\ charge' = charge
        /\ request' = [request EXCEPT ![w] = applying("apply", c, charge[c].status, n)]
    BY <1>2, <2>1 DEF Fetch, At, ApplyPcs
  <2>3. c \in Charges /\ Made(c)
    BY <2>1, <2>2, AboutCharge
  <2> QED
    BY <2>2, <2>3, CurrentTaken, ApplyingPays
<1>3. ASSUME NEW n \in Notifications, ReceiveWebhook(w, n) PROVE PaysOn(w)
  <2>1. PICK c : c = n[1]
    OBVIOUS
  <2>2. /\ n \in notified /\ charge' = charge
    BY <1>3 DEF ReceiveWebhook
  <2>3. /\ c \in Charges /\ n = <<c, n[2]>> /\ Made(c)
        /\ n[2] = "payment" <=> charge[c].provider # "STRIPE"
        /\ n[2] \in {"payment", "requires_payment_method", "processing", "succeeded"}
    BY <2>1, <2>2, NotificationShape DEF GatewayInv, NotificationSays
  <2>4. CASE n[2] = "payment"
    <3>1. request' = [request EXCEPT ![w] = applying("fetch", c, charge[c].status, n)]
      BY <1>3, <2>1, <2>4 DEF ReceiveWebhook
    <3> QED
      BY <2>2, <2>3, <3>1, CurrentTaken, ApplyingPays
  <2>5. CASE n[2] # "payment"
    <3>1. request' = [request EXCEPT ![w] = applying("apply", c, n[2], n)]
      BY <1>3, <2>1, <2>5 DEF ReceiveWebhook
    <3>2. n[2] \in StatusesOf(charge[c].provider)
      BY <2>3, <2>5 DEF StatusesOf, StripeStatuses, mapStripeStatus
    <3>3. ASSUME mapped(charge[c].provider, n[2]) = "APPROVED" PROVE Taken(c)
      <4>1. n[2] = "succeeded"
        BY <2>3, <3>2, <3>3, MappedTaken
      <4>2. <<c, "succeeded">> \in notified
        BY <2>2, <2>3, <4>1
      <4> QED
        BY <2>3, <4>2 DEF ChargedInv, EventsTrue, Taken
    <3> QED
      BY <2>2, <2>3, <3>1, <3>3, ApplyingPays
  <2> QED
    BY <2>4, <2>5
<1> QED
  BY <1>1, <1>2, <1>3

\* The steps of a request that has no charge yet.
LEMMA BeginningPays ==
    ASSUME GatewayInv, NEW w \in Workers,
           \/ \E c \in Charges : CreateIntent(w, c)
           \/ \E o \in Orders : BeginPreference(w, o)
           \/ \E o \in Orders, choice \in CardPcs : BeginCard(w, o, choice)
    PROVE  PaysOn(w)
<1>1. CASE request[w].pc = "CARD_STRIPE" /\ (Goto(w, "save") \/ Respond(w))
  BY <1>1, SaveMoves, RespondPays, PaysNothing DEF CardPcs, ApplyPcs
<1>2. ASSUME NEW row, row.pc \notin ApplyPcs, request' = [request EXCEPT ![w] = row]
      PROVE  PaysOn(w)
  BY <1>2, PaysNothing DEF GatewayInv
<1>3. ASSUME NEW o, BeginPreference(w, o) PROVE PaysOn(w)
  <2> DEFINE row == [pc |-> "save", order |-> o,
                     attempt |-> Newest(Payable(o, "PAYMENT_LINK"))]
  <2>1. request' = [request EXCEPT ![w] = row]
    BY <1>3 DEF BeginPreference
  <2>2. row.pc \notin ApplyPcs
    BY DEF ApplyPcs
  <2> HIDE DEF row
  <2> QED
    BY <1>2, <2>1, <2>2
<1>4. ASSUME NEW o, NEW choice \in CardPcs, BeginCard(w, o, choice) PROVE PaysOn(w)
  <2> DEFINE row == [pc |-> choice, order |-> o, attempt |-> Newest(Payable(o, choice)),
                     amount |-> order[o].shipping]
  <2>1. request' = [request EXCEPT ![w] = row]
    BY <1>4 DEF BeginCard
  <2>2. row.pc \notin ApplyPcs
    BY DEF ApplyPcs, CardPcs
  <2> HIDE DEF row
  <2> QED
    BY <1>2, <2>1, <2>2
<1> QED
  BY <1>1, <1>3, <1>4 DEF CreateIntent, At

LEMMA RequestsContinue ==
    ASSUME "CARD_MERCADO_PAGO" \notin Choices, GatewayInv, ChargesGoOn, ChargedInv,
           [GatewayNext]_allVars, NEW x \in Workers
    PROVE  PaysOn(x)
<1>1. CASE request'[x] = request[x]
  BY <1>1, PaysOnResting
<1>2. ASSUME NEW w \in Workers, Step(w) \/ Crash(w), w = x PROVE PaysOn(x)
  <2>1. CASE \E c \in Charges : CreateIntent(w, c)
    BY <1>2, <2>1, BeginningPays
  <2>2. CASE ReadOrder(w)
    BY <1>2, <2>2, ReadOrderPays
  <2>3. CASE Fetch(w)
    BY <1>2, <2>3, TakingUpPays
  <2>4. CASE \/ ReadState(w) \/ CountReservations(w) \/ RereadState(w)
             \/ Throw(w) \/ ReadLatest(w) \/ Transact(w)
    BY <1>2, <2>4, CheckedPays
  <2>5. CASE \/ RecordSuperseded(w) \/ ReadRefund(w) \/ CallRefund(w) \/ MarkRefunded(w)
             \/ Refused(w) \/ Finish(w) \/ SaveStarted(w) \/ Crash(w)
    BY <1>2, <2>5, EndingPays
  <2> QED
    BY <1>2, <2>1, <2>2, <2>3, <2>4, <2>5, NoCardCharged DEF Step
<1>3. ASSUME NEW w \in Workers, Step(w) \/ Crash(w), w # x PROVE request'[x] = request[x]
  BY <1>3, NoCardCharged
     DEF Step, Crash, CreateIntent, SaveStarted, Fetch, ReadOrder, ReadState,
         CountReservations, RereadState, Transact, Throw, ReadLatest, RecordSuperseded,
         ReadRefund, CallRefund, MarkRefunded, Refused, Finish, Goto, Respond,
         HandleSuperseded, Refund, GatewayInv
<1>4. ASSUME NEW w \in Workers, w = x,
             \/ \E c \in Charges : SyncStripe(w, c)
             \/ \E n \in Notifications : ReceiveWebhook(w, n)
      PROVE  PaysOn(x)
  BY <1>4, TakingUpPays
<1>5. ASSUME NEW w \in Workers, w = x,
             \/ \E o \in Orders : BeginPreference(w, o)
             \/ \E o \in Orders, choice \in CardPcs : BeginCard(w, o, choice)
      PROVE  PaysOn(x)
  BY <1>5, BeginningPays
<1>6. ASSUME NEW w \in Workers, w # x,
             \/ \E c \in Charges : SyncStripe(w, c)
             \/ \E n \in Notifications : ReceiveWebhook(w, n)
             \/ \E o \in Orders : BeginPreference(w, o)
             \/ \E o \in Orders, choice \in CardPcs : BeginCard(w, o, choice)
      PROVE  request'[x] = request[x]
  BY <1>6 DEF SyncStripe, ReceiveWebhook, BeginPreference, BeginCard, GatewayInv
<1>7. CASE \/ UNCHANGED allVars
           \/ Next /\ UNCHANGED gatewayVars
           \/ \E c \in Charges : Settle(c)
           \/ \E o \in Orders, i \in 1..MaxAttempts, c \in Charges,
                 status \in {"pending", "approved", "rejected"} : PayLink(o, i, c, status)
  BY <1>1, <1>7 DEF allVars, gatewayVars, Settle, PayLink
<1> QED
  BY <1>1, <1>2, <1>3, <1>4, <1>5, <1>6, <1>7 DEF GatewayNext, CardPcs
-----------------------------------------------------------------------------
(* The charge of a paid order.                                             *)

LEMMA ChargedInitially == GatewayInit => ChargedInv
<1> SUFFICES ASSUME GatewayInit PROVE ChargedInv
  OBVIOUS
<1>1. \A o \in Orders : LiveSays(o) /\ Live(o) = {}
  BY DEF GatewayInit, Init, LiveSays, Live
<1>2. \A c \in Charges : ChargeStarted(c)
  BY DEF GatewayInit, ChargeStarted, Made
<1>3. EventsTrue /\ \A w \in Workers : RequestPays(w)
  BY DEF GatewayInit, EventsTrue, RequestPays, Idle, ApplyPcs
<1> QED
  BY <1>1, <1>2, <1>3 DEF ChargedInv, PaidOrdersWereCharged

LEMMA ChargedContinues ==
    ASSUME Proofs = {}, "CARD_MERCADO_PAGO" \notin Choices, GatewayInv, AccountInv, ChargedInv,
           [GatewayNext]_allVars
    PROVE  GatewayInv' /\ AccountInv' /\ ChargedInv'
<1>1. GatewayInv' /\ AccountInv' /\ ChargesGoOn
  BY GatewayContinues DEF GatewayGoesOn
<1>2. LiveAndPaid
  BY LiveContinues DEF ChargedInv
<1>3. MoneyGoesOn
  BY <1>2, MoneyContinues
<1>4. \A w \in Workers : PaysOn(w)
  BY <1>1, RequestsContinue
<1> QED
  BY <1>1, <1>2, <1>3, <1>4, ChargedGoesOn

\* An order paid by Stripe or by a payment link was charged its total, however
\* changes of address, quotes, webhooks and crashes race the charge.
THEOREM PaidIsCharged ==
    ASSUME Proofs = {}, "CARD_MERCADO_PAGO" \notin Choices
    PROVE  GatewaySpec => []PaidOrdersWereCharged
<1>1. ChargedInv => PaidOrdersWereCharged
  BY DEF ChargedInv
<1>2. GatewayInv /\ AccountInv /\ ChargedInv /\ [GatewayNext]_allVars
        => GatewayInv' /\ AccountInv' /\ ChargedInv'
  BY ChargedContinues
<1> QED
  BY <1>1, <1>2, GatewayInitially, ChargedInitially, PTL DEF GatewaySpec
===========================================================================

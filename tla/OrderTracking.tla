--------------------------- MODULE OrderTracking ---------------------------
(***************************************************************************)
(* A customer follows an order (order-tracking.tsx) and sends proofs of    *)
(* its bank transfer through the bucket (storage.service.ts,               *)
(* payments.service.ts), and employees settle it from the table of orders  *)
(* (OrdersTab of admin-app.tsx).  Every page shows the order as it was     *)
(* when the page read it, and decides by that what it offers; answers come *)
(* late, out of order or not at all.                                       *)
(***************************************************************************)
EXTENDS Integers, Sequences, FiniteSets, SequencesExt

CONSTANTS
    Tabs,     \* pages of the customer
    Desks,    \* pages of employees
    Files,    \* files the customer sends; each gets an object key of its own
    Shown,    \* proofs a row of the table brings along: 3 in the code
    Loads,    \* bound: reads of one page on their way
    Faults,   \* bound: answers that are lost, queries that fail
    None      \* nothing

OrderTrackingAssumption == {Shown, Loads, Faults} \subseteq Nat

VARIABLES
    order,   \* status, paid (paymentStatus is APPROVED) and payment method
    proofs,  \* the order's proofs, oldest first: file, status
    bucket,  \* files the bucket holds
    tab,     \* [Tabs -> the page]
    desk,    \* [Desks -> the page]
    faults   \* how many faults there were

vars == <<order, proofs, bucket, tab, desk, faults>>

isTerminalOrder(o) == o.status \in {"CANCELLED", "EXPIRED"}
isTerminal(o) == o.status \in {"COMPLETED", "CANCELLED", "EXPIRED"}
Proof(f) == CHOOSE i \in DOMAIN proofs : proofs[i].file = f
Pending == {i \in DOMAIN proofs : proofs[i].status = "PENDING_REVIEW"}
registered == {proofs[i].file : i \in DOMAIN proofs}

Init ==
    /\ \E method \in {"BANK_TRANSFER", "CASH"} :
          order = [status |-> "PENDING_PAYMENT", paid |-> FALSE, method |-> method]
    /\ proofs = <<>> /\ bucket = {}
    /\ tab = [t \in Tabs |-> [view |-> None, reading |-> {}, at |-> "idle", file |-> None, told |-> None]]
    /\ desk = [d \in Desks |-> [view |-> None, reading |-> {}]]
    /\ faults = 0

Tab(t, record) == tab' = [tab EXCEPT ![t] = record]
Desk(d, record) == desk' = [desk EXCEPT ![d] = record]
Fault == faults < Faults /\ faults' = faults + 1
-----------------------------------------------------------------------------
(* The customer's page.                                                    *)

\* GET /orders/:token: the newest proof is the one the page looks at.
orderRead == [order |-> order,
              latest |-> IF proofs = <<>> THEN "NONE" ELSE Last(proofs).status]
reads(page) == IF Cardinality(page.reading) < Loads
               THEN [page EXCEPT !.reading = @ \cup {orderRead}] ELSE page
Load(t) ==
    /\ Cardinality(tab[t].reading) < Loads
    /\ Tab(t, reads(tab[t]))
    /\ UNCHANGED <<order, proofs, bucket, desk, faults>>

\* The answers arrive in any order, or not at all.
LoadArrives(t) ==
    /\ \E read \in tab[t].reading :
         Tab(t, [tab[t] EXCEPT !.view = read, !.reading = @ \ {read}])
    /\ UNCHANGED <<order, proofs, bucket, desk, faults>>
LoadFails(t) ==
    /\ Fault
    /\ \E read \in tab[t].reading : Tab(t, [tab[t] EXCEPT !.reading = @ \ {read}])
    /\ UNCHANGED <<order, proofs, bucket, desk>>

showTransferPanel(v) == /\ ~isTerminalOrder(v.order) /\ ~v.order.paid
                        /\ v.order.method = "BANK_TRANSFER"
offersUpload(v) == showTransferPanel(v) /\ v.latest # "PENDING_REVIEW"

\* uploadProof presigns (any transfer order of the customer), ...
presignTransferProof == order.method = "BANK_TRANSFER"
Choose(t, f) ==
    /\ tab[t].view # None /\ offersUpload(tab[t].view) /\ tab[t].at = "idle"
    /\ presignTransferProof
    /\ \A u \in Tabs : tab[u].file # f
    /\ f \notin registered \cup bucket
    /\ Tab(t, [tab[t] EXCEPT !.at = "put", !.file = f, !.told = None])
    /\ UNCHANGED <<order, proofs, bucket, desk, faults>>

\* ... puts the file into the bucket, ...
checksUpload == TRUE
Put(t) ==
    /\ tab[t].at = "put"
    /\ bucket' = bucket \cup {tab[t].file}
    /\ Tab(t, [tab[t] EXCEPT !.at = "register"])
    /\ UNCHANGED <<order, proofs, desk, faults>>
PutRefused(t) ==
    /\ tab[t].at = "put" /\ Fault
    /\ Tab(t, [tab[t] EXCEPT !.at = IF checksUpload THEN "failed" ELSE "register"])
    /\ UNCHANGED <<order, proofs, bucket, desk>>

\* ... and registers it: confirmTransferProof reads the order and its attempt,
\* which is superseded once the order is closed, ...
acceptsProof(o) == o.method = "BANK_TRANSFER" /\ ~isTerminalOrder(o)
RegisterRead(t) ==
    /\ tab[t].at = "register"
    /\ Tab(t, [tab[t] EXCEPT !.at = IF acceptsProof(order) THEN "store" ELSE "failed"])
    /\ UNCHANGED <<order, proofs, bucket, desk, faults>>

\* ... and stores the proof without looking again.
RegisterStore(t) ==
    /\ tab[t].at = "store"
    /\ proofs' = Append(proofs, [file |-> tab[t].file, status |-> "PENDING_REVIEW"])
    /\ Tab(t, [tab[t] EXCEPT !.at = "registered"])
    /\ UNCHANGED <<order, bucket, desk, faults>>

\* The answer: the page reads the order again.
UploadArrives(t) ==
    /\ tab[t].at = "registered"
    /\ Tab(t, reads([tab[t] EXCEPT !.at = "idle", !.file = None, !.told = "sent"]))
    /\ UNCHANGED <<order, proofs, bucket, desk, faults>>
\* It is lost, or one of the calls is: the page says that it failed, and offers
\* the upload of another file.
UploadLost(t) ==
    /\ tab[t].at \in {"put", "register", "store", "registered"} /\ Fault
    /\ Tab(t, [tab[t] EXCEPT !.at = "failed"])
    /\ UNCHANGED <<order, proofs, bucket, desk>>
UploadFails(t) ==
    /\ tab[t].at = "failed"
    /\ Tab(t, [tab[t] EXCEPT !.at = "idle", !.file = None, !.told = "failed"])
    /\ UNCHANGED <<order, proofs, bucket, desk, faults>>

\* cancel: refused when the order is paid; its answer is shown at once.
keepsClosed(o) == isTerminalOrder(o)
cancelOrder == order' = IF keepsClosed(order) THEN order ELSE [order EXCEPT !.status = "CANCELLED"]
Cancel(t) ==
    /\ tab[t].view # None /\ tab[t].view.order.status = "PENDING_PAYMENT"
    /\ ~order.paid
    /\ cancelOrder
    /\ Tab(t, [tab[t] EXCEPT !.view = [@ EXCEPT !.order = order']])
    /\ UNCHANGED <<proofs, bucket, desk, faults>>
-----------------------------------------------------------------------------
(* The table of orders.  What the API refuses is shown to the employee and *)
(* leaves the page as it is.                                               *)

\* A row brings the newest proofs; the first that waits is offered.
firstPending(row) ==
    LET waiting == {i \in DOMAIN row : row[i].status = "PENDING_REVIEW"}
    IN  IF waiting = {} THEN None ELSE row[CHOOSE i \in waiting : \A j \in waiting : j <= i].file
newest(s) == SubSeq(s, IF Len(s) > Shown THEN Len(s) - Shown + 1 ELSE 1, Len(s))
rowRead == [order |-> order, proof |-> IF isTerminal(order) THEN None ELSE firstPending(newest(proofs))]

refreshes(page) == IF Cardinality(page.reading) < Loads
                   THEN [page EXCEPT !.reading = @ \cup {rowRead}] ELSE page
Refresh(d) ==
    /\ Cardinality(desk[d].reading) < Loads
    /\ Desk(d, refreshes(desk[d]))
    /\ UNCHANGED <<order, proofs, bucket, tab, faults>>
RefreshArrives(d) ==
    /\ \E read \in desk[d].reading :
         Desk(d, [desk[d] EXCEPT !.view = read, !.reading = @ \ {read}])
    /\ UNCHANGED <<order, proofs, bucket, tab, faults>>

\* confirmOrderPayment: nothing to do once it is paid, refused when closed.
confirmable(o) == o.paid \/ ~isTerminalOrder(o)
confirmOrderPayment ==
    order' = IF order.paid THEN order ELSE [order EXCEPT !.status = "CONFIRMED", !.paid = TRUE]

\* reviewTransferProof: an employee approves or rejects the proof on the page.
reviewable(i) == proofs[i].status = "PENDING_REVIEW"
reviewTransferProof(i, status) ==
    /\ reviewable(i)
    /\ proofs' = [proofs EXCEPT ![i].status = status]
    /\ IF status = "APPROVED" THEN confirmable(order) /\ confirmOrderPayment ELSE UNCHANGED order
ReviewProof(d, status) ==
    /\ desk[d].view # None /\ desk[d].view.proof # None
    /\ reviewTransferProof(Proof(desk[d].view.proof), status)
    /\ Desk(d, refreshes(desk[d]))
    /\ UNCHANGED <<bucket, tab, faults>>

confirmCashPayment == order.method = "CASH" /\ confirmable(order) /\ confirmOrderPayment
canConfirmCash(v) == ~isTerminal(v.order) /\ v.order.method = "CASH" /\ ~v.order.paid
ConfirmCash(d) ==
    /\ desk[d].view # None /\ canConfirmCash(desk[d].view)
    /\ confirmCashPayment
    /\ Desk(d, refreshes(desk[d]))
    /\ UNCHANGED <<proofs, bucket, tab, faults>>

\* updateStatus: the choices of the row, and what the API makes of them.
adminOrderStatusOptions(o) ==
    IF isTerminal(o) THEN {o.status}
    ELSE {o.status, "CANCELLED"} \cup
         CASE o.status = "PENDING_PAYMENT" -> IF o.method = "CASH" THEN {"PROCESSING", "READY"} ELSE {}
           [] o.status = "CONFIRMED" -> {"PROCESSING", "READY"}
           [] o.status = "PROCESSING" -> {"READY"}
           [] o.status = "READY" -> IF o.paid THEN {"COMPLETED"} ELSE {}
canTransitionOrder(from, to) ==
    \/ from = to
    \/ from \in {"PENDING_PAYMENT", "CONFIRMED"} /\ to \in {"PROCESSING", "READY"}
    \/ from = "PROCESSING" /\ to = "READY"
    \/ from = "READY" /\ to = "COMPLETED"
UpdateStatus(d, to) ==
    /\ desk[d].view # None /\ to \in adminOrderStatusOptions(desk[d].view.order)
    /\ IF to = "CANCELLED" THEN ~order.paid /\ cancelOrder
       ELSE /\ canTransitionOrder(order.status, to)
            /\ \/ to = order.status \/ order.paid
               \/ order.method = "CASH" /\ to \in {"PROCESSING", "READY"}
            /\ order' = [order EXCEPT !.status = to]
    /\ Desk(d, refreshes(desk[d]))
    /\ UNCHANGED <<proofs, bucket, tab, faults>>

\* expireOne: the last reservation of an order that is not paid.
Expire ==
    /\ ~order.paid /\ order.status \in {"PENDING_PAYMENT", "PROCESSING", "READY"}
    /\ order' = [order EXCEPT !.status = "EXPIRED"]
    /\ UNCHANGED <<proofs, bucket, tab, desk, faults>>
-----------------------------------------------------------------------------
Uploads(t) == Put(t) \/ RegisterRead(t) \/ RegisterStore(t) \/ UploadArrives(t) \/ UploadFails(t)

Next ==
    \/ \E t \in Tabs :
         \/ Load(t) \/ LoadArrives(t) \/ LoadFails(t) \/ Cancel(t) \/ Uploads(t)
         \/ PutRefused(t) \/ UploadLost(t)
         \/ \E f \in Files : Choose(t, f)
    \/ \E d \in Desks :
         \/ Refresh(d) \/ RefreshArrives(d) \/ ConfirmCash(d)
         \/ \E status \in {"APPROVED", "REJECTED"} : ReviewProof(d, status)
         \/ \E to \in {"PENDING_PAYMENT", "CONFIRMED", "PROCESSING", "READY", "COMPLETED",
                       "CANCELLED", "EXPIRED"} : UpdateStatus(d, to)
    \/ Expire

Spec == Init /\ [][Next]_vars

\* Employees look at the table again and again and decide on what it offers.
FairSpec ==
    /\ Spec
    /\ \A d \in Desks : /\ WF_vars(Refresh(d))
                        /\ WF_vars(RefreshArrives(d))
                        /\ SF_vars(\E s \in {"APPROVED", "REJECTED"} : ReviewProof(d, s))
-----------------------------------------------------------------------------
(* Properties.                                                             *)

Order == [status : {"PENDING_PAYMENT", "CONFIRMED", "PROCESSING", "READY", "COMPLETED", "CANCELLED", "EXPIRED"},
          paid : BOOLEAN, method : {"BANK_TRANSFER", "CASH"}]
TypeOK ==
    /\ order \in Order
    /\ proofs \in Seq([file : Files, status : {"PENDING_REVIEW", "APPROVED", "REJECTED"}])
    /\ bucket \subseteq Files
    /\ \A t \in Tabs : tab[t].at \in {"idle", "put", "register", "store", "registered", "failed"}
    /\ \A d \in Desks : Cardinality(desk[d].reading) <= Loads

\* An employee who reviews a proof finds its file in the bucket.
ProofHasFile == \A i \in DOMAIN proofs : proofs[i].file \in bucket

\* An approved proof is of an order that is paid, and nothing brings a closed
\* order back: not the review of a proof or a status pressed on a page that
\* still shows the order as it was.
ApprovedIsPaid == \A i \in DOMAIN proofs : proofs[i].status = "APPROVED" => order.paid
ClosedStays == isTerminalOrder(order) => order' = order

\* A proof is reviewed once: the answer that one employee gave is not
\* overwritten by another whose page still offers the proof.
ReviewedOnce ==
    \A i \in DOMAIN proofs : proofs[i].status # "PENDING_REVIEW" => proofs'[i] = proofs[i]

CameIn(f) == f \in registered
Reviewed(f) == f \in registered /\ proofs[Proof(f)].status # "PENDING_REVIEW"

\* As long as the order is open, every proof that came in is reviewed.
OpenIsReviewed == \A f \in Files : CameIn(f) ~> isTerminal(order) \/ Reviewed(f)

\* 'La tienda lo revisará para confirmar tu pago': a customer who was told so
\* gets an answer, whatever becomes of the order.
SentIsReviewed ==
    \A t \in Tabs, f \in Files :
        (CameIn(f) /\ tab[t].told = "sent") ~> Reviewed(f)
=============================================================================

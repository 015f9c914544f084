----------------------------- MODULE OrderDesk -----------------------------
(***************************************************************************)
(* The order desk and the shipments: updateOrderStatus of                  *)
(* admin-commerce.service.ts, shipments.service.ts and the transitions of  *)
(* commerce-rules.ts, while customers, payments and the expiry job         *)
(* (Checkout) go on.                                                       *)
(*                                                                         *)
(* These handlers read the order or the shipment, decide, and write in a   *)
(* transaction that neither reads again nor is serializable: each is two   *)
(* actions, and what was read may be old by the time it is written.        *)
(***************************************************************************)
EXTENDS CheckoutProperties

CONSTANTS
    Shipments,  \* the tracking numbers the desk registers
    Employees   \* the desk's requests handled at a time

VARIABLES
    fulfilment, \* [Orders -> order.fulfillmentStatus]
    shipment,   \* [Shipments -> the shipment's row]
    announced,  \* the deduplication keys of the ORDER_STATUS outbox events
    desk        \* [Employees -> what a request has read and decided]

deskVars == <<fulfilment, shipment, announced, desk>>
deskShopVars == <<vars, deskVars>>
-----------------------------------------------------------------------------
(* commerce-rules.ts                                                       *)

shipmentTransitions ==
    [PENDING |-> {"LABEL_CREATED", "CANCELLED"},
     LABEL_CREATED |-> {"IN_TRANSIT", "EXCEPTION", "CANCELLED"},
     IN_TRANSIT |-> {"OUT_FOR_DELIVERY", "DELIVERED", "EXCEPTION", "RETURNED"},
     OUT_FOR_DELIVERY |-> {"DELIVERED", "EXCEPTION", "RETURNED"},
     EXCEPTION |-> {"IN_TRANSIT", "OUT_FOR_DELIVERY", "RETURNED", "CANCELLED"},
     DELIVERED |-> {}, RETURNED |-> {}, CANCELLED |-> {}]
ShipmentStatuses == DOMAIN shipmentTransitions
orderTransitions ==
    [s \in OrderStatuses |->
        CASE s \in {"PENDING_PAYMENT", "CONFIRMED"} -> {"PROCESSING", "READY"}
          [] s = "PROCESSING" -> {"READY"}
          [] s = "READY" -> {"COMPLETED"}
          [] OTHER -> {}]

canTransitionShipment(from, to) == from = to \/ to \in shipmentTransitions[from]
canTransitionOrder(from, to) == from = to \/ to \in orderTransitions[from]

fulfillmentForOrderStatus(status, delivery, current) ==
    CASE status = "PROCESSING" -> "PREPARING"
      [] status = "READY" /\ delivery # "SHIPPING" -> "READY_FOR_PICKUP"
      [] status = "COMPLETED" -> "DELIVERED"
      [] OTHER -> current

isShipped(status) == status \in {"IN_TRANSIT", "OUT_FOR_DELIVERY"}
-----------------------------------------------------------------------------
NoRequest == [pc |-> "idle"]
Reply(e) == desk' = [desk EXCEPT ![e] = NoRequest]
NoShipment == [status |-> "NONE"]
Paid(o) == order[o].paymentStatus = "APPROVED"

\* Mutated form: an order may be completed before it is paid.
mayAdvance_ReadyToo(o, to) ==
    \/ to = order[o].status \/ Paid(o)
    \/ order[o].method = "CASH"
\* Unpaid orders stay where they are, except that cash orders are prepared.
mayAdvance(o, to) ==
    \/ to = order[o].status \/ Paid(o)
    \/ order[o].method = "CASH" /\ to \in {"PROCESSING", "READY"}

\* updateOrderStatus reads the order ...
ReadForStatus(e, o, to) ==
    /\ desk[e] = NoRequest
    /\ order[o].status # "NONE"
    /\ canTransitionOrder(order[o].status, to)
    /\ mayAdvance(o, to)
    /\ desk' = [desk EXCEPT ![e] =
           [pc |-> "status", order |-> o, from |-> order[o].status, to |-> to,
            fulfilment |-> fulfillmentForOrderStatus(to,
                deliveryMethod(order[o].destination), fulfilment[o])]]
    /\ UNCHANGED <<vars, fulfilment, shipment, announced>>

\* ... and writes what it decided.  A status that was announced before breaks
\* the unique key of its outbox event and with it the transaction.
WriteStatus(e) ==
    LET r == desk[e]
        key == <<r.order, r.to>>
    IN  /\ r.pc = "status"
        /\ r.to # r.from => key \notin announced
        /\ order' = [order EXCEPT ![r.order].status = r.to]
        /\ fulfilment' = [fulfilment EXCEPT ![r.order] = r.fulfilment]
        /\ announced' = IF r.to = r.from THEN announced ELSE announced \cup {key}
        /\ Reply(e)
        /\ UNCHANGED <<now, stock, cart, reservation, payments, proof, uploads,
                       promotion, approvals, shipment>>
FailStatus(e) ==
    /\ desk[e].pc = "status"
    /\ desk[e].to # desk[e].from /\ <<desk[e].order, desk[e].to>> \in announced
    /\ Reply(e)
    /\ UNCHANGED <<vars, fulfilment, shipment, announced>>

mayShip(o) == /\ deliveryMethod(order[o].destination) # "STORE_PICKUP"
              /\ Paid(o) \/ order[o].method = "CASH"
\* ShipmentsService.create reads the order ...
ReadForShipment(e, o, s, status) ==
    /\ desk[e] = NoRequest
    /\ order[o].status \notin {"NONE", "CANCELLED", "EXPIRED", "COMPLETED"}
    /\ mayShip(o)
    /\ status = "DELIVERED" => Paid(o)
    /\ desk' = [desk EXCEPT ![e] =
           [pc |-> "create", order |-> o, shipment |-> s, read |-> "NONE",
            from |-> order[o].status, to |-> status]]
    /\ UNCHANGED <<vars, fulfilment, shipment, announced>>

\* ... and update reads the shipment with its order.
ReadShipment(e, s, status) ==
    /\ desk[e] = NoRequest
    /\ shipment[s] # NoShipment
    /\ canTransitionShipment(shipment[s].status, status)
    /\ status = "DELIVERED" => Paid(shipment[s].order)
    /\ desk' = [desk EXCEPT ![e] =
           [pc |-> "update", order |-> shipment[s].order, shipment |-> s,
            read |-> shipment[s].status,
            from |-> order[shipment[s].order].status, to |-> status]]
    /\ UNCHANGED <<vars, fulfilment, shipment, announced>>

\* updateOrderFromShipment: the order's next row and fulfilment.
orderFromShipment(o, from, status) ==
    CASE status = "DELIVERED" -> "COMPLETED"
      [] from = "CONFIRMED" -> "PROCESSING"
      [] OTHER -> from
fulfillmentFromShipment(status) ==
    CASE status = "DELIVERED" -> "DELIVERED"
      [] isShipped(status) -> "SHIPPED"
      [] OTHER -> "PREPARING"
UpdateOrderFromShipment(o, from, status) ==
    IF status \in {"DELIVERED", "PENDING", "LABEL_CREATED"} \/ isShipped(status)
    THEN /\ order' = [order EXCEPT ![o].status = orderFromShipment(o, from, status)]
         /\ fulfilment' = [fulfilment EXCEPT ![o] = fulfillmentFromShipment(status)]
    ELSE UNCHANGED <<order, fulfilment>>

\* The transactions of both: a tracking number is registered once, and an update
\* that does not change the status leaves the order alone.
WriteShipment(e) ==
    LET r == desk[e]
    IN  /\ r.pc \in {"create", "update"}
        /\ r.pc = "create" => shipment[r.shipment] = NoShipment
        /\ shipment' = [shipment EXCEPT ![r.shipment] =
                            [status |-> r.to, order |-> r.order]]
        /\ IF r.to # r.read THEN UpdateOrderFromShipment(r.order, r.from, r.to)
                            ELSE UNCHANGED <<order, fulfilment>>
        /\ Reply(e)
        /\ UNCHANGED <<now, stock, cart, reservation, payments, proof, uploads,
                       promotion, approvals, announced>>
FailShipment(e) ==
    /\ desk[e].pc = "create" /\ shipment[desk[e].shipment] # NoShipment
    /\ Reply(e)
    /\ UNCHANGED <<vars, fulfilment, shipment, announced>>
-----------------------------------------------------------------------------
DeskInit ==
    /\ Init
    /\ fulfilment = [o \in Orders |-> "UNFULFILLED"]
    /\ shipment = [s \in Shipments |-> NoShipment]
    /\ announced = {}
    /\ desk = [e \in Employees |-> NoRequest]

DeskStep(e) == WriteStatus(e) \/ FailStatus(e) \/ WriteShipment(e) \/ FailShipment(e)

DeskNext ==
    \/ Next /\ UNCHANGED deskVars
    \/ \E e \in Employees, o \in Orders, to \in OrderStatuses : ReadForStatus(e, o, to)
    \/ \E e \in Employees, o \in Orders, s \in Shipments,
          status \in ShipmentStatuses : ReadForShipment(e, o, s, status)
    \/ \E e \in Employees, s \in Shipments, status \in ShipmentStatuses :
          ReadShipment(e, s, status)
    \/ \E e \in Employees : DeskStep(e)

DeskSpec == DeskInit /\ [][DeskNext]_deskShopVars
-----------------------------------------------------------------------------
(* Properties.                                                             *)

\* Nothing leaves the shop unpaid: whatever two employees, the customer and the
\* expiry job do between a read and its write, a completed order and a delivered
\* shipment are paid.
CompletedIsPaid ==
    /\ \A o \in Orders : order[o].status = "COMPLETED" => Paid(o)
    /\ \A s \in Shipments : shipment[s].status = "DELIVERED" => Paid(shipment[s].order)

\* A shipment belongs to an order that is paid and is not picked up: the change
\* of a pending order to pickup or to cash never meets one.
ShipmentsOfPaidOrders ==
    \A s \in Shipments : shipment[s] # NoShipment =>
        LET o == shipment[s].order
        IN  /\ Paid(o) /\ order[o].status \notin ClosedStatuses
            /\ deliveryMethod(order[o].destination) # "STORE_PICKUP"

\* The status of an order follows its transitions, or is that of a closed, paid
\* or delivered one (docs/BACKEND.md, 'Los estados de orden y envio avanzan
\* mediante transiciones controladas').
AdvancesByTransitions ==
    [][\A o \in Orders : order[o].status # "NONE" =>
          \/ canTransitionOrder(order[o].status, order'[o].status)
          \/ order'[o].status \in ClosedStatuses \cup {"COMPLETED"}
          \/ order[o].status = "PENDING_PAYMENT" /\ order'[o].status = "CONFIRMED"]_deskShopVars

\* A cancelled or expired order stays closed (same line).
ClosedStays ==
    \A o \in Orders : order[o].status \in ClosedStatuses =>
        order'[o].status = order[o].status
ClosedStaysClosed == [][ClosedStays]_deskShopVars

\* A shipment that was delivered, returned or cancelled does not move any more
\* (commerce-rules.spec.ts, 'bloquea cambios despues de entregar').
FinishedShipmentsRest ==
    [][\A s \in Shipments : shipment[s].status \in {"DELIVERED", "RETURNED", "CANCELLED"}
          => shipment'[s].status = shipment[s].status]_deskShopVars

\* A paid order that waits for its preparation can still be announced as ready
\* and be completed.
PaidOrdersCanBeReady ==
    \A o \in Orders :
        Paid(o) /\ order[o].status \in {"CONFIRMED", "PROCESSING"} =>
            <<o, "READY">> \notin announced
=============================================================================

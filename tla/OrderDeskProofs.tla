-------------------------- MODULE OrderDeskProofs --------------------------
(***************************************************************************)
(* Proofs about the order desk and the shipments, for every number of      *)
(* employees, orders and shipments: nothing is completed or delivered      *)
(* unpaid, and what the desk writes from what it read before disturbs      *)
(* neither the stock nor the sale of an order.                             *)
(*                                                                         *)
(* A request of the desk decides by a status that may be old when it is    *)
(* written.  What makes it safe is that an order that is paid stays paid:  *)
(* what was read as paid is paid when the request writes.                  *)
(***************************************************************************)
EXTENDS OrderDesk, CheckoutProofs
-----------------------------------------------------------------------------
(* The invariant.                                                          *)

IsPlaced(o) == o \in Orders /\ order[o].status # "NONE"

\* What a request of the desk has decided, by what it may write.
DeskSays(e) ==
    /\ desk[e].pc = "status" =>
          /\ IsPlaced(desk[e].order) /\ desk[e].to \in OrderStatuses
          /\ desk[e].to = "COMPLETED" => Paid(desk[e].order)
    /\ desk[e].pc \in {"create", "update"} =>
          /\ IsPlaced(desk[e].order)
          /\ desk[e].from \in OrderStatuses /\ desk[e].to \in ShipmentStatuses
          /\ desk[e].from = "COMPLETED" => Paid(desk[e].order)
          /\ desk[e].to = "DELIVERED" => Paid(desk[e].order)

ShipmentSays(s) ==
    shipment[s] # NoShipment =>
        /\ IsPlaced(shipment[s].order) /\ shipment[s].status \in ShipmentStatuses
        /\ shipment[s].status = "DELIVERED" => Paid(shipment[s].order)

OrderIsPaid(o) == order[o].status = "COMPLETED" => Paid(o)

DeskInv ==
    /\ TypeOK
    /\ desk = [e \in Employees |-> desk[e]]
    /\ shipment = [s \in Shipments |-> shipment[s]]
    /\ \A o \in Orders : OrderIsPaid(o)
    /\ \A s \in Shipments : ShipmentSays(s)
    /\ \A e \in Employees : DeskSays(e)

\* What holds of a placed order stays: it is placed, and paid if it was.
PaidGoesOn ==
    \A o \in Orders : order[o].status # "NONE" =>
        order'[o].status # "NONE" /\ (Paid(o) => Paid(o)')

LEMMA SayingsGoOn ==
    ASSUME DeskInv, PaidGoesOn
    PROVE  /\ \A e \in Employees : desk'[e] = desk[e] => DeskSays(e)'
           /\ \A s \in Shipments : shipment'[s] = shipment[s] => ShipmentSays(s)'
           /\ \A o \in Orders : order'[o].status = order[o].status /\ order[o].status # "NONE"
                                   => OrderIsPaid(o)'
<1>1. \A o : IsPlaced(o) => IsPlaced(o)' /\ (Paid(o) => Paid(o)')
  BY DEF PaidGoesOn, IsPlaced
<1>2. ASSUME NEW e \in Employees, desk'[e] = desk[e]
      PROVE  DeskSays(e)'
  <2>1. DeskSays(e)
    BY DEF DeskInv
  <2>2. desk[e].pc = "status" \/ desk[e].pc \in {"create", "update"} =>
          /\ order'[desk[e].order].status # "NONE"
          /\ Paid(desk[e].order) => order'[desk[e].order].paymentStatus = "APPROVED"
    BY <2>1 DEF DeskSays, IsPlaced, PaidGoesOn, Paid
  <2> QED
    BY <1>2, <2>1, <2>2 DEF DeskSays, Paid, IsPlaced
<1>3. ASSUME NEW s \in Shipments, shipment'[s] = shipment[s]
      PROVE  ShipmentSays(s)'
  <2>1. ShipmentSays(s)
    BY DEF DeskInv
  <2> QED
    BY <1>1, <1>3, <2>1 DEF ShipmentSays, Paid, IsPlaced
<1>4. ASSUME NEW o \in Orders, order'[o].status = order[o].status, order[o].status # "NONE"
      PROVE  OrderIsPaid(o)'
  BY <1>4 DEF DeskInv, OrderIsPaid, PaidGoesOn
<1> QED
  BY <1>2, <1>3, <1>4
-----------------------------------------------------------------------------
(* The steps of the shop.                                                  *)

LEMMA ShopKeepsPaid ==
    ASSUME TypeOK, [Next]_vars
    PROVE  /\ PaidGoesOn
           /\ \A o \in Orders : order'[o].status = "COMPLETED" =>
                 order[o].status = "COMPLETED"
<1> SUFFICES ASSUME NEW o \in Orders
             PROVE  /\ order[o].status # "NONE" =>
                          order'[o].status # "NONE" /\ (Paid(o) => Paid(o)')
                    /\ order'[o].status = "COMPLETED" => order[o].status = "COMPLETED"
  BY DEF PaidGoesOn
<1>1. Untouched(o) \/ Changed(o)
  BY StepShape
<1>2. CASE Untouched(o)
  BY <1>2 DEF Untouched, Paid
<1>3. CASE Placed(o)
  BY <1>3 DEF Placed
<1>4. CASE Rewritten(o)
  BY <1>4 DEF Rewritten, Paid
<1>5. CASE Sold(o)
  BY <1>5 DEF Sold, Confirmed, Paid
<1>6. CASE Closed(o)
  BY <1>6 DEF Closed, ClosedStatuses, Paid
<1>7. CASE LineExpired(o)
  BY <1>7 DEF LineExpired, Paid
<1> QED
  BY <1>1, <1>2, <1>3, <1>4, <1>5, <1>6, <1>7 DEF Changed

LEMMA ShopKeepsDesk ==
    ASSUME DeskInv, [Next]_vars, UNCHANGED deskVars
    PROVE  DeskInv'
<1>1. TypeOK /\ TypeOK'
  BY TypeNext DEF DeskInv
<1>2. PaidGoesOn /\ UNCHANGED <<desk, shipment>>
  BY <1>1, ShopKeepsPaid DEF deskVars
<1>3. \A o \in Orders : OrderIsPaid(o)'
  <2> SUFFICES ASSUME NEW o \in Orders, order'[o].status = "COMPLETED"
               PROVE  Paid(o)'
    BY DEF OrderIsPaid
  <2>1. order[o].status = "COMPLETED"
    BY <1>1, ShopKeepsPaid
  <2> QED
    BY <1>2, <2>1 DEF DeskInv, OrderIsPaid, PaidGoesOn
<1>4. /\ \A e \in Employees : DeskSays(e)'
      /\ \A s \in Shipments : ShipmentSays(s)'
  BY <1>2, SayingsGoOn
<1> QED
  BY <1>1, <1>2, <1>3, <1>4 DEF DeskInv
-----------------------------------------------------------------------------
(* The steps of the desk.                                                  *)

\* A request reads, and writes nothing yet.
LEMMA RequestRead ==
    ASSUME DeskInv, NEW e \in Employees, NEW r, desk' = [desk EXCEPT ![e] = r],
           UNCHANGED <<vars, shipment>>, DeskSays(e)'
    PROVE  DeskInv'
<1>1. PaidGoesOn /\ TypeOK'
  BY DEF vars, PaidGoesOn, Paid, DeskInv, TypeOK, stock, promotion
<1>2. /\ desk' = [f \in Employees |-> desk'[f]] /\ desk'[e] = r
      /\ \A f \in Employees \ {e} : desk'[f] = desk[f]
  BY DEF DeskInv
<1>3. \A f \in Employees : DeskSays(f)'
  BY <1>2, <1>1, SayingsGoOn
<1>4. \A s \in Shipments : ShipmentSays(s)'
  BY <1>1, SayingsGoOn
<1>5. \A o \in Orders : OrderIsPaid(o)'
  BY DEF vars, DeskInv, OrderIsPaid, Paid
<1> QED
  BY <1>1, <1>2, <1>3, <1>4, <1>5 DEF DeskInv

\* The status the desk writes, and nothing else of the shop.
StatusWritten(o, to) ==
    /\ IsPlaced(o) /\ to \in OrderStatuses
    /\ order' = [order EXCEPT ![o].status = to]
    /\ UNCHANGED <<now, stock, cart, reservation, payments, proof, uploads, promotion,
                   approvals>>

LEMMA WrittenRow ==
    ASSUME TypeOK, NEW o, NEW to, StatusWritten(o, to)
    PROVE  /\ TypeOK' /\ order'[o].status = to
           /\ \A p \in Orders : /\ order'[p].paymentStatus = order[p].paymentStatus
                                /\ order'[p].items = order[p].items
                                /\ order'[p].status = "NONE" <=> order[p].status = "NONE"
           /\ \A p \in Orders \ {o} : order'[p] = order[p]
<1>1. o \in Orders /\ order \in [Orders -> OrderRow] /\ order[o] \in OrderRow
      /\ to \in OrderStatuses /\ order[o].status # "NONE"
  BY DEF TypeOK, StatusWritten, IsPlaced
<1> DEFINE r == [order[o] EXCEPT !.status = to]
<1>2. /\ r \in OrderRow /\ r.status = to
      /\ r.paymentStatus = order[o].paymentStatus /\ r.items = order[o].items
  BY <1>1 DEF OrderRow
<1>3. order' = [order EXCEPT ![o] = r]
  BY <1>1 DEF StatusWritten, OrderRow
<1>4. to # "NONE"
  BY <1>1 DEF OrderStatuses
<1> HIDE DEF r
<1>5. /\ order' \in [Orders -> OrderRow] /\ order'[o] = r
      /\ \A p \in Orders \ {o} : order'[p] = order[p]
  BY <1>1, <1>2, <1>3
<1>6. TypeOK'
  BY <1>5 DEF TypeOK, StatusWritten, stock, promotion
<1> QED
  BY <1>1, <1>2, <1>4, <1>5, <1>6

\* What the desk does to the shop in one step: nothing, or a status.
LEMMA DeskShape ==
    ASSUME DeskInv, [DeskNext]_deskShopVars
    PROVE  \/ [Next]_vars /\ UNCHANGED deskVars
           \/ UNCHANGED vars
           \/ \E o \in Orders, to \in OrderStatuses : StatusWritten(o, to)
<1>1. ASSUME NEW e \in Employees, WriteStatus(e)
      PROVE  StatusWritten(desk[e].order, desk[e].to)
  <2>1. DeskSays(e) /\ desk[e].pc = "status"
    BY <1>1 DEF DeskInv, WriteStatus
  <2> QED
    BY <1>1, <2>1 DEF DeskSays, WriteStatus, StatusWritten
<1>2. ASSUME NEW e \in Employees, WriteShipment(e)
      PROVE  \/ UNCHANGED vars
             \/ StatusWritten(desk[e].order,
                    orderFromShipment(desk[e].order, desk[e].from, desk[e].to))
  <2>1. DeskSays(e) /\ desk[e].pc \in {"create", "update"}
    BY <1>2 DEF DeskInv, WriteShipment
  <2>2. orderFromShipment(desk[e].order, desk[e].from, desk[e].to) \in OrderStatuses
    BY <2>1 DEF DeskSays, orderFromShipment, OrderStatuses
  <2>3. CASE order' = order
    BY <1>2, <2>3 DEF WriteShipment, vars
  <2>4. CASE order' = [order EXCEPT ![desk[e].order].status =
                          orderFromShipment(desk[e].order, desk[e].from, desk[e].to)]
    BY <1>2, <2>1, <2>2, <2>4 DEF DeskSays, WriteShipment, StatusWritten
  <2> QED
    BY <1>2, <2>3, <2>4 DEF WriteShipment, UpdateOrderFromShipment
<1>3. ASSUME NEW e \in Employees, FailStatus(e) \/ FailShipment(e)
      PROVE  UNCHANGED vars
  BY <1>3 DEF FailStatus, FailShipment
<1>4. ASSUME NEW e \in Employees,
             \/ \E o \in Orders, to \in OrderStatuses : ReadForStatus(e, o, to)
             \/ \E o \in Orders, s \in Shipments, status \in ShipmentStatuses :
                   ReadForShipment(e, o, s, status)
             \/ \E s \in Shipments, status \in ShipmentStatuses : ReadShipment(e, s, status)
      PROVE  UNCHANGED vars
  BY <1>4 DEF ReadForStatus, ReadForShipment, ReadShipment
<1>5. CASE UNCHANGED deskShopVars
  BY <1>5 DEF deskShopVars
<1>6. \A o, to : StatusWritten(o, to) => o \in Orders /\ to \in OrderStatuses
  BY DEF StatusWritten, IsPlaced
<1> QED
  BY <1>1, <1>2, <1>3, <1>4, <1>5, <1>6 DEF DeskNext, DeskStep

LEMMA ReadsKeep ==
    ASSUME DeskInv, NEW e \in Employees,
             \/ \E o \in Orders, to \in OrderStatuses : ReadForStatus(e, o, to)
             \/ \E o \in Orders, s \in Shipments, status \in ShipmentStatuses :
                   ReadForShipment(e, o, s, status)
             \/ \E s \in Shipments, status \in ShipmentStatuses : ReadShipment(e, s, status)
             \/ FailStatus(e) \/ FailShipment(e)
    PROVE  DeskInv'
<1>1. ASSUME NEW r, desk' = [desk EXCEPT ![e] = r]
      PROVE  desk'[e] = r
  BY <1>1 DEF DeskInv
<1>2. \A o \in Orders : order[o].status \in OrderStatuses \cup {"NONE"}
  BY DEF DeskInv, TypeOK, OrderRow
<1>3. \A o \in Orders : order[o].status = "COMPLETED" => Paid(o)
  BY DEF DeskInv, OrderIsPaid
<1>4. ASSUME NEW o \in Orders, NEW to \in OrderStatuses, ReadForStatus(e, o, to)
      PROVE  DeskInv'
  <2> DEFINE r == [pc |-> "status", order |-> o, from |-> order[o].status, to |-> to,
                   fulfilment |-> fulfillmentForOrderStatus(to,
                       deliveryMethod(order[o].destination), fulfilment[o])]
  <2>1. desk' = [desk EXCEPT ![e] = r] /\ UNCHANGED <<vars, shipment>>
        /\ order[o].status # "NONE" /\ mayAdvance(o, to)
    BY <1>4 DEF ReadForStatus
  <2>2. r.pc = "status" /\ r.order = o /\ r.to = to
    OBVIOUS
  <2> HIDE DEF r
  <2>3. to = "COMPLETED" => Paid(o)
    BY <1>3, <2>1 DEF mayAdvance
  <2>4. desk'[e] = r /\ order' = order
    BY <1>1, <2>1 DEF vars
  <2>5. DeskSays(e)'
    BY <2>1, <2>2, <2>3, <2>4 DEF DeskSays, IsPlaced, Paid
  <2> QED
    BY <2>1, <2>5, RequestRead
<1>5. ASSUME NEW o \in Orders, NEW s \in Shipments, NEW status \in ShipmentStatuses,
             ReadForShipment(e, o, s, status)
      PROVE  DeskInv'
  <2> DEFINE r == [pc |-> "create", order |-> o, shipment |-> s, read |-> "NONE",
                   from |-> order[o].status, to |-> status]
  <2>1. /\ desk' = [desk EXCEPT ![e] = r] /\ UNCHANGED <<vars, shipment>>
        /\ order[o].status \notin {"NONE", "CANCELLED", "EXPIRED", "COMPLETED"}
        /\ status = "DELIVERED" => Paid(o)
    BY <1>5 DEF ReadForShipment
  <2>2. /\ r.pc = "create" /\ r.order = o /\ r.from = order[o].status /\ r.to = status
        /\ r.from \in OrderStatuses
    BY <1>2, <2>1
  <2> HIDE DEF r
  <2>3. desk'[e] = r /\ order' = order
    BY <1>1, <2>1 DEF vars
  <2>4. DeskSays(e)'
    BY <2>1, <2>2, <2>3 DEF DeskSays, IsPlaced, Paid
  <2> QED
    BY <2>1, <2>4, RequestRead
<1>6. ASSUME NEW s \in Shipments, NEW status \in ShipmentStatuses, ReadShipment(e, s, status)
      PROVE  DeskInv'
  <2> DEFINE o == shipment[s].order
             r == [pc |-> "update", order |-> o, shipment |-> s,
                   read |-> shipment[s].status,
                   from |-> order[shipment[s].order].status, to |-> status]
  <2>1. /\ desk' = [desk EXCEPT ![e] = r] /\ UNCHANGED <<vars, shipment>>
        /\ shipment[s] # NoShipment
        /\ status = "DELIVERED" => Paid(o)
    BY <1>6 DEF ReadShipment
  <2>2. IsPlaced(o)
    BY <2>1 DEF DeskInv, ShipmentSays
  <2>3. /\ r.pc = "update" /\ r.order = o /\ r.from = order[o].status /\ r.to = status
        /\ order[o].status \in OrderStatuses
    BY <1>2, <2>2 DEF IsPlaced
  <2> HIDE DEF o, r
  <2>4. desk'[e] = r /\ order' = order
    BY <1>1, <2>1 DEF vars
  <2>5. DeskSays(e)'
    BY <1>3, <2>1, <2>2, <2>3, <2>4 DEF DeskSays, IsPlaced, Paid
  <2> QED
    BY <2>1, <2>5, RequestRead
<1>7. ASSUME FailStatus(e) \/ FailShipment(e)
      PROVE  DeskInv'
  <2>1. desk' = [desk EXCEPT ![e] = NoRequest] /\ UNCHANGED <<vars, shipment>>
    BY <1>7 DEF FailStatus, FailShipment, Reply
  <2>2. desk'[e] = NoRequest
    BY <2>1 DEF DeskInv
  <2>3. DeskSays(e)'
    BY <2>2 DEF DeskSays, NoRequest
  <2> QED
    BY <2>1, <2>3, RequestRead
<1> QED
  BY <1>4, <1>5, <1>6, <1>7

\* What a request writes: the status it decided, paid if it says completed.
LEMMA WritesKeep ==
    ASSUME DeskInv, NEW e \in Employees, WriteStatus(e) \/ WriteShipment(e)
    PROVE  DeskInv'
<1> DEFINE r == desk[e]
<1>1. /\ DeskSays(e) /\ TypeOK
      /\ \A o \in Orders : OrderIsPaid(o)
  BY DEF DeskInv
<1>2. \/ UNCHANGED vars
      \/ \E to \in OrderStatuses : /\ StatusWritten(r.order, to)
                                   /\ to = "COMPLETED" => Paid(r.order)
  <2>1. CASE WriteStatus(e)
    BY <1>1, <2>1 DEF WriteStatus, DeskSays, StatusWritten
  <2>2. CASE WriteShipment(e)
    <3> DEFINE to == orderFromShipment(r.order, r.from, r.to)
    <3>1. r.pc \in {"create", "update"}
      BY <2>2 DEF WriteShipment
    <3>2. to \in OrderStatuses /\ (to = "COMPLETED" => Paid(r.order))
      BY <1>1, <3>1 DEF DeskSays, orderFromShipment, OrderStatuses
    <3>3. CASE order' = order
      BY <2>2, <3>3 DEF WriteShipment, vars
    <3>4. CASE order' = [order EXCEPT ![r.order].status = to]
      BY <1>1, <2>2, <3>1, <3>2, <3>4 DEF DeskSays, WriteShipment, StatusWritten
    <3> QED
      BY <2>2, <3>3, <3>4 DEF WriteShipment, UpdateOrderFromShipment
  <2> QED
    BY <2>1, <2>2
<1>3. /\ TypeOK' /\ PaidGoesOn /\ \A o \in Orders : OrderIsPaid(o)'
      /\ \A o \in Orders : Paid(o) => Paid(o)'
  <2>1. CASE UNCHANGED vars
    BY <1>1, <2>1 DEF vars, TypeOK, stock, promotion, PaidGoesOn, OrderIsPaid, Paid
  <2>2. ASSUME NEW to \in OrderStatuses, StatusWritten(r.order, to),
               to = "COMPLETED" => Paid(r.order)
        PROVE  /\ TypeOK' /\ PaidGoesOn /\ \A o \in Orders : OrderIsPaid(o)'
               /\ \A o \in Orders : Paid(o) => Paid(o)'
    <3> DEFINE p == r.order
    <3>1. /\ TypeOK' /\ order'[p].status = to
          /\ \A o \in Orders : /\ order'[o].paymentStatus = order[o].paymentStatus
                               /\ order'[o].status = "NONE" <=> order[o].status = "NONE"
          /\ \A o \in Orders \ {p} : order'[o] = order[o]
      BY <1>1, <2>2, WrittenRow
    <3>2. to = "COMPLETED" => Paid(p)
      BY <2>2
    <3> HIDE DEF p
    <3> QED
      BY <1>1, <3>1, <3>2 DEF PaidGoesOn, OrderIsPaid, Paid
  <2> QED
    BY <1>2, <2>1, <2>2
<1>4. desk' = [desk EXCEPT ![e] = NoRequest]
  BY DEF WriteStatus, WriteShipment, Reply
<1>5. /\ desk' = [f \in Employees |-> desk'[f]] /\ desk'[e] = NoRequest
      /\ \A f \in Employees \ {e} : desk'[f] = desk[f]
  BY <1>4 DEF DeskInv
<1>6. \A f \in Employees : DeskSays(f)'
  <2>1. DeskSays(e)'
    BY <1>5 DEF DeskSays, NoRequest
  <2> QED
    BY <1>3, <1>5, <2>1, SayingsGoOn
<1>7. /\ shipment' = [s \in Shipments |-> shipment'[s]]
      /\ \A s \in Shipments : ShipmentSays(s)'
  <2>1. CASE WriteStatus(e)
    <3>1. shipment' = shipment
      BY <2>1 DEF WriteStatus
    <3> QED
      BY <1>3, <3>1, SayingsGoOn DEF DeskInv
  <2>2. CASE WriteShipment(e)
    <3> DEFINE n == [status |-> r.to, order |-> r.order]
    <3>1. shipment' = [shipment EXCEPT ![r.shipment] = n] /\ r.pc \in {"create", "update"}
      BY <2>2 DEF WriteShipment
    <3>2. /\ IsPlaced(r.order) /\ r.to \in ShipmentStatuses
          /\ r.to = "DELIVERED" => Paid(r.order)
      BY <1>1, <3>1 DEF DeskSays
    <3>3. /\ order'[r.order].status # "NONE" /\ r.order \in Orders
          /\ r.to = "DELIVERED" => order'[r.order].paymentStatus = "APPROVED"
      BY <1>3, <3>2 DEF IsPlaced, PaidGoesOn, Paid
    <3>4. n.status = r.to /\ n.order = r.order
      OBVIOUS
    <3> HIDE DEF n
    <3>5. ASSUME NEW s \in Shipments
          PROVE  ShipmentSays(s)'
      <4>1. CASE shipment'[s] = n
        BY <3>2, <3>3, <3>4, <4>1 DEF ShipmentSays, IsPlaced, Paid
      <4>2. CASE shipment'[s] = shipment[s]
        BY <1>3, <4>2, SayingsGoOn
      <4>3. shipment'[s] = n \/ shipment'[s] = shipment[s]
        BY <3>1 DEF DeskInv
      <4> QED
        BY <4>1, <4>2, <4>3
    <3>6. shipment' = [s \in Shipments |-> shipment'[s]]
      BY <3>1 DEF DeskInv
    <3> QED
      BY <3>5, <3>6
  <2> QED
    BY <2>1, <2>2
<1> QED
  BY <1>3, <1>5, <1>6, <1>7 DEF DeskInv
-----------------------------------------------------------------------------
(* Every behaviour.                                                        *)

LEMMA DeskStarts == DeskInit => DeskInv
<1> SUFFICES ASSUME DeskInit PROVE DeskInv
  OBVIOUS
<1>1. TypeOK
  BY TypeInit DEF DeskInit
<1>2. \A o \in Orders : OrderIsPaid(o)
  BY DEF DeskInit, Init, NoOrder, OrderIsPaid
<1>3. /\ desk = [e \in Employees |-> desk[e]] /\ shipment = [s \in Shipments |-> shipment[s]]
      /\ \A e \in Employees : desk[e].pc = "idle"
      /\ \A s \in Shipments : shipment[s] = NoShipment
  BY DEF DeskInit, NoRequest
<1> QED
  BY <1>1, <1>2, <1>3 DEF DeskInv, DeskSays, ShipmentSays

LEMMA DeskKeeps == DeskInv /\ [DeskNext]_deskShopVars => DeskInv'
<1> SUFFICES ASSUME DeskInv, [DeskNext]_deskShopVars PROVE DeskInv'
  OBVIOUS
<1>1. CASE [Next]_vars /\ UNCHANGED deskVars
  BY <1>1, ShopKeepsDesk
<1>2. ASSUME NEW e \in Employees, DeskStep(e)
      PROVE  DeskInv'
  BY <1>2, ReadsKeep, WritesKeep DEF DeskStep
<1>3. CASE UNCHANGED deskShopVars
  BY <1>1, <1>3 DEF deskShopVars
<1> QED
  BY <1>1, <1>2, <1>3, ReadsKeep DEF DeskNext

\* Whatever the employees read and write late, while customers, payments and the
\* expiry job go on: a completed order and a delivered shipment are paid.
THEOREM NothingLeavesUnpaid == DeskSpec => []CompletedIsPaid
<1>1. DeskInv => CompletedIsPaid
  <2> SUFFICES ASSUME DeskInv, NEW s \in Shipments, shipment[s].status = "DELIVERED"
               PROVE  Paid(shipment[s].order)
    BY DEF DeskInv, OrderIsPaid, CompletedIsPaid
  <2>1. shipment[s] # NoShipment
    BY DEF NoShipment
  <2> QED
    BY <2>1 DEF DeskInv, ShipmentSays
<1> QED
  BY <1>1, DeskStarts, DeskKeeps, PTL DEF DeskSpec
-----------------------------------------------------------------------------
(* The stock and the sale, when the desk writes.                           *)

LEMMA StatusHolds ==
    ASSUME TypeOK, NEW o, NEW to, StatusWritten(o, to)
    PROVE  /\ \A v \in Variants : Holds(v)' = Holds(v)
           /\ UNCHANGED <<stock, reservation>>
<1>1. \A p \in Orders : order'[p].items = order[p].items
  BY WrittenRow
<1> QED
  BY <1>1 DEF StatusWritten, Holds

LEMMA DeskStock ==
    ASSUME DeskInv, StockInv, [DeskNext]_deskShopVars
    PROVE  StockInv'
<1>1. TypeOK
  BY DEF DeskInv
<1>2. CASE [Next]_vars
  BY <1>2, StockNext
<1>3. ASSUME NEW o \in Orders, NEW to \in OrderStatuses, StatusWritten(o, to)
      PROVE  StockInv'
  <2>1. /\ TypeOK' /\ \A p \in Orders : order'[p].status = "NONE" <=> order[p].status = "NONE"
    BY <1>1, <1>3, WrittenRow
  <2>2. UnplacedHoldsNothing'
    BY <1>1, <1>3, <2>1, StatusHolds DEF StockInv, UnplacedHoldsNothing, ActiveItems
  <2> QED
    BY <1>1, <1>3, <2>1, <2>2, StatusHolds, StockUntouched DEF StockInv
<1> QED
  BY <1>2, <1>3, DeskShape

LEMMA DeskTrail ==
    ASSUME DeskInv, AuditTrail, [DeskNext]_deskShopVars
    PROVE  AuditTrail'
<1>1. TypeOK
  BY DEF DeskInv
<1>2. CASE [Next]_vars
  BY <1>1, <1>2, TrailNext
<1>3. ASSUME NEW o \in Orders, NEW to \in OrderStatuses, StatusWritten(o, to)
      PROVE  AuditTrail'
  BY <1>3 DEF StatusWritten, AuditTrail, stock
<1> QED
  BY <1>2, <1>3, DeskShape

LEMMA DeskSale ==
    ASSUME DeskInv, SaleInv, [DeskNext]_deskShopVars
    PROVE  SaleInv'
<1>1. TypeOK
  BY DEF DeskInv
<1>2. CASE [Next]_vars
  BY <1>2, SaleNext
<1>3. ASSUME NEW o \in Orders, NEW to \in OrderStatuses, StatusWritten(o, to)
      PROVE  SaleInv'
  <2>1. /\ TypeOK'
        /\ \A p \in Orders : /\ order'[p].paymentStatus = order[p].paymentStatus
                             /\ order'[p].status = "NONE" <=> order[p].status = "NONE"
    BY <1>1, <1>3, WrittenRow
  <2>2. UNCHANGED <<reservation, payments, approvals>>
    BY <1>3 DEF StatusWritten
  <2>3. \A p \in Orders : SaleSays(p)' /\ (IsSold(p)' => order'[p].paymentStatus = "APPROVED")
    BY <2>1, <2>2 DEF SaleInv, SaleSays, IsSold, ActiveItems
  <2> QED
    BY <2>1, <2>3 DEF SaleInv
<1> QED
  BY <1>2, <1>3, DeskShape

\* The stock, its movements and the sale, from the first state on.
DeskShopInv == DeskInv /\ StockInv /\ AuditTrail /\ SaleInv

LEMMA DeskShopStarts == DeskInit => DeskShopInv
BY DeskStarts, StockInit, TrailInit, SaleInit DEF DeskInit, DeskShopInv

LEMMA DeskShopKeeps == DeskShopInv /\ [DeskNext]_deskShopVars => DeskShopInv'
BY DeskKeeps, DeskStock, DeskTrail, DeskSale DEF DeskShopInv

\* Nothing is oversold, reserved twice or moved without a movement, whatever
\* statuses the desk writes from what it read before.
THEOREM DeskOversellsNothing ==
    DeskSpec => [](StockBalanced /\ ReservedIsHeld /\ AuditTrail)
<1>1. DeskShopInv => StockBalanced /\ ReservedIsHeld /\ AuditTrail
  BY DEF DeskShopInv, StockInv
<1> QED
  BY <1>1, DeskShopStarts, DeskShopKeeps, PTL DEF DeskSpec

\* An order is sold once and when it is paid, also one that the desk brings back
\* to a status it had.
THEOREM DeskSellsNothingTwice == DeskSpec => []SoldOncePaid
<1>1. DeskShopInv => SoldOncePaid
  BY DEF DeskShopInv, SaleInv, SaleSays, IsSold, SoldOncePaid
<1> QED
  BY <1>1, DeskShopStarts, DeskShopKeeps, PTL DEF DeskSpec

LEMMA DeskLedgerStep ==
    DeskShopInv /\ [DeskNext]_deskShopVars => [Ledger!LedgerNext]_(Ledger!ledgerVars)
<1> SUFFICES ASSUME DeskShopInv, [DeskNext]_deskShopVars
             PROVE  [Ledger!LedgerNext]_(Ledger!ledgerVars)
  OBVIOUS
<1>1. DeskInv /\ StockInv /\ TypeOK
  BY DEF DeskShopInv, DeskInv
<1>2. CASE [Next]_vars
  BY <1>1, <1>2, LedgerStep
<1>3. ASSUME NEW o \in Orders, NEW to \in OrderStatuses, StatusWritten(o, to)
      PROVE  UNCHANGED Ledger!ledgerVars
  <2>1. UNCHANGED onHand /\ \A v \in Variants : Holds(v)' = Holds(v)
    BY <1>1, <1>3, StatusHolds DEF stock
  <2>2. \A p \in Orders, v \in Variants : /\ LedgerHold[p][v] = Holds(v)[p]
                                          /\ LedgerHold'[p][v] = Holds(v)'[p]
    BY DEF LedgerHold, Holds
  <2>3. LedgerHold' = LedgerHold
    BY <2>1, <2>2 DEF LedgerHold
  <2> QED
    BY <2>1, <2>3 DEF Ledger!ledgerVars, LedgerHold
<1> QED
  BY <1>1, <1>2, <1>3, DeskShape

\* The shop with its order desk implements the stock ledger.
THEOREM DeskImplementsLedger == DeskSpec => LedgerSpec
<1>1. DeskInit => Ledger!LedgerInit
  BY LedgerInitially DEF DeskInit
<1> QED
  BY <1>1, DeskLedgerStep, DeskShopStarts, DeskShopKeeps, PTL
     DEF DeskSpec, LedgerSpec, Ledger!LedgerSpec
-----------------------------------------------------------------------------
(* What is shipped.                                                        *)

PickedUp(o) == deliveryMethod(order[o].destination) = "STORE_PICKUP"
CashIsPickedUp(o) == order[o].method = "CASH" => PickedUp(o)

\* Where an order goes and how it is paid change before it is paid only.
RouteGoesOn(o) ==
    \/ order'[o].method = order[o].method /\ order'[o].destination = order[o].destination
    \/ CashIsPickedUp(o)' /\ ~Paid(o) /\ ~Paid(o)'

LEMMA SameRoute ==
    ASSUME TypeOK, NEW p, NEW s, NEW q, order' = StatusTo(p, s, q)
    PROVE  \A o \in Orders : RouteGoesOn(o)
<1> SUFFICES ASSUME NEW o \in Orders PROVE RouteGoesOn(o)
  OBVIOUS
<1>1. order[o] \in OrderRow /\ order \in [Orders -> OrderRow]
  BY DEF TypeOK
<1>2. order'[o] = IF o = p THEN [order[o] EXCEPT !.status = s, !.paymentStatus = q] ELSE order[o]
  BY <1>1 DEF StatusTo
<1> QED
  BY <1>1, <1>2 DEF RouteGoesOn, OrderRow

LEMMA NewRoute ==
    ASSUME TypeOK, NEW o \in Orders, NEW row, order' = [order EXCEPT ![o] = row],
           row.method = "CASH" => deliveryMethod(row.destination) = "STORE_PICKUP",
           ~Paid(o), row.paymentStatus # "APPROVED"
    PROVE  \A p \in Orders : RouteGoesOn(p)
<1>1. order'[o] = row /\ \A p \in Orders \ {o} : order'[p] = order[p]
  BY DEF TypeOK
<1> QED
  BY <1>1 DEF RouteGoesOn, CashIsPickedUp, PickedUp, Paid

LEMMA ShopKeepsRoute ==
    ASSUME TypeOK, [Next]_vars, \A o \in Orders : order[o].status = "NONE" => ~Paid(o)
    PROVE  \A o \in Orders : RouteGoesOn(o)
<1>1. CASE order' = order
  BY <1>1 DEF RouteGoesOn
<1>2. ASSUME NEW p, NEW s, NEW q, order' = StatusTo(p, s, q)
      PROVE  \A o \in Orders : RouteGoesOn(o)
  BY <1>2, SameRoute
<1>3. \A o \in Orders : order[o] \in OrderRow
  BY DEF TypeOK
<1>4. ASSUME NEW o \in Orders, NEW c \in Carts, NEW customer \in Customers,
             NEW choice \in Choices, NEW destination \in Destinations, NEW eligible \in BOOLEAN,
             Create(o, c, customer, choice, destination, eligible)
      PROVE  \A p \in Orders : RouteGoesOn(p)
  <2> DEFINE quote == quoteStatus(destination)
             row == [status |-> "PENDING_PAYMENT", paymentStatus |-> "PENDING",
                     method |-> MethodOf(choice), destination |-> destination,
                     quote |-> quote, shipping |-> shippingCents(destination),
                     createdAt |-> now, expiresAt |-> expirationAfter(quote, MethodOf(choice)),
                     customer |-> customer, items |-> cart[c].items]
  <2>1. /\ order' = [order EXCEPT ![o] = row] /\ row.method = MethodOf(choice)
        /\ row.destination = destination /\ row.paymentStatus = "PENDING"
    BY <1>4 DEF Create
  <2> HIDE DEF row
  <2>2. validPair(choice, destination) /\ ~Paid(o)
    BY <1>4 DEF Create
  <2> QED
    BY <2>1, <2>2, NewRoute DEF validPair, MethodOf
<1>5. ASSUME NEW o \in Orders, NEW choice \in Choices, NEW destination \in Destinations,
             UpdatePendingCheckout(o, choice, destination)
      PROVE  \A p \in Orders : RouteGoesOn(p)
  <2>1. PICK quote, shipping, t :
           order' = [order EXCEPT ![o].method = MethodOf(choice),
                        ![o].destination = destination, ![o].quote = quote,
                        ![o].shipping = shipping, ![o].paymentStatus = "PENDING",
                        ![o].expiresAt = t]
    BY <1>5 DEF UpdatePendingCheckout
  <2> DEFINE row == [order[o] EXCEPT !.method = MethodOf(choice), !.destination = destination,
                        !.quote = quote, !.shipping = shipping, !.paymentStatus = "PENDING",
                        !.expiresAt = t]
  <2>2. /\ row.method = MethodOf(choice) /\ row.destination = destination
        /\ row.paymentStatus = "PENDING"
    BY <1>3 DEF OrderRow
  <2>3. order' = [order EXCEPT ![o] = row]
    BY <2>1 DEF TypeOK
  <2> HIDE DEF row
  <2>4. validPair(choice, destination) /\ ~Paid(o)
    BY <1>5 DEF UpdatePendingCheckout, ImmutableStatuses, Paid
  <2> QED
    BY <2>2, <2>3, <2>4, NewRoute DEF validPair, MethodOf
<1>6. ASSUME NEW o \in Orders, NEW fee \in Quotes, SetShippingQuote(o, fee)
      PROVE  \A p \in Orders : RouteGoesOn(p)
  <2>1. PICK t : order' = [order EXCEPT ![o].shipping = fee, ![o].quote = "QUOTED",
                                        ![o].expiresAt = t]
    BY <1>6 DEF SetShippingQuote
  <2>2. ASSUME NEW p \in Orders PROVE RouteGoesOn(p)
    <3>1. order'[p] = IF p = o THEN [order[p] EXCEPT !.shipping = fee, !.quote = "QUOTED",
                                                     !.expiresAt = t]
                      ELSE order[p]
      BY <2>1 DEF TypeOK
    <3> QED
      BY <1>3, <3>1 DEF RouteGoesOn, OrderRow
  <2> QED
    BY <2>2
<1>7. ASSUME NEW o \in Orders, CancelOrder(o)
      PROVE  \A p \in Orders : RouteGoesOn(p)
  BY <1>2, <1>7 DEF CancelOrder, StatusTo
<1>8. ASSUME NEW o, NEW i, NEW attempts, ConfirmOrderPayment(o, i, attempts)
      PROVE  \A p \in Orders : RouteGoesOn(p)
  BY <1>2, <1>8 DEF ConfirmOrderPayment, StatusTo
<1>9. ASSUME NEW o \in Orders, NEW v \in Variants, ExpireOne(o, v)
      PROVE  \A p \in Orders : RouteGoesOn(p)
  BY <1>1, <1>2, <1>9 DEF ExpireOne, StatusTo
<1>10. ASSUME NEW d \in Proofs, NEW verdict \in {"APPROVED", "REJECTED"},
              ReviewTransferProof(d, verdict)
       PROVE  \A p \in Orders : RouteGoesOn(p)
  BY <1>1, <1>8, <1>10 DEF ReviewTransferProof
<1>11. CASE \/ \E o \in Orders : UploadRead(o)
            \/ \E o \in Orders, i \in 1..MaxAttempts, d \in Proofs : UploadWrite(o, i, d)
            \/ \E v \in Variants, counted \in Recounts : UpdateInventory(v, counted)
            \/ Tick \/ UNCHANGED vars
  BY <1>1, <1>11 DEF UploadRead, UploadWrite, UpdateInventory, Tick, vars
<1>12. CASE \E o \in Orders : \/ \E c \in Carts : ReopenCheckout(o, c)
                              \/ Cancel(o) \/ ConfirmCashPayment(o)
  BY <1>7, <1>8, <1>12 DEF ReopenCheckout, Cancel, ConfirmCashPayment
<1> QED
  BY <1>4, <1>5, <1>6, <1>9, <1>10, <1>11, <1>12 DEF Next

\* What makes ShipmentsOfPaidOrders inductive: a closed order holds no line and so
\* is never paid, also when a request that read it before brings it back; only a
\* request that read an order closed will write that; and a request for a shipment
\* read a paid order that is sent.
Unclosed(o) == order[o].status \notin ClosedStatuses
Over(o) == IsPlaced(o) /\ ActiveItems(o) = {} /\ ~Paid(o)
SentAndPaid(o) == Paid(o) /\ Unclosed(o) /\ ~PickedUp(o)
ShipSays(e) ==
    /\ desk[e].pc = "status" /\ desk[e].to \in ClosedStatuses => Over(desk[e].order)
    /\ desk[e].pc \in {"create", "update"} =>
          SentAndPaid(desk[e].order) /\ desk[e].from \notin ClosedStatuses
ShipInv ==
    /\ \A o \in Orders : CashIsPickedUp(o) /\ (~Unclosed(o) => Over(o))
    /\ \A e \in Employees : ShipSays(e)
    /\ ShipmentsOfPaidOrders

LEMMA ShipStarts == DeskInit => ShipInv
<1> SUFFICES ASSUME DeskInit PROVE ShipInv
  OBVIOUS
<1>1. \A o \in Orders : order[o] = NoOrder
  BY DEF DeskInit, Init
<1>2. \A o \in Orders : CashIsPickedUp(o) /\ Unclosed(o)
  BY <1>1 DEF NoOrder, CashIsPickedUp, PickedUp, deliveryMethod, Unclosed, ClosedStatuses
<1>3. \A e \in Employees : desk[e].pc = "idle"
  BY DEF DeskInit, NoRequest
<1>4. ShipmentsOfPaidOrders
  BY DEF DeskInit, ShipmentsOfPaidOrders
<1> QED
  BY <1>2, <1>3, <1>4 DEF ShipInv, ShipSays

LEMMA ShippedOrder ==
    ASSUME ShipmentsOfPaidOrders, NEW s \in Shipments, shipment[s] # NoShipment,
           NEW o, o = shipment[s].order
    PROVE  SentAndPaid(o)
BY DEF ShipmentsOfPaidOrders, SentAndPaid, Unclosed, PickedUp, Paid

LEMMA NextShipments ==
    ASSUME \A s \in Shipments : shipment'[s] # NoShipment =>
              \E o : o = shipment'[s].order /\ SentAndPaid(o)'
    PROVE  ShipmentsOfPaidOrders'
BY DEF ShipmentsOfPaidOrders, SentAndPaid, Unclosed, PickedUp, Paid

\* An order that is sent and paid goes on so, and one that is over stays over.
LEMMA ShopKeepsShips ==
    ASSUME DeskShopInv, ShipInv, [Next]_vars, UNCHANGED deskVars
    PROVE  ShipInv'
<1>1. TypeOK /\ UNCHANGED <<desk, shipment>>
  BY DEF DeskShopInv, DeskInv, deskVars
<1>2. \A o \in Orders : order[o].status = "NONE" => ~Paid(o)
  BY DEF DeskShopInv, SaleInv, SaleSays, Paid
<1>3. ASSUME NEW o \in Orders
      PROVE  /\ CashIsPickedUp(o)' /\ (~Unclosed(o)' => Over(o)')
             /\ SentAndPaid(o) => SentAndPaid(o)'
             /\ Over(o) => Over(o)'
  <2>1. /\ RouteGoesOn(o) /\ CashIsPickedUp(o) /\ (~Unclosed(o) => Over(o))
        /\ order[o].status = "NONE" => ~Paid(o)
    BY <1>1, <1>2, ShopKeepsRoute DEF ShipInv
  <2>2. Untouched(o) \/ Changed(o)
    BY <1>1, StepShape
  <2>3. /\ Paid(o) /\ Unclosed(o) => Paid(o)' /\ Unclosed(o)'
        /\ ~Unclosed(o)' => Over(o)'
        /\ Over(o) => Over(o)'
    <3>1. CASE Untouched(o)
      BY <2>1, <3>1 DEF Untouched, Paid, Unclosed, Over, IsPlaced, ActiveItems
    <3>2. CASE Placed(o)
      BY <2>1, <3>2 DEF Placed, Paid, Unclosed, ClosedStatuses, Over, IsPlaced
    <3>3. CASE Rewritten(o)
      BY <2>1, <3>3 DEF Rewritten, Paid, Unclosed, ClosedStatuses, Over, IsPlaced, ActiveItems
    <3>4. CASE Sold(o)
      BY <2>1, <3>4 DEF Sold, Confirmed, Paid, Unclosed, ClosedStatuses, Over
    <3>5. CASE Closed(o)
      BY <2>1, <3>5 DEF Closed, ClosedStatuses, Paid, Unclosed, Over, IsPlaced, ActiveItems
    <3>6. CASE LineExpired(o)
      BY <2>1, <3>6 DEF LineExpired, Paid, Unclosed, Over
    <3> QED
      BY <2>2, <3>1, <3>2, <3>3, <3>4, <3>5, <3>6 DEF Changed
  <2>4. CashIsPickedUp(o)' /\ (SentAndPaid(o) => ~PickedUp(o)')
    BY <2>1 DEF RouteGoesOn, CashIsPickedUp, PickedUp, SentAndPaid
  <2> QED
    BY <2>3, <2>4 DEF SentAndPaid
<1>4. ASSUME NEW e \in Employees PROVE ShipSays(e)'
  <2>1. ShipSays(e) /\ DeskSays(e)
    BY DEF ShipInv, DeskShopInv, DeskInv
  <2>2. desk[e].pc = "status" \/ desk[e].pc \in {"create", "update"} => desk[e].order \in Orders
    BY <2>1 DEF DeskSays, IsPlaced
  <2>3. PICK o : o = desk[e].order /\ o = desk'[e].order
    BY <1>1
  <2> QED
    BY <1>1, <1>3, <2>1, <2>2, <2>3 DEF ShipSays
<1>5. ShipmentsOfPaidOrders'
  <2> SUFFICES ASSUME NEW s \in Shipments, shipment'[s] # NoShipment
               PROVE  \E o : o = shipment'[s].order /\ SentAndPaid(o)'
    BY NextShipments
  <2>1. PICK o : o = shipment[s].order /\ o = shipment'[s].order
    BY <1>1
  <2>2. o \in Orders
    BY <1>1, <2>1 DEF DeskShopInv, DeskInv, ShipmentSays, IsPlaced
  <2>3. SentAndPaid(o)
    BY <1>1, <2>1, ShippedOrder DEF ShipInv
  <2> QED
    BY <1>3, <2>1, <2>2, <2>3
<1> QED
  BY <1>3, <1>4, <1>5 DEF ShipInv

\* A request reads, and writes nothing yet.
LEMMA ReadShips ==
    ASSUME DeskInv, ShipInv, NEW e \in Employees, NEW r, desk' = [desk EXCEPT ![e] = r],
           UNCHANGED <<vars, shipment>>, ShipSays(e)'
    PROVE  ShipInv'
<1>1. /\ UNCHANGED <<order, reservation, shipment>>
      /\ \A f \in Employees \ {e} : desk'[f] = desk[f]
  BY DEF vars, DeskInv
<1>2. ASSUME NEW f \in Employees PROVE ShipSays(f)'
  <2>1. CASE f # e
    BY <1>1, <2>1 DEF ShipInv, ShipSays, SentAndPaid, Unclosed, PickedUp, Paid, Over, IsPlaced,
                      ActiveItems
  <2> QED
    BY <2>1
<1>3. \A o \in Orders : CashIsPickedUp(o)' /\ (~Unclosed(o)' => Over(o)')
  BY <1>1 DEF ShipInv, CashIsPickedUp, Unclosed, PickedUp, Paid, Over, IsPlaced, ActiveItems
<1>4. ShipmentsOfPaidOrders'
  BY <1>1 DEF ShipInv, ShipmentsOfPaidOrders, Paid
<1> QED
  BY <1>2, <1>3, <1>4 DEF ShipInv

LEMMA ReadsShip ==
    ASSUME DeskInv, ShipInv, NEW e \in Employees,
             \/ \E o \in Orders, to \in OrderStatuses : ReadForStatus(e, o, to)
             \/ \E o \in Orders, s \in Shipments, status \in ShipmentStatuses :
                   ReadForShipment(e, o, s, status)
             \/ \E s \in Shipments, status \in ShipmentStatuses : ReadShipment(e, s, status)
             \/ FailStatus(e) \/ FailShipment(e)
    PROVE  ShipInv'
<1>1. ASSUME NEW r, desk' = [desk EXCEPT ![e] = r]
      PROVE  desk'[e] = r
  BY <1>1 DEF DeskInv
<1>2. ASSUME NEW o \in Orders, NEW to \in OrderStatuses, ReadForStatus(e, o, to)
      PROVE  ShipInv'
  <2> DEFINE r == [pc |-> "status", order |-> o, from |-> order[o].status, to |-> to,
                   fulfilment |-> fulfillmentForOrderStatus(to,
                       deliveryMethod(order[o].destination), fulfilment[o])]
  <2>1. desk' = [desk EXCEPT ![e] = r] /\ UNCHANGED <<vars, shipment>>
        /\ canTransitionOrder(order[o].status, to) /\ order[o].status # "NONE"
    BY <1>2 DEF ReadForStatus
  <2>2. r.pc = "status" /\ r.order = o /\ r.to = to
    OBVIOUS
  <2> HIDE DEF r
  <2>3. to \in ClosedStatuses => Over(o)
    <3>1. order[o].status \in OrderStatuses
      BY <2>1 DEF DeskInv, TypeOK, OrderRow
    <3>2. orderTransitions[order[o].status] \subseteq {"PROCESSING", "READY", "COMPLETED"}
      BY <3>1 DEF orderTransitions
    <3> QED
      BY <2>1, <3>2 DEF canTransitionOrder, ClosedStatuses, Unclosed, ShipInv
  <2>4. desk'[e] = r /\ order' = order /\ reservation' = reservation
    BY <1>1, <2>1 DEF vars
  <2>5. ShipSays(e)'
    BY <2>2, <2>3, <2>4 DEF ShipSays, Over, IsPlaced, Paid, ActiveItems
  <2> QED
    BY <2>1, <2>5, ReadShips
<1>3. ASSUME NEW o \in Orders, NEW s \in Shipments, NEW status \in ShipmentStatuses,
             ReadForShipment(e, o, s, status)
      PROVE  ShipInv'
  <2> DEFINE r == [pc |-> "create", order |-> o, shipment |-> s, read |-> "NONE",
                   from |-> order[o].status, to |-> status]
  <2>1. /\ desk' = [desk EXCEPT ![e] = r] /\ UNCHANGED <<vars, shipment>>
        /\ order[o].status \notin ClosedStatuses /\ mayShip(o)
    BY <1>3 DEF ReadForShipment, ClosedStatuses
  <2>2. r.pc = "create" /\ r.order = o /\ r.from = order[o].status
    OBVIOUS
  <2> HIDE DEF r
  <2>3. SentAndPaid(o)
    BY <2>1 DEF ShipInv, CashIsPickedUp, mayShip, SentAndPaid, PickedUp, Unclosed
  <2>4. desk'[e] = r /\ order' = order
    BY <1>1, <2>1 DEF vars
  <2>5. ShipSays(e)'
    BY <2>1, <2>2, <2>3, <2>4 DEF ShipSays, SentAndPaid, Unclosed, PickedUp, Paid
  <2> QED
    BY <2>1, <2>5, ReadShips
<1>4. ASSUME NEW s \in Shipments, NEW status \in ShipmentStatuses, ReadShipment(e, s, status)
      PROVE  ShipInv'
  <2> DEFINE o == shipment[s].order
             r == [pc |-> "update", order |-> o, shipment |-> s,
                   read |-> shipment[s].status,
                   from |-> order[shipment[s].order].status, to |-> status]
  <2>1. /\ desk' = [desk EXCEPT ![e] = r] /\ UNCHANGED <<vars, shipment>>
        /\ shipment[s] # NoShipment
    BY <1>4 DEF ReadShipment
  <2>2. r.pc = "update" /\ r.order = o /\ r.from = order[o].status
    OBVIOUS
  <2>3. SentAndPaid(o)
    BY <2>1, ShippedOrder DEF ShipInv
  <2> HIDE DEF o, r
  <2>4. desk'[e] = r /\ order' = order
    BY <1>1, <2>1 DEF vars
  <2>5. ShipSays(e)'
    BY <2>2, <2>3, <2>4 DEF ShipSays, SentAndPaid, Unclosed, PickedUp, Paid
  <2> QED
    BY <2>1, <2>5, ReadShips
<1>5. ASSUME FailStatus(e) \/ FailShipment(e)
      PROVE  ShipInv'
  <2>1. desk' = [desk EXCEPT ![e] = NoRequest] /\ UNCHANGED <<vars, shipment>>
    BY <1>5 DEF FailStatus, FailShipment, Reply
  <2>2. desk'[e] = NoRequest
    BY <2>1 DEF DeskInv
  <2>3. ShipSays(e)'
    BY <2>2 DEF ShipSays, NoRequest
  <2> QED
    BY <2>1, <2>3, ReadShips
<1> QED
  BY <1>2, <1>3, <1>4, <1>5

\* A status that does not close a paid order leaves what is sent and paid so, and
\* what is over, over.
LEMMA StatusShips ==
    ASSUME DeskInv, ShipInv, NEW o, NEW to, StatusWritten(o, to),
           to \in ClosedStatuses => Over(o)
    PROVE  \A p \in Orders : /\ CashIsPickedUp(p)' /\ (~Unclosed(p)' => Over(p)')
                             /\ SentAndPaid(p) => SentAndPaid(p)'
                             /\ Over(p) => Over(p)'
<1> SUFFICES ASSUME NEW p \in Orders
             PROVE  /\ CashIsPickedUp(p)' /\ (~Unclosed(p)' => Over(p)')
                    /\ SentAndPaid(p) => SentAndPaid(p)'
                    /\ Over(p) => Over(p)'
  OBVIOUS
<1>1. order[p] \in OrderRow /\ order \in [Orders -> OrderRow]
  BY DEF DeskInv, TypeOK
<1>2. order'[p] = IF p = o THEN [order[p] EXCEPT !.status = to] ELSE order[p]
  BY <1>1 DEF StatusWritten
<1>3. /\ order'[p].method = order[p].method /\ order'[p].destination = order[p].destination
      /\ order'[p].paymentStatus = order[p].paymentStatus
      /\ order'[p].status = IF p = o THEN to ELSE order[p].status
  BY <1>1, <1>2 DEF OrderRow
<1>4. /\ CashIsPickedUp(p) /\ (~Unclosed(p) => Over(p))
      /\ order'[p].status # "NONE" <=> order[p].status # "NONE"
      /\ UNCHANGED reservation
  BY WrittenRow DEF ShipInv, DeskInv, StatusWritten
<1>5. /\ (Over(p) => Over(p)') /\ CashIsPickedUp(p)'
      /\ Unclosed(p)' <=> IF p = o THEN to \notin ClosedStatuses ELSE Unclosed(p)
  BY <1>3, <1>4 DEF CashIsPickedUp, PickedUp, Over, IsPlaced, Paid, ActiveItems, Unclosed
<1>6. SentAndPaid(p) => SentAndPaid(p)'
  BY <1>3, <1>5 DEF SentAndPaid, Paid, PickedUp, Over
<1> QED
  BY <1>4, <1>5, <1>6

LEMMA WritesShip ==
    ASSUME DeskInv, ShipInv, NEW e \in Employees,
           WriteStatus(e) \/ WriteShipment(e)
    PROVE  ShipInv'
<1> DEFINE r == desk[e]
<1>1. DeskSays(e) /\ ShipSays(e)
  BY DEF DeskInv, ShipInv
<1>2. \/ UNCHANGED vars
      \/ \E to : StatusWritten(r.order, to) /\ (to \in ClosedStatuses => Over(r.order))
  <2>1. CASE WriteStatus(e)
    <3>1. r.pc = "status" /\ IsPlaced(r.order) /\ r.to \in OrderStatuses
      BY <1>1, <2>1 DEF WriteStatus, DeskSays
    <3>2. r.to \in ClosedStatuses => Over(r.order)
      BY <1>1, <3>1 DEF ShipSays
    <3> QED
      BY <2>1, <3>1, <3>2 DEF WriteStatus, StatusWritten
  <2>2. CASE WriteShipment(e)
    <3> DEFINE to == orderFromShipment(r.order, r.from, r.to)
    <3>1. r.pc \in {"create", "update"}
      BY <2>2 DEF WriteShipment
    <3>2. to \in OrderStatuses /\ to \notin ClosedStatuses
      BY <1>1, <3>1 DEF DeskSays, ShipSays, orderFromShipment, OrderStatuses, ClosedStatuses
    <3>3. CASE order' = order
      BY <2>2, <3>3 DEF WriteShipment, vars
    <3>4. CASE order' = [order EXCEPT ![r.order].status = to]
      BY <1>1, <2>2, <3>1, <3>2, <3>4 DEF DeskSays, WriteShipment, StatusWritten
    <3> QED
      BY <2>2, <3>3, <3>4 DEF WriteShipment, UpdateOrderFromShipment
  <2> QED
    BY <2>1, <2>2
<1>3. \A p \in Orders : /\ CashIsPickedUp(p)' /\ (~Unclosed(p)' => Over(p)')
                        /\ SentAndPaid(p) => SentAndPaid(p)'
                        /\ Over(p) => Over(p)'
  <2>1. CASE UNCHANGED vars
    BY <2>1 DEF vars, ShipInv, CashIsPickedUp, Paid, Unclosed, PickedUp, SentAndPaid,
                Over, IsPlaced, ActiveItems
  <2> QED
    BY <1>2, <2>1, StatusShips
<1>4. \A f \in Employees : ShipSays(f)'
  <2>1. desk'[e] = NoRequest /\ \A f \in Employees \ {e} : desk'[f] = desk[f]
    BY DEF WriteStatus, WriteShipment, Reply, DeskInv
  <2> SUFFICES ASSUME NEW f \in Employees \ {e} PROVE ShipSays(f)'
    BY <2>1 DEF ShipSays, NoRequest
  <2>3. ShipSays(f) /\ DeskSays(f) /\ desk'[f] = desk[f]
    BY <2>1 DEF ShipInv, DeskInv
  <2>4. desk[f].pc = "status" \/ desk[f].pc \in {"create", "update"} => desk[f].order \in Orders
    BY <2>3 DEF DeskSays, IsPlaced
  <2>5. PICK o : o = desk[f].order /\ o = desk'[f].order
    BY <2>3
  <2> QED
    BY <1>3, <2>3, <2>4, <2>5 DEF ShipSays
<1>5. ShipmentsOfPaidOrders'
  <2> SUFFICES ASSUME NEW s \in Shipments, shipment'[s] # NoShipment
               PROVE  \E o : o = shipment'[s].order /\ SentAndPaid(o)'
    BY NextShipments
  <2>1. CASE shipment'[s] = shipment[s]
    <3>1. PICK o : o = shipment[s].order /\ o = shipment'[s].order
      BY <2>1
    <3>2. o \in Orders
      BY <2>1, <3>1 DEF DeskInv, ShipmentSays, IsPlaced
    <3>3. SentAndPaid(o)
      BY <2>1, <3>1, ShippedOrder DEF ShipInv
    <3> QED
      BY <1>3, <3>1, <3>2, <3>3
  <2>2. CASE shipment'[s] # shipment[s]
    <3>1. PICK n : n = [status |-> r.to, order |-> r.order]
      OBVIOUS
    <3>2. /\ shipment' = [shipment EXCEPT ![r.shipment] = n]
          /\ r.pc \in {"create", "update"}
      BY <2>2, <3>1 DEF WriteStatus, WriteShipment
    <3>3. shipment'[s] = n /\ n.order = r.order
      BY <2>2, <3>1, <3>2 DEF DeskInv
    <3>4. r.order \in Orders /\ SentAndPaid(r.order)
      BY <1>1, <3>2 DEF DeskSays, ShipSays, IsPlaced
    <3>5. PICK o : o = r.order
      OBVIOUS
    <3> QED
      BY <1>3, <3>3, <3>4, <3>5
  <2> QED
    BY <2>1, <2>2
<1> QED
  BY <1>3, <1>4, <1>5 DEF ShipInv

LEMMA ShipKeeps ==
    ASSUME DeskShopInv, ShipInv, [DeskNext]_deskShopVars
    PROVE  ShipInv'
<1>1. DeskInv
  BY DEF DeskShopInv
<1>2. CASE [Next]_vars /\ UNCHANGED deskVars
  BY <1>2, ShopKeepsShips
<1>3. ASSUME NEW e \in Employees, DeskStep(e)
      PROVE  ShipInv'
  BY <1>1, <1>3, ReadsShip, WritesShip DEF DeskStep
<1>4. CASE UNCHANGED deskShopVars
  BY <1>2, <1>4 DEF deskShopVars
<1> QED
  BY <1>1, <1>2, <1>3, <1>4, ReadsShip DEF DeskNext

\* Whatever customers, payments, the expiry job and other employees do between what
\* an employee reads and writes: a shipment belongs to an order that is paid, not
\* closed and not picked up at the store.  A cancelled order that a late write
\* brings back (ClosedStaysClosed fails) is never paid, and so never shipped.
THEOREM ShippedIsPaid == DeskSpec => []ShipmentsOfPaidOrders
<1>1. DeskShopInv /\ ShipInv /\ [DeskNext]_deskShopVars => (DeskShopInv /\ ShipInv)'
  BY DeskShopKeeps, ShipKeeps
<1>2. ShipInv => ShipmentsOfPaidOrders
  BY DEF ShipInv
<1> QED
  BY <1>1, <1>2, DeskShopStarts, ShipStarts, PTL DEF DeskSpec
=============================================================================

-------------------------- MODULE AdminNotifications --------------------------
(***************************************************************************)
(* What an employee is told about orders: the rows that orders write       *)
(* (orders.service.ts, admin-commerce.service.ts), the service that lists  *)
(* and reads them (admin-notifications.service.ts), and the bell of the    *)
(* administration, which polls (admin-notification-center.tsx).            *)
(*                                                                         *)
(* One employee; every write to the table is made alike for each of them.  *)
(* A list of more than one page of twenty is left out.                     *)
(***************************************************************************)
EXTENDS Integers, FiniteSets

CONSTANTS
    None,
    Orders,
    Slots,         \* requests for the list that may be under way at once
    MaxChanges,    \* bound: changes of an order's delivery
    MaxFailures,   \* bound: polls that fail
    MaxReloads,    \* bound: times the page is opened again
    MaxMarkAll     \* bound: presses of 'Marcar todas como leidas'

VARIABLES
    quote,       \* [Orders -> shippingQuoteStatus; None when there is no order]
    row,         \* [Notes -> "none", "unread" or "read"]: AdminNotification
    feed,        \* [Notes -> ...]: what the bell shows
    firstLoad,
    notified,    \* localStorage: the notifications announced
    polls,       \* [Slots -> the list an answer under way carries, or None]
    marks,       \* requests to mark as read under way: notes, or All
    announced,   \* ghost: [Notes -> times announced]
    count        \* ghost: the bounded events so far

vars == <<quote, row, feed, firstLoad, notified, polls, marks, announced, count>>
page == <<feed, firstLoad, notified, polls, marks, announced>>

Notes == {"ORDER_CREATED", "SHIPPING_QUOTE_REQUESTED"} \X Orders
created(o) == <<"ORDER_CREATED", o>>
requested(o) == <<"SHIPPING_QUOTE_REQUESTED", o>>
All == <<"all", "all">>
nothing == [n \in Notes |-> "none"]
within(event, limit) == count[event] < limit /\ count' = [count EXCEPT ![event] = @ + 1]

Init ==
    /\ quote = [o \in Orders |-> None]
    /\ row = nothing /\ feed = nothing
    /\ firstLoad = TRUE /\ notified = {}
    /\ polls = [s \in Slots |-> None] /\ marks = {}
    /\ announced = [n \in Notes |-> 0]
    /\ count = [event \in {"change", "failure", "reload", "all"} |-> 0]

----------------------------------------------------------------------------
\* createMany with skipDuplicates: a row that is there stays as it is.
notify(rows, notes) == [n \in Notes |-> IF n \in notes /\ rows[n] = "none" THEN "unread" ELSE rows[n]]
read(rows, notes) == [n \in Notes |-> IF n \in notes /\ rows[n] = "unread" THEN "read" ELSE rows[n]]

placeOrder(o, status) ==
    /\ quote[o] = None
    /\ quote' = [quote EXCEPT ![o] = status]
    /\ row' = notify(row, {created(o)} \cup IF status = "PENDING" THEN {requested(o)} ELSE {})
    /\ UNCHANGED <<page, count>>
\* The customer changes the delivery of the order.
changeOrder(o, status) ==
    /\ quote[o] # None /\ within("change", MaxChanges)
    /\ quote' = [quote EXCEPT ![o] = status]
    /\ row' = IF status = "PENDING" THEN notify(row, {requested(o)}) ELSE read(row, {requested(o)})
    /\ UNCHANGED page
\* An employee quotes the delivery.
quoteShipping(o) ==
    /\ quote[o] = "PENDING"
    /\ quote' = [quote EXCEPT ![o] = "QUOTED"]
    /\ row' = read(row, {requested(o)})
    /\ UNCHANGED <<page, count>>

----------------------------------------------------------------------------
\* load(): every 15 seconds, and whenever the page becomes visible.
load(s) ==
    /\ polls[s] = None
    /\ polls' = [polls EXCEPT ![s] = row]
    /\ UNCHANGED <<quote, row, feed, firstLoad, notified, marks, announced, count>>
fresh(list) == IF firstLoad THEN {} ELSE {n \in Notes : list[n] = "unread" /\ n \notin notified}
shownAfter(list) == list
\* Its answer, in whatever order the answers come.
loaded(s) ==
    /\ polls[s] # None
    /\ notified' = notified \cup fresh(polls[s])
    /\ announced' = [n \in Notes |-> announced[n] + IF n \in fresh(polls[s]) /\ announced[n] < 2 THEN 1 ELSE 0]
    /\ feed' = shownAfter(polls[s])
    /\ firstLoad' = FALSE
    /\ polls' = [polls EXCEPT ![s] = None]
    /\ UNCHANGED <<quote, row, marks, count>>
loadFails(s) ==
    /\ polls[s] # None /\ within("failure", MaxFailures)
    /\ polls' = [polls EXCEPT ![s] = None]
    /\ UNCHANGED <<quote, row, feed, firstLoad, notified, marks, announced>>

\* The bell shows it as read before it asks the service to.
markRead(n) ==
    /\ feed[n] = "unread"
    /\ feed' = read(feed, {n})
    /\ marks' = marks \cup {n}
    /\ UNCHANGED <<quote, row, firstLoad, notified, polls, announced, count>>
markAllRead ==
    /\ \E n \in Notes : feed[n] = "unread"   \* the button is there while some are unread
    /\ within("all", MaxMarkAll)
    /\ feed' = read(feed, Notes)
    /\ marks' = marks \cup {All}
    /\ UNCHANGED <<quote, row, firstLoad, notified, polls, announced>>
\* AdminNotificationsService.markRead and markAllRead.
marked(m) == IF m = All THEN Notes ELSE {m}
serveMark(m) ==
    /\ m \in marks
    /\ row' = read(row, marked(m))
    /\ marks' = marks \ {m}
    /\ UNCHANGED <<quote, feed, firstLoad, notified, polls, announced, count>>
\* The page is opened again; what it had asked for still arrives at the service.
reload ==
    /\ within("reload", MaxReloads)
    /\ feed' = nothing /\ firstLoad' = TRUE
    /\ polls' = [s \in Slots |-> None]
    /\ UNCHANGED <<quote, row, notified, marks, announced>>

Next ==
    \/ \E o \in Orders, status \in {"PENDING", "NOT_REQUIRED"} : placeOrder(o, status) \/ changeOrder(o, status)
    \/ \E o \in Orders : quoteShipping(o)
    \/ \E s \in Slots : load(s) \/ loaded(s) \/ loadFails(s)
    \/ \E n \in Notes : markRead(n)
    \/ \E m \in Notes \cup {All} : serveMark(m)
    \/ markAllRead \/ reload

Spec == Init /\ [][Next]_vars

\* The page polls for as long as it is open, and every request is answered.
FairSpec ==
    /\ Spec
    /\ \A s \in Slots : WF_vars(load(s)) /\ WF_vars(loaded(s))
    /\ \A m \in Notes \cup {All} : WF_vars(serveMark(m))

----------------------------------------------------------------------------
Marks == {"none", "unread", "read"}
TypeOK ==
    /\ row \in [Notes -> Marks] /\ feed \in [Notes -> Marks]
    /\ \A s \in Slots : polls[s] # None => polls[s] \in [Notes -> Marks]
    /\ notified \subseteq Notes /\ marks \subseteq Notes \cup {All}

\* A browser announces a notification once, although requests for the list
\* overlap and the page is opened again.
AnnouncedOnce == \A n \in Notes : announced[n] <= 1

\* A notification that the employee has not been shown, and whose request
\* nobody served, stays unread: reading one does not read another.
OnlyShownAreRead ==
    \A o \in Orders : row[created(o)] = "unread" /\ row'[created(o)] = "read" =>
       created(o) \in notified \/ created(o) \in marks \/ feed[created(o)] # "none"

\* The bell comes to show what the table says, after any overlap of polls and
\* of readings.
BellSettles == <>[](feed = row)

Arrived(o) ==
    row[created(o)] = "unread" /\ feed[created(o)] = "none" /\ created(o) \notin marks /\ ~firstLoad
Announced(o) == announced[created(o)] > 0 \/ firstLoad

\* 'Activar avisos del navegador.  Recibelos mientras el panel este abierto':
\* an order that arrives while the panel is open is announced.
NewIsAnnounced == \A o \in Orders : Arrived(o) ~> Announced(o)

\* 'Los pedidos y cotizaciones apareceran aqui': when an order begins to wait
\* for a quote, the employee has an unread notification of it.
RequestsAreUnread ==
    [][\A o \in Orders : quote[o] # "PENDING" /\ quote'[o] = "PENDING" => row'[requested(o)] = "unread"]_vars
=============================================================================

-------------------------- MODULE InventoryAlerts --------------------------
(***************************************************************************)
(* The alerts of low stock (inventory-alerts.service.ts).  Every replica   *)
(* of the API scans the levels every five minutes, besides what an         *)
(* employee starts by hand, query by query and without a transaction; an   *)
(* alert is resolved when its level is restocked, one is opened for each   *)
(* level that is low, and one reminder a day goes to the outbox while it   *)
(* is open.  The stock moves meanwhile.                                    *)
(***************************************************************************)
EXTENDS Integers, FiniteSets

CONSTANTS
    Replicas,   \* processes of the API
    Levels,     \* inventory levels of active variants and locations
    Alerts,     \* identifiers of alert rows
    Most,       \* the highest stock
    Threshold,  \* lowStockThreshold
    Limit,      \* levels a scan looks at: 500 in the code
    Days,       \* bound: the last day
    Changes,    \* bound: changes of stock
    Failures,   \* bound: queries that fail
    None        \* no row, alert

AlertsAssumption ==
    /\ {Most, Threshold, Limit, Days, Changes, Failures} \subseteq Nat
    /\ None \notin [level : Levels, status : {"OPEN", "ACKNOWLEDGED", "RESOLVED"}, active : BOOLEAN]

VARIABLES
    stock,    \* available, by level
    alert,    \* [Alerts -> row or None]; active is "activeKey is set"
    sent,     \* the reminders of the outbox: alert and day
    scan,     \* [Replicas -> where the scan of the replica is]
    day,      \* today
    changes,  \* how often the stock changed
    failures  \* how many queries failed

vars == <<stock, alert, sent, scan, day, changes, failures>>

idle == [at |-> "idle", ids |-> {}, todo |-> {}, level |-> None, alert |-> None]

Init ==
    /\ stock \in [Levels -> 0..Most]
    /\ alert = [a \in Alerts |-> None] /\ sent = {}
    /\ scan = [r \in Replicas |-> idle]
    /\ day = 0 /\ changes = 0 /\ failures = 0

low(l) == stock[l] <= Threshold
rows == {a \in Alerts : alert[a] # None}
activeOf(l) == {a \in rows : alert[a].active /\ alert[a].level = l}
At(r, record) == scan' = [scan EXCEPT ![r] = record]
-----------------------------------------------------------------------------
(* One scan, one query a step.                                             *)

\* resolveRestockedAlerts reads the alerts with their levels ...
resolvable(a) == alert[a].active /\ alert[a].status \in {"OPEN", "ACKNOWLEDGED"}
StartScan(r) ==
    /\ scan[r].at = "idle"
    /\ At(r, [idle EXCEPT !.at = "resolve",
                          !.ids = {a \in rows : resolvable(a) /\ ~low(alert[a].level)}])
    /\ UNCHANGED <<stock, alert, sent, day, changes, failures>>

\* ... and resolves those it found restocked, whatever they are by now.
freesKey == TRUE
Resolve(r) ==
    /\ scan[r].at = "resolve"
    /\ alert' = [a \in Alerts |->
                   IF a \in scan[r].ids
                   THEN [alert[a] EXCEPT !.status = "RESOLVED", !.active = IF freesKey THEN FALSE ELSE @]
                   ELSE alert[a]]
    /\ At(r, [scan[r] EXCEPT !.at = "list", !.ids = {}])
    /\ UNCHANGED <<stock, sent, day, changes, failures>>

\* The levels that are low, the emptiest first, as many as the limit.
ListLevels(r) ==
    /\ scan[r].at = "list"
    /\ \E listed \in SUBSET {l \in Levels : low(l)} :
         /\ \/ listed = {l \in Levels : low(l)} /\ Cardinality(listed) <= Limit
            \/ Cardinality(listed) = Limit
         /\ \A l \in listed, k \in Levels \ listed : low(k) => stock[l] <= stock[k]
         /\ At(r, [scan[r] EXCEPT !.at = "each", !.todo = listed])
    /\ UNCHANGED <<stock, alert, sent, day, changes, failures>>

\* The loop ends, or goes on with one of the levels that were read.
next(r) == [scan[r] EXCEPT !.at = "each", !.level = None, !.alert = None]
EndScan(r) ==
    /\ scan[r].at = "each" /\ scan[r].todo = {}
    /\ At(r, idle)
    /\ UNCHANGED <<stock, alert, sent, day, changes, failures>>

\* What ensureAlert answers: the reminder follows if the alert was open.
answered(r, l, a) ==
    IF alert[a].status = "OPEN" THEN [next(r) EXCEPT !.at = "remind", !.alert = a, !.todo = @ \ {l}]
    ELSE [next(r) EXCEPT !.todo = @ \ {l}]
LookUp(r, l) ==
    /\ scan[r].at = "each" /\ l \in scan[r].todo
    /\ IF activeOf(l) = {} THEN At(r, [scan[r] EXCEPT !.at = "create", !.level = l])
       ELSE \E a \in activeOf(l) : At(r, answered(r, l, a))
    /\ UNCHANGED <<stock, alert, sent, day, changes, failures>>

\* The unique activeKey refuses a second alert of the level; then the first
\* one is answered.
uniqueKey(l) == activeOf(l) = {}
CreateAlert(r) ==
    /\ scan[r].at = "create"
    /\ LET l == scan[r].level
       IN IF uniqueKey(l)
          THEN \E a \in Alerts \ rows :
                 /\ alert' = [alert EXCEPT ![a] = [level |-> l, status |-> "OPEN", active |-> TRUE]]
                 /\ At(r, [next(r) EXCEPT !.at = "remind", !.alert = a, !.todo = @ \ {l}])
          ELSE /\ \E a \in activeOf(l) : At(r, answered(r, l, a))
               /\ UNCHANGED alert
    /\ UNCHANGED <<stock, sent, day, changes, failures>>

\* ensureDailyReminder: one event for each alert and day.
Remind(r) ==
    /\ scan[r].at = "remind"
    /\ sent' = sent \cup {<<scan[r].alert, day>>}
    /\ At(r, next(r))
    /\ UNCHANGED <<stock, alert, day, changes, failures>>

\* A query fails or the process restarts: the scan is over; what fails for
\* one level only is logged and the loop goes on.
Abort(r) ==
    /\ scan[r].at # "idle" /\ failures < Failures
    /\ \/ At(r, idle)
       \/ /\ scan[r].at \in {"create", "remind"}
          /\ At(r, [next(r) EXCEPT !.todo = @ \ {scan[r].level}])
       \/ /\ scan[r].at = "each"
          /\ \E l \in scan[r].todo : At(r, [next(r) EXCEPT !.todo = @ \ {l}])
    /\ failures' = failures + 1
    /\ UNCHANGED <<stock, alert, sent, day, changes>>
-----------------------------------------------------------------------------
(* Around the scans.                                                       *)

\* acknowledge: only an alert that is open.
acknowledgeable(a) == alert[a].status = "OPEN" /\ alert[a].active
Acknowledge(a) ==
    /\ a \in rows /\ acknowledgeable(a)
    /\ alert' = [alert EXCEPT ![a].status = "ACKNOWLEDGED"]
    /\ UNCHANGED <<stock, sent, scan, day, changes, failures>>

\* Orders reserve and release, employees recount.
StockChanges(l, n) ==
    /\ changes < Changes /\ n # stock[l]
    /\ stock' = [stock EXCEPT ![l] = n] /\ changes' = changes + 1
    /\ UNCHANGED <<alert, sent, scan, day, failures>>

Tomorrow ==
    /\ day < Days /\ day' = day + 1
    /\ UNCHANGED <<stock, alert, sent, scan, changes, failures>>

Step(r) ==
    \/ StartScan(r) \/ Resolve(r) \/ ListLevels(r) \/ EndScan(r) \/ CreateAlert(r) \/ Remind(r)
    \/ \E l \in Levels : LookUp(r, l)

Next ==
    \/ \E r \in Replicas : Step(r) \/ Abort(r)
    \/ \E a \in Alerts : Acknowledge(a)
    \/ \E l \in Levels, n \in 0..Most : StockChanges(l, n)
    \/ Tomorrow

Spec == Init /\ [][Next]_vars

\* The timer of a replica ticks, and a scan that was begun goes on: queries
\* do not fail forever.
FairSpec == Spec /\ \A r \in Replicas : WF_vars(Step(r))
-----------------------------------------------------------------------------
(* Properties.                                                             *)

\* A level has one active alert at most, however many replicas look at it at
\* once, and reminders are of alerts that exist.
TypeOK ==
    /\ stock \in [Levels -> 0..Most] /\ day \in 0..Days
    /\ \A a \in rows : alert[a].status \in {"OPEN", "ACKNOWLEDGED", "RESOLVED"}
    /\ \A l \in Levels : Cardinality(activeOf(l)) <= 1
    /\ \A s \in sent : s[1] \in rows

\* An alert goes from open over acknowledged to resolved and never back: a
\* late press of an employee revives none that the scan has resolved.
LifeCycle ==
    \A a \in rows : LET rank(s) == CASE s = "OPEN" -> 0 [] s = "ACKNOWLEDGED" -> 1 [] OTHER -> 2
                    IN rank(alert[a].status) <= rank(alert'[a].status)

Told(l) == \E a \in activeOf(l) : \/ alert[a].status = "ACKNOWLEDGED"
                                  \/ \E d \in 0..Days : <<a, d>> \in sent

\* 'alertas persistentes': a level that stays low gets an alert, and the
\* employees a reminder of it unless one of them has acknowledged it.
LowIsTold == \A l \in Levels : low(l) ~> ~low(l) \/ Told(l)

Cleared(l) == activeOf(l) = {}

\* 'resueltas al reabastecer': the alert of a level that stays restocked is
\* resolved, acknowledged or not.
RestockResolves == \A l \in Levels : ~low(l) ~> low(l) \/ Cleared(l)

\* 'recordatorio diario hasta reconocer o reabastecer': no reminder is made
\* for an alert that was acknowledged or resolved.
RemindedWhileOpen ==
    [][\A s \in sent' \ sent : alert[s[1]].status = "OPEN"]_vars
=============================================================================

------------------------------ MODULE StockForm ------------------------------
(***************************************************************************)
(* The stock that employees type: the window of a product (ProductEditForm)*)
(* and that of one variant (InventoryForm) keep the numbers they were      *)
(* opened with and send the whole stock, not a difference, to              *)
(* AdminService.updateInventory, while customers reserve and buy.          *)
(*                                                                         *)
(* units is a ghost: what there really is of a variant in the shop.  An    *)
(* employee who changes the stock of a form has put so many units in the   *)
(* shop, or found so many missing; sales are those of Checkout, abridged.  *)
(***************************************************************************)
EXTENDS Integers, FiniteSets

CONSTANTS
    None,
    Employees, Variants,
    Kinds,         \* the windows that are used: "product", "variant"
    AtFirst,       \* the stock of a variant to begin with
    Counts,        \* the differences of stock that employees enter
    Thresholds,    \* thresholds that may be entered
    MaxOpened,     \* bound: windows opened
    MaxSales,      \* bound: reservations
    MaxFailures    \* bound: requests that fail

VARIABLES
    level,         \* [Variants -> onHand, reserved and lowStockThreshold]: InventoryLevel
    units,         \* ghost: [Variants -> the units in the shop]
    window,        \* [Employees -> None or a window: what it was opened with, what it says]
    pending,       \* [Employees -> the requests of a save under way]
    failed,        \* [Employees -> one of them was refused]
    count

vars == <<level, units, window, pending, failed, count>>

within(event, limit) == count[event] < limit /\ count' = [count EXCEPT ![event] = @ + 1]

Init ==
    /\ level = [v \in Variants |-> [onHand |-> AtFirst, reserved |-> 0, threshold |-> 1]]
    /\ units = [v \in Variants |-> AtFirst]
    /\ window = [e \in Employees |-> None]
    /\ pending = [e \in Employees |-> {}]
    /\ failed = [e \in Employees |-> FALSE]
    /\ count = [event \in {"open", "sale", "failure"} |-> 0]
-----------------------------------------------------------------------------
(* Customers.                                                              *)

Reserve(v) ==
    /\ level[v].onHand > level[v].reserved
    /\ within("sale", MaxSales)
    /\ level' = [level EXCEPT ![v].reserved = @ + 1]
    /\ UNCHANGED <<units, window, pending, failed>>

Release(v) ==
    /\ level[v].reserved > 0
    /\ level' = [level EXCEPT ![v].reserved = @ - 1]
    /\ UNCHANGED <<units, window, pending, failed, count>>

Sell(v) ==
    /\ level[v].reserved > 0 /\ units[v] > 0
    /\ level' = [level EXCEPT ![v].reserved = @ - 1, ![v].onHand = @ - 1]
    /\ units' = [units EXCEPT ![v] = @ - 1]
    /\ UNCHANGED <<window, pending, failed, count>>
-----------------------------------------------------------------------------
(* Employees.                                                              *)

Shown(v) == [onHand |-> level[v].onHand, threshold |-> level[v].threshold]

\* the window of a product, over its variants, or that of one of them
OpenWindow(e, kind, shown) ==
    /\ window[e] = None
    /\ within("open", MaxOpened)
    /\ window' = [window EXCEPT ![e] =
          [kind |-> kind, was |-> [v \in shown |-> Shown(v)], says |-> [v \in shown |-> Shown(v)]]]
    /\ failed' = [failed EXCEPT ![e] = FALSE]
    /\ UNCHANGED <<level, units, pending>>

EnterStock(e, v, difference) ==
    /\ window[e] # None /\ pending[e] = {}
    /\ v \in DOMAIN window[e].says
    /\ window[e].says[v].onHand = window[e].was[v].onHand
    /\ window[e].says[v].onHand + difference >= 0 /\ units[v] + difference >= 0
    /\ window' = [window EXCEPT ![e].says[v].onHand = @ + difference]
    /\ units' = [units EXCEPT ![v] = @ + difference]
    /\ UNCHANGED <<level, pending, failed, count>>

EnterThreshold(e, v, threshold) ==
    /\ window[e] # None /\ pending[e] = {}
    /\ v \in DOMAIN window[e].says
    /\ window[e].says[v].threshold # threshold
    /\ window' = [window EXCEPT ![e].says[v].threshold = threshold]
    /\ UNCHANGED <<level, units, pending, failed, count>>

\* a variant whose numbers were left as they are is not sent, from a product's window
skipped(w, v) == w.kind = "product" /\ w.says[v] = w.was[v]

\* The window of a product saves the product first, and the variants all at once.
submit(e) ==
    /\ window[e] # None /\ pending[e] = {}
    /\ LET sent == {v \in DOMAIN window[e].says : ~skipped(window[e], v)} IN
       /\ pending' = [pending EXCEPT ![e] = sent]
       /\ window' = [window EXCEPT ![e] = IF sent = {} THEN None ELSE @]
    /\ failed' = [failed EXCEPT ![e] = FALSE]
    /\ UNCHANGED <<level, units, count>>

\* no less than what is reserved
refused(v, onHand) == onHand < level[v].reserved

\* The window closes when every request was done, and alerts otherwise.
Answered(e, v, ok) ==
    /\ pending' = [pending EXCEPT ![e] = @ \ {v}]
    /\ failed' = [failed EXCEPT ![e] = @ \/ ~ok]
    /\ window' = [window EXCEPT ![e] =
          IF pending[e] = {v} /\ ok /\ ~failed[e] THEN None ELSE @]

\* A serializable transaction.
updateInventory(e, v) ==
    /\ v \in pending[e]
    /\ LET says == window[e].says[v] IN
       IF refused(v, says.onHand)
       THEN Answered(e, v, FALSE) /\ UNCHANGED level
       ELSE /\ level' = [level EXCEPT ![v].onHand = says.onHand, ![v].threshold = says.threshold]
            /\ Answered(e, v, TRUE)
    /\ UNCHANGED <<units, count>>

\* A request that fails, for a conflict or a connection: nothing is written.
UpdateFails(e, v) ==
    /\ v \in pending[e]
    /\ within("failure", MaxFailures)
    /\ Answered(e, v, FALSE)
    /\ UNCHANGED <<level, units>>

Next ==
    \/ \E v \in Variants : Reserve(v) \/ Release(v) \/ Sell(v)
    \/ \E e \in Employees :
          \/ /\ "product" \in Kinds
             /\ OpenWindow(e, "product", Variants)
          \/ /\ "variant" \in Kinds
             /\ \E v \in Variants : OpenWindow(e, "variant", {v})
          \/ \E v \in Variants, difference \in Counts : EnterStock(e, v, difference)
          \/ \E v \in Variants, threshold \in Thresholds : EnterThreshold(e, v, threshold)
          \/ submit(e)
          \/ \E v \in Variants : updateInventory(e, v) \/ UpdateFails(e, v)

Spec == Init /\ [][Next]_vars
-----------------------------------------------------------------------------
(* Properties.                                                             *)

\* The type of the state; no stock entered is less than what is reserved.
TypeOK ==
    /\ \A v \in Variants : level[v].onHand \in Nat /\ level[v].reserved \in 0 .. level[v].onHand
    /\ \A v \in Variants : units[v] \in Nat
    /\ \A e \in Employees : pending[e] # {} => window[e] # None /\ pending[e] \subseteq DOMAIN window[e].says

\* What the shop may still sell is there: no window opened before a sale gives back
\* the units that were sold.
UnitsAreReal == \A v \in Variants : level[v].onHand <= units[v]
=============================================================================

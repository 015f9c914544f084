----------------------------- MODULE CartsProofs -----------------------------
(***************************************************************************)
(* Proofs about the shopping cart, for every set of carts and customers    *)
(* and every stock: whoever signs in, an owned cart keeps its owner; and   *)
(* one tab with one request at a time shows the cart that the browser will *)
(* find again, with all that was put into it.                              *)
(***************************************************************************)
EXTENDS Carts, TLAPS
-----------------------------------------------------------------------------
(* The types, and the rows that a copy or a request speaks of.             *)

CartStatuses == {"NONE", "ACTIVE", "CONVERTED", "EXPIRED"}
Owners == Customers \cup {NoOne}
Tokens == CartIds \cup {NoCart}
Units == 0 .. Stock
CartRow == [status : CartStatuses, owner : Owners, quantity : Units, orderedBy : Owners,
            ordered : Units]
Copy == [cart : Tokens, status : CartStatuses, quantity : Units]
TabRow == [shown : Copy, claimed : Owners \X Tokens]
CallRow == [tab : CartTabs \cup {"none"}, op : {"none", "ADD", "SET", "REMOVE"}, cart : Tokens,
            step : {"none", "SENT", "READ", "WRITTEN", "ANSWERED"}, value : Units,
            status : CartStatuses]

CartTypes ==
    /\ cart \in [CartIds -> CartRow] /\ stored \in Tokens /\ signedIn \in Owners
    /\ cartTab \in [CartTabs -> TabRow] /\ request \in [Calls -> CallRow]
    /\ failedCalls \in Nat /\ added = [c \in CartIds |-> added[c]]

Exists(c) == c \in CartIds /\ cart[c].status # "NONE"
TabKnows(t) == cartTab[t].shown.status = "ACTIVE" => Exists(cartTab[t].shown.cart)
CallKnows(k) == request[k] # NoRequest =>
    Exists(request[k].cart) /\ request[k].tab \in CartTabs /\ request[k].step # "none"
CartInv ==
    /\ CartTypes
    /\ stored = NoCart \/ Exists(stored)
    /\ \A t \in CartTabs : TabKnows(t)
    /\ \A k \in Calls : CallKnows(k)

\* No row goes away.
RowsGoOn == \A c : Exists(c) => Exists(c)'

LEMMA KnownGoOn ==
    ASSUME RowsGoOn
    PROVE  /\ \A t \in CartTabs : cartTab'[t] = cartTab[t] /\ TabKnows(t) => TabKnows(t)'
           /\ \A k \in Calls : request'[k] = request[k] /\ CallKnows(k) => CallKnows(k)'
<1>1. \A t \in CartTabs : cartTab'[t] = cartTab[t] /\ TabKnows(t) => TabKnows(t)'
  <2> SUFFICES ASSUME NEW t \in CartTabs, cartTab'[t] = cartTab[t], TabKnows(t) PROVE TabKnows(t)'
    OBVIOUS
  <2>1. PICK c : c = cartTab[t].shown.cart /\ c = cartTab'[t].shown.cart
    OBVIOUS
  <2> QED
    BY <2>1 DEF TabKnows, RowsGoOn
<1>2. \A k \in Calls : request'[k] = request[k] /\ CallKnows(k) => CallKnows(k)'
  <2> SUFFICES ASSUME NEW k \in Calls, request'[k] = request[k], CallKnows(k)
               PROVE  CallKnows(k)'
    OBVIOUS
  <2>1. PICK c : c = request[k].cart /\ c = request'[k].cart
    OBVIOUS
  <2> QED
    BY <2>1 DEF CallKnows, RowsGoOn
<1> QED
  BY <1>1, <1>2

\* One row, one copy or one request changes, and it may do so.
LEMMA RowSet ==
    ASSUME CartInv, NEW c \in CartIds, NEW row \in CartRow, cart' = [cart EXCEPT ![c] = row],
           row.status # "NONE"
    PROVE  /\ cart' \in [CartIds -> CartRow] /\ RowsGoOn /\ Exists(c)' /\ cart'[c] = row
           /\ \A d \in CartIds \ {c} : cart'[d] = cart[d]
BY DEF CartInv, CartTypes, RowsGoOn, Exists

LEMMA TabSet ==
    ASSUME CartInv, RowsGoOn, NEW t \in CartTabs, NEW row \in TabRow,
           cartTab' = [cartTab EXCEPT ![t] = row],
           row.shown.status = "ACTIVE" =>
              \E c : c = row.shown.cart /\ Exists(c)'
    PROVE  /\ cartTab' \in [CartTabs -> TabRow] /\ cartTab'[t] = row
           /\ \A s \in CartTabs \ {t} : cartTab'[s] = cartTab[s]
           /\ \A s \in CartTabs : TabKnows(s)'
<1>1. /\ cartTab' \in [CartTabs -> TabRow] /\ cartTab'[t] = row
      /\ \A s \in CartTabs \ {t} : cartTab'[s] = cartTab[s]
  BY DEF CartInv, CartTypes
<1>2. TabKnows(t)'
  BY <1>1 DEF TabKnows
<1> QED
  BY <1>1, <1>2, KnownGoOn DEF CartInv

LEMMA CallSet ==
    ASSUME CartInv, RowsGoOn, NEW k \in Calls, NEW row \in CallRow,
           request' = [request EXCEPT ![k] = row],
           row # NoRequest => /\ \E c : c = row.cart /\ Exists(c)'
                              /\ row.tab \in CartTabs /\ row.step # "none"
    PROVE  /\ request' \in [Calls -> CallRow] /\ request'[k] = row
           /\ \A j \in Calls \ {k} : request'[j] = request[j]
           /\ \A j \in Calls : CallKnows(j)'
<1>1. /\ request' \in [Calls -> CallRow] /\ request'[k] = row
      /\ \A j \in Calls \ {k} : request'[j] = request[j]
  BY DEF CartInv, CartTypes
<1>2. CallKnows(k)'
  BY <1>1 DEF CallKnows
<1> QED
  BY <1>1, <1>2, KnownGoOn DEF CartInv

LEMMA NothingSet ==
    ASSUME CartInv
    PROVE  /\ cart' = cart => cart' \in [CartIds -> CartRow] /\ RowsGoOn
           /\ RowsGoOn /\ cartTab' = cartTab =>
                 cartTab' \in [CartTabs -> TabRow] /\ \A t \in CartTabs : TabKnows(t)'
           /\ RowsGoOn /\ request' = request =>
                 request' \in [Calls -> CallRow] /\ \A k \in Calls : CallKnows(k)'
<1>1. cart' = cart => RowsGoOn
  BY DEF RowsGoOn, Exists
<1> QED
  BY <1>1, KnownGoOn DEF CartInv, CartTypes

LEMMA NoRows ==
    ASSUME NamesAssumption, CartsAssumption
    PROVE  /\ NoCartRow \in CartRow /\ newCart \in CartRow /\ newCart.status = "ACTIVE"
           /\ newCart.quantity = 0 /\ newCart.owner = NoOne
           /\ NoCartRow.status = "NONE" /\ NoCartRow.quantity = 0 /\ NoCartRow.owner = NoOne
           /\ NoRequest \in CallRow /\ NoRequest.step = "none"
           /\ Nothing \in Copy /\ Nothing.status = "NONE" /\ Nothing.cart = NoCart
BY DEF NoCartRow, newCart, NoRequest, Nothing, CartRow, CallRow, Copy, CartStatuses, Owners,
       Tokens, Units, CartsAssumption
-----------------------------------------------------------------------------
(* Each step keeps the types and the owners.                               *)

CartKept == CartInv' /\ OrderedByItsOwner

\* Which steps leave the rows alone, or change one that has no owner or keeps it.
LEMMA OwnerKept ==
    ASSUME CartInv,
           \/ cart' = cart
           \/ \E c \in CartIds, row \in CartRow :
                 /\ cart' = [cart EXCEPT ![c] = row]
                 /\ cart[c].owner = NoOne \/ row.owner = cart[c].owner
    PROVE  OrderedByItsOwner
<1>1. CASE cart' = cart
  BY <1>1 DEF OrderedByItsOwner
<1>2. ASSUME NEW c \in CartIds, NEW row \in CartRow, cart' = [cart EXCEPT ![c] = row],
             cart[c].owner = NoOne \/ row.owner = cart[c].owner
      PROVE  OrderedByItsOwner
  BY <1>2 DEF OrderedByItsOwner, CartInv, CartTypes
<1> QED
  BY <1>1, <1>2

LEMMA TabActs ==
    ASSUME CartsAssumption, NamesAssumption, CartInv, NEW t \in CartTabs,
           Restore(t) \/ Forget(t) \/ createCart(t) \/ Reload(t)
    PROVE  CartKept
<1> USE NoRows
<1>1. cartTab[t] \in TabRow
  BY DEF CartInv, CartTypes
<1>2. ASSUME Restore(t) PROVE CartKept
  <2> DEFINE row == [cartTab[t] EXCEPT !.shown = serializeCart(stored)]
  <2>1. Exists(stored) /\ cart[stored] \in CartRow /\ stored \in Tokens
    BY <1>2 DEF Restore, storedIsActive, CartInv, CartTypes, Exists
  <2>2. serializeCart(stored) \in Copy /\ serializeCart(stored).cart = stored
    BY <2>1 DEF serializeCart, Copy, CartRow
  <2>3. row \in TabRow /\ row.shown.cart = stored
    BY <1>1, <2>2 DEF TabRow
  <2>4. cartTab' = [cartTab EXCEPT ![t] = row] /\ stored' = stored /\ cart' = cart /\ request' = request
        /\ UNCHANGED <<signedIn, failedCalls, added>>
    BY <1>2, <2>2 DEF Restore, storeCart, CartInv, CartTypes
  <2> HIDE DEF row
  <2>5. RowsGoOn /\ Exists(stored)' /\ stored' = stored
    BY <2>1, <2>4, NothingSet DEF RowsGoOn
  <2>6. cartTab' \in [CartTabs -> TabRow] /\ \A s \in CartTabs : TabKnows(s)'
    BY <2>3, <2>4, <2>5, TabSet
  <2> QED
    BY <2>4, <2>5, <2>6, NothingSet, OwnerKept DEF CartKept, CartInv, CartTypes
<1>3. ASSUME Forget(t) PROVE CartKept
  <2>1. stored' = NoCart /\ failedCalls' = failedCalls + 1 /\ UNCHANGED <<cart, signedIn, cartTab, request, added>>
    BY <1>3 DEF Forget
  <2> QED
    BY <2>1, NothingSet, OwnerKept DEF CartKept, CartInv, CartTypes, Tokens
<1>4. ASSUME createCart(t) PROVE CartKept
  <2>1. PICK c \in CartIds :
           /\ cart[c] = NoCartRow /\ cart' = [cart EXCEPT ![c] = newCart]
           /\ storeCart(t, [cart |-> c, status |-> "ACTIVE", quantity |-> 0])
           /\ UNCHANGED <<signedIn, request, failedCalls, added>>
    BY <1>4 DEF createCart
  <2> DEFINE copy == [cart |-> c, status |-> "ACTIVE", quantity |-> 0]
             row == [cartTab[t] EXCEPT !.shown = copy]
  <2>2. copy \in Copy
    BY DEF Copy, CartStatuses, Tokens, Units, CartsAssumption
  <2>3. row \in TabRow /\ row.shown.cart = c
    BY <1>1, <2>2 DEF TabRow
  <2>4. cartTab' = [cartTab EXCEPT ![t] = row] /\ stored' = c
    BY <2>1 DEF storeCart, CartInv, CartTypes
  <2> HIDE DEF row, copy
  <2>5. cart' \in [CartIds -> CartRow] /\ RowsGoOn /\ Exists(c)'
    BY <2>1, RowSet
  <2>6. cartTab' \in [CartTabs -> TabRow] /\ \A s \in CartTabs : TabKnows(s)'
    BY <2>3, <2>4, <2>5, TabSet
  <2>7. OrderedByItsOwner
    BY <2>1, OwnerKept
  <2> QED
    BY <2>1, <2>4, <2>5, <2>6, <2>7, NothingSet DEF CartKept, CartInv, CartTypes, Tokens, Exists
<1>5. ASSUME Reload(t) PROVE CartKept
  <2> DEFINE row == [cartTab[t] EXCEPT !.shown = Nothing, !.claimed = <<NoOne, NoCart>>]
  <2>1. row \in TabRow /\ row.shown = Nothing
    BY <1>1 DEF TabRow, Owners, Tokens
  <2>2. cartTab' = [cartTab EXCEPT ![t] = row] /\ UNCHANGED <<cart, stored, signedIn, request, failedCalls, added>>
    BY <1>5 DEF Reload, CartInv, CartTypes
  <2> HIDE DEF row
  <2>3. RowsGoOn /\ (Exists(stored) => Exists(stored)')
    BY <2>2, NothingSet DEF Exists
  <2>4. cartTab' \in [CartTabs -> TabRow] /\ \A s \in CartTabs : TabKnows(s)'
    BY <2>1, <2>2, <2>3, TabSet
  <2> QED
    BY <2>2, <2>3, <2>4, NothingSet, OwnerKept DEF CartKept, CartInv, CartTypes
<1> QED
  BY <1>2, <1>3, <1>4, <1>5

\* A step that changes one request, and nothing else.
LEMMA OneCallSet ==
    ASSUME CartsAssumption, NamesAssumption, CartInv, NEW k \in Calls, NEW row \in CallRow,
           request' = [request EXCEPT ![k] = row], UNCHANGED <<cart, stored, signedIn, cartTab, failedCalls, added>>,
           row # NoRequest => Exists(row.cart) /\ row.tab \in CartTabs /\ row.step # "none"
    PROVE  CartKept
<1>1. RowsGoOn /\ (Exists(stored) => Exists(stored)')
  BY NothingSet DEF Exists
<1>2. row # NoRequest => /\ \E c : c = row.cart /\ Exists(c)'
                         /\ row.tab \in CartTabs /\ row.step # "none"
  BY <1>1 DEF RowsGoOn
<1>3. request' \in [Calls -> CallRow] /\ \A j \in Calls : CallKnows(j)'
  BY <1>1, <1>2, CallSet
<1> QED
  BY <1>1, <1>3, NothingSet, OwnerKept DEF CartKept, CartInv, CartTypes

LEMMA CallActs ==
    ASSUME CartsAssumption, NamesAssumption, CartInv, NEW k \in Calls,
           \/ \E t \in CartTabs : \/ Ask(t, k, "ADD", 1) \/ Ask(t, k, "REMOVE", 0)
                                  \/ \E q \in 1..Stock : Ask(t, k, "SET", q)
           \/ ReadCart(k) \/ WriteCart(k) \/ AnswerCall(k) \/ Receive(k)
    PROVE  CartKept
<1> USE NoRows
<1> DEFINE r == request[k]
<1>1. r \in CallRow /\ CallKnows(k)
  BY DEF CartInv, CartTypes
<1>2. r.step # "none" => /\ Exists(r.cart) /\ r.cart \in CartIds /\ r.tab \in CartTabs
                         /\ cart[r.cart] \in CartRow
  BY <1>1 DEF CallKnows, Exists, CartInv, CartTypes
<1>3. ASSUME NEW t \in CartTabs, NEW op \in {"ADD", "SET", "REMOVE"}, NEW value \in Units,
             Ask(t, k, op, value)
      PROVE  CartKept
  <2> DEFINE row == [tab |-> t, op |-> op, step |-> "SENT", cart |-> cartTab[t].shown.cart,
                     value |-> value, status |-> "NONE"]
  <2>1. cartTab[t] \in TabRow /\ Exists(cartTab[t].shown.cart)
    BY <1>3 DEF Ask, Usable, Ensuring, CartInv, CartTypes, TabKnows
  <2>2. /\ row \in CallRow /\ row.cart = cartTab[t].shown.cart /\ row.tab = t /\ row.step = "SENT"
        /\ request' = [request EXCEPT ![k] = row]
        /\ UNCHANGED <<cart, stored, signedIn, cartTab, failedCalls, added>>
    BY <1>3, <2>1 DEF Ask, CallRow, TabRow, Copy, CartStatuses
  <2> HIDE DEF row
  <2> QED
    BY <2>1, <2>2, OneCallSet
<1>4. ASSUME UNCHANGED <<cart, stored, signedIn, cartTab, failedCalls, added>>, Drop(k)
      PROVE  CartKept
  BY <1>4, OneCallSet DEF Drop
<1>5. ASSUME ReadCart(k), ~Drop(k)
      PROVE  CartKept
  <2> DEFINE q == requestedQuantity(r)
             row == [r EXCEPT !.step = "READ", !.value = q]
  <2>1. r.step = "SENT" /\ request' = [request EXCEPT ![k] = row] /\ ~exceedsStock(q)
        /\ UNCHANGED <<cart, stored, signedIn, cartTab, failedCalls, added>>
    BY <1>5 DEF ReadCart, CartInv, CartTypes
  <2>2. q \in Units
    BY <1>1, <1>2, <2>1 DEF requestedQuantity, exceedsStock, CallRow, CartRow, Units, CartsAssumption
  <2> HIDE DEF q
  <2>3. row \in CallRow /\ row.cart = r.cart /\ row.tab = r.tab /\ row.step = "READ"
    BY <1>1, <2>2 DEF CallRow
  <2> HIDE DEF row
  <2> QED
    BY <1>2, <2>1, <2>3, OneCallSet
<1>6. ASSUME WriteCart(k), ~Drop(k)
      PROVE  CartKept
  <2> DEFINE row == [r EXCEPT !.step = "WRITTEN"]
             new == [cart[r.cart] EXCEPT !.quantity = r.value]
  <2>1. /\ r.step = "READ" /\ request' = [request EXCEPT ![k] = row]
        /\ cart' = [cart EXCEPT ![r.cart] = new]
        /\ UNCHANGED <<stored, signedIn, cartTab, failedCalls>>
        /\ added' = [c \in CartIds |-> added'[c]]
    BY <1>6, <1>2 DEF WriteCart, CartInv, CartTypes
  <2>2. /\ row \in CallRow /\ row.cart = r.cart /\ row.tab = r.tab /\ row.step = "WRITTEN"
        /\ new \in CartRow /\ new.status = cart[r.cart].status /\ new.owner = cart[r.cart].owner
    BY <1>1, <1>2, <2>1 DEF CallRow, CartRow
  <2> HIDE DEF row, new
  <2>3. r.cart \in CartIds /\ new.status # "NONE" /\ r.tab \in CartTabs
    BY <1>2, <2>1, <2>2 DEF Exists
  <2>4. cart' \in [CartIds -> CartRow] /\ RowsGoOn /\ Exists(r.cart)' /\ OrderedByItsOwner
    <3>1. PICK c : c = r.cart
      OBVIOUS
    <3>2. cart' \in [CartIds -> CartRow] /\ RowsGoOn
      BY <2>1, <2>2, <2>3, <3>1, RowSet
    <3>3. OrderedByItsOwner
      BY <2>1, <2>2, <2>3, OwnerKept
    <3> QED
      BY <3>2, <3>3, <1>2, <2>1, <2>2, <2>3 DEF RowsGoOn, Exists
  <2>5. \E c : c = row.cart /\ Exists(c)'
    <3>1. PICK c : c = r.cart
      OBVIOUS
    <3> QED
      BY <1>2, <2>1, <2>2, <2>4, <3>1 DEF RowsGoOn
  <2>6. request' \in [Calls -> CallRow] /\ \A j \in Calls : CallKnows(j)'
    BY <2>1, <2>2, <2>3, <2>4, <2>5, CallSet
  <2>7. stored' = stored /\ (Exists(stored) => Exists(stored)')
    BY <2>1, <2>4 DEF RowsGoOn, Exists
  <2> QED
    BY <2>1, <2>4, <2>6, <2>7, NothingSet DEF CartKept, CartInv, CartTypes
<1>7. ASSUME AnswerCall(k) PROVE CartKept
  <2> DEFINE row == [r EXCEPT !.step = "ANSWERED", !.value = cart[r.cart].quantity,
                              !.status = cart[r.cart].status]
  <2>1. r.step = "WRITTEN" /\ request' = [request EXCEPT ![k] = row]
        /\ UNCHANGED <<cart, stored, signedIn, cartTab, failedCalls, added>>
    BY <1>7 DEF AnswerCall, CartInv, CartTypes
  <2>2. row \in CallRow /\ row.cart = r.cart /\ row.tab = r.tab /\ row.step = "ANSWERED"
    BY <1>1, <1>2, <2>1 DEF CallRow, CartRow
  <2> HIDE DEF row
  <2> QED
    BY <1>2, <2>1, <2>2, OneCallSet
<1>8. ASSUME Receive(k) PROVE CartKept
  <2> DEFINE copy == [cart |-> r.cart, status |-> r.status, quantity |-> r.value]
             row == [cartTab[r.tab] EXCEPT !.shown = copy]
  <2>1. r.step = "ANSWERED" /\ r.tab \in CartTabs /\ cartTab[r.tab] \in TabRow
    BY <1>2, <1>8 DEF Receive, CartInv, CartTypes
  <2>2. copy \in Copy /\ row \in TabRow /\ row.shown = copy /\ copy.cart = r.cart
    BY <1>1, <2>1 DEF Copy, TabRow, CallRow
  <2>3. /\ cartTab' = [cartTab EXCEPT ![r.tab] = row] /\ stored' = r.cart
        /\ request' = [request EXCEPT ![k] = NoRequest]
        /\ UNCHANGED <<cart, signedIn, failedCalls, added>>
    BY <1>8, <2>1 DEF Receive, storeCart, Drop, CartInv, CartTypes
  <2> HIDE DEF row, copy
  <2>4. PICK c : c = r.cart
    OBVIOUS
  <2>5. RowsGoOn /\ Exists(c)' /\ c \in CartIds
    BY <1>2, <2>1, <2>3, <2>4, NothingSet DEF RowsGoOn
  <2>6. cartTab' \in [CartTabs -> TabRow] /\ \A s \in CartTabs : TabKnows(s)'
    BY <2>1, <2>2, <2>3, <2>4, <2>5, TabSet
  <2>7. request' \in [Calls -> CallRow] /\ \A j \in Calls : CallKnows(j)'
    BY <2>3, <2>5, CallSet
  <2> QED
    BY <2>3, <2>4, <2>5, <2>6, <2>7, NothingSet, OwnerKept
       DEF CartKept, CartInv, CartTypes, Tokens, Exists
<1>9. CASE ReadCart(k) \/ WriteCart(k)
  <2>1. ReadCart(k) /\ Drop(k) => UNCHANGED <<cart, stored, signedIn, cartTab, failedCalls, added>>
    BY DEF ReadCart
  <2>2. WriteCart(k) /\ Drop(k) => UNCHANGED <<cart, stored, signedIn, cartTab, failedCalls, added>>
    <3> SUFFICES ASSUME WriteCart(k), Drop(k)
                 PROVE  UNCHANGED <<cart, stored, signedIn, cartTab, failedCalls, added>>
      OBVIOUS
    <3>1. request'[k] = NoRequest
      BY DEF Drop, CartInv, CartTypes
    <3>2. request' # [request EXCEPT ![k].step = "WRITTEN"]
      BY <3>1 DEF CartInv, CartTypes, CallRow
    <3> QED
      BY <3>2 DEF WriteCart
  <2> QED
    BY <1>4, <1>5, <1>6, <1>9, <2>1, <2>2
<1>10. 0 \in Units /\ 1 \in Units /\ \A q \in 1..Stock : q \in Units
  BY DEF Units, CartsAssumption
<1> QED
  BY <1>3, <1>7, <1>8, <1>9, <1>10

LEMMA CustomerActs ==
    ASSUME CartsAssumption, NamesAssumption, CartInv, NEW t \in CartTabs,
           Claim(t) \/ Order(t, TRUE) \/ Order(t, FALSE)
    PROVE  CartKept
<1> USE NoRows
<1> DEFINE c == cartTab[t].shown.cart
<1>1. cartTab[t] \in TabRow /\ Exists(c) /\ c \in CartIds /\ cart[c] \in CartRow
      /\ signedIn \in Owners
  BY DEF Claim, Order, Usable, Ensuring, CartInv, CartTypes, TabKnows, Exists
<1>2. CASE Claim(t)
  <2>1. CASE UNCHANGED <<cart, cartTab>>
    <3>1. UNCHANGED cartVars
      BY <1>2, <2>1 DEF Claim, cartVars
    <3> QED
      BY <3>1, NothingSet, OwnerKept DEF cartVars, CartKept, CartInv, CartTypes, Exists
  <2>2. CASE /\ claimableCart(c, signedIn) /\ cart' = [cart EXCEPT ![c].owner = signedIn]
             /\ cartTab' = [cartTab EXCEPT ![t].claimed = <<signedIn, c>>]
    <3> DEFINE new == [cart[c] EXCEPT !.owner = signedIn]
               row == [cartTab[t] EXCEPT !.claimed = <<signedIn, c>>]
    <3>1. /\ new \in CartRow /\ new.status = cart[c].status /\ new.status # "NONE"
          /\ new.owner = signedIn
          /\ row \in TabRow /\ row.shown = cartTab[t].shown
      BY <1>1 DEF CartRow, TabRow, Exists, Tokens
    <3>2. cart' = [cart EXCEPT ![c] = new] /\ cartTab' = [cartTab EXCEPT ![t] = row]
      BY <2>2 DEF CartInv, CartTypes
    <3>3. cart[c].owner = NoOne \/ new.owner = cart[c].owner
      BY <2>2, <3>1 DEF claimableCart
    <3> HIDE DEF new, row
    <3>4. cart' \in [CartIds -> CartRow] /\ RowsGoOn /\ OrderedByItsOwner
      <4>1. PICK d : d = c
        OBVIOUS
      <4>2. cart' \in [CartIds -> CartRow] /\ RowsGoOn
        BY <1>1, <3>1, <3>2, <4>1, RowSet
      <4> QED
        BY <4>2, <1>1, <3>1, <3>2, <3>3, OwnerKept
    <3>5. \E d : d = row.shown.cart /\ Exists(d)'
      <4>1. PICK d : d = c
        OBVIOUS
      <4> QED
        BY <1>1, <3>1, <3>4, <4>1 DEF RowsGoOn
    <3>6. cartTab' \in [CartTabs -> TabRow] /\ \A s \in CartTabs : TabKnows(s)'
      BY <3>1, <3>2, <3>4, <3>5, TabSet
    <3>7. UNCHANGED <<stored, signedIn, request, failedCalls, added>>
      BY <1>2 DEF Claim
    <3>8. Exists(stored) => Exists(stored)'
      BY <3>4, <3>7 DEF RowsGoOn, Exists
    <3> QED
      BY <3>4, <3>6, <3>7, <3>8, NothingSet DEF CartKept, CartInv, CartTypes
  <2> QED
    BY <1>2, <2>1, <2>2 DEF Claim
<1>3. ASSUME NEW heard \in BOOLEAN, Order(t, heard) PROVE CartKept
  <2> DEFINE new == [cart[c] EXCEPT !.status = "CONVERTED", !.owner = signedIn,
                                    !.orderedBy = signedIn, !.ordered = cart[c].quantity]
             row == [shown |-> Nothing, claimed |-> <<NoOne, NoCart>>]
  <2>1. /\ new \in CartRow /\ new.status = "CONVERTED" /\ new.owner = signedIn
        /\ row \in TabRow /\ row.shown = Nothing
    BY <1>1 DEF CartRow, CartStatuses, TabRow, Owners, Tokens
  <2>2. /\ cart' = [cart EXCEPT ![c] = new]
        /\ \/ cartTab' = [cartTab EXCEPT ![t] = row] /\ stored' = NoCart /\ failedCalls' = failedCalls
           \/ failedCalls' = failedCalls + 1 /\ UNCHANGED <<cartTab, stored>>
        /\ UNCHANGED <<signedIn, request, added>>
        /\ orderable(c, signedIn)
    BY <1>3 DEF Order, CartInv, CartTypes
  <2>3. cart[c].owner = NoOne \/ new.owner = cart[c].owner
    BY <2>1, <2>2 DEF orderable
  <2> HIDE DEF new, row
  <2>4. cart' \in [CartIds -> CartRow] /\ RowsGoOn /\ OrderedByItsOwner
    <3>1. PICK d : d = c
      OBVIOUS
    <3>2. cart' \in [CartIds -> CartRow] /\ RowsGoOn
      BY <1>1, <2>1, <2>2, <3>1, RowSet
    <3> QED
      BY <3>2, <1>1, <2>1, <2>2, <2>3, OwnerKept
  <2>5. cartTab' \in [CartTabs -> TabRow] /\ \A s \in CartTabs : TabKnows(s)'
    <3>1. CASE cartTab' = cartTab
      BY <2>4, <3>1, NothingSet
    <3>2. CASE cartTab' = [cartTab EXCEPT ![t] = row]
      BY <2>1, <2>4, <3>2, TabSet
    <3> QED
      BY <2>2, <3>1, <3>2
  <2>6. /\ stored' = NoCart \/ (stored' = stored /\ (Exists(stored) => Exists(stored)'))
        /\ stored' \in Tokens /\ failedCalls' \in Nat
    BY <2>2, <2>4 DEF RowsGoOn, Exists, CartInv, CartTypes, Tokens
  <2> QED
    BY <2>2, <2>4, <2>5, <2>6, NothingSet DEF CartKept, CartInv, CartTypes
<1> QED
  BY <1>2, <1>3

LEMMA OtherActs ==
    ASSUME CartsAssumption, NamesAssumption, CartInv,
           \/ \E t \in CartTabs, c, d \in CartIds : Reopen(t, c, d)
           \/ \E c \in CartIds : Expire(c)
           \/ \E u \in Owners : SignIn(u)
           \/ UNCHANGED cartVars
    PROVE  CartKept
<1> USE NoRows
<1>1. ASSUME NEW t \in CartTabs, NEW c \in CartIds, NEW d \in CartIds, Reopen(t, c, d)
      PROVE  CartKept
  <2> DEFINE n == cart[c].ordered
             new == [newCart EXCEPT !.owner = signedIn, !.quantity = n]
             copy == [cart |-> d, status |-> "ACTIVE", quantity |-> n]
             row == [cartTab[t] EXCEPT !.shown = copy]
  <2>1. cart[c] \in CartRow /\ n \in Units /\ cartTab[t] \in TabRow /\ signedIn \in Owners
    BY DEF CartInv, CartTypes, CartRow
  <2>2. /\ new \in CartRow /\ new.status = "ACTIVE" /\ copy \in Copy /\ row \in TabRow
        /\ row.shown = copy /\ copy.cart = d
    BY <2>1 DEF CartRow, newCart, NoCartRow, Copy, CartStatuses, TabRow, Tokens
  <2>3. /\ cart' = [cart EXCEPT ![d] = new] /\ cartTab' = [cartTab EXCEPT ![t] = row] /\ stored' = d
        /\ cart[d] = NoCartRow /\ UNCHANGED <<signedIn, request, failedCalls>>
        /\ added' = [added EXCEPT ![d] = n]
    BY <1>1 DEF Reopen, storeCart, CartInv, CartTypes
  <2>4. added' = [e \in CartIds |-> added'[e]]
    BY <2>3 DEF CartInv, CartTypes
  <2> HIDE DEF n, new, copy, row
  <2>5. cart' \in [CartIds -> CartRow] /\ RowsGoOn /\ Exists(d)' /\ OrderedByItsOwner
    BY <2>2, <2>3, RowSet, OwnerKept
  <2>6. cartTab' \in [CartTabs -> TabRow] /\ \A s \in CartTabs : TabKnows(s)'
    BY <2>2, <2>3, <2>5, TabSet
  <2> QED
    BY <2>3, <2>4, <2>5, <2>6, NothingSet DEF CartKept, CartInv, CartTypes, Tokens, Exists
<1>2. ASSUME NEW c \in CartIds, Expire(c) PROVE CartKept
  <2> DEFINE new == [cart[c] EXCEPT !.status = "EXPIRED"]
  <2>1. cart[c] \in CartRow /\ cart[c].status = "ACTIVE"
    BY <1>2 DEF Expire, CartInv, CartTypes
  <2>2. new \in CartRow /\ new.status = "EXPIRED" /\ new.owner = cart[c].owner
    BY <2>1 DEF CartRow, CartStatuses
  <2>3. /\ cart' = [cart EXCEPT ![c] = new]
        /\ UNCHANGED <<stored, signedIn, cartTab, request, failedCalls, added>>
    BY <1>2 DEF Expire, CartInv, CartTypes
  <2> HIDE DEF new
  <2>4. cart' \in [CartIds -> CartRow] /\ RowsGoOn /\ OrderedByItsOwner
    BY <2>2, <2>3, RowSet, OwnerKept
  <2>5. Exists(stored) => Exists(stored)'
    BY <2>3, <2>4 DEF RowsGoOn, Exists
  <2> QED
    BY <2>3, <2>4, <2>5, NothingSet DEF CartKept, CartInv, CartTypes
<1>3. ASSUME NEW u \in Owners, SignIn(u) \/ UNCHANGED cartVars PROVE CartKept
  <2>1. UNCHANGED <<cart, stored, cartTab, request, failedCalls, added>> /\ signedIn' \in Owners
    BY <1>3 DEF SignIn, cartVars, CartInv, CartTypes
  <2> QED
    BY <2>1, NothingSet, OwnerKept DEF CartKept, CartInv, CartTypes, Exists
<1> QED
  BY <1>1, <1>2, <1>3 DEF Owners

LEMMA CartStarts == ASSUME CartsAssumption, NamesAssumption PROVE CartsInit => CartInv
<1> SUFFICES ASSUME CartsInit PROVE CartInv
  OBVIOUS
<1>1. CartTypes
  <2>1. [shown |-> Nothing, claimed |-> <<NoOne, NoCart>>] \in TabRow
    BY NoRows DEF TabRow, Owners, Tokens
  <2> QED
    BY <2>1, NoRows DEF CartsInit, CartTypes, Tokens, Owners
<1>2. \A t \in CartTabs : TabKnows(t)
  BY NoRows DEF CartsInit, TabKnows
<1>3. \A k \in Calls : CallKnows(k)
  BY DEF CartsInit, CallKnows
<1> QED
  BY <1>1, <1>2, <1>3 DEF CartsInit, CartInv

LEMMA CartKeeps ==
    ASSUME CartsAssumption, NamesAssumption, CartInv, [CartsNext]_cartVars
    PROVE  CartKept
<1>1. ASSUME NEW t \in CartTabs,
             \/ Restore(t) \/ Forget(t) \/ createCart(t) \/ Reload(t) \/ Claim(t)
             \/ Order(t, TRUE) \/ Order(t, FALSE)
      PROVE  CartKept
  BY <1>1, TabActs, CustomerActs
<1>2. CASE \E t \in CartTabs, c, d \in CartIds : Reopen(t, c, d)
  BY <1>2, OtherActs
<1>3. ASSUME NEW k \in Calls,
             \/ \E t \in CartTabs : \/ Ask(t, k, "ADD", 1) \/ Ask(t, k, "REMOVE", 0)
                                    \/ \E q \in 1..Stock : Ask(t, k, "SET", q)
             \/ ReadCart(k) \/ WriteCart(k) \/ AnswerCall(k) \/ Receive(k)
      PROVE  CartKept
  BY <1>3, CallActs
<1>4. CASE \/ \E c \in CartIds : Expire(c)
           \/ \E u \in Customers \cup {NoOne} : SignIn(u)
           \/ UNCHANGED cartVars
  BY <1>4, OtherActs DEF Owners
<1> QED
  BY <1>1, <1>2, <1>3, <1>4 DEF CartsNext

\* Rows, copies and requests have their types, whatever the tabs ask at once.
THEOREM CartsTypeCorrect ==
    ASSUME CartsAssumption, NamesAssumption
    PROVE  CartsSpec => []CartsTypesOK
<1>1. CartInv => CartsTypesOK
  BY DEF CartInv, CartTypes, CartsTypesOK, CartRow, CartStatuses, Owners, Units, Tokens, TabRow, Copy
<1>2. CartInv /\ [CartsNext]_cartVars => CartInv'
  BY CartKeeps DEF CartKept
<1> QED
  BY <1>1, <1>2, CartStarts, PTL DEF CartsSpec

\* A cart that belongs to a customer is never another's, however many tabs, calls
\* and customers share the browser that holds its token: a claim and an order ask
\* whose it is in the update itself.
THEOREM OwnersKeepCarts ==
    ASSUME CartsAssumption, NamesAssumption
    PROVE  CartsSpec => [][OrderedByItsOwner]_cartVars
<1>1. CartInv /\ [CartsNext]_cartVars => CartInv' /\ [OrderedByItsOwner]_cartVars
  BY CartKeeps DEF CartKept
<1> QED
  BY <1>1, CartStarts, PTL DEF CartsSpec
-----------------------------------------------------------------------------
(* One tab with one request at a time.                                     *)

OneTab == \A s, t \in CartTabs : s = t
OneCall == \A j, k \in Calls : j = k

\* A request that adds one knows the quantity, and so does an answer.
CallSays(k) ==
    LET r == request[k]
        quantity == cart[r.cart].quantity
    IN  /\ r.op = "ADD" /\ r.step = "SENT" => r.value = 1
        /\ r.op = "ADD" /\ r.step = "READ" => r.value = quantity + 1
        /\ r.step = "ANSWERED" => r.value = quantity
\* A request for another cart than the browser's found this one empty.
AsksHere(k) == request[k] # NoRequest /\ stored \in CartIds =>
    request[k].cart = stored \/ cart[stored].quantity = 0
\* The copy on screen is old only while the answer that renews it is on its way.
OnItsWay(k) == request[k].step \in {"WRITTEN", "ANSWERED"}
TabSays(t) == ~Ensuring(t) /\ (\A k \in Calls : ~OnItsWay(k)) =>
    LET c == cartTab[t].shown.cart
    IN  cart[c].status = "ACTIVE" => cart[c].quantity = cartTab[t].shown.quantity
OrderedSome(c) == cart[c].status = "CONVERTED" => cart[c].ordered > 0

SingleInv ==
    /\ FoundAgain /\ AddsAreKept
    /\ \A k \in Calls : CallSays(k) /\ AsksHere(k)
    /\ \A t \in CartTabs : TabSays(t)
    /\ \A c \in CartIds : OrderedSome(c)

\* The quantities stay, and a cart becomes active or ordered only as it may.
SameQuantities == \A c \in CartIds :
    /\ cart'[c].quantity = cart[c].quantity
    /\ cart'[c].status = "ACTIVE" => cart[c].status = "ACTIVE"
    /\ OrderedSome(c)'

LEMMA SingleFrame ==
    ASSUME CartInv, SingleInv, SameQuantities, UNCHANGED <<request, added>>,
           stored' = stored \/ stored' = NoCart, NoCart \notin CartIds
    PROVE  /\ AddsAreKept' /\ \A k \in Calls : CallSays(k)' /\ AsksHere(k)'
           /\ \A t \in CartTabs : cartTab'[t].shown = cartTab[t].shown => TabSays(t)'
           /\ \A c \in CartIds : OrderedSome(c)'
<1>1. AddsAreKept'
  BY DEF SingleInv, AddsAreKept, SameQuantities
<1>2. ASSUME NEW k \in Calls PROVE CallSays(k)' /\ AsksHere(k)'
  <2>1. CallSays(k) /\ AsksHere(k) /\ (request[k] # NoRequest => request[k].cart \in CartIds)
    BY DEF SingleInv, CartInv, CallKnows, Exists
  <2>2. request[k] = NoRequest => request[k].step = "none"
    BY DEF NoRequest
  <2> QED
    BY <2>1, <2>2 DEF CallSays, AsksHere, SameQuantities
<1>3. ASSUME NEW t \in CartTabs, cartTab'[t].shown = cartTab[t].shown PROVE TabSays(t)'
  <2>1. TabSays(t) /\ (~Ensuring(t) => cartTab[t].shown.cart \in CartIds)
    BY DEF SingleInv, CartInv, TabKnows, Exists, Ensuring
  <2> QED
    BY <1>3, <2>1 DEF TabSays, Ensuring, OnItsWay, SameQuantities
<1> QED
  BY <1>1, <1>2, <1>3 DEF SameQuantities

\* Requests that are under way are the tab's own, so that with none every one is
\* free.
LEMMA NoneUnderWay ==
    ASSUME CartInv, OneTab, NEW t \in CartTabs, ~mutating(t)
    PROVE  \A k \in Calls : request[k] = NoRequest /\ ~OnItsWay(k)
<1> SUFFICES ASSUME NEW k \in Calls PROVE request[k] = NoRequest
  BY DEF NoRequest, OnItsWay
<1>1. CallKnows(k)
  BY DEF CartInv
<1> QED
  BY <1>1 DEF CallKnows, OneTab, mutating, Under

LEMMA SingleTab ==
    ASSUME CartsAssumption, NamesAssumption, OneTab, CartInv, SingleInv, NEW t \in CartTabs,
           \/ Restore(t) \/ Forget(t) \/ createCart(t) \/ Reload(t) \/ Claim(t)
           \/ Order(t, TRUE) \/ Order(t, FALSE)
           \/ \E c, d \in CartIds : Reopen(t, c, d)
    PROVE  SingleInv'
<1> USE NoRows DEF NamesAssumption
<1>1. /\ \A s \in CartTabs : s = t
      /\ cartTab[t] \in TabRow /\ cart \in [CartIds -> CartRow] /\ cartTab \in [CartTabs -> TabRow]
      /\ TabKnows(t) /\ TabSays(t)
      /\ \A c \in CartIds : OrderedSome(c)
  BY DEF OneTab, CartInv, CartTypes, SingleInv
<1>2. SameQuantities /\ UNCHANGED <<request, added>> /\ (stored' = stored \/ stored' = NoCart)
      /\ cartTab'[t].shown = cartTab[t].shown /\ (Ensuring(t) \/ stored' = stored) => SingleInv'
  <2>1. (Ensuring(t) \/ stored' = stored) /\ cartTab'[t].shown = cartTab[t].shown => FoundAgain'
    BY <1>1 DEF SingleInv, FoundAgain, Ensuring
  <2> QED
    BY <1>1, <2>1, SingleFrame DEF SingleInv, FoundAgain, Ensuring
<1>3. SameQuantities /\ UNCHANGED <<request, added>> /\ (stored' = stored \/ stored' = NoCart)
      /\ cartTab'[t].shown = Nothing => SingleInv'
  BY <1>1, SingleFrame DEF SingleInv, FoundAgain, Ensuring, TabSays
<1>4. cart' = cart => SameQuantities
  BY <1>1 DEF SameQuantities, OrderedSome
<1>5. ASSUME Restore(t) PROVE SingleInv'
  <2>1. /\ cart' = cart /\ stored' = stored /\ UNCHANGED <<request, added>>
        /\ cartTab'[t].shown = serializeCart(stored)
    BY <1>1, <1>5 DEF Restore, storeCart, serializeCart
  <2>2. /\ AddsAreKept' /\ \A k \in Calls : CallSays(k)' /\ AsksHere(k)'
        /\ \A c \in CartIds : OrderedSome(c)'
    BY <1>4, <2>1, SingleFrame
  <2>3. FoundAgain' /\ TabSays(t)'
    BY <1>1, <2>1 DEF FoundAgain, TabSays, serializeCart
  <2> QED
    BY <1>1, <2>2, <2>3 DEF SingleInv
<1>6. ASSUME Forget(t) PROVE SingleInv'
  BY <1>2, <1>4, <1>6 DEF Forget
<1>7. ASSUME createCart(t) PROVE SingleInv'
  <2>1. PICK c \in CartIds :
           /\ cart[c] = NoCartRow /\ cart' = [cart EXCEPT ![c] = newCart]
           /\ storeCart(t, [cart |-> c, status |-> "ACTIVE", quantity |-> 0])
           /\ UNCHANGED <<signedIn, request, failedCalls, added>>
    BY <1>7 DEF createCart
  <2>2. /\ cartTab'[t].shown = [cart |-> c, status |-> "ACTIVE", quantity |-> 0] /\ stored' = c
        /\ cart'[c] = newCart /\ cart[c].quantity = 0
        /\ \A d \in CartIds \ {c} : cart'[d] = cart[d]
    BY <1>1, <2>1 DEF storeCart
  <2>3. AddsAreKept' /\ \A d \in CartIds : OrderedSome(d)'
    BY <1>1, <2>1, <2>2 DEF SingleInv, AddsAreKept, OrderedSome
  <2>4. FoundAgain' /\ TabSays(t)'
    BY <1>1, <2>2 DEF FoundAgain, TabSays
  <2>5. ASSUME NEW k \in Calls PROVE CallSays(k)' /\ AsksHere(k)'
    <3>1. /\ CallSays(k) /\ CallKnows(k)
          /\ request[k] = NoRequest => request[k].step = "none"
      BY DEF SingleInv, CartInv, NoRequest
    <3>2. request[k] # NoRequest => request[k].cart \in CartIds \ {c}
      BY <2>1, <3>1 DEF CallKnows, Exists
    <3> QED
      BY <2>1, <2>2, <3>1, <3>2 DEF CallSays, AsksHere
  <2> QED
    BY <1>1, <2>3, <2>4, <2>5 DEF SingleInv
<1>8. ASSUME Reload(t) PROVE SingleInv'
  <2>1. cartTab'[t].shown = Nothing
    BY <1>1, <1>8 DEF Reload, TabRow
  <2> QED
    BY <1>3, <1>4, <1>8, <2>1 DEF Reload
<1>9. ASSUME Claim(t) PROVE SingleInv'
  <2> DEFINE c == cartTab[t].shown.cart
  <2>1. cartTab'[t].shown = cartTab[t].shown
    BY <1>1, <1>9 DEF Claim, TabRow
  <2>2. cart' = cart \/ cart' = [cart EXCEPT ![c].owner = signedIn]
    BY <1>9 DEF Claim
  <2> HIDE DEF c
  <2>3. SameQuantities
    BY <1>1, <2>2 DEF SameQuantities, OrderedSome, CartRow
  <2> QED
    BY <1>2, <1>9, <2>1, <2>3 DEF Claim
<1>10. ASSUME NEW heard \in BOOLEAN, Order(t, heard) PROVE SingleInv'
  <2> DEFINE c == cartTab[t].shown.cart
             new == [cart[c] EXCEPT !.status = "CONVERTED", !.owner = signedIn,
                                    !.orderedBy = signedIn, !.ordered = cart[c].quantity]
  <2>1. c \in CartIds /\ cart[c] \in CartRow /\ cart[c].quantity \in 1..Stock
    BY <1>1, <1>10 DEF Order, TabKnows, Usable, Ensuring, Exists
  <2>2. cart' = [cart EXCEPT ![c] = new] /\ UNCHANGED <<request, added>>
    BY <1>1, <1>10 DEF Order
  <2>3. new.quantity = cart[c].quantity /\ new.status = "CONVERTED" /\ new.ordered = cart[c].quantity
    BY <2>1 DEF CartRow
  <2>4. \/ cartTab'[t].shown = Nothing /\ stored' = NoCart
        \/ cartTab' = cartTab /\ stored' = stored
    BY <1>1, <1>10 DEF Order
  <2> HIDE DEF c, new
  <2>5. SameQuantities
    BY <1>1, <2>1, <2>2, <2>3 DEF SameQuantities, OrderedSome
  <2> QED
    BY <1>2, <1>3, <2>2, <2>4, <2>5
<1>11. ASSUME NEW c \in CartIds, NEW d \in CartIds, Reopen(t, c, d) PROVE SingleInv'
  <2> DEFINE n == cart[c].ordered
             new == [newCart EXCEPT !.owner = signedIn, !.quantity = n]
             copy == [cart |-> d, status |-> "ACTIVE", quantity |-> n]
  <2>1. new.status = "ACTIVE" /\ new.quantity = n /\ copy.cart = d /\ copy.quantity = n
    BY DEF newCart, NoCartRow
  <2>2. /\ cart' = [cart EXCEPT ![d] = new] /\ cartTab' = [cartTab EXCEPT ![t].shown = copy] /\ stored' = d
        /\ added' = [added EXCEPT ![d] = n] /\ request' = request /\ ~mutating(t)
    BY <1>11 DEF Reopen, storeCart
  <2> HIDE DEF n, new, copy
  <2>3. /\ cart'[d] = new /\ cartTab'[t].shown = copy /\ added'[d] = n
        /\ \A e \in CartIds \ {d} : cart'[e] = cart[e] /\ added'[e] = added[e]
    BY <1>1, <2>2 DEF CartInv, CartTypes
  <2>4. AddsAreKept' /\ \A e \in CartIds : OrderedSome(e)'
    BY <1>1, <2>1, <2>3 DEF SingleInv, AddsAreKept, OrderedSome
  <2>5. FoundAgain' /\ TabSays(t)'
    BY <1>1, <2>1, <2>2, <2>3 DEF FoundAgain, TabSays
  <2>6. \A k \in Calls : request'[k] = NoRequest /\ request'[k].step = "none"
    BY <2>2, NoneUnderWay
  <2>7. \A k \in Calls : CallSays(k)' /\ AsksHere(k)'
    BY <2>6 DEF CallSays, AsksHere
  <2> QED
    BY <1>1, <2>4, <2>5, <2>7 DEF SingleInv
<1> QED
  BY <1>5, <1>6, <1>7, <1>8, <1>9, <1>10, <1>11

LEMMA SingleCall ==
    ASSUME CartsAssumption, NamesAssumption, OneTab, OneCall, CartInv, SingleInv,
           NEW k \in Calls,
           \/ \E t \in CartTabs : \/ Ask(t, k, "ADD", 1) \/ Ask(t, k, "REMOVE", 0)
                                  \/ \E q \in 1..Stock : Ask(t, k, "SET", q)
           \/ ReadCart(k) \/ WriteCart(k) \/ AnswerCall(k) \/ Receive(k)
    PROVE  SingleInv'
<1> USE NoRows DEF NamesAssumption
<1> DEFINE r == request[k]
<1>1. /\ \A j \in Calls : j = k
      /\ r \in CallRow /\ request \in [Calls -> CallRow] /\ cart \in [CartIds -> CartRow]
      /\ cartTab \in [CartTabs -> TabRow] /\ CallSays(k) /\ AsksHere(k) /\ CallKnows(k)
      /\ \A t \in CartTabs : TabSays(t) /\ TabKnows(t)
      /\ \A c \in CartIds : OrderedSome(c) /\ cart[c].quantity = added[c]
  BY DEF OneCall, CartInv, CartTypes, SingleInv, AddsAreKept
<1>2. r.step # "none" => /\ Exists(r.cart) /\ r.cart \in CartIds /\ r.tab \in CartTabs
                         /\ cart[r.cart] \in CartRow /\ r # NoRequest
  BY <1>1 DEF CallKnows, Exists
<1>3. UNCHANGED <<cart, added>> =>
         AddsAreKept' /\ \A c \in CartIds : OrderedSome(c)'
  BY <1>1 DEF AddsAreKept, OrderedSome
<1>4. ASSUME NEW t \in CartTabs, NEW op \in {"ADD", "SET", "REMOVE"}, NEW value \in Units,
             op = "ADD" => value = 1, Ask(t, k, op, value)
      PROVE  SingleInv'
  <2> DEFINE row == [tab |-> t, op |-> op, step |-> "SENT", cart |-> cartTab[t].shown.cart,
                     value |-> value, status |-> "NONE"]
  <2>1. row.op = op /\ row.step = "SENT" /\ row.cart = cartTab[t].shown.cart /\ row.value = value
    OBVIOUS
  <2>2. /\ r = NoRequest /\ request' = [request EXCEPT ![k] = row] /\ ~Ensuring(t)
        /\ UNCHANGED <<cart, stored, cartTab, added>>
    BY <1>4 DEF Ask, Usable
  <2> HIDE DEF row
  <2>3. request'[k] = row /\ row.cart = stored
    BY <1>1, <2>1, <2>2 DEF SingleInv, FoundAgain
  <2>4. CallSays(k)' /\ AsksHere(k)'
    BY <1>4, <2>1, <2>2, <2>3 DEF CallSays, AsksHere
  <2>5. FoundAgain' /\ \A s \in CartTabs : TabSays(s)'
    BY <1>1, <2>2 DEF SingleInv, FoundAgain, TabSays, Ensuring, OnItsWay
  <2> QED
    BY <1>1, <1>3, <2>2, <2>4, <2>5 DEF SingleInv
<1>5. ASSUME UNCHANGED <<cart, stored, cartTab, added>>, Drop(k), ~OnItsWay(k)
      PROVE  SingleInv'
  <2>1. request'[k] = NoRequest
    BY <1>1, <1>5 DEF Drop
  <2>2. CallSays(k)' /\ AsksHere(k)'
    BY <2>1 DEF CallSays, AsksHere
  <2>3. FoundAgain' /\ \A s \in CartTabs : TabSays(s)'
    BY <1>1, <1>5 DEF SingleInv, FoundAgain, TabSays, Ensuring
  <2> QED
    BY <1>1, <1>3, <1>5, <2>2, <2>3 DEF SingleInv
<1>6. ASSUME ReadCart(k), ~Drop(k)
      PROVE  SingleInv'
  <2> DEFINE q == requestedQuantity(r)
             row == [r EXCEPT !.step = "READ", !.value = q]
  <2>1. r.step = "SENT" /\ request' = [request EXCEPT ![k] = row]
        /\ UNCHANGED <<cart, stored, cartTab, added>>
    BY <1>1, <1>6 DEF ReadCart
  <2>2. r.op = "ADD" => q = cart[r.cart].quantity + 1
    BY <1>1, <1>2, <2>1 DEF CallSays, requestedQuantity, CartRow
  <2> HIDE DEF q
  <2>3. row.cart = r.cart /\ row.op = r.op /\ row.step = "READ" /\ row.value = q
    BY <1>1 DEF CallRow
  <2> HIDE DEF row
  <2>4. request'[k] = row
    BY <1>1, <2>1
  <2>5. CallSays(k)' /\ AsksHere(k)'
    BY <1>1, <1>2, <2>1, <2>2, <2>3, <2>4 DEF CallSays, AsksHere
  <2>6. FoundAgain' /\ \A s \in CartTabs : TabSays(s)'
    BY <1>1, <2>1 DEF SingleInv, FoundAgain, TabSays, Ensuring, OnItsWay
  <2> QED
    BY <1>1, <1>3, <2>1, <2>5, <2>6 DEF SingleInv
<1>7. ASSUME WriteCart(k), ~Drop(k)
      PROVE  SingleInv'
  <2> DEFINE row == [r EXCEPT !.step = "WRITTEN"]
             new == [cart[r.cart] EXCEPT !.quantity = r.value]
  <2>1. /\ r.step = "READ" /\ request' = [request EXCEPT ![k] = row]
        /\ cart' = [cart EXCEPT ![r.cart] = new]
        /\ UNCHANGED <<stored, cartTab>>
        /\ added' = [added EXCEPT ![r.cart] = IF r.op = "ADD" THEN added[r.cart] + 1 ELSE r.value]
    BY <1>1, <1>2, <1>7 DEF WriteCart, CartInv, CartTypes
  <2>2. /\ row.cart = r.cart /\ row.op = r.op /\ row.step = "WRITTEN"
        /\ new.status = cart[r.cart].status /\ new.quantity = r.value
        /\ new.ordered = cart[r.cart].ordered
    BY <1>1, <1>2, <2>1 DEF CallRow, CartRow
  <2> HIDE DEF row, new
  <2>3. r.op = "ADD" => r.value = added[r.cart] + 1
    BY <1>1, <1>2, <2>1 DEF CallSays
  <2>4. /\ cart'[r.cart] = new /\ added'[r.cart] = r.value /\ request'[k] = row
        /\ \A c \in CartIds \ {r.cart} : cart'[c] = cart[c] /\ added'[c] = added[c]
    BY <1>1, <1>2, <2>1, <2>3 DEF CartInv, CartTypes
  <2>5. AddsAreKept' /\ \A c \in CartIds : OrderedSome(c)'
    BY <1>1, <2>2, <2>4 DEF AddsAreKept, OrderedSome
  <2>6. CallSays(k)' /\ AsksHere(k)'
    BY <1>1, <1>2, <2>1, <2>2, <2>4 DEF CallSays, AsksHere
  <2>7. OnItsWay(k)'
    BY <2>2, <2>4 DEF OnItsWay
  <2>8. FoundAgain' /\ \A s \in CartTabs : TabSays(s)'
    BY <2>1, <2>7 DEF SingleInv, FoundAgain, Ensuring, TabSays
  <2> QED
    BY <1>1, <2>5, <2>6, <2>8 DEF SingleInv
<1>8. ASSUME AnswerCall(k) PROVE SingleInv'
  <2> DEFINE row == [r EXCEPT !.step = "ANSWERED", !.value = cart[r.cart].quantity,
                              !.status = cart[r.cart].status]
  <2>1. r.step = "WRITTEN" /\ request' = [request EXCEPT ![k] = row]
        /\ UNCHANGED <<cart, stored, cartTab, added>>
    BY <1>1, <1>8 DEF AnswerCall
  <2>2. row.cart = r.cart /\ row.step = "ANSWERED" /\ row.value = cart[r.cart].quantity
    BY <1>1 DEF CallRow
  <2> HIDE DEF row
  <2>3. request'[k] = row
    BY <1>1, <2>1
  <2>4. CallSays(k)' /\ AsksHere(k)' /\ OnItsWay(k)'
    BY <1>1, <1>2, <2>1, <2>2, <2>3 DEF CallSays, AsksHere, OnItsWay
  <2>5. FoundAgain' /\ \A s \in CartTabs : TabSays(s)'
    BY <2>1, <2>4 DEF SingleInv, FoundAgain, Ensuring, TabSays
  <2> QED
    BY <1>1, <1>3, <2>1, <2>4, <2>5 DEF SingleInv
<1>9. ASSUME Receive(k) PROVE SingleInv'
  <2> DEFINE copy == [cart |-> r.cart, status |-> r.status, quantity |-> r.value]
  <2>1. copy.cart = r.cart /\ copy.quantity = r.value /\ copy.status = r.status
    OBVIOUS
  <2>2. /\ cartTab' = [cartTab EXCEPT ![r.tab].shown = copy] /\ stored' = r.cart
        /\ request' = [request EXCEPT ![k] = NoRequest]
        /\ UNCHANGED <<cart, added>> /\ r.step = "ANSWERED"
    BY <1>9 DEF Receive, storeCart, Drop
  <2> HIDE DEF copy
  <2>3. cartTab'[r.tab].shown = copy /\ \A t \in CartTabs : t = r.tab
    BY <1>1, <1>2, <2>2 DEF OneTab, TabRow
  <2>4. request'[k] = NoRequest
    BY <1>1, <2>2
  <2>5. CallSays(k)' /\ AsksHere(k)'
    BY <2>4 DEF CallSays, AsksHere
  <2>6. copy.quantity = cart[r.cart].quantity
    BY <1>1, <2>1, <2>2 DEF CallSays
  <2>7. FoundAgain' /\ \A s \in CartTabs : TabSays(s)'
    BY <2>1, <2>2, <2>3, <2>6 DEF FoundAgain, TabSays
  <2> QED
    BY <1>1, <1>3, <2>2, <2>5, <2>7 DEF SingleInv
<1>10. CASE ReadCart(k) \/ WriteCart(k)
  <2>1. ReadCart(k) => ~OnItsWay(k) /\ (Drop(k) => UNCHANGED <<cart, stored, cartTab, added>>)
    BY DEF ReadCart, OnItsWay
  <2>2. WriteCart(k) => ~OnItsWay(k) /\ (Drop(k) => UNCHANGED <<cart, stored, cartTab, added>>)
    <3>1. Drop(k) => request' # [request EXCEPT ![k].step = "WRITTEN"]
      <4>1. Drop(k) => request'[k] = NoRequest
        BY <1>1 DEF Drop
      <4> QED
        BY <1>1, <4>1 DEF CallRow
    <3> QED
      BY <3>1 DEF WriteCart, OnItsWay
  <2> QED
    BY <1>5, <1>6, <1>7, <1>10, <2>1, <2>2
<1>11. 0 \in Units /\ 1 \in Units /\ \A q \in 1..Stock : q \in Units
  BY DEF Units, CartsAssumption
<1> QED
  BY <1>4, <1>8, <1>9, <1>10, <1>11

LEMMA SingleOther ==
    ASSUME CartsAssumption, NamesAssumption, CartInv, SingleInv,
           \/ \E c \in CartIds : Expire(c)
           \/ \E u \in Customers \cup {NoOne} : SignIn(u)
           \/ UNCHANGED cartVars
    PROVE  SingleInv'
<1>1. UNCHANGED <<request, added, stored, cartTab>>
  BY DEF Expire, SignIn, cartVars
<1>2. SameQuantities
  <2>1. cart \in [CartIds -> CartRow] /\ \A c \in CartIds : OrderedSome(c)
    BY DEF CartInv, CartTypes, SingleInv
  <2>2. CASE cart' = cart
    BY <2>1, <2>2 DEF SameQuantities, OrderedSome
  <2>3. ASSUME NEW c \in CartIds, Expire(c) PROVE SameQuantities
    BY <2>1, <2>3 DEF Expire, SameQuantities, OrderedSome, CartRow
  <2> QED
    BY <2>2, <2>3 DEF SignIn, cartVars
<1> QED
  BY <1>1, <1>2, SingleFrame DEF SingleInv, FoundAgain, Ensuring, NamesAssumption

LEMMA SingleStarts ==
    ASSUME CartsAssumption, NamesAssumption
    PROVE  CartsInit => SingleInv
<1> SUFFICES ASSUME CartsInit PROVE SingleInv
  OBVIOUS
<1> QED
  BY NoRows DEF CartsInit, SingleInv, FoundAgain, AddsAreKept, CallSays, AsksHere, TabSays,
                OrderedSome, Ensuring

LEMMA SingleKeeps ==
    ASSUME CartsAssumption, NamesAssumption, OneTab, OneCall, CartInv, SingleInv,
           [CartsNext]_cartVars
    PROVE  SingleInv'
<1>1. ASSUME NEW t \in CartTabs,
             \/ Restore(t) \/ Forget(t) \/ createCart(t) \/ Reload(t) \/ Claim(t)
             \/ Order(t, TRUE) \/ Order(t, FALSE)
             \/ \E c, d \in CartIds : Reopen(t, c, d)
      PROVE  SingleInv'
  BY <1>1, SingleTab
<1>2. ASSUME NEW k \in Calls,
             \/ \E t \in CartTabs : \/ Ask(t, k, "ADD", 1) \/ Ask(t, k, "REMOVE", 0)
                                    \/ \E q \in 1..Stock : Ask(t, k, "SET", q)
             \/ ReadCart(k) \/ WriteCart(k) \/ AnswerCall(k) \/ Receive(k)
      PROVE  SingleInv'
  BY <1>2, SingleCall
<1> QED
  BY <1>1, <1>2, SingleOther DEF CartsNext

\* For a customer with one tab and one request at a time: the cart on screen is the
\* one the browser finds again, the quantity of a line is what was asked for, and
\* without a request under way the screen shows it.
THEOREM OneTabKeepsItsCart ==
    ASSUME CartsAssumption, NamesAssumption, OneTab, OneCall
    PROVE  CartsSpec => []CartsAreKept
<1>1. CartInv /\ SingleInv => CartsAreKept
  <2> SUFFICES ASSUME CartInv, SingleInv, NEW t \in CartTabs, Usable(t), ~mutating(t),
                      cart[cartTab[t].shown.cart].status = "ACTIVE"
               PROVE  cart[cartTab[t].shown.cart].quantity = cartTab[t].shown.quantity
    BY DEF SingleInv, CartsAreKept, ShownAsStored
  <2>1. \A k \in Calls : ~OnItsWay(k)
    BY NoneUnderWay
  <2> QED
    BY <2>1 DEF SingleInv, TabSays, Usable
<1>2. CartInv /\ SingleInv /\ [CartsNext]_cartVars => CartInv' /\ SingleInv'
  BY CartKeeps, SingleKeeps DEF CartKept
<1> QED
  BY <1>1, <1>2, CartStarts, SingleStarts, PTL DEF CartsSpec

\* What the browser's cart is replaced by: nothing, unless a look-up fails.
LEMMA PersistStep ==
    ASSUME CartsAssumption, NamesAssumption, OneTab, OneCall, Failures = 0,
           CartInv, SingleInv, CartsNext
    PROVE  CartsPersist
<1> USE NoRows DEF NamesAssumption
<1> SUFFICES ASSUME NEW c \in CartIds, stored = c, cart[c].status = "ACTIVE",
                    cart[c].quantity > 0
             PROVE  \/ stored' = c \/ cart'[c].status # "ACTIVE"
                    \/ \E d \in CartIds : stored' = d /\ cart'[d].quantity > 0
  BY DEF CartsPersist
<1>1. cart \in [CartIds -> CartRow] /\ cartTab \in [CartTabs -> TabRow]
  BY DEF CartInv, CartTypes
<1>2. CASE UNCHANGED stored
  BY <1>2
<1>3. ASSUME NEW t \in CartTabs, Forget(t) PROVE FALSE
  BY <1>3 DEF Forget, CartInv, CartTypes
<1>4. ASSUME NEW t \in CartTabs, createCart(t) PROVE FALSE
  BY <1>4 DEF createCart, storedIsActive
<1>5. ASSUME NEW t \in CartTabs, NEW heard \in BOOLEAN, Order(t, heard)
      PROVE  cart'[c].status # "ACTIVE"
  <2> DEFINE new == [cart[c] EXCEPT !.status = "CONVERTED", !.owner = signedIn,
                                    !.orderedBy = signedIn, !.ordered = cart[c].quantity]
  <2>1. cartTab[t].shown.cart = c
    BY <1>5 DEF Order, Usable, SingleInv, FoundAgain
  <2>2. cart' = [cart EXCEPT ![c] = new]
    BY <1>1, <1>5, <2>1 DEF Order
  <2>3. new.status = "CONVERTED"
    BY <1>1 DEF CartRow
  <2> HIDE DEF new
  <2> QED
    BY <1>1, <2>2, <2>3
<1>6. ASSUME NEW t \in CartTabs, NEW b \in CartIds, NEW d \in CartIds, Reopen(t, b, d)
      PROVE  stored' = d /\ cart'[d].quantity > 0
  <2> DEFINE n == cart[b].ordered
             new == [newCart EXCEPT !.owner = signedIn, !.quantity = n]
  <2>1. new.quantity = n
    BY DEF newCart, NoCartRow
  <2>2. cart' = [cart EXCEPT ![d] = new] /\ stored' = d /\ n > 0
    BY <1>6 DEF Reopen, storeCart, SingleInv, OrderedSome
  <2> HIDE DEF n, new
  <2> QED
    BY <1>1, <2>1, <2>2
<1>7. ASSUME NEW k \in Calls, Receive(k)
      PROVE  stored' = c
  <2>1. AsksHere(k) /\ request[k].step = "ANSWERED" /\ stored' = request[k].cart
    BY <1>7 DEF SingleInv, Receive, storeCart
  <2>2. request[k] # NoRequest
    BY <2>1
  <2> QED
    BY <1>1, <2>1, <2>2 DEF AsksHere, CartRow, Units
<1>8. ASSUME NEW k \in Calls,
             \/ \E t \in CartTabs : \/ Ask(t, k, "ADD", 1) \/ Ask(t, k, "REMOVE", 0)
                                    \/ \E q \in 1..Stock : Ask(t, k, "SET", q)
             \/ ReadCart(k) \/ WriteCart(k) \/ AnswerCall(k)
      PROVE  UNCHANGED stored
  BY <1>8 DEF Ask, ReadCart, WriteCart, AnswerCall
<1>9. ASSUME NEW t \in CartTabs, Restore(t) \/ Reload(t) \/ Claim(t)
      PROVE  UNCHANGED stored
  BY <1>9 DEF Restore, storeCart, serializeCart, Reload, Claim
<1>10. CASE \/ \E d \in CartIds : Expire(d)
            \/ \E u \in Customers \cup {NoOne} : SignIn(u)
  BY <1>2, <1>10 DEF Expire, SignIn
<1> QED
  BY <1>2, <1>3, <1>4, <1>5, <1>6, <1>7, <1>8, <1>9, <1>10 DEF CartsNext

\* The browser does not lose a cart that can still be bought: for one tab with one
\* request at a time, if no look-up of a stored cart fails.  With a failure, or two
\* tabs, it does.
THEOREM BrowserKeepsItsCart ==
    ASSUME CartsAssumption, NamesAssumption, OneTab, OneCall, Failures = 0
    PROVE  CartsSpec => [][CartsPersist]_cartVars
<1>1. /\ CartInv /\ SingleInv /\ [CartsNext]_cartVars => CartInv' /\ SingleInv'
      /\ CartInv /\ SingleInv /\ [CartsNext]_cartVars => [CartsPersist]_cartVars
  BY CartKeeps, SingleKeeps, PersistStep DEF CartKept
<1> QED
  BY <1>1, CartStarts, SingleStarts, PTL DEF CartsSpec
=============================================================================

-------------------------------- MODULE Carts --------------------------------
(***************************************************************************)
(* The shopping cart: its rows (carts.service.ts, claimCart of             *)
(* customers.service.ts, the conversion by createOrder) and the copy that  *)
(* every tab keeps of it (cart-provider.tsx).                              *)
(*                                                                         *)
(* The tabs of one browser share the cart's token in localStorage and the  *)
(* customer's sign-in.  A call is read, written and answered by the server *)
(* in separate statements, and its answer reaches the tab at any later     *)
(* time.  One variant is enough: lines of a cart do not meet each other.   *)
(***************************************************************************)
EXTENDS Integers, FiniteSets

CONSTANTS
    CartIds, CartTabs, Customers,
    Calls,      \* requests of the tabs that change a cart
    Stock,      \* the units available, which the cart does not reserve
    Failures    \* bound: requests that fail for a passing reason

CartsAssumption == Stock \in Nat \ {0} /\ Failures \in Nat

NoOne == "nobody"
NoCart == "no cart"
NamesAssumption == NoOne \notin Customers /\ NoCart \notin CartIds

VARIABLES
    cart,       \* [CartIds -> the row]
    stored,     \* localStorage's CART_KEY
    signedIn,   \* the customer signed in in this browser, or NoOne
    cartTab,    \* [CartTabs -> its copy of the cart and what it waits for]
    request,    \* [Calls -> a request under way]
    failedCalls, \* the failures so far
    added       \* history: [CartIds -> units put in or taken out by answered calls]

cartVars == <<cart, stored, signedIn, cartTab, request, failedCalls, added>>
-----------------------------------------------------------------------------
(* Rows, copies and requests.                                              *)

NoCartRow == [status |-> "NONE", owner |-> NoOne, quantity |-> 0,
              orderedBy |-> NoOne, ordered |-> 0]
newCart == [NoCartRow EXCEPT !.status = "ACTIVE"]

NoRequest == [tab |-> "none", op |-> "none", cart |-> NoCart, step |-> "none", value |-> 0, status |-> "NONE"]
Under(t) == {k \in Calls : request[k] # NoRequest /\ request[k].tab = t}
mutating(t) == Under(t) # {}

\* What a tab shows of a cart.
Nothing == [cart |-> NoCart, status |-> "NONE", quantity |-> 0]
Ensuring(t) == cartTab[t].shown.status # "ACTIVE"
serializeCart(c) == [cart |-> c, status |-> cart[c].status, quantity |-> cart[c].quantity]

CartsInit ==
    /\ cart = [c \in CartIds |-> NoCartRow]
    /\ stored = NoCart
    /\ signedIn = NoOne
    /\ cartTab = [t \in CartTabs |-> [shown |-> Nothing, claimed |-> <<NoOne, NoCart>>]]
    /\ request = [k \in Calls |-> NoRequest]
    /\ failedCalls = 0
    /\ added = [c \in CartIds |-> 0]

\* storeCart: the tab's copy and the token in localStorage.
storeCart(t, shown) ==
    /\ cartTab' = [cartTab EXCEPT ![t].shown = shown]
    /\ stored' = shown.cart
-----------------------------------------------------------------------------
(* A tab that shows no active cart finds or makes one: ensureCart, on mount *)
(* and before any change, once at a time (ensurePromise).                   *)

storedIsActive == stored # NoCart /\ cart[stored].status = "ACTIVE"

\* The stored token's cart is fetched, and used while it is active.
Restore(t) ==
    /\ Ensuring(t) /\ storedIsActive
    /\ storeCart(t, serializeCart(stored))
    /\ UNCHANGED <<cart, signedIn, request, failedCalls, added>>

\* The stored token's cart cannot be fetched: the token is dropped.
Forget(t) ==
    /\ Ensuring(t) /\ stored # NoCart /\ failedCalls < Failures
    /\ stored' = NoCart /\ failedCalls' = failedCalls + 1
    /\ UNCHANGED <<cart, signedIn, cartTab, request, added>>

\* createCart: no token, or the token of a cart that is not active any more.
createCart(t) ==
    /\ Ensuring(t)
    /\ ~storedIsActive
    /\ \E c \in CartIds :
          /\ cart[c] = NoCartRow
          /\ cart' = [cart EXCEPT ![c] = newCart]
          /\ storeCart(t, [cart |-> c, status |-> "ACTIVE", quantity |-> 0])
    /\ UNCHANGED <<signedIn, request, failedCalls, added>>

\* The page is loaded again: what is under way is left to the server.
Reload(t) ==
    /\ ~Ensuring(t) /\ ~mutating(t)
    /\ cartTab' = [cartTab EXCEPT ![t].shown = Nothing, ![t].claimed = <<NoOne, NoCart>>]
    /\ UNCHANGED <<cart, stored, signedIn, request, failedCalls, added>>
-----------------------------------------------------------------------------
(* Changes: mutate in the tab, addItem, updateItem and removeItem in the    *)
(* server.                                                                 *)

Usable(t) == ~Ensuring(t)

\* A tab may add at any time, since a product has a button in several places; its
\* buttons to change or remove a line are off while a request is under way.
Ask(t, k, op, value) ==
    /\ request[k] = NoRequest /\ Usable(t)
    /\ op \in {"SET", "REMOVE"} => ~mutating(t) /\ cartTab[t].shown.quantity > 0
    /\ op = "SET" => /\ value \in {cartTab[t].shown.quantity - 1, cartTab[t].shown.quantity + 1}
                     /\ value \in 1..Stock
    /\ request' = [request EXCEPT ![k] = [tab |-> t, op |-> op, step |-> "SENT",
                        cart |-> cartTab[t].shown.cart, value |-> value, status |-> "NONE"]]
    /\ UNCHANGED <<cart, stored, signedIn, cartTab, failedCalls, added>>

Drop(k) == request' = [request EXCEPT ![k] = NoRequest]

requestedQuantity_Replaced(r) == r.value
requestedQuantity(r) == IF r.op = "ADD" THEN cart[r.cart].quantity + r.value ELSE r.value
exceedsStock(quantity) == quantity > Stock

\* getActiveCart and the check against the stock; addItem reads the line's
\* quantity, to which it adds.
ReadCart(k) ==
    /\ request[k].step = "SENT"
    /\ LET r == request[k]
           quantity == requestedQuantity(r)
       IN IF cart[r.cart].status # "ACTIVE" \/ exceedsStock(quantity)
             \/ (r.op = "SET" /\ cart[r.cart].quantity = 0)
          THEN Drop(k)
          ELSE request' = [request EXCEPT ![k].step = "READ", ![k].value = quantity]
    /\ UNCHANGED <<cart, stored, signedIn, cartTab, failedCalls, added>>

\* The line is written with the quantity computed before; an update finds no
\* line that another request removed.
WriteCart(k) ==
    /\ request[k].step = "READ"
    /\ LET r == request[k] IN
         IF r.op \in {"SET", "REMOVE"} /\ cart[r.cart].quantity = 0
         THEN Drop(k) /\ UNCHANGED <<cart, added>>
         ELSE /\ cart' = [cart EXCEPT ![r.cart].quantity = r.value]
              /\ added' = [added EXCEPT ![r.cart] =
                             IF r.op = "ADD" THEN @ + 1 ELSE r.value]
              /\ request' = [request EXCEPT ![k].step = "WRITTEN"]
    /\ UNCHANGED <<stored, signedIn, cartTab, failedCalls>>

\* The answer is the cart as get reads it after the write.
AnswerCall(k) ==
    /\ request[k].step = "WRITTEN"
    /\ request' = [request EXCEPT ![k].step = "ANSWERED",
                        ![k].value = cart[request[k].cart].quantity,
                        ![k].status = cart[request[k].cart].status]
    /\ UNCHANGED <<cart, stored, signedIn, cartTab, failedCalls, added>>

\* mutate stores whatever answer arrives.
Receive(k) ==
    /\ request[k].step = "ANSWERED"
    /\ storeCart(request[k].tab, [cart |-> request[k].cart, status |-> request[k].status,
                                  quantity |-> request[k].value])
    /\ Drop(k)
    /\ UNCHANGED <<cart, signedIn, failedCalls, added>>
-----------------------------------------------------------------------------
(* Sign-in, claim, order.                                                  *)

\* The cart stays in localStorage when the customer changes.
SignIn(u) ==
    /\ signedIn # u
    /\ signedIn' = u
    /\ UNCHANGED <<cart, stored, cartTab, request, failedCalls, added>>

\* claimCart: one update, for a cart of nobody or of the customer's own.
claimableCart(c, u) == cart[c].status = "ACTIVE" /\ cart[c].owner \in {NoOne, u}

Claim(t) ==
    /\ signedIn # NoOne /\ Usable(t)
    /\ cartTab[t].claimed # <<signedIn, cartTab[t].shown.cart>>
    /\ LET c == cartTab[t].shown.cart IN
         IF claimableCart(c, signedIn)
         THEN /\ cart' = [cart EXCEPT ![c].owner = signedIn]
              /\ cartTab' = [cartTab EXCEPT ![t].claimed = <<signedIn, c>>]
         ELSE UNCHANGED <<cart, cartTab>>
    /\ UNCHANGED <<stored, signedIn, request, failedCalls, added>>

\* createOrder: a serializable transaction that converts the cart; the tab
\* forgets it with resetCart, or never hears of it.
orderable_Signed(c, u) == cart[c].status = "ACTIVE"
orderable(c, u) == cart[c].status = "ACTIVE" /\ cart[c].owner \in {NoOne, u}

Order(t, heard) ==
    /\ signedIn # NoOne /\ Usable(t) /\ (heard \/ failedCalls < Failures)
    /\ LET c == cartTab[t].shown.cart IN
         /\ cart[c].quantity \in 1..Stock /\ orderable(c, signedIn)
         /\ cart' = [cart EXCEPT ![c].status = "CONVERTED", ![c].owner = signedIn,
                                 ![c].orderedBy = signedIn,
                                 ![c].ordered = cart[c].quantity]
         /\ IF heard
            THEN /\ cartTab' = [cartTab EXCEPT ![t] =
                                   [shown |-> Nothing, claimed |-> <<NoOne, NoCart>>]]
                 /\ stored' = NoCart
                 /\ UNCHANGED failedCalls
            ELSE failedCalls' = failedCalls + 1 /\ UNCHANGED <<cartTab, stored>>
    /\ UNCHANGED <<signedIn, request, added>>

\* reopenCheckout makes the order's customer a new cart with its lines, which adoptCartToken
\* puts in the place of the tab's.
Reopen(t, c, d) ==
    /\ cart[c].status = "CONVERTED" /\ cart[c].orderedBy = signedIn /\ cart[d] = NoCartRow
    /\ ~Ensuring(t) /\ ~mutating(t)
    /\ cart' = [cart EXCEPT ![d] = [newCart EXCEPT !.owner = signedIn,
                                        !.quantity = cart[c].ordered]]
    /\ storeCart(t, [cart |-> d, status |-> "ACTIVE", quantity |-> cart[c].ordered])
    /\ added' = [added EXCEPT ![d] = cart[c].ordered]
    /\ UNCHANGED <<signedIn, request, failedCalls>>

\* Thirty days pass (getActiveCart marks the cart when it is next used).
Expire(c) ==
    /\ cart[c].status = "ACTIVE"
    /\ cart' = [cart EXCEPT ![c].status = "EXPIRED"]
    /\ UNCHANGED <<stored, signedIn, cartTab, request, failedCalls, added>>

CartsNext ==
    \/ \E t \in CartTabs : \/ Restore(t) \/ Forget(t) \/ createCart(t) \/ Reload(t) \/ Claim(t)
                           \/ Order(t, TRUE) \/ Order(t, FALSE)
                           \/ \E c, d \in CartIds : Reopen(t, c, d)
                           \/ \E k \in Calls : \/ Ask(t, k, "ADD", 1) \/ Ask(t, k, "REMOVE", 0)
                                               \/ \E q \in 1..Stock : Ask(t, k, "SET", q)
    \/ \E k \in Calls : ReadCart(k) \/ WriteCart(k) \/ AnswerCall(k) \/ Receive(k)
    \/ \E u \in Customers \cup {NoOne} : SignIn(u)
    \/ \E c \in CartIds : Expire(c)

CartsSpec == CartsInit /\ [][CartsNext]_cartVars
-----------------------------------------------------------------------------
(* Properties.                                                             *)

CartsTypesOK ==
    /\ \A c \in CartIds : /\ cart[c].status \in {"NONE", "ACTIVE", "CONVERTED", "EXPIRED"}
                          /\ cart[c].owner \in Customers \cup {NoOne}
                          /\ cart[c].quantity \in 0..Stock
    /\ stored \in CartIds \cup {NoCart}
    /\ signedIn \in Customers \cup {NoOne}
    /\ \A t \in CartTabs : cartTab[t].shown.cart \in CartIds \cup {NoCart}

\* Who may order a cart (docs/BACKEND.md, 'solo su propietario autenticado puede
\* convertirlo en orden'): once it is claimed nobody else, whoever signs in
\* where its token is stored.
OrderedByItsOwner ==
    \A c \in CartIds : cart[c].owner # NoOne => cart'[c].owner = cart[c].owner

\* One tab: the cart it shows is the one the browser will find again, and with
\* no request under way it shows the quantity of the table.
FoundAgain ==
    \A t \in CartTabs : ~Ensuring(t) => cartTab[t].shown.cart = stored

\* What a call that was answered put in is in the cart.
AddsAreKept == \A c \in CartIds : cart[c].quantity = added[c]

\* With nothing under way a tab shows its active cart as it is.
ShownAsStored ==
    \A t \in CartTabs : Usable(t) /\ ~mutating(t) =>
        LET c == cartTab[t].shown.cart
        IN  cart[c].status = "ACTIVE" => cart[c].quantity = cartTab[t].shown.quantity

\* The cart on screen is the stored one with all that was added to it, and it is
\* found again after a reload (cart-provider.tsx, addItem).
CartsAreKept == FoundAgain /\ AddsAreKept /\ ShownAsStored

\* The browser does not lose a cart that can still be bought ('Carrito
\* persistente', docs/REQUIREMENTS.md).
CartsPersist ==
    \A c \in CartIds : stored = c /\ cart[c].status = "ACTIVE" /\ cart[c].quantity > 0
       => \/ stored' = c \/ cart'[c].status # "ACTIVE"
          \/ \E d \in CartIds : stored' = d /\ cart'[d].quantity > 0

\* After signing in the cart is the customer's ('se asocia al iniciar sesion',
\* docs/REQUIREMENTS.md): no tab is left to offer one that belongs to another.
CartIsOfCustomer ==
    \A t \in CartTabs : signedIn # NoOne /\ Usable(t) =>
        cart[cartTab[t].shown.cart].owner \in {NoOne, signedIn}
=============================================================================

------------------------------ MODULE Wishlist ------------------------------
(***************************************************************************)
(* A customer's favourites: the WishlistItem row of one product            *)
(* (customers.service.ts), the hearts that stand for it on cards and on    *)
(* the product's page (product-card.tsx, product-detail.tsx) and the list  *)
(* of the account page (customer-dashboard.tsx).  Requests are served and  *)
(* answered in any order; rows of different products do not meet.          *)
(***************************************************************************)
EXTENDS Integers, FiniteSets

CONSTANTS
    Cards,      \* hearts of cards: disabled while they save
    Details,    \* hearts of the product's page: never disabled
    Lists,      \* account pages
    Presses,    \* bound: requests that are made
    Faults,     \* bound: requests or answers that are lost
    Withdrawals \* bound: how often the product is hidden or shown again

WishlistAssumption == {Presses, Faults, Withdrawals} \subseteq Nat

VARIABLES
    row,        \* is there a WishlistItem?
    active,     \* is the product ACTIVE?
    heart,      \* [Cards \cup Details -> what it shows]
    list,       \* [Lists -> what the page shows]
    calls,      \* the requests under way, with their answers
    spent       \* the bounded events that have happened

wishVars == <<row, active, heart, list, calls, spent>>

Hearts == Cards \cup Details

\* A component that was just mounted: an empty heart, a list being loaded.
mounted == [liked |-> FALSE, saving |-> FALSE, told |-> FALSE]
mountedList == [shown |-> FALSE, loading |-> TRUE]

\* A request: `alone' says that none was under way when it was made, `was' is the heart its handler closed over, `live' whether the
\* component that waits for it is still there, `says' what a GET found.
Calls == [n : 1 .. Presses, from : Hearts \cup Lists, method : {"POST", "DELETE", "GET"},
          was : BOOLEAN, live : BOOLEAN, alone : BOOLEAN, step : {"SENT", "DONE", "FAILED"}, says : BOOLEAN]
request(from, method, was) ==
    [n |-> spent.presses + 1, from |-> from, method |-> method, was |-> was,
     live |-> TRUE, alone |-> calls = {}, step |-> "SENT", says |-> FALSE]

Init ==
    /\ row = FALSE /\ active = TRUE
    /\ heart = [h \in Hearts |-> mounted]
    /\ list = [l \in Lists |-> [mountedList EXCEPT !.loading = FALSE]]
    /\ calls = {}
    /\ spent = [presses |-> 0, faults |-> 0, withdrawals |-> 0]

Send(c) ==
    /\ spent.presses < Presses
    /\ calls' = calls \cup {c}
    /\ spent' = [spent EXCEPT !.presses = @ + 1]
-----------------------------------------------------------------------------
(* The pages.                                                              *)

canPress(h) == h \in Cards => ~heart[h].saving

\* toggleWishlist, toggleFavorite: the method follows from what is shown.
Toggle(h) ==
    /\ canPress(h)
    /\ Send(request(h, IF heart[h].liked THEN "DELETE" ELSE "POST", heart[h].liked))
    /\ heart' = [heart EXCEPT ![h].saving = TRUE]
    /\ UNCHANGED <<row, active, list>>

\* Its answer: setLiked(!liked), with the liked of the press.
likedAfter(c, liked) == IF c.step = "DONE" THEN ~c.was ELSE liked
Toggled(c) ==
    /\ c.from \in Hearts /\ c.step # "SENT"
    /\ calls' = calls \ {c}
    /\ heart' = IF c.live
                THEN [heart EXCEPT ![c.from] =
                        [liked |-> likedAfter(c, @.liked), saving |-> FALSE,
                         told |-> @.told \/ (c.alone /\ c.step = "DONE")]]
                ELSE heart
    /\ UNCHANGED <<row, active, list, spent>>

\* The card or the page is shown again: the heart is empty whatever is stored.
Remount(h) ==
    /\ heart[h] # mounted
    /\ heart' = [heart EXCEPT ![h] = mounted]
    /\ calls' = {IF c.from = h THEN [c EXCEPT !.live = FALSE] ELSE c : c \in calls}
    /\ UNCHANGED <<row, active, list, spent>>

\* The account page: load, and again when the session was renewed; removeFavorite.
LoadList(l) ==
    /\ Send(request(l, "GET", FALSE))
    /\ list' = [list EXCEPT ![l].loading = TRUE]
    /\ UNCHANGED <<row, active, heart>>

RemoveFavorite(l) ==
    /\ list[l].shown /\ ~list[l].loading
    /\ Send(request(l, "DELETE", TRUE))
    /\ UNCHANGED <<row, active, heart, list>>

Listed(c) ==
    /\ c.from \in Lists /\ c.step # "SENT"
    /\ calls' = calls \ {c}
    /\ list' = [list EXCEPT ![c.from] =
          [shown |-> IF c.step = "FAILED" THEN @.shown ELSE c.method = "GET" /\ c.says,
           loading |-> @.loading /\ c.method # "GET"]]
    /\ UNCHANGED <<row, active, heart, spent>>
-----------------------------------------------------------------------------
(* The server.                                                             *)

Answer(c, step, says) ==
    calls' = (calls \ {c}) \cup {[c EXCEPT !.step = step, !.says = says]}

\* addWishlistItem: only for a product that can be bought.
addWishlistItem(c) ==
    /\ c.method = "POST" /\ c.step = "SENT"
    /\ Answer(c, IF active THEN "DONE" ELSE "FAILED", FALSE)
    /\ row' = (row \/ active)
    /\ UNCHANGED <<active, heart, list, spent>>

\* removeWishlistItem: deleteMany, which finds the row or not.
removeWishlistItem(c) ==
    /\ c.method = "DELETE" /\ c.step = "SENT"
    /\ Answer(c, "DONE", FALSE)
    /\ row' = FALSE
    /\ UNCHANGED <<active, heart, list, spent>>

\* wishlist: the favourites that can be bought.
listed == row /\ active
wishlist(c) ==
    /\ c.method = "GET" /\ c.step = "SENT"
    /\ Answer(c, "DONE", listed)
    /\ UNCHANGED <<row, active, heart, list, spent>>

\* The employee hides the product or offers it again.
SetActive ==
    /\ spent.withdrawals < Withdrawals
    /\ spent' = [spent EXCEPT !.withdrawals = @ + 1]
    /\ active' = ~active
    /\ UNCHANGED <<row, heart, list, calls>>

\* A request or its answer is lost.
Lose(c) ==
    /\ spent.faults < Faults /\ c.step # "FAILED"
    /\ spent' = [spent EXCEPT !.faults = @ + 1]
    /\ calls' = (calls \ {c}) \cup {[c EXCEPT !.step = "FAILED", !.says = FALSE]}
    /\ UNCHANGED <<row, active, heart, list>>

Next ==
    \/ \E h \in Hearts : Toggle(h) \/ Remount(h)
    \/ \E l \in Lists : LoadList(l) \/ RemoveFavorite(l)
    \/ \E c \in calls :
         \/ addWishlistItem(c) \/ removeWishlistItem(c) \/ wishlist(c)
         \/ Toggled(c) \/ Listed(c) \/ Lose(c)
    \/ SetActive

Spec == Init /\ [][Next]_wishVars
-----------------------------------------------------------------------------
(* Properties.                                                             *)

\* A card waits for one request of its own at a time (saving).
TypeOK ==
    /\ calls \subseteq Calls
    /\ \A h \in Cards :
         Cardinality({c \in calls : c.from = h /\ c.live}) = IF heart[h].saving THEN 1 ELSE 0

waitedFor(x) == {c \in calls : c.from = x} # {}

\* With one heart and no lost answers, a heart that was told of a press made
\* while nothing was under way shows what is stored, whatever is pressed and
\* left afterwards (saving, setLiked).
HeartAgrees ==
    \A h \in Hearts : heart[h].told /\ ~waitedFor(h) => heart[h].liked = row

\* The label of a heart that waits for nothing is the truth
\* (product-card.tsx:80: "Guardar" or "Quitar").
HeartIsTrue ==
    \A h \in Hearts : ~waitedFor(h) => heart[h].liked = row

=============================================================================

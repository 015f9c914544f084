------------------------------ MODULE Catalogue ------------------------------
(***************************************************************************)
(* The public catalogue: the list of products the API serves by pages      *)
(* (ProductsService.findAll) and the page of the shop that asks for it     *)
(* when a filter changes and when the customer presses "Cargar mas"        *)
(* (CatalogExperience).  Products are numbered by age: the greatest is the *)
(* newest.  A filter is on or off; Has[k] is what a product must be in     *)
(* when filter k is on.  An employee publishes products meanwhile; taking  *)
(* one out of the shop is left out, for what Prisma does with a cursor     *)
(* that is no longer in the result is not this code's.                     *)
(***************************************************************************)
EXTENDS Naturals, Sequences, FiniteSets, SequencesExt

CONSTANTS
    Products,      \* 1 .. n, the greatest the newest
    AtFirst,       \* those published when the page is opened
    Has,           \* filter key -> the products it lets through
    Links,         \* the links that open the page, as sets of keys
    Take,          \* products of a page (24)
    Patient,       \* the customer waits for one request before the next
    MaxChanges,    \* bound: changes of the filters
    MaxFollowed,   \* bound: links of the menu followed from the page itself
    MaxFailures,   \* bound: requests that fail
    None

ProductsAreNumbered == Products \subseteq Nat /\ AtFirst \subseteq Products
TakeIsPositive == Take \in Nat \ {0}

VARIABLES
    active,        \* the published products
    filters,       \* the filters that are on
    shown,         \* the list on the page
    nextCursor,    \* where the next page starts
    asked,         \* requests of a list: waiting for their delay, or answered
    more,          \* the request of the next page
    wanted,        \* what the customer asked for last, by a link or a filter
    told,          \* the last change of the filters was answered with an error
    first,         \* what was published when the first page of the list was served
    changes, followed, failures

vars == <<active, filters, shown, nextCursor, asked, more, wanted, told, first,
          changes, followed, failures>>

Keys == DOMAIN Has
-----------------------------------------------------------------------------
(* The API.                                                                *)

Matching(keys) == {p \in active : \A k \in keys : p \in Has[k]}

SmallestFirst(S) == SetToSortSeq(S, LAMBDA a, b : a < b)

\* the Take newest of a set, the newest first
NewestOf(S) ==
    LET seq == Reverse(SmallestFirst(S)) IN SubSeq(seq, 1, IF Len(seq) < Take THEN Len(seq) ELSE Take)

\* the id of the last product of the page, when the database has one more
cursorOf(found, items) == IF Cardinality(found) > Take THEN Last(items) ELSE None

\* One page: orderBy newest, take + 1, after the cursor.
findAll(keys, cursor) ==
    LET found == {p \in Matching(keys) : cursor = None \/ p < cursor}
        items == NewestOf(found)
    IN  [items |-> items, nextCursor |-> cursorOf(found, items)]
-----------------------------------------------------------------------------
(* The page.                                                               *)

\* the parameters of a link that ProductsPage and CatalogExperience read
KeysRead == {"q", "catalogSection", "catalogLine", "house", "category", "featured"}

\* a line is of a department
inferred(link) == IF "catalogLine" \in link THEN {"catalogSection"} ELSE {}

Waiting(keys) == [for |-> keys, answer |-> None]

\* The server renders the first list, or an empty one when the API does not
\* answer; the page asks for it again as soon as it is mounted.
Init ==
    /\ active = AtFirst
    /\ \E link \in Links :
          /\ wanted = link
          /\ filters = (link \cap KeysRead) \cup inferred(link)
    /\ \/ /\ shown = findAll(filters, None).items
          /\ nextCursor = findAll(filters, None).nextCursor
          /\ failures = 0
       \/ /\ MaxFailures > 0
          /\ shown = <<>>
          /\ nextCursor = None
          /\ failures = 1
    /\ asked = {Waiting(filters)}
    /\ more = None
    /\ told = FALSE
    /\ first = AtFirst
    /\ changes = 0 /\ followed = 0

\* An employee publishes a product, new or kept as a draft so far.
Publish(p) ==
    /\ p \notin active
    /\ active' = active \cup {p}
    /\ UNCHANGED <<filters, shown, nextCursor, asked, more, wanted, told, first,
                   changes, followed, failures>>

\* what a change leaves of the requests under way when only the delay is cleared

\* clearTimeout and abort: nothing
kept(requests) == {}

SetFilters(keys) ==
    /\ keys # filters
    /\ Patient => more = None
    /\ changes < MaxChanges
    /\ changes' = changes + 1
    /\ filters' = keys
    /\ wanted' = keys
    /\ asked' = kept(asked) \cup {Waiting(keys)}
    /\ UNCHANGED <<active, shown, nextCursor, more, told, first, followed, failures>>

\* A department takes out the line and the house that are not its own; without a
\* line there is no house to keep.
chooseSection ==
    \/ /\ "catalogSection" \notin filters
       /\ SetFilters((filters \ {"house"}) \cup {"catalogSection"})
    \/ /\ "catalogSection" \in filters
       /\ SetFilters(filters \ {"catalogSection", "catalogLine", "house"})

\* A line brings its department and takes the house out.
chooseLine ==
    \/ SetFilters((filters \ {"house"}) \cup {"catalogSection", "catalogLine"})
    \/ SetFilters(filters \ {"catalogLine", "house"})

\* a house, a category, a text, only featured products: on or off
Toggle(k) == SetFilters(IF k \in filters THEN filters \ {k} ELSE filters \cup {k})

clearFilters == SetFilters({})

\* A link of the menu followed from the catalogue itself: the page stays mounted
\* and its filters were read from the address when it was.
FollowLink(link) ==
    /\ followed < MaxFollowed
    /\ followed' = followed + 1
    /\ wanted' = link
    /\ UNCHANGED <<active, filters, shown, nextCursor, asked, more, told, first,
                   changes, failures>>

\* The delay is over and the request served.
AskList(r) ==
    /\ r \in asked /\ r.answer = None
    /\ asked' = (asked \ {r}) \cup
                  {[r EXCEPT !.answer = [page |-> findAll(r.for, None), at |-> active]]}
    /\ UNCHANGED <<active, filters, shown, nextCursor, more, wanted, told, first,
                   changes, followed, failures>>

ListArrives(r) ==
    /\ r \in asked /\ r.answer # None
    /\ asked' = asked \ {r}
    /\ shown' = r.answer.page.items
    /\ nextCursor' = r.answer.page.nextCursor
    /\ first' = r.answer.at
    /\ told' = FALSE
    /\ UNCHANGED <<active, filters, more, wanted, changes, followed, failures>>

ListFails(r) ==
    /\ r \in asked /\ r.answer # None
    /\ failures < MaxFailures
    /\ failures' = failures + 1
    /\ asked' = asked \ {r}
    /\ told' = TRUE
    /\ UNCHANGED <<active, filters, shown, nextCursor, more, wanted, first, changes, followed>>

\* the filters the next page is asked with: those of the moment
moreFor(keys) == keys

loadMore ==
    /\ nextCursor # None /\ more = None /\ shown # <<>>
    /\ Patient => asked = {} /\ ~told
    /\ more' = findAll(moreFor(filters), nextCursor)
    /\ UNCHANGED <<active, filters, shown, nextCursor, asked, wanted, told, first,
                   changes, followed, failures>>

MoreArrives ==
    /\ more # None
    /\ shown' = shown \o SelectSeq(more.items, LAMBDA p : p \notin ToSet(shown))
    /\ nextCursor' = more.nextCursor
    /\ more' = None
    /\ UNCHANGED <<active, filters, asked, wanted, told, first, changes, followed, failures>>

MoreFails ==
    /\ more # None
    /\ failures < MaxFailures
    /\ failures' = failures + 1
    /\ more' = None
    /\ UNCHANGED <<active, filters, shown, nextCursor, asked, wanted, told, first,
                   changes, followed>>

Next ==
    \/ \E p \in Products : Publish(p)
    \/ chooseSection
    \/ chooseLine
    \/ \E k \in Keys \ {"catalogSection", "catalogLine"} : k \in KeysRead /\ Toggle(k)
    \/ clearFilters
    \/ \E link \in Links : FollowLink(link)
    \/ \E r \in asked : AskList(r) \/ ListArrives(r) \/ ListFails(r)
    \/ loadMore
    \/ MoreArrives
    \/ MoreFails

Spec == Init /\ [][Next]_vars
-----------------------------------------------------------------------------
(* Properties.                                                             *)

\* The type of the state; one request of a list at most is under way, and it is
\* for the filters that are on.
TypeOK ==
    /\ AtFirst \subseteq active /\ active \subseteq Products
    /\ filters \subseteq KeysRead
    /\ IsInjective(shown) /\ ToSet(shown) \subseteq active
    /\ nextCursor \in Products \cup {None}
    /\ Cardinality(asked) <= 1
    /\ \A r \in asked : r.for = filters
    /\ told \in BOOLEAN
    /\ first \subseteq active

Settled == asked = {} /\ more = None /\ ~told

\* What the page shows once nothing is under way and no request was refused is what
\* the customer asked for, by the link that opened it or by a filter: no answer to
\* an earlier choice is left on it or among it.
ShownIsWanted == Settled => \A i \in DOMAIN shown : \A k \in wanted : shown[i] \in Has[k]

\* When the page offers no more to load, it shows every product of its filters that was
\* published when its first page was served, whatever was published meanwhile.
NoneMissed ==
    Settled /\ nextCursor = None /\ failures = 0 =>
        {p \in first : \A k \in filters : p \in Has[k]} \subseteq ToSet(shown)
=============================================================================

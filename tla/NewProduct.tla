------------------------------ MODULE NewProduct ------------------------------
(***************************************************************************)
(* Products that employees create: the form of the administration, which   *)
(* asks while a SKU is typed whether it is free (ProductForm), and the     *)
(* API that checks, then writes product, variant, stock, movement and      *)
(* audit entry in one transaction (AdminService.createProduct); and the    *)
(* brands, categories and houses the form creates on the way.  The form    *)
(* sends one variant and a slug of its own; brand, category and menu are   *)
(* taken to be chosen, and the texts and the initial stock go with the     *)
(* product.                                                                *)
(***************************************************************************)
EXTENDS Naturals, FiniteSets

CONSTANTS
    None,
    Employees,     \* each with one form open
    Skus, Slugs, Names,
    Taken,         \* SKUs of products that are there from before
    Before,        \* [Taken -> their slugs]
    MaxTyped,      \* bound: changes of a SKU, each employee
    MaxSubmits,    \* bound: presses of the button, each employee
    MaxLost        \* bound: requests lost to a restart of the API or to the network

NewProductAssumption ==
    /\ None \notin Employees \cup Skus /\ {"blank", "bad"} \cap Skus = {}
    /\ Taken \subseteq Skus /\ \A s, t \in Taken : Before[s] = Before[t] => s = t
    /\ {MaxTyped, MaxSubmits, MaxLost} \subseteq Nat

VARIABLES
    products,      \* the products, each with the SKU of its variant
    requests,      \* requests to create one that the API works on or has answered
    entries,       \* [Names -> "none", "created" or "audited"]: brands, categories, houses
    sku,           \* [Employees -> what the field says]
    slug,          \* [Employees -> the slug of the form]
    skuCheck,      \* [Employees -> the state of the label under the field]
    timeout,       \* [Employees -> the SKU that waits to be asked for, or None]
    queries,       \* [Employees -> questions under way, unanswered or answered]
    saving,        \* [Employees -> the number of the request waited for, or None]
    closed,        \* [Employees -> the form was told of its product]
    creating,      \* [Employees -> the entry a request creates, with its stage, or None]
    typed, submits, lost

form == <<sku, slug, skuCheck, timeout, queries>>
vars == <<products, requests, entries, sku, slug, skuCheck, timeout, queries, saving,
          closed, creating, typed, submits, lost>>

Blank == "blank"
Bad == "bad"
AnySku == Skus \cup {Blank, Bad}

Init ==
    /\ products = {[by |-> None, n |-> 0, sku |-> s, slug |-> Before[s]] : s \in Taken}
    /\ requests = {}
    /\ entries = [n \in Names |-> "none"]
    /\ sku = [e \in Employees |-> Blank]
    /\ slug \in [Employees -> Slugs]
    /\ skuCheck = [e \in Employees |-> "idle"]
    /\ timeout = [e \in Employees |-> None]
    /\ queries = [e \in Employees |-> {}]
    /\ saving = [e \in Employees |-> None]
    /\ closed = [e \in Employees |-> FALSE]
    /\ creating = [e \in Employees |-> None]
    /\ typed = [e \in Employees |-> 0]
    /\ submits = [e \in Employees |-> 0]
    /\ lost = 0
-----------------------------------------------------------------------------
(* The label.                                                              *)

\* what the label says as soon as the field changes
labelled(s, state) ==
    IF s = Blank THEN "idle" ELSE IF s = Bad THEN "invalid" ELSE "checking"

\* The effect of a change: the delay of the last one is cleared, a question that
\* was already sent is not.
TypeSku(e, s) ==
    /\ s # sku[e] /\ ~closed[e]
    /\ typed[e] < MaxTyped
    /\ typed' = [typed EXCEPT ![e] = @ + 1]
    /\ sku' = [sku EXCEPT ![e] = s]
    /\ skuCheck' = [skuCheck EXCEPT ![e] = labelled(s, @)]
    /\ timeout' = [timeout EXCEPT ![e] = IF s \in Skus THEN s ELSE None]
    /\ UNCHANGED <<products, requests, entries, slug, queries, saving, closed, creating,
                   submits, lost>>

AskSku(e) ==
    /\ timeout[e] # None
    /\ queries' = [queries EXCEPT ![e] = @ \cup {[sku |-> timeout[e], said |-> None]}]
    /\ timeout' = [timeout EXCEPT ![e] = None]
    /\ UNCHANGED <<products, requests, entries, sku, slug, skuCheck, saving, closed,
                   creating, typed, submits, lost>>

skuAvailability(e, q) ==
    /\ q \in queries[e] /\ q.said = None
    /\ queries' = [queries EXCEPT ![e] = (@ \ {q}) \cup
          {[q EXCEPT !.said = IF \A p \in products : p.sku # q.sku THEN "available" ELSE "conflict"]}]
    /\ UNCHANGED <<products, requests, entries, sku, slug, skuCheck, timeout, saving,
                   closed, creating, typed, submits, lost>>

SkuAnswered(e, q) ==
    /\ q \in queries[e] /\ q.said # None
    /\ queries' = [queries EXCEPT ![e] = @ \ {q}]
    /\ skuCheck' = [skuCheck EXCEPT ![e] = q.said]
    /\ UNCHANGED <<products, requests, entries, sku, slug, timeout, saving, closed,
                   creating, typed, submits, lost>>

SkuFailed(e, q) ==
    /\ q \in queries[e]
    /\ lost < MaxLost
    /\ lost' = lost + 1
    /\ queries' = [queries EXCEPT ![e] = @ \ {q}]
    /\ skuCheck' = [skuCheck EXCEPT ![e] = "invalid"]
    /\ UNCHANGED <<products, requests, entries, sku, slug, timeout, saving, closed,
                   creating, typed, submits>>
-----------------------------------------------------------------------------
(* The product.                                                            *)

\* the field is required and has a pattern
valid(s) == s \in Skus

submit(e) ==
    /\ skuCheck[e] = "available" /\ valid(sku[e])
    /\ saving[e] = None /\ ~closed[e]
    /\ submits[e] < MaxSubmits
    /\ submits' = [submits EXCEPT ![e] = @ + 1]
    /\ saving' = [saving EXCEPT ![e] = submits'[e]]
    /\ requests' = requests \cup
          {[by |-> e, n |-> submits'[e], sku |-> sku[e], slug |-> slug[e], stage |-> "sent"]}
    /\ UNCHANGED <<products, entries, form, closed, creating, typed, lost>>

free(r) == \A p \in products : p.slug # r.slug /\ p.sku # r.sku

Answer(r, stage) == requests' = (requests \ {r}) \cup {[r EXCEPT !.stage = stage]}

\* createProduct reads first, outside the transaction.
CheckProduct(r) ==
    /\ r \in requests /\ r.stage = "sent"
    /\ Answer(r, IF free(r) THEN "checked" ELSE "conflict")
    /\ UNCHANGED <<products, entries, form, saving, closed, creating, typed, submits, lost>>

inserted_Checked(r) == TRUE

\* the unique indexes on the slug and on the SKU (P2002)
inserted(r) == free(r)

\* The transaction: product, variant, level, movement and audit entry, or nothing.
createProduct(r) ==
    /\ r \in requests /\ r.stage = "checked"
    /\ IF inserted(r)
       THEN /\ products' = products \cup {[by |-> r.by, n |-> r.n, sku |-> r.sku, slug |-> r.slug]}
            /\ Answer(r, "created")
       ELSE /\ Answer(r, "conflict")
            /\ UNCHANGED products
    /\ UNCHANGED <<entries, form, saving, closed, creating, typed, submits, lost>>

\* The form closes when it is told of its product and alerts otherwise; the answer
\* to a request it no longer waits for is nobody's.
Told(r) ==
    /\ r \in requests /\ r.stage \in {"created", "conflict"}
    /\ requests' = requests \ {r}
    /\ IF saving[r.by] = r.n
       THEN /\ closed' = [closed EXCEPT ![r.by] = r.stage = "created"]
            /\ saving' = [saving EXCEPT ![r.by] = None]
       ELSE UNCHANGED <<closed, saving>>
    /\ UNCHANGED <<products, entries, form, creating, typed, submits, lost>>

\* The connection is lost: an alert, and the form stays; the API goes on.
Lost(e) ==
    /\ saving[e] # None
    /\ lost < MaxLost
    /\ lost' = lost + 1
    /\ saving' = [saving EXCEPT ![e] = None]
    /\ UNCHANGED <<products, requests, entries, form, closed, creating, typed, submits>>

\* The API is restarted before the transaction commits: nothing is written.
Died(r) ==
    /\ r \in requests /\ r.stage \in {"sent", "checked"}
    /\ lost < MaxLost
    /\ lost' = lost + 1
    /\ requests' = requests \ {r}
    /\ saving' = [saving EXCEPT ![r.by] = IF @ = r.n THEN None ELSE @]
    /\ UNCHANGED <<products, entries, form, closed, creating, typed, submits>>
-----------------------------------------------------------------------------
(* A brand, a category or a perfume house: created, then audited.          *)

createEntry(e, n) ==
    /\ creating[e] = None /\ entries[n] = "none"
    /\ entries' = [entries EXCEPT ![n] = "created"]
    /\ creating' = [creating EXCEPT ![e] = n]
    /\ UNCHANGED <<products, requests, form, saving, closed, typed, submits, lost>>

auditEntry(e) ==
    /\ creating[e] # None
    /\ entries' = [entries EXCEPT ![creating[e]] = "audited"]
    /\ creating' = [creating EXCEPT ![e] = None]
    /\ UNCHANGED <<products, requests, form, saving, closed, typed, submits, lost>>

EntryLost(e) ==
    /\ creating[e] # None
    /\ lost < MaxLost
    /\ lost' = lost + 1
    /\ creating' = [creating EXCEPT ![e] = None]
    /\ UNCHANGED <<products, requests, entries, form, saving, closed, typed, submits>>

Next ==
    \/ \E r \in requests : CheckProduct(r) \/ createProduct(r) \/ Told(r) \/ Died(r)
    \/ \E e \in Employees :
        \/ \E s \in AnySku : TypeSku(e, s)
        \/ AskSku(e)
        \/ \E q \in queries[e] : skuAvailability(e, q) \/ SkuAnswered(e, q) \/ SkuFailed(e, q)
        \/ submit(e)
        \/ Lost(e)
        \/ \E n \in Names : createEntry(e, n)
        \/ auditEntry(e)
        \/ EntryLost(e)

Spec == Init /\ [][Next]_vars
-----------------------------------------------------------------------------
(* Properties.                                                             *)

Product == [by : Employees \cup {None}, n : Nat, sku : Skus, slug : Slugs \cup {Before[s] : s \in Taken}]
Request == [by : Employees, n : Nat, sku : Skus, slug : Slugs,
            stage : {"sent", "checked", "created", "conflict"}]

\* The type of the state; what is sent to the API names a SKU.
TypeOK ==
    /\ products \subseteq Product
    /\ requests \subseteq Request
    /\ entries \in [Names -> {"none", "created", "audited"}]
    /\ sku \in [Employees -> AnySku]
    /\ skuCheck \in [Employees -> {"idle", "checking", "available", "conflict", "invalid"}]
    /\ saving \in [Employees -> Nat \cup {None}]

\* A SKU and a slug are of one product: of two forms that were both told the SKU
\* was free, and both found it so, one is refused and writes nothing.
NeverOverwritten == \A p, q \in products : p.sku = q.sku \/ p.slug = q.slug => p = q

\* The form of an employee creates one product at most, whatever is lost and sent
\* again, and with whatever SKU: its slug is taken.
OncePerForm == \A e \in Employees : Cardinality({p \in products : p.by = e}) <= 1

\* The label does not go on saying that a SKU is being checked when nobody asks.
CheckingEnds ==
    \A e \in Employees : skuCheck[e] = "checking" => timeout[e] # None \/ queries[e] # {}

\* When nothing is being asked, a label that says the SKU is free says so of the
\* SKU in the field (of one employee who has not saved yet).
LabelIsTrue ==
    \A e \in Employees :
        timeout[e] = None /\ queries[e] = {} /\ skuCheck[e] = "available" /\ sku[e] \in Skus
            => \A p \in products : p.sku # sku[e]

\* What an employee created is in the audit once the request is over.
CreatedIsAudited ==
    \A n \in Names : entries[n] = "created" => \E e \in Employees : creating[e] = n
=============================================================================

------------------------------- MODULE Prices -------------------------------
(***************************************************************************)
(* The prices an employee changes: one by one or many at once, by the      *)
(* policy of a line, and by percentage from the page that previews the     *)
(* change first (admin-commerce.service.ts, admin-price-manager.tsx), and  *)
(* what the store then asks for (pricing.service.ts).  The API reads and   *)
(* writes in separate statements of READ COMMITTED transactions; several   *)
(* employees work at once and answers are lost.                            *)
(***************************************************************************)
EXTENDS PriceAdjustment, FiniteSets

CONSTANTS
    Employees,
    Variants,   \* active variants
    Line(_),    \* the line of a variant's product,
    Brand(_),   \* its brand,
    Draft(_),   \* and whether it is a draft
    Inputs,     \* adjustments an employee may enter
    MaxPrice,   \* bound: the highest price
    Edits,      \* bound: changes of prices and policies asked for
    Faults,     \* bound: answers that are lost
    None        \* no price, nothing

\* The inputs are those that the DTO lets through; the bound holds the first prices.
PricesAssumption ==
    /\ {MaxPrice, Edits, Faults} \subseteq Nat /\ MaxPrice >= 3
    /\ Inputs # {} /\ None \notin Inputs /\ None \notin Int
    /\ \A i \in Inputs : /\ i.direction \in {"INCREASE", "DECREASE"}
                         /\ validPercentage(i.direction, i.percentage)
                         /\ i.scope \in {"ALL", "LINE", "BRAND"}

Lines == {Line(v) : v \in Variants}

VARIABLES
    variant,  \* [Variants -> catalogPriceCents and compareAtPriceCents]
    policy,   \* [Lines -> the line's pricing policy]
    request,  \* [Employees -> what the API handles for the employee]
    page,     \* [Employees -> the price manager: its form, the input whose
              \*  changes it shows, and the one whose preview it waits for]
    edits,    \* how many changes were asked for
    faults    \* how many answers were lost

vars == <<variant, policy, request, page, edits, faults>>

idle == [at |-> "idle"]
Init ==
    /\ variant \in [Variants -> {[price |-> 2, compare |-> 3], [price |-> None, compare |-> None]}]
    /\ policy \in [Lines -> {[fixed |-> TRUE, price |-> 2, active |-> TRUE],
                             [fixed |-> FALSE, price |-> None, active |-> TRUE]}]
    /\ request = [e \in Employees |-> idle]
    /\ page = [e \in Employees |-> [form |-> CHOOSE i \in Inputs : TRUE, preview |-> None,
                               asking |-> None, applying |-> FALSE]]
    /\ edits = 0 /\ faults = 0

\* resolveVariantPrice: None stands for its exceptions.
resolveVariantPrice(v) ==
    LET p == policy[Line(v)]
    IN  IF ~p.active THEN None ELSE IF p.fixed THEN p.price ELSE variant[v].price
-----------------------------------------------------------------------------
(* preparePercentagePriceAdjustment                                        *)

\* priceAdjustmentProductWhere
selected(input) ==
    {v \in Variants : /\ Draft(v) => input.includeDrafts
                      /\ input.scope = "LINE" => Line(v) = input.of
                      /\ input.scope = "BRAND" => Brand(v) = input.of}

isFixed(l) == policy[l].active /\ policy[l].fixed /\ policy[l].price # None

canUpdateFixedPolicies_Any(input) == input.includeFixedPolicies
canUpdateFixedPolicies(input) == input.includeFixedPolicies /\ input.scope \in {"ALL", "LINE"}

adjusted(input, price) ==
    calculateAdjustedPriceCents(price, input.direction, input.percentage, "CENT")
nextCompareAt(input, row) ==
    IF row.compare = None THEN None
    ELSE LET price == adjusted(input, row.price) compare == adjusted(input, row.compare)
         IN  IF compare < price THEN price ELSE compare

\* The rows to write, each with the price it had.
variantChanges(input) ==
    LET priced == {v \in selected(input) : ~isFixed(Line(v)) /\ variant[v].price \notin {None, 0}}
        row(v) == [price |-> adjusted(input, variant[v].price),
                   compare |-> nextCompareAt(input, variant[v])]
    IN  {[variant |-> v, current |-> variant[v], next |-> row(v)] :
            v \in {w \in priced : row(w) # variant[w]}}
policyChanges(input) ==
    LET lines == {l \in {Line(v) : v \in selected(input)} :
                    /\ isFixed(l) /\ canUpdateFixedPolicies(input)
                    /\ adjusted(input, policy[l].price) # policy[l].price}
    IN  {[line |-> l, current |-> policy[l].price, next |-> adjusted(input, policy[l].price)] : l \in lines}
plan(input) == [input |-> input, variants |-> variantChanges(input), policies |-> policyChanges(input)]
changes(p) == p.variants # {} \/ p.policies # {}
InBound(p) == /\ \A c \in p.variants : c.next.price <= MaxPrice /\ c.next.compare \in (0..MaxPrice) \cup {None}
              /\ \A c \in p.policies : c.next <= MaxPrice
-----------------------------------------------------------------------------
(* The API.                                                                *)

Handle(e, record) == request' = [request EXCEPT ![e] = record]
Edit == edits < Edits /\ edits' = edits + 1

\* updatePricingPolicy: a fixed price when the mode is fixed, none otherwise.
needsPrice(fixed, price) == fixed => price # None
UpdatePolicy(l, fixed, price, active) ==
    /\ Edit /\ needsPrice(fixed, price)
    /\ policy' = [policy EXCEPT ![l] =
           [fixed |-> fixed, price |-> IF fixed THEN price ELSE None, active |-> active]]
    /\ UNCHANGED <<variant, request, page, faults>>

\* bulkUpdatePrices reads the variants with their policies, refuses lines
\* with a fixed price, ...
BulkRead(e, v, price, compare) ==
    /\ request[e] = idle /\ Edit
    /\ ~policy[Line(v)].fixed
    /\ Handle(e, [at |-> "bulk", variant |-> v, price |-> price, compare |-> compare])
    /\ UNCHANGED <<variant, policy, page, faults>>
\* ... and writes what it was given; no new struck-out price leaves the old one.
BulkWrite(e) ==
    /\ request[e].at = "bulk"
    /\ variant' = [variant EXCEPT ![request[e].variant] =
           [price |-> request[e].price,
            compare |-> IF request[e].compare = None THEN @.compare ELSE request[e].compare]]
    /\ Handle(e, idle)
    /\ UNCHANGED <<policy, page, edits, faults>>

\* applyPercentagePriceAdjustment prepares the plan anew and refuses an empty
\* one ...
ApplyRead(e) ==
    /\ request[e].at = "apply"
    /\ IF changes(plan(request[e].input))
       THEN /\ InBound(plan(request[e].input))
            /\ Handle(e, [at |-> "write", plan |-> plan(request[e].input)])
       ELSE Handle(e, [at |-> "refused"])
    /\ UNCHANGED <<variant, policy, page, edits, faults>>

\* ... and writes it, all of it or nothing.
writtenVariant(p, v) ==
    IF \E c \in p.variants : c.variant = v
    THEN (CHOOSE c \in p.variants : c.variant = v).next ELSE variant[v]
writtenPolicy(p, l) ==
    IF \E c \in p.policies : c.line = l
    THEN [policy[l] EXCEPT !.price = (CHOOSE c \in p.policies : c.line = l).next] ELSE policy[l]
ApplyWrite(e) ==
    /\ request[e].at = "write"
    /\ variant' = [v \in Variants |-> writtenVariant(request[e].plan, v)]
    /\ policy' = [l \in Lines |-> writtenPolicy(request[e].plan, l)]
    /\ Handle(e, [at |-> "done"])
    /\ UNCHANGED <<page, edits, faults>>
-----------------------------------------------------------------------------
(* The price manager.                                                      *)

Page(e, record) == page' = [page EXCEPT ![e] = record]
Fault == faults < Faults /\ faults' = faults + 1

\* update: another input throws the preview away.
EnterInput(e, input) ==
    /\ input # page[e].form
    /\ Page(e, [page[e] EXCEPT !.form = input, !.preview = None])
    /\ UNCHANGED <<variant, policy, request, edits, faults>>

\* createPreview: its answer is shown whenever it comes; a preview without
\* changes cannot be applied (hasApplicableChanges) and counts as none.
PressPreview(e) ==
    /\ page[e].asking = None
    /\ Page(e, [page[e] EXCEPT !.asking = page[e].form])
    /\ UNCHANGED <<variant, policy, request, edits, faults>>
PreviewArrives(e) ==
    /\ page[e].asking # None
    /\ Page(e, [page[e] EXCEPT !.preview = IF changes(plan(page[e].asking)) THEN page[e].asking ELSE None,
                               !.asking = None])
    /\ UNCHANGED <<variant, policy, request, edits, faults>>
PreviewFails(e) ==
    /\ page[e].asking # None /\ Fault
    /\ Page(e, [page[e] EXCEPT !.asking = None])
    /\ UNCHANGED <<variant, policy, request, edits>>

\* applyAdjustment: the preview must have changes; what is sent is the form.
PressApply(e) ==
    /\ page[e].preview # None /\ ~page[e].applying
    /\ request[e] = idle /\ Edit
    /\ Page(e, [page[e] EXCEPT !.applying = TRUE])
    /\ Handle(e, [at |-> "apply", input |-> page[e].form])
    /\ UNCHANGED <<variant, policy, faults>>
\* The answer throws the preview away; when it is an error, or is lost, the
\* preview stays and may be applied again.
ApplyArrives(e) ==
    /\ request[e].at = "done" /\ page[e].applying
    /\ Page(e, [page[e] EXCEPT !.applying = FALSE, !.preview = None])
    /\ Handle(e, idle)
    /\ UNCHANGED <<variant, policy, edits, faults>>
ApplyRefused(e) ==
    /\ request[e].at = "refused"
    /\ Page(e, [page[e] EXCEPT !.applying = FALSE])
    /\ Handle(e, idle)
    /\ UNCHANGED <<variant, policy, edits, faults>>
ApplyLost(e) ==
    /\ request[e].at = "done" /\ Fault
    /\ Page(e, [page[e] EXCEPT !.applying = FALSE])
    /\ Handle(e, idle)
    /\ UNCHANGED <<variant, policy, edits>>
-----------------------------------------------------------------------------
PageStep(e) ==
    \/ PressPreview(e) \/ PreviewArrives(e) \/ PreviewFails(e)
    \/ PressApply(e) \/ ApplyArrives(e) \/ ApplyRefused(e) \/ ApplyLost(e)
    \/ \E input \in Inputs : EnterInput(e, input)

Next ==
    \/ \E e \in Employees : \/ PageStep(e) \/ ApplyRead(e) \/ ApplyWrite(e) \/ BulkWrite(e)
                            \/ \E v \in Variants, price \in {0, 2}, compare \in {None, 1} :
                                  BulkRead(e, v, price, compare)
    \/ \E l \in Lines, fixed \in BOOLEAN, price \in {2, None}, active \in BOOLEAN :
          UpdatePolicy(l, fixed, price, active)

Spec == Init /\ [][Next]_vars
-----------------------------------------------------------------------------
(* Properties.                                                             *)

Price == 0..MaxPrice \cup {None}
TypeOK ==
    /\ variant \in [Variants -> [price : Price, compare : Price]]
    /\ policy \in [Lines -> [fixed : BOOLEAN, price : Price, active : BOOLEAN]]
    /\ \A e \in Employees : page[e].form \in Inputs

\* A line of fixed price has one, whatever was adjusted and switched at the
\* same time: its products can be sold as long as the line is active.
FixedHasPrice == \A l \in Lines : policy[l].fixed => policy[l].price # None

Published == {v \in Variants : ~Draft(v) /\ resolveVariantPrice(v) # None}
Undisturbed(e) == request[e].at = "write" /\ request[e].plan = plan(request[e].plan.input)

\* An adjustment whose prices did not move meanwhile changes what the store
\* asks for by exactly its percentage: of each product it selects, and of no
\* other ('cambiar su politica afectaria productos fuera de este filtro').
AdjustsWhatIsSold ==
    \A e \in Employees : Undisturbed(e) /\ request'[e].at = "done" =>
      LET input == request[e].plan.input
      IN  \A v \in Published :
            IF /\ v \in selected(input) /\ resolveVariantPrice(v) > 0
               /\ policy[Line(v)].fixed => input.includeFixedPolicies /\ input.scope # "BRAND"
            THEN resolveVariantPrice(v)' = adjusted(input, resolveVariantPrice(v))
            ELSE resolveVariantPrice(v)' = resolveVariantPrice(v)

\* A product that was shown with a discount is not shown dearer than before:
\* an adjustment keeps the struck-out price at or above the price.
DiscountStays ==
    \A e \in Employees, v \in Variants :
      /\ request[e].at = "write" /\ request'[e].at = "done"
      /\ variant'[v] # variant[v] /\ variant'[v].compare # None
      => variant'[v].compare >= variant'[v].price

\* 'una vista previa verificable antes de publicar el cambio': what is applied
\* is what the page showed when it was pressed.
AppliedAsPreviewed ==
    [][\A e \in Employees :
         request'[e].at = "apply" /\ request[e] = idle =>
             request'[e].input = page[e].preview]_vars

\* 'auditoria de acciones': the prices that the log says were there before are
\* those that an adjustment replaced.
AuditIsTrue ==
    [][\A e \in Employees : request[e].at = "write" /\ request'[e].at = "done" =>
         /\ \A c \in request[e].plan.variants : c.current = variant[c.variant]
         /\ \A c \in request[e].plan.policies : c.current = policy[c.line].price]_vars
=============================================================================

---------------------------- MODULE PromotionDesk ----------------------------
(***************************************************************************)
(* The campaigns that employees write (admin-commerce.service.ts, the      *)
(* promotions tab of the administration), the list the shop shows          *)
(* (catalog.service.ts) and the candidates an order reads                  *)
(* (orders.service.ts).  A change validates a row it reads first and then  *)
(* writes, in another statement, only the fields it was given; the         *)
(* table's CHECKs have the last word.  A form can be changed, closed and   *)
(* pressed again while a request of it is under way.                       *)
(***************************************************************************)
EXTENDS Integers, FiniteSets

CONSTANTS
    None,        \* no row, no code, no request
    Employees,   \* one form on the screen of each
    Requests,    \* bound: changes being handled at a time, of one employee or several
    Ids,         \* rows of the table Promotion
    Slugs,
    Typed,       \* a code as somebody types it
    Blank,       \* an empty code
    trimUpper,   \* [Typed -> code stored]
    Limits,      \* values of perCustomerLimit, a setting the form does not show
    Entries,     \* bound: what somebody changes in a form, besides the slug
    Singles,     \* bound: the fields other callers send, one at a time
    Horizon,     \* bound: the dates of campaigns are 0..Horizon
    MaxForms,    \* bound: slugs given to a new campaign, the one its form opened with and others
    MaxChanges   \* bound: changes sent to the API

VARIABLES
    promotion,   \* [Ids -> row or None]
    request,     \* [Requests -> the change being handled, or None]
    form,        \* [Employees -> the form on screen, or None]
    now,
    forms,       \* ghost: how many slugs new campaigns were given
    sent         \* ghost: how many changes were sent

vars == <<promotion, request, form, now, forms, sent>>

Codes == {trimUpper[t] : t \in Typed}
Row == [slug : Slugs, code : Codes \cup {None}, requiresCode : BOOLEAN, startsAt : 0..Horizon,
        endsAt : (0..Horizon) \cup {None}, isActive : BOOLEAN,
        perCustomerLimit : Limits \cup {None},
        number : 0..MaxForms]   \* ghost: which new slug it was published for, until it is renamed
\* What a caller may send alone; a form has them all but the last.
entry == [code : Typed \cup {Blank}] \cup [startsAt : 0..Horizon] \cup [isActive : BOOLEAN]
           \cup [endsAt : (0..Horizon) \cup {None}]
single == entry \cup [requiresCode : BOOLEAN] \cup [perCustomerLimit : Limits]
\* A code as it is stored may be typed, and is stored as it is.
PromotionAssumption ==
    /\ \A t \in Typed : trimUpper[t] \in Typed /\ trimUpper[trimUpper[t]] = trimUpper[t]
    /\ Blank \notin Typed /\ None \notin Typed \cup Ids \cup Row \cup Nat
    /\ Entries \subseteq entry /\ Singles \subseteq single
    /\ MaxForms \in Nat /\ MaxChanges \in Nat /\ Horizon \in Nat

Rows == {i \in Ids : promotion[i] # None}
\* `code?.trim().toUpperCase() || null`
storedCode(t) == IF t = Blank THEN None ELSE trimUpper[t]

\* Values are left out, and with them the percentage that may not exceed 100.
validatePromotion(p) ==
    /\ p.endsAt # None => p.endsAt > p.startsAt
    /\ p.requiresCode => p.code # Blank
\* Promotion_dates_check and Promotion_required_code_check.
checks_None(row) == TRUE
checks(row) ==
    /\ row.endsAt # None => row.endsAt > row.startsAt
    /\ row.requiresCode => row.code # None
\* Promotion_slug_key and Promotion_code_key, for a row written at i.
unique(i, row) ==
    \A j \in Rows \ {i} : /\ promotion[j].slug # row.slug
                          /\ row.code # None => promotion[j].code # row.code

----------------------------------------------------------------------------
\* The fields of c, and those of row that c does not give.
over(c, row) == [f \in DOMAIN c \cup DOMAIN row |-> IF f \in DOMAIN c THEN c[f] ELSE row[f]]

\* What the administration sends.
formFields(row) == [slug |-> row.slug, code |-> IF row.code = None THEN Blank ELSE row.code,
                    startsAt |-> row.startsAt, endsAt |-> row.endsAt, isActive |-> row.isActive]
payload(fields) == over([requiresCode |-> fields.code # Blank], fields)
toggled(row) == [isActive |-> ~row.isActive]
Init ==
    /\ promotion = [i \in Ids |-> None]
    /\ request = [r \in Requests |-> None]
    /\ form = [e \in Employees |-> None]
    /\ now = 0 /\ forms = 0 /\ sent = 0

\* PromotionForm opens, for a row of the list or for a new campaign.
Open(e, i) ==
    /\ form[e] = None /\ i \in Rows
    /\ form' = [form EXCEPT ![e] = [id |-> i, number |-> 0, fields |-> formFields(promotion[i])]]
    /\ UNCHANGED <<promotion, request, now, forms, sent>>
OpenNew(e, s) ==
    /\ form[e] = None /\ forms < MaxForms
    /\ forms' = forms + 1
    /\ form' = [form EXCEPT ![e] =
          [id |-> None, number |-> forms', fields |->
              [slug |-> s, code |-> Blank, startsAt |-> now, endsAt |-> Horizon, isActive |-> TRUE]]]
    /\ UNCHANGED <<promotion, request, now, sent>>
Type(e, c) ==
    /\ form[e] # None
    /\ form' = [form EXCEPT ![e].fields = over(c, @)]
    /\ UNCHANGED <<promotion, request, now, forms, sent>>
\* A new campaign of another slug is another campaign.
TypeSlug(e, s) ==
    /\ form[e] # None /\ form[e].fields.slug # s
    /\ \/ form[e].id # None /\ UNCHANGED forms
       \/ form[e].id = None /\ forms < MaxForms /\ forms' = forms + 1
    /\ form' = [form EXCEPT ![e].fields.slug = s, ![e].number = IF form[e].id = None THEN forms' ELSE 0]
    /\ UNCHANGED <<promotion, request, now, sent>>

\* updatePromotion up to its transaction: the row it read, with what is given.
merged(i, input) ==
    over(input, [promotion[i] EXCEPT !.code = IF @ = None THEN Blank ELSE @])
Send(r, e, i, number, input) ==
    /\ request[r] = None /\ sent < MaxChanges
    /\ sent' = sent + 1
    /\ request' = [request EXCEPT ![r] = [of |-> e, id |-> i, number |-> number, input |-> input]]
    /\ UNCHANGED <<promotion, form, now, forms>>
Ask(r, e, i, input) ==
    /\ i \in Rows
    /\ validatePromotion(merged(i, input))
    /\ Send(r, e, i, 0, input)
Submit(r, e) == form[e] # None /\ form[e].id # None /\ Ask(r, e, form[e].id, payload(form[e].fields))
Toggle(r, e, i) == i \in Rows /\ Ask(r, e, i, toggled(promotion[i]))
AskOne(r, e, i, input) == Ask(r, e, i, input)
SubmitNew(r, e) ==
    /\ form[e] # None /\ form[e].id = None
    /\ validatePromotion(payload(form[e].fields))
    /\ Send(r, e, None, form[e].number, payload(form[e].fields))

\* The update of updatePromotion: a field that is not given is not written.
changes(r) == r.input
written(r, row) ==
    LET c == changes(r)
        w == over(IF "code" \in DOMAIN c THEN [c EXCEPT !.code = storedCode(@)] ELSE c, row)
    IN  [w EXCEPT !.number = IF w.slug = row.slug THEN @ ELSE 0]
\* The transaction commits; its answer reaches the employee and closes the
\* form that is open (actionSuccess), or is lost: the form stays for another
\* press.
Stored(r, i, row) ==
    /\ checks(row) /\ unique(i, row)
    /\ promotion' = [promotion EXCEPT ![i] = row]
    /\ request' = [request EXCEPT ![r] = None]
    /\ \/ form' = [form EXCEPT ![request[r].of] = None]
       \/ UNCHANGED form
    /\ UNCHANGED <<now, forms, sent>>
updatePromotion(r) ==
    /\ request[r] # None /\ request[r].id # None
    /\ Stored(r, request[r].id, written(request[r], promotion[request[r].id]))
createPromotion(r, i) ==
    /\ request[r] # None /\ request[r].id = None /\ i \in Ids \ Rows
    /\ Stored(r, i, over([request[r].input EXCEPT !.code = storedCode(@)],
                         [perCustomerLimit |-> None, number |-> request[r].number]))
\* A constraint refuses it, one of these ('El slug o codigo de la promocion
\* ya existe.') or one on a field left out, or the transaction fails.
Refused(r) ==
    /\ request[r] # None
    /\ request' = [request EXCEPT ![r] = None]
    /\ UNCHANGED <<promotion, form, now, forms, sent>>
Close(e) ==
    /\ form[e] # None
    /\ form' = [form EXCEPT ![e] = None]
    /\ UNCHANGED <<promotion, request, now, forms, sent>>
Tick ==
    /\ now < Horizon /\ now' = now + 1
    /\ UNCHANGED <<promotion, request, form, forms, sent>>

FormStep(e) ==
    \/ \E i \in Ids : Open(e, i)
    \/ \E s \in Slugs : OpenNew(e, s) \/ TypeSlug(e, s)
    \/ \E c \in Entries : Type(e, c)
    \/ Close(e)
RequestStep(r) ==
    \/ \E e \in Employees :
        \/ \E i \in Ids : Toggle(r, e, i)
        \/ \E i \in Ids, input \in Singles : AskOne(r, e, i, input)
        \/ Submit(r, e) \/ SubmitNew(r, e)
    \/ \E i \in Ids : createPromotion(r, i)
    \/ updatePromotion(r) \/ Refused(r)
Next == Tick \/ (\E e \in Employees : FormStep(e)) \/ (\E r \in Requests : RequestStep(r))

Spec == Init /\ [][Next]_vars

----------------------------------------------------------------------------
inPeriod(p) == p.startsAt <= now /\ (p.endsAt # None => p.endsAt >= now)
\* catalog.promotions(): the list; an upcoming campaign is shown as such.
shown == {i \in Rows : /\ promotion[i].isActive
                       /\ promotion[i].endsAt # None => promotion[i].endsAt >= now}
shownAsAutomatic == {i \in shown : promotion[i].startsAt <= now /\ promotion[i].code = None}
shownWithCode == {i \in shown : promotion[i].startsAt <= now /\ promotion[i].code # None}
\* The candidates of an order whose customer typed t, or nothing.
promotionCandidates(t) ==
    {i \in Rows : /\ promotion[i].isActive /\ inPeriod(promotion[i])
                  /\ IF t = Blank THEN ~promotion[i].requiresCode
                     ELSE promotion[i].code = trimUpper[t]}

----------------------------------------------------------------------------
TypeOK == /\ \A i \in Rows : promotion[i] \in Row
          /\ \A r \in Requests : request[r] # None => request[r].id \in Ids \cup {None}

\* 'Promociones automaticas o mediante codigo' (REQUIREMENTS.md:35): a
\* campaign that the shop shows as applied automatically is a candidate of an
\* order without a code, whatever two employees changed at once.
ShownAsAutomaticApplies == shownAsAutomatic \subseteq promotionCandidates(Blank)

\* A code the shop shows finds its campaign, and no other, however a customer
\* writes it.
ShownCodeApplies ==
    \A i \in shownWithCode, t \in Typed :
        trimUpper[t] = trimUpper[promotion[i].code] => promotionCandidates(t) = {i}

\* A form pressed again, after a lost answer or while the first is under way,
\* does not publish a second campaign, unless the first was renamed meanwhile.
OncePerForm ==
    \A i, j \in Rows : promotion[i].number = promotion[j].number /\ promotion[i].number # 0 => i = j

\* A change leaves every field alone that its caller did not send, also one
\* that a colleague wrote since it was read.
NothingElseChanges ==
    \A r \in Requests, i \in Ids :
       request[r] # None /\ request'[r] = None /\ request[r].id = i /\ promotion'[i] # promotion[i]
         => \A f \in DOMAIN promotion[i] \ (DOMAIN request[r].input \cup {"number"}) :
               promotion'[i][f] = promotion[i][f]
=============================================================================

----------------------------- MODULE AddressBook -----------------------------
(***************************************************************************)
(* The saved addresses of one customer (customers.service.ts), changed     *)
(* from any number of devices and pages at once: the account page never    *)
(* disables its buttons for another request, and its dialog can be closed  *)
(* while it saves (customer-dashboard.tsx).                                *)
(*                                                                         *)
(* A change decides by what it reads first: createAddress by the number of *)
(* addresses, the others by the address they look up. Then its transaction *)
(* at READ COMMITTED reads what was committed when it begins, and what it  *)
(* writes is seen when it commits. That one waits for a row another has    *)
(* locked only puts the commits in some order: a statement that waited     *)
(* keeps the rows it had found.                                            *)
(***************************************************************************)
EXTENDS Integers, FiniteSets

CONSTANTS
    None,
    Requests,  \* changes that may be under way at once
    Ids,       \* addresses
    Flags      \* what callers send as isDefault; None when they leave it out

AddressAssumption ==
    /\ IsFiniteSet(Ids) /\ None \notin BOOLEAN /\ Flags \subseteq BOOLEAN \cup {None}

VARIABLES
    isDefault,    \* [Ids -> BOOLEAN, or None when there is no such row]
    newest,       \* [rows -> their place in the order they were created]
    found,        \* [Requests -> what a change read before its transaction, or None]
    transaction,  \* [Requests -> what its open transaction writes, or None]
    overtaken,    \* ghost: changes under way since whose reading another was committed
    crossed       \* ghost: a change was committed although another had overtaken it

rows == <<isDefault, newest>>
vars == <<rows, found, transaction, overtaken, crossed>>

Rows == {a \in Ids : isDefault[a] # None}
Defaults == {a \in Rows : isDefault[a]}
Open == {r \in Requests : transaction[r] # None}
UnderWay == {r \in Requests : found[r] # None} \cup Open
Mentioned ==
    {found[r].id : r \in {q \in Requests : found[q] # None}}
      \cup UNION {{transaction[r].id} \cup transaction[r].unset \cup transaction[r].promote : r \in Open}

Init ==
    /\ isDefault = [a \in Ids |-> None] /\ newest = <<>>
    /\ found = [r \in Requests |-> None]
    /\ transaction = [r \in Requests |-> None]
    /\ overtaken = {} /\ crossed = FALSE

\* What a new request reads before it writes.
Reads(r, f) ==
    /\ r \notin UnderWay
    /\ found' = [found EXCEPT ![r] = f]
    /\ UNCHANGED <<rows, transaction, overtaken, crossed>>

\* createAddress: the first address becomes the default unless told otherwise.
becomesDefault(flag) == IF flag = None THEN Rows = {} ELSE flag
createAddress(r, a, flag) ==
    /\ a \in Ids \ (Rows \cup Mentioned)   \* ids are never used again
    /\ Reads(r, [kind |-> "create", id |-> a, flag |-> flag, isDefault |-> becomesDefault(flag)])

\* Both look the address up first ('Direccion no encontrada.').
lookUp(r, a, kind, flag) ==
    a \in Rows /\ Reads(r, [kind |-> kind, id |-> a, flag |-> flag, isDefault |-> isDefault[a]])
refuses(default, flag) == default /\ flag = FALSE
updateAddress(r, a, flag) == ~refuses(isDefault[a], flag) /\ lookUp(r, a, "update", flag)
deleteAddress(r, a) == lookUp(r, a, "delete", None)

\* Its transaction.
Begin(r, w) ==
    /\ transaction' = [transaction EXCEPT ![r] = w] /\ found' = [found EXCEPT ![r] = None]
    /\ UNCHANGED <<rows, overtaken, crossed>>
\* A new default address, or an address that becomes it, takes it from the others.
unset(id, default) == IF default = TRUE THEN Defaults \ {id} ELSE {}
beginCreate(r) ==
    LET f == found[r]
    IN  /\ f # None /\ f.kind = "create"
        /\ Begin(r, [kind |-> "create", id |-> f.id, unset |-> unset(f.id, f.isDefault),
                     promote |-> {}, isDefault |-> f.isDefault])
beginUpdate(r) ==
    LET f == found[r]
    IN  /\ f # None /\ f.kind = "update" /\ f.id \in Rows
        /\ Begin(r, [kind |-> "update", id |-> f.id, unset |-> unset(f.id, f.flag),
                     promote |-> {}, isDefault |-> f.flag])
\* The newest of the others takes the place of a default address.
promoted(f) ==
    LET others == Rows \ {f.id}
        last(a) == \A b \in others \ {a} : newest[b] < newest[a]
    IN  IF f.isDefault THEN {a \in others : last(a)} ELSE {}
beginDelete(r) ==
    LET f == found[r]
    IN  /\ f # None /\ f.kind = "delete" /\ f.id \in Rows
        /\ Begin(r, [kind |-> "delete", id |-> f.id, unset |-> {}, promote |-> promoted(f),
                     isDefault |-> None])

\* The rows that must still be there: an update of one that is gone fails.
needed_None(w) == {}
needed(w) == w.promote \cup IF w.kind = "create" THEN {} ELSE {w.id}
written(w, a) ==
    IF a = w.id /\ w.kind # "update" THEN w.isDefault
    ELSE IF a = w.id /\ w.isDefault # None THEN w.isDefault
    ELSE IF a \in w.promote THEN TRUE
    ELSE IF a \in w.unset \cap Rows THEN FALSE ELSE isDefault[a]
places(w) ==
    CASE w.kind = "create" -> [a \in Rows \cup {w.id} |->
                                 IF a = w.id THEN Cardinality(Rows) ELSE newest[a]]
      [] w.kind = "delete" -> [a \in Rows \ {w.id} |->
                                 Cardinality({b \in Rows \ {w.id} : newest[b] < newest[a]})]
      [] OTHER -> newest
commit(r) ==
    LET w == transaction[r]
    IN  /\ w # None /\ needed(w) \subseteq Rows
        /\ isDefault' = [a \in Ids |-> written(w, a)]
        /\ newest' = places(w)
        /\ transaction' = [transaction EXCEPT ![r] = None]
        /\ overtaken' = UnderWay \ {r}
        /\ crossed' = (crossed \/ r \in overtaken)
        /\ UNCHANGED found
\* A row is gone, or the database gives the transaction up (a deadlock, a lost
\* connection): nothing is written.
rollBack(r) ==
    /\ r \in UnderWay
    /\ found' = [found EXCEPT ![r] = None] /\ transaction' = [transaction EXCEPT ![r] = None]
    /\ overtaken' = overtaken \ {r}
    /\ UNCHANGED <<rows, crossed>>

Next ==
    \E r \in Requests :
        \/ \E a \in Ids, flag \in Flags : createAddress(r, a, flag)
        \/ \E a \in Rows, flag \in Flags : updateAddress(r, a, flag)
        \/ \E a \in Rows : deleteAddress(r, a)
        \/ beginCreate(r) \/ beginUpdate(r) \/ beginDelete(r) \/ commit(r) \/ rollBack(r)

Spec == Init /\ [][Next]_vars

----------------------------------------------------------------------------
TypeOK ==
    /\ isDefault \in [Ids -> BOOLEAN \cup {None}]
    /\ Rows = DOMAIN newest /\ \A a \in Rows : newest[a] \in 0..Cardinality(Ids)
    /\ \A r \in Open : transaction[r].kind \in {"create", "update", "delete"}
    /\ \A r \in Open : transaction[r].kind = "create" => transaction[r].isDefault \in BOOLEAN
    /\ overtaken \subseteq UnderWay

\* Of a customer's addresses at most one is the default, the one that the
\* checkout chooses (checkout-experience.tsx:111), as long as no change was
\* committed that another one had overtaken.
OneDefaultUntilCrossed == ~crossed => Cardinality(Defaults) <= 1

\* A change that no other overtook, whatever else is under way and whatever was
\* crossed before it, leaves a default address where there was one and there
\* still are addresses ('Selecciona otra direccion como predeterminada
\* primero.'), and no second one where there was one at most.
DefaultOnlyMoves ==
    \A r \in Open \ overtaken : transaction'[r] = None =>
       /\ Defaults # {} /\ Rows' # {} => Defaults' # {}
       /\ Cardinality(Defaults) <= 1 => Cardinality(Defaults') <= 1

\* What one change writes does not bring back, nor put in the place of the
\* default, an address that another one deletes meanwhile.
NothingComesBack ==
    \A a \in Ids : isDefault[a] = None /\ isDefault'[a] # None =>
       \E r \in Open : transaction[r].kind = "create" /\ transaction[r].id = a

\* What the code does not have: a default address wherever there are some, one
\* at most, and one that only moves whatever overlaps.
SomeDefault == Rows # {} => Defaults # {}
AtMostOneDefault == Cardinality(Defaults) <= 1
DefaultIsNeverLost == Defaults # {} /\ Rows' # {} => Defaults' # {}
=============================================================================

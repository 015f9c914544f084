-------------------------------- MODULE Seed --------------------------------
(***************************************************************************)
(* The store's data as prisma/seed.ts loads it: settings and catalogue     *)
(* first, then the products of INVENTARIO 3.0 in batches, each product in  *)
(* steps of its own, then payment instructions and the welcome promotion.  *)
(* A seed that stops halfway is run again, also while the stopped one is   *)
(* still at work, and on a store that sells and whose employees have made  *)
(* changes.                                                                *)
(***************************************************************************)
EXTENDS Naturals, FiniteSets, Sequences

CONSTANTS
    Catalog,    \* the products of the file,
    BatchOf(_), \* the batch each of them is in, from 1,
    StockOf(_), \* and the units of it
    Seeders,    \* runs of the seed that may be at work at once
    Orders,     \* bound: orders, of one unit each
    Edits,      \* bound: changes by employees
    Absent      \* nothing: no level, no order, no seed

SeedAssumption ==
    /\ Edits \in Nat
    /\ \A c \in Catalog : BatchOf(c) \in Nat \ {0} /\ StockOf(c) \in Nat
    /\ IsFiniteSet(Catalog) /\ IsFiniteSet(Orders)
    /\ Absent \notin Nat \cup Catalog

VARIABLES
    settings,  \* [Stages -> what the rows that are no products hold]
    product,   \* [Catalog -> the product with its relations, variant and price]
    level,     \* [Catalog -> onHand of its inventory level, Absent without one]
    imported,  \* [Catalog -> units of the PURCHASE movements of the import]
    extra,     \* products that employees added
    sold,      \* [Orders -> the product that was sold, Absent without an order]
    epoch,     \* how often the rows were deleted: ids of before are void
    seeder,    \* [Seeders -> the run: the number of its stage and its steps]
    edits      \* how many changes employees made

data == <<settings, product, level, imported, extra, sold, epoch>>

Stages == <<"admin", "content", "policies", "navigation", "products", "instructions", "promotion">>
Settings == {Stages[i] : i \in DOMAIN Stages} \ {"products"}
Batches == {BatchOf(c) : c \in Catalog}

noProduct == [status |-> "none", related |-> FALSE, variant |-> FALSE, price |-> "none"]
off == [at |-> 0]
done == Len(Stages) + 1
failed == Len(Stages) + 2
SeedInit ==
    /\ settings = [s \in Settings |-> "none"]
    /\ product = [c \in Catalog |-> noProduct]
    /\ level = [c \in Catalog |-> Absent]
    /\ imported = [c \in Catalog |-> 0]
    /\ extra = 0 /\ epoch = 0 /\ edits = 0
    /\ sold = [o \in Orders |-> Absent]
    /\ seeder = [s \in Seeders |-> off]
-----------------------------------------------------------------------------
(* The seed.                                                               *)

\* main
StartSeed(s) ==
    seeder' = [seeder EXCEPT ![s] = [at |-> 1, batch |-> 1, epoch |-> epoch,
                                     step |-> [c \in Catalog |-> "product"]]]
Running(s) == seeder[s].at \in DOMAIN Stages
stage(s) == Stages[seeder[s].at]

\* The upserts: the site's content is created and never updated, everything
\* else is written over.
upserted(setting) ==
    IF setting = "content" /\ settings[setting] # "none" THEN settings[setting] ELSE "seeded"
SeedSetting(s) ==
    /\ Running(s) /\ stage(s) # "products"
    /\ settings' = [settings EXCEPT ![stage(s)] = upserted(stage(s))]
    /\ seeder' = [seeder EXCEPT ![s].at = @ + 1,
                                ![s].epoch = IF stage(s) = "navigation" THEN epoch ELSE @]
    /\ UNCHANGED <<product, level, imported, extra, sold, epoch, edits>>

\* Each product of a batch goes through its steps next to the others.  The
\* ids of brand, lines, product and variant are those the run was given
\* before: a foreign key refuses them when the rows were deleted since, and
\* the run stops.
AtStep(s, c, step) ==
    /\ Running(s) /\ stage(s) = "products" /\ BatchOf(c) = seeder[s].batch
    /\ seeder[s].step[c] = step
valid(s) == seeder[s].epoch = epoch
Advance(s, c, step) == seeder' = [seeder EXCEPT ![s].step[c] = step]

UpsertProduct(s, c) ==
    /\ AtStep(s, c, "product") /\ valid(s)
    /\ product' = [product EXCEPT ![c].status = "ACTIVE"]
    /\ Advance(s, c, "related")
    /\ UNCHANGED <<settings, level, imported, extra, sold, epoch, edits>>
Relate(s, c) ==
    /\ AtStep(s, c, "related") /\ valid(s)
    /\ product' = [product EXCEPT ![c].related = TRUE]
    /\ Advance(s, c, "variant")
    /\ UNCHANGED <<settings, level, imported, extra, sold, epoch, edits>>
UpsertVariant(s, c) ==
    /\ AtStep(s, c, "variant") /\ valid(s)
    /\ product' = [product EXCEPT ![c].variant = TRUE, ![c].price = "seeded"]
    /\ Advance(s, c, "inventory")
    /\ UNCHANGED <<settings, level, imported, extra, sold, epoch, edits>>
existingInventory_Not(s, c) == FALSE
existingInventory(s, c) == valid(s) /\ level[c] # Absent
FindInventory(s, c) ==
    /\ AtStep(s, c, "inventory")
    /\ Advance(s, c, IF existingInventory(s, c) THEN "done" ELSE "create")
    /\ UNCHANGED <<data, edits>>
\* A level is unique by variant and location.
unique_Not(c) == TRUE
unique(c) == level[c] = Absent
CreateInventory(s, c) ==
    /\ AtStep(s, c, "create") /\ valid(s) /\ unique(c)
    /\ level' = [level EXCEPT ![c] = StockOf(c)]
    /\ imported' = [imported EXCEPT ![c] = @ + StockOf(c)]
    /\ Advance(s, c, "done")
    /\ UNCHANGED <<settings, product, extra, sold, epoch, edits>>
NextBatch(s) ==
    /\ Running(s) /\ stage(s) = "products"
    /\ \A c \in Catalog : BatchOf(c) = seeder[s].batch => seeder[s].step[c] = "done"
    /\ IF seeder[s].batch + 1 \in Batches
       THEN seeder' = [seeder EXCEPT ![s].batch = @ + 1]
       ELSE seeder' = [seeder EXCEPT ![s].at = @ + 1]
    /\ UNCHANGED <<data, edits>>
\* main().catch: one refused statement ends the run with exit code 1.
SeedFails(s) ==
    /\ \E c \in Catalog : \/ AtStep(s, c, "create") /\ ~unique(c)
                          \/ /\ Running(s) /\ stage(s) = "products" /\ BatchOf(c) = seeder[s].batch
                             /\ seeder[s].step[c] \notin {"inventory", "done"} /\ ~valid(s)
    /\ seeder' = [seeder EXCEPT ![s] = [at |-> failed]]
    /\ UNCHANGED <<data, edits>>

SeedStep(s) ==
    \/ SeedSetting(s) \/ NextBatch(s) \/ SeedFails(s)
    \/ \E c \in Catalog : \/ UpsertProduct(s, c) \/ Relate(s, c) \/ UpsertVariant(s, c)
                          \/ FindInventory(s, c) \/ CreateInventory(s, c)
-----------------------------------------------------------------------------
(* The store at work.                                                      *)

ordered == {o \in Orders : sold[o] # Absent}
\* A unit that an order reserves and its payment takes from the shelf.
sellable(c) == product[c].status = "ACTIVE" /\ product[c].variant /\ level[c] \notin {Absent, 0}
Sell(o, c) ==
    /\ o \notin ordered
    /\ sellable(c)
    /\ level' = [level EXCEPT ![c] = @ - 1]
    /\ sold' = [sold EXCEPT ![o] = c]
    /\ UNCHANGED <<settings, product, imported, extra, epoch, seeder, edits>>

Edit == edits < Edits /\ edits' = edits + 1 /\ UNCHANGED <<level, imported, sold, epoch, seeder>>
EditSetting(setting) ==
    /\ Edit /\ settings[setting] = "seeded" /\ setting \in {"content", "policies", "promotion"}
    /\ settings' = [settings EXCEPT ![setting] = "edited"]
    /\ UNCHANGED <<product, extra>>
EditPrice(c) ==
    /\ Edit /\ product[c].variant
    /\ product' = [product EXCEPT ![c].price = "edited"]
    /\ UNCHANGED <<settings, extra>>
Archive(c) ==
    /\ Edit /\ product[c].status = "ACTIVE"
    /\ product' = [product EXCEPT ![c].status = "ARCHIVED"]
    /\ UNCHANGED <<settings, extra>>
AddProduct ==
    /\ Edit /\ settings["navigation"] # "none"
    /\ extra' = extra + 1
    /\ UNCHANGED <<settings, product>>
StoreStep ==
    \/ \E o \in Orders, c \in Catalog : Sell(o, c)
    \/ \E setting \in Settings : EditSetting(setting)
    \/ \E c \in Catalog : EditPrice(c) \/ Archive(c)
    \/ AddProduct
=============================================================================

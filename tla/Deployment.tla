----------------------------- MODULE Deployment -----------------------------
(***************************************************************************)
(* deploy.sh: it may back the store up and empty it, may seed it and       *)
(* validate the result, and then publishes the new version.  The version   *)
(* that is running keeps serving customers and employees all along; the    *)
(* script stops at the first command that fails and can lose the           *)
(* connection, which leaves a seed at work or stops it.                    *)
(***************************************************************************)
EXTENDS Seed

CONSTANTS
    Resets,        \* bound: deployments that empty the store
    Interruptions  \* bound: scripts and backups that fail

DeploymentAssumption == {Resets, Interruptions} \subseteq Nat

VARIABLES
    up,      \* the store serves
    script,  \* the deployment under way
    saved,   \* orders in the backups,
    placed,  \* orders there ever were,
    late,    \* and those placed between a backup and the deletion: each with
             \* the epoch its id is of
    resets,  \* how often the store was to be emptied
    interruptions

control == <<up, script, saved, placed, late, resets, interruptions>>
storeVars == <<data, seeder, edits, control>>

idle == [at |-> "idle"]
InitDeployment ==
    /\ SeedInit
    /\ up = FALSE /\ script = idle
    /\ saved = {} /\ placed = {} /\ late = {}
    /\ resets = 0 /\ interruptions = 0

Go(at) == script' = [script EXCEPT !.at = at]
\* The orders in the tables.
current == {epoch} \X ordered
Interruption == interruptions < Interruptions /\ interruptions' = interruptions + 1
-----------------------------------------------------------------------------
\* --reset-store-data requires --seed, and the first deployment seeds
\* (deploy/README.md:111).
Deploy(seed, reset) ==
    /\ script = idle /\ (reset => seed) /\ (up \/ seed)
    /\ IF reset THEN resets < Resets /\ resets' = resets + 1 ELSE resets' = resets
    /\ script' = [at |-> "migrate", seed |-> seed, reset |-> reset, seeder |-> Absent]
    /\ UNCHANGED <<data, seeder, edits, up, saved, placed, late, interruptions>>
Migrate ==
    /\ script.at = "migrate"
    /\ Go(IF script.reset THEN "backup" ELSE IF script.seed THEN "seed" ELSE "publish")
    /\ UNCHANGED <<data, seeder, edits, up, saved, placed, late, resets, interruptions>>

\* reset-store-data.sh: 'Creando respaldo obligatorio antes de limpiar'
Backup ==
    /\ script.at = "backup"
    /\ saved' = saved \cup current
    /\ Go("truncate")
    /\ UNCHANGED <<data, seeder, edits, up, placed, late, resets, interruptions>>
afterFailedBackup == idle
BackupFails ==
    /\ script.at = "backup" /\ Interruption
    /\ script' = afterFailedBackup
    /\ UNCHANGED <<data, seeder, edits, up, saved, placed, late, resets>>
\* reset-store-data.sql, then the API starts again.
Truncate ==
    /\ script.at = "truncate"
    /\ settings' = [settings EXCEPT !["navigation"] = "none", !["promotion"] = "none"]
    /\ product' = [c \in Catalog |-> noProduct]
    /\ level' = [c \in Catalog |-> Absent]
    /\ imported' = [c \in Catalog |-> 0]
    /\ extra' = 0 /\ epoch' = epoch + 1
    /\ sold' = [o \in Orders |-> Absent]
    /\ Go("seed")
    /\ UNCHANGED <<seeder, edits, up, saved, placed, late, resets, interruptions>>

RunSeed(s) ==
    /\ script.at = "seed" /\ ~Running(s)
    /\ StartSeed(s)
    /\ script' = [script EXCEPT !.at = "seeding", !.seeder = s]
    /\ UNCHANGED <<data, edits, up, saved, placed, late, resets, interruptions>>
SeedEnds ==
    /\ script.at = "seeding" /\ ~Running(script.seeder)
    /\ script' = IF seeder[script.seeder].at = done THEN [script EXCEPT !.at = "validate"] ELSE idle
    /\ seeder' = [seeder EXCEPT ![script.seeder] = off]
    /\ UNCHANGED <<data, edits, up, saved, placed, late, resets, interruptions>>

\* validate-inventory.sql counts; EXPECTED_PRODUCTS and EXPECTED_ZERO_STOCK
\* are those of the file.
complete(c) == /\ product[c].status = "ACTIVE" /\ product[c].related /\ product[c].variant
               /\ level[c] # Absent
inventoryValid ==
    /\ Cardinality({c \in Catalog : product[c].status = "ACTIVE"}) + extra = Cardinality(Catalog)
    /\ Cardinality({c \in Catalog : product[c].variant}) + extra = Cardinality(Catalog)
    /\ Cardinality({c \in Catalog : level[c] # Absent}) + extra = Cardinality(Catalog)
    /\ Cardinality({c \in Catalog : level[c] = 0}) = Cardinality({c \in Catalog : StockOf(c) = 0})
    /\ \A c \in Catalog : product[c].status = "ACTIVE" => product[c].related
Validate ==
    /\ script.at = "validate"
    /\ script' = IF inventoryValid THEN [script EXCEPT !.at = "publish"] ELSE idle
    /\ UNCHANGED <<data, seeder, edits, up, saved, placed, late, resets, interruptions>>

Publish ==
    /\ script.at = "publish"
    /\ up' = TRUE /\ script' = idle
    /\ UNCHANGED <<data, seeder, edits, saved, placed, late, resets, interruptions>>

\* The connection is lost: the seed's container goes on or stops.
Interrupt ==
    /\ script # idle /\ Interruption
    /\ script' = idle
    /\ \/ UNCHANGED seeder
       \/ script.at = "seeding" /\ seeder' = [seeder EXCEPT ![script.seeder] = off]
    /\ UNCHANGED <<data, edits, up, saved, placed, late, resets>>
-----------------------------------------------------------------------------
ScriptStep ==
    \/ Migrate \/ Backup \/ Truncate \/ SeedEnds \/ Validate \/ Publish
    \/ \E s \in Seeders : RunSeed(s)

\* Customers and employees, once the store serves.
Serve ==
    /\ up /\ StoreStep
    /\ placed' = placed \cup current'
    /\ late' = IF script.at = "truncate" THEN late \cup (placed' \ placed) ELSE late
    /\ UNCHANGED <<up, script, saved, resets, interruptions>>

Seeding(s) == SeedStep(s) /\ UNCHANGED control

DeployNext ==
    \/ \E seed, reset \in BOOLEAN : Deploy(seed, reset)
    \/ ScriptStep \/ BackupFails \/ Interrupt
    \/ \E s \in Seeders : Seeding(s)
    \/ Serve

DeploySpec == InitDeployment /\ [][DeployNext]_storeVars

\* The commands of a script and of a seed come to an end, and the store is
\* deployed with its products until it serves.
FairDeploySpec ==
    /\ DeploySpec
    /\ WF_storeVars(ScriptStep) /\ \A s \in Seeders : WF_storeVars(Seeding(s))
    /\ WF_storeVars(~up /\ Deploy(TRUE, FALSE))
-----------------------------------------------------------------------------
(* Properties.                                                             *)

StoreOK ==
    /\ settings \in [Settings -> {"none", "seeded", "edited"}]
    /\ product \in [Catalog -> [status : {"none", "ACTIVE", "ARCHIVED"}, related : BOOLEAN,
                                variant : BOOLEAN, price : {"none", "seeded", "edited"}]]
    /\ level \in [Catalog -> Nat \cup {Absent}] /\ imported \in [Catalog -> Nat]
    /\ extra \in 0..Edits /\ up \in BOOLEAN
    /\ sold \in [Orders -> Catalog \cup {Absent}]
    /\ saved \cup late \subseteq placed /\ placed \subseteq (0..epoch) \X Orders

\* The units of a product are imported once: however often the seed is
\* stopped and run again, two at a time or after sales, what is on the shelf
\* and what was sold make up the file's stock, and the movements say so.
ImportedOnce ==
    \A c \in Catalog :
        /\ imported[c] = IF level[c] = Absent THEN 0 ELSE StockOf(c)
        /\ level[c] # Absent => level[c] + Cardinality({o \in Orders : sold[o] = c}) = StockOf(c)

\* Orders that a reset deletes are in its backup, except those that were
\* placed while it ran.
OldOrdersAreKept == placed \subseteq current \cup saved \cup late

\* Both: deployments that seed and empty the store, in whatever order they stop
\* and are run again, count no unit twice and lose no order but those.
StoreIsKept == ImportedOnce /\ OldOrdersAreKept

\* 'INVENTARIO 3.0 validado correctamente': every product of the file is for
\* sale then, unless employees' own products made up for the number.
ValidatedIsComplete ==
    script.at = "validate" /\ script'.at = "publish" /\ extra = 0 => \A c \in Catalog : complete(c)

Opened == up /\ \A c \in Catalog : product[c].variant /\ level[c] # Absent

\* The store opens, however often its first deployment is interrupted, and
\* with every product of the file.
FirstDeploymentOpens == <>Opened

\* 'creara un respaldo antes de eliminar la informacion anterior': no order
\* is lost.
NothingIsLost == placed \subseteq current \cup saved

\* 'Conserva [...] el contenido visual del sitio, las reglas de precio': a
\* deployment that empties the store leaves what employees set there.
ResetKeepsRules ==
    [][\A setting \in {"content", "policies"} :
         script.at = "seeding" /\ script.reset /\ settings[setting] = "edited" =>
             settings'[setting] = "edited"]_storeVars

\* 'Marca seed para cargar INVENTARIO 3.0': such a deployment is published.
SeededIsPublished ==
    [][script.at = "validate" => script'.at = "validate" \/ script' = [script EXCEPT !.at = "publish"]
                                 \/ interruptions' # interruptions]_storeVars
=============================================================================

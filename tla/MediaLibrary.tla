---------------------------- MODULE MediaLibrary ----------------------------
(***************************************************************************)
(* The images of the visual editor (site-content.service.ts, the library   *)
(* of admin-site-editor.tsx and the bucket of storage.service.ts).  An     *)
(* image takes three calls of the tab: a row and a signed address from the *)
(* API, the file to the bucket, and the completion; the tab may close or a *)
(* call may fail between any two of them.                                  *)
(***************************************************************************)
EXTENDS Integers, FiniteSets

CONSTANTS
    Tabs,       \* open editors
    Files,      \* the images chosen, each uploaded at most once by one tab
    PageSize,   \* 60 in the editor: the images a tab lists
    Archives    \* bound: images archived

MediaAssumption == PageSize \in Nat /\ Archives \in Nat /\ IsFiniteSet(Files)

VARIABLES
    asset,      \* [Files -> status and age of the row of mediaAsset]
    object,     \* the files that are in the bucket
    upload,     \* [Files -> the step of the tab that uploads it]
    listed,     \* [Tabs -> the images its library shows]
    inUse,      \* the images whose address a document contains
    archives    \* how many were archived

mediaVars == <<asset, object, upload, listed, inUse, archives>>

NoRow == [status |-> "NONE", age |-> 0]
Steps == {"NEW", "PRESIGNED", "SENT", "DONE", "FAILED"}

Init ==
    /\ asset = [f \in Files |-> NoRow] /\ object = {}
    /\ upload = [f \in Files |-> "NEW"]
    /\ listed = [t \in Tabs |-> {}]
    /\ inUse = {} /\ archives = 0

Step(f, step) == upload' = [upload EXCEPT ![f] = step]
known == {f \in Files : asset[f].status # "NONE"}

\* presignMedia: the address is signed and a row is made, PENDING.
presignMedia(f) ==
    /\ upload[f] = "NEW"
    /\ asset' = [asset EXCEPT ![f] = [status |-> "PENDING", age |-> Cardinality(known)]]
    /\ Step(f, "PRESIGNED")
    /\ UNCHANGED <<object, listed, inUse, archives>>

\* presignSiteImage: the bucket takes the file for ten minutes.
PutObject(f) ==
    /\ upload[f] = "PRESIGNED"
    /\ object' = object \cup {f} /\ Step(f, "SENT")
    /\ UNCHANGED <<asset, listed, inUse, archives>>

\* What follows an upload the bucket refused, or whose address expired.
refusedUpload_Ignored(f) == Step(f, "SENT")
refusedUpload(f) == Step(f, "FAILED")
RefuseObject(f) ==
    /\ upload[f] = "PRESIGNED" /\ refusedUpload(f)
    /\ UNCHANGED <<asset, object, listed, inUse, archives>>

\* The tab closes, or the call fails before or after it is served.
Abandon(f) ==
    /\ upload[f] \in {"PRESIGNED", "SENT"} /\ Step(f, "FAILED")
    /\ UNCHANGED <<asset, object, listed, inUse, archives>>

\* completeMedia, and the tab that lists the image and, in a field of a
\* document, writes its address there.
completeMedia(t, f) ==
    /\ upload[f] = "SENT" /\ asset[f].status # "ARCHIVED"
    /\ asset' = [asset EXCEPT ![f].status = "READY"]
    /\ Step(f, "DONE")
    /\ listed' = [listed EXCEPT ![t] = @ \cup {f}]
    /\ inUse' \in {inUse, inUse \cup {f}}
    /\ UNCHANGED <<object, archives>>

\* listMedia: the newest images that are ready.
ready == {f \in Files : asset[f].status = "READY"}
listMedia == {f \in ready : Cardinality({g \in ready : asset[g].age > asset[f].age}) < PageSize}
Refresh(t) ==
    /\ listed' = [listed EXCEPT ![t] = listMedia]
    /\ UNCHANGED <<asset, object, upload, inUse, archives>>

\* An image of the library is put into a document.
Pick(t, f) ==
    /\ f \in listed[t] /\ inUse' = inUse \cup {f}
    /\ UNCHANGED <<asset, object, upload, listed, archives>>

\* archiveMedia, and the tab's refreshMedia: the row leaves the library, the
\* object stays in the bucket.
objectsAfterArchive(f) == object
archiveMedia(t, f) ==
    /\ f \in listed[t] /\ archives < Archives
    /\ archives' = archives + 1
    /\ asset' = [asset EXCEPT ![f].status = "ARCHIVED"]
    /\ object' = objectsAfterArchive(f)
    /\ listed' = [listed EXCEPT ![t] = listMedia']
    /\ UNCHANGED <<upload, inUse>>

Next ==
    \/ \E f \in Files :
         \/ presignMedia(f) \/ PutObject(f) \/ RefuseObject(f) \/ Abandon(f)
         \/ \E t \in Tabs : completeMedia(t, f) \/ Pick(t, f) \/ archiveMedia(t, f)
    \/ \E t \in Tabs : Refresh(t)

Spec == Init /\ [][Next]_mediaVars
-----------------------------------------------------------------------------
(* Properties.                                                             *)

\* Every row is in a state of its upload and a library shows no more images
\* than its page has besides those the tab has just uploaded.
TypeOK ==
    /\ \A f \in Files :
         /\ asset[f].status \in {"NONE", "PENDING", "READY", "ARCHIVED"}
         /\ upload[f] \in Steps
         /\ asset[f].status = "NONE" <=> upload[f] = "NEW"
         /\ asset[f].status \in {"READY", "ARCHIVED"} <=> upload[f] = "DONE"
    /\ \A t \in Tabs : listed[t] \subseteq {f \in Files : upload[f] = "DONE"}

\* The address of every image a document uses answers with the image: uploads
\* that fail half-way are never offered, and archiving an image breaks no page
\* that was made with it (uploadMedia, archiveMedia).
UsedImagesExist == inUse \subseteq object
=============================================================================

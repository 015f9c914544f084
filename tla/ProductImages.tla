---------------------------- MODULE ProductImages ----------------------------
(***************************************************************************)
(* The photographs of a product: the windows of the administration where   *)
(* they are uploaded, ordered and removed (ProductImageManager, in         *)
(* ProductEditForm and in ProductImagesForm), and the API that replaces    *)
(* them with what a window sends (AdminService.updateProduct).  The edit   *)
(* window sends the rest of the product too, here one text.                *)
(***************************************************************************)
EXTENDS Integers, Sequences, FiniteSets, SequencesExt

CONSTANTS
    None,
    Windows,       \* one per employee
    MaxImages,     \* images of a product (8)
    AtFirst,       \* how many it has from the start
    Photos,        \* the ids uploaded files may take, greater than those from the start
    Patient,       \* employees leave the images alone while one is uploaded
    MaxSaves,      \* bound: saves
    MaxFailures    \* bound: uploads and saves that fail

ImageRow == [id : Nat, cover : BOOLEAN]
WindowRow == [kind : {"edit", "images"}, images : Seq(ImageRow), text : Int]
ImagesAssumption ==
    /\ MaxImages \in Nat \ {0} /\ AtFirst \in 0 .. MaxImages
    /\ Photos \subseteq Nat /\ (1 .. AtFirst) \cap Photos = {}
    /\ None \notin WindowRow

VARIABLES
    images,        \* the product's, as stored: id and cover
    text,          \* the rest of it
    window,        \* [Windows -> None or what its form holds]
    upload,        \* [Windows -> None or the upload under way]
    request,       \* [Windows -> None or the save under way]
    photos,        \* ids not taken yet
    removed,       \* ghost: [Windows -> the images removed in the window]
    saves, failures

vars == <<images, text, window, upload, request, photos, removed, saves, failures>>

Image(id, cover) == [id |-> id, cover |-> cover]
ids(seq) == {seq[i].id : i \in DOMAIN seq}
without(seq, i) == SubSeq(seq, 1, i - 1) \o SubSeq(seq, i + 1, Len(seq))

\* One cover: the first image that is marked as one, or the first.
normalizeProductImages(seq) ==
    LET marked == {i \in DOMAIN seq : seq[i].cover}
        cover == IF marked = {} THEN 1 ELSE CHOOSE i \in marked : \A j \in marked : i <= j
    IN  [i \in DOMAIN seq |-> Image(seq[i].id, i = cover)]

Init ==
    /\ images = [i \in 1 .. AtFirst |-> Image(i, i = 1)]
    /\ text = 0
    /\ window = [w \in Windows |-> None]
    /\ upload = [w \in Windows |-> None]
    /\ request = [w \in Windows |-> None]
    /\ photos = Photos
    /\ removed = [w \in Windows |-> {}]
    /\ saves = 0 /\ failures = 0

Set(w, seq) == window' = [window EXCEPT ![w].images = seq]
Open(w) == window[w] # None
MayTouch(w) == Open(w) /\ (Patient => upload[w] = None)
-----------------------------------------------------------------------------
(* A window.                                                               *)

OpenWindow(w, kind) ==
    /\ ~Open(w)
    /\ window' = [window EXCEPT ![w] =
          [kind |-> kind, images |-> normalizeProductImages(images), text |-> text]]
    /\ removed' = [removed EXCEPT ![w] = {}]
    /\ UNCHANGED <<images, text, upload, request, photos, saves, failures>>

ChangeText(w) ==
    /\ Open(w) /\ window[w].kind = "edit"
    /\ window' = [window EXCEPT ![w].text = 1 - @]
    /\ UNCHANGED <<images, text, upload, request, photos, removed, saves, failures>>

ToFront(seq, i) == <<seq[i]>> \o without(seq, i)

makePrimary(w, i) ==
    /\ MayTouch(w)
    /\ i \in DOMAIN window[w].images
    /\ ~window[w].images[i].cover
    /\ LET seq == ToFront(window[w].images, i) IN
       Set(w, [j \in DOMAIN seq |-> Image(seq[j].id, j = 1)])
    /\ UNCHANGED <<images, text, upload, request, photos, removed, saves, failures>>

left(seq, i) == normalizeProductImages(without(seq, i))

remove(w, i) ==
    /\ MayTouch(w)
    /\ i \in DOMAIN window[w].images
    /\ Set(w, left(window[w].images, i))
    /\ removed' = [removed EXCEPT ![w] = @ \cup {window[w].images[i].id}]
    /\ UNCHANGED <<images, text, upload, request, photos, saves, failures>>
-----------------------------------------------------------------------------
(* An upload.                                                              *)

availableSlots(seq) == MaxImages - Len(seq)

\* the images an upload's answer is added to: those of the moment it began
base(w) == window[w].images

\* n files are chosen; the rest of them is not taken.
StartUpload(w, n) ==
    /\ Open(w) /\ upload[w] = None
    /\ Len(window[w].images) < MaxImages
    /\ n \in 1 .. availableSlots(window[w].images)
    /\ n <= Cardinality(photos)
    /\ upload' = [upload EXCEPT ![w] = [base |-> base(w), left |-> n, uploaded |-> <<>>]]
    /\ UNCHANGED <<images, text, window, request, photos, removed, saves, failures>>

Added(u) == normalizeProductImages(u.base \o u.uploaded)

\* One file is stored and confirmed, and with the last the images are added.
FileUploaded(w) ==
    /\ upload[w] # None /\ photos # {}
    /\ LET id == CHOOSE p \in photos : \A q \in photos : p <= q
           u == [upload[w] EXCEPT !.left = @ - 1,
                   !.uploaded = Append(@, Image(id, upload[w].base = <<>> /\ @ = <<>>))]
       IN  /\ photos' = photos \ {id}
           /\ IF u.left = 0
              THEN Set(w, Added(u)) /\ upload' = [upload EXCEPT ![w] = None]
              ELSE upload' = [upload EXCEPT ![w] = u] /\ UNCHANGED window
    /\ UNCHANGED <<images, text, request, removed, saves, failures>>

\* A file fails: those before it are added, and the rest is not tried.
UploadFails(w) ==
    /\ upload[w] # None
    /\ failures < MaxFailures
    /\ failures' = failures + 1
    /\ IF upload[w].uploaded # <<>> THEN Set(w, Added(upload[w])) ELSE UNCHANGED window
    /\ upload' = [upload EXCEPT ![w] = None]
    /\ UNCHANGED <<images, text, request, photos, removed, saves>>
-----------------------------------------------------------------------------
(* A save.                                                                 *)

submit(w) ==
    /\ Open(w) /\ request[w] = None
    /\ saves < MaxSaves
    /\ saves' = saves + 1
    /\ request' = [request EXCEPT ![w] = window[w]]
    /\ UNCHANGED <<images, text, window, upload, photos, removed, failures>>

\* The API replaces what the request names; the window closes with the answer.
updateProduct(w) ==
    /\ request[w] # None
    /\ images' = request[w].images
    /\ text' = IF request[w].kind = "edit" THEN request[w].text ELSE text
    /\ request' = [request EXCEPT ![w] = None]
    /\ window' = [window EXCEPT ![w] = None]
    /\ upload' = [upload EXCEPT ![w] = None]
    /\ removed' = [removed EXCEPT ![w] = {}]
    /\ UNCHANGED <<photos, saves, failures>>

\* The save fails, with or without having been done.
SaveFails(w) ==
    /\ request[w] # None
    /\ failures < MaxFailures
    /\ failures' = failures + 1
    /\ \/ images' = request[w].images /\ text' = IF request[w].kind = "edit" THEN request[w].text ELSE text
       \/ UNCHANGED <<images, text>>
    /\ request' = [request EXCEPT ![w] = None]
    /\ UNCHANGED <<window, upload, photos, removed, saves>>

Next ==
    \E w \in Windows :
        \/ \E kind \in {"edit", "images"} : OpenWindow(w, kind)
        \/ ChangeText(w)
        \/ \E i \in 1 .. MaxImages : makePrimary(w, i) \/ remove(w, i)
        \/ \E n \in 1 .. MaxImages : StartUpload(w, n)
        \/ FileUploaded(w)
        \/ UploadFails(w)
        \/ submit(w)
        \/ updateProduct(w)
        \/ SaveFails(w)

Spec == Init /\ [][Next]_vars
-----------------------------------------------------------------------------
(* Properties.                                                             *)

AllLists == {images} \cup {window[w].images : w \in {v \in Windows : Open(v)}}

\* The type of the state; an image is in a list once.
TypeOK ==
    /\ \A seq \in AllLists :
          /\ \A i \in DOMAIN seq : seq[i].id \in Nat /\ seq[i].cover \in BOOLEAN
          /\ Cardinality(ids(seq)) = Len(seq)
    /\ text \in {0, 1}
    /\ \A w \in Windows : Open(w) => window[w].kind \in {"edit", "images"}
    /\ \A w \in Windows : upload[w] # None => Open(w)
    /\ photos \subseteq Photos

\* A product has at most eight images, stored or in a form, whatever is uploaded while
\* others are removed, fails half way, or is saved by another employee.
AtMostEight == \A seq \in AllLists : Len(seq) <= MaxImages

\* A product with images has one cover, and it is the first.
CoverIsFirst == \A seq \in AllLists : \A i \in DOMAIN seq : seq[i].cover <=> i = 1

\* An image removed in a window does not come back in it.
RemovedStaysRemoved ==
    \A w \in Windows : Open(w) => removed[w] \cap ids(window[w].images) = {}
=============================================================================

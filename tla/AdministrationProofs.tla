------------------------ MODULE AdministrationProofs ------------------------
(***************************************************************************)
(* What holds of the administration, page by page with the handlers of the *)
(* API behind it, for every instance: of the visual editor of the site, of *)
(* its images, of the form of a new product, of the bell with the new      *)
(* orders and of the alerts of low stock, a part for each; no part uses    *)
(* another.                                                                *)
(***************************************************************************)
EXTENDS SiteContent, FiniteSetTheorems, TLAPS

CONSTANTS
    None,
    Tabs, Files, PageSize, Archives,                                \* images
    Employees, Skus, Slugs, Names, Taken, Before,                   \* new products
    MaxTyped, MaxSubmits, MaxLost,
    Orders, Slots, MaxChanges, MaxFailures, MaxReloads, MaxMarkAll, \* the bell
    Replicas, Levels, Alerts, Most, Threshold, Limit, Days,         \* alerts
    Changes, Failures
VARIABLES
    asset, object, upload, listed, inUse, archives,
    products, creations, entries, sku, slug, skuCheck, timeout, queries, saving,
    closed, creating, typed, submits, lost,
    quote, row, feed, firstLoad, notified, polls, marks, announced, count,
    stock, alert, sent, scan, day, changes, failures

Library == INSTANCE MediaLibrary
Form == INSTANCE NewProduct WITH requests <- creations
Bell == INSTANCE AdminNotifications
Low == INSTANCE InventoryAlerts

\* The parts count as this module does.
LEMMA TheyCount ==
    ASSUME NEW S
    PROVE  /\ Library!IsFiniteSet(S) <=> IsFiniteSet(S)
           /\ Library!Cardinality(S) = Cardinality(S)
           /\ Form!Cardinality(S) = Cardinality(S)
           /\ Low!Cardinality(S) = Cardinality(S)
<1>1. Library!IsFiniteSet(S) <=> IsFiniteSet(S)
  BY Zenon DEF Library!IsFiniteSet, IsFiniteSet
<1>2. Library!Cardinality(S) = Cardinality(S)
  BY Zenon DEF Library!Cardinality, Cardinality
<1>3. Form!Cardinality(S) = Cardinality(S)
  BY Zenon DEF Form!Cardinality, Cardinality
<1>4. Low!Cardinality(S) = Cardinality(S)
  BY Zenon DEF Low!Cardinality, Cardinality
<1> QED
  BY <1>1, <1>2, <1>3, <1>4
-----------------------------------------------------------------------------
(***************************************************************************)
(* The site's content, for every number of editors, edits and faults: the  *)
(* history of what was published is complete, nothing half typed is stored *)
(* and the store shows no draft.                                           *)
(*                                                                         *)
(* A publication reads the draft and its version and writes later: what it *)
(* read was accepted when it was stored, and its version is the present    *)
(* one when it writes, so that its revision is a new one.                  *)
(***************************************************************************)

IsCall(c) == c = [from |-> c.from, kind |-> c.kind, doc |-> c.doc, version |-> c.version]
IsRow == site = [draft |-> site.draft, published |-> site.published,
                 version |-> site.version]

\* VersionsAreComplete, with the first version, which has no revision.
HistoryInv ==
    /\ IsRow /\ site.version \in Nat \ {0} /\ IsFiniteSet(revisions)
    /\ VersionsAreComplete
    /\ site.version = 1 => site.published = DEFAULT_SITE_CONTENT
PublishingSays == \A c \in requests : IsCall(c) /\ (c.kind = "PUBLISHING" => Half \notin c.doc)
ContentInv == HistoryInv /\ PublishingSays /\ NothingUnfinished /\ ShopShowsPublished
-----------------------------------------------------------------------------
\* The rows that are sent, field by field.
sentCall(ed, kind, doc, n) == [from |-> ed, kind |-> kind, doc |-> doc, version |-> n]

LEMMA SentIsCall ==
    ASSUME NEW ed, NEW kind, NEW doc, NEW n
    PROVE  IsCall(sentCall(ed, kind, doc, n)) /\ sentCall(ed, kind, doc, n).kind = kind
           /\ sentCall(ed, kind, doc, n).doc = doc
BY DEF IsCall, sentCall

LEMMA SendsCall ==
    ASSUME NEW ed, NEW kind, NEW doc, kind # "PUBLISHING",
           NEW n, requests' = requests \cup {sentCall(ed, kind, doc, n)}
    PROVE  \A c \in requests' : c \in requests \/ (IsCall(c) /\ c.kind # "PUBLISHING")
BY SentIsCall

\* What was published is what the store shows first or has a revision.
LEMMA PublishedHasRevision ==
    ASSUME HistoryInv
    PROVE  site.published \in {DEFAULT_SITE_CONTENT} \cup {r.content : r \in revisions}
<1>1. CASE site.version = 1
  BY <1>1 DEF HistoryInv
<1>2. CASE site.version # 1
  <2>1. site.version \in 2 .. site.version
    BY <1>2 DEF HistoryInv
  <2>2. PICK r \in revisions : r.version = site.version
    BY <2>1 DEF HistoryInv, VersionsAreComplete
  <2> QED
    BY <2>2 DEF HistoryInv, VersionsAreComplete
<1> QED
  BY <1>1, <1>2

\* A step of the editors, the network or the store front: no sentCall of the server
\* changes, and the calls that are sent begin no publication.
Quiet ==
    /\ UNCHANGED <<site, revisions>>
    /\ \A c \in requests' : c \in requests \/ (IsCall(c) /\ c.kind # "PUBLISHING")
    /\ shop' \in {shop, site.published, DEFAULT_SITE_CONTENT}

LEMMA QuietKeeps ==
    ASSUME ContentInv, Quiet
    PROVE  ContentInv'
<1>1. HistoryInv' /\ NothingUnfinished'
  BY DEF ContentInv, HistoryInv, VersionsAreComplete, IsRow, NothingUnfinished, Quiet
<1>2. PublishingSays'
  BY DEF ContentInv, PublishingSays, Quiet
<1>3. ShopShowsPublished'
  BY PublishedHasRevision DEF ContentInv, ShopShowsPublished, Quiet
<1> QED
  BY <1>1, <1>2, <1>3 DEF ContentInv

LEMMA LoadIsQuiet ==
    ASSUME NEW ed, load(ed)
    PROVE  \A c \in requests' : c \in requests \/ (IsCall(c) /\ c.kind # "PUBLISHING")
<1>1. PICK n : Send([call(ed, "LOAD", {}) EXCEPT !.version = n])
  BY DEF load
<1>2. requests' = requests \cup {sentCall(ed, "LOAD", {}, n)}
  BY <1>1 DEF Send, call, sentCall
<1> QED
  BY <1>2, SendsCall

LEMMA SendIsQuiet ==
    ASSUME NEW ed, NEW kind, NEW doc, kind # "PUBLISHING", Send(call(ed, kind, doc))
    PROVE  \A c \in requests' : c \in requests \/ (IsCall(c) /\ c.kind # "PUBLISHING")
<1>1. requests' = requests \cup {sentCall(ed, kind, doc, 0)}
  BY DEF Send, call, sentCall
<1> QED
  BY <1>1, SendsCall

\* What a tab does of its own accord.
LEMMA EditorIsQuiet ==
    ASSUME NEW ed \in Editors,
           \/ BeginTyping(ed) \/ \E e \in Edits : Edit(ed, e)
           \/ Autosave(ed) \/ PressSave(ed) \/ PressPublish(ed)
           \/ RenderWorkspace(ed) \/ Reopen(ed)
    PROVE  Quiet
<1>1. CASE BeginTyping(ed) \/ \E e \in Edits : Edit(ed, e)
  BY <1>1 DEF BeginTyping, Edit, change, Quiet
<1>2. CASE Autosave(ed)
  <2>1. Send(call(ed, "SAVE", editor[ed].content)) /\ UNCHANGED <<site, revisions, shop>>
    BY <1>2 DEF Autosave, saveDraft
  <2> QED
    BY <2>1, SendIsQuiet DEF Quiet
<1>3. CASE PressSave(ed)
  <2>1. Send(call(ed, "PRESS", editor[ed].content)) /\ UNCHANGED <<site, revisions, shop>>
    BY <1>3 DEF PressSave, saveDraft
  <2> QED
    BY <2>1, SendIsQuiet DEF Quiet
<1>4. CASE PressPublish(ed)
  <2>1. Send(call(ed, "PUT", editor[ed].content)) /\ UNCHANGED <<site, revisions, shop>>
    BY <1>4 DEF PressPublish
  <2> QED
    BY <2>1, SendIsQuiet DEF Quiet
<1>5. CASE RenderWorkspace(ed) \/ Reopen(ed)
  BY <1>5, LoadIsQuiet DEF RenderWorkspace, Reopen, Quiet
<1> QED
  BY <1>1, <1>2, <1>3, <1>4, <1>5

\* What a tab does with an answer.
LEMMA ReceiveIsQuiet ==
    ASSUME NEW a \in answers, Receive(a)
    PROVE  Quiet
<1>1. UNCHANGED <<site, revisions, shop>>
  BY DEF Receive
<1>2. CASE ReceiveSave(a)
  <2>1. UNCHANGED requests \/ load(a.from)
    BY <1>2 DEF ReceiveSave
  <2> QED
    BY <1>1, <2>1, LoadIsQuiet DEF Quiet
<1>3. CASE ReceivePut(a)
  <2>1. Send(call(a.from, "PUBLISH", {}))
    BY <1>3 DEF ReceivePut
  <2> QED
    BY <1>1, <2>1, SendIsQuiet DEF Quiet
<1>4. CASE ReceivePublish(a)
  BY <1>1, <1>4, LoadIsQuiet DEF ReceivePublish, Quiet
<1>5. CASE ReceiveLoad(a)
  <2>1. CASE UNCHANGED requests
    BY <1>1, <2>1 DEF Quiet
  <2>2. CASE Send([call(a.from, "LOAD", {}) EXCEPT !.version = a.version])
    <3>1. requests' = requests \cup {sentCall(a.from, "LOAD", {}, a.version)}
      BY <2>2 DEF Send, call, sentCall
    <3> QED
      BY <1>1, <3>1, SendsCall DEF Quiet
  <2> QED
    BY <1>5, <2>1, <2>2 DEF ReceiveLoad
<1> QED
  BY <1>2, <1>3, <1>4, <1>5 DEF Receive
-----------------------------------------------------------------------------
(* The server.                                                             *)

LEMMA DraftKeeps ==
    ASSUME ContentInv, NEW c \in requests, ServeDraft(c)
    PROVE  ContentInv'
<1>1. /\ UNCHANGED <<revisions, shop>> /\ requests' = requests \ {c}
      /\ \/ site' = site
         \/ site' = [site EXCEPT !.draft = c.doc] /\ Half \notin c.doc
  BY DEF ServeDraft, validateSiteContent
<1>2. CASE site' = site
  BY <1>1, <1>2, QuietKeeps DEF Quiet
<1>3. CASE site' = [site EXCEPT !.draft = c.doc] /\ Half \notin c.doc
  <2>1. site' = [draft |-> c.doc, published |-> site.published, version |-> site.version]
    BY <1>3 DEF ContentInv, HistoryInv, IsRow
  <2>2. HistoryInv' /\ NothingUnfinished'
    BY <1>1, <1>3, <2>1 DEF ContentInv, HistoryInv, VersionsAreComplete, IsRow, NothingUnfinished
  <2>3. PublishingSays' /\ ShopShowsPublished'
    BY <1>1 DEF ContentInv, PublishingSays, ShopShowsPublished
  <2> QED
    BY <2>2, <2>3 DEF ContentInv
<1> QED
  BY <1>1, <1>2, <1>3

LEMMA ReadKeeps ==
    ASSUME ContentInv, NEW c \in requests, ReadForPublish(c)
    PROVE  ContentInv'
<1> DEFINE d == [c EXCEPT !.kind = "PUBLISHING", !.doc = site.draft, !.version = site.version]
<1>1. d = sentCall(c.from, "PUBLISHING", site.draft, site.version)
  <2>1. c \in [from : {c.from}, kind : {c.kind}, doc : {c.doc}, version : {c.version}]
    BY DEF ContentInv, PublishingSays, IsCall
  <2>2. d \in [from : {c.from}, kind : {"PUBLISHING"}, doc : {site.draft},
               version : {site.version}]
    BY <2>1
  <2> HIDE DEF d
  <2> QED
    BY <2>2 DEF sentCall
<1>2. /\ UNCHANGED <<site, revisions, shop>>
      /\ requests' = (requests \ {c}) \cup {d}
  BY DEF ReadForPublish
<1> HIDE DEF d
<1>3. IsCall(d) /\ Half \notin d.doc
  BY <1>1, SentIsCall DEF ContentInv, NothingUnfinished
<1> HIDE DEF d
<1>4. PublishingSays'
  BY <1>2, <1>3 DEF ContentInv, PublishingSays
<1>5. HistoryInv' /\ NothingUnfinished' /\ ShopShowsPublished'
  BY <1>2 DEF ContentInv, HistoryInv, VersionsAreComplete, IsRow, NothingUnfinished,
              ShopShowsPublished
<1> QED
  BY <1>4, <1>5 DEF ContentInv

\* The revision that is added has a version of its own, the next one.
LEMMA PublishKeeps ==
    ASSUME ContentInv, NEW c \in requests, WritePublish(c), sameVersion(c)
    PROVE  ContentInv'
<1> DEFINE n == site.version
           r == [version |-> n + 1, content |-> c.doc]
<1>1. /\ n \in Nat \ {0} /\ IsFiniteSet(revisions) /\ Cardinality(revisions) = n - 1
      /\ {x.version : x \in revisions} = 2 .. n
  BY DEF ContentInv, HistoryInv, VersionsAreComplete
<1>2. /\ requests' = requests \ {c} /\ UNCHANGED shop
      /\ site' = [site EXCEPT !.published = c.doc, !.version = n + 1]
      /\ revisions' = revisions \cup {r}
  BY DEF WritePublish, sameVersion, Answer
<1>3. /\ site'.published = c.doc /\ site'.version = n + 1 /\ site'.draft = site.draft
      /\ IsRow'
  BY <1>2 DEF ContentInv, HistoryInv, IsRow
<1>4. r.version = n + 1 /\ r.content = c.doc
  OBVIOUS
<1> HIDE DEF n, r
<1>5. \A x \in revisions : x.version \in 2 .. n
  BY <1>1
<1>6. r \notin revisions
  BY <1>1, <1>4, <1>5
<1>7. IsFiniteSet(revisions') /\ Cardinality(revisions') = n
  <2>1. IsFiniteSet(revisions') /\ Cardinality(revisions') = Cardinality(revisions) + 1
    BY <1>1, <1>2, <1>6, FS_AddElement
  <2> QED
    BY <1>1, <2>1
<1>8. {x.version : x \in revisions'} = 2 .. n + 1
  <2>1. {x.version : x \in revisions'} = (2 .. n) \cup {n + 1}
    BY <1>1, <1>2, <1>4
  <2> QED
    BY <1>1, <2>1
<1>9. \A x \in revisions' : x.version = n + 1 => x.content = c.doc
  BY <1>1, <1>2, <1>4, <1>5
<1>10. HistoryInv'
  <2>1. VersionsAreComplete'
    BY <1>1, <1>3, <1>7, <1>8, <1>9 DEF VersionsAreComplete
  <2> QED
    BY <1>1, <1>3, <1>7, <2>1 DEF HistoryInv
<1>11. PublishingSays'
  BY <1>2 DEF ContentInv, PublishingSays
<1>12. NothingUnfinished'
  <2>1. Half \notin c.doc
    BY DEF WritePublish, ContentInv, PublishingSays
  <2> QED
    BY <1>3, <2>1 DEF ContentInv, NothingUnfinished
<1>13. ShopShowsPublished'
  BY <1>2 DEF ContentInv, ShopShowsPublished
<1> QED
  BY <1>10, <1>11, <1>12, <1>13 DEF ContentInv
-----------------------------------------------------------------------------
(* Every behaviour.                                                        *)

LEMMA ContentStarts == ASSUME SiteContentAssumption, Init PROVE ContentInv
<1>1. /\ site.draft = {} /\ site.published = {} /\ site.version = 1 /\ IsRow
      /\ revisions = {} /\ requests = {} /\ shop = {}
  BY DEF Init, IsRow, DEFAULT_SITE_CONTENT
<1>2. IsFiniteSet(revisions) /\ Cardinality(revisions) = 0
  BY <1>1, FS_EmptySet
<1>3. VersionsAreComplete
  BY <1>1, <1>2 DEF VersionsAreComplete
<1> QED
  BY <1>1, <1>2, <1>3 DEF ContentInv, HistoryInv, PublishingSays, NothingUnfinished,
                          ShopShowsPublished, DEFAULT_SITE_CONTENT

LEMMA ContentKeeps == ContentInv /\ [Next]_contentVars => ContentInv'
<1> SUFFICES ASSUME ContentInv, [Next]_contentVars PROVE ContentInv'
  OBVIOUS
<1>1. ASSUME NEW ed \in Editors,
             \/ BeginTyping(ed) \/ \E e \in Edits : Edit(ed, e)
             \/ Autosave(ed) \/ PressSave(ed) \/ PressPublish(ed)
             \/ RenderWorkspace(ed) \/ Reopen(ed)
      PROVE  ContentInv'
  BY <1>1, EditorIsQuiet, QuietKeeps
<1>2. ASSUME NEW c \in requests, Serve(c) PROVE ContentInv'
  <2>1. CASE ServeLoad(c)
    BY <2>1, QuietKeeps DEF ServeLoad, Quiet
  <2>2. CASE WritePublish(c) /\ ~sameVersion(c)
    BY <2>2, QuietKeeps DEF WritePublish, Answer, Quiet
  <2> QED
    BY <1>2, <2>1, <2>2, DraftKeeps, ReadKeeps, PublishKeeps DEF Serve
<1>3. ASSUME NEW c \in requests, Fail(c) PROVE ContentInv'
  BY <1>3, QuietKeeps DEF Fail, Answer, Quiet
<1>4. ASSUME NEW a \in answers, Receive(a) PROVE ContentInv'
  BY <1>4, ReceiveIsQuiet, QuietKeeps
<1>5. ASSUME NEW a \in answers, LoseAnswer(a) PROVE ContentInv'
  BY <1>5, QuietKeeps DEF LoseAnswer, Quiet
<1>6. CASE Render \/ RenderDefaults
  BY <1>6, QuietKeeps DEF Render, RenderDefaults, getPublished, Quiet
<1>7. CASE UNCHANGED contentVars
  BY <1>7, QuietKeeps DEF contentVars, Quiet
<1> QED
  BY <1>1, <1>2, <1>3, <1>4, <1>5, <1>6, <1>7 DEF Next

\* Whoever publishes at the same moment: every version has its revision and the
\* last one is what is published; nothing half typed is stored or published, and
\* the store shows what was published once, never a draft.
THEOREM HistoryStaysComplete == ASSUME SiteContentAssumption PROVE Spec => []HistoryIsComplete
<1>1. ContentInv => HistoryIsComplete
  BY DEF ContentInv, HistoryInv, HistoryIsComplete
<1> QED
  BY <1>1, ContentStarts, ContentKeeps, PTL DEF Spec
-----------------------------------------------------------------------------
(***************************************************************************)
(* The images of the visual editors (MediaLibrary): a document takes only  *)
(* images that a library lists, and a library lists only images whose      *)
(* upload was completed.                                                   *)
(***************************************************************************)

InBucket == {f \in Files : upload[f] \in {"SENT", "DONE"}}
Completed == {f \in Files : upload[f] = "DONE"}
AssetRow == [status : {"NONE", "PENDING", "READY", "ARCHIVED"}, age : Nat]

\* What makes it inductive: a document takes only images of a library, a library only
\* images whose upload was completed, and these are in the bucket.
MediaInv ==
    /\ upload \in [Files -> Library!Steps] /\ InBucket \subseteq object
    /\ asset \in [Files -> AssetRow]
    /\ \A f \in Files : /\ asset[f].status = "NONE" <=> upload[f] = "NEW"
                        /\ asset[f].status \in {"READY", "ARCHIVED"} <=> upload[f] = "DONE"
    /\ listed \in [Tabs -> SUBSET Completed]
    /\ inUse \subseteq Completed

LEMMA MediaInit == ASSUME Library!Init PROVE MediaInv
BY DEF Library!Init, MediaInv, Library!NoRow, Library!Steps, InBucket, Completed, AssetRow

LEMMA ListsCompleted == ASSUME MediaInv PROVE Library!listMedia \subseteq Completed
BY DEF MediaInv, Library!listMedia, Library!ready, Completed, AssetRow

LEMMA MediaStep ==
    ASSUME Library!MediaAssumption, MediaInv, [Library!Next]_Library!mediaVars
    PROVE  MediaInv'
<1>1. ASSUME NEW f \in Files, Library!presignMedia(f) PROVE MediaInv'
  <2>1. Cardinality(Library!known) \in Nat
    BY FS_Subset, FS_CardinalityType, TheyCount DEF Library!known, Library!MediaAssumption
  <2>2. PICK kept \in AssetRow : /\ kept.status = "PENDING"
                                /\ asset' = [asset EXCEPT ![f] = kept]
    BY <1>1, <2>1, TheyCount DEF Library!presignMedia, AssetRow
  <2>3. upload' = [upload EXCEPT ![f] = "PRESIGNED"] /\ UNCHANGED <<object, listed, inUse>>
        /\ upload[f] = "NEW"
    BY <1>1 DEF Library!presignMedia, Library!Step
  <2>4. Completed' = Completed /\ InBucket' = InBucket
    BY <2>3 DEF MediaInv, Completed, InBucket
  <2> QED
    BY <2>2, <2>3, <2>4 DEF MediaInv, Library!Steps
<1>2. ASSUME NEW f \in Files, Library!PutObject(f) PROVE MediaInv'
  <2>1. /\ upload' = [upload EXCEPT ![f] = "SENT"] /\ upload[f] = "PRESIGNED"
        /\ object' = object \cup {f} /\ UNCHANGED <<asset, listed, inUse>>
    BY <1>2 DEF Library!PutObject, Library!Step
  <2>2. Completed' = Completed /\ InBucket' = InBucket \cup {f}
    BY <2>1 DEF MediaInv, Completed, InBucket
  <2> QED
    BY <2>1, <2>2 DEF MediaInv, Library!Steps
<1>3. ASSUME NEW f \in Files, Library!RefuseObject(f) \/ Library!Abandon(f) PROVE MediaInv'
  <2>1. /\ upload' = [upload EXCEPT ![f] = "FAILED"] /\ upload[f] \in {"PRESIGNED", "SENT"}
        /\ UNCHANGED <<asset, object, listed, inUse>>
    BY <1>3 DEF Library!RefuseObject, Library!refusedUpload, Library!Abandon, Library!Step
  <2>2. Completed' = Completed /\ InBucket' \subseteq InBucket
    BY <2>1 DEF MediaInv, Completed, InBucket
  <2> QED
    BY <2>1, <2>2 DEF MediaInv, Library!Steps
<1>4. ASSUME NEW t \in Tabs, NEW f \in Files, Library!completeMedia(t, f) PROVE MediaInv'
  <2>1. /\ upload' = [upload EXCEPT ![f] = "DONE"] /\ upload[f] = "SENT"
        /\ asset' = [asset EXCEPT ![f].status = "READY"]
        /\ listed' = [listed EXCEPT ![t] = @ \cup {f}] /\ inUse' \subseteq inUse \cup {f}
        /\ UNCHANGED object
    BY <1>4 DEF Library!completeMedia, Library!Step
  <2>2. Completed' = Completed \cup {f} /\ InBucket' = InBucket
    BY <2>1 DEF MediaInv, Completed, InBucket
  <2>3. asset' \in [Files -> AssetRow]
        /\ \A g \in Files : asset'[g].status = IF g = f THEN "READY" ELSE asset[g].status
    BY <2>1 DEF MediaInv, AssetRow
  <2> QED
    BY <2>1, <2>2, <2>3 DEF MediaInv, Library!Steps
<1>5. ASSUME NEW t \in Tabs, NEW f \in Files, Library!Pick(t, f) PROVE MediaInv'
  <2>1. f \in Completed /\ inUse' = inUse \cup {f} /\ UNCHANGED <<asset, object, upload, listed>>
    BY <1>5 DEF Library!Pick, MediaInv
  <2> QED
    BY <2>1 DEF MediaInv, Completed, InBucket
<1>6. ASSUME NEW t \in Tabs, NEW f \in Files, Library!archiveMedia(t, f) PROVE MediaInv'
  <2>1. /\ f \in Completed /\ asset' = [asset EXCEPT ![f].status = "ARCHIVED"]
        /\ listed' = [listed EXCEPT ![t] = Library!listMedia']
        /\ UNCHANGED <<object, upload, inUse>>
    BY <1>6 DEF Library!archiveMedia, Library!objectsAfterArchive, MediaInv
  <2>2. Completed' = Completed /\ InBucket' = InBucket
    BY <2>1 DEF Completed, InBucket
  <2>3. asset' \in [Files -> AssetRow]
        /\ \A g \in Files : asset'[g].status = IF g = f THEN "ARCHIVED" ELSE asset[g].status
    BY <2>1 DEF MediaInv, AssetRow
  <2>4. \A g \in Files : /\ asset'[g].status = "NONE" <=> upload'[g] = "NEW"
                         /\ asset'[g].status \in {"READY", "ARCHIVED"} <=> upload'[g] = "DONE"
    BY <2>1, <2>3 DEF MediaInv, Completed
  <2>5. Library!listMedia' \subseteq Completed
    BY <2>2, <2>4 DEF Library!listMedia, Library!ready, Completed
  <2>6. listed' \in [Tabs -> SUBSET Completed]
    BY <2>1, <2>5 DEF MediaInv
  <2> QED
    BY <2>1, <2>2, <2>3, <2>4, <2>6 DEF MediaInv
<1>7. ASSUME NEW t \in Tabs, Library!Refresh(t) PROVE MediaInv'
  <2>1. listed' = [listed EXCEPT ![t] = Library!listMedia]
        /\ UNCHANGED <<asset, object, upload, inUse>>
    BY <1>7 DEF Library!Refresh
  <2> QED
    BY <2>1, ListsCompleted DEF MediaInv, Completed, InBucket
<1>8. CASE UNCHANGED Library!mediaVars
  BY <1>8 DEF Library!mediaVars, MediaInv, Completed, InBucket
<1> QED
  BY <1>1, <1>2, <1>3, <1>4, <1>5, <1>6, <1>7, <1>8 DEF Library!Next

\* An image that a document shows is in the bucket, for any number of editors and images,
\* uploads that are refused or given up and images that are archived meanwhile.
THEOREM UsedImagesAreStored ==
    ASSUME Library!MediaAssumption
    PROVE  Library!Spec => [](Library!TypeOK /\ Library!UsedImagesExist)
<1>1. MediaInv => Library!UsedImagesExist
  BY DEF MediaInv, Library!UsedImagesExist, Completed, InBucket
<1>2. MediaInv => Library!TypeOK
  BY DEF MediaInv, Library!TypeOK, AssetRow, Completed
<1> QED
  BY <1>1, <1>2, MediaInit, MediaStep, PTL DEF Library!Spec
-----------------------------------------------------------------------------
(***************************************************************************)
(* The form of a new product (NewProduct), for every number of employees,  *)
(* SKUs and slugs. The checks of a request may be old when it writes; the  *)
(* unique SKU and slug decide then.                                        *)
(***************************************************************************)

Question == [sku : Skus, said : {None, "available", "conflict"}]

\* What makes the properties inductive: each form sends the slug it was opened with, and
\* what is asked of a SKU is asked of one that can be sold.
ProductInv ==
    /\ products \subseteq Form!Product /\ creations \subseteq Form!Request
    /\ entries \in [Names -> {"none", "created", "audited"}]
    /\ sku \in [Employees -> Form!AnySku] /\ slug \in [Employees -> Slugs]
    /\ skuCheck \in [Employees -> {"idle", "checking", "available", "conflict", "invalid"}]
    /\ timeout \in [Employees -> Skus \cup {None}]
    /\ queries \in [Employees -> SUBSET Question]
    /\ saving \in [Employees -> Nat \cup {None}] /\ submits \in [Employees -> Nat]
    /\ Form!NeverOverwritten /\ Form!CheckingEnds
    /\ \A p \in products : p.by \in Employees => p.slug = slug[p.by]
    /\ \A r \in creations : r.slug = slug[r.by]

LEMMA ProductInit == ASSUME Form!NewProductAssumption, Form!Init PROVE ProductInv
<1>1. products \subseteq Form!Product
  BY DEF Form!Init, Form!Product, Form!NewProductAssumption
<1>2. Form!NeverOverwritten
  <2>1. SUFFICES ASSUME NEW p \in products, NEW q \in products, p.sku = q.sku \/ p.slug = q.slug
                 PROVE  p = q
    BY DEF Form!NeverOverwritten
  <2>2. PICK s \in Taken : p = [by |-> None, n |-> 0, sku |-> s, slug |-> Before[s]]
    BY DEF Form!Init
  <2>3. PICK t \in Taken : q = [by |-> None, n |-> 0, sku |-> t, slug |-> Before[t]]
    BY DEF Form!Init
  <2> QED
    BY <2>1, <2>2, <2>3 DEF Form!NewProductAssumption
<1>3. \A p \in products : p.by \notin Employees
  BY DEF Form!Init, Form!NewProductAssumption
<1>4. Form!CheckingEnds
  BY DEF Form!Init, Form!CheckingEnds
<1> QED
  BY <1>1, <1>2, <1>3, <1>4 DEF Form!Init, ProductInv, Form!AnySku

\* The label and its questions.
LEMMA LabelStep ==
    ASSUME Form!NewProductAssumption, ProductInv, NEW e \in Employees,
           \/ \E s \in Form!AnySku : Form!TypeSku(e, s)
           \/ Form!AskSku(e)
           \/ \E q \in queries[e] :
                Form!skuAvailability(e, q) \/ Form!SkuAnswered(e, q) \/ Form!SkuFailed(e, q)
    PROVE  ProductInv'
<1>0. UNCHANGED <<products, creations, entries, slug, saving, submits>>
  BY DEF Form!TypeSku, Form!AskSku, Form!skuAvailability, Form!SkuAnswered, Form!SkuFailed
<1>1. /\ sku' \in [Employees -> Form!AnySku]
      /\ skuCheck' \in [Employees -> {"idle", "checking", "available", "conflict", "invalid"}]
      /\ timeout' \in [Employees -> Skus \cup {None}]
      /\ queries' \in [Employees -> SUBSET Question]
      /\ Form!CheckingEnds'
  <2>1. ASSUME NEW s \in Form!AnySku, Form!TypeSku(e, s) PROVE <1>1!:
    BY <2>1 DEF Form!TypeSku, Form!labelled, ProductInv, Form!CheckingEnds, Form!AnySku,
        Form!Blank, Form!Bad, Form!NewProductAssumption
  <2>2. CASE Form!AskSku(e)
    <3>1. PICK q : q = [sku |-> timeout[e], said |-> None]
      OBVIOUS
    <3>2. /\ UNCHANGED <<sku, skuCheck>> /\ timeout' = [timeout EXCEPT ![e] = None]
          /\ queries' = [queries EXCEPT ![e] = @ \cup {q}] /\ timeout[e] # None
      BY <2>2, <3>1 DEF Form!AskSku
    <3>3. q \in Question
      BY <3>1, <3>2 DEF ProductInv, Question
    <3> QED
      BY <3>2, <3>3 DEF ProductInv, Form!CheckingEnds
  <2>3. ASSUME NEW q \in queries[e], Form!skuAvailability(e, q) PROVE <1>1!:
    <3>1. PICK a \in {[q EXCEPT !.said = said] : said \in {"available", "conflict"}} :
            /\ queries' = [queries EXCEPT ![e] = (@ \ {q}) \cup {a}]
            /\ UNCHANGED <<sku, skuCheck, timeout>>
      BY <2>3 DEF Form!skuAvailability
    <3>2. a \in Question
      BY <3>1 DEF ProductInv, Question
    <3> QED
      BY <3>1, <3>2 DEF ProductInv, Form!CheckingEnds
  <2>4. ASSUME NEW q \in queries[e], Form!SkuAnswered(e, q) PROVE <1>1!:
    BY <2>4 DEF Form!SkuAnswered, ProductInv, Form!CheckingEnds, Question
  <2>5. ASSUME NEW q \in queries[e], Form!SkuFailed(e, q) PROVE <1>1!:
    BY <2>5 DEF Form!SkuFailed, ProductInv, Form!CheckingEnds, Question
  <2> QED BY <2>1, <2>2, <2>3, <2>4, <2>5
<1>2. Form!NeverOverwritten'
  BY <1>0 DEF ProductInv, Form!NeverOverwritten
<1> QED
  BY <1>0, <1>1, <1>2 DEF ProductInv

\* What else an employee and the API do; a form sends one slug, and the unique indexes
\* refuse what is there.
LEMMA RequestStep ==
    ASSUME Form!NewProductAssumption, ProductInv, NEW r \in creations,
           Form!CheckProduct(r) \/ Form!createProduct(r) \/ Form!Told(r) \/ Form!Died(r)
    PROVE  ProductInv'
<1>0. /\ UNCHANGED <<entries, sku, slug, skuCheck, timeout, queries, submits>>
      /\ r \in Form!Request /\ r.slug = slug[r.by]
  BY DEF Form!CheckProduct, Form!createProduct, Form!Told, Form!Died, Form!form, ProductInv
<1>1. Form!CheckingEnds'
  BY <1>0 DEF ProductInv, Form!CheckingEnds
<1>2. saving' \in [Employees -> Nat \cup {None}]
  BY <1>0 DEF Form!CheckProduct, Form!createProduct, Form!Told, Form!Died, ProductInv,
      Form!Request
<1>3. creations' \subseteq Form!Request /\ \A q \in creations' : q.slug = slug[q.by]
  <2>1. PICK stage \in {"sent", "checked", "created", "conflict"} :
           creations' \subseteq creations \cup {[r EXCEPT !.stage = stage]}
    BY DEF Form!CheckProduct, Form!createProduct, Form!Told, Form!Died, Form!Answer
  <2>2. PICK a : a = [r EXCEPT !.stage = stage]
    OBVIOUS
  <2>3. a \in Form!Request /\ a.by = r.by /\ a.slug = r.slug
    BY <1>0, <2>2 DEF Form!Request
  <2> QED
    BY <1>0, <2>1, <2>2, <2>3 DEF ProductInv
<1>4. CASE UNCHANGED products
  BY <1>0, <1>1, <1>2, <1>3, <1>4 DEF ProductInv, Form!NeverOverwritten
<1>5. CASE ~UNCHANGED products
  <2>1. PICK p : p = [by |-> r.by, n |-> r.n, sku |-> r.sku, slug |-> r.slug]
    OBVIOUS
  <2>2. products' = products \cup {p} /\ Form!free(r)
    BY <1>5, <2>1 DEF Form!CheckProduct, Form!createProduct, Form!Told, Form!Died,
        Form!inserted
  <2>3. p \in Form!Product /\ p.by = r.by /\ p.slug = r.slug /\ p.sku = r.sku
    BY <1>0, <2>1 DEF Form!Product, Form!Request
  <2>4. \A q \in products : q.slug # p.slug /\ q.sku # p.sku
    BY <2>2, <2>3 DEF Form!free
  <2>5. Form!NeverOverwritten'
    BY <2>2, <2>4 DEF Form!NeverOverwritten, ProductInv
  <2>6. products' \subseteq Form!Product
        /\ \A q \in products' : q.by \in Employees => q.slug = slug'[q.by]
    BY <1>0, <2>2, <2>3 DEF ProductInv
  <2> QED
    BY <1>0, <1>1, <1>2, <1>3, <2>5, <2>6 DEF ProductInv
<1> QED
  BY <1>4, <1>5

LEMMA SubmitStep ==
    ASSUME ProductInv, NEW e \in Employees, Form!submit(e)
    PROVE  ProductInv'
<1>1. PICK r : r = [by |-> e, n |-> submits'[e], sku |-> sku[e], slug |-> slug[e],
                    stage |-> "sent"]
  OBVIOUS
<1>2. /\ creations' = creations \cup {r} /\ submits' = [submits EXCEPT ![e] = @ + 1]
      /\ saving' = [saving EXCEPT ![e] = submits'[e]] /\ sku[e] \in Skus
      /\ UNCHANGED <<products, entries, sku, slug, skuCheck, timeout, queries>>
  BY <1>1 DEF Form!submit, Form!form, Form!valid
<1>3. submits' \in [Employees -> Nat] /\ submits'[e] \in Nat
  BY <1>2 DEF ProductInv
<1>4. r \in Form!Request /\ r.by = e /\ r.slug = slug[e]
  BY <1>1, <1>2, <1>3 DEF ProductInv, Form!Request
<1>5. saving' \in [Employees -> Nat \cup {None}]
  BY <1>2, <1>3 DEF ProductInv
<1> QED
  BY <1>2, <1>3, <1>4, <1>5 DEF ProductInv, Form!NeverOverwritten, Form!CheckingEnds

LEMMA EntryStep ==
    ASSUME ProductInv, NEW e \in Employees,
           \/ Form!Lost(e) \/ Form!auditEntry(e) \/ Form!EntryLost(e)
           \/ \E n \in Names : Form!createEntry(e, n)
    PROVE  ProductInv'
<1>1. UNCHANGED <<products, creations, sku, slug, skuCheck, timeout, queries, submits>>
  BY DEF Form!Lost, Form!auditEntry, Form!EntryLost, Form!createEntry, Form!form
<1>2. saving' \in [Employees -> Nat \cup {None}]
  BY DEF Form!Lost, Form!auditEntry, Form!EntryLost, Form!createEntry, ProductInv
<1>3. entries' \in [Names -> {"none", "created", "audited"}]
  BY DEF Form!Lost, Form!auditEntry, Form!EntryLost, Form!createEntry, ProductInv
<1> QED
  BY <1>1, <1>2, <1>3 DEF ProductInv, Form!NeverOverwritten, Form!CheckingEnds

LEMMA ProductStep ==
    ASSUME Form!NewProductAssumption, ProductInv, [Form!Next]_Form!vars
    PROVE  ProductInv'
<1>1. CASE UNCHANGED Form!vars
  BY <1>1 DEF Form!vars, ProductInv, Form!NeverOverwritten, Form!CheckingEnds
<1>2. CASE Form!Next
  BY <1>2, LabelStep, RequestStep, SubmitStep, EntryStep DEF Form!Next
<1> QED
  BY <1>1, <1>2

\* Products, requests and the fields of the forms keep their types.
THEOREM ProductTypeCorrect == ASSUME Form!NewProductAssumption PROVE Form!Spec => []Form!TypeOK
<1>1. ProductInv => Form!TypeOK
  BY DEF ProductInv, Form!TypeOK
<1> QED
  BY <1>1, ProductInit, ProductStep, PTL DEF Form!Spec

\* No product takes the SKU or the slug of another, for any number of employees whose
\* requests pass the same check at once (createProduct), and a SKU that is being checked
\* has a question under way or a timer that asks it.
THEOREM NothingIsOverwritten ==
    ASSUME Form!NewProductAssumption
    PROVE  Form!Spec => [](Form!NeverOverwritten /\ Form!CheckingEnds)
<1>1. ProductInv => Form!NeverOverwritten /\ Form!CheckingEnds
  BY DEF ProductInv
<1> QED
  BY <1>1, ProductInit, ProductStep, PTL DEF Form!Spec

\* One form creates one product at most, however often its button is pressed and its
\* requests are lost after they were served (submit).
THEOREM FormsCreateOnce == ASSUME Form!NewProductAssumption PROVE Form!Spec => []Form!OncePerForm
<1>1. ASSUME ProductInv, NEW e \in Employees PROVE Cardinality({p \in products : p.by = e}) <= 1
  <2>1. PICK S : S = {p \in products : p.by = e}
    OBVIOUS
  <2>2. \A p, q \in S : p = q
    BY <1>1, <2>1 DEF ProductInv, Form!NeverOverwritten
  <2>3. CASE S = {}
    BY <2>1, <2>3, FS_EmptySet
  <2>4. CASE S # {}
    <3>1. PICK p : S = {p}
      BY <2>2, <2>4
    <3>2. Cardinality(S) = 1
      BY <3>1, FS_Singleton
    <3> QED BY <2>1, <3>2
  <2> QED BY <2>3, <2>4
<1>2. ProductInv => Form!OncePerForm
  BY <1>1, TheyCount DEF Form!OncePerForm
<1> QED
  BY <1>2, ProductInit, ProductStep, PTL DEF Form!Spec
-----------------------------------------------------------------------------
(***************************************************************************)
(* The bell with the new orders (AdminNotifications): what was announced   *)
(* is remembered, and what is remembered is not announced.                 *)
(***************************************************************************)

\* What makes the properties inductive: what was announced is remembered, and nothing is
\* asked of all notifications at once while that button is not pressed.
BellInv ==
    /\ row \in [Bell!Notes -> Bell!Marks] /\ feed \in [Bell!Notes -> Bell!Marks]
    /\ DOMAIN polls = Slots
    /\ \A s \in Slots : polls[s] # None => polls[s] \in [Bell!Notes -> Bell!Marks]
    /\ notified \subseteq Bell!Notes /\ marks \subseteq Bell!Notes \cup {Bell!All}
    /\ announced \in [Bell!Notes -> Nat]
    /\ \A n \in Bell!Notes : announced[n] <= IF n \in notified THEN 1 ELSE 0

LEMMA BellInit == ASSUME Bell!Init PROVE BellInv
BY DEF Bell!Init, BellInv, Bell!nothing, Bell!Marks

LEMMA BellStep == ASSUME BellInv, [Bell!Next]_Bell!vars PROVE BellInv'
<1>1. \A n \in [Bell!Notes -> Bell!Marks], N \in SUBSET Bell!Notes :
         /\ Bell!notify(n, N) \in [Bell!Notes -> Bell!Marks]
         /\ Bell!read(n, N) \in [Bell!Notes -> Bell!Marks]
  BY DEF Bell!notify, Bell!read, Bell!Marks
<1>2. ASSUME NEW o \in Orders, NEW status \in {"PENDING", "NOT_REQUIRED"},
             Bell!placeOrder(o, status) \/ Bell!changeOrder(o, status) \/ Bell!quoteShipping(o)
      PROVE  BellInv'
  <2>1. UNCHANGED <<feed, polls, notified, marks, announced>>
    BY <1>2 DEF Bell!placeOrder, Bell!changeOrder, Bell!quoteShipping, Bell!page
  <2>2. \E N \in SUBSET Bell!Notes : row' = Bell!notify(row, N) \/ row' = Bell!read(row, N)
    BY <1>2 DEF Bell!placeOrder, Bell!changeOrder, Bell!quoteShipping, Bell!created,
        Bell!requested, Bell!Notes
  <2>3. row' \in [Bell!Notes -> Bell!Marks]
    BY <1>1, <2>2 DEF BellInv
  <2> QED
    BY <2>1, <2>3 DEF BellInv
<1>3. ASSUME NEW s \in Slots, Bell!load(s) \/ Bell!loadFails(s) PROVE BellInv'
  BY <1>3 DEF Bell!load, Bell!loadFails, BellInv
<1>4. ASSUME NEW s \in Slots, Bell!loaded(s) PROVE BellInv'
  <2>1. PICK F \in SUBSET (Bell!Notes \ notified) :
          /\ notified' = notified \cup F
          /\ announced' = [n \in Bell!Notes |->
                            announced[n] + IF n \in F /\ announced[n] < 2 THEN 1 ELSE 0]
    BY <1>4 DEF Bell!loaded, Bell!fresh
  <2>2. /\ announced' \in [Bell!Notes -> Nat] /\ notified' \subseteq Bell!Notes
        /\ \A n \in Bell!Notes : announced'[n] <= IF n \in notified' THEN 1 ELSE 0
    BY <2>1 DEF BellInv
  <2>3. feed' = polls[s] /\ polls' = [polls EXCEPT ![s] = None] /\ polls[s] # None
        /\ UNCHANGED <<row, marks>>
    BY <1>4 DEF Bell!loaded, Bell!shownAfter
  <2> QED
    BY <2>2, <2>3 DEF BellInv
<1>5. ASSUME NEW n \in Bell!Notes, Bell!markRead(n) PROVE BellInv'
  BY <1>1, <1>5 DEF Bell!markRead, BellInv
<1>6. CASE Bell!markAllRead
  BY <1>1, <1>6 DEF Bell!markAllRead, BellInv
<1>7. ASSUME NEW m \in Bell!Notes \cup {Bell!All}, Bell!serveMark(m) PROVE BellInv'
  <2>1. Bell!marked(m) \in SUBSET Bell!Notes
    BY DEF Bell!marked
  <2> QED
    BY <1>1, <1>7, <2>1 DEF Bell!serveMark, BellInv
<1>8. CASE Bell!reload
  BY <1>8 DEF Bell!reload, BellInv, Bell!nothing, Bell!Marks
<1>9. CASE UNCHANGED Bell!vars
  BY <1>9 DEF Bell!vars, BellInv
<1> QED
  BY <1>2, <1>3, <1>4, <1>5, <1>6, <1>7, <1>8, <1>9 DEF Bell!Next

\* A new order is announced once in a browser, for any number of lists under way, failed
\* polls and reloads (loaded of admin-notification-bell.tsx).
THEOREM OrdersAreAnnouncedOnce == Bell!Spec => [](Bell!TypeOK /\ Bell!AnnouncedOnce)
<1>1. BellInv => Bell!TypeOK /\ Bell!AnnouncedOnce
  BY DEF BellInv, Bell!TypeOK, Bell!AnnouncedOnce
<1> QED
  BY <1>1, BellInit, BellStep, PTL DEF Bell!Spec
-----------------------------------------------------------------------------
(***************************************************************************)
(* The alerts of low stock (InventoryAlerts), for every number of          *)
(* replicas, levels and alerts. A scan decides by what it listed before;   *)
(* that it makes no second alert is up to the unique activeKey, and that   *)
(* it changes none that is resolved to the condition of its update.        *)
(***************************************************************************)

AlertRow == [level : Levels, status : {"OPEN", "ACKNOWLEDGED", "RESOLVED"}, active : BOOLEAN]
ScanRow == [at : {"idle", "resolve", "list", "each", "create", "remind"}, ids : SUBSET Alerts,
            todo : SUBSET Levels, level : Levels \cup {None}, alert : Alerts \cup {None}]

\* One alert at most is active for a level: what the unique activeKey keeps.
OneActive == \A a, b \in Low!rows : alert[a].active /\ alert[b].active
                                /\ alert[a].level = alert[b].level => a = b

\* What makes it and the life cycle inductive: a resolved alert is not active, and a scan
\* resolves and reminds of alerts that exist.
ScanSays(s) ==
    /\ s \in ScanRow /\ s.ids \subseteq Low!rows
    /\ s.at = "create" => s.level \in Levels
    /\ s.at = "remind" => s.alert \in Low!rows
AlertsInv ==
    /\ stock \in [Levels -> 0..Most] /\ day \in 0..Days /\ sent \subseteq Low!rows \X (0..Days)
    /\ alert \in [Alerts -> AlertRow \cup {None}] /\ OneActive
    /\ \A a \in Low!rows : alert[a].active <=> alert[a].status # "RESOLVED"
    /\ DOMAIN scan = Replicas /\ \A r \in Replicas : ScanSays(scan[r])

LEMMA AlertsInit == ASSUME Low!AlertsAssumption, Low!Init PROVE AlertsInv
<1>1. Low!rows = {}
  BY DEF Low!Init, Low!rows
<1>2. \A r \in Replicas : ScanSays(scan[r])
  BY DEF Low!Init, ScanSays, ScanRow, Low!idle
<1> QED
  BY <1>1, <1>2 DEF Low!Init, AlertsInv, OneActive, Low!AlertsAssumption

\* What a step does to the alerts: a new one of a level that has none, or a later status.
NoneLost == \A a \in Low!rows : a \in Low!rows' /\ alert'[a].level = alert[a].level

LEMMA ScanMoves ==
    ASSUME AlertsInv, NoneLost, NEW r \in Replicas, NEW g \in ScanRow, Low!At(r, g),
           g.ids \subseteq Low!rows', g.at = "create" => g.level \in Levels,
           g.at = "remind" => g.alert \in Low!rows'
    PROVE  DOMAIN scan' = Replicas /\ \A q \in Replicas : ScanSays(scan[q])'
BY DEF AlertsInv, NoneLost, Low!At, ScanSays, ScanRow

LEMMA ScansKept ==
    ASSUME AlertsInv, NoneLost, UNCHANGED scan
    PROVE  DOMAIN scan' = Replicas /\ \A q \in Replicas : ScanSays(scan[q])'
BY DEF AlertsInv, NoneLost, ScanSays

LEMMA AlertsKept ==
    ASSUME AlertsInv, UNCHANGED alert
    PROVE  NoneLost /\ Low!rows' = Low!rows /\ OneActive' /\ Low!LifeCycle
           /\ \A a \in Low!rows' : alert'[a].active <=> alert'[a].status # "RESOLVED"
BY DEF AlertsInv, NoneLost, Low!rows, OneActive, Low!LifeCycle

LEMMA Answers ==
    ASSUME AlertsInv, NEW r \in Replicas, NEW l \in Levels, NEW a \in Low!rows
    PROVE  /\ Low!answered(r, l, a) \in ScanRow
           /\ Low!answered(r, l, a).ids \subseteq Low!rows
           /\ Low!answered(r, l, a).at \in {"each", "remind"}
           /\ Low!answered(r, l, a).at = "remind" => Low!answered(r, l, a).alert = a
<1>1. scan[r] \in ScanRow /\ scan[r].ids \subseteq Low!rows
  BY DEF AlertsInv, ScanSays
<1>2. Low!next(r) \in ScanRow /\ Low!next(r).ids = scan[r].ids /\ Low!next(r).at = "each"
  BY <1>1 DEF Low!next, ScanRow
<1>3. a \in Alerts
  BY DEF Low!rows
<1> QED
  BY <1>1, <1>2, <1>3 DEF Low!answered, ScanRow

\* The scan of a replica.
LEMMA ScanStep ==
    ASSUME Low!AlertsAssumption, AlertsInv, NEW r \in Replicas, Low!Step(r)
    PROVE  AlertsInv' /\ Low!LifeCycle
<1>0. scan[r] \in ScanRow /\ scan[r].ids \subseteq Low!rows /\ Low!rows \subseteq Alerts
  BY DEF AlertsInv, ScanSays, Low!rows
<1> DEFINE Scans == DOMAIN scan' = Replicas /\ \A q \in Replicas : ScanSays(scan[q])'
<1> HIDE DEF Scans
<1>1. CASE Low!StartScan(r)
  <2>1. PICK g : g = [Low!idle EXCEPT !.at = "resolve",
                          !.ids = {a \in Low!rows : /\ Low!resolvable(a)
                                                    /\ ~Low!low(alert[a].level)}]
    OBVIOUS
  <2>2. g \in ScanRow /\ g.at = "resolve" /\ g.ids \subseteq Low!rows
    BY <1>0, <2>1 DEF Low!idle, ScanRow
  <2>3. Low!At(r, g) /\ UNCHANGED <<stock, alert, sent, day>>
    BY <1>1, <2>1 DEF Low!StartScan
  <2>4. Scans
    BY <2>2, <2>3, AlertsKept, ScanMoves DEF Scans
  <2> QED
    BY <2>3, <2>4, AlertsKept DEF AlertsInv, Scans
<1>2. CASE Low!Resolve(r)
  <2>1. PICK g : g = [scan[r] EXCEPT !.at = "list", !.ids = {}]
    OBVIOUS
  <2>2. g \in ScanRow /\ g.at = "list" /\ g.ids = {}
    BY <1>0, <2>1 DEF ScanRow
  <2>3. Low!At(r, g) /\ UNCHANGED <<stock, sent, day>>
    BY <1>2, <2>1 DEF Low!Resolve
  <2>4. alert' = [a \in Alerts |-> IF a \in scan[r].ids
                                   THEN [alert[a] EXCEPT !.status = "RESOLVED", !.active = FALSE]
                                   ELSE alert[a]]
    BY <1>2 DEF Low!Resolve, Low!freesKey
  <2>5. ASSUME NEW a \in scan[r].ids
        PROVE  /\ alert'[a] \in AlertRow /\ alert'[a].level = alert[a].level
               /\ alert'[a].status = "RESOLVED" /\ alert'[a].active = FALSE
    BY <1>0, <2>4 DEF AlertsInv, Low!rows, AlertRow
  <2>6. \A a \in Alerts : a \notin scan[r].ids => alert'[a] = alert[a]
    BY <2>4
  <2>7. alert' \in [Alerts -> AlertRow \cup {None}]
    BY <2>4, <2>5, <2>6 DEF AlertsInv
  <2>8. Low!rows' = Low!rows
    BY <1>0, <2>5, <2>6 DEF Low!rows, Low!AlertsAssumption, AlertRow
  <2>9. NoneLost /\ OneActive' /\ Low!LifeCycle
        /\ \A a \in Low!rows' : alert'[a].active <=> alert'[a].status # "RESOLVED"
    <3>1. \A a \in Low!rows : IF a \in scan[r].ids
                          THEN /\ alert'[a].level = alert[a].level
                               /\ alert'[a].status = "RESOLVED" /\ alert'[a].active = FALSE
                          ELSE alert'[a] = alert[a]
      BY <1>0, <2>5, <2>6
    <3>2. NoneLost
      BY <2>8, <3>1 DEF NoneLost
    <3>3. OneActive'
      BY <2>8, <3>1 DEF AlertsInv, OneActive
    <3>4. Low!LifeCycle
      BY <3>1 DEF Low!LifeCycle
    <3>5. \A a \in Low!rows' : alert'[a].active <=> alert'[a].status # "RESOLVED"
      BY <2>8, <3>1 DEF AlertsInv
    <3> QED BY <3>2, <3>3, <3>4, <3>5
  <2>10. Scans
    BY <2>2, <2>3, <2>9, ScanMoves DEF Scans
  <2> QED
    BY <2>3, <2>7, <2>8, <2>9, <2>10 DEF AlertsInv, Scans
<1>3. CASE Low!ListLevels(r)
  <2>1. PICK found \in SUBSET Levels : Low!At(r, [scan[r] EXCEPT !.at = "each", !.todo = found])
    BY <1>3 DEF Low!ListLevels
  <2>2. PICK g : g = [scan[r] EXCEPT !.at = "each", !.todo = found]
    OBVIOUS
  <2>3. g \in ScanRow /\ g.at = "each" /\ g.ids = scan[r].ids
    BY <1>0, <2>2 DEF ScanRow
  <2>4. Low!At(r, g) /\ UNCHANGED <<stock, alert, sent, day>>
    BY <1>3, <2>1, <2>2 DEF Low!ListLevels
  <2>5. Scans
    BY <1>0, <2>3, <2>4, AlertsKept, ScanMoves DEF Scans
  <2> QED
    BY <2>4, <2>5, AlertsKept DEF AlertsInv, Scans
<1>4. CASE Low!EndScan(r)
  <2>1. Low!idle \in ScanRow /\ Low!idle.at = "idle" /\ Low!idle.ids = {}
    BY DEF Low!idle, ScanRow
  <2>2. Low!At(r, Low!idle) /\ UNCHANGED <<stock, alert, sent, day>>
    BY <1>4 DEF Low!EndScan
  <2>3. Scans
    BY <2>1, <2>2, AlertsKept, ScanMoves DEF Scans
  <2> QED
    BY <2>2, <2>3, AlertsKept DEF AlertsInv, Scans
<1>5. CASE Low!CreateAlert(r)
  <2>1. PICK l \in Levels : l = scan[r].level
    BY <1>5 DEF Low!CreateAlert, AlertsInv, ScanSays
  <2>2. CASE Low!uniqueKey(l)
    <3>1. PICK a \in Alerts \ Low!rows :
            /\ alert' = [alert EXCEPT ![a] = [level |-> l, status |-> "OPEN", active |-> TRUE]]
            /\ Low!At(r, [Low!next(r) EXCEPT !.at = "remind", !.alert = a, !.todo = @ \ {l}])
      BY <1>5, <2>1, <2>2 DEF Low!CreateAlert
    <3>2. PICK entry : entry = [level |-> l, status |-> "OPEN", active |-> TRUE]
      OBVIOUS
    <3>13. entry \in AlertRow /\ entry.level = l /\ entry.status = "OPEN" /\ entry.active
           /\ entry # None
      <4>1. entry \in AlertRow
        BY <3>2 DEF AlertRow
      <4>2. entry.level = l /\ entry.status = "OPEN" /\ entry.active = TRUE
        BY <3>2
      <4> QED
        BY <4>1, <4>2 DEF AlertRow, Low!AlertsAssumption
    <3>14. alert' = [alert EXCEPT ![a] = entry]
      BY <3>1, <3>2
    <3>3. PICK g : g = [Low!next(r) EXCEPT !.at = "remind", !.alert = a, !.todo = @ \ {l}]
      OBVIOUS
    <3>4. g \in ScanRow /\ g.at = "remind" /\ g.ids = scan[r].ids /\ g.alert = a
      BY <1>0, <3>3 DEF Low!next, ScanRow
    <3>6. alert' \in [Alerts -> AlertRow \cup {None}] /\ alert'[a] = entry
          /\ \A b \in Alerts : b # a => alert'[b] = alert[b]
      BY <3>13, <3>14 DEF AlertsInv
    <3>5. Low!rows' = Low!rows \cup {a} /\ \A b \in Low!rows : alert'[b] = alert[b]
      BY <3>6, <3>13 DEF Low!rows
    <3>7. \A b \in Low!rows : alert[b].active => alert[b].level # l
      BY <2>2 DEF Low!uniqueKey, Low!activeOf
    <3>8. OneActive'
      BY <3>13, <3>5, <3>6, <3>7 DEF AlertsInv, OneActive
    <3>9. NoneLost /\ Low!LifeCycle
      BY <3>5 DEF NoneLost, Low!LifeCycle
    <3>10. \A b \in Low!rows' : alert'[b].active <=> alert'[b].status # "RESOLVED"
      BY <3>13, <3>5, <3>6 DEF AlertsInv
    <3>11. UNCHANGED <<stock, sent, day>> /\ Low!At(r, g)
      BY <1>5, <3>1, <3>3 DEF Low!CreateAlert
    <3>12. Scans
      BY <1>0, <3>4, <3>5, <3>9, <3>11, ScanMoves DEF Scans
    <3> QED
      BY <3>5, <3>6, <3>8, <3>9, <3>10, <3>11, <3>12 DEF AlertsInv, Scans
  <2>3. CASE ~Low!uniqueKey(l)
    <3>1. PICK a \in Low!rows : Low!At(r, Low!answered(r, l, a))
      BY <1>5, <2>1, <2>3 DEF Low!CreateAlert, Low!activeOf
    <3>2. UNCHANGED <<stock, alert, sent, day>>
      BY <1>5, <2>1, <2>3 DEF Low!CreateAlert
    <3>3. Scans
      BY <3>1, <3>2, Answers, AlertsKept, ScanMoves DEF Scans
    <3> QED
      BY <3>2, <3>3, AlertsKept DEF AlertsInv, Scans
  <2> QED BY <2>2, <2>3
<1>6. CASE Low!Remind(r)
  <2>1. PICK g : g = Low!next(r)
    OBVIOUS
  <2>2. g \in ScanRow /\ g.at = "each" /\ g.ids = scan[r].ids
    BY <1>0, <2>1 DEF Low!next, ScanRow
  <2>3. Low!At(r, g) /\ UNCHANGED <<stock, alert, day>>
    BY <1>6, <2>1 DEF Low!Remind
  <2>4. sent' \subseteq Low!rows \X (0..Days)
    BY <1>6 DEF Low!Remind, AlertsInv, ScanSays
  <2>5. Scans
    BY <1>0, <2>2, <2>3, AlertsKept, ScanMoves DEF Scans
  <2> QED
    BY <2>3, <2>4, <2>5, AlertsKept DEF AlertsInv, Scans
<1>7. ASSUME NEW l \in Levels, Low!LookUp(r, l) PROVE AlertsInv' /\ Low!LifeCycle
  <2>1. UNCHANGED <<stock, alert, sent, day>>
    BY <1>7 DEF Low!LookUp
  <2>2. CASE Low!activeOf(l) = {}
    <3>1. PICK g : g = [scan[r] EXCEPT !.at = "create", !.level = l]
      OBVIOUS
    <3>2. g \in ScanRow /\ g.at = "create" /\ g.ids = scan[r].ids /\ g.level = l
      BY <1>0, <3>1 DEF ScanRow
    <3>3. Low!At(r, g)
      BY <1>7, <2>2, <3>1 DEF Low!LookUp
    <3>4. Scans
      BY <1>0, <2>1, <3>2, <3>3, AlertsKept, ScanMoves DEF Scans
    <3> QED
      BY <2>1, <3>4, AlertsKept DEF AlertsInv, Scans
  <2>3. CASE Low!activeOf(l) # {}
    <3>1. PICK a \in Low!rows : Low!At(r, Low!answered(r, l, a))
      BY <1>7, <2>3 DEF Low!LookUp, Low!activeOf
    <3>2. Scans
      BY <2>1, <3>1, Answers, AlertsKept, ScanMoves DEF Scans
    <3> QED
      BY <2>1, <3>2, AlertsKept DEF AlertsInv, Scans
  <2> QED BY <2>2, <2>3
<1> QED
  BY <1>1, <1>2, <1>3, <1>4, <1>5, <1>6, <1>7 DEF Low!Step

LEMMA AbortStep ==
    ASSUME Low!AlertsAssumption, AlertsInv, NEW r \in Replicas, Low!Abort(r)
    PROVE  AlertsInv' /\ Low!LifeCycle
<1>0. scan[r] \in ScanRow /\ scan[r].ids \subseteq Low!rows
  BY DEF AlertsInv, ScanSays
<1>1. UNCHANGED <<stock, alert, sent, day>>
  BY DEF Low!Abort
<1>2. PICK g \in ScanRow : Low!At(r, g) /\ g.at \in {"idle", "each"} /\ g.ids \subseteq Low!rows
  <2>1. CASE Low!At(r, Low!idle)
    BY <2>1 DEF Low!idle, ScanRow
  <2>2. ASSUME NEW x, Low!At(r, [Low!next(r) EXCEPT !.todo = @ \ {x}])
        PROVE  \E g \in ScanRow :
                  Low!At(r, g) /\ g.at \in {"idle", "each"} /\ g.ids \subseteq Low!rows
    <3>1. PICK g : g = [Low!next(r) EXCEPT !.todo = @ \ {x}]
      OBVIOUS
    <3>2. g \in ScanRow /\ g.at = "each" /\ g.ids = scan[r].ids
      BY <1>0, <3>1 DEF Low!next, ScanRow
    <3> QED
      BY <1>0, <2>2, <3>1, <3>2
  <2> QED
    BY <2>1, <2>2 DEF Low!Abort
<1>3. DOMAIN scan' = Replicas /\ \A q \in Replicas : ScanSays(scan[q])'
  BY <1>1, <1>2, AlertsKept, ScanMoves
<1> QED
  BY <1>1, <1>3, AlertsKept DEF AlertsInv

LEMMA AlertsStep ==
    ASSUME Low!AlertsAssumption, AlertsInv, [Low!Next]_Low!vars
    PROVE  AlertsInv' /\ Low!LifeCycle
<1>1. ASSUME NEW a \in Alerts, Low!Acknowledge(a) PROVE AlertsInv' /\ Low!LifeCycle
  <2>1. /\ a \in Low!rows /\ alert[a] \in AlertRow /\ alert[a].status = "OPEN" /\ alert[a].active
        /\ alert' = [alert EXCEPT ![a].status = "ACKNOWLEDGED"]
        /\ UNCHANGED <<stock, sent, scan, day>>
    BY <1>1 DEF Low!Acknowledge, Low!acknowledgeable, AlertsInv, Low!rows
  <2>2. /\ alert'[a] \in AlertRow /\ alert'[a].level = alert[a].level
        /\ alert'[a].status = "ACKNOWLEDGED" /\ alert'[a].active = alert[a].active
    BY <2>1 DEF AlertsInv, AlertRow
  <2>3. \A b \in Alerts \ {a} : alert'[b] = alert[b]
    BY <2>1 DEF AlertsInv
  <2>4. alert' \in [Alerts -> AlertRow \cup {None}]
    BY <2>1, <2>2, <2>3 DEF AlertsInv
  <2>5. Low!rows' = Low!rows
    BY <2>1, <2>2, <2>3 DEF Low!rows, Low!AlertsAssumption, AlertRow
  <2>6. \A b \in Low!rows : b # a => alert'[b] = alert[b]
    BY <2>3 DEF Low!rows
  <2>7. NoneLost /\ OneActive' /\ Low!LifeCycle
        /\ \A b \in Low!rows' : alert'[b].active <=> alert'[b].status # "RESOLVED"
    BY <2>1, <2>2, <2>5, <2>6 DEF AlertsInv, NoneLost, OneActive, Low!LifeCycle
  <2>8. DOMAIN scan' = Replicas /\ \A q \in Replicas : ScanSays(scan[q])'
    BY <2>1, <2>7, ScansKept
  <2> QED
    BY <2>1, <2>4, <2>5, <2>7, <2>8 DEF AlertsInv
<1>2. CASE \/ Low!Tomorrow \/ UNCHANGED Low!vars
           \/ \E l \in Levels, n \in 0..Most : Low!StockChanges(l, n)
  <2>1. UNCHANGED <<alert, sent, scan>>
    BY <1>2 DEF Low!Tomorrow, Low!StockChanges, Low!vars
  <2>2. stock' \in [Levels -> 0..Most] /\ day' \in 0..Days
    BY <1>2 DEF Low!Tomorrow, Low!StockChanges, Low!vars, AlertsInv, Low!AlertsAssumption
  <2>3. DOMAIN scan' = Replicas /\ \A q \in Replicas : ScanSays(scan[q])'
    BY <2>1, AlertsKept, ScansKept
  <2> QED
    BY <2>1, <2>2, <2>3, AlertsKept DEF AlertsInv
<1> QED
  BY <1>1, <1>2, ScanStep, AbortStep DEF Low!Next

\* A level has one active alert at most, however many replicas scan at once
\* (the unique activeKey), and only alerts that exist are reminded of.
THEOREM OneAlertALevel == ASSUME Low!AlertsAssumption PROVE Low!Spec => []Low!TypeOK
<1>1. ASSUME AlertsInv, NEW l \in Levels PROVE Cardinality(Low!activeOf(l)) <= 1
  <2>1. PICK S : S = Low!activeOf(l)
    OBVIOUS
  <2>2. \A a, b \in S : a = b
    BY <1>1, <2>1 DEF AlertsInv, OneActive, Low!activeOf
  <2>3. CASE S = {}
    BY <2>1, <2>3, FS_EmptySet
  <2>4. CASE S # {}
    <3>1. PICK a : S = {a}
      BY <2>2, <2>4
    <3>2. Cardinality(S) = 1
      BY <3>1, FS_Singleton
    <3> QED BY <2>1, <3>2
  <2> QED BY <2>3, <2>4
<1>2. ASSUME AlertsInv
      PROVE  \A a \in Low!rows : alert[a].status \in {"OPEN", "ACKNOWLEDGED", "RESOLVED"}
  BY <1>2 DEF AlertsInv, AlertRow, Low!rows
<1>3. AlertsInv => Low!TypeOK
  BY <1>1, <1>2, TheyCount DEF AlertsInv, Low!TypeOK
<1> QED
  BY <1>3, AlertsInit, AlertsStep, PTL DEF Low!Spec

\* An alert goes from open to acknowledged to resolved and never back, whatever scans
\* and acknowledgements overlap.
THEOREM AlertsNeverReopen ==
    ASSUME Low!AlertsAssumption
    PROVE  Low!Spec => [][Low!LifeCycle]_Low!vars
<1>1. AlertsInv /\ [Low!Next]_Low!vars => [Low!LifeCycle]_Low!vars
  BY AlertsStep
<1> QED
  BY <1>1, AlertsInit, AlertsStep, PTL DEF Low!Spec
=============================================================================

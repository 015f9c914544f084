---------------------------- MODULE SiteContent ----------------------------
(***************************************************************************)
(* The editable content of the store: the row of site-content.service.ts   *)
(* with its draft, published document and revisions, the visual editors    *)
(* that save and publish it (admin-site-editor.tsx) and the store front    *)
(* that shows it (lib/site-content.ts).                                    *)
(*                                                                         *)
(* A document is the set of the edits it contains; `Half' in it stands for *)
(* a field that is being typed and that validateSiteContent refuses as it  *)
(* is (an e-mail without its domain, an empty title).  An editor is one    *)
(* open tab: every save sends the whole document it shows.  AdminWorkspace *)
(* gives it a new onNotice at every rendering, on which `load' depends, so *)
(* every notice the editor causes, and every other rendering of the        *)
(* workspace, makes it load its document again.                            *)
(***************************************************************************)
EXTENDS Integers, FiniteSets

CONSTANTS
    Editors,    \* tabs with the visual editor open
    Edits,      \* the changes that are ever made, each once
    Half,       \* a field left half typed
    Presses,    \* bound: how often Publicar is pressed
    Faults,     \* bound: requests that fail or whose answer is lost
    Loads,      \* bound: loads of one tab under way at a time
    Renderings, \* bound: renderings of the workspace without a notice
    Outages     \* bound: renderings of the store without an answer of the API

SiteContentAssumption ==
    /\ Half \notin Edits
    /\ {Presses, Faults, Loads, Renderings, Outages} \subseteq Nat

VARIABLES
    site,       \* the row: draft, published document and version
    revisions,  \* the published versions that are kept
    editor,     \* [Editors -> what the tab holds]
    requests,   \* the calls on their way to the server or being served
    answers,    \* the answers on their way back
    shop,       \* the document the store front shows
    made,       \* the edits that were made
    overtaken,  \* the tabs since whose loading another tab saved
    pressed,    \* the documents with which Publicar was pressed
    spent       \* the bounded events that have happened

contentVars == <<site, revisions, editor, requests, answers, shop, made,
                 overtaken, pressed, spent>>

Documents == SUBSET (Edits \cup {Half})
DEFAULT_SITE_CONTENT == {}

\* What the server accepts; SiteContentRules has the rules themselves.
validateSiteContent(doc) == Half \notin doc

\* The calls of an editor: load's GET, saveDraft's PUT (of the timer or of the
\* button), publish's PUT and its POST, which the server serves in two steps.
Kinds == {"LOAD", "SAVE", "PRESS", "PUT", "PUBLISH", "PUBLISHING"}
call(ed, kind, doc) == [from |-> ed, kind |-> kind, doc |-> doc, version |-> 0]
answer(c, ok) == [from |-> c.from, kind |-> c.kind, version |-> c.version,
                  ok |-> ok, doc |-> {}, old |-> FALSE]

\* What a tab holds once it has loaded.
loaded(doc) == [content |-> doc, dirty |-> FALSE, saving |-> FALSE,
                moved |-> FALSE, publishing |-> FALSE, loading |-> FALSE]

Init ==
    /\ site = [draft |-> DEFAULT_SITE_CONTENT, published |-> DEFAULT_SITE_CONTENT,
               version |-> 1]
    /\ revisions = {}
    /\ editor = [ed \in Editors |-> loaded(DEFAULT_SITE_CONTENT)]
    /\ requests = {} /\ answers = {}
    /\ shop = DEFAULT_SITE_CONTENT
    /\ made = {} /\ overtaken = {} /\ pressed = {}
    /\ spent = [presses |-> 0, faults |-> 0, outages |-> 0, renderings |-> 0]

Send(c) == requests' = requests \cup {c}
busy(ed) == editor[ed].saving \/ editor[ed].publishing \/ editor[ed].loading

\* The loads of a tab that may still be started, told apart by a number.
freeLoads(ed) == 1 .. Loads \ {c.version : c \in {x \in requests \cup answers :
                                          x.from = ed /\ x.kind = "LOAD"}}

\* load: the document is asked for again.
load(ed) ==
    LET n == CHOOSE i \in freeLoads(ed) : TRUE
    IN  freeLoads(ed) # {} /\ Send([call(ed, "LOAD", {}) EXCEPT !.version = n])
-----------------------------------------------------------------------------
(* The editor.                                                             *)

\* change: the document shown is replaced and marked as not saved;
\* changeVersion moves, which saveDraft compares when its answer comes.
change(ed, doc) ==
    /\ ~editor[ed].loading
    /\ editor' = [editor EXCEPT ![ed].content = doc, ![ed].dirty = TRUE,
                                ![ed].moved = TRUE]
    /\ UNCHANGED <<site, revisions, requests, answers, shop, pressed, spent, overtaken>>

BeginTyping(ed) ==
    /\ Half \notin editor[ed].content /\ Edits \ made # {}
    /\ change(ed, editor[ed].content \cup {Half})
    /\ UNCHANGED made

Edit(ed, e) ==
    /\ e \in Edits \ made
    /\ change(ed, (editor[ed].content \ {Half}) \cup {e})
    /\ made' = made \cup {e}

\* saveDraft: one at a time, with the document of this moment.
startsSave_Twice(e) == e.dirty
startsSave(e) == e.dirty /\ ~e.saving
saveDraft(ed, kind) ==
    /\ startsSave(editor[ed])
    /\ editor' = [editor EXCEPT ![ed].saving = TRUE, ![ed].moved = FALSE]
    /\ Send(call(ed, kind, editor[ed].content))
    /\ UNCHANGED <<site, revisions, answers, shop, made, pressed, spent, overtaken>>

\* 1.4 s after the last change, while nothing is being saved or published;
\* also while the document is being loaded again.
Autosave(ed) == ~editor[ed].publishing /\ saveDraft(ed, "SAVE")

\* The button, which does not look at `publishing'.
PressSave(ed) == ~editor[ed].loading /\ saveDraft(ed, "PRESS")

\* publish: first the document is saved, then the draft is published.
PressPublish(ed) ==
    /\ ~editor[ed].publishing /\ ~editor[ed].loading /\ spent.presses < Presses
    /\ editor' = [editor EXCEPT ![ed].publishing = TRUE]
    /\ Send(call(ed, "PUT", editor[ed].content))
    /\ pressed' = pressed \cup {editor[ed].content}
    /\ spent' = [spent EXCEPT !.presses = @ + 1]
    /\ UNCHANGED <<site, revisions, answers, shop, made, overtaken>>

dirtyAfterSave_Always(e) == FALSE
dirtyAfterSave(e) == e.moved

\* The answers.  A save that failed leaves the tab dirty, and so does one that
\* was overtaken by a change; a publication that succeeded marks the tab as
\* saved whatever was changed meanwhile.  Every notice is followed by a load:
\* all of these give one, but for the autosave that succeeds.
ReceiveSave(a) ==
    /\ a.kind \in {"SAVE", "PRESS"}
    /\ editor' = [editor EXCEPT ![a.from].saving = FALSE,
            ![a.from].dirty = IF a.ok THEN dirtyAfterSave(editor[a.from]) ELSE @,
            ![a.from].loading = @ \/ ~(a.ok /\ a.kind = "SAVE")]
    /\ IF a.ok /\ a.kind = "SAVE" THEN UNCHANGED requests ELSE load(a.from)
    /\ UNCHANGED overtaken

ReceivePut(a) ==
    /\ a.kind = "PUT" /\ a.ok
    /\ Send(call(a.from, "PUBLISH", {})) /\ UNCHANGED <<editor, overtaken>>

ReceivePublish(a) ==
    /\ a.kind \in {"PUBLISH", "PUBLISHING"} \/ (a.kind = "PUT" /\ ~a.ok)
    /\ editor' = [editor EXCEPT ![a.from].publishing = FALSE,
                                ![a.from].dirty = @ /\ ~a.ok,
                                ![a.from].loading = TRUE]
    /\ load(a.from) /\ UNCHANGED overtaken

\* The document replaces what the tab shows, saved or not; a load that fails
\* gives a notice and is tried again.
ReceiveLoad(a) ==
    /\ a.kind = "LOAD"
    /\ IF a.ok
       THEN /\ editor' = [editor EXCEPT ![a.from].content = a.doc,
                              ![a.from].dirty = FALSE, ![a.from].loading = FALSE]
            /\ overtaken' = IF a.old THEN overtaken ELSE overtaken \ {a.from}
            /\ UNCHANGED requests
       ELSE /\ editor' = [editor EXCEPT ![a.from].loading = TRUE]
            /\ Send([call(a.from, "LOAD", {}) EXCEPT !.version = a.version])
            /\ UNCHANGED overtaken

Receive(a) ==
    /\ answers' = answers \ {a}
    /\ ReceiveSave(a) \/ ReceivePut(a) \/ ReceivePublish(a) \/ ReceiveLoad(a)
    /\ UNCHANGED <<site, revisions, shop, made, pressed, spent>>

\* The workspace is rendered for another reason: a notice is closed, the menu
\* opened, an image archived.
RenderWorkspace(ed) ==
    /\ spent.renderings < Renderings
    /\ spent' = [spent EXCEPT !.renderings = @ + 1]
    /\ load(ed)
    /\ editor' = [editor EXCEPT ![ed].loading = TRUE]
    /\ UNCHANGED <<site, revisions, answers, shop, made, pressed, overtaken>>

\* The tab is left and opened again, or a new order makes the workspace load
\* its data: the editor starts anew.  It is taken to wait for no answer then.
Reopen(ed) ==
    /\ ~busy(ed) /\ freeLoads(ed) = 1 .. Loads /\ editor[ed] # loaded(site.draft)
    /\ load(ed)
    /\ editor' = [editor EXCEPT ![ed] = [loaded(@.content) EXCEPT !.loading = TRUE]]
    /\ UNCHANGED <<site, revisions, answers, shop, made, pressed, spent, overtaken>>
-----------------------------------------------------------------------------
(* The server.                                                             *)

Answer(c, ok) ==
    /\ requests' = requests \ {c}
    /\ answers' = answers \cup {answer(c, ok)}

\* getAdminContent: the draft of this moment.
ServeLoad(c) ==
    /\ c.kind = "LOAD"
    /\ requests' = requests \ {c}
    /\ answers' = answers \cup {[answer(c, TRUE) EXCEPT !.doc = site.draft]}
    /\ UNCHANGED <<site, revisions, editor, shop, made, pressed, spent, overtaken>>

\* saveDraft: the draft is replaced; nothing tells from which draft the
\* document was made.
ServeDraft(c) ==
    /\ c.kind \in {"SAVE", "PRESS", "PUT"}
    /\ requests' = requests \ {c}
    /\ IF validateSiteContent(c.doc)
       THEN /\ site' = [site EXCEPT !.draft = c.doc]
            /\ overtaken' = overtaken \cup (Editors \ {c.from})
            /\ answers' = {[a EXCEPT !.old = @ \/ (a.kind = "LOAD" /\ a.from # c.from)] :
                             a \in answers} \cup {answer(c, TRUE)}
       ELSE /\ answers' = answers \cup {answer(c, FALSE)}
            /\ UNCHANGED <<site, overtaken>>
    /\ UNCHANGED <<revisions, editor, shop, made, pressed, spent>>

\* publish: the row is read ...
ReadForPublish(c) ==
    /\ c.kind = "PUBLISH"
    /\ requests' = (requests \ {c}) \cup
         {[c EXCEPT !.kind = "PUBLISHING", !.doc = site.draft, !.version = site.version]}
    /\ UNCHANGED <<site, revisions, editor, answers, shop, made, pressed, spent, overtaken>>

sameVersion_Any(c) == TRUE
sameVersion(c) == site.version = c.version

\* ... and what was read is published, unless the version moved.
WritePublish(c) ==
    /\ c.kind = "PUBLISHING"
    /\ Answer(c, sameVersion(c))
    /\ IF sameVersion(c)
       THEN /\ site' = [site EXCEPT !.published = c.doc, !.version = c.version + 1]
            /\ revisions' = revisions \cup
                              {[version |-> c.version + 1, content |-> c.doc]}
       ELSE UNCHANGED <<site, revisions>>
    /\ UNCHANGED <<editor, shop, made, pressed, spent, overtaken>>

\* A request does not arrive, or its answer does not.
Fail(c) ==
    /\ spent.faults < Faults /\ c.kind # "PUBLISHING"
    /\ spent' = [spent EXCEPT !.faults = @ + 1]
    /\ Answer(c, FALSE)
    /\ UNCHANGED <<site, revisions, editor, shop, made, pressed, overtaken>>

LoseAnswer(a) ==
    /\ spent.faults < Faults /\ a.ok
    /\ spent' = [spent EXCEPT !.faults = @ + 1]
    /\ answers' = (answers \ {a}) \cup {[a EXCEPT !.ok = FALSE, !.doc = {}, !.old = FALSE]}
    /\ UNCHANGED <<site, revisions, editor, requests, shop, made, pressed, overtaken>>
-----------------------------------------------------------------------------
(* The store front, rendered again every 15 seconds or later.              *)

getPublished == site.published

revalidates == TRUE
Render ==
    /\ revalidates
    /\ shop # getPublished /\ shop' = getPublished
    /\ UNCHANGED <<site, revisions, editor, requests, answers, made, pressed, spent, overtaken>>

\* getPublishedSiteContent without an answer of the API.
RenderDefaults ==
    /\ spent.outages < Outages /\ shop # DEFAULT_SITE_CONTENT
    /\ spent' = [spent EXCEPT !.outages = @ + 1]
    /\ shop' = DEFAULT_SITE_CONTENT
    /\ UNCHANGED <<site, revisions, editor, requests, answers, made, pressed, overtaken>>

Serve(c) == ServeLoad(c) \/ ServeDraft(c) \/ ReadForPublish(c) \/ WritePublish(c)

Next ==
    \/ \E ed \in Editors :
         \/ BeginTyping(ed) \/ \E e \in Edits : Edit(ed, e)
         \/ Autosave(ed) \/ PressSave(ed) \/ PressPublish(ed)
         \/ RenderWorkspace(ed) \/ Reopen(ed)
    \/ \E c \in requests : Serve(c) \/ Fail(c)
    \/ \E a \in answers : Receive(a) \/ LoseAnswer(a)
    \/ Render \/ RenderDefaults

Spec == Init /\ [][Next]_contentVars

\* The server answers, the timer of the autosave fires and pages are rendered
\* again as long as they are visited.
FairSpec ==
    /\ Spec
    /\ WF_contentVars(\E c \in requests : Serve(c))
    /\ WF_contentVars(\E a \in answers : Receive(a))
    /\ \A ed \in Editors : WF_contentVars(Autosave(ed))
    /\ WF_contentVars(Render)
-----------------------------------------------------------------------------
(* Properties.                                                             *)

\* Documents and versions are what the schema stores (SiteContent,
\* SiteContentRevision), and a tab waits for as many answers as it has calls.
TypeOK ==
    /\ site.draft \in Documents /\ site.published \in Documents
    /\ site.version \in 1 .. Presses + 1
    /\ \A ed \in Editors :
         LET kindsOf == {c.kind : c \in {x \in requests : x.from = ed}}
                          \cup {a.kind : a \in {x \in answers : x.from = ed}}
         IN  /\ editor[ed].saving <=> kindsOf \cap {"SAVE", "PRESS"} # {}
             /\ editor[ed].publishing
                  <=> kindsOf \cap {"PUT", "PUBLISH", "PUBLISHING"} # {}
             /\ editor[ed].loading => "LOAD" \in kindsOf
             /\ kindsOf \subseteq Kinds

\* Nothing half typed is ever published, though it is sent again and again
\* while it is being typed (validateSiteContent).
NothingUnfinished == Half \notin site.draft /\ Half \notin site.published

\* Every version since the first has one revision and the last one is what is
\* published, whoever publishes at the same time (publish).
VersionsAreComplete ==
    /\ Cardinality(revisions) = site.version - 1
    /\ {r.version : r \in revisions} = 2 .. site.version
    /\ \A r \in revisions : r.version = site.version => r.content = site.published

\* The store shows only what was once published, never a draft (README:49).
ShopShowsPublished ==
    shop \in {DEFAULT_SITE_CONTENT} \cup {r.content : r \in revisions}

\* The history of the site is whole: every version that was published is in it
\* once, the last one is what is published, nothing half typed ever gets there,
\* and the store front shows one of them or the content it was built with.
HistoryIsComplete == VersionsAreComplete /\ NothingUnfinished /\ ShopShowsPublished

\* What is published was shown by an editor in which Publicar was pressed
\* (README:49).
OnlyPressedIsPublished ==
    site.published \in pressed \cup {DEFAULT_SITE_CONTENT}

\* A tab that shows itself as saved and waits for nothing shows what is stored:
\* `dirty' forgets no change (saveDraft, load).  For one editor.
CleanIsSaved ==
    \A ed \in Editors : ~busy(ed) /\ ~editor[ed].dirty => editor[ed].content = site.draft

\* A change of a tab that shows itself as not saved stays on the screen until
\* it is stored (README:49: changes are first saved as a draft).
EditsAreKept ==
    [][\A ed \in Editors : \A e \in editor[ed].content \cap Edits :
         editor[ed].dirty => e \in editor'[ed].content \/ e \in site'.draft]_contentVars

\* A publication succeeds only if no other session saved the content since the
\* publishing one loaded it (publish's ConflictException).
PublishSeesOthers ==
    [][\A c \in requests :
         c.kind = "PUBLISHING" /\ c \notin requests' /\ site'.version > site.version
             => c.from \notin overtaken]_contentVars

\* The store changes only to what was just published (README:49).
ShopChangesByPublish == [][shop' # shop => shop' = site.published]_contentVars

Typed(ed, e) == e \in editor[ed].content /\ editor[ed].dirty
Stored(ed, e) == e \in site.draft \/ e \notin editor[ed].content

\* No edit stays for ever in an unsaved tab: it is stored, or a load after a
\* save that failed or was refused has taken it off the screen (the autosave).
EditsSettle == \A ed \in Editors : \A e \in Edits : Typed(ed, e) ~> Stored(ed, e)

\* What is published reaches the store, outages or not (revalidate).
ShopFollows == <>[](shop = site.published)
=============================================================================

-------------------------- MODULE SiteContentRules --------------------------
(***************************************************************************)
(* The rules of a site document (site-content.validation.ts).  The same    *)
(* function guards what is saved and reshapes it (blanks are trimmed, web  *)
(* addresses are written by URL.toString()), and it is applied again to    *)
(* what was stored each time the store or the editor reads it.             *)
(*                                                                         *)
(* A document is cut to one field of each kind.  A text is its length and  *)
(* whether blanks surround it; an address is its scheme, its length and    *)
(* what toString() makes of that: longer (letters outside ASCII are        *)
(* escaped, a host gets its slash) or shorter (a default port, "..").      *)
(***************************************************************************)
EXTENDS Integers, FiniteSets, Sequences

CONSTANTS
    MaxText,        \* the limit of a text: 40 to 700 in the code
    MaxUrl,         \* 2000
    MaxNavigation,  \* 8
    MaxSections,    \* 12
    Types,          \* STOREFRONT_SECTION_TYPES
    Names,          \* ids of navigation entries and sections
    Growth          \* bound: by how much toString() may change the length of an address

RulesAssumption ==
    {MaxText, MaxUrl, MaxNavigation, MaxSections, Growth} \subseteq Nat

VARIABLES
    stored,     \* the document in the row
    served      \* what reading it gave since it was saved, or Unread

rulesVars == <<stored, served>>

Texts == [pad : BOOLEAN, len : 0 .. MaxText + 1]
Urls == {u \in [scheme : {"PATH", "WEB", "MAPS", "SCRIPT"}, len : 1 .. MaxUrl + 1,
                grow : 0 - Growth .. Growth] :
           u.len + u.grow > 0 /\ (u.scheme \in {"PATH", "SCRIPT"} => u.grow = 0)}
          \cup {[scheme |-> "NONE", len |-> 0, grow |-> 0]}
Refused == [refused |-> TRUE]
Unread == [refused |-> FALSE]

\* text: trimmed, not empty unless allowed, not longer than its limit.
text(t) == [t EXCEPT !.pad = FALSE]
textOk(t, max, allowEmpty) == t.len <= max /\ (allowEmpty \/ t.len > 0)

safeUrl_Again(u) == IF u.scheme \in {"WEB", "MAPS"} THEN [u EXCEPT !.len = @ + u.grow] ELSE u
\* safeUrl: a path of the store as it is, or a web address as URL writes it; the
\* limit is of what was sent.  What toString() wrote it writes again as it is.
safeUrl(u) == IF u.scheme \in {"WEB", "MAPS"}
              THEN [u EXCEPT !.len = @ + u.grow, !.grow = 0] ELSE u
safeScheme == {"PATH", "WEB", "MAPS"}
safeUrlOk(u, allowEmpty) ==
    /\ u.len <= MaxUrl
    /\ u.scheme \in safeScheme \/ (allowEmpty /\ u.scheme = "NONE")

\* link: the label and the address are completed together.
link(l) == [label |-> text(l.label), href |-> safeUrl(l.href)]
linkOk(l) == textOk(l.label, MaxText, FALSE) /\ safeUrlOk(l.href, FALSE)

Distinct(seq, F(_)) == \A i, j \in DOMAIN seq : F(seq[i]) = F(seq[j]) => i = j
idOf(item) == item.id
typeOf(item) == item.type

\* The entries of the menu, and the sections of the home page.
navigationOk(nav) ==
    /\ Len(nav) \in 1 .. MaxNavigation
    /\ Distinct(nav, idOf)
    /\ \A i \in DOMAIN nav : nav[i].known

sectionsOk(secs) ==
    /\ Len(secs) \in 1 .. MaxSections
    /\ Distinct(secs, idOf)
    /\ \A i \in DOMAIN secs : secs[i].type \in Types
    /\ Distinct(secs, typeOf)

\* The contact: e-mail and telephone have their form, the map is an address of
\* Google Maps, the social networks may be missing.
contactOk(c) ==
    /\ c.email /\ c.phone
    /\ safeUrlOk(c.map, FALSE) /\ c.map.scheme = "MAPS"
    /\ safeUrlOk(c.social, TRUE)

accepts(doc) ==
    /\ textOk(doc.title, MaxText, FALSE)
    /\ textOk(doc.note, MaxText, TRUE)
    /\ safeUrlOk(doc.image, FALSE)
    /\ linkOk(doc.link)
    /\ navigationOk(doc.navigation)
    /\ sectionsOk(doc.sections)
    /\ contactOk(doc.contact)

validateSiteContent(doc) ==
    [doc EXCEPT !.title = text(@), !.note = text(@), !.image = safeUrl(@),
                !.link = link(@),
                !.contact.map = safeUrl(@), !.contact.social = safeUrl(@)]
-----------------------------------------------------------------------------
(* What an editor can send: the stored document with one field changed.    *)

plain == [pad |-> FALSE, len |-> 1]
path == [scheme |-> "PATH", len |-> 1, grow |-> 0]
maps == [scheme |-> "MAPS", len |-> 1, grow |-> 0]

DEFAULT_SITE_CONTENT ==
    LET anId == CHOOSE n \in Names : TRUE
    IN  [title |-> plain, note |-> plain, image |-> path,
         link |-> [label |-> plain, href |-> path],
         navigation |-> <<[id |-> anId, known |-> TRUE]>>,
         sections |-> <<[id |-> anId, type |-> CHOOSE t \in Types : TRUE]>>,
         contact |-> [email |-> TRUE, phone |-> TRUE, map |-> maps,
                      social |-> [scheme |-> "NONE", len |-> 0, grow |-> 0]]]

Entries == [id : Names, known : BOOLEAN]
Sections == [id : Names, type : Types \cup {"UNKNOWN"}]
UpToTwo(S) == {<<>>} \cup {<<x>> : x \in S} \cup {<<x, y>> : x, y \in S}

inputs ==
    {[stored EXCEPT !.title = t] : t \in Texts}
      \cup {[stored EXCEPT !.note = t] : t \in Texts}
      \cup {[stored EXCEPT !.image = u] : u \in Urls}
      \cup {[stored EXCEPT !.link.href = u] : u \in Urls}
      \cup {[stored EXCEPT !.navigation = n] : n \in UpToTwo(Entries)}
      \cup {[stored EXCEPT !.sections = n] : n \in UpToTwo(Sections)}
      \cup {[stored EXCEPT !.contact.map = u] : u \in Urls}
      \cup {[stored EXCEPT !.contact.email = b] : b \in BOOLEAN}
      \cup {[stored EXCEPT !.contact.phone = b] : b \in BOOLEAN}

Init == stored = DEFAULT_SITE_CONTENT /\ served = Unread

\* saveDraft: the document is stored as the rules wrote it.
saveDraft(input) ==
    /\ accepts(input)
    /\ stored' = validateSiteContent(input)
    /\ served' = Unread

\* getPublished, getPreview and getAdminContent: the stored document passes
\* through the rules again; a refused one is answered with 400.
get ==
    /\ served' = IF accepts(stored) THEN validateSiteContent(stored) ELSE Refused
    /\ UNCHANGED stored

Next == get \/ \E input \in inputs : saveDraft(input)

Spec == Init /\ [][Next]_rulesVars
-----------------------------------------------------------------------------
(* Properties.                                                             *)

addressesOf(doc) == {doc.image, doc.link.href, doc.contact.map, doc.contact.social}

\* What was saved reads as it was saved ('Borrador guardado.'): the rules change
\* their own results no further, and refuse them only for an address that became
\* longer than the limit when URL.toString() wrote it, after it was measured.
ServedAsStored ==
    served # Unread =>
        \/ served = stored
        \/ served = Refused /\ \E u \in addressesOf(stored) : u.len > MaxUrl

\* What the code does not have: whatever was saved can be read.
SavedCanBeRead == served # Refused

\* Nothing that is read carries an address the rules forbid, an unknown section
\* or one section twice (site-content.validation.spec.ts:20, :27).
ServedIsSafe ==
    served \notin {Refused, Unread} =>
        /\ \A u \in {served.image, served.link.href, served.contact.map} :
             u.scheme # "SCRIPT"
        /\ \A i, j \in DOMAIN served.sections :
             served.sections[i].type = served.sections[j].type => i = j
=============================================================================

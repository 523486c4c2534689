----------------------------- MODULE SharedLinks -----------------------------
(***************************************************************************)
(* Shared profile links of one employee, the subject: who may make them,   *)
(* what they show, and the access log                                      *)
(* (src/modules/access/shared-link.service.ts, shared-link.controller.ts,  *)
(* shared-link-matrix.ts, relationship-journal.service.ts and the link     *)
(* path of profile-assembler.service.ts).                                  *)
(***************************************************************************)
EXTENDS Naturals, FiniteSets, Requests

CONSTANTS
  Viewers,       \* employees other than the subject
  StoredLinks,   \* links that may be there to begin with
  Default,       \* the section every link shows (S1)
  Configurable,  \* the sections a creator may add
  Never,         \* the sections no link may show
  Deferred,      \* the section a profile leaves out at first (S10)
  Accesses,      \* what access the viewers may have to the subject
  Lifetimes,     \* hours a link may be asked to live
  MaxTime,       \* bound of the clock
  NoViewer

\* A request that makes a link makes the one that bears its name.
Links == StoredLinks \cup Calls
Sections == {Default} \cup Configurable \cup Never
Creators == {"ReportingLine", "ProjectLine", "PP"}
Managers == Creators \cup {"FullAccess"}
Times == 0 .. MaxTime
LinkRow == [creator : Viewers \cup {NoViewer}, recipient : Viewers \cup {NoViewer},
            sections : SUBSET Sections, expires : Nat, revoked : BOOLEAN]
FreeLink == [creator |-> NoViewer, recipient |-> NoViewer, sections |-> {}, expires |-> 0, revoked |-> FALSE]
Outcomes == {"granted", "expired", "revoked", "wrong_recipient"}

\* The three groups of sections have none in common with what is never shared.
ASSUME SharedLinksAssumption ==
  /\ Default \notin Never /\ Configurable \cap Never = {}
  /\ NoViewer \notin Viewers /\ Lifetimes \subseteq Nat /\ MaxTime \in Nat
  /\ \A a \in Accesses : \A v \in Viewers : a[v].sections \subseteq Sections

VARIABLES
  link,       \* shared_links with their sections
  access,     \* what resolveAudience says of every viewer and the subject
  employed,   \* who is not dismissed
  journal,    \* entries of kind shared_link_access: who, which link, outcome
  now,        \* the clock
  had         \* had[c]: sections a link's creator has had since c began, while the link lived

linkVars == <<link, access, employed, journal, now, had>>
Made(l) == link[l].creator # NoViewer

LinksInit(stored) ==
  /\ link = stored.link
  /\ access = stored.access /\ employed = Viewers
  /\ journal = {} /\ now = 0 /\ had = [c \in Calls |-> {}]

-----------------------------------------------------------------------------
(* The audience of the subject, the clock, and how they change.            *)

May(v, roles) == access[v].role \in roles
MayCreate(v) == May(v, Creators)
MayManage(v) == May(v, Managers)
MayReadJournal(v) == May(v, Managers)

\* Mutant: a link still works at the very instant it expires.
LateDenial(row, t) == IF row.revoked THEN "revoked" ELSE IF t > row.expires THEN "expired" ELSE "none"

\* getLifecycleDenial
Denial(row, t) == IF row.revoked THEN "revoked" ELSE IF t >= row.expires THEN "expired" ELSE "none"

\* listActiveForSubject
Alive(l) == Made(l) /\ ~link[l].revoked /\ link[l].expires > now

\* What a link entitles to at this moment, and what a call that uses one has
\* been entitled to since it began.
SharedBy(row, a) == row.sections \cap a[row.creator].sections
Using(c) == call[c].pc = "clamp"
Watch(a) == had' = [c \in Calls |-> IF Using(c) THEN had[c] \cup SharedBy(link[call[c].link], a) ELSE had[c]]

AccessChanges ==
  /\ access' \in Accesses /\ access' # access
  /\ Watch(access')
  /\ UNCHANGED <<link, employed, journal, now, requestVars>>

Dismissal ==
  /\ \E v \in employed : employed' = employed \ {v}
  /\ UNCHANGED <<link, access, journal, now, had, requestVars>>

Tick ==
  /\ now < MaxTime /\ now' = now + 1
  /\ UNCHANGED <<link, access, employed, journal, had, requestVars>>

-----------------------------------------------------------------------------
(* Making a link.                                                          *)

\* createLink: neither for oneself nor to oneself, and only in a line with the
\* subject (assertCanCreate); the recipient is employed.
BeginLink(c) ==
  /\ At(c, "idle")
  /\ \E creator, recipient \in Viewers, asked \in SUBSET (Configurable \cup Never), hours \in Lifetimes :
       Become(c, IF creator # recipient /\ MayCreate(creator)
                 THEN [pc |-> "recipient", viewer |-> creator, recipient |-> recipient,
                       asked |-> asked, hours |-> hours]
                 ELSE [pc |-> "refused"])
  /\ Reads /\ UNCHANGED linkVars

\* assertValidRecipient: the recipient is employed.
ValidRecipient(v) == v \in employed

\* normalizeRequestedSections: what may be asked for, and what a link starts with.
Shareable(asked) == asked \subseteq Configurable
WithDefault(asked) == {Default} \cup asked

CheckRecipient(c) ==
  /\ At(c, "recipient")
  /\ Goto(c, IF ValidRecipient(call[c].recipient) /\ Shareable(call[c].asked) THEN "sections" ELSE "refused")
  /\ Reads /\ UNCHANGED linkVars

\* The creator's access is resolved again: no section beyond it.
GrantSections(c) ==
  /\ At(c, "sections")
  /\ Goto(c, IF WithDefault(call[c].asked) \subseteq access[call[c].viewer].sections
             THEN "saveLink" ELSE "refused")
  /\ Reads /\ UNCHANGED linkVars

\* resolveExpiresAt
ExpiresAt(hours) == now + hours

SaveLink(c) ==
  /\ At(c, "saveLink")
  /\ link' = [link EXCEPT ![c] = [creator |-> call[c].viewer, recipient |-> call[c].recipient,
                sections |-> WithDefault(call[c].asked), expires |-> ExpiresAt(call[c].hours), revoked |-> FALSE]]
  /\ Goto(c, "done") /\ Commits(c)
  /\ UNCHANGED <<access, employed, journal, now, had>>

-----------------------------------------------------------------------------
(* Managing links.                                                         *)

\* revokeLink: the permission, then the row; a revoked link stays as it is.
BeginRevoke(c) ==
  /\ At(c, "idle")
  /\ \E v \in Viewers, l \in Links :
       Become(c, IF MayManage(v) THEN [pc |-> "findLink", link |-> l] ELSE [pc |-> "refused"])
  /\ Reads /\ UNCHANGED linkVars

FindLink(c) ==
  /\ At(c, "findLink")
  /\ Goto(c, IF ~Made(call[c].link) THEN "refused"
             ELSE IF link[call[c].link].revoked THEN "done" ELSE "revoke")
  /\ Reads /\ UNCHANGED linkVars

RevokeLink(c) ==
  /\ At(c, "revoke")
  /\ link' = [link EXCEPT ![call[c].link].revoked = TRUE]
  /\ Goto(c, "done") /\ Commits(c)
  /\ UNCHANGED <<access, employed, journal, now, had>>

\* listActiveForSubject: what lives now, once the permission is checked.
BeginListLinks(c) ==
  /\ At(c, "idle")
  /\ \E v \in Viewers : Become(c, IF MayManage(v) THEN [pc |-> "listLinks", shown |-> {}]
                                  ELSE [pc |-> "refused"])
  /\ Reads /\ UNCHANGED linkVars

ListLinks(c) ==
  /\ At(c, "listLinks")
  /\ call' = [call EXCEPT ![c].pc = "done",
       ![c].shown = {l \in Links : Alive(l)}]
  /\ Reads /\ UNCHANGED linkVars

\* getAccessLog: the journal checks the reader a second time.
BeginAccessLog(c) ==
  /\ At(c, "idle")
  /\ \E v \in Viewers, l \in Links :
       Become(c, IF MayManage(v) /\ Made(l)
                 THEN [pc |-> "readLog", viewer |-> v, link |-> l, log |-> {}]
                 ELSE [pc |-> "refused"])
  /\ Reads /\ UNCHANGED linkVars

ReadLog(c) ==
  /\ At(c, "readLog")
  /\ call' = [call EXCEPT ![c].pc = IF MayReadJournal(call[c].viewer) THEN "done" ELSE "refused",
                          ![c].log = {e \in journal : e.link = call[c].link}]
  /\ Reads /\ UNCHANGED linkVars

-----------------------------------------------------------------------------
(* Using a link.                                                           *)

\* consumeProfile finds the link and judges the row it has read.
BeginConsume(c) ==
  /\ At(c, "idle")
  /\ \E v \in Viewers, l \in Links :
       LET row == link[l]
           outcome == IF Denial(row, now) # "none" THEN Denial(row, now)
                      ELSE IF row.recipient # v THEN "wrong_recipient" ELSE "granted"
       IN /\ Become(c, IF Made(l)
               THEN [pc |-> IF outcome = "granted" THEN "clamp" ELSE "record", viewer |-> v, link |-> l,
                     outcome |-> outcome, profile |-> {}]
               ELSE [pc |-> "refused"])
          /\ had' = [had EXCEPT ![c] = IF outcome = "granted" THEN SharedBy(row, access) ELSE {}]
  /\ Reads /\ UNCHANGED <<link, access, employed, journal, now>>

\* assembleProfile: the viewer's own access, resolved once; leaves are left for
\* a request of their own.
BeginProfile(c) ==
  /\ At(c, "idle")
  /\ \E v \in Viewers :
       /\ Become(c, [pc |-> "assemble", viewer |-> v, outcome |-> "own", profile |-> access[v].sections \ Deferred])
       /\ had' = [had EXCEPT ![c] = access[v].sections]
  /\ Reads /\ UNCHANGED <<link, access, employed, journal, now>>

\* computeClampedSectionIds: what the creator may still see, of what was shared.
ClampSections(c) ==
  /\ At(c, "clamp")
  /\ LET row == link[call[c].link]
     IN call' = [call EXCEPT ![c].profile = row.sections \cap access[row.creator].sections,
                             ![c].pc = "assemble"]
  /\ Reads /\ UNCHANGED linkVars

\* loadSection: a section whose provider fails, is not registered or answers
\* with nothing is shown without its data.
Loads(sections) == SUBSET sections

\* assembleWithAudiences
AssembleProfile(c) ==
  /\ At(c, "assemble")
  /\ \E loaded \in Loads(call[c].profile) :
       call' = [call EXCEPT ![c].profile = loaded, ![c].pc = IF call[c].outcome = "own" THEN "done" ELSE "record"]
  /\ Reads /\ UNCHANGED linkVars

\* Mutant: only refusals are recorded before the answer.
RecordRefusals(c) ==
  /\ At(c, "record")
  /\ journal' = IF call[c].outcome = "granted" THEN journal
                ELSE journal \cup {[who |-> call[c].viewer, link |-> call[c].link, outcome |-> call[c].outcome]}
  /\ Goto(c, IF call[c].outcome = "granted" THEN "done" ELSE "refused") /\ Commits(c)
  /\ UNCHANGED <<link, access, employed, now, had>>

\* recordAccessAttempt, before anything is answered.
RecordAccess(c) ==
  /\ At(c, "record")
  /\ journal' = journal \cup {[who |-> call[c].viewer, link |-> call[c].link, outcome |-> call[c].outcome]}
  /\ Goto(c, IF call[c].outcome = "granted" THEN "done" ELSE "refused") /\ Commits(c)
  /\ UNCHANGED <<link, access, employed, now, had>>

-----------------------------------------------------------------------------
BeginLinks(c) == BeginLink(c) \/ BeginRevoke(c) \/ BeginListLinks(c) \/ BeginAccessLog(c)
                 \/ BeginConsume(c) \/ BeginProfile(c)

ServeLinks(c) ==
  \/ CheckRecipient(c) \/ GrantSections(c) \/ SaveLink(c) \/ FindLink(c) \/ RevokeLink(c)
  \/ ListLinks(c) \/ ReadLog(c) \/ ClampSections(c) \/ AssembleProfile(c) \/ RecordAccess(c)

LinkSurroundings == AccessChanges \/ Dismissal \/ Tick

-----------------------------------------------------------------------------
(* Properties.                                                             *)

LinksTypeOK ==
  /\ link \in [Links -> LinkRow] /\ employed \subseteq Viewers /\ now \in Times
  /\ journal \subseteq [who : Viewers, link : Links, outcome : Outcomes]
  /\ had \in [Calls -> SUBSET Sections]

\* A profile that a link has disclosed to somebody went to the recipient, is in
\* the access log, and shows only what the creator could see at some moment
\* since a living link was presented: an access lost before that is not shared,
\* however long ago the link was made (consumeProfile).
DisclosureIsAuthorized ==
  LinksTypeOK /\ \A c \in Calls : At(c, "done") /\ "profile" \in DOMAIN call[c] =>
    /\ call[c].profile \subseteq had[c]
    /\ call[c].outcome # "own" =>
         /\ call[c].viewer = link[call[c].link].recipient /\ call[c].profile \cap Never = {}
         /\ [who |-> call[c].viewer, link |-> call[c].link, outcome |-> "granted"] \in journal

\* A link is never prolonged, redirected or brought back: once it has been
\* revoked or has expired it is dead for everybody, and whatever was in the log
\* stays there, whatever requests were under way (revokeLink, createLink).
DeadLinksStayDead ==
  [][/\ journal \subseteq journal'
     /\ \A l \in Links : Made(l) =>
          /\ [link[l] EXCEPT !.revoked = TRUE] = [link'[l] EXCEPT !.revoked = TRUE]
          /\ link[l].revoked => link'[l].revoked
          /\ link[l].revoked \/ now >= link[l].expires =>
               \A c \in Calls : At(c, "idle") => call'[c].pc # "clamp" \/ call'[c].link # l]_<<linkVars, requestVars>>
=============================================================================

# Verification of the Unsloppers back end

This directory holds TLA+ models of the HR back end in this repository
(NestJS, Prisma, PostgreSQL), the TLC instances that check them, and TLAPS
proofs about them. The models are of the server's own logic: what its handlers
read, check and write, in which order, in which transaction, and what happens
when several of them run at once, fail half-way or are overtaken by time.

Contents

1. [The system](#1-the-system)
2. [The modules](#2-the-modules)
3. [The runs and their bounds](#3-the-runs-and-their-bounds)
4. [Fairness](#4-fairness)
5. [What is proved](#5-what-is-proved)
6. [Where the code and its documentation disagree](#6-where-the-code-and-its-documentation-disagree)
7. [What is not modelled](#7-what-is-not-modelled)
8. [State of the plan](#8-state-of-the-plan)

## 1. The system

One Node process serves HTTP requests; a request is an asynchronous handler
that interleaves with the others at every `await`. All durable state is in one
PostgreSQL database, reached through Prisma at READ COMMITTED unless a
transaction asks for more. The process keeps two things in memory: the access
cache with the generation it mirrors, and the leaves cache.

| component | state | operations | hard part |
|---|---|---|---|
| Resourcing (`modules/resourcing`) | `resourcing_requests`, `resourcing_proposals` | createRequest, createProposal, submit, decide | approvals racing for the last slots of a headcount; checks made before a row lock; a reviewer resolved from data that changes |
| Access resolver (`modules/access`) | in-memory cache and generation, `access_graph_generation` | resolveAudience, bump, loadGeneration | cache fills in flight across invalidations; bumps before a commit; replies out of order; live legs and the clock |
| Temporal history (`prisma/extensions`) | four effective-dated tables | create (close, insert, record), same-day amend | Serializable conflicts; checks outside the transaction; manual entries created meanwhile |
| Timeline (`modules/timeline`) | `timeline_events` | manual create, update, soft delete; system record; mark skipped | unique active key per source; updates by id of rows deleted meanwhile |
| Mentorship (`modules/mentorship`) | `mentorship_pairs`, `openToMentoring` | createPair, endPair, updateOpenToMentoring | one active mentor per mentee; consent read before the transaction |
| Campaigns, action items | `form_campaigns`, `action_items` | create, update, saveAudience, activate; complete, cancel | activation of a draft that is being edited; one item per recipient; complete against cancel |
| Projects synchronisation (`modules/integrations`) | `project_assignments`, a `running` flag | sync on a timer | a late or failed synchronisation against the 4 h confirmation window |
| Leaves synchronisation | per-employee cache | sync, read | partial months, failures, stale entries |
| Functional roles | roles, permissions, assignments | create, update, delete, assign, unassign | never removing the last administrator |
| Shared links | `shared_links`, access log | create, consume, revoke, list | revocation between check and use; expiry; a creator who loses access |
| Directory (`modules/directory`) | employees, custom fields and values, saved views and shares | list, export, field edits, definitions, shares | pages that move under an export; masking against access that changes; values against definitions; shares replaced by two writers |
| CDS | assessments, IDP records | create, update, complete | a completed plan must not change |
| Contacts, documents, photos | rows and files | create, update, delete, upload, download | validation of a stale merge; file and row out of step |
| Feedbacks, notes, risks | rows | CRUD, lists by audience and flags, the dashboard of risks | a gate passed before the read; two different walks that must agree on a scope |
| Users, sessions, dashboards | rows | CRUD, reads | none that is not a single statement or a read |

How they interact: nearly every handler first asks the access resolver for the
viewer's audience; the resolver reads the relationship graph (managers, people
partners, project assignments, departments, grants) that the synchronisation,
the seed and the organisation writers change, each write bumping the generation
through the Prisma extension. The employment-history extension writes a
timeline event in the same transaction as a history row; mentorship writes
timeline events too. Activating a campaign creates action items. Dashboards and
the profile only read.

What makes each component correct, in short: resourcing never approves more
than asked for and never loses a verdict; a cached access answer is never
better than what the viewer is entitled to; a history is an unbroken chain whose
links agree with the timeline; a mentee has one mentor; a campaign creates one
item per recipient; the last administrator stays; a revoked link serves nothing.

## 2. The modules

**`Resourcing`** models `resourcing.service.ts`. Variables `request` and
`proposal` are the two tables, `lock[r]` is PostgreSQL's row lock taken by
`SELECT ... FOR UPDATE`, `call[c]` is where an HTTP call is between two awaits
and what it has read, `env` is the directory as other services left it. One
action per awaited step: `BeginPropose / ProposeRoute / ProposeInsert`
(createProposal), `BeginSubmit / SubmitRoute / SubmitCount / ResolveProject /
ResolveAuthorDm / ResolveAuthorPm / ResolveManager / SubmitWrite` (submit and
`resolveReviewingDmId`), `BeginDecide / DecideLock / DecideRead / DecideCount /
DecideWrite / DecideCommit` (decide), `CreateRequest`, `Die` (a lost connection
or crash: the transaction rolls back) and `DirectoryChanges`.

**`ApprovalLedger`** is what resourcing promises: requests that open, take
candidates, go under review, and verdicts that each happen in one atomic step
within the headcount. `Resourcing!ImplementsLedger` is the refinement.

**`AccessCache`** models `resolveAudience`, the generation service and the
relationship-graph extension for one viewer and one subject. `graph` is the set
of facts the database holds about the pair (`rl`, `asg`, `due`, `pl`, `pp`,
`hr`, `fa`); an audience is the set of matched legs, as far as two answers can
be told apart by role and sections. `Resolve` looks at entry and generation
synchronously, `Read` answers the next query, `Compare` ends a revalidation,
`Store` caches a computed audience under the generation of that moment. A
writer's steps are `Commit`, `Clear`, `Upsert`, `Reply`; in an interactive
transaction (the project synchronisation) the bump precedes `Commit`. `Fail`
is an error of the write or its bump, `TimePasses` the clock, `Restart` the
process. `held`, `moved` and `clean` are history variables that record, for
each call, what held, whether the graph changed and whether a write was in
flight.

**`TemporalHistory`** models `temporal-history.extension.ts`,
`timeline.service.ts` and `timeline-event-writer.service.ts` for one employee
and one of the four kinds of history, which share no row. `history` holds the
effective-dated rows, `system` and `manual` the timeline events of that kind.
`PreRead / ExactMatch / SystemAnchor / TransitionMatch / MarkSkipped` are the
statements of a create before its transaction; `BeginTransaction` takes the
snapshot and reads the open row again; `CommitAppend` and `CommitAmend` are the
writes of the transaction, which appear at its commit; `RollBack` is a
serialization failure or the failure of any of its statements. `doomed` is how
SERIALIZABLE is modelled: the commit of a transaction that writes dooms those
that have begun and not ended. Every history transaction of an employee reads
and writes its open row, so two that overlap do conflict. Manual events are
single statements outside any transaction (`RecordManual`, `FindManual`,
`WriteEdit`, `WriteDelete`); `elsewhere` is an event that an update has moved to
another kind.

**`EffectiveDatedChain`** is what a history promises: values that only grow at
the end, the last one amendable, each announced with the value it replaced.
`TemporalHistory!ImplementsChain` is the refinement: what is in force from a day
on is the row that starts then, what is announced its system event.

**`Campaigns`** models `campaigns.service.ts`, `campaign-audience.ts` and
`action-items.service.ts`. `campaign` and `item` are the two tables (one item per
campaign and assignee, as the unique key has it, and the items made by hand),
`directory` is what employee lists answer, `call[c]` a request between two
awaits. `VisiblePage / ValidateAdded / CollectPage / SaveAudience` are
saveAudience; `BeginActivate / CollectPage / Claim / CheckRecipients / Commit`
are activateCampaign, the last three inside its transaction, which holds the
campaign's row from `Claim` on (`Locked`); its writes appear at `Commit`.
`UpdateDraft`, `CompleteItem` and `CancelItem` are conditional updates.
Employee lists are read a page at a time, each page from the directory of that
moment. `steady` is a history variable: it is reset when the directory changes,
and for an activation also when the audience of its campaign is saved.

**`CampaignLedger`** is what campaigns promise: drafts that are edited, one
activation that hands out all items at once with the campaign's text, items
settled once. `Campaigns!ImplementsCampaignLedger` is the refinement.

**`Mentorship`** models `mentorship-assignment.service.ts`,
`mentorship-pair.service.ts`, `mentorship-section.service.ts` and the pool's
controller. `pair` is `mentorship_pairs`, `timeline[p]` the career-timeline
entries of a pair in the timelines of its two people, `willing` who is open to
mentoring. `AskConsent / CheckMentee / InsertPair / CommitPair` are
the transaction of createPair, `ClosePair / CommitEnd` that of endPair; what a
transaction has written is in its call until the commit, and `KeyHeld` is
PostgreSQL's rule that an insert waits while another transaction holds the same
key of the partial unique index. `ReadFlag / ReadMentorPair / ReadMentor /
ReadMentees / ReadStatus / LoadPairHistory` are the statements of buildSection.
**`MentorRegister`** is what mentorship promises: one mentor at a time, an ended
pair stays as it was closed, both timelines say it or neither.
`Mentorship!ImplementsRegister` is the refinement.

**`Requests`** holds what the modules below share: `call[c]`, where a request is
between two awaits; `steady[c]`, a history variable that says nobody else has
committed since `c` began; `Fail`, a statement that fails; and `Clash`, when a
deleteMany and a createMany of one READ COMMITTED transaction meet keys that
came in between.

**`Configuration`** composes three components on one database:

* `FunctionalRoles`: roles with their permissions, assignments, permission
  checks and the guards of the last administrator. `held[e]` is
  `functional_role_assignments`, a role's `keys` its permission rows, each with
  the request that wrote it, so that a row deleted and written again is another row.
* `SavedViews`: views, their shares and the replacement of them.
* `SharedLinks`: one subject's links, the access of viewers to the subject, the
  clock, and the journal of accesses. `had[c]` is a history variable: what the
  creator of the link in use has been entitled to since the request began.

**`Integrations`** composes the two readers of TimeTracker in one process, with
`Restart`:

* `Timetracker` (external): what it holds, `world`, which changes; the identity
  table; the clock; and `inForce[w]`, the last moment it held `w`.
* `ProjectsSync`: `running`, and `assigned`, the rows by source key. A
  synchronisation fetches reports and projects in parallel (answers in any
  order, each from the world of that moment), maps e-mails to people to
  employees, and confirms and de-confirms in one transaction. Rows written by
  hand stand beside it.
* `LeavesSync`: the cache of single employees' months and the cache of pages,
  whose entries hold a JavaScript `Map` that loads extend in place or replace
  (`maps[x]` is the object with identity `x`). `GroupLeavePeriods` in
  `LeavePeriods` is `leave-period.mapper.ts` as a recursive function over the
  dates, one entry a date as `dedupeWorkingDaysByDate` leaves them.

**`Directory`** composes what a profile and the employee list are made of, with
`Crash`:

* `Audience`: the organisation (managers, partners, staffing, grants) as a
  whole, the legs of a viewer towards everybody and the level of every section.
  A resolution is one step here; what may happen inside one is the subject of
  `AccessCache`. `during[c]` is a history variable, every organisation since a
  request began.
* `FieldRegistry`: definitions, values in their typed columns
  (`ToStorageColumns` and `ValueOf` are the conversions of the code, dates that no calendar
  has included), visibility, and built-in fields that go into a history.
* `EmployeeList`: the catalog, filters, order, pages and masking of the list,
  and the export, which reads page after page from the database of that moment.
* `Records`: notes, feedback, risks, contacts and the address, emergency contacts,
  documents, assessments, plans and photos behind the gate of their section; files
  beside rows, with compensation; and the dashboard of risks, a walk down the
  reporting lines, which its controller makes first to refuse who has nobody and
  its service makes again. `RowFails` is the catch around the row of a photo or a
  certificate: the statement has failed with the row unwritten, or it has written
  the row (`AttachRow`, `SwapRow`) and its answer is lost; `Compensates` deletes
  the file in either case, as the code does.

`MC*` modules instantiate these for TLC, `*Proofs` modules hold the theorems. An
operator whose comment begins with "Mutant" is the form a plausible bug would
give the definition after it; it is used by no specification and shows that the
properties notice.

## 3. The runs and their bounds

| run | shows | bound, and why it is enough |
|---|---|---|
| `resourcing_decisions` | the inductive invariant, the headcount, no decision overwrites a verdict it has not read, refinement of the ledger, every call ends | 2 calls, 1 request, 2 candidates, headcount 1, 6 directories: two approvals race for the last slot, a reversal crosses an approval, the reviewer changes under a submit, a call dies with the lock the other waits for. Requests meet only on the locked row, so a second request adds nothing |
| `access_parallel_bumps` | the inductive invariant; no bump reply revives an entry; an entry computed in quiet is never stale | 2 calls, 2 writers, 2 bumps: both reply orders, both fills |
| `access_live_legs` | what revalidation reads again held during the call; an undisturbed call is exact | 1 call, every volatile fact and the clock, expiry by TTL, 1 bump |
| `temporal_history` | the inductive invariant; every link keeps the event that says what it replaced; closed links never change; refinement of `EffectiveDatedChain` | 2 calls, 2 days, 1 manual event: one create passes its checks on a row that the other amends or closes, with a manual event appearing, moving or going in between |
| `campaigns_activation` | the inductive invariant; items say what the active campaign says; an undisturbed activation reaches its audience exactly; refinement of `CampaignLedger`; every request ends | 2 requests, 1 campaign, 3 employees in pages of 2, 3 directories, 3 audiences: two activations, an edit or a save inside an activation, complete against cancel, employees moving up a page while it turns |
| `mentorship_pairs` | the inductive invariant (one active mentor, both timelines agree with the pairs); a section loses no pair, and is exact if nothing was committed; refinement of `MentorRegister`; every request ends | 2 requests, 3 people, 4 pairs, of which two may be there: two assignments of one mentee, two ends of one pair, an end and an assignment of the same mentee, a section read across either. Three people let the subject be mentor and mentee |
| `configuration_requests` | roles, permissions and assignments stay consistent; shares do; an undisturbed assignment leaves an administrator, an undisturbed share is exact; a link discloses only what its creator could share, to its recipient, and leaves its entry; a dead link stays dead; every request ends | 2 requests of one kind (roles, views and links share no table, so a request of another kind only adds commits that are no business of the first; the proofs mix them); 2 stored roles (the built-in one, held or not, and one that administers as well), 1 view, already shared, 1 link or none, and what 2 requests add; 3 users of views, clock 0..1 with lifetimes of 1, so that a link expires inside a request |
| `integrations` | access ends with the confirmation, whatever is slow or fails; an undisturbed synchronisation is exact; an answer not marked stale is fresh; days are grouped into exactly the longest runs | 2 requests, 2 people, 1 project, 2 months, 5 dates, clock to 3, window and time to live 1, one change at TimeTracker, restarts: a synchronisation can be older than its window, an entry expires during a load, two loads of one month cross |
| `directory` | nothing hidden is shown; values fit their fields; no upload that succeeded loses its file; completed plans are final; undisturbed lists, exports and records are exact | 2 requests (a list or export beside a write of fields, or two about records), 3 employees in pages of 2, one move of organisation or roster at any point, one provider that may be down, a crash at any point |
| `resourcing_dm_overwritten`, `access_stale_after_bumps`, `configuration_lockout` | the disagreements of section 6 | smallest instance that shows each |

The passing runs take one to five minutes each with two workers. `CHECK_DEADLOCK
FALSE` stands where each request of an instance is served once and the system
then stops.

Bounds in the modules: `Resourcing!RoomForProposal` (a row left for every
createProposal in flight), `AccessCache!MaxGeneration` (bumps),
`TemporalHistory!ManualIds` (manual events ever created), `MaxTime`/`LastTime`
(clocks), `MaxMoves` and `MaxChanges` (changes of the surroundings). A request of
`Campaigns` and of all modules after it is served once; `PageSize` and
`MaxPageSize` stand for the 100 of the code. Rows are made under the name of the
request that makes them, or from the rows still free. Symmetry is used for
interchangeable employees, requests, candidates, calls and writers in safety
runs only.

`MCIntegrations!MCInit` and `MCDirectory!MCInit` start from a few combinations
instead of the product of all tables: in `Integrations` assignments and leaves
share no state of theirs, and `Directory` takes its organisation, roster and
definitions in four combinations that tell cases apart, and one move leads from
these to the others.

## 4. Fairness

Safety runs assume none. `Resourcing!FairSpec` assumes that a handler whose next
step is enabled takes it (the event loop drives it), and strong fairness for the
three steps that wait for a row lock, which PostgreSQL grants in queue order. It
assumes nothing of users: no call ever has to begin.

`Campaigns!FairSpec` assumes strong fairness of `Serve(c)`, the next step of a
request that has begun: the event loop and the database drive it, and a claim or
a save that waits for the campaign's row gets it in queue order. Nothing is
assumed of `Fail`, of new requests or of the directory, so `RequestsEnd` holds
while the table changes under the page loops for ever.

`Mentorship!FairSpec` and `Configuration!FairSpec` assume weak fairness of the
next step of each request that has begun. Weak is enough: what one waits for (a
row, a key of a unique index) is held by one other request, which ends. Their
`RequestsEnd` therefore says that nobody waits in a circle.

`Integrations` and `Directory` are checked for safety only. Their requests take
a bounded number of steps and wait for no other request; whether TimeTracker
answers is not the code's to promise, and a walk over a cyclic reporting line
would not end (section 6).

## 5. What is proved

`ResourcingProofs` proves for all employees, requests, candidates, calls and
headcounts: the inductive invariant `IInv` (`InvariantHolds`), the headcount
(`HeadcountTheorem`), that a decision builds on the status it read
(`NoLostDecision`), that verdicts exist only under review (`VerdictsTheorem`)
and that the calls implement the ledger (`LedgerRefinement`). The headcount is
not inductive: an approval between its count and its commit relies on nobody
else approving meanwhile. `LockHeld` says the call owns the row lock,
`SlotStillFree` that its slot is still there, `DecisionBuildsOnCurrentStatus`
that its candidate is still as read, and `CallsKnowTheirRows` that it works on a
candidate of the request it locked.

`AccessCacheProofs` proves for all calls, writers, graphs and bounds that the
types hold together with `RepliesAreNew` (`InvariantHolds`), and from it that a
bump's reply leaves nothing usable behind (`BumpsRetireEntries`): the rows the
database hands out are pairwise different and newer than every label in use, so
reordered replies can move the mirror backwards but never onto an old label.
A second invariant, `AnswersInv`, is about what is read (`AnswersAlwaysFit`): the
reads a call has behind it held while it ran, hold still if the graph has not
moved, and, as far as an entry remembers them, hold still if no write was in
flight (`ReadsHold`); no read is made twice (`CallFits`); and a clean entry
remembers what holds or is about to be removed by the write that changed it
(`EntryFits`). From it follow that clean entries serve nothing stale
(`CleanEntriesTheorem`), that the legs which are read again on every hit held
during the call (`LiveLegsTheorem`), and that an undisturbed call is exact
(`UndisturbedCallTheorem`).

`TemporalHistoryProofs` proves for all calls, days, values and manual events
the inductive invariant (`HistoryInvariant`), the chain with its timeline
(`ChainAndTimeline`), that closed rows are final (`ClosedRowsStay`) and that
history and timeline implement the abstract chain (`HistoryImplementsChain`).
The chain alone is not inductive: an append relies on the row it has read being
open still, which `TransactionReadsHold` says of every transaction that is not
doomed, and the new event on no other event of its day, which `EventsHaveLinks`
gives (an event stands on a day only with its row). The refinement needs that
the value before a day is the row that ends on it: the fourth conjunct of
`ChainIsUnbroken`. What the proof takes from PostgreSQL is the `doomed` rule.

`CampaignsProofs` proves for any number of requests, campaigns and employees the
inductive invariant (`InvariantHolds`), that items say what their active
campaign says (`ItemsAlwaysMatch`) and that requests implement `CampaignLedger`
(`CampaignsImplementLedger`). The items' text is not inductive: a commit relies
on `ClaimHolds`, which says that from its claim to its end a transaction has the
only claim on its campaign, the campaign is a draft, and the text it read under
the lock is the current one. A campaign that is still a draft has no items, so
the commit overwrites none. `ActivationsAreExact` says that an activation nothing
disturbs creates one item for everybody its audience names and for nobody else,
for every page size and every directory. It needs a second invariant,
`AudienceInv`, because what makes it true happens pages before the items exist:
what an undisturbed activation has collected are the matches up to a position, as
many as it has counted, until the count reaches the total (`KnowsTheAudience`).
`PagesAddUp` is the arithmetic of that loop: pages are disjoint intervals of
positions, and as many matches as there are, are all of them.

`MentorshipProofs` proves for any number of requests, people and pairs the
inductive invariant (`InvariantHolds`) and that requests implement
`MentorRegister` (`MentorshipKeepsRegister`). One active mentor per mentee is not
inductive: a pair in a transaction is not in the table yet. `PendingIsValid` says
what an uncommitted insert or close relies on, `KeysAreExclusive` that two
uncommitted inserts never carry the same mentee, and `CallsKnowTheirRows` that a
close works on a pair that is there. The refinement maps the mentor a mentee has
now to the pair that `MentorPairOf` finds, which the index makes the only one.
`SectionsAreFaithful` is about the section, which is read by five statements
outside any transaction. That it loses no pair is a statement about its end;
`SectionInv` says for every statement before it which pairs are accounted for: a
pair that has been found, or is active and found by a later statement, or has ended
and is in the history, which is read last (`AccountedFor`). A pair never moves
the other way (`RowsGoOn`), which is why the order of the statements matters.
`StandsStill` and `Exact` are the same for a section that nothing disturbs.

`ConfigurationProofs` proves for any number of requests, viewers, links, roles
and views the inductive invariant of links (`LinksAlwaysHold`), that a link
discloses only what its creator was entitled to, to its recipient, with an entry
in the log (`DisclosureTheorem`), and that a dead link stays dead
(`DeadLinksTheorem`). Disclosure is a statement about answered requests, and
not inductive: a request looks its link up once, judges the row it has read, and
reads access, assembles and records in later steps. `CallsFit` says which data a
request about links can have at which step (`UseState`, `OwnState`, `MakeState`,
`RevokeState`; `Other` is every request about something else), `UsesHold` what
a request that uses a link may rely on at each (an outcome that grants came from
the recipient, a record that has answered is in the journal), `ProfilesAreTheirs`
that a profile in hand stays within `had[c]`, `LinksAreShareable` and
`MadeAtTheEnd` that the table holds no other links than the checks of a creation
let through. The proof assumes that the default, configurable and unshareable
sections are disjoint groups (`SharedLinksAssumption`) and that links which are
there to begin with were made by the same rules (`ConfigurationAssumption`).

The same module proves that roles (`RolesTheorem`) and views (`ViewsTheorem`)
stay consistent. Both are about requests that check first and write later, so
`TablesInv` adds what such a request may rely on. `TableCallsFit` says what a
request has in hand at which step; an update has checked its keys before it
deletes and inserts rows (`UpdateState`: for the HR Admin role they include the
administration of roles, so that whichever of two updates inserts last, the key is
there). `NamesAreKept` says that a name which a transaction has written and not
committed is nobody else's and no other such transaction's: this is what the
unique index and the row locks give. `SharesAreWithOthers` says that a replacement
of shares never names the owner, although it checked the owner several steps
before; views that are removed do not come back under another owner
(`ViewsAreMade`: a row made by a request is not there before it). That a key or a
recipient never appears twice is `RowsReplaced`: an insert that would meet a row
which its delete has not seen fails.

Two theorems there are about requests that nothing disturbs: a replacement of
shares leaves exactly the people that were named (`SharesAreExact`), and a change
of assignments leaves an administrator (`AnAdminIsKept`). `UndisturbedInv` says
of every step between the look and the write that what an undisturbed request has
seen is what the tables hold (`SightsFit`: the rows it will delete, the roles that
administer, the roles the employee has), and that somebody else administers or the
employee will (`SomebodyIsLeft`). That it is inductive rests on one fact about all
steps: whatever writes a table commits, and no request under way is undisturbed
after that (`CommittingKeepsSights`). The second theorem needs "undisturbed":
without it, it is false (section 6).

`IntegrationsProofs` proves for any number of requests, persons, months and
worlds the inductive invariant of synchronisations (`SyncTheorem`) and that an
assignment which gives access was so in TimeTracker within a window
(`AccessTheorem`). The property speaks of rows; what makes it true is in the
hands of the synchronisation at work, so the invariant is about that: `FetchFits`
and `MapFits` say that every answer it holds is one TimeTracker gave since the
moment it will date its confirmation with, `OneAtWork` that the flag admits one
synchronisation at a time, also after a restart, and `RowsFit` that a confirmed
row was so since its date and that all of them have one date. `MappedFits` carries
the answers through the mapper: the person of a row is one who has the member's
e-mail in a report. Time only passes (`SaidStays`): what was said since a moment
stays said. The proof assumes that rows there to begin with were left by an
earlier synchronisation, and that rows written by hand have no key of
TimeTracker's (`IntegrationsAssumption`).

`AnswersAreFresh` is about the leaves: an answer that is not marked stale says of
every month what TimeTracker said less than the time to live before the question.
The invariant `LeavesInv` (theorem `CachesAreDated`) dates everything a load may
meet: an entry of the cache of months holds what was said at its date or later,
and it is dated by the question of its load, not by the answer. The cache of pages is
harder, because its entries hold `Map` objects that several loads share, fill in
place and replace: `FilledFrom` is about the object, whoever fills it, and
`LoadFits` about every load that still may; `OwnMaps` says that an object a
request will make is in nobody's hands yet. `SeenStays` is for reports what
`SaidStays` is for assignments.

`SyncsAreExact` is about a synchronisation during which TimeTracker and the
identities stay as they are: it confirms exactly the assignments that follow from
both, and no row written by hand is touched. `SteadyInv` (`Exact`) says that its
answers, its people and their employees are what holds now. The rest is about the
mapping, by `MappedIsFed` and `FedIsMapped`: a person whom the mapper knows is the
only one with that e-mail (`PersonIsKnown`; this counts, and needs finitely many
people), and an identity that stands for another resolves to its employee
(`EmployeeIsResolved`). The assumptions on constants say of the tables what their
types and keys say: a time to live that is positive, employees who are employees,
and stored rows with a key of either source.

`GroupingTheorem` is about a loop, the mapper of leave days: for a report of any
length, the periods are the longest runs of days of one kind, every run once, in
the order of their dates. The loop is a recursive function of the dates, and the
proof an induction over them (`NatByNat`, from `LeastNat`, which is proved here):
`GroupedUpTo` says of the first so many dates that the periods so far are the
longest runs within them, and that the last period ends on a leave day just seen,
which decides whether the next day prolongs it. It assumes that the number of dates
is a natural number and that no leave is not a kind of leave
(`LeavePeriodsAssumption`).

`DirectoryProofs` proves for any number of requests, employees, records and files
that the file a photo or a document names is there unless the upload of that very
file was answered with an error (`FilesAreThereAlways`) and that a completed plan is
final (`CompletedPlansAreFinalAlways`), from the inductive invariant `RecordsInv`
(`RecordsHold`). `FilesAreThere` alone is not inductive: an upload deletes the file
of the photo it has replaced several awaits after it has looked, and by then
another upload may have replaced it. `PreviousIsGone` says that the file it will
delete is nobody's photo any more, except that of the employee whose photo it is
about to replace; this holds because a file is put in its place once, by the
request that saved it (`Placed`, `UploadsHaveFiles`), and no photo has a document's
file. A row that was written and whose answer is lost puts its file in place and
loses it in the same step; the request ends with the error, and nobody else gets
that file, so the damage stays with the upload that was told so. Without the
exception the statement is false (section 6).
`CompletionHolds` and `FoundHolds` say what a change relies on between the
look and the write; `NamedAfterwards` that nobody names a record before the
request that makes it has answered or its statement has failed.

`NothingHiddenIsEverShown` and `ValuesAreAlwaysKept` follow from `ShowsInv`
(`ShowsHold`). A list resolves audiences, reads the roster, asks providers and
masks rows in different steps, over several pages in an export, and what it shows was
allowed by audiences that are minutes old. So the invariant says of every row
already masked that each of its cells was open in an organisation of the
request's time (`RowIsOpen`), and of every audience, field and definition it still
goes on with that it is one of such an organisation (`ListState`, `ValuesState`,
`SectionState`); `TimesFit` says that the organisation of now is among them.
Definitions are only added and changed as the registry does (`Lasts`), and
`ValuesFit` that a stored value fits the definition it is read back by. What a
page holds does not depend on how the roster is sorted: `SortedPeople` and
`PagesFit` use only that sorting permutes. The assumptions are those of the
tables the system may start with (`RecordsAssumption`, `RegistryAssumption`,
`ListAssumption`).

`RecordsAreExact` is about requests about records that nothing disturbs. Its
invariant `ExactInv` (`ExactAlways`) says of every step between a look and the
answer that what was looked up still holds (`Undisturbed`). The hard part is the
dashboard of risks. It goes down the reporting lines, level by level, while the
gate goes up from an employee, at most as many steps as there are employees; that
both find the same people is a fact about the organisation, not about a step.
`Follows` says where the walk is: everybody it has met is below the viewer, and
whoever it has met and is not in the queue has no report it has not met. So when
the queue is empty it has met everybody below (`WalksDown`, by `ReportsAreBelow`
and `ReportsAreAll`). A report's line may be cut off one manager earlier than the
manager's own line; it meets the viewer all the same, because a line that long has
met somebody twice and goes round (`MetBeforeTheEnd`, a pigeonhole argument).
`RisksAreOpen` then says that whoever is shown is one for whom the resolver opens
S6, whichever of the legs applies (`UnionIsHighest`). The proof is for organisations
with cycles, too; it says nothing of a walk that a cycle keeps going. It assumes
that an employee has one manager, an employee, or none (`OrgAssumption`, the column
`managerId` of the schema), and that the routes are those of the controllers
(`MayBeAsked`). Induction over the steps of a line is proved here, for sets of
natural numbers, from facts about finite sets: one that has no least number
would let the numbers below it be mapped one to one into fewer (`LeastNatural`,
`Induction`).

`ListsAreExact` is about lists and exports that nothing disturbs, while no provider
fails them: the answer has exactly the matching people, each once, at their
places, and exactly the cells the viewer may see with the values they have. Its
invariant `ListsInv` (`ListsHold`) has two parts. `ListUndisturbed` says at every
step what has been gathered: the fields are those the viewer is shown, the
audiences those of the organisation, the snapshots those of the roster; the page at
hand is the part of the whole answer that begins at its offset (`BatchIsExact`),
and the pages an export has read are everything before that (`PagesAreExact`), so
that the last page ends where the answer does. Since every one of these speaks of
tables that others may write, it needs the fact that a request which is still
undisturbed has the tables it began with (`ListStaysExact`). `PlacesFit` says that
whatever is stored or in the roster can be compared.

What remains is about order. A place is the number of people who stand before
somebody, and in a strict total order no two have the same (`PlacesDiffer`), all
are within the number of people (`PlacesAreWithin`), an arrangement exists
(`ArrangementExists`), and in any arrangement everybody stands at their place
(`PlacesInArrangement`). `BeforeIsOrder` shows that the comparison is such an order
in either direction: `Null` is last, values of one place are told apart by the
identifiers. `CellsAreCurrent` and `FoundAreListed` are about values kept
elsewhere: somebody whose S12 the viewer may not see is ordered as one who has
nothing, and is not found by a filter on it, although the value that is read is
there. The assumptions say that whatever the tables may hold in a sortable column
has a place among the values of its column and that identifiers differ
(`OrderAssumption`), and that a query is a list or an export, ascending or
descending (`ListAssumption`).

The proofs assume only the named assumptions of the modules. Model-checked only
are:

* liveness (`RequestsEnd`, `CallsEnd`): its proofs need ENABLED;
* the violations of section 6, which are refuted.

## 6. Where the code and its documentation disagree

Three have a run with a counterexample:

* `ReviewingDmStoredOnce`: two submits that both read a request open; the later
  one replaces the stored reviewing DM ("stored once, immutable").
* `NoStaleEntryAfterBumps`: a fill that read the old graph is labelled with the
  new generation and stays usable; so is one made between a bump inside a
  transaction and its commit. The cache is off by default
  (`ACCESS_RESOLUTION_CACHE_ENABLED`).
* `SomebodyManagesRoles`: the guard of the last administrator watches
  assignments only; an update of a role takes the permission from the last one
  who has it ("Cannot remove the last employee who holds
  manage_functional_roles"). Two concurrent changes of assignments, each
  checked before its own delete, can do so as well.

Others are in the models as the code has them, without a run of their own:

* `createProposal` ("`open` requests only") inserts a candidate after a submit
  that came between its check and its insert.
* Submit may store no reviewer ("always resolves in practice"); nothing can
  decide or reopen the request then.
* A manual event recorded after a create's conflict look-up does not suppress it
  ("creates nothing"), and a duplicate manual event is answered with the one
  already there ("maps duplicate manual key to ConflictException").
* `updateManualEvent` changes an event that was deleted after it was found.
* A feedback's separate permission never has an effect: whoever has S8 in
  writing has it without.
* The dashboard of risks shows people by the three walks of
  `listS6SubjectIds`; those whose S6 is open by a grant or by HR's chain are
  not among them, although `section-access-gate.contract.ts` (lines 24-27)
  describes the scope by the section.
* The walk down the reporting lines (`section-access-gate.service.ts`, line 125)
  remembers nobody it has visited: a cycle of managers would keep it going. The
  organisations of `MCDirectory` have none.
* The leaves section shows a stale answer without its mark.
* When the row of a photo or a certificate is committed and its answer is lost (a
  connection that breaks), the catch around the statement (`documents.service.ts`
  lines 99-102, `identity.service.ts` lines 41-44) takes it for unwritten and
  deletes the file of a row in use, although "file bytes live on local disk via
  storageKey" (`prisma/schema.prisma`, line 671). `RowFails` does so, and
  `FilesAreThere` is what holds all the same: it excepts an upload that was
  answered with an error, and no other. The model has the row written by the time
  of the catch; a commit the database makes only after it ends in the same state
  and is not a step of its own.
* The employee list masks each row by the viewer's audience over that row, and so
  does `EmployeeList`. `defects/bugs/02-employees-list-authorization-gap.md`
  decides otherwise ("stays as-is — intentionally not colleague-whitelist-scoped",
  "No production code change") and was not brought up to date.
* An export reports as unavailable the fields of the last page that had any,
  not of all pages.
* Two changes of one contact, each valid beside the stored other half, can cross
  into a contact that fits neither; `UndisturbedRecordIsExact` excludes it.

## 7. What is not modelled

`PROJECT.json` lists every component with its status and what of it is left out.

* Dashboards, sessions, users, wiring of providers, throttling, filters,
  configuration and the seed: reads of what others keep, single-row writes, or
  framework code without state of its own.
* Read-only queries of modelled components that no property needs: the lists and
  histories of resourcing requests, the previews and completion lists of
  campaigns, the lists of action items and of the timeline.
* `DashboardAudienceService`, which repeats the walks of the section gate for
  another page.
* Formatting, URLs, names and texts; request bodies beyond the conditions the
  handlers themselves check; HTTP and retries inside it.
* A walk up the chain of managers is one read of the organisation: a walk torn
  by two moves that are committed between its statements is not in the models.

## 8. State of the plan

The modules above are the plan's, in its order: resourcing, access, temporal
history, campaigns, mentorship, then synchronisations, configuration and the
directory, each with its instance and mutants, and proofs for all of them: every
safety property of a passing run is a theorem. What would add most next: the torn
walk of the manager chain, and the dashboards, which read what these modules keep.

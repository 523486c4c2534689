------------------------------ MODULE Campaigns ------------------------------
(***************************************************************************)
(* Form campaigns and the action items they create                         *)
(* (src/modules/campaigns/campaigns.service.ts, campaign-audience.ts and   *)
(* src/modules/action-items/action-items.service.ts).                      *)
(*                                                                         *)
(* A call is one HTTP request.  Between its awaits other calls run and the *)
(* employee table changes.  A campaign's title, description, link and due  *)
(* date are one text: they are edited and copied together.  Row locks last *)
(* from a transaction's write of a campaign to its end.                    *)
(***************************************************************************)
EXTENDS Naturals, FiniteSets

CONSTANTS
  Calls,         \* requests, each served once
  Campaigns,     \* rows of form_campaigns
  Employees,     \* numbered in the order employee lists are sorted
  Creator,       \* the employee who owns the campaigns
  ManualItems,   \* action items made by hand
  Texts, NoText,
  Filters, NoFilter,   \* field filters an audience may have, or none
  PageSize,      \* MAX_PAGE_SIZE of an employee list
  Directories,   \* what the employee table may say
  Audiences,     \* audience definitions a creator may send
  Nothing        \* what an idle call works on

ItemIds == (Campaigns \X Employees) \cup ManualItems

\* listed: who has a row; matching: whom a filter selects; active: employment.
DirectoryRow == [listed : SUBSET Employees, matching : [Filters -> SUBSET Employees],
                 active : SUBSET Employees]

\* Filters, and the employees named beside them.
Definition == [filter : Filters \cup {NoFilter}, added : SUBSET Employees, excluded : SUBSET Employees]

ASSUME CampaignsAssumption ==
  /\ Employees \subseteq Nat /\ IsFiniteSet(Employees)
  /\ PageSize \in Nat \ {0}
  /\ Directories \subseteq DirectoryRow
  /\ Audiences \subseteq Definition
  /\ NoText \notin Texts /\ NoFilter \notin Filters
  /\ (Campaigns \X Employees) \cap ManualItems = {}

VARIABLES
  campaign,    \* the table form_campaigns
  item,        \* the table action_items, one item per campaign and assignee
  directory,   \* the employee table
  call,        \* where each request is and what it has read
  steady       \* steady[c]: what c works from has not changed since it began

vars == <<campaign, item, directory, call, steady>>

CampaignRow == [status : {"none", "draft", "active"}, text : Texts \cup {NoText},
                filter : Filters \cup {NoFilter},
                added : SUBSET Employees, excluded : SUBSET Employees]
ItemRow == [status : {"none", "open", "completed", "cancelled"}, text : Texts \cup {NoText}]

Pcs == {"idle", "update", "visible", "validate", "collect", "save", "claim", "check", "commit",
        "complete", "cancel", "done", "refused"}
CallState == [pc : Pcs, on : Campaigns \cup ItemIds \cup {Nothing}, then : {"save", "claim"},
              text : Texts \cup {NoText}, filter : Filters \cup {NoFilter},
              added : SUBSET Employees, excluded : SUBSET Employees,
              page : Nat, count : Nat, found : SUBSET Employees]

NoCampaign == [status |-> "none", text |-> NoText, filter |-> NoFilter, added |-> {}, excluded |-> {}]
NoItem == [status |-> "none", text |-> NoText]
Idle == [pc |-> "idle", on |-> Nothing, then |-> "save", text |-> NoText, filter |-> NoFilter,
         added |-> {}, excluded |-> {}, page |-> 1, count |-> 0, found |-> {}]

\* normalizeAudienceDefinition lets an exclusion win over an addition.
Added(a) == a.added \ a.excluded

Draft(t, a) == [status |-> "draft", text |-> t, filter |-> a.filter,
                added |-> Added(a), excluded |-> a.excluded]

\* Drafts may be stored, with or without an audience.
Init ==
  /\ campaign \in [Campaigns -> {NoCampaign} \cup {Draft(t, a) : t \in Texts, a \in Audiences}]
  /\ item = [i \in ItemIds |-> NoItem]
  /\ directory \in Directories
  /\ call = [c \in Calls |-> Idle]
  /\ steady = [c \in Calls |-> TRUE]

Goto(c, pc) == call' = [call EXCEPT ![c].pc = pc]
Tables == <<campaign, item, directory, steady>>

-----------------------------------------------------------------------------
(* Audiences.                                                              *)

\* queryEmployees sorts the matches and cuts out one page.
Position(e, all) == Cardinality({d \in all : d <= e})
Page(all, n) == {e \in all : (n - 1) * PageSize < Position(e, all) /\ Position(e, all) <= n * PageSize}

\* resolveAudienceIds
ResolveAudience(found, added, excluded) == (found \ excluded) \cup added
Recipients(c) == ResolveAudience(call[c].found, call[c].added, call[c].excluded)

Matching(filter) == IF filter = NoFilter THEN {} ELSE directory.matching[filter]

\* What comes after the matches are known: a save refuses an exclusion of
\* somebody who is not among them.
AfterMatches(then, excluded, found) ==
  IF then = "save" /\ ~(excluded \subseteq found) THEN "refused" ELSE then

\* collectFilterMatchIds asks for no page when there are no filters.
Collecting(then, filter, excluded) ==
  IF filter = NoFilter THEN AfterMatches(then, excluded, {}) ELSE "collect"

\* Mutant: the loop over the pages is forgotten.
CollectFirstPage(c) ==
  /\ call[c].pc = "collect"
  /\ LET found == Page(Matching(call[c].filter), 1)
     IN call' = [call EXCEPT ![c].found = found,
                             ![c].pc = AfterMatches(call[c].then, call[c].excluded, found)]
  /\ UNCHANGED Tables

\* One page of collectFilterMatchIds: on while fewer ids than the total.
CollectPage(c) ==
  /\ call[c].pc = "collect"
  /\ LET all == Matching(call[c].filter)
         rows == Page(all, call[c].page)
         found == call[c].found \cup rows
         count == call[c].count + Cardinality(rows)
     IN call' = [call EXCEPT
          ![c].found = found, ![c].count = count,
          ![c].page = IF count >= Cardinality(all) THEN @ ELSE @ + 1,
          ![c].pc = IF count >= Cardinality(all)
                      THEN AfterMatches(call[c].then, call[c].excluded, found) ELSE @]
  /\ UNCHANGED Tables

\* Mutant: the loop asks for the same page again.
VisibleSamePage(c) ==
  /\ call[c].pc = "visible"
  /\ LET last == call[c].page * PageSize >= Cardinality(directory.listed)
     IN call' = [call EXCEPT
          ![c].found = @ \cup Page(directory.listed, call[c].page),
          ![c].pc = IF last THEN "validate" ELSE @]
  /\ UNCHANGED Tables

\* One page of collectVisibleEmployeeIds: on while the pages are below the total.
VisiblePage(c) ==
  /\ call[c].pc = "visible"
  /\ LET last == call[c].page * PageSize >= Cardinality(directory.listed)
     IN call' = [call EXCEPT
          ![c].found = @ \cup Page(directory.listed, call[c].page),
          ![c].page = IF last THEN @ ELSE @ + 1,
          ![c].pc = IF last THEN "validate" ELSE @]
  /\ UNCHANGED Tables

\* validateAddedEmployeeIds: added employees are visible and active.
ValidateAdded(c) ==
  /\ call[c].pc = "validate"
  /\ call' = [call EXCEPT
       ![c].pc = IF call[c].added \subseteq call[c].found \cap directory.active
                   THEN Collecting("save", call[c].filter, call[c].excluded) ELSE "refused",
       ![c].page = 1, ![c].count = 0, ![c].found = {}]
  /\ UNCHANGED Tables

-----------------------------------------------------------------------------
(* Drafts.                                                                 *)

\* A transaction that has claimed the campaign holds its row until it ends.
Locked(k) == \E c \in Calls : call[c].on = k /\ call[c].pc \in {"check", "commit"}

CreateCampaign(k, t) ==
  /\ campaign[k].status = "none"
  /\ campaign' = [campaign EXCEPT ![k] = [NoCampaign EXCEPT !.status = "draft", !.text = t]]
  /\ UNCHANGED <<item, directory, call, steady>>

BeginUpdate(c, k, t) ==
  /\ call[c].pc = "idle" /\ campaign[k].status # "none"
  /\ call' = [call EXCEPT ![c] = [Idle EXCEPT !.pc = "update", !.on = k, !.text = t]]
  /\ UNCHANGED Tables

\* updateMany waits for the row and then looks at its status.
UpdateDraft(c) ==
  /\ call[c].pc = "update" /\ ~Locked(call[c].on)
  /\ IF campaign[call[c].on].status = "draft"
       THEN /\ campaign' = [campaign EXCEPT ![call[c].on].text = call[c].text]
            /\ Goto(c, "done")
       ELSE Goto(c, "refused") /\ UNCHANGED campaign
  /\ UNCHANGED <<item, directory, steady>>

BeginSave(c, k, a) ==
  /\ call[c].pc = "idle" /\ campaign[k].status # "none"
  /\ call' = [call EXCEPT ![c] =
       [Idle EXCEPT !.on = k, !.filter = a.filter, !.added = Added(a), !.excluded = a.excluded,
                    !.pc = IF Added(a) = {} THEN Collecting("save", a.filter, a.excluded)
                                            ELSE "visible"]]
  /\ UNCHANGED Tables

SaveAudience(c) ==
  /\ call[c].pc = "save" /\ ~Locked(call[c].on)
  /\ IF campaign[call[c].on].status = "draft"
       THEN /\ campaign' = [campaign EXCEPT ![call[c].on].filter = call[c].filter,
                                            ![call[c].on].added = call[c].added,
                                            ![call[c].on].excluded = call[c].excluded]
            /\ steady' = [d \in Calls |-> steady[d] /\ call[d].on # call[c].on]
            /\ Goto(c, "done")
       ELSE Goto(c, "refused") /\ UNCHANGED <<campaign, steady>>
  /\ UNCHANGED <<item, directory>>

-----------------------------------------------------------------------------
(* Activation.                                                             *)

\* activateCampaign reads the draft and resolves its audience outside the transaction.
BeginActivate(c, k) ==
  /\ call[c].pc = "idle" /\ campaign[k].status = "draft"
  /\ call' = [call EXCEPT ![c] =
       [Idle EXCEPT !.on = k, !.then = "claim", !.text = campaign[k].text,
                    !.filter = campaign[k].filter, !.added = campaign[k].added,
                    !.excluded = campaign[k].excluded,
                    !.pc = Collecting("claim", campaign[k].filter, campaign[k].excluded)]]
  /\ steady' = [steady EXCEPT ![c] = TRUE]
  /\ UNCHANGED <<campaign, item, directory>>

\* Mutant: the items take the text of the first read.
ClaimKeepsText(c) ==
  /\ call[c].pc = "claim" /\ ~Locked(call[c].on)
  /\ Goto(c, IF campaign[call[c].on].status = "draft" THEN "check" ELSE "refused")
  /\ UNCHANGED Tables

\* Mutant: the status is looked at without waiting for the row.
ClaimWithoutWaiting(c) ==
  /\ call[c].pc = "claim"
  /\ IF campaign[call[c].on].status = "draft"
       THEN call' = [call EXCEPT ![c].pc = "check", ![c].text = campaign[call[c].on].text]
       ELSE Goto(c, "refused")
  /\ UNCHANGED Tables

\* The conditional update, and the row read again under its lock.
Claim(c) ==
  /\ call[c].pc = "claim" /\ ~Locked(call[c].on)
  /\ IF campaign[call[c].on].status = "draft"
       THEN call' = [call EXCEPT ![c].pc = "check", ![c].text = campaign[call[c].on].text]
       ELSE Goto(c, "refused")
  /\ UNCHANGED Tables

\* runCampaignActivation up to its inserts: no items yet, author and assignees active.
CheckRecipients(c) ==
  /\ call[c].pc = "check"
  /\ IF /\ \A e \in Employees : item[<<call[c].on, e>>].status = "none"
        /\ Recipients(c) # {} => Recipients(c) \cup {Creator} \subseteq directory.active
       THEN Goto(c, "commit") ELSE Goto(c, "refused")
  /\ UNCHANGED Tables

\* The inserts show, with the new status, at the commit.
Commit(c) ==
  /\ call[c].pc = "commit"
  /\ campaign' = [campaign EXCEPT ![call[c].on].status = "active"]
  /\ item' = [i \in ItemIds |->
                IF i \in {call[c].on} \X Recipients(c)
                  THEN [status |-> "open", text |-> call[c].text] ELSE item[i]]
  /\ Goto(c, "done")
  /\ UNCHANGED <<directory, steady>>

\* Any statement may fail; a transaction that has begun rolls back.
Fail(c) ==
  /\ call[c].pc \notin {"idle", "done", "refused"}
  /\ Goto(c, "refused")
  /\ UNCHANGED Tables

-----------------------------------------------------------------------------
(* Action items.                                                           *)

CreateManualItem(i, t) ==
  /\ item[i].status = "none"
  /\ item' = [item EXCEPT ![i] = [status |-> "open", text |-> t]]
  /\ UNCHANGED <<campaign, directory, call, steady>>

\* completeActionItem and cancelActionItem read the item and go on if it is open.
BeginSettle(c, i, pc) ==
  /\ call[c].pc = "idle" /\ item[i].status = "open"
  /\ call' = [call EXCEPT ![c] = [Idle EXCEPT !.pc = pc, !.on = i]]
  /\ UNCHANGED Tables

\* Mutant: the item is completed by its id, whatever its status is by then.
CompleteItemById(c) ==
  /\ call[c].pc = "complete"
  /\ item' = [item EXCEPT ![call[c].on].status = "completed"]
  /\ Goto(c, "done")
  /\ UNCHANGED <<campaign, directory, steady>>

CompleteItem(c) ==
  /\ call[c].pc = "complete"
  /\ IF item[call[c].on].status = "open"
       THEN item' = [item EXCEPT ![call[c].on].status = "completed"] /\ Goto(c, "done")
       ELSE Goto(c, "refused") /\ UNCHANGED item
  /\ UNCHANGED <<campaign, directory, steady>>

\* Cancelling what somebody else has just cancelled is answered as done.
CancelItem(c) ==
  /\ call[c].pc = "cancel"
  /\ IF item[call[c].on].status = "open"
       THEN item' = [item EXCEPT ![call[c].on].status = "cancelled"] /\ Goto(c, "done")
       ELSE /\ Goto(c, IF item[call[c].on].status = "cancelled" THEN "done" ELSE "refused")
            /\ UNCHANGED item
  /\ UNCHANGED <<campaign, directory, steady>>

-----------------------------------------------------------------------------

DirectoryChanges ==
  /\ directory' \in Directories \ {directory}
  /\ steady' = [c \in Calls |-> FALSE]
  /\ UNCHANGED <<campaign, item, call>>

Begin(c) ==
  \/ \E k \in Campaigns, t \in Texts : BeginUpdate(c, k, t)
  \/ \E k \in Campaigns, a \in Audiences : BeginSave(c, k, a)
  \/ \E k \in Campaigns : BeginActivate(c, k)
  \/ \E i \in ItemIds, pc \in {"complete", "cancel"} : BeginSettle(c, i, pc)

\* A request that is being served goes on.
Serve(c) ==
  \/ CollectPage(c) \/ VisiblePage(c) \/ ValidateAdded(c)
  \/ UpdateDraft(c) \/ SaveAudience(c)
  \/ Claim(c) \/ CheckRecipients(c) \/ Commit(c)
  \/ CompleteItem(c) \/ CancelItem(c)

Next ==
  \/ \E k \in Campaigns, t \in Texts : CreateCampaign(k, t)
  \/ \E i \in ManualItems, t \in Texts : CreateManualItem(i, t)
  \/ \E c \in Calls : Begin(c) \/ Serve(c) \/ Fail(c)
  \/ DirectoryChanges

Spec == Init /\ [][Next]_vars
FairSpec == Spec /\ \A c \in Calls : SF_vars(Serve(c))

-----------------------------------------------------------------------------
(* Properties.                                                             *)

TypeOK ==
  /\ campaign \in [Campaigns -> CampaignRow]
  /\ item \in [ItemIds -> ItemRow]
  /\ directory \in Directories
  /\ call \in [Calls -> CallState]
  /\ steady \in [Calls -> BOOLEAN]

\* createCampaignActionItems under activateCampaign: only an active campaign
\* has items, and they say what the campaign says, whoever edited the draft
\* while it was being activated.
ItemsMatchTheCampaign ==
  \A k \in Campaigns, e \in Employees :
    item[<<k, e>>].status # "none" =>
      campaign[k].status = "active" /\ item[<<k, e>>].text = campaign[k].text

\* A transaction between its claim and its end works on a draft nobody else
\* can change, and on its current text.
ClaimHolds ==
  \A c \in Calls : call[c].pc \in {"check", "commit"} =>
    /\ campaign[call[c].on].status = "draft"
    /\ call[c].text = campaign[call[c].on].text
    /\ \A d \in Calls \ {c} : call[d].pc \in {"check", "commit"} => call[d].on # call[c].on

\* A request works on a campaign, or on an item, that exists, and an edit
\* brings a text.
CallsKnowTheirRows ==
  \A c \in Calls :
    /\ call[c].pc \in {"update", "visible", "validate", "collect", "save", "claim", "check", "commit"}
         => call[c].on \in Campaigns /\ campaign[call[c].on].status # "none"
    /\ call[c].pc \in {"complete", "cancel"}
         => call[c].on \in ItemIds /\ item[call[c].on].status # "none"
    /\ call[c].pc = "update" => call[c].text \in Texts

\* The inductive invariant of Campaigns: types, the items' text, and what
\* requests rely on between their awaits.
IInv == TypeOK /\ ItemsMatchTheCampaign /\ ClaimHolds /\ CallsKnowTheirRows

\* collectFilterMatchIds, resolveAudienceIds and the inserts together: when
\* neither the employee table nor the audience changed since activateCampaign
\* began, exactly the audience of the campaign has items, over all pages.
UndisturbedActivationIsExact ==
  \A c \in Calls : call[c].pc = "done" /\ call[c].then = "claim" /\ steady[c] =>
    LET k == call[c].on
    IN {e \in Employees : item[<<k, e>>].status # "none"} =
         ResolveAudience(Matching(campaign[k].filter), campaign[k].added, campaign[k].excluded)

\* Drafts, activations and items, seen without the requests, keep the promise
\* of CampaignLedger: one atomic activation, each item settled once.
Ledger == INSTANCE CampaignLedger WITH
  form <- [k \in Campaigns |-> [status |-> campaign[k].status, text |-> campaign[k].text]],
  task <- item
ImplementsCampaignLedger == Ledger!LedgerSpec

\* No request waits for a row or turns pages for ever: collectFilterMatchIds
\* and collectVisibleEmployeeIds end although the table changes under them.
RequestsEnd == \A c \in Calls : call[c].pc # "idle" ~> call[c].pc \in {"done", "refused"}
=============================================================================

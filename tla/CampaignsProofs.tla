--------------------------- MODULE CampaignsProofs ---------------------------
(***************************************************************************)
(* Proofs about Campaigns, for any number of requests, campaigns and       *)
(* employees: the inductive invariant, the text of the items, and that     *)
(* requests implement CampaignLedger.                                      *)
(***************************************************************************)
EXTENDS Campaigns, FiniteSetTheorems, TLAPS

\* What CallsKnowTheirRows asks of one request.
KnowsRow(s) ==
  /\ s.pc \in {"update", "visible", "validate", "collect", "save", "claim", "check", "commit"}
       => s.on \in Campaigns /\ campaign[s.on].status # "none"
  /\ s.pc \in {"complete", "cancel"} => s.on \in ItemIds /\ item[s.on].status # "none"
  /\ s.pc = "update" => s.text \in Texts

\* Lists of audiences and pages have the types of the fields they are put in.
LEMMA AudiencesAreTyped ==
  ASSUME CampaignsAssumption, TypeOK, NEW c \in Calls
  PROVE  /\ Recipients(c) \subseteq Employees
         /\ \A n : \A all \in SUBSET Employees : Page(all, n) \subseteq Employees
         /\ directory.listed \in SUBSET Employees
         /\ \A f \in Filters \cup {NoFilter} : Matching(f) \in SUBSET Employees
         /\ \A f \in Filters \cup {NoFilter}, x \in SUBSET Employees, t \in {"save", "claim"},
               y \in SUBSET Employees :
              /\ AfterMatches(t, x, y) \in {"save", "claim", "refused"}
              /\ Collecting(t, f, x) \in {"save", "claim", "refused", "collect"}
<1>1. call[c] \in CallState
  BY DEF TypeOK
<1>2. Recipients(c) \subseteq Employees
  BY <1>1 DEF Recipients, ResolveAudience, CallState
<1>3. \A n : \A all \in SUBSET Employees : Page(all, n) \subseteq Employees
  BY DEF Page
<1>4. directory \in DirectoryRow
  BY DEF CampaignsAssumption, TypeOK
<1>5. directory.listed \in SUBSET Employees
  BY <1>4 DEF DirectoryRow
<1>6. directory.matching \in [Filters -> SUBSET Employees]
  BY <1>4 DEF DirectoryRow
<1>7. \A f \in Filters \cup {NoFilter} : Matching(f) \in SUBSET Employees
  BY <1>6 DEF Matching
<1>8. ASSUME NEW t \in {"save", "claim"}, NEW x \in SUBSET Employees, NEW y \in SUBSET Employees
      PROVE  AfterMatches(t, x, y) \in {"save", "claim", "refused"}
  BY DEF AfterMatches
<1>9. \A f \in Filters \cup {NoFilter}, x \in SUBSET Employees, t \in {"save", "claim"} :
        Collecting(t, f, x) \in {"save", "claim", "refused", "collect"}
  BY <1>8 DEF Collecting
<1> QED
  BY <1>2, <1>3, <1>5, <1>7, <1>8, <1>9

\* A request that moves on outside a transaction, on a row it knows, while
\* the tables stay as they are, keeps the invariant.
LEMMA RequestMovesOn ==
  ASSUME IInv, NEW c \in Calls, NEW s \in CallState,
         call' = [call EXCEPT ![c] = s],
         UNCHANGED <<campaign, item, directory>>,
         steady' \in [Calls -> BOOLEAN],
         s.pc \notin {"check", "commit"},
         KnowsRow(s)
  PROVE  IInv'
<1>1. TypeOK'
  BY DEF IInv, TypeOK
<1>2. ItemsMatchTheCampaign'
  BY DEF IInv, ItemsMatchTheCampaign
<1>3. call \in [Calls -> CallState]
  BY DEF IInv, TypeOK
<1>4. /\ call'[c] = s
      /\ \A d \in Calls \ {c} : call'[d] = call[d]
  BY <1>3
<1>5. ClaimHolds'
  <2> SUFFICES ASSUME NEW d \in Calls, call'[d].pc \in {"check", "commit"}
               PROVE  /\ campaign[call'[d].on].status = "draft"
                      /\ call'[d].text = campaign[call'[d].on].text
                      /\ \A e \in Calls \ {d} : call'[e].pc \in {"check", "commit"} =>
                           call'[e].on # call'[d].on
    BY DEF ClaimHolds
  <2>1. d # c /\ call'[d] = call[d]
    BY <1>4
  <2> QED
    BY <2>1, <1>4 DEF IInv, ClaimHolds
<1>6. CallsKnowTheirRows'
  <2> SUFFICES ASSUME NEW d \in Calls
               PROVE  KnowsRow(call'[d])
    BY DEF CallsKnowTheirRows, KnowsRow
  <2>1. CASE d = c
    BY <2>1, <1>4
  <2>2. CASE d # c
    BY <2>2, <1>4 DEF IInv, CallsKnowTheirRows, KnowsRow
  <2> QED
    BY <2>1, <2>2
<1> QED
  BY <1>1, <1>2, <1>5, <1>6 DEF IInv

LEMMA InitHolds == CampaignsAssumption /\ Init => IInv
<1> SUFFICES ASSUME CampaignsAssumption, Init
             PROVE  IInv
  OBVIOUS
<1>1. NoCampaign \in CampaignRow
  BY DEF NoCampaign, CampaignRow
<1>2. ASSUME NEW t \in Texts, NEW a \in Audiences
      PROVE  Draft(t, a) \in CampaignRow /\ Draft(t, a).status = "draft"
  <2>1. a \in Definition
    BY DEF CampaignsAssumption
  <2> QED
    BY <2>1 DEF Draft, Added, Definition, CampaignRow
<1>3. campaign \in [Campaigns -> CampaignRow]
  BY <1>1, <1>2 DEF Init
<1>4. Idle \in CallState
  BY DEF Idle, CallState, Pcs
<1>5. TypeOK
  BY <1>3, <1>4 DEF Init, TypeOK, NoItem, ItemRow
<1>6. ItemsMatchTheCampaign
  BY DEF Init, ItemsMatchTheCampaign, ItemIds, NoItem
<1>7. ClaimHolds /\ CallsKnowTheirRows
  BY DEF Init, ClaimHolds, CallsKnowTheirRows, Idle
<1> QED
  BY <1>5, <1>6, <1>7 DEF IInv

-----------------------------------------------------------------------------
(* Steps that write a table: requests stay as they are or end.             *)

QuietCalls ==
  /\ call' \in [Calls -> CallState]
  /\ \A d \in Calls : call'[d] = call[d] \/ call'[d].pc \in {"done", "refused"}

LEMMA EndsQuietly ==
  ASSUME TypeOK, NEW c \in Calls, NEW pc \in {"done", "refused"}, Goto(c, pc)
  PROVE  QuietCalls
<1>1. call \in [Calls -> CallState] /\ call' = [call EXCEPT ![c].pc = pc]
  BY DEF TypeOK, Goto
<1>2. [call[c] EXCEPT !.pc = pc] \in CallState
  BY <1>1 DEF CallState, Pcs
<1>3. call' = [call EXCEPT ![c] = [call[c] EXCEPT !.pc = pc]]
  BY <1>1
<1>4. [call[c] EXCEPT !.pc = pc].pc = pc
  BY <1>1 DEF CallState
<1> QED
  BY <1>1, <1>2, <1>3, <1>4 DEF QuietCalls

\* A draft is written or created while no transaction holds its row.
LEMMA DraftIsWritten ==
  ASSUME IInv, QuietCalls, NEW k \in Campaigns, NEW row \in CampaignRow,
         row.status = "draft", campaign[k].status \in {"none", "draft"}, ~Locked(k),
         campaign' = [campaign EXCEPT ![k] = row],
         UNCHANGED <<item, directory>>, steady' \in [Calls -> BOOLEAN]
  PROVE  IInv'
<1>1. /\ campaign \in [Campaigns -> CampaignRow]
      /\ campaign'[k] = row
      /\ \A l \in Campaigns \ {k} : campaign'[l] = campaign[l]
  BY DEF IInv, TypeOK
<1>2. TypeOK'
  BY <1>1 DEF IInv, TypeOK, QuietCalls
<1>3. ItemsMatchTheCampaign'
  BY <1>1 DEF IInv, ItemsMatchTheCampaign
<1>4. \A d \in Calls : call'[d].pc \in {"check", "commit"} => call'[d] = call[d] /\ call[d].on # k
  BY DEF QuietCalls, Locked
<1>5. \A d \in Calls : call[d].pc \in {"check", "commit"} => call[d].on \in Campaigns
  BY DEF IInv, CallsKnowTheirRows
<1>6. ClaimHolds'
  BY <1>1, <1>4, <1>5 DEF IInv, ClaimHolds
<1>7. CallsKnowTheirRows'
  <2> SUFFICES ASSUME NEW d \in Calls
               PROVE  KnowsRow(call[d])' \/ call'[d].pc \in {"done", "refused"}
    BY DEF CallsKnowTheirRows, KnowsRow
  <2> SUFFICES ASSUME call'[d] = call[d]
               PROVE  KnowsRow(call[d])'
    BY DEF QuietCalls
  <2>1. KnowsRow(call[d])
    BY DEF IInv, CallsKnowTheirRows, KnowsRow
  <2> QED
    BY <2>1, <1>1 DEF KnowsRow
<1> QED
  BY <1>2, <1>3, <1>6, <1>7 DEF IInv

\* An item is settled, or made by hand.
LEMMA ItemIsWritten ==
  ASSUME CampaignsAssumption, IInv, QuietCalls, NEW i \in ItemIds, NEW row \in ItemRow,
         row.status # "none",
         i \in ManualItems \/ (item[i].status # "none" /\ row.text = item[i].text),
         item' = [item EXCEPT ![i] = row],
         UNCHANGED <<campaign, directory, steady>>
  PROVE  IInv'
<1>1. /\ item \in [ItemIds -> ItemRow]
      /\ item'[i] = row
      /\ \A j \in ItemIds \ {i} : item'[j] = item[j]
  BY DEF IInv, TypeOK
<1>2. TypeOK'
  BY <1>1 DEF IInv, TypeOK, QuietCalls
<1>3. ItemsMatchTheCampaign'
  <2> SUFFICES ASSUME NEW k \in Campaigns, NEW e \in Employees, item'[<<k, e>>].status # "none"
               PROVE  campaign[k].status = "active" /\ item'[<<k, e>>].text = campaign[k].text
    BY DEF ItemsMatchTheCampaign
  <2>1. <<k, e>> \in ItemIds /\ <<k, e>> \notin ManualItems
    BY DEF ItemIds, CampaignsAssumption
  <2>2. item[<<k, e>>].status # "none" /\ item'[<<k, e>>].text = item[<<k, e>>].text
    BY <2>1, <1>1
  <2> QED
    BY <2>2 DEF IInv, ItemsMatchTheCampaign
<1>4. ClaimHolds'
  BY DEF IInv, ClaimHolds, QuietCalls
<1>5. CallsKnowTheirRows'
  <2> SUFFICES ASSUME NEW d \in Calls
               PROVE  KnowsRow(call[d])' \/ call'[d].pc \in {"done", "refused"}
    BY DEF CallsKnowTheirRows, KnowsRow
  <2> SUFFICES ASSUME call'[d] = call[d]
               PROVE  KnowsRow(call[d])'
    BY DEF QuietCalls
  <2>1. KnowsRow(call[d])
    BY DEF IInv, CallsKnowTheirRows, KnowsRow
  <2> QED
    BY <2>1, <1>1 DEF KnowsRow
<1> QED
  BY <1>2, <1>3, <1>4, <1>5 DEF IInv

-----------------------------------------------------------------------------
(* One lemma for each kind of action.                                      *)

LEMMA PagesKeepIt ==
  ASSUME CampaignsAssumption, IInv, NEW c \in Calls,
         CollectPage(c) \/ VisiblePage(c) \/ ValidateAdded(c)
  PROVE  IInv'
<1>1. call \in [Calls -> CallState] /\ call[c] \in CallState
  BY DEF IInv, TypeOK
<1>2. KnowsRow(call[c]) /\ UNCHANGED <<campaign, item, directory>> /\ steady' \in [Calls -> BOOLEAN]
  BY DEF IInv, TypeOK, CallsKnowTheirRows, KnowsRow, CollectPage, VisiblePage, ValidateAdded, Tables
<1>3. /\ call[c].filter \in Filters \cup {NoFilter} /\ call[c].then \in {"save", "claim"}
      /\ call[c].excluded \in SUBSET Employees /\ call[c].found \in SUBSET Employees
      /\ call[c].page \in Nat /\ call[c].count \in Nat
  BY <1>1 DEF CallState
<1>4. CASE CollectPage(c)
  <2> DEFINE all == Matching(call[c].filter)
             rows == Page(all, call[c].page)
             found == call[c].found \cup rows
             count == call[c].count + Cardinality(rows)
             page == IF count >= Cardinality(all) THEN call[c].page ELSE call[c].page + 1
             pc == IF count >= Cardinality(all)
                     THEN AfterMatches(call[c].then, call[c].excluded, found) ELSE call[c].pc
             next == [call[c] EXCEPT !.found = found, !.count = count, !.page = page, !.pc = pc]
  <2>1. all \in SUBSET Employees /\ rows \in SUBSET Employees /\ found \in SUBSET Employees
    BY <1>3, AudiencesAreTyped DEF IInv
  <2>2. count \in Nat
    <3>1. IsFiniteSet(rows)
      BY <2>1, FS_Subset DEF CampaignsAssumption
    <3>2. Cardinality(rows) \in Nat
      BY <3>1, FS_CardinalityType
    <3> QED
      BY <1>3, <3>2
  <2>3. AfterMatches(call[c].then, call[c].excluded, found) \in {"save", "claim", "refused"}
    BY <1>3, <2>1, AudiencesAreTyped DEF IInv
  <2>4. call[c].pc = "collect"
    BY <1>4 DEF CollectPage
  <2>5. call' = [call EXCEPT ![c] = next]
    BY <1>4, <1>1 DEF CollectPage, CallState
  <2> HIDE DEF all, rows, found, count
  <2>6. page \in Nat
    BY <1>3
  <2>7. pc \in {"save", "claim", "refused", "collect"}
    BY <2>3, <2>4
  <2> HIDE DEF page, pc
  <2>8. next \in CallState
    BY <1>1, <2>1, <2>2, <2>6, <2>7 DEF CallState, Pcs
  <2>9. next.pc = pc /\ next.on = call[c].on
    BY <1>1 DEF CallState
  <2>10. KnowsRow(next)
    BY <1>2, <2>4, <2>7, <2>9 DEF KnowsRow
  <2> HIDE DEF next
  <2> QED
    BY <1>2, <2>5, <2>7, <2>8, <2>9, <2>10, RequestMovesOn
<1>5. CASE VisiblePage(c)
  <2> DEFINE last == call[c].page * PageSize >= Cardinality(directory.listed)
             found == call[c].found \cup Page(directory.listed, call[c].page)
             page == IF last THEN call[c].page ELSE call[c].page + 1
             pc == IF last THEN "validate" ELSE call[c].pc
             next == [call[c] EXCEPT !.found = found, !.page = page, !.pc = pc]
  <2>1. found \in SUBSET Employees
    BY <1>3, AudiencesAreTyped DEF IInv
  <2>2. call[c].pc = "visible"
    BY <1>5 DEF VisiblePage
  <2>3. call' = [call EXCEPT ![c] = next]
    BY <1>5, <1>1 DEF VisiblePage, CallState
  <2> HIDE DEF found
  <2>4. page \in Nat /\ pc \in {"validate", "visible"}
    BY <1>3, <2>2
  <2> HIDE DEF last, page, pc
  <2>5. next \in CallState
    BY <1>1, <2>1, <2>4 DEF CallState, Pcs
  <2>6. next.pc = pc /\ next.on = call[c].on
    BY <1>1 DEF CallState
  <2>7. KnowsRow(next)
    BY <1>2, <2>2, <2>4, <2>6 DEF KnowsRow
  <2> HIDE DEF next
  <2> QED
    BY <1>2, <2>3, <2>4, <2>5, <2>6, <2>7, RequestMovesOn
<1>6. CASE ValidateAdded(c)
  <2> DEFINE pc == IF call[c].added \subseteq call[c].found \cap directory.active
                     THEN Collecting("save", call[c].filter, call[c].excluded) ELSE "refused"
             next == [call[c] EXCEPT !.pc = pc, !.page = 1, !.count = 0, !.found = {}]
  <2>1. pc \in {"save", "claim", "refused", "collect"}
    BY <1>3, AudiencesAreTyped DEF IInv
  <2>2. call[c].pc = "validate"
    BY <1>6 DEF ValidateAdded
  <2>3. call' = [call EXCEPT ![c] = next]
    BY <1>6, <1>1 DEF ValidateAdded, CallState
  <2> HIDE DEF pc
  <2>4. next \in CallState
    BY <1>1, <1>3, <2>1 DEF CallState, Pcs
  <2>5. next.pc = pc /\ next.on = call[c].on
    BY <1>1 DEF CallState
  <2>6. KnowsRow(next)
    BY <1>2, <2>1, <2>2, <2>5 DEF KnowsRow
  <2> HIDE DEF next
  <2> QED
    BY <1>2, <2>1, <2>3, <2>4, <2>5, <2>6, RequestMovesOn
<1> QED
  BY <1>4, <1>5, <1>6

LEMMA BeginKeepsIt ==
  ASSUME CampaignsAssumption, IInv, NEW c \in Calls, Begin(c)
  PROVE  IInv'
<1>1. Idle \in CallState
  BY DEF Idle, CallState, Pcs
<1>2. UNCHANGED <<campaign, item, directory>> /\ steady' \in [Calls -> BOOLEAN]
  BY DEF Begin, BeginUpdate, BeginSave, BeginActivate, BeginSettle, Tables, IInv, TypeOK
<1>3. ASSUME NEW k \in Campaigns, NEW t \in Texts, BeginUpdate(c, k, t)
      PROVE  IInv'
  <2> DEFINE next == [Idle EXCEPT !.pc = "update", !.on = k, !.text = t]
  <2>1. next \in CallState /\ next.pc = "update" /\ next.on = k /\ next.text = t
    BY <1>1 DEF Idle, CallState, Pcs
  <2>2. KnowsRow(next)
    BY <1>3, <2>1 DEF KnowsRow, BeginUpdate
  <2>3. call' = [call EXCEPT ![c] = next]
    BY <1>3 DEF BeginUpdate
  <2> HIDE DEF next
  <2> QED
    BY <1>2, <2>1, <2>2, <2>3, RequestMovesOn
<1>4. ASSUME NEW k \in Campaigns, NEW a \in Audiences, BeginSave(c, k, a)
      PROVE  IInv'
  <2> DEFINE pc == IF Added(a) = {} THEN Collecting("save", a.filter, a.excluded) ELSE "visible"
             next == [Idle EXCEPT !.on = k, !.filter = a.filter, !.added = Added(a),
                                  !.excluded = a.excluded, !.pc = pc]
  <2>1. a \in Definition
    BY DEF CampaignsAssumption
  <2>2. /\ a.filter \in Filters \cup {NoFilter} /\ Added(a) \in SUBSET Employees
        /\ a.excluded \in SUBSET Employees
    BY <2>1 DEF Definition, Added
  <2>3. pc \in {"save", "claim", "refused", "collect", "visible"}
    BY <2>2, AudiencesAreTyped DEF IInv
  <2>4. call' = [call EXCEPT ![c] = next]
    BY <1>4 DEF BeginSave
  <2> HIDE DEF pc
  <2>5. next \in CallState /\ next.pc = pc /\ next.on = k
    BY <1>1, <2>2, <2>3 DEF Idle, CallState, Pcs
  <2>6. KnowsRow(next)
    BY <1>4, <2>3, <2>5 DEF KnowsRow, BeginSave
  <2> HIDE DEF next
  <2> QED
    BY <1>2, <2>3, <2>4, <2>5, <2>6, RequestMovesOn
<1>5. ASSUME NEW k \in Campaigns, BeginActivate(c, k)
      PROVE  IInv'
  <2> DEFINE pc == Collecting("claim", campaign[k].filter, campaign[k].excluded)
             next == [Idle EXCEPT !.on = k, !.then = "claim", !.text = campaign[k].text,
                                  !.filter = campaign[k].filter, !.added = campaign[k].added,
                                  !.excluded = campaign[k].excluded, !.pc = pc]
  <2>1. campaign[k] \in CampaignRow
    BY DEF IInv, TypeOK
  <2>2. /\ campaign[k].filter \in Filters \cup {NoFilter} /\ campaign[k].added \in SUBSET Employees
        /\ campaign[k].excluded \in SUBSET Employees /\ campaign[k].text \in Texts \cup {NoText}
    BY <2>1 DEF CampaignRow
  <2>3. pc \in {"save", "claim", "refused", "collect"}
    BY <2>2, AudiencesAreTyped DEF IInv
  <2>4. call' = [call EXCEPT ![c] = next]
    BY <1>5 DEF BeginActivate
  <2> HIDE DEF pc
  <2>5. next \in CallState /\ next.pc = pc /\ next.on = k
    BY <1>1, <2>2, <2>3 DEF Idle, CallState, Pcs
  <2>6. KnowsRow(next)
    BY <1>5, <2>3, <2>5 DEF KnowsRow, BeginActivate
  <2> HIDE DEF next
  <2> QED
    BY <1>2, <2>3, <2>4, <2>5, <2>6, RequestMovesOn
<1>6. ASSUME NEW i \in ItemIds, NEW pc \in {"complete", "cancel"}, BeginSettle(c, i, pc)
      PROVE  IInv'
  <2> DEFINE next == [Idle EXCEPT !.pc = pc, !.on = i]
  <2>1. next \in CallState /\ next.pc = pc /\ next.on = i
    BY <1>1 DEF Idle, CallState, Pcs
  <2>2. KnowsRow(next)
    BY <1>6, <2>1 DEF KnowsRow, BeginSettle
  <2>3. call' = [call EXCEPT ![c] = next]
    BY <1>6 DEF BeginSettle
  <2> HIDE DEF next
  <2> QED
    BY <1>2, <2>1, <2>2, <2>3, RequestMovesOn
<1> QED
  BY <1>3, <1>4, <1>5, <1>6 DEF Begin

\* A request that is refused, or fails, leaves the tables alone.
LEMMA RefusalKeepsIt ==
  ASSUME IInv, NEW c \in Calls, NEW pc \in {"done", "refused"}, Goto(c, pc),
         UNCHANGED <<campaign, item, directory, steady>>
  PROVE  IInv'
<1> DEFINE next == [call[c] EXCEPT !.pc = pc]
<1>1. call \in [Calls -> CallState] /\ steady' \in [Calls -> BOOLEAN]
  BY DEF IInv, TypeOK
<1>2. next \in CallState /\ next.pc = pc
  BY <1>1 DEF CallState, Pcs
<1>3. call' = [call EXCEPT ![c] = next]
  BY <1>1 DEF Goto
<1>4. KnowsRow(next)
  BY <1>2 DEF KnowsRow
<1> HIDE DEF next
<1> QED
  BY <1>1, <1>2, <1>3, <1>4, RequestMovesOn

LEMMA DraftingKeepsIt ==
  ASSUME CampaignsAssumption, IInv,
         \/ \E k \in Campaigns, t \in Texts : CreateCampaign(k, t)
         \/ \E c \in Calls : UpdateDraft(c) \/ SaveAudience(c)
  PROVE  IInv'
<1>1. campaign \in [Campaigns -> CampaignRow] /\ call \in [Calls -> CallState]
  BY DEF IInv, TypeOK
<1>2. ASSUME NEW k \in Campaigns, NEW t \in Texts, CreateCampaign(k, t)
      PROVE  IInv'
  <2> DEFINE row == [NoCampaign EXCEPT !.status = "draft", !.text = t]
  <2>1. row \in CampaignRow /\ row.status = "draft"
    BY DEF NoCampaign, CampaignRow
  <2>2. QuietCalls
    BY <1>2, <1>1 DEF CreateCampaign, QuietCalls
  <2>3. ~Locked(k)
    BY <1>2 DEF CreateCampaign, Locked, IInv, ClaimHolds
  <2>4. /\ campaign' = [campaign EXCEPT ![k] = row] /\ campaign[k].status = "none"
        /\ UNCHANGED <<item, directory>> /\ steady' \in [Calls -> BOOLEAN]
    BY <1>2 DEF CreateCampaign, IInv, TypeOK
  <2> HIDE DEF row
  <2> QED
    BY <2>1, <2>2, <2>3, <2>4, DraftIsWritten
<1>3. ASSUME NEW c \in Calls, UpdateDraft(c)
      PROVE  IInv'
  <2>1. CASE campaign[call[c].on].status = "draft"
    <3> DEFINE k == call[c].on
               row == [campaign[k] EXCEPT !.text = call[c].text]
    <3>1. k \in Campaigns
      BY <1>3 DEF UpdateDraft, IInv, CallsKnowTheirRows
    <3>2. row \in CampaignRow /\ row.status = "draft"
      <4>1. campaign[k] \in CampaignRow /\ call[c].text \in Texts \cup {NoText}
        BY <1>1, <3>1 DEF CallState
      <4> QED
        BY <4>1, <2>1 DEF CampaignRow
    <3>3. QuietCalls
      BY <1>3, <2>1, EndsQuietly DEF UpdateDraft, IInv
    <3>4. /\ campaign' = [campaign EXCEPT ![k] = row] /\ ~Locked(k)
          /\ UNCHANGED <<item, directory>> /\ steady' \in [Calls -> BOOLEAN]
      BY <1>1, <1>3, <2>1, <3>1 DEF UpdateDraft, IInv, TypeOK
    <3>5. campaign[k].status \in {"none", "draft"}
      BY <2>1
    <3> HIDE DEF k, row
    <3> QED
      BY <3>1, <3>2, <3>3, <3>4, <3>5, DraftIsWritten
  <2>2. CASE campaign[call[c].on].status # "draft"
    <3>1. Goto(c, "refused") /\ UNCHANGED <<campaign, item, directory, steady>>
      BY <1>3, <2>2 DEF UpdateDraft
    <3> QED
      BY <3>1, RefusalKeepsIt
  <2> QED
    BY <2>1, <2>2
<1>4. ASSUME NEW c \in Calls, SaveAudience(c)
      PROVE  IInv'
  <2>1. CASE campaign[call[c].on].status = "draft"
    <3> DEFINE k == call[c].on
               row == [campaign[k] EXCEPT !.filter = call[c].filter, !.added = call[c].added,
                                          !.excluded = call[c].excluded]
    <3>1. k \in Campaigns
      BY <1>4 DEF SaveAudience, IInv, CallsKnowTheirRows
    <3>2. row \in CampaignRow /\ row.status = "draft"
      <4>1. campaign[k] \in CampaignRow /\ call[c] \in CallState
        BY <1>1, <3>1
      <4>2. /\ call[c].filter \in Filters \cup {NoFilter} /\ call[c].added \in SUBSET Employees
            /\ call[c].excluded \in SUBSET Employees
        BY <4>1 DEF CallState
      <4> QED
        BY <4>1, <4>2, <2>1 DEF CampaignRow
    <3>3. QuietCalls
      BY <1>4, <2>1, EndsQuietly DEF SaveAudience, IInv
    <3>4. campaign' = [campaign EXCEPT ![k] = row]
      <4>1. campaign[k] \in CampaignRow
        BY <1>1, <3>1
      <4> QED
        BY <4>1, <1>1, <1>4, <2>1, <3>1 DEF SaveAudience, CampaignRow
    <3>5. steady' \in [Calls -> BOOLEAN]
      <4>1. \A d \in Calls : (steady[d] /\ call[d].on # call[c].on) \in BOOLEAN
        OBVIOUS
      <4>2. steady' = [d \in Calls |-> steady[d] /\ call[d].on # call[c].on]
        BY <1>4, <2>1 DEF SaveAudience
      <4> QED
        BY <4>1, <4>2, Zenon
    <3>6. ~Locked(k) /\ UNCHANGED <<item, directory>>
      BY <1>4 DEF SaveAudience
    <3>7. campaign[k].status \in {"none", "draft"}
      BY <2>1
    <3> HIDE DEF k, row
    <3> QED
      BY <3>1, <3>2, <3>3, <3>4, <3>5, <3>6, <3>7, DraftIsWritten
  <2>2. CASE campaign[call[c].on].status # "draft"
    <3>1. Goto(c, "refused") /\ UNCHANGED <<campaign, item, directory, steady>>
      BY <1>4, <2>2 DEF SaveAudience
    <3> QED
      BY <3>1, RefusalKeepsIt
  <2> QED
    BY <2>1, <2>2
<1> QED
  BY <1>2, <1>3, <1>4

LEMMA ItemStepsKeepIt ==
  ASSUME CampaignsAssumption, IInv,
         \/ \E i \in ManualItems, t \in Texts : CreateManualItem(i, t)
         \/ \E c \in Calls : CompleteItem(c) \/ CancelItem(c)
  PROVE  IInv'
<1>1. item \in [ItemIds -> ItemRow] /\ call \in [Calls -> CallState]
  BY DEF IInv, TypeOK
<1>2. ASSUME NEW i \in ManualItems, NEW t \in Texts, CreateManualItem(i, t)
      PROVE  IInv'
  <2> DEFINE row == [status |-> "open", text |-> t]
  <2>1. row \in ItemRow /\ row.status # "none" /\ i \in ItemIds
    BY DEF ItemRow, ItemIds
  <2>2. QuietCalls
    BY <1>2, <1>1 DEF CreateManualItem, QuietCalls
  <2>3. item' = [item EXCEPT ![i] = row] /\ UNCHANGED <<campaign, directory, steady>>
    BY <1>2 DEF CreateManualItem
  <2> HIDE DEF row
  <2> QED
    BY <2>1, <2>2, <2>3, ItemIsWritten
<1>3. ASSUME NEW c \in Calls, NEW s \in {"completed", "cancelled"},
             call[c].pc \in {"complete", "cancel"}, item[call[c].on].status = "open",
             item' = [item EXCEPT ![call[c].on].status = s], Goto(c, "done"),
             UNCHANGED <<campaign, directory, steady>>
      PROVE  IInv'
  <2> DEFINE i == call[c].on
             row == [item[i] EXCEPT !.status = s]
  <2>1. i \in ItemIds
    BY <1>3 DEF IInv, CallsKnowTheirRows
  <2>2. row \in ItemRow /\ row.status # "none" /\ row.text = item[i].text
    BY <1>1, <2>1 DEF ItemRow
  <2>3. QuietCalls
    BY <1>3, EndsQuietly DEF IInv
  <2>4. item' = [item EXCEPT ![i] = row]
    BY <1>1, <1>3, <2>1
  <2>5. item[i].status # "none"
    BY <1>3
  <2> HIDE DEF i, row
  <2> QED
    BY <1>3, <2>1, <2>2, <2>3, <2>4, <2>5, ItemIsWritten
<1>4. ASSUME NEW c \in Calls, CompleteItem(c)
      PROVE  IInv'
  <2>1. CASE item[call[c].on].status = "open"
    BY <1>3, <1>4, <2>1 DEF CompleteItem
  <2>2. CASE item[call[c].on].status # "open"
    <3>1. Goto(c, "refused") /\ UNCHANGED <<campaign, item, directory, steady>>
      BY <1>4, <2>2 DEF CompleteItem
    <3> QED
      BY <3>1, RefusalKeepsIt
  <2> QED
    BY <2>1, <2>2
<1>5. ASSUME NEW c \in Calls, CancelItem(c)
      PROVE  IInv'
  <2>1. CASE item[call[c].on].status = "open"
    BY <1>3, <1>5, <2>1 DEF CancelItem
  <2>2. CASE item[call[c].on].status # "open"
    <3>1. PICK pc \in {"done", "refused"} : Goto(c, pc)
      BY <1>5, <2>2 DEF CancelItem
    <3>2. UNCHANGED <<campaign, item, directory, steady>>
      BY <1>5, <2>2 DEF CancelItem
    <3> QED
      BY <3>1, <3>2, RefusalKeepsIt
  <2> QED
    BY <2>1, <2>2
<1> QED
  BY <1>2, <1>4, <1>5

LEMMA ActivationKeepsIt ==
  ASSUME CampaignsAssumption, IInv, NEW c \in Calls,
         Claim(c) \/ CheckRecipients(c) \/ Commit(c)
  PROVE  IInv'
<1> DEFINE k == call[c].on
<1>1. /\ call \in [Calls -> CallState] /\ campaign \in [Campaigns -> CampaignRow]
      /\ item \in [ItemIds -> ItemRow] /\ steady \in [Calls -> BOOLEAN]
  BY DEF IInv, TypeOK
<1>2. call[c].pc \in {"claim", "check", "commit"}
  BY DEF Claim, CheckRecipients, Commit
<1>3. k \in Campaigns
  BY <1>2 DEF IInv, CallsKnowTheirRows
<1>4. ASSUME NEW next \in CallState, next.on = k, next.pc \in {"check", "commit"},
             next.text = campaign[k].text, campaign[k].status = "draft",
             \A d \in Calls \ {c} : call[d].pc \in {"check", "commit"} => call[d].on # k,
             call' = [call EXCEPT ![c] = next],
             UNCHANGED <<campaign, item, directory, steady>>
      PROVE  IInv'
  <2>1. call'[c] = next /\ \A d \in Calls \ {c} : call'[d] = call[d]
    BY <1>1, <1>4
  <2>2. TypeOK'
    BY <1>4 DEF IInv, TypeOK
  <2>3. ItemsMatchTheCampaign'
    BY <1>4 DEF IInv, ItemsMatchTheCampaign
  <2>4. ClaimHolds'
    BY <1>4, <2>1 DEF IInv, ClaimHolds
  <2>5. CallsKnowTheirRows'
    <3> SUFFICES ASSUME NEW d \in Calls
                 PROVE  KnowsRow(call'[d])
      BY <1>4 DEF CallsKnowTheirRows, KnowsRow
    <3>1. CASE d = c
      BY <3>1, <2>1, <1>3, <1>4 DEF KnowsRow
    <3>2. CASE d # c
      BY <3>2, <2>1 DEF IInv, CallsKnowTheirRows, KnowsRow
    <3> QED
      BY <3>1, <3>2
  <2> QED
    BY <2>2, <2>3, <2>4, <2>5 DEF IInv
<1>5. CASE Claim(c) /\ campaign[k].status = "draft"
  <2> DEFINE text == campaign[k].text
             next == [call[c] EXCEPT !.pc = "check", !.text = text]
  <2>1. text \in Texts \cup {NoText}
    BY <1>1, <1>3 DEF CampaignRow
  <2>3. call' = [call EXCEPT ![c] = next]
    BY <1>1, <1>5 DEF Claim, CallState
  <2>6. text = campaign[k].text
    OBVIOUS
  <2> HIDE DEF text
  <2>7. call[c] \in CallState
    BY <1>1
  <2>8. next \in CallState
    BY <2>1, <2>7 DEF CallState, Pcs
  <2>2. next \in CallState /\ next.on = k /\ next.pc = "check" /\ next.text = text
    BY <2>7, <2>8 DEF CallState
  <2>4. \A d \in Calls \ {c} : call[d].pc \in {"check", "commit"} => call[d].on # k
    BY <1>5 DEF Claim, Locked
  <2>5. UNCHANGED <<campaign, item, directory, steady>>
    BY <1>5 DEF Claim, Tables
  <2> HIDE DEF next, k
  <2> QED
    BY <1>4, <1>5, <2>2, <2>3, <2>4, <2>5, <2>6
<1>6. CASE CheckRecipients(c) /\ Goto(c, "commit")
  <2> DEFINE next == [call[c] EXCEPT !.pc = "commit"]
  <2>1. /\ next \in CallState /\ next.on = k /\ next.pc = "commit"
        /\ next.text = call[c].text
    BY <1>1 DEF CallState, Pcs
  <2>2. call' = [call EXCEPT ![c] = next]
    BY <1>1, <1>6 DEF Goto
  <2>3. /\ call[c].text = campaign[k].text /\ campaign[k].status = "draft"
        /\ \A d \in Calls \ {c} : call[d].pc \in {"check", "commit"} => call[d].on # k
    BY <1>6 DEF CheckRecipients, IInv, ClaimHolds
  <2>4. UNCHANGED <<campaign, item, directory, steady>>
    BY <1>6 DEF CheckRecipients, Tables
  <2> HIDE DEF next, k
  <2> QED
    BY <1>4, <2>1, <2>2, <2>3, <2>4
<1>7. CASE Commit(c)
  <2>1. /\ call[c].text = campaign[k].text /\ campaign[k].status = "draft"
        /\ \A d \in Calls \ {c} : call[d].pc \in {"check", "commit"} => call[d].on # k
    BY <1>7 DEF Commit, IInv, ClaimHolds
  <2>2. call[c].text \in Texts \cup {NoText}
    BY <1>1 DEF CallState
  <2>3. QuietCalls
    BY <1>7, EndsQuietly DEF Commit, IInv
  <2>4. /\ campaign' \in [Campaigns -> CampaignRow]
        /\ campaign'[k].status = "active" /\ campaign'[k].text = campaign[k].text
        /\ \A l \in Campaigns \ {k} : campaign'[l] = campaign[l]
    <3> DEFINE row == [campaign[k] EXCEPT !.status = "active"]
    <3>1. row \in CampaignRow /\ row.status = "active" /\ row.text = campaign[k].text
      BY <1>1, <1>3 DEF CampaignRow
    <3>2. campaign' = [campaign EXCEPT ![k] = row]
      BY <1>7 DEF Commit
    <3> HIDE DEF row, k
    <3> QED
      BY <1>1, <1>3, <3>1, <3>2
  <2>5. \A i \in ItemIds : /\ item'[i] \in ItemRow
                           /\ item'[i] = item[i]
                                \/ (i \in {k} \X Recipients(c) /\ item'[i].text = call[c].text)
                           /\ item[i].status # "none" => item'[i].status # "none"
    <3> DEFINE row == [status |-> "open", text |-> call[c].text]
    <3>1. row \in ItemRow /\ row.text = call[c].text /\ row.status # "none"
      BY <2>2 DEF ItemRow
    <3>2. \A i \in ItemIds : item'[i] = IF i \in {k} \X Recipients(c) THEN row ELSE item[i]
      BY <1>7 DEF Commit
    <3> HIDE DEF row, k
    <3> QED
      BY <1>1, <3>1, <3>2
  <2>6. item' \in [ItemIds -> ItemRow]
    BY <1>7, <2>5 DEF Commit
  <2>7. UNCHANGED <<directory, steady>>
    BY <1>7 DEF Commit
  <2>8. TypeOK'
    BY <2>3, <2>4, <2>6, <2>7 DEF IInv, TypeOK, QuietCalls
  <2> HIDE DEF k
  <2>9. ItemsMatchTheCampaign'
    <3> SUFFICES ASSUME NEW l \in Campaigns, NEW e \in Employees, item'[<<l, e>>].status # "none"
                 PROVE  campaign'[l].status = "active" /\ item'[<<l, e>>].text = campaign'[l].text
      BY DEF ItemsMatchTheCampaign
    <3>1. <<l, e>> \in ItemIds
      BY DEF ItemIds
    <3>2. item[<<l, e>>].status # "none" =>
            campaign[l].status = "active" /\ item[<<l, e>>].text = campaign[l].text
      BY DEF IInv, ItemsMatchTheCampaign
    <3>3. CASE l = k
      <4>1. item[<<l, e>>].status = "none"
        BY <3>2, <3>3, <2>1
      <4> QED
        BY <3>1, <3>3, <4>1, <2>1, <2>4, <2>5
    <3>4. CASE l # k
      <4>1. item'[<<l, e>>] = item[<<l, e>>]
        BY <3>1, <3>4, <2>5
      <4> QED
        BY <3>2, <3>4, <4>1, <2>4
    <3> QED
      BY <3>3, <3>4
  <2>10. call'[c].pc = "done"
    BY <1>1, <1>7 DEF Commit, Goto, CallState
  <2>11. \A d \in Calls : call'[d].pc \in {"check", "commit"} => d # c /\ call'[d] = call[d]
    BY <2>3, <2>10 DEF QuietCalls
  <2>12. \A d \in Calls : call[d].pc \in {"check", "commit"} => call[d].on \in Campaigns
    BY DEF IInv, CallsKnowTheirRows
  <2>13. ClaimHolds'
    BY <2>1, <2>4, <2>11, <2>12 DEF IInv, ClaimHolds
  <2>14. CallsKnowTheirRows'
    <3> SUFFICES ASSUME NEW d \in Calls
                 PROVE  KnowsRow(call[d])' \/ call'[d].pc \in {"done", "refused"}
      BY DEF CallsKnowTheirRows, KnowsRow
    <3> SUFFICES ASSUME call'[d] = call[d]
                 PROVE  KnowsRow(call[d])'
      BY <2>3 DEF QuietCalls
    <3>1. KnowsRow(call[d])
      BY DEF IInv, CallsKnowTheirRows, KnowsRow
    <3> QED
      BY <3>1, <2>4, <2>5 DEF KnowsRow
  <2> QED
    BY <2>8, <2>9, <2>13, <2>14 DEF IInv
<1>8. CASE Claim(c) /\ campaign[k].status # "draft"
  <2>1. Goto(c, "refused") /\ UNCHANGED <<campaign, item, directory, steady>>
    BY <1>8 DEF Claim, Tables
  <2> QED
    BY <2>1, RefusalKeepsIt
<1>9. CASE CheckRecipients(c) /\ Goto(c, "refused")
  <2>1. UNCHANGED <<campaign, item, directory, steady>>
    BY <1>9 DEF CheckRecipients, Tables
  <2> QED
    BY <1>9, <2>1, RefusalKeepsIt
<1>10. CheckRecipients(c) => Goto(c, "commit") \/ Goto(c, "refused")
  BY DEF CheckRecipients
<1> QED
  BY <1>5, <1>6, <1>7, <1>8, <1>9, <1>10

-----------------------------------------------------------------------------
(* The theorems.                                                           *)

LEMMA StepKeepsIt == CampaignsAssumption /\ IInv /\ [Next]_vars => IInv'
<1> SUFFICES ASSUME CampaignsAssumption, IInv, [Next]_vars
             PROVE  IInv'
  OBVIOUS
<1>1. CASE \/ \E k \in Campaigns, t \in Texts : CreateCampaign(k, t)
           \/ \E c \in Calls : UpdateDraft(c) \/ SaveAudience(c)
  BY <1>1, DraftingKeepsIt
<1>2. CASE \/ \E i \in ManualItems, t \in Texts : CreateManualItem(i, t)
           \/ \E c \in Calls : CompleteItem(c) \/ CancelItem(c)
  BY <1>2, ItemStepsKeepIt
<1>3. ASSUME NEW c \in Calls, Begin(c)
      PROVE  IInv'
  BY <1>3, BeginKeepsIt
<1>4. ASSUME NEW c \in Calls, CollectPage(c) \/ VisiblePage(c) \/ ValidateAdded(c)
      PROVE  IInv'
  BY <1>4, PagesKeepIt
<1>5. ASSUME NEW c \in Calls, Claim(c) \/ CheckRecipients(c) \/ Commit(c)
      PROVE  IInv'
  BY <1>5, ActivationKeepsIt
<1>6. ASSUME NEW c \in Calls, Fail(c)
      PROVE  IInv'
  <2>1. Goto(c, "refused") /\ UNCHANGED <<campaign, item, directory, steady>>
    BY <1>6 DEF Fail, Tables
  <2> QED
    BY <2>1, RefusalKeepsIt
<1>7. CASE DirectoryChanges
  <2>1. UNCHANGED <<campaign, item, call>> /\ directory' \in Directories
    BY <1>7 DEF DirectoryChanges
  <2>2. steady' \in [Calls -> BOOLEAN]
    BY <1>7 DEF DirectoryChanges
  <2> QED
    BY <2>1, <2>2 DEF IInv, TypeOK, ItemsMatchTheCampaign, ClaimHolds, CallsKnowTheirRows
<1>8. CASE UNCHANGED vars
  BY <1>8 DEF vars, IInv, TypeOK, ItemsMatchTheCampaign, ClaimHolds, CallsKnowTheirRows
<1> QED
  BY <1>1, <1>2, <1>3, <1>4, <1>5, <1>6, <1>7, <1>8 DEF Next, Serve

\* The three facts of the induction together: types, the items' text, and what
\* requests rely on hold for any number of requests, campaigns and employees.
THEOREM InvariantHolds == Spec => []IInv
<1>1. Init => IInv
  BY CampaignsAssumption, InitHolds
<1>2. IInv /\ [Next]_vars => IInv'
  BY CampaignsAssumption, StepKeepsIt
<1> QED
  BY <1>1, <1>2, PTL DEF Spec

\* createCampaignActionItems under activateCampaign: only an active campaign
\* has items, and they say what the campaign says, in every state.
THEOREM ItemsAlwaysMatch == Spec => []ItemsMatchTheCampaign
<1>1. IInv => ItemsMatchTheCampaign
  BY DEF IInv
<1> QED
  BY <1>1, InvariantHolds, PTL

-----------------------------------------------------------------------------
(* The refinement.                                                         *)

FormOf == [k \in Campaigns |-> [status |-> campaign[k].status, text |-> campaign[k].text]]

LEMMA LedgerStarts == CampaignsAssumption /\ Init => Ledger!LedgerInit
<1> SUFFICES ASSUME CampaignsAssumption, Init
             PROVE  Ledger!LedgerInit
  OBVIOUS
<1>1. ASSUME NEW k \in Campaigns
      PROVE  FormOf[k] \in {Ledger!NoForm} \cup [status : {"draft"}, text : Texts]
  <2>1. CASE campaign[k] = NoCampaign
    BY <2>1 DEF FormOf, NoCampaign, Ledger!NoForm
  <2>2. CASE campaign[k] # NoCampaign
    <3>1. PICK t \in Texts, a \in Audiences : campaign[k] = Draft(t, a)
      BY <2>2 DEF Init
    <3> QED
      BY <3>1 DEF FormOf, Draft
  <2> QED
    BY <2>1, <2>2
<1>2. FormOf \in [Campaigns -> {Ledger!NoForm} \cup [status : {"draft"}, text : Texts]]
  BY <1>1 DEF FormOf
<1>3. item = [i \in (Campaigns \X Employees) \cup ManualItems |-> Ledger!NoTask]
  BY DEF Init, ItemIds, NoItem, Ledger!NoTask
<1> QED
  BY <1>2, <1>3 DEF FormOf, Ledger!LedgerInit

\* A draft that is written in the table is written in the ledger.
LEMMA WriteMaps ==
  ASSUME IInv, NEW k \in Campaigns, NEW t \in Texts,
         campaign[k].status \in {"none", "draft"},
         campaign'[k].status = "draft", campaign'[k].text = t,
         \A l \in Campaigns \ {k} : campaign'[l] = campaign[l],
         UNCHANGED item
  PROVE  Ledger!LedgerNext
<1>1. FormOf' = [FormOf EXCEPT ![k] = [status |-> "draft", text |-> t]]
  BY DEF FormOf
<1>2. Ledger!Write(k, t)
  BY <1>1 DEF FormOf, Ledger!Write
<1> QED
  BY <1>2 DEF Ledger!LedgerNext

LEMMA StepMaps ==
  CampaignsAssumption /\ IInv /\ [Next]_vars => [Ledger!LedgerNext]_<<FormOf, item>>
<1> SUFFICES ASSUME CampaignsAssumption, IInv, [Next]_vars
             PROVE  Ledger!LedgerNext \/ UNCHANGED <<FormOf, item>>
  OBVIOUS
<1>1. /\ campaign \in [Campaigns -> CampaignRow] /\ item \in [ItemIds -> ItemRow]
      /\ call \in [Calls -> CallState]
  BY DEF IInv, TypeOK
<1>2. UNCHANGED <<campaign, item>> => UNCHANGED <<FormOf, item>>
  BY DEF FormOf
<1>3. ASSUME NEW k \in Campaigns, NEW t \in Texts, CreateCampaign(k, t)
      PROVE  Ledger!LedgerNext
  <2>1. campaign'[k].status = "draft" /\ campaign'[k].text = t
    BY <1>1, <1>3 DEF CreateCampaign, NoCampaign
  <2>2. /\ campaign[k].status \in {"none", "draft"} /\ UNCHANGED item
        /\ \A l \in Campaigns \ {k} : campaign'[l] = campaign[l]
    BY <1>1, <1>3 DEF CreateCampaign
  <2> QED
    BY <2>1, <2>2, WriteMaps
<1>4. ASSUME NEW c \in Calls, UpdateDraft(c)
      PROVE  Ledger!LedgerNext \/ UNCHANGED <<campaign, item>>
  <2> DEFINE k == call[c].on
             t == call[c].text
  <2>1. k \in Campaigns /\ t \in Texts
    BY <1>4 DEF UpdateDraft, IInv, CallsKnowTheirRows
  <2>2. CASE campaign[k].status = "draft"
    <3>1. campaign' = [campaign EXCEPT ![k].text = t] /\ UNCHANGED item
      BY <1>4, <2>2 DEF UpdateDraft
    <3> HIDE DEF k, t
    <3>2. /\ campaign'[k].status = "draft" /\ campaign'[k].text = t
          /\ \A l \in Campaigns \ {k} : campaign'[l] = campaign[l]
      BY <1>1, <2>1, <2>2, <3>1 DEF CampaignRow
    <3> QED
      BY <2>1, <2>2, <3>1, <3>2, WriteMaps
  <2>3. CASE campaign[k].status # "draft"
    BY <1>4, <2>3 DEF UpdateDraft
  <2> QED
    BY <2>2, <2>3
<1>5. ASSUME NEW c \in Calls, SaveAudience(c)
      PROVE  UNCHANGED <<FormOf, item>>
  <2> DEFINE k == call[c].on
  <2>1. k \in Campaigns
    BY <1>5 DEF SaveAudience, IInv, CallsKnowTheirRows
  <2>2. CASE campaign[k].status = "draft"
    <3>1. campaign' = [campaign EXCEPT ![k].filter = call[c].filter, ![k].added = call[c].added,
                                       ![k].excluded = call[c].excluded] /\ UNCHANGED item
      BY <1>5, <2>2 DEF SaveAudience
    <3> HIDE DEF k
    <3>2. \A l \in Campaigns :
            campaign'[l].status = campaign[l].status /\ campaign'[l].text = campaign[l].text
      BY <1>1, <2>1, <3>1 DEF CampaignRow
    <3> QED
      BY <3>1, <3>2 DEF FormOf
  <2>3. CASE campaign[k].status # "draft"
    BY <1>2, <1>5, <2>3 DEF SaveAudience
  <2> QED
    BY <2>2, <2>3
<1>6. ASSUME NEW c \in Calls, Commit(c)
      PROVE  Ledger!LedgerNext
  <2> DEFINE k == call[c].on
             recipients == Recipients(c)
  <2>1. /\ k \in Campaigns /\ campaign[k].status = "draft" /\ call[c].text = campaign[k].text
    BY <1>6 DEF Commit, IInv, ClaimHolds, CallsKnowTheirRows
  <2>2. recipients \in SUBSET Employees
    BY AudiencesAreTyped DEF IInv
  <2>3. campaign' = [campaign EXCEPT ![k].status = "active"]
    BY <1>6 DEF Commit
  <2>4. item' = [i \in DOMAIN item |->
                   IF i \in {k} \X recipients
                     THEN [status |-> "open", text |-> campaign[k].text] ELSE item[i]]
    BY <1>1, <1>6, <2>1 DEF Commit
  <2> HIDE DEF k, recipients
  <2>5. FormOf' = [FormOf EXCEPT ![k].status = "active"]
    <3>1. /\ campaign'[k].status = "active" /\ campaign'[k].text = campaign[k].text
          /\ \A l \in Campaigns \ {k} : campaign'[l] = campaign[l]
      BY <1>1, <2>1, <2>3 DEF CampaignRow
    <3> QED
      BY <2>1, <3>1 DEF FormOf
  <2>6. FormOf[k].status = "draft" /\ FormOf[k].text = campaign[k].text
    BY <2>1 DEF FormOf
  <2>7. PICK l \in Campaigns, r \in SUBSET Employees : l = k /\ r = recipients
    BY <2>1, <2>2
  <2>8. Ledger!Activate(l, r)
    BY <2>4, <2>5, <2>6, <2>7 DEF FormOf, Ledger!Activate
  <2> QED
    BY <2>7, <2>8 DEF Ledger!LedgerNext
<1>7. ASSUME NEW i \in ManualItems, NEW t \in Texts, CreateManualItem(i, t)
      PROVE  Ledger!LedgerNext
  <2>1. Ledger!HandOut(i, t)
    BY <1>2, <1>7 DEF CreateManualItem, FormOf, Ledger!HandOut
  <2> QED
    BY <2>1 DEF Ledger!LedgerNext
<1>8. ASSUME NEW c \in Calls, CompleteItem(c) \/ CancelItem(c)
      PROVE  Ledger!LedgerNext \/ UNCHANGED <<campaign, item>>
  <2> DEFINE i == call[c].on
  <2>1. i \in DOMAIN item
    BY <1>1, <1>8 DEF CompleteItem, CancelItem, IInv, CallsKnowTheirRows
  <2>2. CASE item[i].status = "open"
    <3>1. PICK s \in {"completed", "cancelled"} : item' = [item EXCEPT ![i].status = s]
      BY <1>8, <2>2 DEF CompleteItem, CancelItem
    <3>2. UNCHANGED campaign
      BY <1>8 DEF CompleteItem, CancelItem
    <3> HIDE DEF i
    <3>3. Ledger!Settle(i, s)
      BY <2>2, <3>1, <3>2 DEF FormOf, Ledger!Settle
    <3> QED
      BY <2>1, <3>3 DEF Ledger!LedgerNext
  <2>3. CASE item[i].status # "open"
    BY <1>8, <2>3 DEF CompleteItem, CancelItem
  <2> QED
    BY <2>2, <2>3
<1>9. ASSUME NEW c \in Calls, Begin(c) \/ Fail(c)
      PROVE  UNCHANGED <<campaign, item>>
  BY <1>9 DEF Begin, BeginUpdate, BeginSave, BeginActivate, BeginSettle, Fail, Tables
<1>10. ASSUME NEW c \in Calls,
              \/ CollectPage(c) \/ VisiblePage(c) \/ ValidateAdded(c)
              \/ Claim(c) \/ CheckRecipients(c)
       PROVE  UNCHANGED <<campaign, item>>
  BY <1>10 DEF CollectPage, VisiblePage, ValidateAdded, Claim, CheckRecipients, Tables
<1>11. DirectoryChanges \/ UNCHANGED vars => UNCHANGED <<campaign, item>>
  BY DEF DirectoryChanges, vars
<1> QED
  BY <1>2, <1>3, <1>4, <1>5, <1>6, <1>7, <1>8, <1>9, <1>10, <1>11 DEF Next, Serve

\* Requests in any interleaving keep the ledger's promise: a draft becomes
\* active once, in one step with all its items, and an item is settled once.
THEOREM CampaignsImplementLedger == Spec => ImplementsCampaignLedger
<1>1. Init => Ledger!LedgerInit
  BY CampaignsAssumption, LedgerStarts
<1>2. IInv /\ [Next]_vars => [Ledger!LedgerNext]_<<FormOf, item>>
  BY CampaignsAssumption, StepMaps
<1>3. Spec => []IInv
  BY InvariantHolds
<1>4. Spec => Ledger!LedgerSpec
  BY <1>1, <1>2, <1>3, PTL DEF Spec, Ledger!LedgerSpec, FormOf
<1> QED
  BY <1>4 DEF ImplementsCampaignLedger

-----------------------------------------------------------------------------
(* What an activation creates.                                             *)

\* The matches on the pages before the n-th are those up to a position.
Seen(all, n) == {e \in all : Position(e, all) <= n * PageSize}

Invited(k) ==
  ResolveAudience(Matching(campaign[k].filter), campaign[k].added, campaign[k].excluded)
WithItem(k) == {e \in Employees : item[<<k, e>>].status # "none"}

\* What an activation knows of its audience: what the draft says, and of the
\* filter's matches the pages it has turned, or all of them.
KnowsTheAudience(s) ==
  /\ s.pc \in {"collect", "claim", "check", "commit"} =>
       /\ s.filter = campaign[s.on].filter
       /\ s.added = campaign[s.on].added /\ s.excluded = campaign[s.on].excluded
  /\ s.pc = "collect" => /\ s.page \in Nat \ {0}
                         /\ s.found = Seen(Matching(s.filter), s.page - 1)
                         /\ s.count = Cardinality(s.found)
  /\ s.pc \in {"claim", "check", "commit"} => s.found = Matching(s.filter)
  /\ s.pc = "done" => campaign[s.on].status = "active" /\ WithItem(s.on) = Invited(s.on)

ActivationIsFaithful(s, undisturbed) ==
  s.then = "claim" =>
    /\ s.pc \in {"collect", "claim", "check", "commit", "done", "refused"}
    /\ s.on \in Campaigns
    /\ undisturbed => KnowsTheAudience(s)

\* The inductive invariant behind UndisturbedActivationIsExact.
AudienceInv == \A c \in Calls : ActivationIsFaithful(call[c], steady[c])

\* Each page adds matches not seen before, and when as many have been seen as
\* there are matches, all of them have been seen.
LEMMA PagesAddUp ==
  ASSUME CampaignsAssumption, NEW all \in SUBSET Employees, NEW n \in Nat \ {0}
  PROVE  /\ Seen(all, 0) = {}
         /\ Seen(all, n) = Seen(all, n - 1) \cup Page(all, n)
         /\ Cardinality(Seen(all, n)) = Cardinality(Seen(all, n - 1)) + Cardinality(Page(all, n))
         /\ Cardinality(Seen(all, n)) >= Cardinality(all) => Seen(all, n) = all
<1>1. IsFiniteSet(all)
  BY FS_Subset DEF CampaignsAssumption
<1>2. \A e \in all : Position(e, all) \in Nat \ {0}
  <2> SUFFICES ASSUME NEW e \in all
               PROVE  Position(e, all) \in Nat \ {0}
    OBVIOUS
  <2> DEFINE upTo == {d \in all : d <= e}
  <2>1. e \in upTo
    BY DEF CampaignsAssumption
  <2>2. IsFiniteSet(upTo)
    BY <1>1, FS_Subset
  <2>3. Cardinality(upTo) \in Nat /\ Cardinality(upTo) # 0
    BY <2>1, <2>2, FS_CardinalityType, FS_EmptySet
  <2> QED
    BY <2>3 DEF Position
<1>3. PageSize \in Nat \ {0}
  BY DEF CampaignsAssumption
<1>4. PICK p \in [all -> Nat \ {0}] : \A e \in all : p[e] = Position(e, all)
  <2> DEFINE q == [e \in all |-> Position(e, all)]
  <2>1. q \in [all -> Nat \ {0}]
    BY <1>2
  <2>2. \A e \in all : q[e] = Position(e, all)
    OBVIOUS
  <2> QED
    BY <2>1, <2>2
<1>5. (n - 1) * PageSize \in Nat /\ n * PageSize \in Nat /\ (n - 1) * PageSize <= n * PageSize
  <2>1. n * PageSize = (n - 1) * PageSize + PageSize
    BY <1>3
  <2>2. (n - 1) * PageSize \in Nat
    BY <1>3
  <2> QED
    BY <1>3, <2>1, <2>2
<1> DEFINE low == (n - 1) * PageSize
           high == n * PageSize
<1>6. /\ Seen(all, n) = {e \in all : p[e] <= high}
      /\ Seen(all, n - 1) = {e \in all : p[e] <= low}
      /\ Page(all, n) = {e \in all : low < p[e] /\ p[e] <= high}
  BY <1>4 DEF Seen, Page
<1>7. low \in Nat /\ high \in Nat /\ low <= high
  BY <1>5
<1> HIDE DEF low, high
<1>8. Seen(all, 0) = {}
  <2>1. 0 * PageSize = 0
    BY <1>3
  <2>2. Seen(all, 0) = {e \in all : p[e] <= 0}
    BY <1>4, <2>1 DEF Seen
  <2> SUFFICES ASSUME NEW e \in all, p[e] <= 0
               PROVE  FALSE
    BY <2>2
  <2>3. p[e] \in Nat \ {0}
    BY <1>4
  <2> QED
    BY <2>3
<1>9. Seen(all, n) = Seen(all, n - 1) \cup Page(all, n)
  <2>1. \A e \in all : p[e] <= high <=> p[e] <= low \/ (low < p[e] /\ p[e] <= high)
    <3> SUFFICES ASSUME NEW e \in all
                 PROVE  p[e] <= high <=> p[e] <= low \/ (low < p[e] /\ p[e] <= high)
      OBVIOUS
    <3>1. p[e] \in Nat
      BY <1>4
    <3> QED
      BY <3>1, <1>7
  <2> QED
    BY <2>1, <1>6, Zenon
<1>10. Seen(all, n - 1) \cap Page(all, n) = {}
  <2> SUFFICES ASSUME NEW e \in all, p[e] <= low, low < p[e]
               PROVE  FALSE
    BY <1>6, Zenon
  <2>1. p[e] \in Nat
    BY <1>4
  <2> QED
    BY <2>1, <1>7
<1>11. /\ IsFiniteSet(Seen(all, n - 1)) /\ IsFiniteSet(Page(all, n)) /\ IsFiniteSet(Seen(all, n))
       /\ Seen(all, n) \in SUBSET all
  BY <1>1, <1>6, FS_Subset
<1>12. Cardinality(Seen(all, n)) = Cardinality(Seen(all, n - 1)) + Cardinality(Page(all, n))
  <2>1. Cardinality(Seen(all, n - 1) \cup Page(all, n)) =
          Cardinality(Seen(all, n - 1)) + Cardinality(Page(all, n))
            - Cardinality(Seen(all, n - 1) \cap Page(all, n))
    BY <1>11, FS_Union
  <2>2. Cardinality(Seen(all, n - 1) \cap Page(all, n)) = 0
    BY <1>10, FS_EmptySet
  <2>3. Cardinality(Seen(all, n - 1)) \in Nat /\ Cardinality(Page(all, n)) \in Nat
    BY <1>11, FS_CardinalityType
  <2> QED
    BY <1>9, <2>1, <2>2, <2>3
<1>13. Cardinality(Seen(all, n)) >= Cardinality(all) => Seen(all, n) = all
  <2>1. /\ Cardinality(Seen(all, n)) <= Cardinality(all)
        /\ Cardinality(all) = Cardinality(Seen(all, n)) => all = Seen(all, n)
    BY <1>1, <1>11, FS_Subset
  <2>2. Cardinality(Seen(all, n)) \in Nat /\ Cardinality(all) \in Nat
    BY <1>1, <1>11, FS_CardinalityType
  <2> QED
    BY <2>1, <2>2
<1> QED
  BY <1>8, <1>9, <1>12, <1>13

\* An activation another call leaves undisturbed stays faithful: its campaign's
\* audience stays, an active campaign stays active and keeps its items.
LEMMA OthersStayFaithful ==
  ASSUME NEW d \in Calls, ActivationIsFaithful(call[d], steady[d]),
         call'[d] = call[d],
         call[d].on \in Campaigns /\ steady'[d] =>
           LET k == call[d].on
           IN /\ steady[d] /\ UNCHANGED directory
              /\ campaign'[k].filter = campaign[k].filter
              /\ campaign'[k].added = campaign[k].added
              /\ campaign'[k].excluded = campaign[k].excluded
              /\ campaign[k].status = "active" =>
                   campaign'[k].status = "active" /\ WithItem(k)' = WithItem(k)
  PROVE  ActivationIsFaithful(call[d], steady[d])'
<1> SUFFICES ASSUME call[d].then = "claim"
             PROVE  /\ call[d].pc \in {"collect", "claim", "check", "commit", "done", "refused"}
                    /\ call[d].on \in Campaigns
                    /\ steady'[d] => KnowsTheAudience(call[d])'
  BY DEF ActivationIsFaithful
<1>1. /\ call[d].pc \in {"collect", "claim", "check", "commit", "done", "refused"}
      /\ call[d].on \in Campaigns
      /\ steady[d] => KnowsTheAudience(call[d])
  BY DEF ActivationIsFaithful
<1> SUFFICES ASSUME steady'[d]
             PROVE  KnowsTheAudience(call[d])'
  BY <1>1
<1> DEFINE s == call[d]
           k == s.on
<1>2. /\ KnowsTheAudience(s) /\ UNCHANGED directory
      /\ campaign'[k].filter = campaign[k].filter
      /\ campaign'[k].added = campaign[k].added
      /\ campaign'[k].excluded = campaign[k].excluded
      /\ campaign[k].status = "active" =>
           campaign'[k].status = "active" /\ WithItem(k)' = WithItem(k)
  BY <1>1
<1>3. \A f : Matching(f)' = Matching(f)
  BY <1>2 DEF Matching
<1>4. Invited(k)' = Invited(k)
  BY <1>2 DEF Invited, Matching
<1>5. PICK t : t = s
  OBVIOUS
<1>6. call'[d] = t
  BY <1>5
<1>7. /\ t.pc \in {"collect", "claim", "check", "commit"} =>
           /\ t.filter = campaign'[t.on].filter
           /\ t.added = campaign'[t.on].added /\ t.excluded = campaign'[t.on].excluded
  BY <1>2, <1>5 DEF KnowsTheAudience
<1>8. t.pc = "collect" => /\ t.page \in Nat \ {0}
                          /\ t.found = Seen(Matching(t.filter)', t.page - 1)
                          /\ t.count = Cardinality(t.found)
  BY <1>2, <1>3, <1>5 DEF KnowsTheAudience
<1>9. t.pc \in {"claim", "check", "commit"} => t.found = Matching(t.filter)'
  BY <1>2, <1>3, <1>5 DEF KnowsTheAudience
<1>10. t.pc = "done" => campaign'[t.on].status = "active" /\ WithItem(t.on)' = Invited(t.on)'
  BY <1>2, <1>4, <1>5 DEF KnowsTheAudience
<1>11. KnowsTheAudience(t)'
  <2>1. Seen(Matching(t.filter), t.page - 1)' = Seen(Matching(t.filter)', t.page - 1)
    BY DEF Seen, Position
  <2> QED
    BY <1>7, <1>8, <1>9, <1>10, <2>1 DEF KnowsTheAudience
<1> QED
  BY <1>6, <1>11

\* A request that moves on, with the tables as they are, leaves the others alone.
LEMMA ActivationGoesOn ==
  ASSUME IInv, AudienceInv, NEW c \in Calls, NEW s, NEW undisturbed \in BOOLEAN,
         call' = [call EXCEPT ![c] = s],
         steady' = [steady EXCEPT ![c] = undisturbed],
         UNCHANGED <<campaign, item, directory>>,
         ActivationIsFaithful(s, undisturbed)
  PROVE  AudienceInv'
<1>1. /\ call'[c] = s /\ steady'[c] = undisturbed
      /\ \A d \in Calls \ {c} : call'[d] = call[d] /\ steady'[d] = steady[d]
  BY DEF IInv, TypeOK
<1>2. ASSUME NEW d \in Calls \ {c}
      PROVE  ActivationIsFaithful(call[d], steady[d])'
  <2>1. WithItem(call[d].on)' = WithItem(call[d].on)
    BY <1>1 DEF WithItem
  <2>2. ActivationIsFaithful(call[d], steady[d])
    BY DEF AudienceInv
  <2> QED
    BY <1>1, <2>1, <2>2, OthersStayFaithful
<1>3. PICK t : t = s
  OBVIOUS
<1>4. ActivationIsFaithful(t, undisturbed)'
  BY <1>3 DEF ActivationIsFaithful, KnowsTheAudience, Seen, Position, Matching, WithItem, Invited
<1>5. ActivationIsFaithful(call[c], steady[c])'
  BY <1>1, <1>3, <1>4
<1> QED
  BY <1>2, <1>5 DEF AudienceInv

LEMMA PagesFindEverybody ==
  ASSUME CampaignsAssumption, IInv, AudienceInv, NEW c \in Calls,
         CollectPage(c) \/ VisiblePage(c) \/ ValidateAdded(c)
  PROVE  AudienceInv'
<1>1. /\ call \in [Calls -> CallState] /\ call[c] \in CallState /\ steady \in [Calls -> BOOLEAN]
      /\ UNCHANGED <<campaign, item, directory, steady>>
  BY DEF IInv, TypeOK, CollectPage, VisiblePage, ValidateAdded, Tables
<1>2. steady' = [steady EXCEPT ![c] = steady[c]] /\ steady[c] \in BOOLEAN
  BY <1>1
<1>3. ActivationIsFaithful(call[c], steady[c])
  BY DEF AudienceInv
<1>4. ASSUME NEW s, s.then = call[c].then, call[c].then # "claim", call' = [call EXCEPT ![c] = s]
      PROVE  AudienceInv'
  <2>1. ActivationIsFaithful(s, steady[c])
    BY <1>4 DEF ActivationIsFaithful
  <2>2. UNCHANGED <<campaign, item, directory>>
    BY <1>1
  <2> QED
    BY <1>2, <1>4, <2>1, <2>2, ActivationGoesOn
<1>5. CASE VisiblePage(c)
  <2> DEFINE last == call[c].page * PageSize >= Cardinality(directory.listed)
             s == [call[c] EXCEPT !.found = call[c].found \cup Page(directory.listed, call[c].page),
                                  !.page = IF last THEN call[c].page ELSE call[c].page + 1,
                                  !.pc = IF last THEN "validate" ELSE call[c].pc]
  <2>1. call[c].then # "claim"
    BY <1>3, <1>5 DEF VisiblePage, ActivationIsFaithful
  <2>2. call' = [call EXCEPT ![c] = s] /\ s.then = call[c].then
    BY <1>1, <1>5 DEF VisiblePage, CallState
  <2> HIDE DEF s
  <2> QED
    BY <1>4, <2>1, <2>2
<1>6. CASE ValidateAdded(c)
  <2> DEFINE pc == IF call[c].added \subseteq call[c].found \cap directory.active
                     THEN Collecting("save", call[c].filter, call[c].excluded) ELSE "refused"
             s == [call[c] EXCEPT !.pc = pc, !.page = 1, !.count = 0, !.found = {}]
  <2>1. call[c].then # "claim"
    BY <1>3, <1>6 DEF ValidateAdded, ActivationIsFaithful
  <2>2. call' = [call EXCEPT ![c] = s] /\ s.then = call[c].then
    BY <1>1, <1>6 DEF ValidateAdded, CallState
  <2> HIDE DEF s
  <2> QED
    BY <1>4, <2>1, <2>2
<1>7. CASE CollectPage(c)
  <2> DEFINE all == Matching(call[c].filter)
             rows == Page(all, call[c].page)
             found == call[c].found \cup rows
             count == call[c].count + Cardinality(rows)
             page == IF count >= Cardinality(all) THEN call[c].page ELSE call[c].page + 1
             pc == IF count >= Cardinality(all)
                     THEN AfterMatches(call[c].then, call[c].excluded, found) ELSE call[c].pc
             s == [call[c] EXCEPT !.found = found, !.count = count, !.page = page, !.pc = pc]
  <2>1. call[c].pc = "collect"
    BY <1>7 DEF CollectPage
  <2>2. call' = [call EXCEPT ![c] = s] /\ s.then = call[c].then
    BY <1>1, <1>7 DEF CollectPage, CallState
  <2>3. CASE call[c].then # "claim"
    <3> HIDE DEF s
    <3> QED
      BY <1>4, <2>2, <2>3
  <2>4. CASE call[c].then = "claim"
    <3>1. all \in SUBSET Employees
      BY <1>1, AudiencesAreTyped DEF IInv, CallState
    <3>2. AfterMatches(call[c].then, call[c].excluded, found) = "claim"
      BY <2>4 DEF AfterMatches
    <3>3. pc = IF count >= Cardinality(all) THEN "claim" ELSE "collect"
      BY <2>1, <3>2
    <3> HIDE DEF all, rows, found, count, page, pc
    <3>4. /\ s.pc = pc /\ s.on = call[c].on /\ s.filter = call[c].filter /\ s.added = call[c].added
          /\ s.excluded = call[c].excluded /\ s.page = page /\ s.found = found /\ s.count = count
      BY <1>1 DEF CallState
    <3>5. call[c].on \in Campaigns
      BY <1>3, <2>4 DEF ActivationIsFaithful
    <3>6. ASSUME steady[c]
          PROVE  KnowsTheAudience(s)
      <4>1. KnowsTheAudience(call[c])
        BY <1>3, <2>4, <3>6 DEF ActivationIsFaithful
      <4>2. /\ call[c].page \in Nat \ {0}
            /\ call[c].found = Seen(all, call[c].page - 1)
            /\ call[c].count = Cardinality(call[c].found)
        BY <2>1, <4>1 DEF KnowsTheAudience, all
      <4>3. PICK n \in Nat \ {0} : n = call[c].page
        BY <4>2
      <4>4. /\ found = Seen(all, n) /\ count = Cardinality(found)
            /\ count >= Cardinality(all) => found = all
        <5>1. PICK a \in SUBSET Employees : a = all
          BY <3>1
        <5>2. /\ Seen(a, n) = Seen(a, n - 1) \cup Page(a, n)
              /\ Cardinality(Seen(a, n)) = Cardinality(Seen(a, n - 1)) + Cardinality(Page(a, n))
              /\ Cardinality(Seen(a, n)) >= Cardinality(a) => Seen(a, n) = a
          BY PagesAddUp
        <5>3. found = Seen(a, n) /\ count = Cardinality(Seen(a, n))
          BY <4>2, <4>3, <5>1, <5>2 DEF found, count, rows
        <5> QED
          BY <5>1, <5>2, <5>3
      <4>5. CASE count >= Cardinality(all)
        BY <2>1, <3>3, <3>4, <4>1, <4>4, <4>5 DEF KnowsTheAudience, all
      <4>6. CASE ~(count >= Cardinality(all))
        <5>1. page = n + 1 /\ pc = "collect"
          BY <3>3, <4>3, <4>6 DEF page
        <5>2. page \in Nat \ {0} /\ page - 1 = n
          BY <5>1
        <5> QED
          BY <2>1, <3>4, <4>1, <4>4, <5>1, <5>2 DEF KnowsTheAudience, all
      <4> QED
        BY <4>5, <4>6
    <3>7. s.pc \in {"collect", "claim"}
      BY <3>3, <3>4
    <3>8. ActivationIsFaithful(s, steady[c])
      BY <3>4, <3>5, <3>6, <3>7 DEF ActivationIsFaithful
    <3> HIDE DEF s
    <3>9. UNCHANGED <<campaign, item, directory>>
      BY <1>1
    <3> QED
      BY <1>2, <2>2, <3>8, <3>9, ActivationGoesOn
  <2> QED
    BY <2>3, <2>4
<1> QED
  BY <1>5, <1>6, <1>7

\* A request begins: an activation reads the draft as it is, and has seen nothing.
LEMMA BeginKnowsTheDraft ==
  ASSUME CampaignsAssumption, IInv, AudienceInv, NEW c \in Calls, Begin(c)
  PROVE  AudienceInv'
<1>1. call \in [Calls -> CallState] /\ steady \in [Calls -> BOOLEAN]
  BY DEF IInv, TypeOK
<1>2. UNCHANGED <<campaign, item, directory>>
  BY DEF Begin, BeginUpdate, BeginSave, BeginActivate, BeginSettle, Tables
<1>3. ASSUME NEW s, s.then = "save", call' = [call EXCEPT ![c] = s], UNCHANGED steady
      PROVE  AudienceInv'
  <2>1. ActivationIsFaithful(s, steady[c])
    BY <1>3 DEF ActivationIsFaithful
  <2>2. steady' = [steady EXCEPT ![c] = steady[c]] /\ steady[c] \in BOOLEAN
    BY <1>1, <1>3
  <2> QED
    BY <1>2, <1>3, <2>1, <2>2, ActivationGoesOn
<1>4. ASSUME NEW k \in Campaigns, NEW t \in Texts, BeginUpdate(c, k, t)
      PROVE  AudienceInv'
  <2> DEFINE s == [Idle EXCEPT !.pc = "update", !.on = k, !.text = t]
  <2>1. s.then = "save" /\ call' = [call EXCEPT ![c] = s] /\ UNCHANGED steady
    BY <1>4 DEF BeginUpdate, Idle, Tables
  <2> HIDE DEF s
  <2> QED
    BY <1>3, <2>1
<1>5. ASSUME NEW k \in Campaigns, NEW a \in Audiences, BeginSave(c, k, a)
      PROVE  AudienceInv'
  <2> DEFINE pc == IF Added(a) = {} THEN Collecting("save", a.filter, a.excluded) ELSE "visible"
             s == [Idle EXCEPT !.on = k, !.filter = a.filter, !.added = Added(a),
                               !.excluded = a.excluded, !.pc = pc]
  <2>1. s.then = "save" /\ call' = [call EXCEPT ![c] = s] /\ UNCHANGED steady
    BY <1>5 DEF BeginSave, Idle, Tables
  <2> HIDE DEF s
  <2> QED
    BY <1>3, <2>1
<1>6. ASSUME NEW i \in ItemIds, NEW pc \in {"complete", "cancel"}, BeginSettle(c, i, pc)
      PROVE  AudienceInv'
  <2> DEFINE s == [Idle EXCEPT !.pc = pc, !.on = i]
  <2>1. s.then = "save" /\ call' = [call EXCEPT ![c] = s] /\ UNCHANGED steady
    BY <1>6 DEF BeginSettle, Idle, Tables
  <2> HIDE DEF s
  <2> QED
    BY <1>3, <2>1
<1>7. ASSUME NEW k \in Campaigns, BeginActivate(c, k)
      PROVE  AudienceInv'
  <2> DEFINE pc == Collecting("claim", campaign[k].filter, campaign[k].excluded)
             s == [Idle EXCEPT !.on = k, !.then = "claim", !.text = campaign[k].text,
                               !.filter = campaign[k].filter, !.added = campaign[k].added,
                               !.excluded = campaign[k].excluded, !.pc = pc]
  <2>1. call' = [call EXCEPT ![c] = s] /\ steady' = [steady EXCEPT ![c] = TRUE]
    BY <1>7 DEF BeginActivate
  <2>2. pc = IF campaign[k].filter = NoFilter THEN "claim" ELSE "collect"
    BY DEF Collecting, AfterMatches
  <2> HIDE DEF pc
  <2>3. /\ s.pc = pc /\ s.on = k /\ s.filter = campaign[k].filter /\ s.added = campaign[k].added
        /\ s.excluded = campaign[k].excluded /\ s.page = 1 /\ s.count = 0 /\ s.found = {}
    BY DEF Idle
  <2>4. pc = "claim" => Matching(s.filter) = {}
    BY <2>2, <2>3 DEF Matching
  <2>5. Seen(Matching(s.filter), s.page - 1) = {}
    <3>1. Matching(campaign[k].filter) \in SUBSET Employees
      BY AudiencesAreTyped DEF IInv, TypeOK, CampaignRow
    <3>2. PICK all \in SUBSET Employees : all = Matching(s.filter)
      BY <2>3, <3>1
    <3>3. s.page - 1 = 0 /\ 1 \in Nat \ {0}
      BY <2>3
    <3>4. Seen(all, 0) = {}
      BY <3>3, PagesAddUp
    <3> QED
      BY <3>2, <3>3, <3>4
  <2>6. Cardinality({}) = 0
    BY FS_EmptySet
  <2> HIDE DEF s
  <2>7. pc \in {"claim", "collect"}
    BY <2>2
  <2>8. KnowsTheAudience(s)
    BY <2>3, <2>4, <2>5, <2>6, <2>7 DEF KnowsTheAudience
  <2>9. ActivationIsFaithful(s, TRUE)
    BY <2>3, <2>7, <2>8 DEF ActivationIsFaithful
  <2> QED
    BY <1>2, <2>1, <2>9, ActivationGoesOn
<1> QED
  BY <1>4, <1>5, <1>6, <1>7 DEF Begin

\* A request that ends without having created items.
LEMMA EndingKeepsAudience ==
  ASSUME IInv, AudienceInv, NEW c \in Calls, NEW pc \in {"done", "refused"}, Goto(c, pc),
         pc = "refused" \/ call[c].then # "claim",
         UNCHANGED <<campaign, item, directory, steady>>
  PROVE  AudienceInv'
<1> DEFINE s == [call[c] EXCEPT !.pc = pc]
<1>1. call \in [Calls -> CallState] /\ steady \in [Calls -> BOOLEAN]
  BY DEF IInv, TypeOK
<1>2. /\ call' = [call EXCEPT ![c] = s] /\ s.pc = pc /\ s.on = call[c].on
      /\ s.then = call[c].then
  BY <1>1 DEF Goto, CallState
<1>3. ActivationIsFaithful(call[c], steady[c])
  BY DEF AudienceInv
<1> HIDE DEF s
<1>4. ActivationIsFaithful(s, steady[c])
  BY <1>2, <1>3 DEF ActivationIsFaithful, KnowsTheAudience
<1>5. steady' = [steady EXCEPT ![c] = steady[c]] /\ steady[c] \in BOOLEAN
  BY <1>1
<1> QED
  BY <1>2, <1>4, <1>5, ActivationGoesOn

\* A draft is written, and what activations know of its audience is marked as
\* no longer current; or only its text is written.
LEMMA WritingKeepsAudience ==
  ASSUME IInv, AudienceInv, NEW c \in Calls, NEW k \in Campaigns,
         campaign[k].status # "active",
         \A l \in Campaigns \ {k} : campaign'[l] = campaign[l],
         UNCHANGED <<item, directory>>,
         \A d \in Calls : steady'[d] => steady[d],
         \A d \in Calls : steady'[d] /\ call[d].on = k /\ call[d].then = "claim" =>
           /\ campaign'[k].filter = campaign[k].filter
           /\ campaign'[k].added = campaign[k].added
           /\ campaign'[k].excluded = campaign[k].excluded,
         \A d \in Calls \ {c} : call'[d] = call[d],
         call'[c].then # "claim"
  PROVE  AudienceInv'
<1> SUFFICES ASSUME NEW d \in Calls
             PROVE  ActivationIsFaithful(call[d], steady[d])'
  BY DEF AudienceInv
<1>1. CASE d = c
  BY <1>1 DEF ActivationIsFaithful
<1>2. CASE d # c /\ call[d].then # "claim"
  <2>1. call'[d].then # "claim"
    BY <1>2
  <2> QED
    BY <2>1 DEF ActivationIsFaithful
<1>3. CASE d # c /\ call[d].then = "claim"
  <2>1. ActivationIsFaithful(call[d], steady[d])
    BY DEF AudienceInv
  <2>2. WithItem(call[d].on)' = WithItem(call[d].on)
    BY <1>3 DEF WithItem
  <2> QED
    BY <1>3, <2>1, <2>2, OthersStayFaithful
<1> QED
  BY <1>1, <1>2, <1>3

LEMMA DraftingKeepsAudience ==
  ASSUME CampaignsAssumption, IInv, AudienceInv,
         \/ \E k \in Campaigns, t \in Texts : CreateCampaign(k, t)
         \/ \E c \in Calls : UpdateDraft(c) \/ SaveAudience(c)
  PROVE  AudienceInv'
<1>1. /\ campaign \in [Campaigns -> CampaignRow] /\ call \in [Calls -> CallState]
      /\ steady \in [Calls -> BOOLEAN]
  BY DEF IInv, TypeOK
<1>2. ASSUME NEW k \in Campaigns, NEW t \in Texts, CreateCampaign(k, t)
      PROVE  AudienceInv'
  <2>1. ASSUME NEW d \in Calls
        PROVE  ActivationIsFaithful(call[d], steady[d])'
    <3>1. UNCHANGED <<item, directory, call, steady>> /\ campaign[k].status = "none"
      BY <1>2 DEF CreateCampaign
    <3>2. \A l \in Campaigns \ {k} : campaign'[l] = campaign[l]
      BY <1>1, <1>2 DEF CreateCampaign
    <3>3. ActivationIsFaithful(call[d], steady[d])
      BY DEF AudienceInv
    <3>4. CASE call[d].then = "claim" /\ call[d].pc # "refused" /\ steady[d]
      <4>1. call[d].on # k
        BY <3>1, <3>3, <3>4
        DEF ActivationIsFaithful, KnowsTheAudience, IInv, CallsKnowTheirRows
      <4>2. WithItem(call[d].on)' = WithItem(call[d].on)
        BY <3>1 DEF WithItem
      <4> QED
        BY <3>1, <3>2, <3>3, <4>1, <4>2, OthersStayFaithful
    <3>5. CASE ~(call[d].then = "claim" /\ call[d].pc # "refused" /\ steady[d])
      <4>1. call'[d] = call[d] /\ steady'[d] = steady[d]
        BY <3>1
      <4>2. call'[d].pc = "refused" => KnowsTheAudience(call[d])'
        BY DEF KnowsTheAudience
      <4> QED
        BY <3>3, <3>5, <4>1, <4>2 DEF ActivationIsFaithful
    <3> QED
      BY <3>4, <3>5
  <2> QED
    BY <2>1 DEF AudienceInv
<1>3. ASSUME NEW c \in Calls, UpdateDraft(c) \/ SaveAudience(c)
      PROVE  /\ call[c].on \in Campaigns /\ call[c].then # "claim"
             /\ \/ campaign[call[c].on].status = "draft" /\ Goto(c, "done")
                \/ Goto(c, "refused") /\ UNCHANGED <<campaign, item, directory, steady>>
  <2>1. ActivationIsFaithful(call[c], steady[c])
    BY DEF AudienceInv
  <2> QED
    BY <1>3, <2>1
    DEF UpdateDraft, SaveAudience, ActivationIsFaithful, IInv, CallsKnowTheirRows
<1>4. ASSUME NEW c \in Calls, Goto(c, "done")
      PROVE  /\ \A d \in Calls \ {c} : call'[d] = call[d]
             /\ call'[c].then = call[c].then
  BY <1>1, <1>4 DEF Goto, CallState
<1>5. ASSUME NEW c \in Calls, UpdateDraft(c)
      PROVE  AudienceInv'
  <2>1. CASE campaign[call[c].on].status = "draft"
    <3>1. PICK k \in Campaigns : k = call[c].on
      BY <1>3, <1>5
    <3>2. /\ campaign' = [campaign EXCEPT ![k].text = call[c].text] /\ Goto(c, "done")
          /\ UNCHANGED <<item, directory, steady>>
      BY <1>5, <2>1, <3>1 DEF UpdateDraft
    <3>3. /\ campaign'[k].filter = campaign[k].filter /\ campaign'[k].added = campaign[k].added
          /\ campaign'[k].excluded = campaign[k].excluded
          /\ \A l \in Campaigns \ {k} : campaign'[l] = campaign[l]
      BY <1>1, <3>2 DEF CampaignRow
    <3>4. campaign[k].status # "active"
      BY <2>1, <3>1
    <3> QED
      BY <1>3, <1>4, <1>5, <3>2, <3>3, <3>4, WritingKeepsAudience
  <2>2. CASE campaign[call[c].on].status # "draft"
    BY <1>3, <1>5, <2>2, EndingKeepsAudience
  <2> QED
    BY <2>1, <2>2
<1>6. ASSUME NEW c \in Calls, SaveAudience(c)
      PROVE  AudienceInv'
  <2>1. CASE campaign[call[c].on].status = "draft"
    <3>1. PICK k \in Campaigns : k = call[c].on
      BY <1>3, <1>6
    <3>2. /\ campaign' = [campaign EXCEPT ![k].filter = call[c].filter, ![k].added = call[c].added,
                                          ![k].excluded = call[c].excluded]
          /\ steady' = [d \in Calls |-> steady[d] /\ call[d].on # k] /\ Goto(c, "done")
          /\ UNCHANGED <<item, directory>>
      BY <1>6, <2>1, <3>1 DEF SaveAudience
    <3>3. \A l \in Campaigns \ {k} : campaign'[l] = campaign[l]
      BY <1>1, <3>2
    <3>4. \A d \in Calls : /\ steady'[d] => steady[d]
                           /\ steady'[d] => call[d].on # k
      BY <3>2
    <3>5. campaign[k].status # "active"
      BY <2>1, <3>1
    <3>6. \A d \in Calls : steady'[d] /\ call[d].on = k /\ call[d].then = "claim" => FALSE
      BY <3>4
    <3>7. \A d \in Calls : steady'[d] => steady[d]
      BY <3>4
    <3>8. call'[c].then # "claim" /\ \A d \in Calls \ {c} : call'[d] = call[d]
      BY <1>3, <1>4, <1>6, <3>2
    <3>9. UNCHANGED <<item, directory>>
      BY <3>2
    <3> QED
      BY <3>3, <3>5, <3>6, <3>7, <3>8, <3>9, WritingKeepsAudience
  <2>2. CASE campaign[call[c].on].status # "draft"
    BY <1>3, <1>6, <2>2, EndingKeepsAudience
  <2> QED
    BY <2>1, <2>2
<1> QED
  BY <1>2, <1>5, <1>6

\* Whoever has an item keeps one: items of a campaign appear at its commit only.
LEMMA ItemStepsKeepAudience ==
  ASSUME CampaignsAssumption, IInv, AudienceInv,
         \/ \E i \in ManualItems, t \in Texts : CreateManualItem(i, t)
         \/ \E c \in Calls : CompleteItem(c) \/ CancelItem(c)
  PROVE  AudienceInv'
<1>1. /\ call \in [Calls -> CallState] /\ item \in [ItemIds -> ItemRow]
  BY DEF IInv, TypeOK
<1>2. UNCHANGED <<campaign, directory, steady>>
  BY DEF CreateManualItem, CompleteItem, CancelItem
<1>3. \A k \in Campaigns, e \in Employees :
        item'[<<k, e>>].status # "none" <=> item[<<k, e>>].status # "none"
  <2> SUFFICES ASSUME NEW k \in Campaigns, NEW e \in Employees
               PROVE  item'[<<k, e>>].status # "none" <=> item[<<k, e>>].status # "none"
    OBVIOUS
  <2>1. <<k, e>> \in ItemIds /\ <<k, e>> \notin ManualItems
    BY DEF ItemIds, CampaignsAssumption
  <2>2. CASE \E i \in ManualItems, t \in Texts : CreateManualItem(i, t)
    <3>1. PICK i \in ManualItems : item'[<<k, e>>] = [item EXCEPT ![i] = item'[i]][<<k, e>>]
      BY <1>1, <2>1, <2>2 DEF CreateManualItem
    <3> QED
      BY <1>1, <2>1, <3>1
  <2>3. ASSUME NEW c \in Calls, CompleteItem(c) \/ CancelItem(c)
        PROVE  item'[<<k, e>>].status # "none" <=> item[<<k, e>>].status # "none"
    <3>1. CASE item[call[c].on].status = "open"
      <4>1. PICK s \in {"completed", "cancelled"} : item' = [item EXCEPT ![call[c].on].status = s]
        BY <2>3, <3>1 DEF CompleteItem, CancelItem
      <4>2. PICK i \in ItemIds : i = call[c].on
        BY <2>3 DEF CompleteItem, CancelItem, IInv, CallsKnowTheirRows
      <4>3. item'[i].status = s /\ \A j \in ItemIds \ {i} : item'[j] = item[j]
        BY <1>1, <4>1, <4>2 DEF ItemRow
      <4> QED
        BY <2>1, <3>1, <4>2, <4>3
    <3>2. CASE item[call[c].on].status # "open"
      BY <2>3, <3>2 DEF CompleteItem, CancelItem
    <3> QED
      BY <3>1, <3>2
  <2> QED
    BY <2>2, <2>3
<1>4. \A k \in Campaigns : WithItem(k)' = WithItem(k)
  BY <1>3 DEF WithItem
<1>5. \A d \in Calls : \/ call'[d] = call[d]
                       \/ call'[d].then # "claim"
  <2>1. CASE \E i \in ManualItems, t \in Texts : CreateManualItem(i, t)
    BY <2>1 DEF CreateManualItem
  <2>2. ASSUME NEW c \in Calls, CompleteItem(c) \/ CancelItem(c)
        PROVE  \A d \in Calls : call'[d] = call[d] \/ call'[d].then # "claim"
    <3>1. ActivationIsFaithful(call[c], steady[c])
      BY DEF AudienceInv
    <3>2. call[c].then # "claim"
      BY <2>2, <3>1 DEF ActivationIsFaithful, CompleteItem, CancelItem
    <3>3. PICK pc \in {"done", "refused"} : Goto(c, pc)
      BY <2>2 DEF CompleteItem, CancelItem
    <3>4. call'[c].then = call[c].then /\ \A d \in Calls \ {c} : call'[d] = call[d]
      BY <1>1, <3>3 DEF Goto, CallState
    <3> QED
      BY <3>2, <3>4
  <2> QED
    BY <2>1, <2>2
<1> SUFFICES ASSUME NEW d \in Calls
             PROVE  ActivationIsFaithful(call[d], steady[d])'
  BY DEF AudienceInv
<1>6. CASE call'[d].then # "claim"
  BY <1>6 DEF ActivationIsFaithful
<1>7. CASE call'[d] = call[d]
  <2>1. ActivationIsFaithful(call[d], steady[d])
    BY DEF AudienceInv
  <2> QED
    BY <1>2, <1>4, <1>7, <2>1, OthersStayFaithful
<1> QED
  BY <1>5, <1>6, <1>7

\* The row is claimed, and the items are inserted: the campaign's audience is
\* still the one collected, and nobody has an item before the commit.
LEMMA ActivationKeepsAudience ==
  ASSUME CampaignsAssumption, IInv, AudienceInv, NEW c \in Calls,
         Claim(c) \/ CheckRecipients(c) \/ Commit(c)
  PROVE  AudienceInv'
<1>1. /\ campaign \in [Campaigns -> CampaignRow] /\ call \in [Calls -> CallState]
      /\ item \in [ItemIds -> ItemRow] /\ steady \in [Calls -> BOOLEAN]
  BY DEF IInv, TypeOK
<1>2. ActivationIsFaithful(call[c], steady[c])
  BY DEF AudienceInv
<1>3. PICK k \in Campaigns : k = call[c].on
  BY DEF Claim, CheckRecipients, Commit, IInv, CallsKnowTheirRows
<1>4. steady[c] \in BOOLEAN /\ (UNCHANGED steady => steady' = [steady EXCEPT ![c] = steady[c]])
  BY <1>1
<1>5. CASE Claim(c) /\ campaign[k].status = "draft"
  <2> DEFINE s == [call[c] EXCEPT !.pc = "check", !.text = campaign[k].text]
  <2>1. call' = [call EXCEPT ![c] = s]
    BY <1>1, <1>3, <1>5 DEF Claim, CallState
  <2>2. /\ s.pc = "check" /\ s.on = call[c].on /\ s.then = call[c].then
        /\ s.filter = call[c].filter /\ s.added = call[c].added /\ s.excluded = call[c].excluded
        /\ s.found = call[c].found
    BY <1>1 DEF CallState
  <2> HIDE DEF s
  <2>3. ActivationIsFaithful(s, steady[c])
    BY <1>2, <1>5, <2>2 DEF Claim, ActivationIsFaithful, KnowsTheAudience
  <2>4. UNCHANGED <<campaign, item, directory, steady>>
    BY <1>5 DEF Claim, Tables
  <2> QED
    BY <1>4, <2>1, <2>3, <2>4, ActivationGoesOn
<1>6. CASE CheckRecipients(c) /\ Goto(c, "commit")
  <2> DEFINE s == [call[c] EXCEPT !.pc = "commit"]
  <2>1. call' = [call EXCEPT ![c] = s]
    BY <1>1, <1>6 DEF Goto, CallState
  <2>2. /\ s.pc = "commit" /\ s.on = call[c].on /\ s.then = call[c].then
        /\ s.filter = call[c].filter /\ s.added = call[c].added /\ s.excluded = call[c].excluded
        /\ s.found = call[c].found
    BY <1>1 DEF CallState
  <2> HIDE DEF s
  <2>3. ActivationIsFaithful(s, steady[c])
    BY <1>2, <1>6, <2>2 DEF CheckRecipients, ActivationIsFaithful, KnowsTheAudience
  <2>4. UNCHANGED <<campaign, item, directory, steady>>
    BY <1>6 DEF CheckRecipients, Tables
  <2> QED
    BY <1>4, <2>1, <2>3, <2>4, ActivationGoesOn
<1>7. CASE Goto(c, "refused") /\ UNCHANGED <<campaign, item, directory, steady>>
  BY <1>7, EndingKeepsAudience
<1>8. CASE Commit(c)
  <2>1. campaign[k].status = "draft"
    BY <1>3, <1>8 DEF Commit, IInv, ClaimHolds
  <2>2. /\ campaign'[k].status = "active" /\ campaign'[k].filter = campaign[k].filter
        /\ campaign'[k].added = campaign[k].added /\ campaign'[k].excluded = campaign[k].excluded
        /\ \A l \in Campaigns \ {k} : campaign'[l] = campaign[l]
    BY <1>1, <1>3, <1>8 DEF Commit, CampaignRow
  <2>3. UNCHANGED <<directory, steady>> /\ Goto(c, "done")
    BY <1>8 DEF Commit
  <2>4. Recipients(c) \subseteq Employees
    BY AudiencesAreTyped DEF IInv
  <2>5. \A l \in Campaigns, e \in Employees :
          item'[<<l, e>>].status # "none" <=>
            (l = k /\ e \in Recipients(c)) \/ item[<<l, e>>].status # "none"
    <3> SUFFICES ASSUME NEW l \in Campaigns, NEW e \in Employees
                 PROVE  item'[<<l, e>>].status # "none" <=>
                          (l = k /\ e \in Recipients(c)) \/ item[<<l, e>>].status # "none"
      OBVIOUS
    <3>1. <<l, e>> \in ItemIds
      BY DEF ItemIds
    <3>2. item'[<<l, e>>] = IF <<l, e>> \in {k} \X Recipients(c)
                              THEN [status |-> "open", text |-> call[c].text] ELSE item[<<l, e>>]
      BY <1>3, <1>8, <3>1 DEF Commit
    <3>3. <<l, e>> \in {k} \X Recipients(c) <=> l = k /\ e \in Recipients(c)
      OBVIOUS
    <3> QED
      BY <3>2, <3>3
  <2>6. \A e \in Employees : item[<<k, e>>].status = "none"
    BY <2>1 DEF IInv, ItemsMatchTheCampaign
  <2>7. WithItem(k)' = Recipients(c)
    BY <2>4, <2>5, <2>6 DEF WithItem
  <2>8. \A l \in Campaigns \ {k} : WithItem(l)' = WithItem(l)
    BY <2>5 DEF WithItem
  <2>9. /\ call'[c].pc = "done" /\ call'[c].on = k /\ call'[c].then = call[c].then
        /\ \A d \in Calls \ {c} : call'[d] = call[d]
    BY <1>1, <1>3, <2>3 DEF Goto, CallState
  <2> SUFFICES ASSUME NEW d \in Calls
               PROVE  ActivationIsFaithful(call[d], steady[d])'
    BY DEF AudienceInv
  <2>10. CASE d = c
    <3> SUFFICES ASSUME call[c].then = "claim", steady[c]
                 PROVE  KnowsTheAudience(call[c])'
      BY <2>3, <2>9, <2>10 DEF ActivationIsFaithful
    <3>1. KnowsTheAudience(call[c]) /\ call[c].pc = "commit"
      BY <1>2, <1>8 DEF ActivationIsFaithful, Commit
    <3>2. Recipients(c) = Invited(k)
      BY <1>3, <3>1 DEF KnowsTheAudience, Recipients, Invited
    <3>3. Invited(k)' = Invited(k)
      BY <2>2, <2>3 DEF Invited, Matching
    <3>4. PICK s : s = call'[c]
      OBVIOUS
    <3>5. KnowsTheAudience(s)'
      BY <2>2, <2>7, <2>9, <3>2, <3>3, <3>4 DEF KnowsTheAudience
    <3> QED
      BY <3>4, <3>5
  <2>11. CASE d # c
    <3>1. ActivationIsFaithful(call[d], steady[d])
      BY DEF AudienceInv
    <3> QED
      BY <2>1, <2>2, <2>3, <2>8, <2>9, <2>11, <3>1, OthersStayFaithful
  <2> QED
    BY <2>10, <2>11
<1>9. Claim(c) /\ campaign[k].status # "draft" =>
        Goto(c, "refused") /\ UNCHANGED <<campaign, item, directory, steady>>
  BY <1>3 DEF Claim, Tables
<1>10. CheckRecipients(c) =>
         \/ Goto(c, "commit")
         \/ Goto(c, "refused") /\ UNCHANGED <<campaign, item, directory, steady>>
  BY DEF CheckRecipients, Tables
<1> QED
  BY <1>5, <1>6, <1>7, <1>8, <1>9, <1>10

LEMMA AudienceStarts == Init => AudienceInv
  BY DEF Init, AudienceInv, ActivationIsFaithful, Idle

LEMMA AudienceStep ==
  CampaignsAssumption /\ IInv /\ AudienceInv /\ [Next]_vars => AudienceInv'
<1> SUFFICES ASSUME CampaignsAssumption, IInv, AudienceInv, [Next]_vars
             PROVE  AudienceInv'
  OBVIOUS
<1>1. CASE \/ \E k \in Campaigns, t \in Texts : CreateCampaign(k, t)
           \/ \E c \in Calls : UpdateDraft(c) \/ SaveAudience(c)
  BY <1>1, DraftingKeepsAudience
<1>2. CASE \/ \E i \in ManualItems, t \in Texts : CreateManualItem(i, t)
           \/ \E c \in Calls : CompleteItem(c) \/ CancelItem(c)
  BY <1>2, ItemStepsKeepAudience
<1>3. ASSUME NEW c \in Calls, Begin(c)
      PROVE  AudienceInv'
  BY <1>3, BeginKnowsTheDraft
<1>4. ASSUME NEW c \in Calls, CollectPage(c) \/ VisiblePage(c) \/ ValidateAdded(c)
      PROVE  AudienceInv'
  BY <1>4, PagesFindEverybody
<1>5. ASSUME NEW c \in Calls, Claim(c) \/ CheckRecipients(c) \/ Commit(c)
      PROVE  AudienceInv'
  BY <1>5, ActivationKeepsAudience
<1>6. ASSUME NEW c \in Calls, Fail(c)
      PROVE  AudienceInv'
  <2>1. Goto(c, "refused") /\ UNCHANGED <<campaign, item, directory, steady>>
    BY <1>6 DEF Fail, Tables
  <2> QED
    BY <2>1, EndingKeepsAudience
<1>7. CASE DirectoryChanges
  <2>1. UNCHANGED call /\ \A c \in Calls : ~steady'[c]
    BY <1>7 DEF DirectoryChanges
  <2> QED
    BY <2>1 DEF AudienceInv, ActivationIsFaithful
<1>8. CASE UNCHANGED vars
  <2> SUFFICES ASSUME NEW d \in Calls
               PROVE  ActivationIsFaithful(call[d], steady[d])'
    BY DEF AudienceInv
  <2>1. ActivationIsFaithful(call[d], steady[d])
    BY DEF AudienceInv
  <2>2. UNCHANGED <<campaign, item, directory, call, steady>>
    BY <1>8 DEF vars
  <2>3. WithItem(call[d].on)' = WithItem(call[d].on)
    BY <2>2 DEF WithItem
  <2> QED
    BY <2>1, <2>2, <2>3, OthersStayFaithful
<1> QED
  BY <1>1, <1>2, <1>3, <1>4, <1>5, <1>6, <1>7, <1>8 DEF Next, Serve

\* collectFilterMatchIds, resolveAudienceIds and the inserts of
\* runCampaignActivation together: when neither the employee table nor the
\* audience changed meanwhile, exactly the campaign's audience has items,
\* however many pages the matches take.
THEOREM ActivationsAreExact == Spec => []UndisturbedActivationIsExact
<1>1. Init => AudienceInv
  BY AudienceStarts
<1>2. IInv /\ AudienceInv /\ [Next]_vars => AudienceInv'
  BY CampaignsAssumption, AudienceStep
<1>3. AudienceInv => UndisturbedActivationIsExact
  BY DEF AudienceInv, ActivationIsFaithful, KnowsTheAudience, UndisturbedActivationIsExact,
         WithItem, Invited
<1> QED
  BY <1>1, <1>2, <1>3, InvariantHolds, PTL DEF Spec
=============================================================================

-------------------------- MODULE IntegrationsProofs --------------------------
(* Proofs about the synchronisation of projects beside the readers of      *)
(* leaves: an assignment that gives access was so in TimeTracker within a  *)
(* window, however slow a synchronisation is and whatever fails; one that  *)
(* nothing disturbs is exact; what is answered about leaves is fresh, and  *)
(* its periods are the runs of equal days.                                 *)
EXTENDS Integrations, FiniteSetTheorems, SequenceTheorems, WellFoundedInduction, TLAPS

-----------------------------------------------------------------------------
(* What TimeTracker said at some moment from t on.                         *)

Reported(t, p, email) ==
  \E v \in Worlds, m \in Months : HeldSince(v, t) /\ v.report[m][p] = email
Offered(t, id, member) ==
  \E w \in Worlds : HeldSince(w, t) /\ \E x \in w.projects : x.id = id /\ member \in x.members
ProjectsSaid(t, projects) == \E w \in Worlds : HeldSince(w, t) /\ projects = w.projects
ReportSaid(t, m, report) == \E w \in Worlds : HeldSince(w, t) /\ report = w.report[m]
Said(t, part, answer) == IF part = 0 THEN ProjectsSaid(t, answer) ELSE ReportSaid(t, part, answer)

\* The clock, and until when TimeTracker held what.
OutsideFits ==
  /\ now \in Nat /\ world \in Worlds /\ inForce \in [Worlds -> Nat]
  /\ inForce[world] = now /\ \A w \in Worlds : inForce[w] <= now

-----------------------------------------------------------------------------
(* What a request has in its record.                                       *)

Busy == {"fetching", "mapping"}

\* A synchronisation that fetches has answers from its beginning on or later.
FetchFits(s) ==
  /\ DOMAIN s = {"pc", "at", "got", "failed"} /\ s.pc = "fetching"
  /\ s.at \in Nat /\ s.at <= now
  /\ DOMAIN s.got \subseteq Parts /\ \A part \in DOMAIN s.got : Said(s.at, part, s.got[part])

\* One that maps has all of them.
MapFits(s) ==
  /\ DOMAIN s = {"pc", "at", "projects", "reports", "found"} /\ s.pc = "mapping"
  /\ s.at \in Nat /\ s.at <= now
  /\ ProjectsSaid(s.at, s.projects) /\ \A m \in Months : ReportSaid(s.at, m, s.reports[m])
  /\ Nobody \notin DOMAIN s.found

\* Every other request.
Other(s) == "pc" \in DOMAIN s /\ s.pc \notin Busy
StateFits(s) == FetchFits(s) \/ MapFits(s) \/ Other(s)
CallsFit == DOMAIN call = Calls /\ \A c \in Calls : StateFits(call[c])

\* The flag says whether a synchronisation is at work, and there is one at most.
OneAtWork ==
  /\ running <=> \E c \in Calls : call[c].pc \in Busy
  /\ \A c, d \in Calls : call[c].pc \in Busy /\ call[d].pc \in Busy => c = d

-----------------------------------------------------------------------------
(* Rows.                                                                   *)

Confirmed(table, k) == table[k].source = "timetracker" /\ table[k].confirmed

\* A row that is confirmed was so in TimeTracker since its date.
Fed(k, row) ==
  /\ row.at \in Nat /\ row.at <= now
  /\ \E member : Offered(row.at, k[1], member) /\ member[2] = row.period
                 /\ Reported(row.at, k[2], member[1])

RowsFit ==
  /\ \A k \in DOMAIN assigned :
       /\ assigned[k] = NoRow \/ RowFields \subseteq DOMAIN assigned[k]
       /\ k \in ManualRows => assigned[k].source # "timetracker"
       /\ Confirmed(assigned, k) => Fed(k, assigned[k])
  /\ \A k, l \in DOMAIN assigned :
       Confirmed(assigned, k) /\ Confirmed(assigned, l) => assigned[k].at = assigned[l].at

SyncInv == OutsideFits /\ CallsFit /\ OneAtWork /\ RowsFit

-----------------------------------------------------------------------------
(* Time: what was said stays said.                                         *)

Later ==
  /\ OutsideFits /\ OutsideFits' /\ now <= now'
  /\ \A w \in Worlds : inForce[w] <= inForce'[w]

LEMMA SaidStays ==
  ASSUME Later, NEW t \in Nat
  PROVE  /\ \A p, email : Reported(t, p, email) => Reported(t, p, email)'
         /\ \A id, member : Offered(t, id, member) => Offered(t, id, member)'
         /\ \A projects : ProjectsSaid(t, projects) => ProjectsSaid(t, projects)'
         /\ \A m, report : ReportSaid(t, m, report) => ReportSaid(t, m, report)'
<1>1. \A w \in Worlds : HeldSince(w, t) => HeldSince(w, t)'
  BY DEF Later, OutsideFits, HeldSince
<1>2. \A p, email : Reported(t, p, email) => Reported(t, p, email)'
  BY <1>1 DEF Reported
<1>3. \A id, member : Offered(t, id, member) => Offered(t, id, member)'
  BY <1>1 DEF Offered
<1>4. \A projects : ProjectsSaid(t, projects) => ProjectsSaid(t, projects)'
  BY <1>1 DEF ProjectsSaid
<1>5. \A m, report : ReportSaid(t, m, report) => ReportSaid(t, m, report)'
  BY <1>1 DEF ReportSaid
<1> QED
  BY <1>2, <1>3, <1>4, <1>5

LEMMA StatesStay ==
  ASSUME Later, NEW s, StateFits(s)
  PROVE  StateFits(s)'
<1>1. CASE FetchFits(s)
  <2>1. \A part \in DOMAIN s.got : Said(s.at, part, s.got[part]) => Said(s.at, part, s.got[part])'
    BY <1>1, SaidStays DEF FetchFits, Said
  <2>2. s.at <= now'
    BY <1>1 DEF FetchFits, Later, OutsideFits
  <2> QED
    BY <1>1, <2>1, <2>2 DEF FetchFits, StateFits
<1>2. CASE MapFits(s)
  <2>1. s.at <= now'
    BY <1>2 DEF MapFits, Later, OutsideFits
  <2>2. ProjectsSaid(s.at, s.projects)' /\ \A m \in Months : ReportSaid(s.at, m, s.reports[m])'
    BY <1>2, SaidStays DEF MapFits
  <2> QED
    BY <1>2, <2>1, <2>2 DEF MapFits, StateFits
<1>3. CASE Other(s)
  BY <1>3 DEF Other, StateFits
<1> QED
  BY <1>1, <1>2, <1>3 DEF StateFits

LEMMA FedStays ==
  ASSUME Later, NEW k, NEW row, Fed(k, row)
  PROVE  Fed(k, row)'
<1>1. row.at <= now'
  BY DEF Fed, Later, OutsideFits
<1> QED
  BY <1>1, SaidStays DEF Fed

LEMMA NothingPasses ==
  ASSUME OutsideFits, UNCHANGED outside
  PROVE  Later
BY DEF OutsideFits, outside, Later

-----------------------------------------------------------------------------
(* Steps that leave the rows as they are.                                  *)

LEMMA RowsStay ==
  ASSUME RowsFit, Later, assigned' = assigned
  PROVE  RowsFit'
<1>1. ASSUME NEW k \in DOMAIN assigned, Confirmed(assigned, k)
      PROVE  Fed(k, assigned[k])'
  <2>1. PICK row : row = assigned[k]
    OBVIOUS
  <2>2. Fed(k, row)
    BY <1>1, <2>1 DEF RowsFit
  <2>3. Fed(k, row)'
    BY <2>2, FedStays
  <2> QED
    BY <2>1, <2>3 DEF Fed
<1>2. \A k \in DOMAIN assigned : Confirmed(assigned, k)' <=> Confirmed(assigned, k)
  BY DEF Confirmed
<1> QED
  BY <1>1, <1>2 DEF RowsFit

LEMMA CallsStay ==
  ASSUME CallsFit, Later, NEW c \in Calls, NEW s, call' = [call EXCEPT ![c] = s], StateFits(s)
  PROVE  CallsFit'
<1>1. DOMAIN call' = Calls /\ call'[c] = s /\ \A d \in Calls \ {c} : call'[d] = call[d]
  BY DEF CallsFit
<1>2. StateFits(s)'
  BY StatesStay
<1>3. ASSUME NEW d \in Calls, d # c
      PROVE  StateFits(call[d])'
  <2>1. PICK r : r = call[d]
    OBVIOUS
  <2>2. StateFits(r)'
    BY <2>1, StatesStay DEF CallsFit
  <2> QED
    BY <1>1, <1>3, <2>1, <2>2 DEF StateFits, FetchFits, MapFits, Other
<1>4. StateFits(call[c])'
  BY <1>1, <1>2 DEF StateFits, FetchFits, MapFits, Other
<1> QED
  BY <1>1, <1>3, <1>4 DEF CallsFit

\* One request goes on, and is as busy as it was.
LEMMA CallGoesOn ==
  ASSUME SyncInv, UNCHANGED outside, UNCHANGED syncVars, NEW c \in Calls, NEW s,
         call' = [call EXCEPT ![c] = s], StateFits(s), s.pc \in Busy <=> call[c].pc \in Busy
  PROVE  SyncInv'
<1>1. Later
  BY NothingPasses DEF SyncInv
<1>2. CallsFit' /\ RowsFit'
  BY <1>1, CallsStay, RowsStay DEF SyncInv, syncVars
<1>3. OneAtWork'
  BY DEF SyncInv, CallsFit, OneAtWork, syncVars
<1> QED
  BY <1>1, <1>2, <1>3 DEF SyncInv, Later

LEMMA OtherGoesOn ==
  ASSUME SyncInv, UNCHANGED outside, UNCHANGED syncVars, NEW c \in Calls, NEW s,
         call' = [call EXCEPT ![c] = s], Other(s), call[c].pc \notin Busy
  PROVE  SyncInv'
BY CallGoesOn DEF StateFits, Other

\* The one synchronisation ends.
LEMMA SyncEnds ==
  ASSUME SyncInv, UNCHANGED outside, NEW c \in Calls, call[c].pc \in Busy, running' = FALSE, NEW s,
         call' = [call EXCEPT ![c] = s], Other(s), RowsFit'
  PROVE  SyncInv'
<1>1. Later
  BY NothingPasses DEF SyncInv
<1>2. CallsFit'
  BY <1>1, CallsStay DEF SyncInv, StateFits
<1>3. OneAtWork'
  BY DEF SyncInv, CallsFit, OneAtWork, Other
<1> QED
  BY <1>1, <1>2, <1>3 DEF SyncInv, Later

LEMMA BusyStates ==
  ASSUME NEW s, StateFits(s)
  PROVE  /\ "pc" \in DOMAIN s
         /\ s.pc = "fetching" => FetchFits(s)
         /\ s.pc = "mapping" => MapFits(s)
         /\ s.pc \notin Busy => Other(s)
BY DEF StateFits, FetchFits, MapFits, Other, Busy

-----------------------------------------------------------------------------
(* The readers of leaves, and other requests.                              *)

\* A request that is no synchronisation becomes another such state.
LEMMA OtherBecomes ==
  ASSUME SyncInv, UNCHANGED outside, UNCHANGED syncVars, NEW c \in Calls, call[c].pc \notin Busy,
         NEW s, Become(c, s), Other(s)
  PROVE  SyncInv'
BY OtherGoesOn DEF Become

LEMMA OtherMoves ==
  ASSUME SyncInv, UNCHANGED outside, UNCHANGED syncVars, NEW c \in Calls, call[c].pc \notin Busy,
         NEW pc, pc \notin Busy, Goto(c, pc)
  PROVE  SyncInv'
<1> DEFINE s == [call[c] EXCEPT !.pc = pc]
<1>1. "pc" \in DOMAIN call[c]
  BY BusyStates DEF SyncInv, CallsFit
<1>2. Other(s) /\ call' = [call EXCEPT ![c] = s]
  BY <1>1 DEF Other, Goto, SyncInv, CallsFit
<1> HIDE DEF s
<1> QED
  BY <1>2, OtherGoesOn

LEMMA LeavesBegin ==
  ASSUME SyncInv, UNCHANGED outside, UNCHANGED syncVars, NEW c \in Calls, BeginLeaves(c) \/ BeginPage(c)
  PROVE  SyncInv'
<1>1. call[c].pc \notin Busy
  BY DEF BeginLeaves, BeginPage, At, Busy
<1>2. Other([pc |-> "refused"]) /\ Other([pc |-> "done"])
  BY DEF Other, Busy
<1>3. CASE BeginLeaves(c)
  <2>1. CASE Become(c, [pc |-> "refused"]) \/ Become(c, [pc |-> "done"])
    BY <1>1, <1>2, <2>1, OtherBecomes
  <2>2. ASSUME NEW e \in Employees, NEW p \in PersonsOf(identity, e),
               Become(c, [pc |-> "leaves", person |-> p, since |-> now, month |-> 1,
                          days |-> << >>, stale |-> FALSE, at |-> 0, old |-> NoEntry])
        PROVE  SyncInv'
    <3>1. PICK s : s = [pc |-> "leaves", person |-> p, since |-> now, month |-> 1,
                        days |-> << >>, stale |-> FALSE, at |-> 0, old |-> NoEntry]
      OBVIOUS
    <3>2. Other(s) /\ Become(c, s)
      BY <2>2, <3>1 DEF Other, Busy
    <3> QED
      BY <1>1, <3>2, OtherBecomes
  <2> QED
    BY <1>3, <2>1, <2>2 DEF BeginLeaves
<1>4. CASE BeginPage(c)
  <2>1. PICK s : Become(c, s) /\ Other(s)
    BY <1>4 DEF BeginPage, Other, Busy
  <2> QED
    BY <1>1, <2>1, OtherBecomes
<1> QED
  BY <1>3, <1>4

LEMMA TakingIsOther ==
  ASSUME SyncInv, UNCHANGED outside, UNCHANGED syncVars, NEW c \in Calls, call[c].pc \notin Busy,
         NEW days, NEW stale, Take(c, days, stale)
  PROVE  SyncInv'
<1> DEFINE s == [call[c] EXCEPT !.pc = "leaves", !.month = @ + 1, !.days = Append(@, days),
                              !.stale = @ \/ stale, !.at = 0, !.old = NoEntry]
<1>1. "pc" \in DOMAIN call[c]
  BY BusyStates DEF SyncInv, CallsFit
<1>2. Other(s)
  BY <1>1 DEF Other, Busy
<1>3. Become(c, s)
  BY DEF Take
<1> HIDE DEF s
<1> QED
  BY <1>2, <1>3, OtherBecomes

LEMMA LeavesGoOn ==
  ASSUME SyncInv, UNCHANGED outside, UNCHANGED syncVars, NEW c \in Calls, ServeLeaves(c)
  PROVE  SyncInv'
<1>0. StateFits(call[c]) /\ "pc" \in DOMAIN call[c]
  BY BusyStates DEF SyncInv, CallsFit
<1>1. CASE TakeCached(c)
  BY <1>1, TakingIsOther DEF TakeCached, At, Busy
<1>2. CASE AskMonth(c)
  <2> DEFINE s == [call[c] EXCEPT !.pc = "askMonth", !.at = now, !.old = EntryFor(c)]
  <2>1. Become(c, s) /\ call[c].pc \notin Busy
    BY <1>2 DEF AskMonth, At, Busy
  <2>2. Other(s)
    BY <1>0 DEF Other, Busy
  <2> HIDE DEF s
  <2> QED
    BY <2>1, <2>2, OtherBecomes
<1>3. CASE MonthArrives(c)
  BY <1>3, TakingIsOther DEF MonthArrives, At, Busy
<1>4. CASE MonthFails(c)
  <2>1. CASE Take(c, call[c].old.days, TRUE)
    BY <1>4, <2>1, TakingIsOther DEF MonthFails, At, Busy
  <2>2. CASE Become(c, [pc |-> "refused"])
    <3>1. PICK s : Become(c, s) /\ Other(s) /\ call[c].pc \notin Busy
      BY <1>4, <2>2 DEF MonthFails, At, Busy, Other
    <3> QED
      BY <3>1, OtherBecomes
  <2> QED
    BY <1>4, <2>1, <2>2 DEF MonthFails
<1>5. CASE AnswerLeaves(c)
  <2>1. PICK s : Become(c, s) /\ Other(s) /\ call[c].pc \notin Busy
    BY <1>5 DEF AnswerLeaves, At, Busy, Other
  <2> QED
    BY <2>1, OtherBecomes
<1>6. CASE LoadPage(c)
  <2>1. PICK s : Become(c, s) /\ Other(s) /\ call[c].pc \notin Busy
    BY <1>6 DEF LoadPage, At, Busy, Other
  <2> QED
    BY <2>1, OtherBecomes
<1>7. ASSUME NEW m \in Months, Loading(c, m), NEW loads, call' = [call EXCEPT ![c] = [call[c] EXCEPT !.loads = loads]]
      PROVE  SyncInv'
  <2> DEFINE s == [call[c] EXCEPT !.loads = loads]
  <2>1. call[c].pc \notin Busy
    BY <1>0, <1>7 DEF StateFits, FetchFits, MapFits, Other, Loading
  <2>2. Other(s)
    BY <1>0, <2>1 DEF Other
  <2> HIDE DEF s
  <2>3. call' = [call EXCEPT ![c] = s]
    BY <1>7 DEF s
  <2> QED
    BY <2>1, <2>2, <2>3, OtherGoesOn
<1>8. CASE PageArrives(c)
  <2>1. PICK m \in Months : Loading(c, m) /\ call' = [call EXCEPT ![c].loads[m].state = "done"]
    BY <1>8 DEF PageArrives
  <2>2. PICK loads : loads = [call[c].loads EXCEPT ![m].state = "done"]
    OBVIOUS
  <2>3. call' = [call EXCEPT ![c] = [call[c] EXCEPT !.loads = loads]]
    BY <2>1, <2>2 DEF SyncInv, CallsFit
  <2> QED
    BY <1>7, <2>1, <2>3
<1>9. CASE PageFails(c)
  <2>1. PICK m \in Months, old \in BOOLEAN : Loading(c, m) /\
          call' = [call EXCEPT ![c].loads[m] =
                     IF old THEN [@ EXCEPT !.state = "done", !.map = Load(c, m).old.map, !.stale = TRUE]
                     ELSE [@ EXCEPT !.state = "failed"]]
    BY <1>9 DEF PageFails
  <2>2. PICK new : call' = [call EXCEPT ![c].loads[m] = new]
    BY <2>1
  <2>3. PICK loads : loads = [call[c].loads EXCEPT ![m] = new]
    OBVIOUS
  <2>4. call' = [call EXCEPT ![c] = [call[c] EXCEPT !.loads = loads]]
    BY <2>2, <2>3 DEF SyncInv, CallsFit
  <2> QED
    BY <1>7, <2>1, <2>4
<1>10. CASE AnswerPage(c)
  <2>1. call[c].pc \notin Busy
    BY <1>10 DEF AnswerPage, At, Busy
  <2>2. CASE Become(c, [pc |-> "done"])
    <3>1. PICK s : Become(c, s) /\ Other(s)
      BY <2>2 DEF Other, Busy
    <3> QED
      BY <2>1, <3>1, OtherBecomes
  <2>3. CASE Goto(c, "refused")
    BY <2>1, <2>3, OtherMoves DEF Busy
  <2> QED
    BY <1>10, <2>2, <2>3 DEF AnswerPage
<1> QED
  BY <1>1, <1>2, <1>3, <1>4, <1>5, <1>6, <1>8, <1>9, <1>10 DEF ServeLeaves

-----------------------------------------------------------------------------
(* A synchronisation up to its transaction.                                *)

LEMMA BeginSyncKeeps ==
  ASSUME SyncInv, UNCHANGED outside, NEW c \in Calls, BeginSync(c)
  PROVE  SyncInv'
<1>0. call[c].pc \notin Busy
  BY DEF BeginSync, At, Busy
<1>1. CASE running
  <2>1. PICK s : Become(c, s) /\ Other(s) /\ UNCHANGED syncVars
    BY <1>1 DEF BeginSync, Other, Busy, syncVars
  <2> QED
    BY <1>0, <2>1, OtherBecomes
<1>2. CASE ~running
  <2>1. PICK s : s = [pc |-> "fetching", at |-> now, got |-> << >>, failed |-> {}]
    OBVIOUS
  <2>2. running' = TRUE /\ assigned' = assigned /\ call' = [call EXCEPT ![c] = s]
    BY <1>2, <2>1 DEF BeginSync, Become
  <2>3. FetchFits(s)
    BY <2>1 DEF FetchFits, SyncInv, OutsideFits
  <2>4. Later
    BY NothingPasses DEF SyncInv
  <2>5. CallsFit' /\ RowsFit'
    BY <2>2, <2>3, <2>4, CallsStay, RowsStay DEF SyncInv, StateFits
  <2>6. OneAtWork'
    BY <1>2, <2>2, <2>3 DEF SyncInv, CallsFit, OneAtWork, FetchFits, Busy
  <2> QED
    BY <2>4, <2>5, <2>6 DEF SyncInv, Later
<1> QED
  BY <1>1, <1>2

\* What TimeTracker holds now is an answer to every question asked before.
LEMMA SaidNow ==
  ASSUME OutsideFits, NEW t \in Nat, t <= now
  PROVE  ProjectsSaid(t, world.projects) /\ \A m : ReportSaid(t, m, world.report[m])
BY DEF OutsideFits, ProjectsSaid, ReportSaid, HeldSince

LEMMA FetchKeeps ==
  ASSUME SyncInv, UNCHANGED outside, NEW c \in Calls, Fetch(c)
  PROVE  SyncInv'
<1>1. FetchFits(call[c])
  BY BusyStates DEF Fetch, At, SyncInv, CallsFit
<1>2. PICK part \in Awaited(c) : Got(c, part, IF part = 0 THEN world.projects ELSE world.report[part])
  BY DEF Fetch
<1>3. PICK answer : answer = IF part = 0 THEN world.projects ELSE world.report[part]
  OBVIOUS
<1>4. Said(call[c].at, part, answer)
  BY <1>1, <1>3, SaidNow DEF FetchFits, Said, SyncInv
<1>5. PICK got : got = [x \in DOMAIN call[c].got \cup {part} |-> IF x = part THEN answer ELSE call[c].got[x]]
  OBVIOUS
<1>6. DOMAIN got = DOMAIN call[c].got \cup {part} /\ got[part] = answer
      /\ \A x \in DOMAIN call[c].got \ {part} : got[x] = call[c].got[x]
  BY <1>5
<1>7. PICK s : s = [call[c] EXCEPT !.got = got]
  OBVIOUS
<1>8. call' = [call EXCEPT ![c] = s]
  BY <1>2, <1>3, <1>5, <1>7 DEF Got, SyncInv, CallsFit
<1>9. DOMAIN s = DOMAIN call[c] /\ s.pc = call[c].pc /\ s.at = call[c].at /\ s.got = got
  BY <1>1, <1>7 DEF FetchFits
<1>10. FetchFits(s)
  BY <1>1, <1>4, <1>6, <1>9 DEF FetchFits, Awaited
<1> QED
  BY <1>1, <1>8, <1>9, <1>10, CallGoesOn DEF StateFits, Fetch

LEMMA FetchFailsKeeps ==
  ASSUME SyncInv, UNCHANGED outside, NEW c \in Calls, FetchFails(c)
  PROVE  SyncInv'
<1>1. FetchFits(call[c])
  BY BusyStates DEF FetchFails, At, SyncInv, CallsFit
<1>2. PICK part \in Awaited(c) : call' = [call EXCEPT ![c].failed = @ \cup {part}]
  BY DEF FetchFails
<1>3. PICK s : s = [call[c] EXCEPT !.failed = @ \cup {part}]
  OBVIOUS
<1>4. call' = [call EXCEPT ![c] = s]
  BY <1>2, <1>3 DEF SyncInv, CallsFit
<1>5. DOMAIN s = DOMAIN call[c] /\ s.pc = call[c].pc /\ s.at = call[c].at /\ s.got = call[c].got
  BY <1>1, <1>3 DEF FetchFits
<1>6. FetchFits(s)
  BY <1>1, <1>5 DEF FetchFits
<1> QED
  BY <1>1, <1>4, <1>5, <1>6, CallGoesOn DEF StateFits, FetchFails

\* The end of a synchronisation that saves nothing.
LEMMA GiveUpKeeps ==
  ASSUME SyncInv, UNCHANGED outside, NEW c \in Calls, call[c].pc \in Busy, GiveUp(c)
  PROVE  SyncInv'
<1>0. PICK s : s = [pc |-> "refused"]
  OBVIOUS
<1>1. call' = [call EXCEPT ![c] = s] /\ Other(s)
  BY <1>0 DEF GiveUp, Become, Other, Busy
<1>2. RowsFit'
  BY NothingPasses, RowsStay DEF GiveUp, SyncInv
<1> QED
  BY <1>1, <1>2, SyncEnds DEF GiveUp

LEMMA CheckPayloadKeeps ==
  ASSUME SyncInv, UNCHANGED outside, NEW c \in Calls, CheckPayload(c)
  PROVE  SyncInv'
<1>1. FetchFits(call[c]) /\ call[c].pc \in Busy
  BY BusyStates DEF CheckPayload, At, SyncInv, CallsFit, Busy
<1>2. CASE GiveUp(c)
  BY <1>1, <1>2, GiveUpKeeps
<1>3. CASE ~GiveUp(c)
  <2>1. PICK s : s = [pc |-> "mapping", at |-> call[c].at, projects |-> call[c].got[0],
                      reports |-> [m \in Months |-> call[c].got[m]], found |-> << >>]
    OBVIOUS
  <2>2. call[c].failed = {} /\ call' = [call EXCEPT ![c] = s] /\ UNCHANGED syncVars
    BY <1>3, <2>1 DEF CheckPayload, Become
  <2>3. 0 \in DOMAIN call[c].got /\ Months \subseteq DOMAIN call[c].got
    BY <2>2 DEF CheckPayload, Settled, Awaited, Parts
  <2>4. ProjectsSaid(call[c].at, call[c].got[0])
    BY <1>1, <2>3 DEF FetchFits, Said
  <2>5. \A m \in Months : ReportSaid(call[c].at, m, call[c].got[m])
    BY <1>1, <2>3 DEF FetchFits, Said, Months
  <2>6. DOMAIN s = {"pc", "at", "projects", "reports", "found"} /\ s.pc = "mapping" /\ s.at = call[c].at
        /\ s.projects = call[c].got[0] /\ s.found = << >> /\ \A m \in Months : s.reports[m] = call[c].got[m]
    BY <2>1
  <2>7. MapFits(s)
    BY <1>1, <2>4, <2>5, <2>6 DEF MapFits, FetchFits
  <2> QED
    BY <1>1, <2>2, <2>6, <2>7, CallGoesOn DEF StateFits, Busy
<1> QED
  BY <1>2, <1>3

LEMMA LookupKeeps ==
  ASSUME SyncInv, UNCHANGED outside, NEW c \in Calls, Lookup(c)
  PROVE  SyncInv'
<1>1. MapFits(call[c])
  BY BusyStates DEF Lookup, At, SyncInv, CallsFit
<1>2. PICK p \in Wanted(call[c].reports, call[c].found, call[c].projects) :
        call' = [call EXCEPT ![c].found = [x \in DOMAIN @ \cup {p} |->
                   IF x \in DOMAIN @ THEN @[x] ELSE EmployeeOf(identity, p)]]
  BY DEF Lookup
<1>3. PICK found : found = [x \in DOMAIN call[c].found \cup {p} |->
                   IF x \in DOMAIN call[c].found THEN call[c].found[x] ELSE EmployeeOf(identity, p)]
  OBVIOUS
<1>4. DOMAIN found = DOMAIN call[c].found \cup {p} /\ p # Nobody
  BY <1>3 DEF Wanted
<1>5. PICK s : s = [call[c] EXCEPT !.found = found]
  OBVIOUS
<1>6. call' = [call EXCEPT ![c] = s]
  BY <1>2, <1>3, <1>5 DEF SyncInv, CallsFit
<1>7. DOMAIN s = DOMAIN call[c] /\ s.pc = call[c].pc /\ s.at = call[c].at /\ s.projects = call[c].projects
      /\ s.reports = call[c].reports /\ s.found = found
  BY <1>1, <1>5 DEF MapFits
<1>8. MapFits(s)
  BY <1>1, <1>4, <1>7 DEF MapFits
<1> QED
  BY <1>1, <1>6, <1>7, <1>8, CallGoesOn DEF StateFits, Lookup

-----------------------------------------------------------------------------
(* The transaction of a synchronisation.                                   *)

LEMMA LeastNat ==
  ASSUME NEW S, S \subseteq Nat, S # {}
  PROVE  \E m \in S : \A n \in S : m <= n
<1> DEFINE R == OpToRel(<, Nat)
<1>1. IsWellFoundedOn(R, Nat)
  BY NatLessThanWellFounded
<1>2. PICK m \in S : \A n \in S : <<n, m>> \notin R
  <2> HIDE DEF R
  <2> QED
    BY <1>1, WFMin
<1>3. \A n \in S : n < m => <<n, m>> \in R
  BY DEF OpToRel
<1> HIDE DEF R
<1>4. \A n \in S : ~(n < m)
  BY <1>2, <1>3
<1> QED
  BY <1>4

\* The entry of a person is what some report says of the person.
LEMMA EntryIsReported ==
  ASSUME NEW reports, NEW p
  PROVE  \E m \in Months : reports[m][p] = EntryOf(reports, p)
<1> DEFINE named == {m \in Months : reports[m][p] # Nobody}
           IsFirst(m) == \A n \in named : m <= n
<1>1. CASE named = {}
  <2>1. 1 \in Months
    BY IntegrationsAssumption DEF Months
  <2> QED
    BY <1>1, <2>1 DEF EntryOf
<1>2. CASE named # {}
  <2>1. named \subseteq Nat
    BY IntegrationsAssumption DEF Months
  <2>2. \E m \in named : IsFirst(m)
    <3> HIDE DEF named
    <3> QED
      BY <1>2, <2>1, LeastNat
  <2>3. (CHOOSE m \in named : IsFirst(m)) \in named
    BY <2>2
  <2>4. EntryOf(reports, p) = reports[CHOOSE m \in named : IsFirst(m)][p]
    BY <1>2 DEF EntryOf
  <2> QED
    BY <2>3, <2>4
<1> QED
  BY <1>1, <1>2

\* A person found by an e-mail has it.
LEMMA PersonHasEmail ==
  ASSUME NEW reports, NEW email, PersonOf(reports, email) # Nobody
  PROVE  /\ PersonOf(reports, email) \in People
         /\ EntryOf(reports, PersonOf(reports, email)) = email
<1>1. Cardinality(Holders(reports, email)) = 1
  BY DEF PersonOf
<1>2. Holders(reports, email) # {}
  BY <1>1, FS_EmptySet
<1>3. PersonOf(reports, email) \in Holders(reports, email)
  BY <1>1, <1>2 DEF PersonOf
<1> QED
  BY <1>3 DEF Holders

\* What the mapper makes of answers is what TimeTracker said in them.
LEMMA MappedFits ==
  ASSUME NEW t \in Nat, NEW projects, ProjectsSaid(t, projects),
         NEW reports, \A m \in Months : ReportSaid(t, m, reports[m]),
         NEW found, Nobody \notin DOMAIN found,
         NEW r \in Mapped(reports, found, projects)
  PROVE  /\ r.key \notin ManualRows
         /\ \E member : /\ Offered(t, r.key[1], member) /\ member[2] = r.period
                        /\ Reported(t, r.key[2], member[1])
<1>0. PICK x \in projects : \E member \in x.members :
        /\ ResolvedBy(reports, found, member[1]) # Nobody
        /\ r = [key |-> <<x.id, PersonOf(reports, member[1])>>,
                employee |-> ResolvedBy(reports, found, member[1]),
                pm |-> ResolvedBy(reports, found, x.pm), dm |-> ResolvedBy(reports, found, x.dm),
                period |-> member[2]]
  BY DEF Mapped
<1>1. PICK member \in x.members :
        /\ ResolvedBy(reports, found, member[1]) # Nobody
        /\ r = [key |-> <<x.id, PersonOf(reports, member[1])>>,
                employee |-> ResolvedBy(reports, found, member[1]),
                pm |-> ResolvedBy(reports, found, x.pm), dm |-> ResolvedBy(reports, found, x.dm),
                period |-> member[2]]
  BY <1>0
<1>2. PICK p : p = PersonOf(reports, member[1])
  OBVIOUS
<1>3. p # Nobody
  BY <1>1, <1>2 DEF ResolvedBy
<1>4. p \in People /\ EntryOf(reports, p) = member[1]
  BY <1>2, <1>3, PersonHasEmail
<1>5. PICK m \in Months : reports[m][p] = member[1]
  BY <1>4, EntryIsReported
<1>6. Reported(t, p, member[1])
  BY <1>5 DEF Reported, ReportSaid
<1>7. PICK w \in Worlds : HeldSince(w, t) /\ projects = w.projects
  BY DEF ProjectsSaid
<1>8. Offered(t, x.id, member)
  BY <1>7 DEF Offered
<1>9. <<x.id, p>> \notin ManualRows
  BY <1>4, <1>7, IntegrationsAssumption
<1>10. r.key = <<x.id, p>> /\ r.period = member[2]
  BY <1>1, <1>2
<1> QED
  BY <1>6, <1>8, <1>9, <1>10

\* What the transaction leaves: a row of the feed with its date, or what was
\* there, no longer confirmed if it is of TimeTracker.
SavedAs(rows, at, k, row) ==
  \/ \E r \in rows : /\ r.key = k
                     /\ row = [source |-> "timetracker", employee |-> r.employee, pm |-> r.pm,
                               dm |-> r.dm, period |-> r.period, confirmed |-> TRUE, at |-> at]
  \/ /\ \A r \in rows : r.key # k
     /\ row = IF assigned[k].source = "timetracker"
              THEN [assigned[k] EXCEPT !.confirmed = FALSE] ELSE assigned[k]

LEMMA SavedRow ==
  ASSUME NEW rows, NEW at, NEW table, table = DeconfirmMissing(Confirm(rows, at), rows),
         NEW k \in DOMAIN assigned
  PROVE  /\ DOMAIN table = DOMAIN assigned
         /\ SavedAs(rows, at, k, table[k])
<1>1. PICK old : old = Confirm(rows, at)
  OBVIOUS
<1>2. DOMAIN old = DOMAIN assigned
  BY <1>1 DEF Confirm
<1>3. DOMAIN table = DOMAIN assigned
      /\ table[k] = IF old[k].source = "timetracker" /\ k \notin {r.key : r \in rows}
                    THEN [old[k] EXCEPT !.confirmed = FALSE] ELSE old[k]
  BY <1>1, <1>2 DEF DeconfirmMissing
<1>4. CASE \E r \in rows : r.key = k
  <2>1. PICK r : r = CHOOSE q \in rows : q.key = k
    OBVIOUS
  <2>2. r \in rows /\ r.key = k
    BY <1>4, <2>1
  <2>3. old[k] = [source |-> "timetracker", employee |-> r.employee, pm |-> r.pm,
                  dm |-> r.dm, period |-> r.period, confirmed |-> TRUE, at |-> at]
    BY <1>1, <1>4, <2>1 DEF Confirm
  <2>4. k \in {q.key : q \in rows}
    BY <2>2
  <2> QED
    BY <1>3, <2>2, <2>3, <2>4 DEF SavedAs
<1>5. CASE \A r \in rows : r.key # k
  <2>1. old[k] = assigned[k]
    BY <1>1, <1>5 DEF Confirm
  <2>2. k \notin {q.key : q \in rows}
    BY <1>5
  <2> QED
    BY <1>3, <1>5, <2>1, <2>2 DEF SavedAs
<1> QED
  BY <1>4, <1>5

LEMMA SaveKeeps ==
  ASSUME SyncInv, UNCHANGED outside, NEW c \in Calls, Save(c)
  PROVE  SyncInv'
<1>1. MapFits(call[c]) /\ call[c].pc \in Busy
  BY BusyStates DEF Save, MappingDone, At, SyncInv, CallsFit, Busy
<1>2. PICK at, rows : at = call[c].at /\ rows = Mapping(c)
  OBVIOUS
<1>3. at \in Nat /\ at <= now
  BY <1>1, <1>2 DEF MapFits
<1>4. assigned' = DeconfirmMissing(Confirm(rows, at), rows)
  BY <1>2 DEF Save
<1>5. Later /\ now' = now /\ UNCHANGED inForce
  BY NothingPasses DEF SyncInv, outside
<1>6. \A r \in rows :
        /\ r.key \notin ManualRows
        /\ \E member : /\ Offered(at, r.key[1], member) /\ member[2] = r.period
                       /\ Reported(at, r.key[2], member[1])
  BY <1>1, <1>2, <1>3, MappedFits DEF Mapping, MapFits
<1>7. ASSUME NEW k \in DOMAIN assigned
      PROVE  /\ DOMAIN assigned' = DOMAIN assigned
             /\ assigned'[k] = NoRow \/ RowFields \subseteq DOMAIN assigned'[k]
             /\ k \in ManualRows => assigned'[k].source # "timetracker"
             /\ Confirmed(assigned', k) => assigned'[k].at = at /\ Fed(k, assigned[k])'
  <2>0. PICK new : new = assigned'
    OBVIOUS
  <2>1. CASE \E r \in rows : /\ r.key = k
                             /\ new[k] = [source |-> "timetracker", employee |-> r.employee, pm |-> r.pm,
                                         dm |-> r.dm, period |-> r.period, confirmed |-> TRUE, at |-> at]
    <3>1. PICK r \in rows : /\ r.key = k
                           /\ new[k] = [source |-> "timetracker", employee |-> r.employee, pm |-> r.pm,
                                       dm |-> r.dm, period |-> r.period, confirmed |-> TRUE, at |-> at]
      BY <2>1
    <3>2. PICK row : row = new[k]
      OBVIOUS
    <3>3. row.at = at /\ row.period = r.period /\ RowFields \subseteq DOMAIN row
      BY <3>1, <3>2 DEF RowFields
    <3>4. Fed(k, row)
      BY <1>3, <1>6, <3>1, <3>3 DEF Fed
    <3>5. Fed(k, row)'
      BY <1>5, <3>4, FedStays
    <3>6. k \notin ManualRows
      BY <1>6, <3>1
    <3>7. DOMAIN assigned' = DOMAIN assigned
      BY <1>4, SavedRow
    <3> QED
      BY <2>0, <3>2, <3>3, <3>5, <3>6, <3>7 DEF Fed
  <2>2. CASE new[k] = IF assigned[k].source = "timetracker"
                      THEN [assigned[k] EXCEPT !.confirmed = FALSE] ELSE assigned[k]
    <3>1. DOMAIN assigned' = DOMAIN assigned
      BY <1>4, SavedRow
    <3>2. CASE assigned[k].source = "timetracker"
      <4>1. RowFields \subseteq DOMAIN assigned[k] /\ k \notin ManualRows
        BY <3>2 DEF SyncInv, RowsFit, NoRow
      <4>2. DOMAIN new[k] = DOMAIN assigned[k] /\ new[k].confirmed = FALSE
        BY <2>2, <3>2, <4>1 DEF RowFields
      <4> QED
        BY <2>0, <3>1, <4>1, <4>2 DEF Confirmed
    <3>3. CASE assigned[k].source # "timetracker"
      BY <2>0, <2>2, <3>1, <3>3 DEF Confirmed, SyncInv, RowsFit
    <3> QED
      BY <3>2, <3>3
  <2> QED
    <3>1. SavedAs(rows, at, k, new[k])
      BY <1>4, <2>0, SavedRow
    <3> QED
      BY <2>1, <2>2, <3>1 DEF SavedAs
<1>8. DOMAIN assigned' = DOMAIN assigned
  <2>1. CASE DOMAIN assigned = {}
    BY <1>4, <2>1 DEF DeconfirmMissing, Confirm
  <2>2. CASE DOMAIN assigned # {}
    BY <1>7, <2>2
  <2> QED
    BY <2>1, <2>2
<1>9. RowsFit'
  <2>1. \A k \in DOMAIN assigned : Confirmed(assigned', k) => Confirmed(assigned, k)'
    BY DEF Confirmed
  <2>2. \A k \in DOMAIN assigned : Confirmed(assigned, k)' => Confirmed(assigned', k)
    BY DEF Confirmed
  <2> QED
    BY <1>7, <1>8, <2>1, <2>2 DEF RowsFit, NoRow, RowFields
<1>10. PICK s : s = [call[c] EXCEPT !.pc = "done"]
  OBVIOUS
<1>11. call' = [call EXCEPT ![c] = s] /\ Other(s) /\ running' = FALSE
  BY <1>1, <1>10 DEF Save, Goto, SyncInv, CallsFit, MapFits, Other, Busy
<1> QED
  BY <1>1, <1>9, <1>11, SyncEnds

-----------------------------------------------------------------------------
(* Writing by hand, the restart, and time.                                 *)

LEMMA WriteByHandKeeps ==
  ASSUME SyncInv, UNCHANGED outside, NEW c \in Calls, WriteByHand(c)
  PROVE  SyncInv'
<1>1. PICK k \in ManualRows, row \in ManualRecords :
        assigned' = [assigned EXCEPT ![k] =
          IF Stored(k) THEN [@ EXCEPT !.confirmed = row.confirmed, !.at = row.at] ELSE row]
  BY DEF WriteByHand
<1>2. Later
  BY NothingPasses DEF SyncInv
<1>3. DOMAIN assigned' = DOMAIN assigned /\ \A l \in DOMAIN assigned \ {k} : assigned'[l] = assigned[l]
  BY <1>1
<1>4. k \in DOMAIN assigned =>
        RowFields \subseteq DOMAIN assigned'[k] /\ assigned'[k].source # "timetracker"
  <2>1. CASE k \in DOMAIN assigned /\ Stored(k)
    <3>1. RowFields \subseteq DOMAIN assigned[k] /\ assigned[k].source # "timetracker"
      BY <2>1 DEF Stored, SyncInv, RowsFit, NoRow
    <3>2. assigned'[k] = [assigned[k] EXCEPT !.confirmed = row.confirmed, !.at = row.at]
      BY <1>1, <2>1
    <3> QED
      BY <3>1, <3>2 DEF RowFields
  <2>2. CASE k \in DOMAIN assigned /\ ~Stored(k)
    <3>1. assigned'[k] = row
      BY <1>1, <2>2
    <3>2. row.source = "manual" /\ RowFields \subseteq DOMAIN row
      BY IntegrationsAssumption
    <3> QED
      BY <3>1, <3>2
  <2> QED
    BY <2>1, <2>2
<1>5. ASSUME NEW l \in DOMAIN assigned, Confirmed(assigned, l)'
      PROVE  l # k /\ Confirmed(assigned, l) /\ assigned'[l] = assigned[l] /\ Fed(l, assigned[l])'
  <2>1. l # k
    BY <1>4, <1>5 DEF Confirmed
  <2>2. assigned'[l] = assigned[l] /\ Confirmed(assigned, l)
    BY <1>3, <1>5, <2>1 DEF Confirmed
  <2>3. PICK old : old = assigned[l]
    OBVIOUS
  <2>4. Fed(l, old)'
    BY <1>2, <2>2, <2>3, FedStays DEF SyncInv, RowsFit
  <2> QED
    BY <2>1, <2>2, <2>3, <2>4 DEF Fed
<1>6. RowsFit'
  <2>1. \A l \in DOMAIN assigned' :
          /\ assigned'[l] = NoRow \/ RowFields \subseteq DOMAIN assigned'[l]
          /\ l \in ManualRows => assigned'[l].source # "timetracker"
    BY <1>3, <1>4 DEF SyncInv, RowsFit
  <2>2. \A l \in DOMAIN assigned' : Confirmed(assigned, l)' => Fed(l, assigned[l])'
    BY <1>3, <1>5 DEF Fed
  <2>3. \A l, n \in DOMAIN assigned' :
          Confirmed(assigned, l)' /\ Confirmed(assigned, n)' => assigned'[l].at = assigned'[n].at
    BY <1>3, <1>5 DEF SyncInv, RowsFit
  <2> QED
    BY <2>1, <2>2, <2>3 DEF RowsFit, NoRow, RowFields
<1>7. PICK s : s = [pc |-> "done"]
  OBVIOUS
<1>8. call' = [call EXCEPT ![c] = s] /\ Other(s) /\ running' = running /\ call[c].pc \notin Busy
  BY <1>7 DEF WriteByHand, Become, At, Other, Busy
<1>9. CallsFit'
  BY <1>2, <1>8, CallsStay DEF SyncInv, StateFits
<1>10. OneAtWork'
  BY <1>8 DEF SyncInv, CallsFit, OneAtWork, Other
<1> QED
  BY <1>2, <1>6, <1>9, <1>10 DEF SyncInv, Later

LEMMA ShowProjectsKeeps ==
  ASSUME SyncInv, UNCHANGED outside, NEW c \in Calls, ShowProjects(c)
  PROVE  SyncInv'
<1>1. PICK shown : Become(c, [pc |-> "done", shown |-> shown])
  BY DEF ShowProjects
<1>2. PICK s : s = [pc |-> "done", shown |-> shown]
  OBVIOUS
<1>3. Other(s) /\ Become(c, s) /\ call[c].pc \notin Busy
  BY <1>1, <1>2 DEF Other, Busy, ShowProjects, At
<1> QED
  BY <1>3, OtherBecomes DEF ShowProjects

LEMMA RestartKeeps ==
  ASSUME SyncInv, Restart
  PROVE  SyncInv'
<1>1. Later /\ RowsFit'
  BY NothingPasses, RowsStay DEF SyncInv, Restart, outside
<1>2. \A c \in Calls : Other(call'[c])
  BY DEF Restart, Other, NotAsked, Busy
<1>3. CallsFit'
  BY <1>2 DEF Restart, CallsFit, StateFits, Other
<1>4. OneAtWork'
  BY <1>2 DEF Restart, OneAtWork, Other
<1> QED
  BY <1>1, <1>3, <1>4 DEF SyncInv, Later

LEMMA TimePasses ==
  ASSUME SyncInv, Later, UNCHANGED <<syncVars, call>>
  PROVE  SyncInv'
<1>1. RowsFit'
  BY RowsStay DEF SyncInv, syncVars
<1>2. ASSUME NEW d \in Calls
      PROVE  StateFits(call[d])'
  <2>1. PICK r : r = call[d]
    OBVIOUS
  <2>2. StateFits(r)'
    BY <2>1, StatesStay DEF SyncInv, CallsFit
  <2> QED
    BY <2>1, <2>2 DEF StateFits, FetchFits, MapFits, Other
<1>3. CallsFit' /\ OneAtWork'
  BY <1>2 DEF SyncInv, CallsFit, OneAtWork, syncVars
<1> QED
  BY <1>1, <1>3 DEF SyncInv, Later

LEMMA SurroundingsKeep ==
  ASSUME SyncInv, Surroundings
  PROVE  SyncInv'
<1>1. CASE WorldChanges
  <2>1. PICK w \in Worlds \ {world} : world' = w /\ inForce' = [inForce EXCEPT ![w] = now]
    BY <1>1 DEF WorldChanges
  <2>2. Later
    BY <1>1, <2>1 DEF WorldChanges, SyncInv, OutsideFits, Later
  <2> QED
    BY <1>1, <2>2, TimePasses DEF Surroundings, WorldChanges
<1>2. CASE IdentityChanges
  <2>1. Later
    BY <1>2 DEF IdentityChanges, SyncInv, OutsideFits, Later
  <2> QED
    BY <1>2, <2>1, TimePasses DEF Surroundings, IdentityChanges
<1>3. CASE Tick /\ UNCHANGED requestVars
  <2>1. Later
    BY <1>3 DEF Tick, SyncInv, OutsideFits, Later
  <2> QED
    BY <1>3, <2>1, TimePasses DEF Surroundings, requestVars
<1> QED
  BY <1>1, <1>2, <1>3 DEF Surroundings, Outside

-----------------------------------------------------------------------------
(* The invariant.                                                          *)

LEMMA InitHolds == Init => SyncInv
<1> SUFFICES ASSUME Init PROVE SyncInv
  OBVIOUS
<1>1. OutsideFits /\ 1 <= now /\ \A w \in Worlds : inForce[w] = now
  BY IntegrationsAssumption DEF Init, WorldInit, OutsideFits, Times
<1>2. CallsFit /\ OneAtWork
  BY DEF Init, RequestsInit, NotAsked, SyncInit, CallsFit, StateFits, Other, OneAtWork, Busy
<1>3. assigned \in StoredAssignments
  BY DEF Init, SyncInit
<1>4. \A t \in Nat : t = 1 => \A w \in Worlds : HeldSince(w, t)
  BY <1>1 DEF HeldSince, OutsideFits
<1>5. ASSUME NEW k \in DOMAIN assigned, Confirmed(assigned, k)
      PROVE  Fed(k, assigned[k])
  <2>1. assigned[k].at = 1 /\ \A w \in Worlds : HeldSince(w, assigned[k].at)
    BY <1>3, <1>4, <1>5, IntegrationsAssumption DEF Confirmed
  <2>2. PICK w \in Worlds : \E x \in w.projects : \E member \in x.members :
          /\ x.id = k[1] /\ member[2] = assigned[k].period
          /\ \E v \in Worlds, m \in Months : v.report[m][k[2]] = member[1]
    BY <1>3, <1>5, IntegrationsAssumption DEF Confirmed
  <2>3. PICK x \in w.projects : \E member \in x.members :
          /\ x.id = k[1] /\ member[2] = assigned[k].period
          /\ \E v \in Worlds, m \in Months : v.report[m][k[2]] = member[1]
    BY <2>2
  <2>4. PICK member \in x.members :
          /\ x.id = k[1] /\ member[2] = assigned[k].period
          /\ \E v \in Worlds, m \in Months : v.report[m][k[2]] = member[1]
    BY <2>3
  <2>5. Offered(assigned[k].at, k[1], member) /\ Reported(assigned[k].at, k[2], member[1])
    BY <2>1, <2>4 DEF Offered, Reported
  <2> QED
    BY <1>1, <2>1, <2>4, <2>5 DEF Fed, OutsideFits
<1>6. \A k \in DOMAIN assigned :
        /\ assigned[k] = NoRow \/ RowFields \subseteq DOMAIN assigned[k]
        /\ k \in ManualRows => assigned[k].source # "timetracker"
        /\ Confirmed(assigned, k) => assigned[k].at = 1
  BY <1>3, IntegrationsAssumption DEF Confirmed
<1>7. RowsFit
  BY <1>5, <1>6 DEF RowsFit
<1> QED
  BY <1>1, <1>2, <1>7 DEF SyncInv

LEMMA StepKeeps == SyncInv /\ [Next]_integrationVars => SyncInv'
<1> SUFFICES ASSUME SyncInv, [Next]_integrationVars PROVE SyncInv'
  OBVIOUS
<1>1. CASE Restart
  BY <1>1, RestartKeeps
<1>2. CASE Surroundings
  BY <1>2, SurroundingsKeep
<1>3. ASSUME NEW c \in Calls, Begin(c)
      PROVE  SyncInv'
  <2>1. CASE BeginLeaves(c) \/ BeginPage(c)
    <3>1. UNCHANGED outside
      BY <1>3 DEF Begin
    <3>2. CASE UNCHANGED syncVars
      BY <2>1, <3>1, <3>2, LeavesBegin
    <3>3. CASE BeginSyncing(c)
      BY <3>1, <3>3, BeginSyncKeeps, WriteByHandKeeps, ShowProjectsKeeps DEF BeginSyncing
    <3> QED
      BY <1>3, <3>2, <3>3 DEF Begin
  <2>2. CASE BeginSyncing(c)
    BY <1>3, <2>2, BeginSyncKeeps, WriteByHandKeeps, ShowProjectsKeeps DEF BeginSyncing, Begin
  <2> QED
    BY <1>3, <2>1, <2>2 DEF Begin
<1>4. ASSUME NEW c \in Calls, Serve(c)
      PROVE  SyncInv'
  <2>1. UNCHANGED outside
    BY <1>4 DEF Serve
  <2>2. CASE ServeLeaves(c) /\ UNCHANGED syncVars
    BY <2>1, <2>2, LeavesGoOn
  <2>3. CASE Fetch(c) \/ FetchFails(c) \/ CheckPayload(c) \/ Lookup(c) \/ Save(c)
    BY <2>1, <2>3, FetchKeeps, FetchFailsKeeps, CheckPayloadKeeps, LookupKeeps, SaveKeeps
  <2>4. CASE SyncFails(c)
    BY <2>1, <2>4, GiveUpKeeps DEF SyncFails, At, Busy
  <2> QED
    BY <1>4, <2>2, <2>3, <2>4 DEF Serve, ServeSync
<1>5. ASSUME NEW c \in Calls, StatementFails(c)
      PROVE  SyncInv'
  <2>1. call[c].pc \notin Busy /\ Goto(c, "refused") /\ UNCHANGED outside /\ UNCHANGED syncVars
    BY <1>5 DEF StatementFails, Fail, Busy
  <2> QED
    BY <2>1, OtherMoves DEF Busy
<1>6. CASE UNCHANGED integrationVars
  <2>1. Later
    BY <1>6, NothingPasses DEF integrationVars, SyncInv
  <2> QED
    BY <1>6, <2>1, TimePasses DEF integrationVars, requestVars
<1> QED
  BY <1>1, <1>2, <1>3, <1>4, <1>5, <1>6 DEF Next

\* In every state the flag is right about the one synchronisation there may be,
\* what it has fetched was TimeTracker's since it began, and every confirmed row
\* was so since its date (sync, BatchedTransaction of the upserts).
THEOREM SyncTheorem == Spec => []SyncInv
<1>1. Init => SyncInv
  BY InitHolds
<1>2. SyncInv /\ [Next]_integrationVars => SyncInv'
  BY StepKeeps
<1> QED
  BY <1>1, <1>2, PTL DEF Spec

LEMMA RowsOfOneSync == SyncInv => ConfirmedTogether
<1> SUFFICES ASSUME SyncInv PROVE ConfirmedTogether
  OBVIOUS
<1> DEFINE atWork == {c \in Calls : call[c].pc \in {"fetching", "mapping"}}
<1>1. CASE atWork = {}
  <2>1. Cardinality(atWork) = 0
    BY <1>1, FS_EmptySet
  <2> QED
    BY <2>1 DEF ConfirmedTogether, SyncInv, OneAtWork, RowsFit, Confirmed, Busy
<1>2. CASE atWork # {}
  <2>1. PICK c : atWork = {c}
    BY <1>2 DEF SyncInv, OneAtWork, Busy
  <2>2. Cardinality(atWork) = 1
    BY <2>1, FS_Singleton
  <2> QED
    BY <2>2 DEF ConfirmedTogether, SyncInv, OneAtWork, RowsFit, Confirmed, Busy
<1> QED
  BY <1>1, <1>2

LEMMA AccessIsFed == SyncInv => AccessFollowsTheFeed
<1> SUFFICES ASSUME SyncInv PROVE AccessFollowsTheFeed
  OBVIOUS
<1>1. ASSUME NEW k \in DOMAIN assigned, Stored(k), assigned[k].source = "timetracker", Active(k)
      PROVE  \E w \in Worlds : \E x \in w.projects, member \in UNION {y.members : y \in w.projects} :
               /\ HeldSince(w, now - Window)
               /\ x.id = k[1] /\ member \in x.members /\ member[2] = assigned[k].period
               /\ \E v \in Worlds, m \in Months : HeldSince(v, now - Window) /\ v.report[m][k[2]] = member[1]
  <2>1. PICK t : t = assigned[k].at
    OBVIOUS
  <2>2. Fed(k, assigned[k])
    BY <1>1 DEF Active, Confirmed, SyncInv, RowsFit
  <2>3. t \in Nat /\ t <= now /\ now - t <= Window /\ now \in Nat /\ Window \in Nat
    BY <1>1, <2>1, <2>2, IntegrationsAssumption DEF Active, Fed, SyncInv, OutsideFits
  <2>4. \A w \in Worlds : HeldSince(w, t) => HeldSince(w, now - Window)
    <3>1. \A w \in Worlds : inForce[w] \in Nat
      BY DEF SyncInv, OutsideFits
    <3> QED
      BY <2>3, <3>1 DEF HeldSince
  <2>5. PICK member : /\ Offered(t, k[1], member) /\ member[2] = assigned[k].period
                      /\ Reported(t, k[2], member[1])
    BY <2>1, <2>2 DEF Fed
  <2>6. PICK w \in Worlds : HeldSince(w, t) /\ \E x \in w.projects : x.id = k[1] /\ member \in x.members
    BY <2>5 DEF Offered
  <2>7. \E v \in Worlds, m \in Months : HeldSince(v, now - Window) /\ v.report[m][k[2]] = member[1]
    BY <2>4, <2>5 DEF Reported
  <2> QED
    BY <2>4, <2>5, <2>6, <2>7
<1>2. ConfirmedTogether
  BY RowsOfOneSync
<1> QED
  BY <1>1, <1>2 DEF AccessFollowsTheFeed

\* An assignment that gives access was so in TimeTracker within a window, and all
\* that are confirmed come from one synchronisation, for every set of requests,
\* persons, months and worlds (sync, isProjectAssignmentActive).
THEOREM AccessTheorem == Spec => []AccessFollowsTheFeed
<1>1. SyncInv => AccessFollowsTheFeed
  BY AccessIsFed
<1> QED
  BY <1>1, SyncTheorem, PTL

-----------------------------------------------------------------------------
(* The caches of leaves.                                                   *)

\* The report of month m had days d for person p at some moment from t on.
SeenFrom(m, p, d, t) ==
  IF d = Unlisted THEN \E w \in Worlds : HeldSince(w, t) /\ w.report[m][p] = Nobody ELSE d >= t

Days == Nat \cup {Unlisted}
MonthEntry == [at : Nat, days : Days]
BatchEntry == [at : Nat, map : MapIds]

\* Nothing in a Map object is older than t.
FilledFrom(x, t) == \A p \in People : maps[x][p] # Unlisted => maps[x][p] >= t

\* An entry is not older than its date says; nor is what a Map object of a dated
\* entry holds, whoever filled it.
CachesFit ==
  /\ monthCache \in [Months \X People -> MonthEntry]
  /\ batchCache \in [Months -> BatchEntry]
  /\ maps \in [MapIds -> [People -> Days]]
  /\ \A m \in Months, p \in People : LET entry == monthCache[<<m, p>>]
                                     IN entry.at # 0 => /\ entry.at <= now
                                                        /\ SeenFrom(m, p, entry.days, entry.at)
  /\ \A m \in Months : batchCache[m].at # 0 =>
       batchCache[m].at <= now /\ FilledFrom(batchCache[m].map, batchCache[m].at)

-----------------------------------------------------------------------------
(* What the readers of leaves have in their records.                       *)

\* What was said less than Ttl before the question.
Recent(s, m, p, d) == SeenFrom(m, p, d, s.since - Ttl + 1)

\* One that reads month after month has recent days of every month before, or
\* knows that it has not.
MonthsFit(s) ==
  /\ DOMAIN s = {"pc", "person", "since", "month", "days", "stale", "at", "old"}
  /\ s.pc \in {"leaves", "askMonth"}
  /\ s.person \in People /\ s.since \in Nat /\ s.since <= now /\ s.stale \in BOOLEAN
  /\ s.month \in Nat \ {0} /\ s.days \in Seq(Days) /\ Len(s.days) = s.month - 1
  /\ ~s.stale => \A m \in Months : m < s.month => Recent(s, m, s.person, s.days[m])
  /\ s.pc = "askMonth" => /\ s.month \in Months /\ s.old \in MonthEntry
                          /\ s.at \in Nat /\ s.since <= s.at /\ s.at <= now

\* A load that may still fill a Map object, or has found its answer there.
LoadFits(s, m, l) ==
  /\ DOMAIN l = {"state", "asked", "stale", "old", "at", "map"}
  /\ l.state \in {"asking", "done", "failed"} /\ l.stale \in BOOLEAN
  /\ l.old \in BatchEntry /\ l.map \in MapIds
  /\ l.state = "asking" => ~l.stale
  /\ l.state \in {"asking", "done"} /\ ~l.stale =>
       /\ l.at \in Nat /\ s.since - Ttl + 1 <= l.at /\ l.at <= now
       /\ FilledFrom(l.map, l.at)
       /\ \A p \in s.wanted :
            \/ maps[l.map][p] # Unlisted
            \/ l.state = "asking" /\ p \in l.asked
            \/ l.state = "done" /\ Recent(s, m, p, Unlisted)

PageFits(s) ==
  /\ DOMAIN s = {"pc", "wanted", "since", "loads"}
  /\ s.pc \in {"loading", "refused"}
  /\ s.wanted \subseteq People /\ s.since \in Nat /\ s.since <= now
  /\ DOMAIN s.loads = Months /\ \A m \in Months : LoadFits(s, m, s.loads[m])

\* Every other request has no load.
NoReader(s) ==
  "pc" \in DOMAIN s /\ "loads" \notin DOMAIN s /\ s.pc \notin {"leaves", "askMonth", "loading"}

ReaderFits(s) == MonthsFit(s) \/ PageFits(s) \/ NoReader(s)

\* Nothing is in a Map object yet, and nobody has it.
Asks(s, x) ==
  "loads" \in DOMAIN s /\ \E m \in Months : s.loads[m].state = "asking" /\ s.loads[m].map = x
Unused(x) ==
  /\ maps[x] = EmptyMap /\ \A m \in Months : batchCache[m].map # x
  /\ \A c \in Calls : ~Asks(call[c], x)

\* The objects a request will make are its own.
OwnMaps ==
  \A c \in Calls, m \in Months : call[c].pc \in {"idle", "page"} => Unused(<<c, m>>)

Locals == {call[c] : c \in Calls}
\* The inductive invariant behind UnmarkedAnswersAreFresh.
LeavesInv == CachesFit /\ (\A s \in Locals : ReaderFits(s)) /\ OwnMaps

LEMMA SeenStays ==
  ASSUME Later, NEW t \in Int, NEW m, NEW p, NEW d, SeenFrom(m, p, d, t)
  PROVE  SeenFrom(m, p, d, t)'
<1>1. \A w \in Worlds : HeldSince(w, t) => HeldSince(w, t)'
  BY DEF Later, OutsideFits, HeldSince
<1> QED
  BY <1>1 DEF SeenFrom

\* What is answered now, to a question asked at t.
LEMMA DaysNowAreSeen ==
  ASSUME OutsideFits, NEW t \in Int, t <= now, NEW m, NEW p
  PROVE  DaysNow(m, p) \in Days /\ SeenFrom(m, p, DaysNow(m, p), t)
<1>1. HeldSince(world, t) /\ world \in Worlds /\ now \in Nat /\ now # Unlisted
  BY IntegrationsAssumption DEF OutsideFits, HeldSince
<1>2. CASE world.report[m][p] # Nobody
  BY <1>1, <1>2 DEF DaysNow, SeenFrom, Days
<1>3. CASE world.report[m][p] = Nobody
  BY <1>1, <1>3 DEF DaysNow, SeenFrom, Days
<1> QED
  BY <1>2, <1>3

\* Map objects are filled only, and with what is said now.
MapsKept ==
  \A x \in MapIds : /\ \A p \in People : maps[x][p] # Unlisted => maps'[x][p] # Unlisted
                    /\ \A t \in Int : t <= now /\ FilledFrom(x, t) => FilledFrom(x, t)'

LEMMA MapsAsTheyWere ==
  ASSUME UNCHANGED maps
  PROVE  MapsKept
BY DEF MapsKept, FilledFrom

LEMMA LoadStays ==
  ASSUME Later, MapsKept, NEW s, s.since \in Nat, s.wanted \subseteq People,
         NEW m, NEW l, LoadFits(s, m, l)
  PROVE  LoadFits(s, m, l)'
<1>1. s.since - Ttl + 1 \in Int
  BY IntegrationsAssumption
<1>2. \A p : Recent(s, m, p, Unlisted) => Recent(s, m, p, Unlisted)'
  BY <1>1, SeenStays DEF Recent
<1>3. CASE l.state \in {"asking", "done"} /\ ~l.stale
  <2>1. /\ l.at \in Nat /\ s.since - Ttl + 1 <= l.at /\ l.at <= now
        /\ FilledFrom(l.map, l.at) /\ l.map \in MapIds
    BY <1>3 DEF LoadFits
  <2>2. l.at <= now' /\ l.at \in Int
    BY <2>1 DEF Later, OutsideFits
  <2>3. FilledFrom(l.map, l.at)'
    BY <2>1, <2>2 DEF MapsKept
  <2>4. \A p \in s.wanted :
          \/ maps'[l.map][p] # Unlisted
          \/ l.state = "asking" /\ p \in l.asked
          \/ l.state = "done" /\ Recent(s, m, p, Unlisted)'
    BY <1>2, <1>3, <2>1 DEF LoadFits, MapsKept
  <2> QED
    BY <2>1, <2>2, <2>3, <2>4 DEF LoadFits
<1>4. CASE ~(l.state \in {"asking", "done"} /\ ~l.stale)
  BY <1>4 DEF LoadFits
<1> QED
  BY <1>3, <1>4

\* What a request knows it goes on knowing.
LEMMA ReaderStays ==
  ASSUME Later, MapsKept, NEW s, ReaderFits(s)
  PROVE  ReaderFits(s)'
<1>1. CASE MonthsFit(s)
  <2>1. s.since \in Nat /\ s.since <= now' /\ (s.pc = "askMonth" => s.at <= now')
    BY <1>1 DEF MonthsFit, Later, OutsideFits
  <2>2. s.since - Ttl + 1 \in Int
    BY <2>1, IntegrationsAssumption
  <2>3. ~s.stale => \A m \in Months : m < s.month => Recent(s, m, s.person, s.days[m])'
    BY <1>1, <2>2, SeenStays DEF MonthsFit, Recent
  <2> QED
    BY <1>1, <2>1, <2>3 DEF MonthsFit, ReaderFits
<1>2. CASE PageFits(s)
  <2>1. s.since <= now'
    BY <1>2 DEF PageFits, Later, OutsideFits
  <2>2. \A m \in Months : LoadFits(s, m, s.loads[m])'
    BY <1>2, LoadStays DEF PageFits
  <2> QED
    BY <1>2, <2>1, <2>2 DEF PageFits, ReaderFits
<1>3. CASE NoReader(s)
  BY <1>3 DEF NoReader, ReaderFits
<1> QED
  BY <1>1, <1>2, <1>3 DEF ReaderFits

LEMMA CachesStay ==
  ASSUME Later, CachesFit, UNCHANGED leaveVars
  PROVE  CachesFit'
<1>1. now \in Nat /\ now <= now' /\ now' \in Nat
  BY DEF Later, OutsideFits
<1>2. ASSUME NEW m \in Months, NEW p \in People, monthCache'[<<m, p>>].at # 0
      PROVE  monthCache'[<<m, p>>].at <= now'
             /\ SeenFrom(m, p, monthCache[<<m, p>>].days, monthCache[<<m, p>>].at)'
  <2>1. PICK entry \in MonthEntry : entry = monthCache[<<m, p>>]
    BY DEF CachesFit
  <2>2. entry.at \in Nat /\ entry.at # 0 /\ monthCache'[<<m, p>>] = entry
    BY <1>2, <2>1 DEF leaveVars, MonthEntry
  <2>3. entry.at <= now /\ SeenFrom(m, p, entry.days, entry.at)
    BY <2>1, <2>2 DEF CachesFit
  <2>4. SeenFrom(m, p, entry.days, entry.at)'
    BY <2>2, <2>3, SeenStays
  <2> QED
    BY <1>1, <2>2, <2>3, <2>4 DEF SeenFrom
<1>3. ASSUME NEW m \in Months, batchCache'[m].at # 0
      PROVE  batchCache'[m].at <= now' /\ FilledFrom(batchCache[m].map, batchCache[m].at)'
  <2>1. PICK entry \in BatchEntry : entry = batchCache[m]
    BY DEF CachesFit
  <2>2. entry.at \in Nat /\ entry.at # 0 /\ batchCache'[m] = entry
    BY <1>3, <2>1 DEF leaveVars, BatchEntry
  <2>3. entry.at <= now /\ FilledFrom(entry.map, entry.at)
    BY <2>1, <2>2 DEF CachesFit
  <2>4. FilledFrom(entry.map, entry.at)'
    BY <2>3 DEF leaveVars, FilledFrom
  <2> QED
    BY <1>1, <2>2, <2>3, <2>4 DEF FilledFrom
<1> QED
  BY <1>2, <1>3 DEF CachesFit, leaveVars

-----------------------------------------------------------------------------
(* Steps of a reader that leave the caches as they are.                    *)

\* A request goes on with Map objects it has, finds in the cache, or makes.
LEMMA ReaderGoesOn ==
  ASSUME SyncInv, LeavesInv, UNCHANGED outside, UNCHANGED leaveVars, NEW c \in Calls, NEW s,
         call' = [call EXCEPT ![c] = s], ReaderFits(s),
         s.pc \in {"idle", "page"} => call[c].pc \in {"idle", "page"},
         \A x : Asks(s, x) => \/ Asks(call[c], x) \/ \E m \in Months : x = batchCache[m].map
                              \/ s.pc = "loading" /\ \E m \in Months : x = <<c, m>>
  PROVE  LeavesInv'
<1>1. Later /\ MapsKept
  BY NothingPasses, MapsAsTheyWere DEF SyncInv, leaveVars
<1>2. CachesFit'
  BY <1>1, CachesStay DEF LeavesInv
<1>3. DOMAIN call = Calls /\ call'[c] = s /\ \A d \in Calls \ {c} : call'[d] = call[d]
  BY DEF SyncInv, CallsFit
<1>4. ReaderFits(s)'
  BY <1>1, ReaderStays
<1>5. \A r \in Locals' : ReaderFits(r)'
  <2>1. \A r \in Locals : ReaderFits(r)'
    BY <1>1, ReaderStays DEF LeavesInv
  <2>2. Locals' \subseteq Locals \cup {s}
    BY <1>3 DEF Locals
  <2> QED
    BY <1>4, <2>1, <2>2
<1>6. ASSUME NEW d \in Calls, NEW m \in Months, call'[d].pc \in {"idle", "page"}
      PROVE  Unused(<<d, m>>)'
  <2>1. Unused(<<d, m>>)
    BY <1>3, <1>6 DEF LeavesInv, OwnMaps
  <2>2. ~Asks(s, <<d, m>>)
    <3> SUFFICES ASSUME Asks(s, <<d, m>>)
                 PROVE  FALSE
      OBVIOUS
    <3>1. ~Asks(call[c], <<d, m>>) /\ ~\E n \in Months : <<d, m>> = batchCache[n].map
      BY <2>1 DEF Unused
    <3>2. PICK n \in Months : s.pc = "loading" /\ <<d, m>> = <<c, n>>
      BY <3>1
    <3> QED
      BY <1>3, <1>6, <3>2
  <2>3. \A e \in Calls : ~Asks(call'[e], <<d, m>>)
    BY <1>3, <2>1, <2>2 DEF Unused
  <2> QED
    BY <2>1, <2>3 DEF Unused, leaveVars, Asks
<1> QED
  BY <1>2, <1>5, <1>6 DEF LeavesInv, OwnMaps

\* Requests that are no readers, and readers that end.
LEMMA NoReaderGoesOn ==
  ASSUME SyncInv, LeavesInv, UNCHANGED outside, UNCHANGED leaveVars, NEW c \in Calls, NEW s,
         call' = [call EXCEPT ![c] = s], NoReader(s),
         s.pc \in {"idle", "page"} => call[c].pc \in {"idle", "page"}
  PROVE  LeavesInv'
<1>1. ReaderFits(s) /\ \A x : ~Asks(s, x)
  BY DEF ReaderFits, NoReader, Asks
<1> QED
  BY <1>1, ReaderGoesOn

LEMMA RecordFits ==
  ASSUME LeavesInv, NEW c \in Calls
  PROVE  /\ ReaderFits(call[c])
         /\ call[c].pc \in {"leaves", "askMonth"} => MonthsFit(call[c])
         /\ call[c].pc = "loading" => PageFits(call[c])
         /\ "loads" \in DOMAIN call[c] => PageFits(call[c])
<1>1. ReaderFits(call[c])
  BY DEF LeavesInv, Locals
<1> QED
  BY <1>1 DEF ReaderFits, MonthsFit, PageFits, NoReader

\* One month more.
LEMMA OneMonthMore ==
  ASSUME OutsideFits, NEW s, MonthsFit(s), s.month \in Months, NEW days \in Days, NEW stale \in BOOLEAN,
         ~stale => Recent(s, s.month, s.person, days),
         NEW r, r = [s EXCEPT !.pc = "leaves", !.month = @ + 1, !.days = Append(@, days),
                              !.stale = @ \/ stale, !.at = 0, !.old = NoEntry]
  PROVE  MonthsFit(r)
<1>1. /\ DOMAIN r = DOMAIN s /\ r.pc = "leaves" /\ r.month = s.month + 1
      /\ r.days = Append(s.days, days) /\ r.stale = (s.stale \/ stale)
      /\ r.person = s.person /\ r.since = s.since
  BY DEF MonthsFit
<1>2. s.month \in Nat \ {0} /\ s.days \in Seq(Days) /\ Len(s.days) = s.month - 1
  BY DEF MonthsFit
<1>3. /\ r.days \in Seq(Days) /\ Len(r.days) = r.month - 1 /\ r.month \in Nat \ {0}
      /\ \A i \in 1..(s.month - 1) : r.days[i] = s.days[i]
      /\ r.days[s.month] = days
  <2>1. /\ Append(s.days, days) \in Seq(Days)
        /\ Len(Append(s.days, days)) = Len(s.days) + 1
        /\ \A i \in 1..Len(s.days) : Append(s.days, days)[i] = s.days[i]
        /\ Append(s.days, days)[Len(s.days) + 1] = days
    BY <1>2
  <2>2. Len(s.days) + 1 = s.month
    BY <1>2
  <2> QED
    BY <1>1, <1>2, <2>1, <2>2
<1>4. ASSUME ~r.stale, NEW m \in Months, m < r.month
      PROVE  Recent(r, m, r.person, r.days[m])
  <2>1. ~s.stale /\ ~stale
    BY <1>1, <1>4 DEF MonthsFit
  <2>2. CASE m = s.month
    BY <1>1, <1>3, <2>1, <2>2 DEF Recent
  <2>3. CASE m # s.month
    <3>1. m < s.month /\ m \in 1..(s.month - 1)
      BY <1>1, <1>2, <1>4, <2>3 DEF Months
    <3>2. Recent(s, m, s.person, s.days[m])
      BY <2>1, <3>1 DEF MonthsFit
    <3> QED
      BY <1>1, <1>3, <3>1, <3>2 DEF Recent
  <2> QED
    BY <2>2, <2>3
<1>5. r.stale \in BOOLEAN
  BY <1>1 DEF MonthsFit
<1> QED
  BY <1>1, <1>3, <1>4, <1>5 DEF MonthsFit

LEMMA MonthReaderGoesOn ==
  ASSUME SyncInv, LeavesInv, UNCHANGED outside, UNCHANGED leaveVars, NEW c \in Calls, NEW s,
         call' = [call EXCEPT ![c] = s], MonthsFit(s)
  PROVE  LeavesInv'
<1>1. ReaderFits(s) /\ (\A x : ~Asks(s, x)) /\ s.pc \notin {"idle", "page"}
  BY DEF ReaderFits, MonthsFit, Asks
<1> QED
  BY <1>1, ReaderGoesOn

LEMMA BeginLeavesKeeps ==
  ASSUME SyncInv, LeavesInv, UNCHANGED outside, NEW c \in Calls, BeginLeaves(c) \/ BeginPage(c)
  PROVE  LeavesInv'
<1>0. UNCHANGED leaveVars /\ call[c].pc = "idle"
  BY DEF BeginLeaves, BeginPage, At
<1>1. CASE BeginPage(c)
  <2>1. PICK page \in (SUBSET Employees) \ {{}} : Become(c, [pc |-> "page", employees |-> page])
    BY <1>1 DEF BeginPage
  <2>2. PICK s : s = [pc |-> "page", employees |-> page]
    OBVIOUS
  <2>3. NoReader(s) /\ call' = [call EXCEPT ![c] = s]
    BY <2>1, <2>2 DEF NoReader, Become
  <2> QED
    BY <1>0, <2>3, NoReaderGoesOn
<1>2. CASE Become(c, [pc |-> "refused"]) \/ Become(c, [pc |-> "done"])
  <2>1. PICK s : NoReader(s) /\ s.pc \in {"refused", "done"} /\ call' = [call EXCEPT ![c] = s]
    BY <1>2 DEF NoReader, Become
  <2> QED
    BY <1>0, <2>1, NoReaderGoesOn
<1>3. ASSUME NEW e \in Employees, NEW p \in PersonsOf(identity, e),
             Become(c, [pc |-> "leaves", person |-> p, since |-> now, month |-> 1,
                        days |-> << >>, stale |-> FALSE, at |-> 0, old |-> NoEntry])
      PROVE  LeavesInv'
  <2>1. PICK s : s = [pc |-> "leaves", person |-> p, since |-> now, month |-> 1,
                      days |-> << >>, stale |-> FALSE, at |-> 0, old |-> NoEntry]
    OBVIOUS
  <2>2. p \in People /\ now \in Nat
    BY DEF PersonsOf, SyncInv, OutsideFits
  <2>3. /\ DOMAIN s = {"pc", "person", "since", "month", "days", "stale", "at", "old"}
        /\ s.pc = "leaves" /\ s.person = p /\ s.since = now /\ s.month = 1 /\ s.days = << >>
        /\ s.stale = FALSE
    BY <2>1
  <2>4. \A m \in Months : ~(m < s.month)
    BY <2>3 DEF Months
  <2>5. s.days \in Seq(Days) /\ Len(s.days) = s.month - 1 /\ s.month \in Nat \ {0}
    BY <2>3
  <2>6. s.since \in Nat /\ s.since <= now
    BY <2>2, <2>3
  <2>7. s.stale \in BOOLEAN
    BY <2>3, Zenon
  <2>8. MonthsFit(s)
    BY <2>2, <2>3, <2>4, <2>5, <2>6, <2>7 DEF MonthsFit
  <2>9. call' = [call EXCEPT ![c] = s]
    BY <1>3, <2>1 DEF Become
  <2> QED
    BY <1>0, <2>8, <2>9, MonthReaderGoesOn
<1> QED
  BY <1>1, <1>2, <1>3 DEF BeginLeaves

LEMMA TakeCachedKeeps ==
  ASSUME SyncInv, LeavesInv, UNCHANGED outside, NEW c \in Calls, TakeCached(c)
  PROVE  LeavesInv'
<1>1. MonthsFit(call[c]) /\ call[c].month \in Months /\ UNCHANGED leaveVars
  BY RecordFits DEF TakeCached, At
<1>2. PICK s : s = call[c]
  OBVIOUS
<1>3. PICK entry : entry = monthCache[<<s.month, s.person>>]
  OBVIOUS
<1>4. entry \in MonthEntry /\ entry = EntryFor(c)
  BY <1>1, <1>2, <1>3 DEF LeavesInv, CachesFit, MonthsFit, EntryFor
<1>5. entry.at \in Nat /\ entry.at # 0 /\ now - entry.at < Ttl /\ entry.days \in Days
  BY <1>4 DEF TakeCached, Fresh, MonthEntry
<1>6. SeenFrom(s.month, s.person, entry.days, entry.at)
  BY <1>1, <1>2, <1>3, <1>5 DEF LeavesInv, CachesFit, MonthsFit
<1>7. s.since - Ttl + 1 <= entry.at /\ s.since - Ttl + 1 \in Int
  BY <1>1, <1>2, <1>5, IntegrationsAssumption DEF MonthsFit, SyncInv, OutsideFits
<1>8. Recent(s, s.month, s.person, entry.days)
  <2>1. \A w \in Worlds : HeldSince(w, entry.at) => HeldSince(w, s.since - Ttl + 1)
    BY <1>5, <1>7 DEF HeldSince, SyncInv, OutsideFits
  <2>2. PICK d \in Days : d = entry.days
    BY <1>5
  <2>3. d # Unlisted => d \in Nat
    BY DEF Days
  <2>4. PICK t \in Int : t = s.since - Ttl + 1
    BY <1>7
  <2>5. d # Unlisted /\ d >= entry.at => d >= t
    BY <1>5, <1>7, <2>3, <2>4
  <2> QED
    BY <1>6, <2>1, <2>2, <2>4, <2>5 DEF Recent, SeenFrom
<1>9. PICK r : r = [s EXCEPT !.pc = "leaves", !.month = @ + 1, !.days = Append(@, entry.days),
                             !.stale = @ \/ FALSE, !.at = 0, !.old = NoEntry]
  OBVIOUS
<1>10. MonthsFit(r)
  BY <1>1, <1>2, <1>5, <1>8, <1>9, OneMonthMore DEF SyncInv
<1>11. call' = [call EXCEPT ![c] = r]
  BY <1>2, <1>4, <1>9 DEF TakeCached, Take, Become
<1> QED
  BY <1>1, <1>10, <1>11, MonthReaderGoesOn

LEMMA AskMonthKeeps ==
  ASSUME SyncInv, LeavesInv, UNCHANGED outside, NEW c \in Calls, AskMonth(c)
  PROVE  LeavesInv'
<1>1. MonthsFit(call[c]) /\ call[c].month \in Months /\ UNCHANGED leaveVars
  BY RecordFits DEF AskMonth, At
<1>2. PICK s : s = call[c]
  OBVIOUS
<1>3. EntryFor(c) \in MonthEntry
  BY <1>1 DEF LeavesInv, CachesFit, MonthsFit, EntryFor
<1>4. PICK r : r = [s EXCEPT !.pc = "askMonth", !.at = now, !.old = EntryFor(c)]
  OBVIOUS
<1>5. /\ DOMAIN r = DOMAIN s /\ r.pc = "askMonth" /\ r.at = now /\ r.old = EntryFor(c)
      /\ r.person = s.person /\ r.since = s.since /\ r.month = s.month /\ r.days = s.days
      /\ r.stale = s.stale
  BY <1>1, <1>2, <1>4 DEF MonthsFit
<1>6. MonthsFit(r)
  BY <1>1, <1>2, <1>3, <1>5 DEF MonthsFit, Recent, SyncInv, OutsideFits
<1>7. call' = [call EXCEPT ![c] = r]
  BY <1>2, <1>4 DEF AskMonth, Become
<1> QED
  BY <1>1, <1>6, <1>7, MonthReaderGoesOn

LEMMA MonthFailsKeeps ==
  ASSUME SyncInv, LeavesInv, UNCHANGED outside, NEW c \in Calls, MonthFails(c)
  PROVE  LeavesInv'
<1>1. MonthsFit(call[c]) /\ call[c].pc = "askMonth" /\ UNCHANGED leaveVars
  BY RecordFits DEF MonthFails, At
<1>2. CASE Take(c, call[c].old.days, TRUE)
  <2>1. PICK s : s = call[c]
    OBVIOUS
  <2>2. s.month \in Months /\ s.old.days \in Days
    BY <1>1, <2>1 DEF MonthsFit, MonthEntry
  <2>3. PICK r : r = [s EXCEPT !.pc = "leaves", !.month = @ + 1, !.days = Append(@, s.old.days),
                               !.stale = @ \/ TRUE, !.at = 0, !.old = NoEntry]
    OBVIOUS
  <2>4. MonthsFit(r)
    BY <1>1, <2>1, <2>2, <2>3, OneMonthMore DEF SyncInv
  <2>5. call' = [call EXCEPT ![c] = r]
    BY <1>2, <2>1, <2>3 DEF Take, Become
  <2> QED
    BY <1>1, <2>4, <2>5, MonthReaderGoesOn
<1>3. CASE Become(c, [pc |-> "refused"])
  <2>1. PICK s : NoReader(s) /\ s.pc = "refused" /\ call' = [call EXCEPT ![c] = s]
    BY <1>3 DEF NoReader, Become
  <2> QED
    BY <1>1, <2>1, NoReaderGoesOn
<1> QED
  BY <1>2, <1>3 DEF MonthFails

LEMMA AnswerLeavesKeeps ==
  ASSUME SyncInv, LeavesInv, UNCHANGED outside, NEW c \in Calls, AnswerLeaves(c)
  PROVE  LeavesInv'
<1>1. PICK s : NoReader(s) /\ s.pc = "done" /\ call' = [call EXCEPT ![c] = s]
  BY DEF AnswerLeaves, NoReader, Become
<1> QED
  BY <1>1, NoReaderGoesOn DEF AnswerLeaves

\* An answer to a question about one month goes into the cache with the moment
\* of the question.
LEMMA MonthArrivesKeeps ==
  ASSUME SyncInv, LeavesInv, UNCHANGED outside, NEW c \in Calls, MonthArrives(c)
  PROVE  LeavesInv'
<1>1. MonthsFit(call[c]) /\ call[c].pc = "askMonth"
  BY RecordFits DEF MonthArrives, At
<1>2. PICK s : s = call[c]
  OBVIOUS
<1>3. PICK days : days = DaysNow(s.month, s.person)
  OBVIOUS
<1>4. /\ s.month \in Months /\ s.person \in People
      /\ s.at \in Nat /\ s.since \in Nat /\ s.since <= s.at /\ s.at <= now
  BY <1>1, <1>2 DEF MonthsFit
<1>5. days \in Days /\ SeenFrom(s.month, s.person, days, s.at)
  BY <1>3, <1>4, DaysNowAreSeen DEF SyncInv
<1>6. Recent(s, s.month, s.person, days)
  <2>1. s.since - Ttl + 1 \in Int /\ s.since - Ttl + 1 <= now
    BY <1>4, IntegrationsAssumption DEF SyncInv, OutsideFits
  <2> QED
    BY <1>3, <2>1, DaysNowAreSeen DEF Recent, SyncInv
<1>7. PICK r : r = [s EXCEPT !.pc = "leaves", !.month = @ + 1, !.days = Append(@, days),
                             !.stale = @ \/ FALSE, !.at = 0, !.old = NoEntry]
  OBVIOUS
<1>8. MonthsFit(r)
  BY <1>1, <1>2, <1>4, <1>5, <1>6, <1>7, OneMonthMore DEF SyncInv
<1>9. call' = [call EXCEPT ![c] = r]
  BY <1>2, <1>3, <1>7 DEF MonthArrives, Take, Become
<1>10. PICK entry : entry = [at |-> s.at, days |-> days]
  OBVIOUS
<1>11. /\ monthCache' = [monthCache EXCEPT ![<<s.month, s.person>>] = entry]
       /\ UNCHANGED <<batchCache, maps>>
  BY <1>2, <1>3, <1>10 DEF MonthArrives
<1>12. entry \in MonthEntry /\ entry.at = s.at /\ entry.days = days
  BY <1>4, <1>5, <1>10 DEF MonthEntry
<1>13. Later /\ MapsKept /\ UNCHANGED <<now, inForce>>
  BY <1>11, NothingPasses, MapsAsTheyWere DEF SyncInv, outside
<1>14. CachesFit'
  <2>1. monthCache' \in [Months \X People -> MonthEntry]
    BY <1>11, <1>12 DEF LeavesInv, CachesFit
  <2>2. ASSUME NEW m \in Months, NEW p \in People, monthCache'[<<m, p>>].at # 0
        PROVE  monthCache'[<<m, p>>].at <= now'
               /\ SeenFrom(m, p, monthCache[<<m, p>>].days, monthCache[<<m, p>>].at)'
    <3>1. CASE <<m, p>> = <<s.month, s.person>>
      <4>1. monthCache'[<<m, p>>] = entry /\ m = s.month /\ p = s.person
        BY <1>4, <1>11, <3>1 DEF LeavesInv, CachesFit
      <4> QED
        BY <1>4, <1>5, <1>12, <1>13, <4>1 DEF SeenFrom, HeldSince
    <3>2. CASE <<m, p>> # <<s.month, s.person>>
      <4>1. monthCache'[<<m, p>>] = monthCache[<<m, p>>]
        BY <1>4, <1>11, <3>2 DEF LeavesInv, CachesFit
      <4> QED
        BY <2>2, <1>13, <4>1 DEF LeavesInv, CachesFit, SeenFrom, HeldSince
    <3> QED
      BY <3>1, <3>2
  <2>3. \A m \in Months : batchCache'[m].at # 0 =>
          batchCache'[m].at <= now' /\ FilledFrom(batchCache[m].map, batchCache[m].at)'
    BY <1>11, <1>13 DEF LeavesInv, CachesFit, FilledFrom
  <2> QED
    BY <1>11, <2>1, <2>2, <2>3 DEF LeavesInv, CachesFit
<1>15. DOMAIN call = Calls /\ call'[c] = r /\ \A d \in Calls \ {c} : call'[d] = call[d]
  BY <1>9 DEF SyncInv, CallsFit
<1>16. \A q \in Locals' : ReaderFits(q)'
  <2>1. \A q \in Locals : ReaderFits(q)'
    BY <1>13, ReaderStays DEF LeavesInv
  <2>2. ReaderFits(r)'
    BY <1>8, <1>13, ReaderStays DEF ReaderFits
  <2>3. Locals' \subseteq Locals \cup {r}
    BY <1>15 DEF Locals
  <2> QED
    BY <2>1, <2>2, <2>3
<1>17. OwnMaps'
  <2>1. r.pc = "leaves" /\ \A x : ~Asks(r, x)
    BY <1>8, <1>2, <1>7, <1>1 DEF MonthsFit, Asks
  <2> SUFFICES ASSUME NEW d \in Calls, NEW m \in Months, call'[d].pc \in {"idle", "page"}
               PROVE  Unused(<<d, m>>)'
    BY DEF OwnMaps
  <2>2. Unused(<<d, m>>)
    BY <1>15, <2>1 DEF LeavesInv, OwnMaps
  <2>3. \A e \in Calls : ~Asks(call'[e], <<d, m>>)
    BY <1>15, <2>1, <2>2 DEF Unused
  <2> QED
    BY <1>11, <2>2, <2>3 DEF Unused, Asks
<1> QED
  BY <1>14, <1>16, <1>17 DEF LeavesInv

-----------------------------------------------------------------------------
(* Pages.                                                                  *)

\* A load begins with the Map object of a fresh entry, and asks for whom it does
\* not have; or with one of its own.
LEMMA LoadBegins ==
  ASSUME SyncInv, LeavesInv, NEW c \in Calls, call[c].pc = "page", NEW m \in Months,
         NEW s, s.since = now, s.wanted \subseteq People,
         NEW l, l = LoadOf(c, m, s.wanted)
  PROVE  /\ LoadFits(s, m, l)
         /\ l.map = batchCache[m].map \/ l.map = <<c, m>>
<1>1. PICK entry : entry = batchCache[m]
  OBVIOUS
<1>2. entry \in BatchEntry /\ (entry.at # 0 => entry.at <= now /\ FilledFrom(entry.map, entry.at))
  BY <1>1 DEF LeavesInv, CachesFit
<1>3. entry.at \in Nat /\ entry.map \in MapIds /\ now \in Nat
  BY <1>2 DEF BatchEntry, SyncInv, OutsideFits
<1>4. <<c, m>> \in MapIds /\ maps[<<c, m>>] = EmptyMap
  BY DEF MapIds, LeavesInv, OwnMaps, Unused
<1>5. CASE Fresh(entry, now)
  <2> DEFINE missing == {p \in s.wanted : maps[entry.map][p] = Unlisted}
  <2>1. /\ l.state = IF missing = {} THEN "done" ELSE "asking"
        /\ l.asked = missing /\ l.stale = FALSE /\ l.old = entry /\ l.at = entry.at /\ l.map = entry.map
        /\ DOMAIN l = {"state", "asked", "stale", "old", "at", "map"}
    BY <1>1, <1>5 DEF LoadOf
  <2>2. s.since - Ttl + 1 <= entry.at /\ entry.at <= now /\ FilledFrom(entry.map, entry.at)
    BY <1>2, <1>3, <1>5, IntegrationsAssumption DEF Fresh
  <2>3. \A p \in s.wanted : maps[entry.map][p] # Unlisted \/ (l.state = "asking" /\ p \in l.asked)
    BY <2>1
  <2>4. l.state \in {"asking", "done"} /\ l.stale \in BOOLEAN /\ ~l.stale
    BY <2>1, Zenon
  <2> HIDE DEF missing
  <2>5. LoadFits(s, m, l)
    BY <1>2, <1>3, <2>1, <2>2, <2>3, <2>4 DEF LoadFits
  <2> QED
    BY <1>1, <2>1, <2>5
<1>6. CASE ~Fresh(entry, now)
  <2>1. /\ l.state = IF s.wanted = {} THEN "done" ELSE "asking"
        /\ l.asked = s.wanted /\ l.stale = FALSE /\ l.old = entry /\ l.at = now /\ l.map = <<c, m>>
        /\ DOMAIN l = {"state", "asked", "stale", "old", "at", "map"}
    BY <1>1, <1>6 DEF LoadOf
  <2>2. FilledFrom(<<c, m>>, now)
    BY <1>4 DEF FilledFrom, EmptyMap
  <2>3. \A p \in s.wanted : l.state = "asking" /\ p \in l.asked
    BY <2>1
  <2>4. l.state \in {"asking", "done"} /\ l.stale \in BOOLEAN /\ ~l.stale
    BY <2>1, Zenon
  <2>5. s.since - Ttl + 1 <= now
    BY <1>3, IntegrationsAssumption
  <2>6. LoadFits(s, m, l)
    BY <1>2, <1>3, <1>4, <2>1, <2>2, <2>3, <2>4, <2>5 DEF LoadFits
  <2> QED
    BY <2>1, <2>6
<1> QED
  BY <1>5, <1>6

LEMMA LoadPageKeeps ==
  ASSUME SyncInv, LeavesInv, UNCHANGED outside, NEW c \in Calls, LoadPage(c)
  PROVE  LeavesInv'
<1>0. UNCHANGED leaveVars /\ call[c].pc = "page"
  BY DEF LoadPage, At
<1>1. PICK wanted \in SUBSET People :
        Become(c, IF wanted = {} THEN [pc |-> "done"]
                  ELSE [pc |-> "loading", wanted |-> wanted, since |-> now,
                        loads |-> [m \in Months |-> LoadOf(c, m, wanted)]])
  BY DEF LoadPage
<1>2. CASE wanted = {}
  <2>1. Become(c, [pc |-> "done"])
    BY <1>1, <1>2
  <2>2. PICK s : s = [pc |-> "done"]
    OBVIOUS
  <2>3. NoReader(s) /\ s.pc = "done" /\ call' = [call EXCEPT ![c] = s]
    BY <2>1, <2>2 DEF NoReader, Become
  <2> QED
    BY <1>0, <2>3, NoReaderGoesOn
<1>3. CASE wanted # {}
  <2>1. PICK loads : loads = [m \in Months |-> LoadOf(c, m, wanted)]
    OBVIOUS
  <2>2. PICK s : s = [pc |-> "loading", wanted |-> wanted, since |-> now, loads |-> loads]
    OBVIOUS
  <2>3. call' = [call EXCEPT ![c] = s]
    BY <1>1, <1>3, <2>1, <2>2 DEF Become
  <2>4. /\ DOMAIN s = {"pc", "wanted", "since", "loads"} /\ s.pc = "loading" /\ s.wanted = wanted
        /\ s.since = now /\ s.loads = loads
    BY <2>2
  <2>5. wanted \subseteq People /\ now \in Nat
    BY <1>1 DEF SyncInv, OutsideFits
  <2>6. ASSUME NEW m \in Months
        PROVE  LoadFits(s, m, s.loads[m]) /\ s.loads[m].map \in {batchCache[m].map, <<c, m>>}
    <3>1. PICK l : l = s.loads[m]
      OBVIOUS
    <3>2. l = LoadOf(c, m, s.wanted)
      BY <2>1, <2>4, <3>1
    <3>3. s.since = now /\ s.wanted \subseteq People
      BY <2>4, <2>5
    <3>4. LoadFits(s, m, l) /\ (l.map = batchCache[m].map \/ l.map = <<c, m>>)
      BY <1>0, <3>2, <3>3, LoadBegins
    <3> QED
      BY <3>1, <3>4
  <2>7. PageFits(s)
    BY <2>1, <2>4, <2>5, <2>6 DEF PageFits
  <2>8. \A x : Asks(s, x) => (\E m \in Months : x = batchCache[m].map) \/ \E m \in Months : x = <<c, m>>
    BY <2>6 DEF Asks
  <2>9. ReaderFits(s)
    BY <2>7 DEF ReaderFits
  <2> QED
    BY <1>0, <2>3, <2>4, <2>8, <2>9, ReaderGoesOn
<1> QED
  BY <1>2, <1>3

\* A load that was asking has an answer, or none; Map objects it has may be
\* filled, and put into the cache.
LEMMA LoadEnds ==
  ASSUME SyncInv, LeavesInv, UNCHANGED outside, NEW c \in Calls, NEW s, s = call[c],
         NEW m \in Months, Loading(c, m), NEW l, l.state # "asking",
         call' = [call EXCEPT ![c].loads[m] = l], LoadFits(s, m, l)',
         CachesFit', MapsKept,
         \A x \in MapIds : maps'[x] = maps[x] \/ Asks(s, x),
         \A n \in Months : batchCache'[n].map = batchCache[n].map \/ Asks(s, batchCache'[n].map)
  PROVE  LeavesInv'
<1>1. PageFits(s)
  BY RecordFits DEF Loading
<1>2. PICK r : r = [s EXCEPT !.loads = [s.loads EXCEPT ![m] = l]]
  OBVIOUS
<1>3. /\ DOMAIN r = DOMAIN s /\ r.pc = s.pc /\ r.wanted = s.wanted /\ r.since = s.since
      /\ DOMAIN r.loads = Months /\ r.loads[m] = l /\ \A n \in Months \ {m} : r.loads[n] = s.loads[n]
  BY <1>1, <1>2 DEF PageFits
<1>4. DOMAIN call = Calls /\ call'[c] = r /\ \A d \in Calls \ {c} : call'[d] = call[d]
  BY <1>2 DEF SyncInv, CallsFit
<1>5. Later
  BY NothingPasses DEF SyncInv
<1>6. PageFits(r)'
  <2>1. r.pc \in {"loading", "refused"} /\ r.wanted \subseteq People /\ r.since \in Nat /\ r.since <= now'
    BY <1>1, <1>3, <1>5 DEF PageFits, Later, OutsideFits
  <2>2. ASSUME NEW n \in Months
        PROVE  LoadFits(r, n, r.loads[n])'
    <3>1. PICK k : k = r.loads[n]
      OBVIOUS
    <3>2. LoadFits(s, n, k)'
      <4>1. CASE n = m
        BY <1>3, <3>1, <4>1
      <4>2. CASE n # m
        <5>1. LoadFits(s, n, k) /\ s.since \in Nat /\ s.wanted \subseteq People
          BY <1>1, <1>3, <3>1, <4>2 DEF PageFits
        <5> QED
          BY <1>5, <5>1, LoadStays
      <4> QED
        BY <4>1, <4>2
    <3>3. LoadFits(r, n, k)'
      BY <1>3, <3>2 DEF LoadFits, Recent
    <3> QED
      BY <3>1, <3>3
  <2> QED
    BY <1>1, <1>3, <2>1, <2>2 DEF PageFits
<1>7. \A q \in Locals' : ReaderFits(q)'
  <2>1. \A q \in Locals : ReaderFits(q)'
    BY <1>5, ReaderStays DEF LeavesInv
  <2>2. Locals' \subseteq Locals \cup {r}
    BY <1>4 DEF Locals
  <2> QED
    BY <1>6, <2>1, <2>2 DEF ReaderFits
<1>8. OwnMaps'
  <2> SUFFICES ASSUME NEW d \in Calls, NEW n \in Months, call'[d].pc \in {"idle", "page"}
               PROVE  Unused(<<d, n>>)'
    BY DEF OwnMaps
  <2>1. d # c
    BY <1>1, <1>3, <1>4 DEF PageFits
  <2>2. PICK x : x = <<d, n>>
    OBVIOUS
  <2>3. x \in MapIds /\ Unused(x)
    BY <1>4, <2>1, <2>2 DEF LeavesInv, OwnMaps, MapIds
  <2>4. ~Asks(s, x) /\ maps'[x] = EmptyMap
    BY <2>3 DEF Unused
  <2>5. \A k \in Months : batchCache'[k].map # x
    BY <2>3, <2>4 DEF Unused
  <2>6. ~Asks(r, x)
    BY <1>1, <1>3, <2>4 DEF Asks, PageFits
  <2>7. \A e \in Calls : ~Asks(call'[e], x)
    BY <1>4, <2>3, <2>6 DEF Unused
  <2>8. Unused(x)'
    BY <2>4, <2>5, <2>7 DEF Unused, Asks
  <2> QED
    BY <2>2, <2>8
<1> QED
  BY <1>7, <1>8 DEF LeavesInv

LEMMA PageFailsKeeps ==
  ASSUME SyncInv, LeavesInv, UNCHANGED outside, NEW c \in Calls, PageFails(c)
  PROVE  LeavesInv'
<1>1. PICK m \in Months, old \in BOOLEAN : /\ Loading(c, m)
        /\ call' = [call EXCEPT ![c].loads[m] =
                      IF old THEN [@ EXCEPT !.state = "done", !.map = Load(c, m).old.map, !.stale = TRUE]
                      ELSE [@ EXCEPT !.state = "failed"]]
  BY DEF PageFails
<1>2. UNCHANGED leaveVars
  BY DEF PageFails
<1>3. PICK s : s = call[c]
  OBVIOUS
<1>4. PICK k : k = s.loads[m]
  OBVIOUS
<1>5. PageFits(s) /\ LoadFits(s, m, k)
  BY <1>1, <1>3, <1>4, RecordFits DEF Loading, PageFits
<1>6. PICK l : l = IF old THEN [k EXCEPT !.state = "done", !.map = k.old.map, !.stale = TRUE]
                   ELSE [k EXCEPT !.state = "failed"]
  OBVIOUS
<1>7. call' = [call EXCEPT ![c].loads[m] = l]
  BY <1>1, <1>3, <1>4, <1>5, <1>6 DEF Load, SyncInv, CallsFit, PageFits
<1>8. /\ DOMAIN l = DOMAIN k /\ l.old = k.old /\ l.map \in MapIds
      /\ (l.state = "failed" /\ l.stale = k.stale) \/ (l.state = "done" /\ l.stale = TRUE)
  BY <1>5, <1>6 DEF LoadFits, BatchEntry
<1>9. l.stale \in BOOLEAN
  BY <1>5, <1>8, Zenon DEF LoadFits
<1>10. l.state \in {"done", "failed"} /\ ~(l.state \in {"asking", "done"} /\ ~l.stale)
  BY <1>8
<1>11. LoadFits(s, m, l)'
  BY <1>5, <1>8, <1>9, <1>10 DEF LoadFits
<1>12. Later /\ MapsKept
  BY <1>2, NothingPasses, MapsAsTheyWere DEF SyncInv, leaveVars
<1>13. CachesFit'
  BY <1>2, <1>12, CachesStay DEF LeavesInv
<1>14. UNCHANGED <<maps, batchCache>>
  BY <1>2 DEF leaveVars
<1> QED
  BY <1>1, <1>3, <1>7, <1>10, <1>11, <1>12, <1>13, <1>14, LoadEnds

\* What arrives is put into the Map object of the load, which is what the cache
\* holds from then on.
LEMMA PageArrivesKeeps ==
  ASSUME SyncInv, LeavesInv, UNCHANGED outside, NEW c \in Calls, PageArrives(c)
  PROVE  LeavesInv'
<1>1. PICK m \in Months : /\ Loading(c, m)
        /\ maps' = [maps EXCEPT ![Load(c, m).map] = Fill(@, Load(c, m).asked, m)]
        /\ batchCache' = [batchCache EXCEPT ![m] = [at |-> Load(c, m).at, map |-> Load(c, m).map]]
        /\ call' = [call EXCEPT ![c].loads[m].state = "done"]
  BY DEF PageArrives
<1>2. PICK s : s = call[c]
  OBVIOUS
<1>3. PICK k : k = s.loads[m]
  OBVIOUS
<1>4. PageFits(s) /\ LoadFits(s, m, k) /\ k.state = "asking" /\ ~k.stale
  BY <1>1, <1>2, <1>3, RecordFits DEF Loading, PageFits, LoadFits
<1>5. PICK x : x = k.map
  OBVIOUS
<1>6. /\ x \in MapIds /\ k.at \in Nat /\ s.since - Ttl + 1 <= k.at /\ k.at <= now
      /\ FilledFrom(x, k.at) /\ Asks(s, x)
      /\ \A p \in s.wanted : maps[x][p] # Unlisted \/ p \in k.asked
  BY <1>3, <1>4, <1>5 DEF LoadFits, PageFits, Asks
<1>7. now \in Nat /\ UNCHANGED <<now, world, inForce>>
  BY DEF SyncInv, OutsideFits, outside
<1>8. \A p \in People : DaysNow(m, p) \in {now, Unlisted}
  BY DEF DaysNow
<1>9. /\ \A y \in MapIds \ {x} : maps'[y] = maps[y]
      /\ \A p \in People : maps'[x][p] = IF p \in k.asked /\ DaysNow(m, p) # Unlisted
                                         THEN DaysNow(m, p) ELSE maps[x][p]
      /\ maps' \in [MapIds -> [People -> Days]]
  <2>1. \A p \in People : DaysNow(m, p) \in Days
    BY <1>7, <1>8 DEF Days
  <2>2. maps \in [MapIds -> [People -> Days]]
    BY DEF LeavesInv, CachesFit
  <2>3. PICK f : f = Fill(maps[x], k.asked, m)
    OBVIOUS
  <2>4. /\ f \in [People -> Days]
        /\ \A p \in People : f[p] = IF p \in k.asked /\ DaysNow(m, p) # Unlisted
                                    THEN DaysNow(m, p) ELSE maps[x][p]
    BY <1>6, <2>1, <2>2, <2>3 DEF Fill
  <2>5. maps' = [maps EXCEPT ![x] = f]
    BY <1>1, <1>2, <1>3, <1>5, <2>3 DEF Load
  <2> QED
    BY <1>6, <2>2, <2>4, <2>5
<1>10. MapsKept
  <2> SUFFICES ASSUME NEW y \in MapIds
               PROVE  /\ \A p \in People : maps[y][p] # Unlisted => maps'[y][p] # Unlisted
                      /\ \A t \in Int : t <= now /\ FilledFrom(y, t) => FilledFrom(y, t)'
    BY DEF MapsKept
  <2>1. CASE y # x
    BY <1>9, <2>1 DEF FilledFrom
  <2>2. CASE y = x
    <3>1. ASSUME NEW p \in People
          PROVE  maps'[x][p] = maps[x][p] \/ (maps'[x][p] = now /\ maps'[x][p] # Unlisted)
      <4>1. CASE p \in k.asked /\ DaysNow(m, p) # Unlisted
        <5>1. maps'[x][p] = DaysNow(m, p) /\ DaysNow(m, p) = now
          BY <1>8, <1>9, <4>1
        <5> QED
          BY <4>1, <5>1
      <4>2. CASE ~(p \in k.asked /\ DaysNow(m, p) # Unlisted)
        BY <1>9, <4>2
      <4> QED
        BY <4>1, <4>2
    <3>2. ASSUME NEW t \in Int, t <= now, FilledFrom(x, t)
          PROVE  FilledFrom(x, t)'
      BY <3>1, <3>2 DEF FilledFrom
    <3> QED
      BY <2>2, <3>1, <3>2
  <2> QED
    BY <2>1, <2>2
<1>11. PICK entry : entry = [at |-> k.at, map |-> x]
  OBVIOUS
<1>12. /\ entry \in BatchEntry /\ entry.at = k.at /\ entry.map = x
       /\ batchCache' = [batchCache EXCEPT ![m] = entry]
  BY <1>1, <1>2, <1>3, <1>5, <1>6, <1>11 DEF BatchEntry, Load
<1>13. CachesFit'
  <2>1. batchCache' \in [Months -> BatchEntry] /\ batchCache'[m] = entry
        /\ \A n \in Months \ {m} : batchCache'[n] = batchCache[n]
    BY <1>12 DEF LeavesInv, CachesFit
  <2>2. monthCache' = monthCache
    BY DEF PageArrives
  <2>3. \A n \in Months, p \in People :
          monthCache'[<<n, p>>].at # 0 =>
             /\ monthCache'[<<n, p>>].at <= now'
             /\ SeenFrom(n, p, monthCache[<<n, p>>].days, monthCache[<<n, p>>].at)'
    BY <1>7, <2>2 DEF LeavesInv, CachesFit, SeenFrom, HeldSince
  <2>4. ASSUME NEW n \in Months, batchCache'[n].at # 0
        PROVE  batchCache'[n].at <= now' /\ FilledFrom(batchCache[n].map, batchCache[n].at)'
    <3>1. PICK e \in BatchEntry : e = batchCache'[n]
      BY <2>1
    <3>2. e.at \in Int /\ e.map \in MapIds /\ e.at <= now /\ FilledFrom(e.map, e.at)
      <4>1. CASE n = m
        BY <1>6, <1>12, <2>1, <3>1, <4>1
      <4>2. CASE n # m
        BY <2>1, <2>4, <3>1, <4>2 DEF LeavesInv, CachesFit, BatchEntry
      <4> QED
        BY <4>1, <4>2
    <3>3. FilledFrom(e.map, e.at)'
      BY <1>10, <3>2 DEF MapsKept
    <3> QED
      BY <1>7, <3>1, <3>2, <3>3 DEF FilledFrom
  <2> QED
    BY <1>9, <2>1, <2>2, <2>3, <2>4 DEF LeavesInv, CachesFit
<1>14. PICK l : l = [k EXCEPT !.state = "done"]
  OBVIOUS
<1>15. /\ DOMAIN l = DOMAIN k /\ l.state = "done" /\ l.stale = k.stale /\ l.old = k.old
       /\ l.map = x /\ l.at = k.at
  BY <1>4, <1>5, <1>14 DEF LoadFits
<1>16. ASSUME NEW p \in s.wanted
       PROVE  maps'[x][p] # Unlisted \/ Recent(s, m, p, Unlisted)'
  <2>0. p \in People
    BY <1>4 DEF PageFits
  <2>1. CASE maps[x][p] # Unlisted
    BY <1>6, <1>10, <2>0, <2>1 DEF MapsKept
  <2>2. CASE p \in k.asked /\ DaysNow(m, p) # Unlisted
    BY <1>9, <2>0, <2>2
  <2>3. CASE DaysNow(m, p) = Unlisted
    <3>1. s.since - Ttl + 1 \in Int /\ s.since - Ttl + 1 <= now
      BY <1>4, <1>6, <1>7, IntegrationsAssumption DEF PageFits
    <3>2. SeenFrom(m, p, Unlisted, s.since - Ttl + 1)
      BY <2>3, <3>1, DaysNowAreSeen DEF SyncInv
    <3> QED
      BY <1>7, <3>2 DEF Recent, SeenFrom, HeldSince
  <2> QED
    BY <1>6, <2>1, <2>2, <2>3
<1>17. LoadFits(s, m, l)'
  <2>1. FilledFrom(x, k.at)'
    BY <1>6, <1>10 DEF MapsKept
  <2> QED
    BY <1>4, <1>6, <1>7, <1>15, <1>16, <2>1 DEF LoadFits
<1>18. call' = [call EXCEPT ![c].loads[m] = l]
  BY <1>1, <1>2, <1>3, <1>4, <1>14 DEF SyncInv, CallsFit, PageFits
<1>19. \A y \in MapIds : maps'[y] = maps[y] \/ Asks(s, y)
  BY <1>6, <1>9
<1>20. \A n \in Months : batchCache'[n].map = batchCache[n].map \/ Asks(s, batchCache'[n].map)
  BY <1>6, <1>12 DEF LeavesInv, CachesFit
<1>21. l.state # "asking"
  BY <1>15
<1> QED
  BY <1>1, <1>2, <1>10, <1>13, <1>17, <1>18, <1>19, <1>20, <1>21, LoadEnds

LEMMA AnswerPageKeeps ==
  ASSUME SyncInv, LeavesInv, UNCHANGED outside, NEW c \in Calls, AnswerPage(c)
  PROVE  LeavesInv'
<1>0. UNCHANGED leaveVars /\ call[c].pc = "loading" /\ PageFits(call[c])
  BY RecordFits DEF AnswerPage, At
<1>1. CASE Become(c, [pc |-> "done"])
  <2>1. PICK s : s = [pc |-> "done"]
    OBVIOUS
  <2>2. NoReader(s) /\ s.pc = "done" /\ call' = [call EXCEPT ![c] = s]
    BY <1>1, <2>1 DEF NoReader, Become
  <2> QED
    BY <1>0, <2>2, NoReaderGoesOn
<1>2. CASE Goto(c, "refused")
  <2>1. PICK s : s = [call[c] EXCEPT !.pc = "refused"]
    OBVIOUS
  <2>2. call' = [call EXCEPT ![c] = s]
    BY <1>2, <2>1 DEF Goto, SyncInv, CallsFit
  <2>3. /\ DOMAIN s = DOMAIN call[c] /\ s.pc = "refused" /\ s.wanted = call[c].wanted
        /\ s.since = call[c].since /\ s.loads = call[c].loads
    BY <1>0, <2>1 DEF PageFits
  <2>4. PageFits(s)
    BY <1>0, <2>3 DEF PageFits, LoadFits, Recent
  <2>5. \A x : Asks(s, x) => Asks(call[c], x)
    BY <2>3 DEF Asks
  <2> QED
    BY <1>0, <2>2, <2>3, <2>4, <2>5, ReaderGoesOn DEF ReaderFits
<1> QED
  BY <1>1, <1>2 DEF AnswerPage

-----------------------------------------------------------------------------
(* Everything else.                                                        *)

\* A request that fails has no load any more.
LEMMA FailingKeeps ==
  ASSUME SyncInv, LeavesInv, NEW c \in Calls, StatementFails(c)
  PROVE  LeavesInv'
<1>1. UNCHANGED leaveVars /\ UNCHANGED outside
  BY DEF StatementFails
<1>2. PICK s : s = [call[c] EXCEPT !.pc = "refused"]
  OBVIOUS
<1>3. call' = [call EXCEPT ![c] = s]
  BY <1>2 DEF StatementFails, Fail, Goto, SyncInv, CallsFit
<1>4. call[c].pc \in {"leaves", "page"} /\ ReaderFits(call[c])
  BY RecordFits DEF StatementFails
<1>5. "pc" \in DOMAIN call[c] /\ "loads" \notin DOMAIN call[c]
  BY <1>4 DEF ReaderFits, MonthsFit, PageFits, NoReader
<1>6. NoReader(s) /\ s.pc = "refused"
  BY <1>2, <1>5 DEF NoReader
<1> QED
  BY <1>1, <1>3, <1>6, NoReaderGoesOn

\* Synchronisations, and what is done to assignments.
LEMMA SyncKeepsLeaves ==
  ASSUME SyncInv, LeavesInv, UNCHANGED outside, UNCHANGED leaveVars, NEW c \in Calls,
         BeginSyncing(c) \/ ServeSync(c)
  PROVE  LeavesInv'
<1>0. StateFits(call[c]) /\ DOMAIN call = Calls
  BY DEF SyncInv, CallsFit
<1>1. ASSUME NEW s, call' = [call EXCEPT ![c] = s], "pc" \in DOMAIN s, "loads" \notin DOMAIN s,
             s.pc \in {"refused", "done", "fetching", "mapping"}
      PROVE  LeavesInv'
  BY <1>1, NoReaderGoesOn DEF NoReader
<1>2. ASSUME Become(c, [pc |-> "refused"]) \/ Become(c, [pc |-> "done"])
      PROVE  LeavesInv'
  <2>1. PICK s : (s = [pc |-> "refused"] \/ s = [pc |-> "done"]) /\ Become(c, s)
    BY <1>2
  <2>2. "pc" \in DOMAIN s /\ "loads" \notin DOMAIN s /\ s.pc \in {"refused", "done"}
    BY <2>1
  <2> QED
    BY <1>1, <2>1, <2>2 DEF Become
<1>3. CASE BeginSync(c)
  <2>1. CASE Become(c, [pc |-> "refused"])
    BY <1>2, <2>1
  <2>2. CASE Become(c, [pc |-> "fetching", at |-> now, got |-> << >>, failed |-> {}])
    <3>1. PICK s : s = [pc |-> "fetching", at |-> now, got |-> << >>, failed |-> {}]
      OBVIOUS
    <3>2. "pc" \in DOMAIN s /\ "loads" \notin DOMAIN s /\ s.pc = "fetching"
      BY <3>1
    <3> QED
      BY <1>1, <2>2, <3>1, <3>2 DEF Become
  <2> QED
    BY <1>3, <2>1, <2>2 DEF BeginSync
<1>4. CASE WriteByHand(c)
  BY <1>2, <1>4 DEF WriteByHand
<1>5. CASE ShowProjects(c)
  <2>1. PICK shown : Become(c, [pc |-> "done", shown |-> shown])
    BY <1>5 DEF ShowProjects
  <2>2. PICK s : s = [pc |-> "done", shown |-> shown]
    OBVIOUS
  <2>3. "pc" \in DOMAIN s /\ "loads" \notin DOMAIN s /\ s.pc = "done"
    BY <2>2
  <2> QED
    BY <1>1, <2>1, <2>2, <2>3 DEF Become
<1>6. CASE Fetch(c)
  <2>1. FetchFits(call[c])
    BY <1>0, <1>6, BusyStates DEF Fetch, At
  <2>2. PICK part, answer : Got(c, part, answer)
    BY <1>6 DEF Fetch
  <2>3. PICK s : s = [call[c] EXCEPT !.got = [x \in DOMAIN @ \cup {part} |-> IF x = part THEN answer ELSE @[x]]]
    OBVIOUS
  <2>4. DOMAIN s = DOMAIN call[c] /\ s.pc = "fetching"
    BY <2>1, <2>3 DEF FetchFits
  <2>5. call' = [call EXCEPT ![c] = s]
    BY <1>0, <2>2, <2>3 DEF Got
  <2> QED
    BY <1>1, <2>1, <2>4, <2>5 DEF FetchFits
<1>7. CASE FetchFails(c)
  <2>1. FetchFits(call[c])
    BY <1>0, <1>7, BusyStates DEF FetchFails, At
  <2>2. PICK part : call' = [call EXCEPT ![c].failed = @ \cup {part}]
    BY <1>7 DEF FetchFails
  <2>3. PICK s : s = [call[c] EXCEPT !.failed = @ \cup {part}]
    OBVIOUS
  <2>4. DOMAIN s = DOMAIN call[c] /\ s.pc = "fetching"
    BY <2>1, <2>3 DEF FetchFits
  <2>5. call' = [call EXCEPT ![c] = s]
    BY <1>0, <2>2, <2>3
  <2> QED
    BY <1>1, <2>1, <2>4, <2>5 DEF FetchFits
<1>8. CASE GiveUp(c)
  BY <1>2, <1>8 DEF GiveUp
<1>9. CASE CheckPayload(c)
  <2>1. CASE Become(c, [pc |-> "mapping", at |-> call[c].at, projects |-> call[c].got[0],
                        reports |-> [m \in Months |-> call[c].got[m]], found |-> << >>])
    <3>1. PICK s : s = [pc |-> "mapping", at |-> call[c].at, projects |-> call[c].got[0],
                        reports |-> [m \in Months |-> call[c].got[m]], found |-> << >>]
      OBVIOUS
    <3>2. "pc" \in DOMAIN s /\ "loads" \notin DOMAIN s /\ s.pc = "mapping"
      BY <3>1
    <3> QED
      BY <1>1, <2>1, <3>1, <3>2 DEF Become
  <2> QED
    BY <1>8, <1>9, <2>1 DEF CheckPayload
<1>10. CASE Lookup(c)
  <2>1. MapFits(call[c])
    BY <1>0, <1>10, BusyStates DEF Lookup, At
  <2>2. PICK p : call' = [call EXCEPT ![c].found = [x \in DOMAIN @ \cup {p} |->
                            IF x \in DOMAIN @ THEN @[x] ELSE EmployeeOf(identity, p)]]
    BY <1>10 DEF Lookup
  <2>3. PICK s : s = [call[c] EXCEPT !.found = [x \in DOMAIN @ \cup {p} |->
                            IF x \in DOMAIN @ THEN @[x] ELSE EmployeeOf(identity, p)]]
    OBVIOUS
  <2>4. DOMAIN s = DOMAIN call[c] /\ s.pc = "mapping"
    BY <2>1, <2>3 DEF MapFits
  <2>5. call' = [call EXCEPT ![c] = s]
    BY <1>0, <2>2, <2>3
  <2> QED
    BY <1>1, <2>1, <2>4, <2>5 DEF MapFits
<1>11. CASE Save(c)
  <2>1. MapFits(call[c])
    BY <1>0, <1>11, BusyStates DEF Save, MappingDone, At
  <2>2. PICK s : s = [call[c] EXCEPT !.pc = "done"]
    OBVIOUS
  <2>3. DOMAIN s = DOMAIN call[c] /\ s.pc = "done"
    BY <2>1, <2>2 DEF MapFits
  <2>4. call' = [call EXCEPT ![c] = s]
    BY <1>0, <1>11, <2>2 DEF Save, Goto
  <2> QED
    BY <1>1, <2>1, <2>3, <2>4 DEF MapFits
<1> QED
  BY <1>3, <1>4, <1>5, <1>6, <1>7, <1>8, <1>9, <1>10, <1>11 DEF BeginSyncing, ServeSync, SyncFails

\* After a restart there is neither a cache nor a load.
LEMMA RestartKeepsLeaves ==
  ASSUME SyncInv, LeavesInv, Restart
  PROVE  LeavesInv'
<1>1. /\ monthCache' = NoMonths /\ batchCache' = NoBatches /\ maps' = [x \in MapIds |-> EmptyMap]
      /\ call' = [c \in Calls |-> IF At(c, "idle") THEN NotAsked ELSE [pc |-> "refused"]]
  BY DEF Restart
<1>2. \A m \in Months : <<Nobody, m>> \in MapIds
  BY DEF MapIds
<1>3. NoEntry \in MonthEntry /\ NoEntry.at = 0
  BY DEF NoEntry, MonthEntry, Days
<1>4. \A m \in Months : /\ NoBatches[m] \in BatchEntry /\ NoBatches[m].at = 0
                        /\ NoBatches[m].map = <<Nobody, m>>
  BY <1>2 DEF NoBatches, BatchEntry
<1>5. EmptyMap \in [People -> Days]
  BY DEF EmptyMap, Days
<1>6. CachesFit'
  <2>1. monthCache' \in [Months \X People -> MonthEntry]
        /\ \A m \in Months, p \in People : monthCache'[<<m, p>>].at = 0
    BY <1>1, <1>3 DEF NoMonths
  <2>2. batchCache' \in [Months -> BatchEntry] /\ \A m \in Months : batchCache'[m].at = 0
    BY <1>1, <1>4 DEF NoBatches
  <2>3. maps' \in [MapIds -> [People -> Days]]
    BY <1>1, <1>5
  <2> QED
    BY <2>1, <2>2, <2>3 DEF CachesFit
<1>7. \A c \in Calls : call'[c] = [pc |-> "idle"] \/ call'[c] = [pc |-> "refused"]
  BY <1>1 DEF NotAsked
<1>8. \A s \in Locals' : NoReader(s)' /\ \A x : ~Asks(s, x)'
  <2>1. \A s : s = [pc |-> "idle"] \/ s = [pc |-> "refused"] => NoReader(s) /\ \A x : ~Asks(s, x)
    BY DEF NoReader, Asks
  <2>2. \A s \in Locals' : s = [pc |-> "idle"] \/ s = [pc |-> "refused"]
    BY <1>7 DEF Locals
  <2>3. \A s \in Locals' : NoReader(s) /\ \A x : ~Asks(s, x)
    BY <2>1, <2>2
  <2> QED
    BY <2>3 DEF NoReader, Asks
<1>9. OwnMaps'
  <2> SUFFICES ASSUME NEW d \in Calls, NEW m \in Months
               PROVE  Unused(<<d, m>>)'
    BY DEF OwnMaps
  <2>1. maps'[<<d, m>>] = EmptyMap
    BY <1>1 DEF MapIds
  <2>2. \A n \in Months : batchCache'[n].map # <<d, m>>
    BY <1>1, <1>4, IntegrationsAssumption
  <2>3. \A e \in Calls : ~Asks(call'[e], <<d, m>>)
    BY <1>8 DEF Locals, Asks
  <2> QED
    BY <2>1, <2>2, <2>3 DEF Unused, Asks
<1> QED
  BY <1>6, <1>8, <1>9 DEF LeavesInv, ReaderFits

\* Nothing happens to requests and caches.
LEMMA LeavesStay ==
  ASSUME LeavesInv, Later, UNCHANGED leaveVars, UNCHANGED call
  PROVE  LeavesInv'
<1>1. CachesFit'
  BY CachesStay DEF LeavesInv
<1>2. \A s \in Locals' : ReaderFits(s)'
  BY MapsAsTheyWere, ReaderStays DEF LeavesInv, Locals, leaveVars
<1>3. OwnMaps'
  BY DEF LeavesInv, OwnMaps, Unused, Asks, leaveVars
<1> QED
  BY <1>1, <1>2, <1>3 DEF LeavesInv

LEMMA LeavesStart == Init => LeavesInv
<1> SUFFICES ASSUME Init PROVE LeavesInv
  OBVIOUS
<1>1. now \in Nat
  BY IntegrationsAssumption DEF Init, WorldInit, Times
<1>2. monthCache = NoMonths
  BY DEF Init, LeavesInit
<1>3. NoEntry \in MonthEntry /\ NoEntry.at = 0
  BY DEF NoEntry, MonthEntry, Days
<1>4. monthCache \in [Months \X People -> MonthEntry]
      /\ \A m \in Months, p \in People : monthCache[<<m, p>>].at = 0
  BY <1>2, <1>3 DEF NoMonths
<1>5. PICK known :
        /\ batchCache = IF known = {} THEN NoBatches ELSE [m \in Months |-> [at |-> now, map |-> <<Nobody, m>>]]
        /\ maps = [x \in MapIds |-> IF x[1] = Nobody THEN [p \in People |-> IF p \in known THEN now ELSE Unlisted]
                                    ELSE EmptyMap]
  BY DEF Init, LeavesInit
<1>6. maps \in [MapIds -> [People -> Days]] /\ \A x \in MapIds, p \in People : maps[x][p] \in {now, Unlisted}
  <2>1. \A p \in People : EmptyMap[p] = Unlisted
    BY DEF EmptyMap
  <2>2. EmptyMap \in [People -> Days] /\ [p \in People |-> IF p \in known THEN now ELSE Unlisted] \in [People -> Days]
    BY <1>1 DEF EmptyMap, Days
  <2> QED
    BY <1>5, <2>1, <2>2
<1>7. \A m \in Months : /\ batchCache[m].at \in {0, now} /\ batchCache[m].map = <<Nobody, m>>
                        /\ batchCache[m] \in BatchEntry
  BY <1>1, <1>5 DEF NoBatches, BatchEntry, MapIds
<1>8. batchCache \in [Months -> BatchEntry]
  BY <1>5, <1>7 DEF NoBatches
<1>9. CachesFit
  <2>1. ASSUME NEW m \in Months, batchCache[m].at # 0
        PROVE  batchCache[m].at <= now /\ FilledFrom(batchCache[m].map, batchCache[m].at)
    <3>1. PICK x \in MapIds : x = batchCache[m].map
      BY <1>7 DEF BatchEntry
    <3>2. batchCache[m].at = now /\ \A p \in People : maps[x][p] \in {now, Unlisted}
      BY <1>6, <1>7, <2>1
    <3> QED
      BY <1>1, <3>1, <3>2 DEF FilledFrom
  <2> QED
    BY <1>4, <1>6, <1>8, <2>1 DEF CachesFit
<1>10. \A c \in Calls : call[c] = [pc |-> "idle"]
  BY DEF Init, RequestsInit, NotAsked
<1>11. \A s \in Locals : NoReader(s) /\ \A x : ~Asks(s, x)
  BY <1>10 DEF Locals, NoReader, Asks
<1>12. OwnMaps
  <2> SUFFICES ASSUME NEW d \in Calls, NEW m \in Months
               PROVE  Unused(<<d, m>>)
    BY DEF OwnMaps
  <2>1. maps[<<d, m>>] = EmptyMap
    BY <1>5, IntegrationsAssumption DEF MapIds
  <2>2. \A n \in Months : batchCache[n].map # <<d, m>>
    BY <1>7, IntegrationsAssumption
  <2> QED
    BY <1>11, <2>1, <2>2 DEF Unused, Locals
<1> QED
  BY <1>9, <1>11, <1>12 DEF LeavesInv, ReaderFits

LEMMA LeavesStep == SyncInv /\ LeavesInv /\ [Next]_integrationVars => LeavesInv'
<1> SUFFICES ASSUME SyncInv, LeavesInv, [Next]_integrationVars PROVE LeavesInv'
  OBVIOUS
<1>1. CASE Restart
  BY <1>1, RestartKeepsLeaves
<1>2. CASE Surroundings
  <2>1. Later /\ SyncInv'
    <3>1. SyncInv'
      BY <1>2, SurroundingsKeep
    <3>2. now <= now' /\ \A w \in Worlds : inForce[w] <= inForce'[w]
      BY <1>2 DEF Surroundings, Outside, WorldChanges, IdentityChanges, Tick, SyncInv, OutsideFits
    <3> QED
      BY <3>1, <3>2 DEF SyncInv, Later
  <2>2. UNCHANGED leaveVars /\ UNCHANGED call
    BY <1>2 DEF Surroundings, Outside, WorldChanges, IdentityChanges, requestVars
  <2> QED
    BY <2>1, <2>2, LeavesStay
<1>3. ASSUME NEW c \in Calls, Begin(c)
      PROVE  LeavesInv'
  <2>1. UNCHANGED outside
    BY <1>3 DEF Begin
  <2>2. CASE BeginLeaves(c) \/ BeginPage(c)
    BY <2>1, <2>2, BeginLeavesKeeps
  <2>3. CASE BeginSyncing(c) /\ UNCHANGED leaveVars
    BY <2>1, <2>3, SyncKeepsLeaves
  <2> QED
    BY <1>3, <2>2, <2>3 DEF Begin
<1>4. ASSUME NEW c \in Calls, Serve(c)
      PROVE  LeavesInv'
  <2>1. UNCHANGED outside
    BY <1>4 DEF Serve
  <2>2. CASE ServeSync(c) /\ UNCHANGED leaveVars
    BY <2>1, <2>2, SyncKeepsLeaves
  <2>3. CASE ServeLeaves(c)
    BY <2>1, <2>3, TakeCachedKeeps, AskMonthKeeps, MonthArrivesKeeps, MonthFailsKeeps, AnswerLeavesKeeps,
       LoadPageKeeps, PageArrivesKeeps, PageFailsKeeps, AnswerPageKeeps DEF ServeLeaves
  <2> QED
    BY <1>4, <2>2, <2>3 DEF Serve
<1>5. ASSUME NEW c \in Calls, StatementFails(c)
      PROVE  LeavesInv'
  BY <1>5, FailingKeeps
<1>6. CASE UNCHANGED integrationVars
  <2>1. Later
    BY <1>6, NothingPasses DEF integrationVars, SyncInv
  <2> QED
    BY <1>6, <2>1, LeavesStay DEF integrationVars, requestVars
<1> QED
  BY <1>1, <1>2, <1>3, <1>4, <1>5, <1>6 DEF Next

\* In every state no entry of the two caches is older than its date says, and no
\* unmarked answer that a request has put together so far is older than Ttl, in
\* whatever order loads fill, replace and share entries (leaves-sync.service.ts).
THEOREM CachesAreDated == Spec => []LeavesInv
<1>1. Init => SyncInv /\ LeavesInv
  BY InitHolds, LeavesStart
<1>2. SyncInv /\ LeavesInv /\ [Next]_integrationVars => (SyncInv /\ LeavesInv)'
  BY StepKeeps, LeavesStep
<1> QED
  BY <1>1, <1>2, PTL DEF Spec

-----------------------------------------------------------------------------
(* Answers.                                                                *)

LEMMA RecentIsReported ==
  ASSUME OutsideFits, NEW m, NEW p, NEW t \in Nat, NEW d \in Days, SeenFrom(m, p, d, t - Ttl + 1)
  PROVE  ReportedSince(m, p, d, t)
<1>1. CASE d = Unlisted
  BY <1>1 DEF SeenFrom, ReportedSince
<1>2. CASE d # Unlisted
  <2>1. d \in Nat /\ d >= t - Ttl + 1
    BY <1>2 DEF SeenFrom, Days
  <2>2. d > t - Ttl
    BY <2>1, IntegrationsAssumption
  <2> QED
    BY <1>2, <2>2 DEF ReportedSince
<1> QED
  BY <1>1, <1>2

\* A request that reads month after month and is at the end.
LEMMA MonthsAnswered ==
  ASSUME SyncInv, LeavesInv, NEW c \in Calls, At(c, "leaves"), ~call[c].stale,
         call[c].month \notin Months, NEW m \in Months
  PROVE  ReportedSince(m, call[c].person, call[c].days[m], call[c].since)
<1>1. MonthsFit(call[c])
  BY RecordFits DEF At
<1>2. call[c].month \in Nat \ {0} /\ LastMonth \in Nat /\ Len(call[c].days) = call[c].month - 1
  BY <1>1, IntegrationsAssumption DEF MonthsFit
<1>3. m < call[c].month /\ m \in 1..Len(call[c].days)
  BY <1>2 DEF Months
<1>4. call[c].days[m] \in Days /\ call[c].since \in Nat
  BY <1>1, <1>3 DEF MonthsFit
<1>5. SeenFrom(m, call[c].person, call[c].days[m], call[c].since - Ttl + 1)
  BY <1>1, <1>3 DEF MonthsFit, Recent
<1> QED
  BY <1>4, <1>5, RecentIsReported DEF SyncInv

\* A page all of whose loads have an answer.
LEMMA PageAnswered ==
  ASSUME SyncInv, LeavesInv, NEW c \in Calls, At(c, "loading"), ~PageIsStale(c),
         \A m \in Months : Load(c, m).state = "done", NEW mp \in DOMAIN PageDays(c)
  PROVE  ReportedSince(mp[1], mp[2], PageDays(c)[mp], call[c].since)
<1>1. PageFits(call[c])
  BY RecordFits DEF At
<1>2. PICK m \in Months, p \in call[c].wanted : mp = <<m, p>>
  BY DEF PageDays
<1>3. PICK l : l = Load(c, m)
  OBVIOUS
<1>4. LoadFits(call[c], m, l) /\ l.state = "done" /\ ~l.stale
  BY <1>1, <1>3 DEF PageFits, Load, PageIsStale
<1>5. PICK s : s = call[c]
  OBVIOUS
<1>6. PICK d : d = maps[l.map][p]
  OBVIOUS
<1>7. /\ s.since \in Nat /\ p \in People /\ l.map \in MapIds /\ d \in Days
      /\ l.at \in Nat /\ s.since - Ttl + 1 <= l.at /\ FilledFrom(l.map, l.at)
      /\ d # Unlisted \/ Recent(s, m, p, Unlisted)
  BY <1>1, <1>2, <1>4, <1>5, <1>6 DEF PageFits, LoadFits, LeavesInv, CachesFit
<1>8. SeenFrom(m, p, d, s.since - Ttl + 1)
  <2>1. CASE d = Unlisted
    BY <1>7, <2>1 DEF Recent
  <2>2. CASE d # Unlisted
    <3>1. d >= l.at /\ d \in Nat
      BY <1>6, <1>7, <2>2 DEF FilledFrom, Days
    <3>2. d >= s.since - Ttl + 1
      BY <1>7, <3>1, IntegrationsAssumption
    <3> QED
      BY <2>2, <3>2 DEF SeenFrom
  <2> QED
    BY <2>1, <2>2
<1>9. ReportedSince(m, p, d, s.since)
  BY <1>7, <1>8, RecentIsReported DEF SyncInv
<1>10. PageDays(c)[mp] = d /\ mp[1] = m /\ mp[2] = p
  BY <1>2, <1>3, <1>6 DEF PageDays
<1> QED
  BY <1>5, <1>9, <1>10

\* A step of a request is a step of its record.
LEMMA OneMoves ==
  ASSUME SyncInv, NEW d \in Calls, Begin(d) \/ Serve(d) \/ StatementFails(d)
  PROVE  \E s : call' = [call EXCEPT ![d] = s]
<1>0. DOMAIN call = Calls
  BY DEF SyncInv, CallsFit
<1>1. CASE Begin(d)
  BY <1>1 DEF Begin, BeginSyncing, BeginSync, WriteByHand, ShowProjects, BeginLeaves, BeginPage, Become
<1>2. CASE StatementFails(d)
  BY <1>0, <1>2 DEF StatementFails, Fail, Goto
<1>3. CASE ServeSync(d)
  BY <1>0, <1>3 DEF ServeSync, Fetch, Got, FetchFails, CheckPayload, GiveUp, Lookup, Save, SyncFails, Become, Goto
<1>4. CASE TakeCached(d) \/ AskMonth(d) \/ MonthArrives(d) \/ MonthFails(d) \/ AnswerLeaves(d) \/ LoadPage(d) \/ AnswerPage(d)
  BY <1>0, <1>4 DEF TakeCached, AskMonth, MonthArrives, MonthFails, AnswerLeaves, LoadPage, AnswerPage, Take, Become, Goto
<1>5. CASE PageArrives(d) \/ PageFails(d)
  <2>1. PICK m, l : call' = [call EXCEPT ![d].loads[m] = l]
    BY <1>5 DEF PageArrives, PageFails
  <2> QED
    BY <1>0, <2>1
<1> QED
  BY <1>1, <1>2, <1>3, <1>4, <1>5 DEF Serve, ServeLeaves

\* Nothing but its own answer makes a reader of leaves "done".
LEMMA ReaderAnswers ==
  ASSUME SyncInv, [Next]_integrationVars, NEW c \in Calls, call'[c].pc = "done",
         At(c, "leaves") \/ At(c, "loading")
  PROVE  \/ At(c, "leaves") /\ call[c].month \notin Months
         \/ At(c, "loading") /\ \A m \in Months : Load(c, m).state = "done"
<1>0. DOMAIN call = Calls /\ call[c].pc \in {"leaves", "loading"} /\ \A d \in Calls : "pc" \in DOMAIN call[d]
  BY BusyStates DEF At, SyncInv, CallsFit
<1>1. call' # call
  BY <1>0
<1>2. ~Restart
  BY <1>0 DEF Restart, At
<1>3. ~Surroundings
  BY <1>1 DEF Surroundings, Outside, WorldChanges, IdentityChanges, requestVars
<1>4. ASSUME NEW d \in Calls, Begin(d) PROVE FALSE
  <2>1. d # c
    BY <1>0, <1>4 DEF Begin, BeginSyncing, BeginSync, WriteByHand, ShowProjects, BeginLeaves, BeginPage, At
  <2> QED
    BY <1>0, <1>4, <2>1, OneMoves
<1>5. ASSUME NEW d \in Calls, StatementFails(d) PROVE FALSE
  BY <1>0, <1>5 DEF StatementFails, Fail, Goto
<1>6. ASSUME NEW d \in Calls, Serve(d)
      PROVE  d = c /\ (AnswerLeaves(c) \/ AnswerPage(c))
  <2>1. \E s : call' = [call EXCEPT ![d] = s]
    BY <1>6, OneMoves
  <2>2. d = c
    BY <1>0, <2>1
  <2>3. ~ServeSync(c)
    BY <1>0 DEF ServeSync, Fetch, FetchFails, CheckPayload, Lookup, Save, SyncFails, MappingDone, At
  <2>4. ASSUME NEW days, NEW stale, Take(c, days, stale) PROVE FALSE
    BY <1>0, <2>4 DEF Take, Become
  <2>5. ~TakeCached(c) /\ ~MonthArrives(c) /\ ~MonthFails(c) /\ ~LoadPage(c)
    BY <1>0, <2>4 DEF TakeCached, MonthArrives, MonthFails, LoadPage, At
  <2>6. ~AskMonth(c)
    BY <1>0 DEF AskMonth, Become
  <2>7. ASSUME PageArrives(c) \/ PageFails(c) PROVE FALSE
    <3>1. PICK m, l : call' = [call EXCEPT ![c].loads[m] = l]
      BY <2>7 DEF PageArrives, PageFails
    <3>2. call'[c].pc = call[c].pc
      BY <1>0, <3>1
    <3> QED
      BY <1>0, <3>2
  <2> QED
    BY <1>6, <2>2, <2>3, <2>5, <2>6, <2>7 DEF Serve, ServeLeaves
<1>7. AnswerLeaves(c) \/ AnswerPage(c)
  BY <1>1, <1>2, <1>3, <1>4, <1>5, <1>6 DEF Next, integrationVars, requestVars
<1>8. ~Goto(c, "refused")
  BY <1>0 DEF Goto
<1> QED
  BY <1>7, <1>8 DEF AnswerLeaves, AnswerPage

\* An answer that is not marked as stale says of every month, person by person,
\* what TimeTracker said less than Ttl before the question, for every number of
\* requests, months and persons and every Ttl (getLeavesForEmployee,
\* getLeavesForEmployees).
THEOREM AnswersAreFresh == Spec => UnmarkedAnswersAreFresh
<1> DEFINE Answered ==
      \A c \in Calls : call'[c].pc = "done" =>
        /\ At(c, "leaves") /\ ~call[c].stale =>
             \A m \in Months : ReportedSince(m, call[c].person, call[c].days[m], call[c].since)
        /\ At(c, "loading") /\ ~PageIsStale(c) =>
             \A mp \in DOMAIN PageDays(c) : ReportedSince(mp[1], mp[2], PageDays(c)[mp], call[c].since)
<1>1. SyncInv /\ LeavesInv /\ [Next]_integrationVars => Answered
  <2> SUFFICES ASSUME SyncInv, LeavesInv, [Next]_integrationVars, NEW c \in Calls, call'[c].pc = "done"
               PROVE  /\ At(c, "leaves") /\ ~call[c].stale =>
                           \A m \in Months : ReportedSince(m, call[c].person, call[c].days[m], call[c].since)
                      /\ At(c, "loading") /\ ~PageIsStale(c) =>
                           \A mp \in DOMAIN PageDays(c) : ReportedSince(mp[1], mp[2], PageDays(c)[mp], call[c].since)
    OBVIOUS
  <2>1. ASSUME At(c, "leaves"), ~call[c].stale, NEW m \in Months
        PROVE  ReportedSince(m, call[c].person, call[c].days[m], call[c].since)
    <3>1. call[c].month \notin Months
      BY <2>1, ReaderAnswers DEF At
    <3> QED
      BY <2>1, <3>1, MonthsAnswered
  <2>2. ASSUME At(c, "loading"), ~PageIsStale(c), NEW mp \in DOMAIN PageDays(c)
        PROVE  ReportedSince(mp[1], mp[2], PageDays(c)[mp], call[c].since)
    <3>1. \A m \in Months : Load(c, m).state = "done"
      BY <2>2, ReaderAnswers DEF At
    <3> QED
      BY <2>2, <3>1, PageAnswered
  <2> QED
    BY <2>1, <2>2
<1>2. SyncInv /\ LeavesInv /\ [Next]_integrationVars => [Answered]_<<leaveVars, requestVars, outside>>
  BY <1>1
<1>3. Spec => []SyncInv /\ []LeavesInv
  BY SyncTheorem, CachesAreDated
<1>4. Spec => [][Answered]_<<leaveVars, requestVars, outside>>
  <2> HIDE DEF Answered
  <2> QED
    BY <1>2, <1>3, PTL DEF Spec
<1> QED
  BY <1>4 DEF UnmarkedAnswersAreFresh

-----------------------------------------------------------------------------
(* A synchronisation that nothing disturbs.                                *)

\* What the mapper works with is what holds now.
ExactData(reports, found) ==
  /\ \A m \in Months : reports[m] = world.report[m]
  /\ DOMAIN found \subseteq People /\ \A x \in DOMAIN found : found[x] = EmployeeOf(identity, x)

Exact(s) ==
  /\ s.pc = "fetching" => \A part \in DOMAIN s.got :
       s.got[part] = IF part = 0 THEN world.projects ELSE world.report[part]
  /\ s.pc = "mapping" => s.projects = world.projects /\ ExactData(s.reports, s.found)

\* A key of TimeTracker's names a project and a person.
KeysFit ==
  \A k \in DOMAIN assigned :
    k \in ManualRows \/ (k = <<k[1], k[2]>> /\ assigned[k].source \in {"none", "timetracker"})

\* The inductive invariant behind UndisturbedSyncIsExact.
SteadyInv ==
  /\ identity \in IdentityTables /\ KeysFit
  /\ \A c \in Calls : steady[c] => Exact(call[c])

LEMMA EntriesAgree ==
  ASSUME NEW reports, NEW others, \A m \in Months : reports[m] = others[m], NEW p
  PROVE  EntryOf(reports, p) = EntryOf(others, p)
<1> DEFINE named == {m \in Months : reports[m][p] # Nobody}
           IsFirst(m) == \A n \in named : m <= n
<1>1. named = {m \in Months : others[m][p] # Nobody}
  OBVIOUS
<1>2. CASE named = {}
  BY <1>1, <1>2 DEF EntryOf
<1>3. CASE named # {}
  <2>1. named \subseteq Nat
    BY IntegrationsAssumption DEF Months
  <2>2. \E m \in named : IsFirst(m)
    <3> HIDE DEF named
    <3> QED
      BY <1>3, <2>1, LeastNat
  <2>3. (CHOOSE m \in named : IsFirst(m)) \in named
    BY <2>2
  <2>4. EntryOf(reports, p) = reports[CHOOSE m \in named : IsFirst(m)][p]
    BY <1>3 DEF EntryOf
  <2>5. EntryOf(others, p) = others[CHOOSE m \in named : IsFirst(m)][p]
    BY <1>1, <1>3 DEF EntryOf
  <2> QED
    BY <2>3, <2>4, <2>5
<1> QED
  BY <1>2, <1>3

\* The person of an e-mail is whom nobody shares it with.
LEMMA PersonIsKnown ==
  ASSUME NEW reports, \A m \in Months : reports[m] = world.report[m], NEW email, NEW p \in People
  PROVE  PersonOf(reports, email) = p <=> Known(world, p, email)
<1>0. p # Nobody
  BY IntegrationsAssumption
<1>1. Holders(reports, email) = {q \in People : EntryOf(world.report, q) = email}
  BY EntriesAgree DEF Holders
<1>2. ASSUME Known(world, p, email)
      PROVE  PersonOf(reports, email) = p
  <2>1. Holders(reports, email) = {p}
    BY <1>1, <1>2 DEF Known
  <2>2. Cardinality(Holders(reports, email)) = 1
    BY <2>1, FS_Singleton
  <2> QED
    BY <2>1, <2>2 DEF PersonOf
<1>3. ASSUME PersonOf(reports, email) = p
      PROVE  Known(world, p, email)
  <2>1. Cardinality(Holders(reports, email)) = 1 /\ p \in Holders(reports, email)
    BY <1>0, <1>3, PersonHasEmail DEF PersonOf, Holders
  <2>2. IsFiniteSet(Holders(reports, email))
    <3>1. Holders(reports, email) \subseteq People /\ IsFiniteSet(People)
      BY IntegrationsAssumption DEF Holders
    <3> QED
      BY <3>1, FS_Subset
  <2>3. PICK x : Holders(reports, email) = {x}
    BY <2>1, <2>2, FS_Singleton
  <2> QED
    BY <1>1, <2>1, <2>3 DEF Known
<1> QED
  BY <1>2, <1>3

\* Who is resolved is the employee of an unambiguous e-mail.
LEMMA ResolvedIsEmployee ==
  ASSUME identity \in IdentityTables, NEW reports, NEW found, ExactData(reports, found), NEW email,
         ResolvedBy(reports, found, email) # Nobody
  PROVE  /\ EmployeeBy(world, email, ResolvedBy(reports, found, email))
         /\ ResolvedBy(reports, found, email) \in Employees
         /\ PersonOf(reports, email) \in People
         /\ Known(world, PersonOf(reports, email), email)
<1>1. PICK p : p = PersonOf(reports, email)
  OBVIOUS
<1>2. p \in DOMAIN found /\ ResolvedBy(reports, found, email) = found[p]
  BY <1>1 DEF ResolvedBy
<1>3. p \in People /\ found[p] = EmployeeOf(identity, p)
  BY <1>2 DEF ExactData
<1>4. Known(world, p, email)
  BY <1>1, <1>3, PersonIsKnown DEF ExactData
<1>5. EmployeeOf(identity, p) \in Employees \cup {Nobody}
  BY <1>3, IntegrationsAssumption DEF EmployeeOf
<1> QED
  BY <1>1, <1>2, <1>3, <1>4, <1>5 DEF EmployeeBy

\* And the other way round, once everybody has been looked up.
LEMMA EmployeeIsResolved ==
  ASSUME NEW reports, NEW found, ExactData(reports, found), NEW email, NEW e,
         EmployeeBy(world, email, e), PersonOf(reports, email) \in DOMAIN found \cup {Nobody}
  PROVE  /\ ResolvedBy(reports, found, email) = e /\ e # Nobody
         /\ Known(world, PersonOf(reports, email), email)
<1>1. PICK p \in People : Known(world, p, email) /\ EmployeeOf(identity, p) = e /\ e # Nobody
  BY DEF EmployeeBy
<1>2. PersonOf(reports, email) = p
  BY <1>1, PersonIsKnown DEF ExactData
<1>3. p \in DOMAIN found
  BY <1>2, IntegrationsAssumption
<1> QED
  BY <1>1, <1>2, <1>3 DEF ResolvedBy, ExactData

\* An assignment of the mapper's is one of TimeTracker's.
LEMMA MappedIsFed ==
  ASSUME identity \in IdentityTables, NEW reports, NEW found, ExactData(reports, found),
         NEW r \in Mapped(reports, found, world.projects), NEW row,
         row.employee = r.employee, row.pm = r.pm, row.dm = r.dm, row.period = r.period
  PROVE  Feeds(world, r.key) /\ FedBy(world, r.key, row)
<1>1. PICK x \in {y \in world.projects : ManagersKnown(reports, found, y)} :
        \E member \in {z \in x.members : ResolvedBy(reports, found, z[1]) # Nobody} :
          r = [key |-> <<x.id, PersonOf(reports, member[1])>>,
               employee |-> ResolvedBy(reports, found, member[1]),
               pm |-> ResolvedBy(reports, found, x.pm), dm |-> ResolvedBy(reports, found, x.dm),
               period |-> member[2]]
  BY DEF Mapped
<1>2. PICK member \in x.members :
        /\ ResolvedBy(reports, found, member[1]) # Nobody
        /\ r = [key |-> <<x.id, PersonOf(reports, member[1])>>,
                employee |-> ResolvedBy(reports, found, member[1]),
                pm |-> ResolvedBy(reports, found, x.pm), dm |-> ResolvedBy(reports, found, x.dm),
                period |-> member[2]]
  BY <1>1
<1>3. \A email \in {member[1], x.pm, x.dm} : ResolvedBy(reports, found, email) # Nobody
  BY <1>1, <1>2 DEF ManagersKnown
<1>4. \A email \in {member[1], x.pm, x.dm} :
        /\ EmployeeBy(world, email, ResolvedBy(reports, found, email))
        /\ ResolvedBy(reports, found, email) \in Employees
  BY <1>3, ResolvedIsEmployee
<1>5. Known(world, PersonOf(reports, member[1]), member[1])
  BY <1>3, ResolvedIsEmployee
<1>6. x \in world.projects
  BY <1>1
<1>7. /\ r.key[1] = x.id /\ r.key[2] = PersonOf(reports, member[1])
      /\ row.employee = ResolvedBy(reports, found, member[1])
      /\ row.pm = ResolvedBy(reports, found, x.pm) /\ row.dm = ResolvedBy(reports, found, x.dm)
      /\ row.period = member[2]
  BY <1>2
<1>8. Feeds(world, r.key)
  BY <1>4, <1>5, <1>6, <1>7 DEF Feeds
<1>9. FedBy(world, r.key, row)
  BY <1>4, <1>5, <1>6, <1>7 DEF FedBy
<1> QED
  BY <1>8, <1>9

\* None of TimeTracker's is left out when there is nobody to look up any more.
LEMMA FedIsMapped ==
  ASSUME NEW reports, NEW found, ExactData(reports, found), Wanted(reports, found, world.projects) = {},
         NEW k, k = <<k[1], k[2]>>, Feeds(world, k)
  PROVE  \E r \in Mapped(reports, found, world.projects) : r.key = k
<1>1. PICK x \in world.projects : \E member \in x.members :
        /\ k[1] = x.id /\ Known(world, k[2], member[1])
        /\ \A email \in {member[1], x.pm, x.dm} : \E e \in Employees : EmployeeBy(world, email, e)
  BY DEF Feeds
<1>2. PICK member \in x.members :
        /\ k[1] = x.id /\ Known(world, k[2], member[1])
        /\ \A email \in {member[1], x.pm, x.dm} : \E e \in Employees : EmployeeBy(world, email, e)
  BY <1>1
<1>3. \A email \in {x.pm, x.dm} : PersonOf(reports, email) \in DOMAIN found \cup {Nobody}
  BY DEF Wanted
<1>4. ManagersKnown(reports, found, x)
  BY <1>2, <1>3, EmployeeIsResolved DEF ManagersKnown
<1>5. PersonOf(reports, member[1]) \in DOMAIN found \cup {Nobody}
  <2>1. x \in {y \in world.projects : ManagersKnown(reports, found, y)}
    BY <1>4
  <2> DEFINE Emails(y) == {z[1] : z \in y.members}
             Open == {y \in world.projects : ManagersKnown(reports, found, y)}
             All == (UNION {{y.pm, y.dm} : y \in world.projects}) \cup (UNION {Emails(y) : y \in Open})
  <2>2. member[1] \in Emails(x)
    OBVIOUS
  <2>3. Wanted(reports, found, world.projects)
          = {PersonOf(reports, email) : email \in All} \ (DOMAIN found \cup {Nobody})
    BY DEF Wanted
  <2>4. x \in Open
    BY <2>1
  <2> HIDE DEF Emails, Open
  <2>5. Emails(x) \in {Emails(y) : y \in Open}
    BY <2>4
  <2>6. member[1] \in All
    BY <2>2, <2>5
  <2> HIDE DEF All
  <2> QED
    BY <2>3, <2>6
<1>6. ResolvedBy(reports, found, member[1]) # Nobody /\ Known(world, PersonOf(reports, member[1]), member[1])
  BY <1>2, <1>5, EmployeeIsResolved
<1>7. PersonOf(reports, member[1]) = k[2]
  <2>1. PICK e : EmployeeBy(world, member[1], e)
    BY <1>2
  <2>2. PICK p \in People : Known(world, p, member[1])
    BY <2>1 DEF EmployeeBy
  <2>3. p = k[2] /\ p = PersonOf(reports, member[1])
    BY <1>2, <1>6, <2>2 DEF Known
  <2> QED
    BY <2>3
<1>8. PICK r : r = [key |-> <<x.id, PersonOf(reports, member[1])>>,
                    employee |-> ResolvedBy(reports, found, member[1]),
                    pm |-> ResolvedBy(reports, found, x.pm), dm |-> ResolvedBy(reports, found, x.dm),
                    period |-> member[2]]
  OBVIOUS
<1>9. r \in Mapped(reports, found, world.projects)
  <2>1. x \in {y \in world.projects : ManagersKnown(reports, found, y)}
    BY <1>4
  <2>2. member \in {z \in x.members : ResolvedBy(reports, found, z[1]) # Nobody}
    BY <1>6
  <2> DEFINE Row(y, z) == [key |-> <<y.id, PersonOf(reports, z[1])>>,
                           employee |-> ResolvedBy(reports, found, z[1]),
                           pm |-> ResolvedBy(reports, found, y.pm), dm |-> ResolvedBy(reports, found, y.dm),
                           period |-> z[2]]
             Rows(y) == {Row(y, z) : z \in {v \in y.members : ResolvedBy(reports, found, v[1]) # Nobody}}
  <2>3. r = Row(x, member)
    BY <1>8
  <2>4. r \in Rows(x)
    <3> HIDE DEF Row
    <3> QED
      BY <2>2, <2>3
  <2>5. Mapped(reports, found, world.projects)
          = UNION {Rows(y) : y \in {y \in world.projects : ManagersKnown(reports, found, y)}}
    BY DEF Mapped
  <2> HIDE DEF Rows
  <2> QED
    BY <2>1, <2>4, <2>5
<1>10. r.key = k
  BY <1>2, <1>7, <1>8
<1> QED
  BY <1>9, <1>10

\* One request goes on; the other ones have been disturbed, or know what they knew.
LEMMA OthersStayExact ==
  ASSUME SyncInv, SteadyInv, UNCHANGED outside, NEW c \in Calls, NEW s, call' = [call EXCEPT ![c] = s],
         KeysFit', \A d \in Calls : steady'[d] => steady[d], steady[c] => Exact(s)
  PROVE  SteadyInv'
<1>1. DOMAIN call = Calls /\ call'[c] = s /\ \A d \in Calls \ {c} : call'[d] = call[d]
  BY DEF SyncInv, CallsFit
<1>2. UNCHANGED <<world, identity>>
  BY DEF outside
<1>3. ASSUME NEW d \in Calls, steady'[d]
      PROVE  Exact(call[d])'
  <2>1. PICK r : r = call'[d]
    OBVIOUS
  <2>2. steady[d] => Exact(r)
    BY <1>1, <2>1 DEF SteadyInv
  <2>3. Exact(r)
    BY <1>3, <2>2
  <2> QED
    BY <1>2, <2>1, <2>3 DEF Exact, ExactData, EmployeeOf
<1> QED
  BY <1>2, <1>3 DEF SteadyInv

LEMMA KeysStay ==
  ASSUME KeysFit, UNCHANGED assigned
  PROVE  KeysFit'
BY DEF KeysFit

\* A request that is no synchronisation is none after its step.
LEMMA OthersBeginNothing ==
  ASSUME SyncInv, SyncInv', SteadyInv, UNCHANGED outside, UNCHANGED running, NEW c \in Calls,
         call[c].pc \notin Busy, NEW s, call' = [call EXCEPT ![c] = s],
         KeysFit', \A d \in Calls : steady'[d] => steady[d]
  PROVE  SteadyInv'
<1>1. DOMAIN call = Calls /\ call'[c] = s /\ \A d \in Calls \ {c} : call'[d] = call[d]
  BY DEF SyncInv, CallsFit
<1>2. s.pc \notin Busy
  <2>1. (running <=> \E d \in Calls : call[d].pc \in Busy)
    BY DEF SyncInv, OneAtWork
  <2>2. (running' <=> \E d \in Calls : call'[d].pc \in Busy)
        /\ \A d, e \in Calls : call'[d].pc \in Busy /\ call'[e].pc \in Busy => d = e
    BY DEF SyncInv, OneAtWork
  <2> QED
    BY <1>1, <2>1, <2>2
<1>3. Exact(s)
  BY <1>2 DEF Exact, Busy
<1> QED
  BY <1>3, OthersStayExact

LEMMA FetchIsExact ==
  ASSUME SyncInv, SteadyInv, UNCHANGED outside, NEW c \in Calls, Fetch(c) \/ FetchFails(c)
  PROVE  SteadyInv'
<1>1. FetchFits(call[c]) /\ UNCHANGED <<steady, assigned>>
  BY BusyStates DEF Fetch, FetchFails, At, SyncInv, CallsFit, Reads, syncVars
<1>2. DOMAIN call = Calls /\ KeysFit'
  BY <1>1, KeysStay DEF SyncInv, CallsFit, SteadyInv
<1>3. CASE Fetch(c)
  <2>1. PICK part \in Awaited(c) : Got(c, part, IF part = 0 THEN world.projects ELSE world.report[part])
    BY <1>3 DEF Fetch
  <2>2. PICK answer : answer = IF part = 0 THEN world.projects ELSE world.report[part]
    OBVIOUS
  <2>3. PICK got : got = [x \in DOMAIN call[c].got \cup {part} |-> IF x = part THEN answer ELSE call[c].got[x]]
    OBVIOUS
  <2>4. DOMAIN got = DOMAIN call[c].got \cup {part} /\ got[part] = answer
        /\ \A x \in DOMAIN call[c].got \ {part} : got[x] = call[c].got[x]
    BY <2>3
  <2>5. PICK s : s = [call[c] EXCEPT !.got = got]
    OBVIOUS
  <2>6. call' = [call EXCEPT ![c] = s]
    BY <1>2, <2>1, <2>2, <2>3, <2>5 DEF Got
  <2>7. s.pc = "fetching" /\ s.got = got
    BY <1>1, <2>5 DEF FetchFits
  <2>8. steady[c] => Exact(call[c])
    BY DEF SteadyInv
  <2>9. steady[c] => Exact(s)
    BY <1>1, <2>2, <2>4, <2>7, <2>8 DEF Exact, FetchFits
  <2> QED
    BY <1>1, <1>2, <2>6, <2>9, OthersStayExact
<1>4. CASE FetchFails(c)
  <2>1. PICK part : call' = [call EXCEPT ![c].failed = @ \cup {part}]
    BY <1>4 DEF FetchFails
  <2>2. PICK s : s = [call[c] EXCEPT !.failed = @ \cup {part}]
    OBVIOUS
  <2>3. call' = [call EXCEPT ![c] = s]
    BY <1>2, <2>1, <2>2
  <2>4. s.pc = "fetching" /\ s.got = call[c].got
    BY <1>1, <2>2 DEF FetchFits
  <2>5. steady[c] => Exact(s)
    BY <1>1, <2>4 DEF Exact, FetchFits, SteadyInv
  <2> QED
    BY <1>1, <1>2, <2>3, <2>5, OthersStayExact
<1> QED
  BY <1>3, <1>4

\* The payload is complete.
LEMMA CheckIsExact ==
  ASSUME SyncInv, SteadyInv, UNCHANGED outside, NEW c \in Calls, CheckPayload(c),
         Become(c, [pc |-> "mapping", at |-> call[c].at, projects |-> call[c].got[0],
                    reports |-> [m \in Months |-> call[c].got[m]], found |-> << >>]),
         call[c].failed = {}, UNCHANGED syncVars
  PROVE  SteadyInv'
<1>1. FetchFits(call[c]) /\ UNCHANGED <<steady, assigned>> /\ Settled(c)
  BY BusyStates DEF CheckPayload, At, SyncInv, CallsFit, Reads, GiveUp, syncVars
<1>2. DOMAIN call = Calls /\ KeysFit'
  BY <1>1, KeysStay DEF SyncInv, CallsFit, SteadyInv
<1>3. Parts \subseteq DOMAIN call[c].got
  BY <1>1 DEF Settled, Awaited, Parts
<1>4. PICK s : s = [pc |-> "mapping", at |-> call[c].at, projects |-> call[c].got[0],
                    reports |-> [m \in Months |-> call[c].got[m]], found |-> << >>]
  OBVIOUS
<1>5. call' = [call EXCEPT ![c] = s]
  BY <1>4 DEF Become
<1>6. /\ s.pc = "mapping" /\ s.projects = call[c].got[0] /\ DOMAIN s.found = {}
      /\ \A m \in Months : s.reports[m] = call[c].got[m]
  BY <1>4
<1>7. \A m \in Months : m \in Parts /\ m # 0
  BY IntegrationsAssumption DEF Months, Parts
<1>8. 0 \in Parts
  BY DEF Parts
<1>9. steady[c] => Exact(s)
  BY <1>1, <1>3, <1>6, <1>7, <1>8 DEF SteadyInv, Exact, ExactData, FetchFits
<1> QED
  BY <1>1, <1>2, <1>5, <1>9, OthersStayExact

LEMMA LookupIsExact ==
  ASSUME SyncInv, SteadyInv, UNCHANGED outside, NEW c \in Calls, Lookup(c)
  PROVE  SteadyInv'
<1>1. MapFits(call[c]) /\ UNCHANGED <<steady, assigned>>
  BY BusyStates DEF Lookup, At, SyncInv, CallsFit, Reads, syncVars
<1>2. DOMAIN call = Calls /\ KeysFit'
  BY <1>1, KeysStay DEF SyncInv, CallsFit, SteadyInv
<1>3. PICK p \in Wanted(call[c].reports, call[c].found, call[c].projects) :
        call' = [call EXCEPT ![c].found = [x \in DOMAIN @ \cup {p} |->
                   IF x \in DOMAIN @ THEN @[x] ELSE EmployeeOf(identity, p)]]
  BY DEF Lookup
<1>4. PICK found : found = [x \in DOMAIN call[c].found \cup {p} |->
                   IF x \in DOMAIN call[c].found THEN call[c].found[x] ELSE EmployeeOf(identity, p)]
  OBVIOUS
<1>5. /\ DOMAIN found = DOMAIN call[c].found \cup {p}
      /\ \A x \in DOMAIN call[c].found : found[x] = call[c].found[x]
      /\ p \notin DOMAIN call[c].found => found[p] = EmployeeOf(identity, p)
  BY <1>4
<1>6. p \in People /\ p \notin DOMAIN call[c].found
  <2>1. p # Nobody /\ p \notin DOMAIN call[c].found
    BY DEF Wanted
  <2>2. PICK email : p = PersonOf(call[c].reports, email)
    BY DEF Wanted
  <2> QED
    BY <2>1, <2>2, PersonHasEmail
<1>7. PICK s : s = [call[c] EXCEPT !.found = found]
  OBVIOUS
<1>8. call' = [call EXCEPT ![c] = s]
  BY <1>2, <1>3, <1>4, <1>7
<1>9. s.pc = "mapping" /\ s.projects = call[c].projects /\ s.reports = call[c].reports /\ s.found = found
  BY <1>1, <1>7 DEF MapFits
<1>10. steady[c] => Exact(call[c])
  BY DEF SteadyInv
<1>11. steady[c] => Exact(s)
  BY <1>1, <1>5, <1>6, <1>9, <1>10 DEF Exact, ExactData, MapFits
<1> QED
  BY <1>1, <1>2, <1>8, <1>11, OthersStayExact

\* The end of a synchronisation, and the beginning.
LEMMA SyncEdgesAreExact ==
  ASSUME SyncInv, SteadyInv, UNCHANGED outside, NEW c \in Calls, BeginSync(c) \/ GiveUp(c)
  PROVE  SteadyInv'
<1>1. KeysFit' /\ UNCHANGED steady
  BY KeysStay DEF SteadyInv, BeginSync, GiveUp, Reads
<1>2. CASE Become(c, [pc |-> "refused"])
  <2>1. PICK s : s = [pc |-> "refused"]
    OBVIOUS
  <2>2. Exact(s) /\ call' = [call EXCEPT ![c] = s]
    BY <1>2, <2>1 DEF Exact, Become
  <2> QED
    BY <1>1, <2>2, OthersStayExact
<1>3. CASE Become(c, [pc |-> "fetching", at |-> now, got |-> << >>, failed |-> {}])
  <2>1. PICK s : s = [pc |-> "fetching", at |-> now, got |-> << >>, failed |-> {}]
    OBVIOUS
  <2>2. s.pc = "fetching" /\ DOMAIN s.got = {}
    BY <2>1
  <2>3. Exact(s) /\ call' = [call EXCEPT ![c] = s]
    BY <1>3, <2>1, <2>2 DEF Exact, Become
  <2> QED
    BY <1>1, <2>3, OthersStayExact
<1> QED
  BY <1>2, <1>3 DEF BeginSync, GiveUp

LEMMA SaveIsExact ==
  ASSUME SyncInv, SteadyInv, UNCHANGED outside, NEW c \in Calls, Save(c)
  PROVE  SteadyInv'
<1>1. MapFits(call[c]) /\ DOMAIN call = Calls
  BY BusyStates DEF Save, MappingDone, At, SyncInv, CallsFit
<1>2. PICK s : s = [call[c] EXCEPT !.pc = "done"]
  OBVIOUS
<1>3. call' = [call EXCEPT ![c] = s] /\ s.pc = "done"
  BY <1>1, <1>2 DEF Save, Goto, MapFits
<1>4. Exact(s)
  BY <1>3 DEF Exact
<1>5. \A d \in Calls : steady'[d] => steady[d]
  BY DEF Save, Commits
<1>6. KeysFit'
  <2>1. PICK at, rows : at = call[c].at /\ rows = Mapping(c)
    OBVIOUS
  <2>2. assigned' = DeconfirmMissing(Confirm(rows, at), rows)
    BY <2>1 DEF Save
  <2>3. DOMAIN assigned' = DOMAIN assigned
    BY <2>2 DEF DeconfirmMissing, Confirm
  <2>4. ASSUME NEW k \in DOMAIN assigned, k \notin ManualRows
        PROVE  k = <<k[1], k[2]>> /\ assigned'[k].source \in {"none", "timetracker"}
    <3>0. PICK new : new = assigned'
      OBVIOUS
    <3>1. k = <<k[1], k[2]>> /\ assigned[k].source \in {"none", "timetracker"}
      BY <2>4 DEF SteadyInv, KeysFit
    <3>2. CASE \E r \in rows : /\ r.key = k
                               /\ new[k] = [source |-> "timetracker", employee |-> r.employee, pm |-> r.pm,
                                           dm |-> r.dm, period |-> r.period, confirmed |-> TRUE, at |-> at]
      BY <3>0, <3>1, <3>2
    <3>3. CASE new[k] = IF assigned[k].source = "timetracker"
                        THEN [assigned[k] EXCEPT !.confirmed = FALSE] ELSE assigned[k]
      <4>1. assigned[k].source = "timetracker" => "source" \in DOMAIN assigned[k]
        BY DEF SyncInv, RowsFit, NoRow, RowFields
      <4>2. new[k].source = assigned[k].source
        BY <3>3, <4>1
      <4> QED
        BY <3>0, <3>1, <4>2
    <3>4. SavedAs(rows, at, k, new[k])
      BY <2>2, <3>0, SavedRow
    <3> QED
      BY <3>2, <3>3, <3>4 DEF SavedAs
  <2> QED
    BY <2>2, <2>3, <2>4 DEF KeysFit
<1> QED
  BY <1>3, <1>4, <1>5, <1>6, OthersStayExact

\* A new world or other identities disturb whoever is at work.
LEMMA SurroundingsAreExact ==
  ASSUME SyncInv, SteadyInv, Surroundings
  PROVE  SteadyInv'
<1>1. KeysFit' /\ UNCHANGED call
  BY KeysStay DEF SteadyInv, Surroundings, syncVars, Outside, WorldChanges, IdentityChanges, requestVars
<1>2. CASE Disturb /\ identity' \in IdentityTables
  <2>1. ASSUME NEW d \in Calls, steady'[d]
        PROVE  Exact(call[d])'
    <3>1. call[d].pc \in {"idle"} \cup Answers
      BY <1>2, <2>1 DEF Disturb, Waiting
    <3> QED
      BY <1>1, <3>1 DEF Exact, Answers
  <2> QED
    BY <1>1, <1>2, <2>1 DEF SteadyInv
<1>3. CASE UNCHANGED <<world, identity, steady>>
  BY <1>1, <1>3 DEF SteadyInv, Exact, ExactData, EmployeeOf
<1> QED
  BY <1>2, <1>3 DEF Surroundings, Outside, WorldChanges, IdentityChanges, Tick, requestVars, SteadyInv

LEMMA RestartIsExact ==
  ASSUME SyncInv, SteadyInv, Restart
  PROVE  SteadyInv'
<1>1. KeysFit' /\ UNCHANGED <<steady, identity>>
  BY KeysStay DEF SteadyInv, Restart, outside
<1>2. \A d \in Calls : call'[d] = [pc |-> "idle"] \/ call'[d] = [pc |-> "refused"]
  BY DEF Restart, NotAsked
<1>3. \A d \in Calls : Exact(call[d])'
  BY <1>2 DEF Exact
<1> QED
  BY <1>1, <1>3 DEF SteadyInv

LEMMA SteadyStart == Init => SteadyInv
<1> SUFFICES ASSUME Init PROVE SteadyInv
  OBVIOUS
<1>1. identity \in IdentityTables /\ assigned \in StoredAssignments
  BY DEF Init, WorldInit, SyncInit
<1>2. KeysFit
  BY <1>1, IntegrationsAssumption DEF KeysFit
<1>3. \A d \in Calls : call[d] = [pc |-> "idle"]
  BY DEF Init, RequestsInit, NotAsked
<1>4. \A d \in Calls : Exact(call[d])
  BY <1>3 DEF Exact
<1> QED
  BY <1>1, <1>2, <1>4 DEF SteadyInv

LEMMA WritingIsExact ==
  ASSUME SyncInv, SyncInv', SteadyInv, UNCHANGED outside, NEW c \in Calls, WriteByHand(c)
  PROVE  SteadyInv'
<1>1. PICK k \in ManualRows : \E row : assigned' = [assigned EXCEPT ![k] = row]
  BY DEF WriteByHand
<1>2. KeysFit'
  BY <1>1 DEF SteadyInv, KeysFit
<1>3. call[c].pc \notin Busy /\ UNCHANGED running /\ \A d \in Calls : steady'[d] => steady[d]
  BY DEF WriteByHand, At, Busy, Commits
<1>4. PICK s : s = [pc |-> "done"]
  OBVIOUS
<1>5. call' = [call EXCEPT ![c] = s]
  BY <1>4 DEF WriteByHand, Become
<1> QED
  BY <1>2, <1>3, <1>5, OthersBeginNothing

LEMMA SteadyStep == SyncInv /\ SyncInv' /\ SteadyInv /\ [Next]_integrationVars => SteadyInv'
<1> SUFFICES ASSUME SyncInv, SyncInv', SteadyInv, [Next]_integrationVars PROVE SteadyInv'
  OBVIOUS
<1>1. ASSUME NEW c \in Calls, Begin(c) \/ Serve(c) \/ StatementFails(c), call[c].pc \notin Busy,
             UNCHANGED <<running, assigned, steady, outside>>
      PROVE  SteadyInv'
  <2>1. PICK s : call' = [call EXCEPT ![c] = s]
    BY <1>1, OneMoves
  <2>2. KeysFit'
    BY <1>1, KeysStay DEF SteadyInv
  <2> QED
    BY <1>1, <2>1, <2>2, OthersBeginNothing
<1>2. ASSUME NEW c \in Calls, Begin(c)
      PROVE  SteadyInv'
  <2>1. UNCHANGED outside
    BY <1>2 DEF Begin
  <2>2. CASE BeginSync(c)
    BY <2>1, <2>2, SyncEdgesAreExact
  <2>3. CASE WriteByHand(c)
    BY <2>1, <2>3, WritingIsExact
  <2>4. CASE ShowProjects(c) \/ ((BeginLeaves(c) \/ BeginPage(c)) /\ UNCHANGED syncVars)
    <3>1. call[c].pc \notin Busy /\ UNCHANGED <<running, assigned, steady>>
      BY <2>4 DEF ShowProjects, BeginLeaves, BeginPage, At, Busy, Reads, syncVars
    <3> QED
      BY <1>1, <1>2, <2>1, <3>1
  <2> QED
    BY <1>2, <2>2, <2>3, <2>4 DEF Begin, BeginSyncing
<1>3. ASSUME NEW c \in Calls, Serve(c)
      PROVE  SteadyInv'
  <2>1. UNCHANGED outside
    BY <1>3 DEF Serve
  <2>2. CASE ServeLeaves(c) /\ UNCHANGED syncVars
    <3>1. "pc" \in DOMAIN call[c] /\ StateFits(call[c])
      BY BusyStates DEF SyncInv, CallsFit
    <3>2. \A m : Loading(c, m) => call[c].pc \notin Busy
      BY <3>1 DEF StateFits, FetchFits, MapFits, Other, Loading
    <3>3. call[c].pc \notin Busy
      BY <2>2, <3>2 DEF ServeLeaves, TakeCached, AskMonth, MonthArrives, MonthFails, AnswerLeaves,
         LoadPage, PageArrives, PageFails, AnswerPage, At, Busy
    <3>4. UNCHANGED <<running, assigned, steady>>
      BY <2>2 DEF ServeLeaves, TakeCached, AskMonth, MonthArrives, MonthFails, AnswerLeaves,
         LoadPage, PageArrives, PageFails, AnswerPage, Reads, syncVars
    <3> QED
      BY <1>1, <1>3, <2>1, <3>3, <3>4
  <2>3. CASE Fetch(c) \/ FetchFails(c) \/ Lookup(c) \/ Save(c)
    BY <2>1, <2>3, FetchIsExact, LookupIsExact, SaveIsExact
  <2>4. CASE CheckPayload(c)
    <3>1. CASE GiveUp(c)
      BY <2>1, <3>1, SyncEdgesAreExact
    <3>2. CASE ~GiveUp(c)
      <4>1. /\ call[c].failed = {} /\ UNCHANGED syncVars
            /\ Become(c, [pc |-> "mapping", at |-> call[c].at, projects |-> call[c].got[0],
                          reports |-> [m \in Months |-> call[c].got[m]], found |-> << >>])
        BY <2>4, <3>2 DEF CheckPayload
      <4> QED
        BY <2>1, <2>4, <4>1, CheckIsExact
    <3> QED
      BY <3>1, <3>2
  <2>5. CASE SyncFails(c)
    BY <2>1, <2>5, SyncEdgesAreExact DEF SyncFails
  <2> QED
    BY <1>3, <2>2, <2>3, <2>4, <2>5 DEF Serve, ServeSync
<1>4. ASSUME NEW c \in Calls, StatementFails(c)
      PROVE  SteadyInv'
  <2>1. call[c].pc \notin Busy /\ UNCHANGED <<running, assigned, steady, outside>>
    BY <1>4 DEF StatementFails, Fail, Busy, Reads, syncVars
  <2> QED
    BY <1>1, <1>4, <2>1
<1>5. CASE Restart
  BY <1>5, RestartIsExact
<1>6. CASE Surroundings
  BY <1>6, SurroundingsAreExact
<1>7. CASE UNCHANGED integrationVars
  BY <1>7 DEF integrationVars, syncVars, outside, requestVars, SteadyInv, KeysFit, Exact, ExactData, EmployeeOf
<1> QED
  BY <1>2, <1>3, <1>4, <1>5, <1>6, <1>7 DEF Next

\* Nothing but its transaction makes a synchronisation "done".
LEMMA MapperAnswers ==
  ASSUME SyncInv, [Next]_integrationVars, NEW c \in Calls, call'[c].pc = "done", At(c, "mapping")
  PROVE  Save(c)
<1>0. /\ DOMAIN call = Calls /\ call[c].pc = "mapping" /\ MapFits(call[c])
  BY BusyStates DEF At, SyncInv, CallsFit
<1>1. call' # call
  BY <1>0
<1>2. ~Restart
  BY <1>0 DEF Restart, At
<1>3. ~Surroundings
  BY <1>1 DEF Surroundings, Outside, WorldChanges, IdentityChanges, requestVars
<1>4. ASSUME NEW d \in Calls, Begin(d) PROVE FALSE
  <2>1. d # c
    BY <1>0, <1>4 DEF Begin, BeginSyncing, BeginSync, WriteByHand, ShowProjects, BeginLeaves, BeginPage, At
  <2> QED
    BY <1>0, <1>4, <2>1, OneMoves
<1>5. ASSUME NEW d \in Calls, StatementFails(d) PROVE FALSE
  BY <1>0, <1>5 DEF StatementFails, Fail, Goto
<1>6. ASSUME NEW d \in Calls, Serve(d)
      PROVE  d = c /\ Save(c)
  <2>1. \E s : call' = [call EXCEPT ![d] = s]
    BY <1>6, OneMoves
  <2>2. d = c
    BY <1>0, <2>1
  <2>3. ~ServeLeaves(c)
    <3>1. \A m : ~Loading(c, m)
      BY <1>0 DEF MapFits, Loading
    <3> QED
      BY <1>0, <3>1 DEF ServeLeaves, TakeCached, AskMonth, MonthArrives, MonthFails, AnswerLeaves,
         LoadPage, PageArrives, PageFails, AnswerPage, At
  <2>4. ~Fetch(c) /\ ~FetchFails(c) /\ ~CheckPayload(c)
    BY <1>0 DEF Fetch, FetchFails, CheckPayload, At
  <2>5. ~SyncFails(c)
    BY <1>0 DEF SyncFails, GiveUp, Become
  <2>6. ASSUME Lookup(c) PROVE FALSE
    <3>1. PICK found : call' = [call EXCEPT ![c].found = found]
      BY <2>6 DEF Lookup
    <3>2. call'[c].pc = call[c].pc
      BY <1>0, <3>1
    <3> QED
      BY <1>0, <3>2
  <2> QED
    BY <1>6, <2>2, <2>3, <2>4, <2>5, <2>6 DEF Serve, ServeSync
<1> QED
  BY <1>1, <1>2, <1>3, <1>4, <1>5, <1>6 DEF Next, integrationVars, requestVars

\* What the transaction of an undisturbed synchronisation leaves.
LEMMA SavedIsFed ==
  ASSUME SyncInv, SteadyInv, NEW c \in Calls, Save(c), steady[c], NEW k \in DOMAIN assigned
  PROVE  IF k \in ManualRows THEN assigned'[k] = assigned[k]
         ELSE LET row == assigned'[k]
                  confirmed == row.source # "none" /\ row.confirmed
              IN (confirmed <=> Feeds(world, k)) /\ (confirmed => FedBy(world, k, row))
<1>1. PICK at, rows : at = call[c].at /\ rows = Mapping(c)
  OBVIOUS
<1>2. assigned' = DeconfirmMissing(Confirm(rows, at), rows)
  BY <1>1 DEF Save
<1>3. PICK new : new = assigned'[k]
  OBVIOUS
<1>4. SavedAs(rows, at, k, new)
  BY <1>2, <1>3, SavedRow
<1>5. MapFits(call[c]) /\ call[c].pc = "mapping"
  BY BusyStates DEF Save, MappingDone, At, SyncInv, CallsFit
<1>6. PICK reports, found : reports = call[c].reports /\ found = call[c].found
  OBVIOUS
<1>7. call[c].projects = world.projects /\ ExactData(reports, found) /\ identity \in IdentityTables
  BY <1>5, <1>6 DEF SteadyInv, Exact
<1>8. rows = Mapped(reports, found, world.projects) /\ Wanted(reports, found, world.projects) = {}
  BY <1>1, <1>6, <1>7 DEF Mapping, Save, MappingDone
<1>9. \A r \in rows : r.key \notin ManualRows
  <2>1. call[c].at \in Nat /\ ProjectsSaid(call[c].at, world.projects)
        /\ (\A m \in Months : ReportSaid(call[c].at, m, reports[m])) /\ Nobody \notin DOMAIN found
    BY <1>5, <1>6, <1>7 DEF MapFits
  <2> QED
    BY <1>8, <2>1, MappedFits
<1>10. CASE k \in ManualRows
  <2>1. assigned[k].source # "timetracker"
    BY <1>10 DEF SyncInv, RowsFit
  <2> QED
    BY <1>3, <1>4, <1>9, <1>10, <2>1 DEF SavedAs
<1>11. CASE k \notin ManualRows
  <2>1. k = <<k[1], k[2]>> /\ assigned[k].source \in {"none", "timetracker"}
    BY <1>11 DEF SteadyInv, KeysFit
  <2>2. CASE \E r \in rows : /\ r.key = k
                             /\ new = [source |-> "timetracker", employee |-> r.employee, pm |-> r.pm,
                                       dm |-> r.dm, period |-> r.period, confirmed |-> TRUE, at |-> at]
    <3>1. PICK r \in rows : /\ r.key = k
                           /\ new = [source |-> "timetracker", employee |-> r.employee, pm |-> r.pm,
                                     dm |-> r.dm, period |-> r.period, confirmed |-> TRUE, at |-> at]
      BY <2>2
    <3>2. /\ new.employee = r.employee /\ new.pm = r.pm /\ new.dm = r.dm /\ new.period = r.period
          /\ new.source # "none" /\ new.confirmed
      BY <3>1
    <3>3. Feeds(world, r.key) /\ FedBy(world, r.key, new)
      BY <1>7, <1>8, <3>2, MappedIsFed
    <3> QED
      BY <1>3, <1>11, <3>1, <3>2, <3>3
  <2>3. CASE /\ \A r \in rows : r.key # k
             /\ new = IF assigned[k].source = "timetracker"
                      THEN [assigned[k] EXCEPT !.confirmed = FALSE] ELSE assigned[k]
    <3>1. ~(new.source # "none" /\ new.confirmed)
      <4>1. CASE assigned[k].source = "timetracker"
        <5>1. "confirmed" \in DOMAIN assigned[k]
          BY <4>1 DEF SyncInv, RowsFit, NoRow, RowFields
        <5>2. new.confirmed = FALSE
          BY <2>3, <4>1, <5>1
        <5> QED
          BY <5>2
      <4>2. CASE assigned[k].source = "none"
        BY <2>3, <4>2
      <4> QED
        BY <2>1, <4>1, <4>2
    <3>2. ~Feeds(world, k)
      BY <1>7, <1>8, <2>1, <2>3, FedIsMapped
    <3> QED
      BY <1>3, <1>11, <3>1, <3>2
  <2> QED
    BY <1>4, <2>2, <2>3 DEF SavedAs
<1> QED
  BY <1>10, <1>11

\* A synchronisation that nothing disturbs confirms an assignment exactly if
\* TimeTracker has it, with the employees of its e-mails, and leaves alone what
\* was written by hand, for every feed, directory and table of identities (sync,
\* ProjectAssignmentMapper.map).
THEOREM SyncsAreExact == Spec => UndisturbedSyncIsExact
<1> DEFINE Synchronised ==
      \A c \in Calls : At(c, "mapping") /\ steady[c] /\ call'[c].pc = "done" =>
        \A k \in DOMAIN assigned :
          IF k \in ManualRows THEN assigned'[k] = assigned[k]
          ELSE LET row == assigned'[k]
                   confirmed == row.source # "none" /\ row.confirmed
               IN (confirmed <=> Feeds(world, k)) /\ (confirmed => FedBy(world, k, row))
<1>1. SyncInv /\ SteadyInv /\ [Next]_integrationVars => Synchronised
  <2> SUFFICES ASSUME SyncInv, SteadyInv, [Next]_integrationVars,
                      NEW c \in Calls, At(c, "mapping"), steady[c], call'[c].pc = "done",
                      NEW k \in DOMAIN assigned
               PROVE  IF k \in ManualRows THEN assigned'[k] = assigned[k]
                      ELSE LET row == assigned'[k]
                               confirmed == row.source # "none" /\ row.confirmed
                           IN (confirmed <=> Feeds(world, k)) /\ (confirmed => FedBy(world, k, row))
    OBVIOUS
  <2>1. Save(c)
    BY MapperAnswers
  <2> QED
    BY <2>1, SavedIsFed
<1> HIDE DEF Synchronised
<1>2. Init => SteadyInv
  BY SteadyStart
<1>3. SyncInv /\ SyncInv' /\ SteadyInv /\ [Next]_integrationVars => SteadyInv'
  BY SteadyStep
<1>4. SyncInv /\ SteadyInv /\ [Next]_integrationVars => [Synchronised]_<<syncVars, requestVars, outside>>
  BY <1>1
<1>5. Spec => [][Synchronised]_<<syncVars, requestVars, outside>>
  BY <1>2, <1>3, <1>4, SyncTheorem, PTL DEF Spec
<1> QED
  BY <1>5 DEF UndisturbedSyncIsExact, Synchronised

-----------------------------------------------------------------------------
(* The periods of a list of days.                                          *)

Period == [from : 1..LastDate, to : 1..LastDate, kind : LeaveKinds]
DayAt(days, d) == [from |-> d, to |-> d, kind |-> days[d]]
DayTables == [1..LastDate -> LeaveKinds \cup {NoLeave}]

\* The loop over the first n dates.
IsLoop(days, upTo, n) ==
  upTo = [d \in 0..n |-> IF d = 0 THEN << >>
                         ELSE IF d \in LeaveDays(days) THEN Extend(upTo[d - 1], DayAt(days, d))
                              ELSE upTo[d - 1]]

\* The longest runs within the first d dates.
RunsUpTo(days, d) ==
  {r \in Period :
     /\ r.from <= r.to /\ r.to <= d /\ \A x \in r.from..r.to : days[x] = r.kind
     /\ r.from - 1 \in LeaveDays(days) => days[r.from - 1] # r.kind
     /\ r.to # d /\ r.to + 1 \in LeaveDays(days) => days[r.to + 1] # r.kind}

\* The periods so far are those runs, in order; the last one is that of a leave
\* day just seen.
GroupedUpTo(days, d, periods) ==
  /\ periods \in Seq(Period)
  /\ \A i \in 1..Len(periods) : periods[i] \in RunsUpTo(days, d)
  /\ \A r \in RunsUpTo(days, d) : \E i \in 1..Len(periods) : periods[i] = r
  /\ \A i, j \in 1..Len(periods) : i < j => periods[i].to < periods[j].from
  /\ d \in LeaveDays(days) =>
       periods # << >> /\ periods[Len(periods)].to = d /\ periods[Len(periods)].kind = days[d]

\* What holds of 0, and of n + 1 if it does of n, holds of every number.
LEMMA NatByNat ==
  ASSUME NEW S, S \subseteq Nat, 0 \in S, \A n \in S : n + 1 \in S
  PROVE  \A n \in Nat : n \in S
<1> SUFFICES ASSUME Nat \ S # {}
             PROVE  FALSE
  OBVIOUS
<1>1. PICK m \in Nat \ S : \A n \in Nat \ S : m <= n
  <2>1. Nat \ S \subseteq Nat
    OBVIOUS
  <2> QED
    BY <2>1, LeastNat
<1>2. m - 1 \in Nat /\ m - 1 \in S
  BY <1>1
<1> QED
  BY <1>1, <1>2

LEMMA LoopRuns ==
  ASSUME NEW days, NEW n \in Nat
  PROVE  \E upTo : IsLoop(days, upTo, n)
<1> DEFINE S == {k \in Nat : \E upTo : IsLoop(days, upTo, k)}
<1>1. 0 \in S
  <2>1. IsLoop(days, [d \in 0..0 |-> << >>], 0)
    BY DEF IsLoop
  <2> QED
    BY <2>1
<1>2. ASSUME NEW k \in S
      PROVE  k + 1 \in S
  <2>1. PICK upTo : IsLoop(days, upTo, k)
    BY <1>2
  <2> DEFINE next == IF k + 1 \in LeaveDays(days) THEN Extend(upTo[k], DayAt(days, k + 1)) ELSE upTo[k]
  <2>2. PICK longer : longer = [d \in 0..(k + 1) |-> IF d = k + 1 THEN next ELSE upTo[d]]
    OBVIOUS
  <2>3. ASSUME NEW d \in 0..(k + 1)
        PROVE  longer[d] = IF d = 0 THEN << >>
                           ELSE IF d \in LeaveDays(days) THEN Extend(longer[d - 1], DayAt(days, d))
                                ELSE longer[d - 1]
    <3>1. CASE d = k + 1
      <4>1. longer[d] = next /\ longer[d - 1] = upTo[k] /\ d # 0
        BY <2>2, <3>1
      <4> QED
        BY <3>1, <4>1
    <3>2. CASE d \in 0..k
      <4>1. longer[d] = upTo[d] /\ (d # 0 => longer[d - 1] = upTo[d - 1])
        BY <2>2, <3>2
      <4>2. upTo[d] = IF d = 0 THEN << >>
                      ELSE IF d \in LeaveDays(days) THEN Extend(upTo[d - 1], DayAt(days, d))
                           ELSE upTo[d - 1]
        BY <2>1, <3>2 DEF IsLoop
      <4> QED
        BY <4>1, <4>2
    <3> QED
      BY <3>1, <3>2
  <2>4. IsLoop(days, longer, k + 1)
    BY <2>2, <2>3 DEF IsLoop
  <2> QED
    BY <2>4
<1>3. n \in S
  BY <1>1, <1>2, NatByNat
<1> QED
  BY <1>3

LEMMA GroupsByLoop ==
  ASSUME NEW days
  PROVE  \E upTo : IsLoop(days, upTo, LastDate) /\ GroupLeavePeriods(days) = upTo[LastDate]
<1> DEFINE loop == CHOOSE upTo : IsLoop(days, upTo, LastDate)
<1>1. IsLoop(days, loop, LastDate)
  BY LoopRuns, LeavePeriodsAssumption
<1>2. GroupLeavePeriods(days) = loop[LastDate]
  BY DEF GroupLeavePeriods, IsLoop, DayAt
<1> QED
  BY <1>1, <1>2

\* A day that is no leave ends the run before it.
LEMMA NoLeaveKeepsGroups ==
  ASSUME NEW days \in DayTables, NEW d \in Nat, d + 1 <= LastDate, NEW periods,
         GroupedUpTo(days, d, periods), d + 1 \notin LeaveDays(days)
  PROVE  GroupedUpTo(days, d + 1, periods)
<1>1. days[d + 1] = NoLeave
  BY LeavePeriodsAssumption DEF LeaveDays
<1>2. RunsUpTo(days, d + 1) = RunsUpTo(days, d)
  <2>1. ASSUME NEW r \in RunsUpTo(days, d)
        PROVE  r \in RunsUpTo(days, d + 1)
    <3>1. r.to # d + 1 /\ r.to <= d + 1
      BY LeavePeriodsAssumption DEF RunsUpTo, Period
    <3>2. r.to + 1 \in LeaveDays(days) => days[r.to + 1] # r.kind
      BY LeavePeriodsAssumption DEF RunsUpTo, Period
    <3> QED
      BY <3>1, <3>2 DEF RunsUpTo
  <2>2. ASSUME NEW r \in RunsUpTo(days, d + 1)
        PROVE  r \in RunsUpTo(days, d)
    <3>1. r.to \in Nat /\ r.from \in Nat /\ r.from <= r.to /\ r.to <= d + 1 /\ r.kind \in LeaveKinds
      BY LeavePeriodsAssumption DEF RunsUpTo, Period
    <3>2. days[r.to] = r.kind
      BY <3>1 DEF RunsUpTo
    <3>3. r.to # d + 1
      BY <1>1, <3>1, <3>2, LeavePeriodsAssumption
    <3> QED
      BY <3>1, <3>3 DEF RunsUpTo
  <2> QED
    BY <2>1, <2>2
<1> QED
  BY <1>2 DEF GroupedUpTo

\* A leave day that continues the period before it.
LEMMA LongerPeriod ==
  ASSUME NEW days \in DayTables, NEW d \in Nat, d + 1 <= LastDate, NEW periods,
         GroupedUpTo(days, d, periods), d + 1 \in LeaveDays(days), periods # << >>,
         periods[Len(periods)].to = d, periods[Len(periods)].kind = days[d + 1]
  PROVE  GroupedUpTo(days, d + 1, [periods EXCEPT ![Len(periods)].to = d + 1])
<1>1. PICK n : n = Len(periods)
  OBVIOUS
<1>2. PICK last : last = periods[n]
  OBVIOUS
<1>3. PICK longer : longer = [last EXCEPT !.to = d + 1]
  OBVIOUS
<1>4. n \in Nat \ {0} /\ last \in RunsUpTo(days, d) /\ last \in Period
  BY <1>1, <1>2, EmptySeq DEF GroupedUpTo, RunsUpTo
<1>5. /\ last.from \in 1..LastDate /\ last.from <= d /\ last.to = d /\ last.kind = days[d + 1]
      /\ last.kind \in LeaveKinds
  BY <1>1, <1>2, <1>4, LeavePeriodsAssumption DEF RunsUpTo, Period
<1>6. /\ longer \in Period /\ longer.from = last.from /\ longer.to = d + 1 /\ longer.kind = last.kind
  BY <1>3, <1>4, <1>5, LeavePeriodsAssumption DEF Period
<1>7. PICK after : after = [periods EXCEPT ![n] = longer]
  OBVIOUS
<1>8. /\ after \in Seq(Period) /\ Len(after) = n
      /\ \A i \in 1..n : after[i] = IF i = n THEN longer ELSE periods[i]
  BY <1>1, <1>4, <1>6, <1>7, ExceptSeq DEF GroupedUpTo
<1>9. longer \in RunsUpTo(days, d + 1)
  <2>1. \A x \in last.from..(d + 1) : days[x] = last.kind
    <3>1. \A x \in last.from..d : days[x] = last.kind
      BY <1>4, <1>5 DEF RunsUpTo
    <3> QED
      BY <1>5, <3>1
  <2>2. last.from - 1 \in LeaveDays(days) => days[last.from - 1] # last.kind
    BY <1>4 DEF RunsUpTo
  <2>3. longer.from <= longer.to /\ longer.to <= d + 1
    BY <1>5, <1>6
  <2> QED
    BY <1>6, <2>1, <2>2, <2>3 DEF RunsUpTo
<1>10. ASSUME NEW i \in 1..n, i # n
       PROVE  periods[i] \in RunsUpTo(days, d + 1)
  <2>1. periods[i] \in RunsUpTo(days, d) /\ periods[i].to < last.from
    BY <1>1, <1>2, <1>4, <1>10 DEF GroupedUpTo
  <2>2. periods[i].to \in Nat /\ periods[i].to < d
    BY <1>5, <2>1, LeavePeriodsAssumption DEF RunsUpTo, Period
  <2> QED
    BY <2>1, <2>2 DEF RunsUpTo
<1>11. ASSUME NEW r \in RunsUpTo(days, d + 1)
       PROVE  \E i \in 1..n : after[i] = r
  <2>1. /\ r.to \in Nat /\ r.from \in Nat \ {0} /\ r.from <= r.to /\ r.to <= d + 1 /\ r.to \in 1..LastDate
        /\ r.from \in 1..LastDate /\ r \in Period
        /\ \A x \in r.from..r.to : days[x] = r.kind
        /\ r.from - 1 \in LeaveDays(days) => days[r.from - 1] # r.kind
    BY LeavePeriodsAssumption DEF RunsUpTo, Period
  <2>2. CASE r.to = d + 1
    <3>1. r.kind = last.kind
      BY <1>5, <2>1, <2>2
    <3>2. \A x \in last.from..d : days[x] = last.kind /\ x \in LeaveDays(days)
      <4>1. \A x \in last.from..d : days[x] = last.kind /\ x \in 1..LastDate
        BY <1>4, <1>5, LeavePeriodsAssumption DEF RunsUpTo
      <4> QED
        BY <1>5, <4>1, LeavePeriodsAssumption DEF LeaveDays
    <3>3. ~(last.from < r.from)
      <4>1. SUFFICES ASSUME last.from < r.from
                     PROVE  FALSE
        OBVIOUS
      <4>2. r.from - 1 \in last.from..d
        BY <1>5, <2>1, <2>2, <4>1
      <4> QED
        BY <2>1, <3>1, <3>2, <4>2
    <3>4. ~(r.from < last.from)
      <4>1. SUFFICES ASSUME r.from < last.from
                     PROVE  FALSE
        OBVIOUS
      <4>2. last.from - 1 \in r.from..r.to /\ last.from - 1 \in 1..LastDate
        BY <1>5, <2>1, <2>2, <4>1, LeavePeriodsAssumption
      <4>3. days[last.from - 1] = r.kind
        BY <2>1, <4>2
      <4>4. last.from - 1 \in LeaveDays(days)
        BY <1>5, <3>1, <4>2, <4>3, LeavePeriodsAssumption DEF LeaveDays
      <4> QED
        BY <1>4, <3>1, <4>3, <4>4 DEF RunsUpTo
    <3>5. r.from = last.from
      BY <1>5, <2>1, <3>3, <3>4
    <3>6. r = longer
      BY <1>6, <2>1, <2>2, <3>1, <3>5 DEF Period
    <3> QED
      BY <1>4, <1>8, <3>6
  <2>3. CASE r.to # d + 1
    <3>1. r.to <= d /\ (r.to + 1 \in LeaveDays(days) => days[r.to + 1] # r.kind)
      BY <2>1, <2>3 DEF RunsUpTo
    <3>2. r \in RunsUpTo(days, d)
      BY <2>1, <3>1 DEF RunsUpTo
    <3>3. PICK i \in 1..n : periods[i] = r
      BY <1>1, <3>2 DEF GroupedUpTo
    <3>4. i # n
      <4>1. SUFFICES ASSUME r = last
                     PROVE  FALSE
        BY <1>2, <3>3
      <4> QED
        BY <1>5, <3>1, <4>1
    <3> QED
      BY <1>8, <3>3, <3>4
  <2> QED
    BY <2>2, <2>3
<1>12. ASSUME NEW i \in 1..n, NEW j \in 1..n, i < j
       PROVE  after[i].to < after[j].from
  <2>1. periods[i].to < periods[j].from
    BY <1>1, <1>12 DEF GroupedUpTo
  <2>2. i # n
    BY <1>4, <1>12
  <2> QED
    BY <1>2, <1>6, <1>8, <2>1, <2>2
<1>13. [periods EXCEPT ![Len(periods)].to = d + 1] = after
  BY <1>1, <1>2, <1>3, <1>7
<1>14. \A i \in 1..n : after[i] \in RunsUpTo(days, d + 1)
  BY <1>8, <1>9, <1>10
<1>15. after # << >> /\ after[n].to = d + 1 /\ after[n].kind = days[d + 1]
  <2>1. after # << >>
    BY <1>4, <1>8, EmptySeq
  <2> QED
    BY <1>4, <1>5, <1>6, <1>8, <2>1
<1>16. GroupedUpTo(days, d + 1, after)
  BY <1>8, <1>11, <1>12, <1>14, <1>15 DEF GroupedUpTo
<1> QED
  BY <1>13, <1>16

\* A leave day that begins a period.
LEMMA NextPeriod ==
  ASSUME NEW days \in DayTables, NEW d \in Nat, d + 1 <= LastDate, NEW periods,
         GroupedUpTo(days, d, periods), d + 1 \in LeaveDays(days),
         periods # << >> =>
           ~(periods[Len(periods)].to = d /\ periods[Len(periods)].kind = days[d + 1])
  PROVE  GroupedUpTo(days, d + 1, Append(periods, DayAt(days, d + 1)))
<1>1. PICK n : n = Len(periods)
  OBVIOUS
<1>2. PICK new : new = DayAt(days, d + 1)
  OBVIOUS
<1>3. days[d + 1] \in LeaveKinds
  BY LeavePeriodsAssumption DEF LeaveDays, DayTables
<1>4. new \in Period /\ new.from = d + 1 /\ new.to = d + 1 /\ new.kind = days[d + 1]
  BY <1>2, <1>3, LeavePeriodsAssumption DEF Period, DayAt
<1>5. n \in Nat /\ (periods # << >> <=> n # 0)
  BY <1>1, EmptySeq, LenProperties DEF GroupedUpTo
<1>6. PICK after : after = Append(periods, new)
  OBVIOUS
<1>7. /\ after \in Seq(Period) /\ Len(after) = n + 1 /\ after[n + 1] = new
      /\ \A i \in 1..n : after[i] = periods[i]
  BY <1>1, <1>4, <1>5, <1>6, AppendProperties DEF GroupedUpTo
\* Yesterday's run, if any, is of another kind.
<1>8. ~(d \in LeaveDays(days) /\ days[d] = days[d + 1])
  BY DEF GroupedUpTo
<1>9. new \in RunsUpTo(days, d + 1)
  <2>1. \A x \in new.from..new.to : days[x] = new.kind
    BY <1>4
  <2>2. new.from - 1 \in LeaveDays(days) => days[new.from - 1] # new.kind
    BY <1>4, <1>8
  <2> QED
    BY <1>4, <2>1, <2>2 DEF RunsUpTo
<1>10. ASSUME NEW i \in 1..n
       PROVE  periods[i] \in RunsUpTo(days, d + 1) /\ periods[i].to < d + 1
  <2>1. PICK r : r = periods[i]
    OBVIOUS
  <2>2. r \in RunsUpTo(days, d)
    BY <1>1, <2>1 DEF GroupedUpTo
  <2>3. /\ r.to \in 1..LastDate /\ r.to <= d /\ r.from \in 1..LastDate /\ r.from <= r.to
        /\ r.kind \in LeaveKinds /\ days[r.to] = r.kind
    BY <2>2, LeavePeriodsAssumption DEF RunsUpTo, Period
  <2>4. r.to = d => d \in LeaveDays(days) /\ days[d] = r.kind
    BY <2>3, LeavePeriodsAssumption DEF LeaveDays
  <2>5. r.to = d => days[d + 1] # r.kind
    BY <1>8, <2>4
  <2>6. r.to + 1 \in LeaveDays(days) => days[r.to + 1] # r.kind
    BY <2>2, <2>5 DEF RunsUpTo
  <2>7. r.to < d + 1 /\ r.to <= d + 1
    BY <2>3
  <2>8. r \in RunsUpTo(days, d + 1)
    BY <2>2, <2>6, <2>7 DEF RunsUpTo
  <2> QED
    BY <2>1, <2>7, <2>8
<1>11. ASSUME NEW r \in RunsUpTo(days, d + 1)
       PROVE  \E i \in 1..(n + 1) : after[i] = r
  <2>1. /\ r.to \in 1..LastDate /\ r.from \in 1..LastDate /\ r.from <= r.to /\ r.to <= d + 1
        /\ r \in Period /\ r.kind \in LeaveKinds
        /\ \A x \in r.from..r.to : days[x] = r.kind
    BY LeavePeriodsAssumption DEF RunsUpTo, Period
  <2>2. CASE r.to = d + 1
    <3>1. r.kind = days[d + 1]
      BY <2>1, <2>2
    <3>2. r.from = d + 1
      <4>1. SUFFICES ASSUME r.from <= d
                     PROVE  FALSE
        BY <2>1, <2>2
      <4>2. d \in r.from..r.to /\ d \in 1..LastDate
        BY <2>1, <2>2, <4>1, LeavePeriodsAssumption
      <4>3. days[d] = r.kind
        BY <2>1, <4>2
      <4>4. d \in LeaveDays(days)
        BY <2>1, <4>2, <4>3, LeavePeriodsAssumption DEF LeaveDays
      <4> QED
        BY <1>8, <3>1, <4>3, <4>4
    <3>3. r = new
      BY <1>4, <2>1, <2>2, <3>1, <3>2 DEF Period
    <3> QED
      BY <1>5, <1>7, <3>3
  <2>3. CASE r.to # d + 1
    <3>1. r.to <= d
      BY <2>1, <2>3, LeavePeriodsAssumption
    <3>2. r \in RunsUpTo(days, d)
      BY <2>3, <3>1 DEF RunsUpTo
    <3>3. PICK i \in 1..n : periods[i] = r
      BY <1>1, <3>2 DEF GroupedUpTo
    <3> QED
      BY <1>5, <1>7, <3>3
  <2> QED
    BY <2>2, <2>3
<1>12. ASSUME NEW i \in 1..(n + 1), NEW j \in 1..(n + 1), i < j
       PROVE  after[i].to < after[j].from
  <2>1. i \in 1..n
    BY <1>5, <1>12
  <2>2. CASE j = n + 1
    BY <1>4, <1>7, <1>10, <2>1, <2>2
  <2>3. CASE j \in 1..n
    <3>1. periods[i].to < periods[j].from
      BY <1>1, <1>12, <2>1, <2>3 DEF GroupedUpTo
    <3> QED
      BY <1>7, <2>1, <2>3, <3>1
  <2> QED
    BY <1>5, <2>2, <2>3
<1>13. \A i \in 1..(n + 1) : after[i] \in RunsUpTo(days, d + 1)
  <2>1. \A i \in 1..(n + 1) : i \in 1..n \/ i = n + 1
    BY <1>5
  <2> QED
    BY <1>7, <1>9, <1>10, <2>1
<1>14. after # << >> /\ after[Len(after)].to = d + 1 /\ after[Len(after)].kind = days[d + 1]
  <2>1. after # << >>
    BY <1>5, <1>7, EmptySeq
  <2> QED
    BY <1>4, <1>7, <2>1
<1>15. GroupedUpTo(days, d + 1, after)
  BY <1>7, <1>11, <1>12, <1>13, <1>14 DEF GroupedUpTo
<1> QED
  BY <1>2, <1>6, <1>15

\* The periods of the first dates are the runs within them.
LEMMA LoopGroups ==
  ASSUME NEW days \in DayTables, NEW upTo, IsLoop(days, upTo, LastDate)
  PROVE  GroupedUpTo(days, LastDate, upTo[LastDate])
<1> DEFINE S == {d \in Nat : d <= LastDate => GroupedUpTo(days, d, upTo[d])}
<1>1. 0 \in S
  <2>1. upTo[0] = << >>
    BY LeavePeriodsAssumption DEF IsLoop
  <2>2. << >> \in Seq(Period) /\ Len(<< >>) = 0
    BY EmptySeq
  <2>3. RunsUpTo(days, 0) = {} /\ 0 \notin LeaveDays(days)
    BY LeavePeriodsAssumption DEF RunsUpTo, Period, LeaveDays
  <2>4. GroupedUpTo(days, 0, << >>)
    BY <2>2, <2>3 DEF GroupedUpTo
  <2> QED
    BY <2>1, <2>4
<1>2. ASSUME NEW d \in S
      PROVE  d + 1 \in S
  <2>1. SUFFICES ASSUME d + 1 <= LastDate
                 PROVE  GroupedUpTo(days, d + 1, upTo[d + 1])
    OBVIOUS
  <2>2. PICK periods : periods = upTo[d]
    OBVIOUS
  <2>3. GroupedUpTo(days, d, periods)
    BY <1>2, <2>1, <2>2, LeavePeriodsAssumption
  <2>4. upTo[d + 1] = IF d + 1 \in LeaveDays(days) THEN Extend(periods, DayAt(days, d + 1)) ELSE periods
    BY <2>1, <2>2, LeavePeriodsAssumption DEF IsLoop
  <2>5. CASE d + 1 \notin LeaveDays(days)
    BY <2>1, <2>3, <2>4, <2>5, NoLeaveKeepsGroups
  <2>6. CASE d + 1 \in LeaveDays(days)
    <3>1. DayAt(days, d + 1).from = d + 1 /\ DayAt(days, d + 1).to = d + 1
          /\ DayAt(days, d + 1).kind = days[d + 1]
      BY DEF DayAt
    <3>2. CASE periods = << >>
      <4>1. Extend(periods, DayAt(days, d + 1)) = Append(periods, DayAt(days, d + 1))
        BY <3>2 DEF Extend
      <4> QED
        BY <2>1, <2>3, <2>4, <2>6, <3>2, <4>1, NextPeriod
    <3>3. CASE periods # << >>
      <4>1. periods[Len(periods)].to \in Nat
        <5>1. periods \in Seq(Period) /\ Len(periods) \in Nat \ {0}
          BY <2>3, <3>3, EmptySeq DEF GroupedUpTo
        <5>2. periods[Len(periods)] \in RunsUpTo(days, d)
          BY <2>3, <5>1 DEF GroupedUpTo
        <5> QED
          BY <5>2, LeavePeriodsAssumption DEF RunsUpTo, Period
      <4>2. CASE periods[Len(periods)].to = d /\ periods[Len(periods)].kind = days[d + 1]
        <5>1. Extend(periods, DayAt(days, d + 1)) = [periods EXCEPT ![Len(periods)].to = d + 1]
          BY <3>1, <3>3, <4>2 DEF Extend
        <5> QED
          BY <2>1, <2>3, <2>4, <2>6, <3>3, <4>2, <5>1, LongerPeriod
      <4>3. CASE ~(periods[Len(periods)].to = d /\ periods[Len(periods)].kind = days[d + 1])
        <5>1. ~(periods[Len(periods)].to + 1 = d + 1 /\ periods[Len(periods)].kind = days[d + 1])
          BY <4>1, <4>3
        <5>2. Extend(periods, DayAt(days, d + 1)) = Append(periods, DayAt(days, d + 1))
          BY <3>1, <3>3, <5>1 DEF Extend
        <5> QED
          BY <2>1, <2>3, <2>4, <2>6, <4>3, <5>2, NextPeriod
      <4> QED
        BY <4>2, <4>3
    <3> QED
      BY <3>2, <3>3
  <2> QED
    BY <2>5, <2>6
<1>3. \A n \in Nat : n \in S
  BY <1>1, <1>2, NatByNat
<1> QED
  BY <1>3, LeavePeriodsAssumption

\* The periods are the longest runs of days of one type and approval state, each
\* once and in order, for every list of days of any length (groupLeavePeriods).
THEOREM GroupingTheorem == WellGrouped
<1> SUFFICES ASSUME NEW days \in DayTables
             PROVE  LET periods == GroupLeavePeriods(days)
                    IN /\ {periods[i] : i \in DOMAIN periods} = Runs(days)
                       /\ \A i, j \in DOMAIN periods : i < j => periods[i].to < periods[j].from
  BY DEF WellGrouped, DayTables
<1>1. PICK periods : periods = GroupLeavePeriods(days)
  OBVIOUS
<1>2. GroupedUpTo(days, LastDate, periods)
  BY <1>1, GroupsByLoop, LoopGroups
<1>3. DOMAIN periods = 1..Len(periods)
  BY <1>2, LenProperties DEF GroupedUpTo
<1>4. RunsUpTo(days, LastDate) = Runs(days)
  <2>1. ASSUME NEW r \in Period
        PROVE  /\ r.to \in Nat /\ r.to <= LastDate
               /\ r.to = LastDate => r.to + 1 \notin LeaveDays(days)
    BY LeavePeriodsAssumption DEF Period, LeaveDays
  <2> QED
    BY <2>1 DEF RunsUpTo, Runs, Period
<1>5. {periods[i] : i \in DOMAIN periods} = Runs(days)
  BY <1>2, <1>3, <1>4 DEF GroupedUpTo
<1> QED
  BY <1>1, <1>2, <1>3, <1>5 DEF GroupedUpTo

\* Whatever a request was answered, its periods are grouped so, for every set of
\* requests and of kinds of leave and every number of dates (groupLeavePeriods).
THEOREM GroupingAlways == Spec => []GroupingIsExact
<1>1. GroupingIsExact
  BY GroupingTheorem DEF GroupingIsExact
<1> QED
  BY <1>1, PTL
=============================================================================

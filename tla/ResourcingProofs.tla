-------------------------- MODULE ResourcingProofs --------------------------
(***************************************************************************)
(* For any set of employees, requests, candidates, headcounts, directory   *)
(* contents and concurrent calls: the invariants of Resourcing and its     *)
(* refinement of ApprovalLedger.                                           *)
(***************************************************************************)
EXTENDS Resourcing, FiniteSetTheorems, TLAPS

\* What IInv says of call c when its local state is k.
GoodCall(c, k) ==
  /\ k \in CallState
  /\ k.pc # "idle" =>
       /\ k.request \in Requests
       /\ request[k.request].status # "none"
       /\ k.pc \in SubmitPcs \ {"submit_route", "submit_count"} =>
            \E p \in Proposals : proposal[p].request = k.request
       /\ k.pc \in DecidePcs =>
            /\ k.proposal \in Proposals
            /\ proposal[k.proposal].request = k.request
            /\ request[k.request].status = "pending_dm_review"
            /\ k.decision \in {"approved", "rejected"}
            /\ k.pc = "decide_count" => k.decision = "approved"
  /\ k.pc \in LockedPcs => lock[k.request] = c
  /\ k.pc \in {"decide_write", "decide_commit"} /\ k.decision = "approved" =>
       Cardinality(ApprovedOf(k.request)) < request[k.request].headcount
  /\ k.pc \in {"decide_count", "decide_write", "decide_commit"} =>
       /\ proposal[k.proposal].status = k.seen
       /\ k.seen = "proposed" \/ (k.seen = "approved" /\ k.decision = "rejected")

\* What IInv says of the tables alone.
GoodTables ==
  /\ request \in [Requests -> RequestRow] /\ proposal \in [Proposals -> ProposalRow]
  /\ lock \in [Requests -> Calls \cup {NoCall}] /\ env \in Environments
  /\ call \in [Calls -> CallState]
  /\ RowsAreLinked /\ HeadcountNotExceeded /\ VerdictsOnlyUnderReview

GoodCalls == \A c \in Calls : GoodCall(c, call[c])

\* IInv, read call by call.
LEMMA InvariantByCall == IInv <=> GoodTables /\ GoodCalls
<1>1. IInv => GoodTables
  BY DEF IInv, GoodTables, TypeOK
<1>2. ASSUME IInv, NEW c \in Calls PROVE GoodCall(c, call[c])
  BY <1>2 DEF IInv, GoodCall, TypeOK, CallsKnowTheirRows, LockHeld, SlotStillFree,
              DecisionBuildsOnCurrentStatus
<1>3. ASSUME GoodTables, GoodCalls PROVE IInv
  <2>1. TypeOK BY <1>3 DEF GoodTables, TypeOK
  <2>2. CallsKnowTheirRows BY <1>3 DEF GoodCalls, GoodCall, CallsKnowTheirRows
  <2>3. LockHeld BY <1>3 DEF GoodCalls, GoodCall, LockHeld
  <2>4. SlotStillFree BY <1>3 DEF GoodCalls, GoodCall, SlotStillFree
  <2>5. DecisionBuildsOnCurrentStatus BY <1>3 DEF GoodCalls, GoodCall, DecisionBuildsOnCurrentStatus
  <2> QED BY <1>3, <2>1, <2>2, <2>3, <2>4, <2>5 DEF IInv, GoodTables
<1> QED BY <1>1, <1>2, <1>3 DEF GoodCalls

LEMMA InvariantByCallNext == IInv' <=> GoodTables' /\ GoodCalls'
BY InvariantByCall, PTL

\* The approvals of a request are finitely many.
LEMMA ApprovedIsFinite ==
  ASSUME NEW r
  PROVE  IsFiniteSet(ApprovedOf(r)) /\ Cardinality(ApprovedOf(r)) \in Nat
<1>1. ApprovedOf(r) \in SUBSET Proposals BY DEF ApprovedOf
<1>2. IsFiniteSet(ApprovedOf(r)) BY <1>1, FS_Subset, FiniteTables
<1> QED BY <1>2, FS_CardinalityType

\* A call that holds no row keeps the invariant when only its own state moves
\* to a state that is good for it.
LEMMA MoveKeepsInvariant ==
  ASSUME IInv, NEW c \in Calls, NEW k, GoodCall(c, k),
         call' = [call EXCEPT ![c] = k], UNCHANGED <<request, proposal, lock, env>>
  PROVE  IInv'
<1>1. \A r : ApprovedOf(r)' = ApprovedOf(r) BY DEF ApprovedOf
<1>2. call' \in [Calls -> CallState] BY DEF IInv, TypeOK, GoodCall
<1>3. GoodTables'
  BY <1>1, <1>2, InvariantByCall DEF GoodTables, RowsAreLinked, HeadcountNotExceeded,
                                     VerdictsOnlyUnderReview
<1>4. ASSUME NEW d \in Calls PROVE GoodCall(d, call[d])'
  <2>1. GoodCall(d, call'[d])
    BY InvariantByCall DEF GoodCalls, GoodTables
  <2> QED BY <1>1, <2>1 DEF GoodCall
<1> QED BY <1>3, <1>4, InvariantByCallNext DEF GoodCalls

\* A call that ends, releasing what it holds, keeps the invariant.
LEMMA EndKeepsInvariant ==
  ASSUME IInv, NEW c \in Calls, End(c), Release(c) \/ lock' = lock,
         UNCHANGED <<request, proposal, env>>
  PROVE  IInv'
<1>1. \A r : ApprovedOf(r)' = ApprovedOf(r) BY DEF ApprovedOf
<1>2. Idle \in CallState BY DEF Idle, CallState, Pcs
<1>3. call' \in [Calls -> CallState] BY <1>2 DEF End, IInv, TypeOK
<1>4. lock' \in [Requests -> Calls \cup {NoCall}] BY DEF Release, IInv, TypeOK
<1>5. GoodTables'
  BY <1>1, <1>3, <1>4, InvariantByCall DEF GoodTables, RowsAreLinked, HeadcountNotExceeded,
                                           VerdictsOnlyUnderReview
<1>6. ASSUME NEW d \in Calls PROVE GoodCall(d, call[d])'
  <2>1. CASE d = c
    BY <1>2, <2>1 DEF End, GoodCall, Idle, IInv, TypeOK, LockedPcs
  <2>2. CASE d # c
    <3>1. call'[d] = call[d] /\ GoodCall(d, call[d])
      BY <2>2, InvariantByCall DEF End, GoodCalls, GoodTables
    <3>2. call[d].pc \in LockedPcs => lock'[call[d].request] = d
      BY <2>2, <3>1 DEF Release, GoodCall, LockedPcs, IInv, TypeOK
    <3> QED BY <1>1, <3>1, <3>2 DEF GoodCall
  <2> QED BY <2>1, <2>2
<1> QED BY <1>5, <1>6, InvariantByCallNext DEF GoodCalls
-----------------------------------------------------------------------------
(* The actions that only move a call, or end it.                           *)

LEMMA GotoIsMove ==
  ASSUME IInv, NEW c \in Calls, NEW pc, Goto(c, pc),
         GoodCall(c, [call[c] EXCEPT !.pc = pc]), UNCHANGED <<request, proposal, lock, env>>
  PROVE  IInv'
<1>1. call' = [call EXCEPT ![c] = [call[c] EXCEPT !.pc = pc]] BY DEF Goto
<1> QED BY <1>1, MoveKeepsInvariant

LEMMA BeginKeepsInvariant ==
  ASSUME IInv, NEW c \in Calls, Begin(c)
  PROVE  IInv'
<1> USE DEF GoodCall, CallState, Idle, Pcs, ProposePcs, SubmitPcs, DecidePcs, LockedPcs, Start
<1>1. PICK e \in Employees :
        \/ \E r \in Requests : BeginPropose(c, e, r) \/ BeginSubmit(c, e, r)
        \/ \E p \in Proposals, d \in {"approved", "rejected"} : BeginDecide(c, e, p, d)
  BY DEF Begin
<1>2. ASSUME NEW r \in Requests, BeginPropose(c, e, r) PROVE IInv'
  <2> DEFINE k == [Idle EXCEPT !.pc = "propose_route", !.actor = e, !.request = r]
  <2>1. GoodCall(c, k) BY <1>2, ZenonT(40) DEF BeginPropose
  <2> QED BY <1>2, <2>1, MoveKeepsInvariant DEF BeginPropose
<1>3. ASSUME NEW r \in Requests, BeginSubmit(c, e, r) PROVE IInv'
  <2> DEFINE k == [Idle EXCEPT !.pc = "submit_route", !.actor = e, !.request = r]
  <2>1. GoodCall(c, k) BY <1>3, ZenonT(40) DEF BeginSubmit
  <2> QED BY <1>3, <2>1, MoveKeepsInvariant DEF BeginSubmit
<1>4. ASSUME NEW p \in Proposals, NEW d \in {"approved", "rejected"}, BeginDecide(c, e, p, d)
      PROVE  IInv'
  <2> DEFINE k == [Idle EXCEPT !.pc = "decide_lock", !.actor = e,
                      !.request = proposal[p].request, !.proposal = p, !.decision = d]
  <2>1. GoodCall(c, k) BY <1>4, ZenonT(40) DEF BeginDecide
  <2> QED BY <1>4, <2>1, MoveKeepsInvariant DEF BeginDecide
<1> QED BY <1>1, <1>2, <1>3, <1>4

LEMMA RoutingKeepsInvariant ==
  ASSUME IInv, NEW c \in Calls, ProposeRoute(c) \/ SubmitRoute(c) \/ SubmitCount(c)
  PROVE  IInv'
<1> USE DEF GoodCall, CallState, Pcs, ProposePcs, SubmitPcs, DecidePcs, LockedPcs, At
<1>0. GoodCall(c, call[c]) BY InvariantByCall DEF GoodCalls
<1>1. CASE ProposeRoute(c)
  <2>1. GoodCall(c, [call[c] EXCEPT !.pc = "propose_insert"]) BY <1>0, <1>1 DEF ProposeRoute
  <2> QED BY <1>1, <2>1, GotoIsMove, EndKeepsInvariant DEF ProposeRoute
<1>2. CASE SubmitRoute(c)
  <2>1. GoodCall(c, [call[c] EXCEPT !.pc = "submit_count"]) BY <1>0, <1>2 DEF SubmitRoute
  <2> QED BY <1>2, <2>1, GotoIsMove, EndKeepsInvariant DEF SubmitRoute
<1>3. CASE SubmitCount(c)
  <2>1. CASE \E p \in Proposals : /\ proposal[p].request = call[c].request
                                  /\ proposal[p].status = "proposed"
    <3>1. GoodCall(c, [call[c] EXCEPT !.pc = "resolve_project"])
      BY <1>0, <1>3, <2>1 DEF SubmitCount
    <3> QED BY <1>3, <2>1, <3>1, GotoIsMove DEF SubmitCount
  <2>2. CASE ~ \E p \in Proposals : /\ proposal[p].request = call[c].request
                                    /\ proposal[p].status = "proposed"
    BY <1>3, <2>2, EndKeepsInvariant DEF SubmitCount
  <2> QED BY <2>1, <2>2
<1> QED BY <1>1, <1>2, <1>3

LEMMA ResolvingKeepsInvariant ==
  ASSUME IInv, NEW c \in Calls,
         \/ ResolveProject(c) \/ ResolveAuthorDm(c) \/ ResolveAuthorPm(c) \/ ResolveManager(c)
  PROVE  IInv'
<1> USE DEF GoodCall, CallState, Pcs, ProposePcs, SubmitPcs, DecidePcs, LockedPcs, At
<1>0. GoodCall(c, call[c]) BY InvariantByCall DEF GoodCalls
<1>1. env \in Environment BY EnvironmentsAssumption DEF IInv, TypeOK
<1>2. call[c].pc # "idle" /\ call[c].request \in Requests
  BY <1>0 DEF ResolveProject, ResolveAuthorDm, ResolveAuthorPm, ResolveManager
<1>3. request[call[c].request].author \in Employees
  BY <1>0, <1>2 DEF IInv, RowsAreLinked
<1>4. UNCHANGED <<request, proposal, lock, env>>
  BY DEF ResolveProject, ResolveAuthorDm, ResolveAuthorPm, ResolveManager
<1>5. ASSUME NEW dm \in Employees \cup {NoOne}, Resolved(c, dm),
             call[c].pc \in SubmitPcs \ {"submit_route", "submit_count"}
      PROVE  IInv'
  <2> DEFINE k == [call[c] EXCEPT !.pc = "submit_write", !.dm = dm]
  <2>1. GoodCall(c, k) BY <1>0, <1>5, ZenonT(40)
  <2>2. call' = [call EXCEPT ![c] = k] BY <1>5 DEF Resolved
  <2> QED BY <1>4, <2>1, <2>2, MoveKeepsInvariant
<1>6. ASSUME NEW pc \in {"resolve_dm", "resolve_pm", "resolve_manager"}, Goto(c, pc),
             call[c].pc \in SubmitPcs \ {"submit_route", "submit_count"}
      PROVE  IInv'
  <2>1. GoodCall(c, [call[c] EXCEPT !.pc = pc]) BY <1>0, <1>6
  <2> QED BY <1>4, <1>6, <2>1, GotoIsMove
<1>7. CASE ResolveProject(c)
  <2>1. env.projectDms[call[c].request] \subseteq Employees
    BY <1>1, <1>2 DEF Environment
  <2> QED BY <1>5, <1>6, <1>7, <2>1 DEF ResolveProject
<1>8. CASE ResolveAuthorDm(c)
  BY <1>3, <1>5, <1>6, <1>8 DEF ResolveAuthorDm
<1>9. CASE ResolveAuthorPm(c)
  BY <1>5, <1>6, <1>9 DEF ResolveAuthorPm
<1>10. CASE ResolveManager(c)
  <2>1. env.manager[request[call[c].request].author] \in Employees \cup {NoOne}
    BY <1>1, <1>3 DEF Environment
  <2> QED BY <1>5, <1>10, <2>1 DEF ResolveManager
<1> QED BY <1>7, <1>8, <1>9, <1>10

LEMMA HeadcountIsInt ==
  ASSUME IInv, NEW r \in Requests
  PROVE  request[r].headcount \in Int
<1>1. request[r] \in RequestRow BY DEF IInv, TypeOK
<1>2. request[r].headcount \in Headcounts \cup {0} BY <1>1 DEF RequestRow
<1>3. ASSUME NEW h \in Headcounts PROVE h \in Int
  <2>1. h \in 1..99 BY HeadcountsAssumption
  <2> QED BY <2>1
<1> QED BY <1>2, <1>3

LEMMA DecidingKeepsInvariant ==
  ASSUME IInv, NEW c \in Calls, DecideRead(c) \/ DecideCount(c) \/ DecideWrite(c)
  PROVE  IInv'
<1> USE DEF GoodCall, CallState, Pcs, ProposePcs, SubmitPcs, DecidePcs, LockedPcs, At
<1>0. GoodCall(c, call[c]) BY InvariantByCall DEF GoodCalls
<1>1. CASE DecideRead(c)
  <2> DEFINE current == proposal[call[c].proposal].status
             next == IF call[c].decision = "approved" THEN "decide_count" ELSE "decide_write"
             k == [call[c] EXCEPT !.pc = next, !.seen = current]
             refused == \/ current = "rejected"
                        \/ call[c].decision = "approved" /\ current # "proposed"
  <2>1. CASE refused
    BY <1>1, <2>1, EndKeepsInvariant DEF DecideRead
  <2>2. CASE ~refused
    <3>1. /\ call[c].pc = "decide_read" /\ call[c].proposal \in Proposals
          /\ proposal[call[c].proposal].request \in Requests
      BY <1>0, <1>1 DEF DecideRead
    <3>2. current \in {"proposed", "approved"}
      BY <2>2, <3>1, NullsAssumption DEF IInv, TypeOK, RowsAreLinked, ProposalRow
    <3>3. GoodCall(c, k)
      BY <1>0, <2>2, <3>1, <3>2
    <3>4. call' = [call EXCEPT ![c] = k] /\ UNCHANGED <<request, proposal, lock, env>>
      BY <1>1, <2>2 DEF DecideRead
    <3> HIDE DEF k, GoodCall
    <3> QED BY <3>3, <3>4, MoveKeepsInvariant
  <2> QED BY <2>1, <2>2
<1>2. CASE DecideCount(c)
  <2>1. CASE Cardinality(ApprovedOf(call[c].request)) >= request[call[c].request].headcount
    BY <1>2, <2>1, EndKeepsInvariant DEF DecideCount
  <2>2. CASE ~(Cardinality(ApprovedOf(call[c].request)) >= request[call[c].request].headcount)
    <3>1. call[c].request \in Requests BY <1>0, <1>2 DEF DecideCount
    <3>2. request[call[c].request].headcount \in Int
      BY <3>1, HeadcountIsInt
    <3>3. Cardinality(ApprovedOf(call[c].request)) < request[call[c].request].headcount
      BY <2>2, <3>2, ApprovedIsFinite
    <3>4. GoodCall(c, [call[c] EXCEPT !.pc = "decide_write"])
      BY <1>0, <1>2, <3>3 DEF DecideCount
    <3> QED BY <1>2, <2>2, <3>4, GotoIsMove DEF DecideCount
  <2> QED BY <2>1, <2>2
<1>3. CASE DecideWrite(c)
  <2>1. GoodCall(c, [call[c] EXCEPT !.pc = "decide_commit"])
    BY <1>0, <1>3 DEF DecideWrite
  <2> QED BY <1>3, <2>1, GotoIsMove, EndKeepsInvariant DEF DecideWrite
<1> QED BY <1>1, <1>2, <1>3
-----------------------------------------------------------------------------
(* The actions that write a table or take the row lock.                    *)

LEMMA CreateRequestKeepsInvariant ==
  ASSUME IInv, NEW r \in Requests, NEW e \in Employees, NEW h \in Headcounts,
         CreateRequest(r, e, h)
  PROVE  IInv'
<1> DEFINE row == [status |-> "open", author |-> e, headcount |-> h, reviewingDm |-> NoOne]
<1>1. /\ request' = [request EXCEPT ![r] = row] /\ request[r].status = "none"
      /\ UNCHANGED <<proposal, lock, call, env>>
  BY DEF CreateRequest
<1>2. request' \in [Requests -> RequestRow]
  BY <1>1 DEF IInv, TypeOK, RequestRow
<1>3. \A s : ApprovedOf(s)' = ApprovedOf(s) BY <1>1 DEF ApprovedOf
<1>4. ASSUME NEW s \in Requests, request[s].status # "none" PROVE request'[s] = request[s]
  BY <1>1, <1>4 DEF IInv, TypeOK
<1>5. RowsAreLinked'
  <2>1. ASSUME NEW s \in Requests, request'[s].status # "none"
        PROVE  request'[s].author \in Employees
    BY <1>1, <2>1 DEF IInv, TypeOK, RowsAreLinked
  <2>2. ASSUME NEW p \in Proposals, proposal[p].status # "none"
        PROVE  proposal[p].request \in Requests /\ request'[proposal[p].request].status # "none"
    BY <1>4, <2>2 DEF IInv, RowsAreLinked
  <2>3. ASSUME NEW p \in Proposals, proposal[p].status = "none"
        PROVE  proposal[p].request = NoRequest
    BY <2>3 DEF IInv, RowsAreLinked
  <2> QED BY <1>1, <2>1, <2>2, <2>3 DEF RowsAreLinked
<1>6. ApprovedOf(r) = {}
  BY <1>1 DEF IInv, RowsAreLinked, ApprovedOf
<1>7. HeadcountNotExceeded'
  <2>1. Cardinality(ApprovedOf(r)) <= h
    <3>1. h \in 1..99 BY HeadcountsAssumption
    <3> QED BY <1>6, <3>1, FS_EmptySet
  <2>2. request'[r].headcount = h BY <1>1 DEF IInv, TypeOK
  <2>3. ASSUME NEW s \in Requests, s # r PROVE request'[s].headcount = request[s].headcount
    BY <1>1, <2>3 DEF IInv, TypeOK
  <2> QED BY <1>3, <2>1, <2>2, <2>3 DEF IInv, HeadcountNotExceeded
<1>8. VerdictsOnlyUnderReview'
  BY <1>1, <1>4 DEF IInv, RowsAreLinked, VerdictsOnlyUnderReview
<1>9. GoodTables'
  BY <1>1, <1>2, <1>5, <1>7, <1>8 DEF GoodTables, IInv, TypeOK
<1>10. ASSUME NEW d \in Calls PROVE GoodCall(d, call[d])'
  <2>1. GoodCall(d, call[d]) BY InvariantByCall DEF GoodCalls
  <2>2. call[d].pc # "idle" => request'[call[d].request] = request[call[d].request]
    BY <1>4, <2>1 DEF GoodCall
  <2>3. call[d].pc \in LockedPcs \cup DecidePcs \cup SubmitPcs => call[d].pc # "idle"
    BY DEF LockedPcs, DecidePcs, SubmitPcs
  <2> QED BY <1>1, <1>3, <2>1, <2>2, <2>3 DEF GoodCall
<1> QED BY <1>9, <1>10, InvariantByCallNext DEF GoodCalls

LEMMA DecideLockKeepsInvariant ==
  ASSUME IInv, NEW c \in Calls, DecideLock(c)
  PROVE  IInv'
<1> DEFINE k == [call[c] EXCEPT !.pc = "decide_read"]
           r == call[c].request
<1>1. /\ call[c].pc = "decide_lock" /\ lock[r] = NoCall
      /\ call' = [call EXCEPT ![c] = k] /\ lock' = [lock EXCEPT ![r] = c]
      /\ UNCHANGED <<request, proposal, env>>
  BY DEF DecideLock, At, Goto
<1>2. \A s : ApprovedOf(s)' = ApprovedOf(s) BY <1>1 DEF ApprovedOf
<1>3. GoodCall(c, call[c]) BY InvariantByCall DEF GoodCalls
<1>4. k \in CallState /\ r \in Requests
  BY <1>1, <1>3 DEF GoodCall, CallState, Pcs, DecidePcs, LockedPcs
<1>5. GoodTables'
  <2>1. call' \in [Calls -> CallState] BY <1>1, <1>4 DEF IInv, TypeOK
  <2>2. lock' \in [Requests -> Calls \cup {NoCall}] BY <1>1 DEF IInv, TypeOK
  <2> QED BY <1>1, <1>2, <2>1, <2>2, InvariantByCall
          DEF GoodTables, RowsAreLinked, HeadcountNotExceeded, VerdictsOnlyUnderReview
<1>6. ASSUME NEW d \in Calls PROVE GoodCall(d, call[d])'
  <2>1. CASE d = c
    <3>1. call'[d] = k /\ lock'[r] = c BY <1>1, <1>4, <2>1 DEF IInv, TypeOK
    <3> QED BY <1>1, <1>2, <1>3, <1>4, <2>1, <3>1
            DEF GoodCall, LockedPcs, DecidePcs, SubmitPcs
  <2>2. CASE d # c
    <3>1. call'[d] = call[d] /\ GoodCall(d, call[d])
      BY <1>1, <2>2, InvariantByCall DEF GoodCalls, GoodTables
    <3>2. call[d].pc \in LockedPcs => lock'[call[d].request] = d
      BY <1>1, <1>4, <3>1, NullsAssumption DEF GoodCall, LockedPcs, IInv, TypeOK
    <3> QED BY <1>1, <1>2, <3>1, <3>2 DEF GoodCall
  <2> QED BY <2>1, <2>2
<1> QED BY <1>5, <1>6, InvariantByCallNext DEF GoodCalls

LEMMA ProposeInsertKeepsInvariant ==
  ASSUME IInv, NEW c \in Calls, NEW p \in Proposals, ProposeInsert(c, p)
  PROVE  IInv'
<1> DEFINE row == [request |-> call[c].request, status |-> "proposed"]
<1>1. /\ call[c].pc = "propose_insert" /\ proposal[p].status = "none"
      /\ proposal' = [proposal EXCEPT ![p] = row]
      /\ call' = [call EXCEPT ![c] = Idle]
      /\ UNCHANGED <<request, lock, env>>
  BY DEF ProposeInsert, At, End
<1>2. GoodCall(c, call[c]) BY InvariantByCall DEF GoodCalls
<1>3. call[c].request \in Requests /\ request[call[c].request].status # "none"
  BY <1>1, <1>2 DEF GoodCall
<1>4. /\ proposal'[p] = row
      /\ \A q \in Proposals : q # p => proposal'[q] = proposal[q]
  BY <1>1 DEF IInv, TypeOK
<1>5. \A s : ApprovedOf(s)' = ApprovedOf(s) BY <1>1, <1>4 DEF ApprovedOf
<1>6. proposal' \in [Proposals -> ProposalRow] /\ call' \in [Calls -> CallState]
  <2>1. Idle \in CallState BY DEF Idle, CallState, Pcs
  <2> QED BY <1>1, <1>3, <2>1 DEF IInv, TypeOK, ProposalRow
<1>7. GoodTables'
  <2>1. RowsAreLinked' BY <1>1, <1>3, <1>4 DEF IInv, RowsAreLinked
  <2>2. HeadcountNotExceeded' BY <1>1, <1>5 DEF IInv, HeadcountNotExceeded
  <2>3. VerdictsOnlyUnderReview' BY <1>1, <1>4 DEF IInv, VerdictsOnlyUnderReview
  <2> QED BY <1>1, <1>6, <2>1, <2>2, <2>3 DEF GoodTables, IInv, TypeOK
<1>8. ASSUME NEW d \in Calls PROVE GoodCall(d, call[d])'
  <2>1. CASE d = c
    BY <1>1, <1>6, <2>1 DEF GoodCall, Idle, IInv, TypeOK, LockedPcs
  <2>2. CASE d # c
    <3>1. call'[d] = call[d] /\ GoodCall(d, call[d])
      BY <1>1, <2>2, InvariantByCall DEF GoodCalls, GoodTables
    <3>2. \A q \in Proposals : proposal[q].request \in Requests => q # p
      BY <1>1, NullsAssumption DEF IInv, RowsAreLinked
    <3>3. \A q \in Proposals : proposal[q].request \in Requests => proposal'[q] = proposal[q]
      BY <1>4, <3>2
    <3>4. call[d].pc \in LockedPcs \cup DecidePcs \cup SubmitPcs => call[d].pc # "idle"
      BY DEF LockedPcs, DecidePcs, SubmitPcs
    <3>5. {"decide_count", "decide_write", "decide_commit"} \subseteq DecidePcs
      BY DEF DecidePcs, LockedPcs
    <3> QED BY <1>1, <1>5, <3>1, <3>3, <3>4, <3>5 DEF GoodCall
  <2> QED BY <2>1, <2>2
<1> QED BY <1>7, <1>8, InvariantByCallNext DEF GoodCalls

LEMMA SubmitWriteKeepsInvariant ==
  ASSUME IInv, NEW c \in Calls, SubmitWrite(c)
  PROVE  IInv'
<1> DEFINE r == call[c].request
           row == [request[r] EXCEPT !.status = "pending_dm_review", !.reviewingDm = call[c].dm]
<1>1. /\ call[c].pc = "submit_write"
      /\ request' = [request EXCEPT ![r] = row]
      /\ call' = [call EXCEPT ![c] = Idle]
      /\ UNCHANGED <<proposal, lock, env>>
  BY DEF SubmitWrite, At, End
<1>2. GoodCall(c, call[c]) BY InvariantByCall DEF GoodCalls
<1>3. r \in Requests /\ request[r].status # "none" /\ call[c].dm \in Employees \cup {NoOne}
  BY <1>1, <1>2 DEF GoodCall, CallState
<1>4. row \in RequestRow
  <2>1. request[r] \in RequestRow BY <1>3 DEF IInv, TypeOK
  <2> QED BY <1>3, <2>1 DEF RequestRow
<1>5. request' \in [Requests -> RequestRow] /\ call' \in [Calls -> CallState]
  <2>1. Idle \in CallState BY DEF Idle, CallState, Pcs
  <2> QED BY <1>1, <1>4, <2>1 DEF IInv, TypeOK
<1>6. ASSUME NEW s \in Requests
      PROVE  /\ request'[s].headcount = request[s].headcount
             /\ request'[s].author = request[s].author
             /\ request'[s].status = "none" <=> request[s].status = "none"
             /\ request[s].status = "pending_dm_review" =>
                  request'[s].status = "pending_dm_review"
  <2>1. request[s] \in RequestRow BY DEF IInv, TypeOK
  <2> QED BY <1>1, <1>3, <1>5, <2>1 DEF IInv, TypeOK, RequestRow
<1>7. \A s : ApprovedOf(s)' = ApprovedOf(s) BY <1>1 DEF ApprovedOf
<1>8. GoodTables'
  <2>1. RowsAreLinked' BY <1>1, <1>6 DEF IInv, RowsAreLinked
  <2>2. HeadcountNotExceeded' BY <1>6, <1>7 DEF IInv, HeadcountNotExceeded
  <2>3. VerdictsOnlyUnderReview'
    BY <1>1, <1>6 DEF IInv, VerdictsOnlyUnderReview, RowsAreLinked
  <2> QED BY <1>1, <1>5, <2>1, <2>2, <2>3 DEF GoodTables, IInv, TypeOK
<1>9. ASSUME NEW d \in Calls PROVE GoodCall(d, call[d])'
  <2>1. CASE d = c
    BY <1>1, <1>5, <2>1 DEF GoodCall, Idle, IInv, TypeOK, LockedPcs
  <2>2. CASE d # c
    <3>1. call'[d] = call[d] /\ GoodCall(d, call[d])
      BY <1>1, <2>2, InvariantByCall DEF GoodCalls, GoodTables
    <3>2. {"decide_write", "decide_commit"} \subseteq DecidePcs
          /\ \A pc \in DecidePcs : pc # "idle"
      BY DEF DecidePcs, LockedPcs
    <3> QED BY <1>1, <1>6, <1>7, <3>1, <3>2 DEF GoodCall
  <2> QED BY <2>1, <2>2
<1> QED BY <1>8, <1>9, InvariantByCallNext DEF GoodCalls

LEMMA DecideCommitKeepsInvariant ==
  ASSUME IInv, NEW c \in Calls, DecideCommit(c)
  PROVE  IInv'
<1>0. PICK r, p, d :
        r = call[c].request /\ p = call[c].proposal /\ d = call[c].decision
  OBVIOUS
<1>1. /\ call[c].pc = "decide_commit"
      /\ proposal' = [proposal EXCEPT ![p] = [proposal[p] EXCEPT !.status = d]]
      /\ call' = [call EXCEPT ![c] = Idle]
      /\ lock' = [s \in Requests |-> IF lock[s] = c THEN NoCall ELSE lock[s]]
      /\ UNCHANGED <<request, env>>
  BY <1>0 DEF DecideCommit, At, End, Release
<1>2. GoodCall(c, call[c]) BY InvariantByCall DEF GoodCalls
<1>3. /\ r \in Requests /\ p \in Proposals /\ proposal[p].request = r
      /\ request[r].status = "pending_dm_review" /\ lock[r] = c
      /\ d \in {"approved", "rejected"}
      /\ proposal[p].status \in {"proposed", "approved"}
      /\ d = "approved" => /\ proposal[p].status = "proposed"
                           /\ Cardinality(ApprovedOf(r)) < request[r].headcount
  BY <1>0, <1>1, <1>2 DEF GoodCall, DecidePcs, LockedPcs
<1>4. /\ proposal'[p].status = d /\ proposal'[p].request = r
      /\ \A q \in Proposals : q # p => proposal'[q] = proposal[q]
      /\ proposal' \in [Proposals -> ProposalRow]
  <2>1. proposal[p] \in ProposalRow BY <1>3 DEF IInv, TypeOK
  <2> QED BY <1>1, <1>3, <2>1 DEF IInv, TypeOK, ProposalRow
<1>5. \A s : s # r => ApprovedOf(s)' = ApprovedOf(s)
  BY <1>1, <1>3, <1>4 DEF ApprovedOf
<1>6. call' \in [Calls -> CallState] /\ lock' \in [Requests -> Calls \cup {NoCall}]
  <2>1. Idle \in CallState BY DEF Idle, CallState, Pcs
  <2> QED BY <1>1, <2>1 DEF IInv, TypeOK
<1>7. HeadcountNotExceeded'
  <2>1. Cardinality(ApprovedOf(r)') <= request[r].headcount
    <3>1. CASE d = "approved"
      <4>1. ApprovedOf(r)' = ApprovedOf(r) \cup {p}
        BY <1>3, <1>4, <3>1 DEF ApprovedOf
      <4>2. Cardinality(ApprovedOf(r) \cup {p}) <= Cardinality(ApprovedOf(r)) + 1
        BY ApprovedIsFinite, FS_AddElement
      <4>3. request[r].headcount \in Int /\ Cardinality(ApprovedOf(r)) \in Nat
        BY <1>3, HeadcountIsInt, ApprovedIsFinite
      <4>4. Cardinality(ApprovedOf(r) \cup {p}) \in Nat
        BY ApprovedIsFinite, FS_AddElement, FS_CardinalityType
      <4> QED BY <1>3, <3>1, <4>1, <4>2, <4>3, <4>4
    <3>2. CASE d = "rejected"
      <4>1. ApprovedOf(r)' \in SUBSET ApprovedOf(r)
        BY <1>3, <1>4, <3>2 DEF ApprovedOf
      <4>2. Cardinality(ApprovedOf(r)') <= Cardinality(ApprovedOf(r))
        BY <4>1, ApprovedIsFinite, FS_Subset
      <4>3. Cardinality(ApprovedOf(r)') \in Nat
        BY <4>1, ApprovedIsFinite, FS_Subset, FS_CardinalityType
      <4>4. Cardinality(ApprovedOf(r)) <= request[r].headcount
        BY <1>3 DEF IInv, HeadcountNotExceeded
      <4> QED BY <1>3, <4>2, <4>3, <4>4, HeadcountIsInt, ApprovedIsFinite
    <3> QED BY <1>3, <3>1, <3>2
  <2> QED BY <1>1, <1>5, <2>1 DEF IInv, HeadcountNotExceeded
<1>8. GoodTables'
  <2>1. RowsAreLinked' BY <1>1, <1>3, <1>4 DEF IInv, RowsAreLinked
  <2>2. VerdictsOnlyUnderReview'
    BY <1>1, <1>3, <1>4 DEF IInv, VerdictsOnlyUnderReview
  <2> QED BY <1>1, <1>4, <1>6, <1>7, <2>1, <2>2 DEF GoodTables, IInv, TypeOK
<1>9. ASSUME NEW o \in Calls PROVE GoodCall(o, call[o])'
  <2>1. CASE o = c
    BY <1>1, <1>6, <2>1 DEF GoodCall, Idle, IInv, TypeOK, LockedPcs
  <2>2. CASE o # c
    <3>1. call'[o] = call[o] /\ GoodCall(o, call[o])
      BY <1>1, <2>2, InvariantByCall DEF GoodCalls, GoodTables
    <3>2. {"decide_count", "decide_write", "decide_commit"} \subseteq LockedPcs
          /\ LockedPcs \subseteq DecidePcs /\ "idle" \notin DecidePcs
      BY DEF DecidePcs, LockedPcs
    <3>3. call[o].pc \in LockedPcs => call[o].request # r
      BY <1>3, <2>2, <3>1 DEF GoodCall
    <3>4. call[o].pc \in LockedPcs => lock'[call[o].request] = o
      BY <1>1, <2>2, <3>1 DEF GoodCall, LockedPcs
    <3>5. \A q \in Proposals : proposal'[q].request = proposal[q].request
      BY <1>3, <1>4
    <3>6. call[o].pc \in DecidePcs /\ call[o].request # r =>
            proposal'[call[o].proposal] = proposal[call[o].proposal]
      BY <1>3, <1>4, <3>1, <3>2 DEF GoodCall
    <3>7. \A q \in Proposals : proposal'[q].request = call[o].request
                                <=> proposal[q].request = call[o].request
      BY <3>5
    <3>8. call[o].pc \in LockedPcs =>
            /\ ApprovedOf(call[o].request)' = ApprovedOf(call[o].request)
            /\ proposal'[call[o].proposal] = proposal[call[o].proposal]
      BY <1>5, <3>1, <3>3, <3>6, <3>2
    <3>9. call[o].pc \in DecidePcs =>
            proposal'[call[o].proposal].request = proposal[call[o].proposal].request
      BY <3>1, <3>5, <3>2 DEF GoodCall
    <3> QED BY <1>1, <3>1, <3>4, <3>2, <3>7, <3>8, <3>9 DEF GoodCall
  <2> QED BY <2>1, <2>2
<1> QED BY <1>8, <1>9, InvariantByCallNext DEF GoodCalls

-----------------------------------------------------------------------------
(* The invariant of the specification.                                     *)

LEMMA InitInvariant == Init => IInv
<1> SUFFICES ASSUME Init PROVE IInv
  OBVIOUS
<1>1. Idle \in CallState /\ NoRow \in RequestRow /\ NoCandidate \in ProposalRow
  BY DEF Idle, CallState, Pcs, NoRow, RequestRow, NoCandidate, ProposalRow
<1>2. TypeOK BY <1>1 DEF Init, TypeOK
<1>3. \A r : ApprovedOf(r) = {} BY DEF Init, ApprovedOf, NoCandidate
<1>4. GoodTables
  <2>1. RowsAreLinked BY DEF Init, RowsAreLinked, NoRow, NoCandidate
  <2>2. HeadcountNotExceeded
    BY <1>3, FS_EmptySet DEF Init, HeadcountNotExceeded, NoRow
  <2>3. VerdictsOnlyUnderReview BY DEF Init, VerdictsOnlyUnderReview, NoCandidate
  <2> QED BY <1>2, <2>1, <2>2, <2>3 DEF GoodTables, TypeOK
<1>5. ASSUME NEW c \in Calls PROVE GoodCall(c, call[c])
  BY <1>1 DEF Init, GoodCall, Idle, LockedPcs
<1> QED BY <1>4, <1>5, InvariantByCall DEF GoodCalls

LEMMA NextInvariant == IInv /\ [Next]_vars => IInv'
<1> SUFFICES ASSUME IInv, [Next]_vars PROVE IInv'
  OBVIOUS
<1>1. ASSUME NEW r \in Requests, NEW e \in Employees, NEW h \in Headcounts,
             CreateRequest(r, e, h)
      PROVE  IInv'
  BY <1>1, CreateRequestKeepsInvariant
<1>2. ASSUME NEW c \in Calls,
             Begin(c) \/ ProposeStep(c) \/ SubmitStep(c) \/ DecideLock(c) \/ DecideStep(c)
      PROVE  IInv'
  <2>1. CASE Begin(c) BY <2>1, BeginKeepsInvariant
  <2>2. CASE ProposeStep(c)
    BY <2>2, RoutingKeepsInvariant, ProposeInsertKeepsInvariant DEF ProposeStep
  <2>3. CASE SubmitStep(c)
    BY <2>3, RoutingKeepsInvariant, ResolvingKeepsInvariant, SubmitWriteKeepsInvariant
       DEF SubmitStep
  <2>4. CASE DecideLock(c) BY <2>4, DecideLockKeepsInvariant
  <2>5. CASE DecideStep(c)
    BY <2>5, DecidingKeepsInvariant, DecideCommitKeepsInvariant DEF DecideStep
  <2> QED BY <1>2, <2>1, <2>2, <2>3, <2>4, <2>5
<1>3. ASSUME NEW c \in Calls, Die(c) PROVE IInv'
  BY <1>3, EndKeepsInvariant DEF Die
<1>4. CASE DirectoryChanges \/ UNCHANGED vars
  <2>1. env' \in Environments /\ UNCHANGED <<request, proposal, lock, call>>
    BY <1>4 DEF DirectoryChanges, vars, IInv, TypeOK
  <2>2. \A r : ApprovedOf(r)' = ApprovedOf(r) BY <2>1 DEF ApprovedOf
  <2>3. GoodTables'
    BY <2>1, <2>2, InvariantByCall DEF GoodTables, RowsAreLinked, HeadcountNotExceeded,
                                       VerdictsOnlyUnderReview
  <2>4. GoodCalls'
    BY <2>1, <2>2, InvariantByCall DEF GoodCalls, GoodCall
  <2> QED BY <2>3, <2>4, InvariantByCallNext
<1> QED BY <1>1, <1>2, <1>3, <1>4 DEF Next

\* Every reachable state is well typed and satisfies the inductive invariant.
THEOREM InvariantHolds == Spec => []IInv
BY InitInvariant, NextInvariant, PTL DEF Spec

\* Whatever the number of calls racing in decide, a request never holds more
\* approved candidates than its headcount.
THEOREM HeadcountTheorem == Spec => []HeadcountNotExceeded
<1>1. IInv => HeadcountNotExceeded BY DEF IInv
<1> QED BY <1>1, InvariantHolds, PTL

\* No decide call overwrites a verdict it has not read.
THEOREM NoLostDecision == Spec => []DecisionBuildsOnCurrentStatus
<1>1. IInv => DecisionBuildsOnCurrentStatus BY DEF IInv
<1> QED BY <1>1, InvariantHolds, PTL

\* Nobody is approved or rejected before the request was submitted.
THEOREM VerdictsTheorem == Spec => []VerdictsOnlyUnderReview
<1>1. IInv => VerdictsOnlyUnderReview BY DEF IInv
<1> QED BY <1>1, InvariantHolds, PTL
-----------------------------------------------------------------------------
(* Refinement of the ledger.                                               *)

\* A step that leaves both tables alone is invisible in the ledger.
LEMMA TablesAloneIsStutter ==
  ASSUME UNCHANGED <<request, proposal>>
  PROVE  UNCHANGED Ledger!ledger
BY DEF Ledger!ledger

LEMMA CreateRequestIsOpen ==
  ASSUME IInv, NEW r \in Requests, NEW e \in Employees, NEW h \in Headcounts,
         CreateRequest(r, e, h)
  PROVE  Ledger!Open(r, h)
<1>1. ASSUME NEW s \in Requests
      PROVE  /\ request'[s].status = IF s = r THEN "open" ELSE request[s].status
             /\ request'[s].headcount = IF s = r THEN h ELSE request[s].headcount
  BY DEF CreateRequest, IInv, TypeOK
<1>2. request[r].status = "none" /\ proposal' = proposal
  BY DEF CreateRequest
<1> QED BY <1>1, <1>2 DEF Ledger!Open

LEMMA ProposeInsertIsAttach ==
  ASSUME IInv, NEW c \in Calls, NEW p \in Proposals, ProposeInsert(c, p)
  PROVE  \E r \in Requests : Ledger!Attach(p, r)
<1>0. PICK r : r = call[c].request OBVIOUS
<1>1. r \in Requests /\ request[r].status # "none" /\ proposal[p].status = "none"
  BY <1>0 DEF ProposeInsert, At, IInv, CallsKnowTheirRows
<1>2. ASSUME NEW q \in Proposals
      PROVE  /\ proposal'[q].request = IF q = p THEN r ELSE proposal[q].request
             /\ proposal'[q].status = IF q = p THEN "proposed" ELSE proposal[q].status
  BY <1>0 DEF ProposeInsert, IInv, TypeOK
<1>3. request' = request BY DEF ProposeInsert
<1> QED BY <1>1, <1>2, <1>3 DEF Ledger!Attach

\* The first submit to write sends the request for review; a later one only
\* replaces the reviewing DM, which the ledger does not record.
LEMMA SubmitWriteIsSendForReview ==
  ASSUME IInv, NEW c \in Calls, SubmitWrite(c)
  PROVE  (\E r \in Requests : Ledger!SendForReview(r)) \/ UNCHANGED Ledger!ledger
<1>0. PICK r : r = call[c].request OBVIOUS
<1>1. /\ r \in Requests /\ request[r].status # "none" /\ proposal' = proposal
      /\ \E p \in Proposals : proposal[p].request = r
  BY <1>0 DEF SubmitWrite, At, IInv, CallsKnowTheirRows, SubmitPcs
<1>2. request[r] \in RequestRow BY <1>1 DEF IInv, TypeOK
<1>3. ASSUME NEW s \in Requests
      PROVE  /\ request'[s].status = IF s = r THEN "pending_dm_review" ELSE request[s].status
             /\ request'[s].headcount = request[s].headcount
  BY <1>0, <1>2 DEF SubmitWrite, IInv, TypeOK, RequestRow
<1>4. CASE request[r].status = "open"
  BY <1>1, <1>3, <1>4 DEF Ledger!SendForReview
<1>5. CASE request[r].status = "pending_dm_review"
  BY <1>1, <1>3, <1>5 DEF Ledger!ledger
<1> QED BY <1>1, <1>2, <1>4, <1>5 DEF RequestRow

LEMMA DecideCommitIsVerdict ==
  ASSUME IInv, NEW c \in Calls, DecideCommit(c)
  PROVE  \E r \in Requests, p \in Proposals : Ledger!Approve(p, r) \/ Ledger!Reject(p, r)
<1>0. PICK r, p, d :
        r = call[c].request /\ p = call[c].proposal /\ d = call[c].decision
  OBVIOUS
<1>1. /\ r \in Requests /\ p \in Proposals /\ proposal[p].request = r
      /\ request[r].status = "pending_dm_review" /\ d \in {"approved", "rejected"}
      /\ proposal[p].status \in {"proposed", "approved"}
      /\ d = "approved" => /\ proposal[p].status = "proposed"
                           /\ Cardinality(ApprovedOf(r)) < request[r].headcount
  <2>1. GoodCall(c, call[c]) BY InvariantByCall DEF GoodCalls
  <2> QED BY <1>0, <2>1 DEF GoodCall, DecideCommit, At, DecidePcs, LockedPcs
<1>2. ASSUME NEW q \in Proposals
      PROVE  /\ proposal'[q].request = proposal[q].request
             /\ proposal'[q].status = IF q = p THEN d ELSE proposal[q].status
  <2>1. proposal[p] \in ProposalRow BY <1>1 DEF IInv, TypeOK
  <2> QED BY <1>0, <1>1, <2>1 DEF DecideCommit, IInv, TypeOK, ProposalRow
<1>3. request' = request BY DEF DecideCommit
<1>4. Ledger!Approved(r) = ApprovedOf(r) BY DEF Ledger!Approved, ApprovedOf
<1>5. Ledger!Cardinality(ApprovedOf(r)) = Cardinality(ApprovedOf(r))
  BY DEF Ledger!Cardinality, Cardinality
<1>6. CASE d = "approved"
  BY <1>1, <1>2, <1>3, <1>4, <1>5, <1>6 DEF Ledger!Approve
<1>7. CASE d = "rejected"
  BY <1>1, <1>2, <1>3, <1>7 DEF Ledger!Reject
<1> QED BY <1>1, <1>6, <1>7

LEMMA StepIsLedgerStep ==
  IInv /\ [Next]_vars => [Ledger!LedgerNext]_(Ledger!ledger)
<1> SUFFICES ASSUME IInv, [Next]_vars PROVE [Ledger!LedgerNext]_(Ledger!ledger)
  OBVIOUS
<1>1. ASSUME NEW r \in Requests, NEW e \in Employees, NEW h \in Headcounts,
             CreateRequest(r, e, h)
      PROVE  Ledger!LedgerNext
  BY <1>1, CreateRequestIsOpen DEF Ledger!LedgerNext
<1>2. ASSUME NEW c \in Calls, NEW p \in Proposals, ProposeInsert(c, p)
      PROVE  Ledger!LedgerNext
  BY <1>2, ProposeInsertIsAttach DEF Ledger!LedgerNext
<1>3. ASSUME NEW c \in Calls, SubmitWrite(c)
      PROVE  Ledger!LedgerNext \/ UNCHANGED Ledger!ledger
  BY <1>3, SubmitWriteIsSendForReview DEF Ledger!LedgerNext
<1>4. ASSUME NEW c \in Calls, DecideCommit(c)
      PROVE  Ledger!LedgerNext
  BY <1>4, DecideCommitIsVerdict DEF Ledger!LedgerNext
<1>5. ASSUME NEW c \in Calls, Begin(c) PROVE UNCHANGED <<request, proposal>>
  BY <1>5 DEF Begin, BeginPropose, BeginSubmit, BeginDecide
<1>6. ASSUME NEW c \in Calls,
             \/ ProposeRoute(c) \/ SubmitRoute(c) \/ SubmitCount(c) \/ ResolveProject(c)
             \/ ResolveAuthorDm(c) \/ ResolveAuthorPm(c) \/ ResolveManager(c)
      PROVE  UNCHANGED <<request, proposal>>
  BY <1>6 DEF ProposeRoute, SubmitRoute, SubmitCount, ResolveProject, ResolveAuthorDm,
              ResolveAuthorPm, ResolveManager
<1>7. ASSUME NEW c \in Calls,
             DecideLock(c) \/ DecideRead(c) \/ DecideCount(c) \/ DecideWrite(c) \/ Die(c)
      PROVE  UNCHANGED <<request, proposal>>
  BY <1>7 DEF DecideLock, DecideRead, DecideCount, DecideWrite, Die
<1>8. DirectoryChanges \/ UNCHANGED vars => UNCHANGED <<request, proposal>>
  BY DEF DirectoryChanges, vars
<1> QED BY <1>1, <1>2, <1>3, <1>4, <1>5, <1>6, <1>7, <1>8, TablesAloneIsStutter
        DEF Next, ProposeStep, SubmitStep, DecideStep

\* The interleaved calls implement the ledger: verdicts take effect one at a
\* time, within the headcount, and a rejection is final.
THEOREM LedgerRefinement == Spec => ImplementsLedger
<1>1. Init => Ledger!LedgerInit
  BY DEF Init, Ledger!LedgerInit, NoRow, NoCandidate
<1> QED BY <1>1, StepIsLedgerStep, InvariantHolds, PTL
        DEF Spec, ImplementsLedger, Ledger!LedgerSpec
=============================================================================

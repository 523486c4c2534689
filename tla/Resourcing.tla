----------------------------- MODULE Resourcing -----------------------------
(***************************************************************************)
(* Resourcing requests and the candidates proposed on them                 *)
(* (src/modules/resourcing/resourcing.service.ts).                         *)
(*                                                                         *)
(* A call is an HTTP request in flight; every await of the service is a    *)
(* step of its own, so calls interleave between a check and the write it   *)
(* guards.  createProposal and submit write without a transaction; decide  *)
(* runs its final checks and its write in a READ COMMITTED transaction     *)
(* that holds the request row FOR UPDATE.  A call refused by its first     *)
(* checks changes nothing and is not a step.                               *)
(***************************************************************************)
EXTENDS Integers, FiniteSets

CONSTANTS
  Employees, Requests, Proposals,
  Calls,          \* calls that may be in flight at once
  Headcounts,     \* headcounts a request may be created with
  Environments,   \* what other services may make the directory look like
  NoOne, NoRequest, NoProposal, NoCall

(***************************************************************************)
(* An environment is what the routing and reviewer look-ups can find:      *)
(*   routedUm[r]    the manager of the department r names                  *)
(*   projectDms[r]  the DMs of the active assignments on r's project       *)
(*   roles[e]       the built-in functional roles e holds                  *)
(*   manager[e]     e's managerId                                          *)
(***************************************************************************)
Environment ==
  [routedUm : [Requests -> Employees \cup {NoOne}],
   projectDms : [Requests -> SUBSET Employees],
   roles : [Employees -> SUBSET {"DM", "PM"}],
   manager : [Employees -> Employees \cup {NoOne}]]

ASSUME FiniteTables == IsFiniteSet(Proposals) /\ IsFiniteSet(Calls)
ASSUME HeadcountsAssumption == Headcounts \subseteq 1..99
ASSUME EnvironmentsAssumption ==
  Environments \subseteq Environment /\ Environments # {}
ASSUME NullsAssumption ==
  /\ NoOne \notin Employees /\ NoRequest \notin Requests
  /\ NoProposal \notin Proposals /\ NoCall \notin Calls

VARIABLES
  request,    \* the resourcing_requests table
  proposal,   \* the resourcing_proposals table
  lock,       \* lock[r]: the call whose transaction holds row r FOR UPDATE
  call,       \* call[c]: where c is in its handler, and what it has read
  env         \* the directory as the other services left it

vars == <<request, proposal, lock, call, env>>

ProposePcs == {"propose_route", "propose_insert"}
SubmitPcs == {"submit_route", "submit_count", "resolve_project",
              "resolve_dm", "resolve_pm", "resolve_manager", "submit_write"}
LockedPcs == {"decide_read", "decide_count", "decide_write", "decide_commit"}
DecidePcs == {"decide_lock"} \cup LockedPcs
Pcs == {"idle"} \cup ProposePcs \cup SubmitPcs \cup DecidePcs

RequestRow ==
  [status : {"none", "open", "pending_dm_review"},
   author : Employees \cup {NoOne}, headcount : Headcounts \cup {0},
   reviewingDm : Employees \cup {NoOne}]

ProposalRow ==
  [request : Requests \cup {NoRequest},
   status : {"none", "proposed", "approved", "rejected"}]

CallState ==
  [pc : Pcs, actor : Employees \cup {NoOne},
   request : Requests \cup {NoRequest}, proposal : Proposals \cup {NoProposal},
   decision : {"none", "approved", "rejected"},
   seen : {"none", "proposed", "approved", "rejected"},
   dm : Employees \cup {NoOne}]

NoRow == [status |-> "none", author |-> NoOne, headcount |-> 0, reviewingDm |-> NoOne]
NoCandidate == [request |-> NoRequest, status |-> "none"]
Idle ==
  [pc |-> "idle", actor |-> NoOne, request |-> NoRequest, proposal |-> NoProposal,
   decision |-> "none", seen |-> "none", dm |-> NoOne]

TypeOK ==
  /\ request \in [Requests -> RequestRow]
  /\ proposal \in [Proposals -> ProposalRow]
  /\ lock \in [Requests -> Calls \cup {NoCall}]
  /\ call \in [Calls -> CallState]
  /\ env \in Environments

Init ==
  /\ request = [r \in Requests |-> NoRow]
  /\ proposal = [p \in Proposals |-> NoCandidate]
  /\ lock = [r \in Requests |-> NoCall]
  /\ call = [c \in Calls |-> Idle]
  /\ env \in Environments

ApprovedOf(r) ==
  {p \in Proposals : proposal[p].request = r /\ proposal[p].status = "approved"}

-----------------------------------------------------------------------------
(* Control of a call.                                                      *)

Start(c, first) ==
  call[c].pc = "idle" /\ call' = [call EXCEPT ![c] = first]
At(c, pc) == call[c].pc = pc
Goto(c, pc) == call' = [call EXCEPT ![c].pc = pc]
End(c) == call' = [call EXCEPT ![c] = Idle]

\* Commit or rollback: the row lock the call holds, if any, is released.
Release(c) == lock' = [r \in Requests |-> IF lock[r] = c THEN NoCall ELSE lock[r]]

-----------------------------------------------------------------------------
(* createRequest: one insert, by an author whose DM or PM role grants the  *)
(* permission (the seed gives it to no other role).                        *)
CreateRequest(r, e, h) ==
  /\ request[r].status = "none"
  /\ env.roles[e] # {}
  /\ request' = [request EXCEPT ![r] =
       [status |-> "open", author |-> e, headcount |-> h, reviewingDm |-> NoOne]]
  /\ UNCHANGED <<proposal, lock, call, env>>

\* The model's bound: the table has a row left for every createProposal call.
RoomForProposal ==
  Cardinality({c \in Calls : call[c].pc \in ProposePcs})
    < Cardinality({p \in Proposals : proposal[p].status = "none"})

-----------------------------------------------------------------------------
(* createProposal: the request is read once; routing and the candidate are *)
(* looked up; the insert does not look at the request again.  The insert's *)
(* foreign key waits for a decide transaction that holds the request row.  *)
BeginPropose(c, e, r) ==
  /\ request[r].status = "open"
  /\ RoomForProposal
  /\ Start(c, [Idle EXCEPT !.pc = "propose_route", !.actor = e, !.request = r])
  /\ UNCHANGED <<request, proposal, lock, env>>

ProposeRoute(c) ==
  /\ At(c, "propose_route")
  /\ IF env.routedUm[call[c].request] = call[c].actor
       THEN Goto(c, "propose_insert")
       ELSE End(c)
  /\ UNCHANGED <<request, proposal, lock, env>>

ProposeInsert(c, p) ==
  /\ At(c, "propose_insert")
  /\ lock[call[c].request] = NoCall
  /\ proposal[p].status = "none"
  /\ proposal' = [proposal EXCEPT ![p] =
       [request |-> call[c].request, status |-> "proposed"]]
  /\ End(c)
  /\ UNCHANGED <<request, lock, env>>

-----------------------------------------------------------------------------
(* submit: request read, routing, candidate count, reviewing DM look-ups,  *)
(* then an update of the row by id whatever its status is by then.         *)
BeginSubmit(c, e, r) ==
  /\ request[r].status = "open"
  /\ Start(c, [Idle EXCEPT !.pc = "submit_route", !.actor = e, !.request = r])
  /\ UNCHANGED <<request, proposal, lock, env>>

SubmitRoute(c) ==
  /\ At(c, "submit_route")
  /\ IF env.routedUm[call[c].request] = call[c].actor
       THEN Goto(c, "submit_count")
       ELSE End(c)
  /\ UNCHANGED <<request, proposal, lock, env>>

\* Mutant: the count of candidates is dropped.
SubmitCountSkipped(c) ==
  /\ At(c, "submit_count")
  /\ Goto(c, "resolve_project")
  /\ UNCHANGED <<request, proposal, lock, env>>

SubmitCount(c) ==
  /\ At(c, "submit_count")
  /\ IF \E p \in Proposals : /\ proposal[p].request = call[c].request
                             /\ proposal[p].status = "proposed"
       THEN Goto(c, "resolve_project")
       ELSE End(c)
  /\ UNCHANGED <<request, proposal, lock, env>>

Resolved(c, dm) ==
  call' = [call EXCEPT ![c] = [@ EXCEPT !.pc = "submit_write", !.dm = dm]]

\* findFirst without an order: any of the active assignments may be found.
ResolveProject(c) ==
  /\ At(c, "resolve_project")
  /\ LET dms == env.projectDms[call[c].request]
     IN IF dms = {} THEN Goto(c, "resolve_dm")
                    ELSE \E dm \in dms : Resolved(c, dm)
  /\ UNCHANGED <<request, proposal, lock, env>>

ResolveAuthorDm(c) ==
  /\ At(c, "resolve_dm")
  /\ LET author == request[call[c].request].author
     IN IF "DM" \in env.roles[author] THEN Resolved(c, author)
                                      ELSE Goto(c, "resolve_pm")
  /\ UNCHANGED <<request, proposal, lock, env>>

ResolveAuthorPm(c) ==
  /\ At(c, "resolve_pm")
  /\ IF "PM" \in env.roles[request[call[c].request].author]
       THEN Goto(c, "resolve_manager")
       ELSE Resolved(c, NoOne)
  /\ UNCHANGED <<request, proposal, lock, env>>

ResolveManager(c) ==
  /\ At(c, "resolve_manager")
  /\ Resolved(c, env.manager[request[call[c].request].author])
  /\ UNCHANGED <<request, proposal, lock, env>>

SubmitWrite(c) ==
  /\ At(c, "submit_write")
  /\ lock[call[c].request] = NoCall
  /\ request' = [request EXCEPT ![call[c].request] =
       [@ EXCEPT !.status = "pending_dm_review", !.reviewingDm = call[c].dm]]
  /\ End(c)
  /\ UNCHANGED <<proposal, lock, env>>

-----------------------------------------------------------------------------
(* decide: reviewer and status are checked on a read outside the           *)
(* transaction; the proposal is read again and the approvals counted under *)
(* the row lock; the update is conditional on the status read.             *)
BeginDecide(c, e, p, d) ==
  LET r == proposal[p].request
  IN /\ r \in Requests
     /\ request[r].reviewingDm = e /\ request[r].status = "pending_dm_review"
     /\ Start(c, [Idle EXCEPT !.pc = "decide_lock", !.actor = e, !.request = r,
                              !.proposal = p, !.decision = d])
     /\ UNCHANGED <<request, proposal, lock, env>>

\* Mutant: the request row is read without FOR UPDATE.
DecideLockNoWait(c) ==
  /\ At(c, "decide_lock")
  /\ Goto(c, "decide_read")
  /\ UNCHANGED <<request, proposal, lock, env>>

DecideLock(c) ==
  /\ At(c, "decide_lock")
  /\ lock[call[c].request] = NoCall
  /\ lock' = [lock EXCEPT ![call[c].request] = c]
  /\ Goto(c, "decide_read")
  /\ UNCHANGED <<request, proposal, env>>

\* Mutant: the proposal is not looked at again under the lock for a rejection.
DecideReadApprovalsOnly(c) ==
  LET current == proposal[call[c].proposal].status
      next == IF call[c].decision = "approved" THEN "decide_count" ELSE "decide_write"
  IN /\ At(c, "decide_read")
     /\ IF call[c].decision = "approved" /\ current # "proposed"
          THEN End(c) /\ Release(c)
          ELSE /\ call' = [call EXCEPT ![c] = [@ EXCEPT !.pc = next, !.seen = current]]
               /\ lock' = lock
     /\ UNCHANGED <<request, proposal, env>>

DecideRead(c) ==
  LET current == proposal[call[c].proposal].status
      refused == \/ current = "rejected"
                 \/ call[c].decision = "approved" /\ current # "proposed"
      next == IF call[c].decision = "approved" THEN "decide_count" ELSE "decide_write"
  IN /\ At(c, "decide_read")
     /\ IF refused
          THEN End(c) /\ Release(c)
          ELSE /\ call' = [call EXCEPT ![c] = [@ EXCEPT !.pc = next, !.seen = current]]
               /\ lock' = lock
     /\ UNCHANGED <<request, proposal, env>>

\* Mutant: off by one in the headcount comparison.
DecideCountOneOver(c) ==
  /\ At(c, "decide_count")
  /\ IF Cardinality(ApprovedOf(call[c].request)) > request[call[c].request].headcount
       THEN End(c) /\ Release(c)
       ELSE Goto(c, "decide_write") /\ lock' = lock
  /\ UNCHANGED <<request, proposal, env>>

\* Mutant: a refused approval leaves its transaction open.
DecideCountLeavesOpen(c) ==
  /\ At(c, "decide_count")
  /\ lock' = lock
  /\ IF Cardinality(ApprovedOf(call[c].request)) >= request[call[c].request].headcount
       THEN End(c)
       ELSE Goto(c, "decide_write")
  /\ UNCHANGED <<request, proposal, env>>

DecideCount(c) ==
  /\ At(c, "decide_count")
  /\ IF Cardinality(ApprovedOf(call[c].request)) >= request[call[c].request].headcount
       THEN End(c) /\ Release(c)
       ELSE Goto(c, "decide_write") /\ lock' = lock
  /\ UNCHANGED <<request, proposal, env>>

DecideWrite(c) ==
  /\ At(c, "decide_write")
  /\ IF proposal[call[c].proposal].status = call[c].seen
       THEN Goto(c, "decide_commit") /\ lock' = lock
       ELSE End(c) /\ Release(c)
  /\ UNCHANGED <<request, proposal, env>>

DecideCommit(c) ==
  /\ At(c, "decide_commit")
  /\ proposal' = [proposal EXCEPT ![call[c].proposal] =
       [@ EXCEPT !.status = call[c].decision]]
  /\ End(c) /\ Release(c)
  /\ UNCHANGED <<request, env>>

-----------------------------------------------------------------------------
(* A call dies between two steps: a lost connection, the transaction's     *)
(* timeout or a process crash.  An uncommitted write is rolled back.       *)
Die(c) ==
  /\ call[c].pc # "idle"
  /\ End(c) /\ Release(c)
  /\ UNCHANGED <<request, proposal, env>>

\* Another service changes routing, project assignments, roles or managers.
DirectoryChanges ==
  /\ env' \in Environments
  /\ UNCHANGED <<request, proposal, lock, call>>

-----------------------------------------------------------------------------
Begin(c) ==
  \E e \in Employees :
    \/ \E r \in Requests : BeginPropose(c, e, r) \/ BeginSubmit(c, e, r)
    \/ \E p \in Proposals, d \in {"approved", "rejected"} : BeginDecide(c, e, p, d)

ProposeStep(c) == ProposeRoute(c) \/ \E p \in Proposals : ProposeInsert(c, p)

SubmitStep(c) ==
  \/ SubmitRoute(c) \/ SubmitCount(c) \/ SubmitWrite(c)
  \/ ResolveProject(c) \/ ResolveAuthorDm(c) \/ ResolveAuthorPm(c) \/ ResolveManager(c)

DecideStep(c) ==
  DecideRead(c) \/ DecideCount(c) \/ DecideWrite(c) \/ DecideCommit(c)

Next ==
  \/ \E r \in Requests, e \in Employees, h \in Headcounts : CreateRequest(r, e, h)
  \/ \E c \in Calls :
       Begin(c) \/ ProposeStep(c) \/ SubmitStep(c) \/ DecideLock(c) \/ DecideStep(c) \/ Die(c)
  \/ DirectoryChanges

Spec == Init /\ [][Next]_vars

(***************************************************************************)
(* A call in flight is driven by the event loop, so its enabled steps are  *)
(* taken; statements that wait for the row lock queue in PostgreSQL and    *)
(* are granted it in turn, hence strong fairness for the three of them.    *)
(***************************************************************************)
Waiting(c) ==
  DecideLock(c) \/ SubmitWrite(c) \/ \E p \in Proposals : ProposeInsert(c, p)

Fairness ==
  \A c \in Calls :
    WF_vars(ProposeRoute(c) \/ SubmitStep(c) \/ DecideStep(c)) /\ SF_vars(Waiting(c))

FairSpec == Spec /\ Fairness

-----------------------------------------------------------------------------
(* Properties.                                                             *)

\* However approvals race and reversals free slots, a request never holds
\* more approved candidates than its headcount (decide's count under the
\* row lock, lines 336-346).
HeadcountNotExceeded ==
  \A r \in Requests : Cardinality(ApprovedOf(r)) <= request[r].headcount

\* No decision is lost: between decide's read of a proposal under the lock
\* and its commit nobody else changes that proposal, and what is about to
\* be written is a legal successor of what is there.
DecisionBuildsOnCurrentStatus ==
  \A c \in Calls : call[c].pc \in {"decide_count", "decide_write", "decide_commit"} =>
    LET current == proposal[call[c].proposal].status
    IN /\ current = call[c].seen
       /\ current = "proposed" \/ (current = "approved" /\ call[c].decision = "rejected")

\* A candidate has a verdict only on a request that went through submit, so
\* the reviewing DM had been resolved before anybody could decide.
VerdictsOnlyUnderReview ==
  \A p \in Proposals : proposal[p].status \in {"approved", "rejected"} =>
    request[proposal[p].request].status = "pending_dm_review"

\* Every call that is started ends, whoever else holds or waits for the row
\* lock.
CallsEnd ==
  \A c \in Calls : (call[c].pc # "idle") ~> (call[c].pc = "idle")

\* The detailed calls implement the ledger whose verdicts are atomic.
Ledger == INSTANCE ApprovalLedger WITH
  stage <- [r \in Requests |-> request[r].status],
  size <- [r \in Requests |-> request[r].headcount],
  owner <- [p \in Proposals |-> proposal[p].request],
  verdict <- [p \in Proposals |-> proposal[p].status]
ImplementsLedger == Ledger!LedgerSpec

-----------------------------------------------------------------------------
(* The inductive invariant behind the safety properties.                   *)

\* A proposal row is either unused or attached to a created request, and a
\* created request has an author.
RowsAreLinked ==
  /\ \A r \in Requests : request[r].status # "none" => request[r].author \in Employees
  /\ \A p \in Proposals :
       IF proposal[p].status = "none"
         THEN proposal[p].request = NoRequest
         ELSE /\ proposal[p].request \in Requests
              /\ request[proposal[p].request].status # "none"

\* A call works on a created request; past its count, submit's request has a
\* candidate; a decision is about a proposal of its request, under review.
CallsKnowTheirRows ==
  \A c \in Calls : call[c].pc # "idle" =>
    /\ call[c].request \in Requests
    /\ request[call[c].request].status # "none"
    /\ call[c].pc \in SubmitPcs \ {"submit_route", "submit_count"} =>
         \E p \in Proposals : proposal[p].request = call[c].request
    /\ call[c].pc \in DecidePcs =>
         /\ call[c].proposal \in Proposals
         /\ proposal[call[c].proposal].request = call[c].request
         /\ request[call[c].request].status = "pending_dm_review"
         /\ call[c].decision \in {"approved", "rejected"}
         /\ call[c].pc = "decide_count" => call[c].decision = "approved"

\* A transaction past its SELECT FOR UPDATE holds the row lock, alone.
LockHeld ==
  \A c \in Calls : call[c].pc \in LockedPcs => lock[call[c].request] = c

\* Past the count, an approval still has its slot: only the holder of the
\* row lock changes a verdict.
SlotStillFree ==
  \A c \in Calls :
    call[c].pc \in {"decide_write", "decide_commit"} /\ call[c].decision = "approved" =>
      Cardinality(ApprovedOf(call[c].request)) < request[call[c].request].headcount

\* The inductive invariant: typing, the links above and the safety properties.
IInv ==
  /\ TypeOK /\ RowsAreLinked /\ CallsKnowTheirRows /\ LockHeld /\ SlotStillFree
  /\ HeadcountNotExceeded /\ DecisionBuildsOnCurrentStatus /\ VerdictsOnlyUnderReview

-----------------------------------------------------------------------------
(* What the comments say, and concurrent calls do not keep.                *)

\* submit's doc: the reviewing DM is stored once and is immutable.
ReviewingDmStoredOnce ==
  [][\A r \in Requests : request[r].status = "pending_dm_review" =>
       request'[r].reviewingDm = request[r].reviewingDm]_vars
=============================================================================

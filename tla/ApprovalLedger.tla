--------------------------- MODULE ApprovalLedger ---------------------------
(***************************************************************************)
(* What a resourcing request promises: a ledger of verdicts on candidates, *)
(* each verdict given in one indivisible step, in which a request never    *)
(* holds more approvals than its headcount and a rejection is final.       *)
(***************************************************************************)
EXTENDS Integers, FiniteSets

CONSTANTS Requests, Proposals, Headcounts, NoRequest

VARIABLES stage,     \* stage[r]: "none", "open" or "pending_dm_review"
          size,      \* size[r]: the approvals r may hold
          owner,     \* owner[p]: the request candidate p is attached to
          verdict    \* verdict[p]: "none", "proposed", "approved" or "rejected"

ledger == <<stage, size, owner, verdict>>

Approved(r) == {p \in Proposals : owner[p] = r /\ verdict[p] = "approved"}

LedgerInit ==
  /\ stage = [r \in Requests |-> "none"]
  /\ size = [r \in Requests |-> 0]
  /\ owner = [p \in Proposals |-> NoRequest]
  /\ verdict = [p \in Proposals |-> "none"]

Open(r, h) ==
  /\ stage[r] = "none"
  /\ stage' = [stage EXCEPT ![r] = "open"]
  /\ size' = [size EXCEPT ![r] = h]
  /\ UNCHANGED <<owner, verdict>>

Attach(p, r) ==
  /\ stage[r] # "none" /\ verdict[p] = "none"
  /\ owner' = [owner EXCEPT ![p] = r]
  /\ verdict' = [verdict EXCEPT ![p] = "proposed"]
  /\ UNCHANGED <<stage, size>>

SendForReview(r) ==
  /\ stage[r] = "open"
  /\ \E p \in Proposals : owner[p] = r
  /\ stage' = [stage EXCEPT ![r] = "pending_dm_review"]
  /\ UNCHANGED <<size, owner, verdict>>

Approve(p, r) ==
  /\ owner[p] = r /\ stage[r] = "pending_dm_review"
  /\ verdict[p] = "proposed"
  /\ Cardinality(Approved(r)) < size[r]
  /\ verdict' = [verdict EXCEPT ![p] = "approved"]
  /\ UNCHANGED <<stage, size, owner>>

\* A rejection, or the reversal of an approval; nothing follows it.
Reject(p, r) ==
  /\ owner[p] = r /\ stage[r] = "pending_dm_review"
  /\ verdict[p] \in {"proposed", "approved"}
  /\ verdict' = [verdict EXCEPT ![p] = "rejected"]
  /\ UNCHANGED <<stage, size, owner>>

LedgerNext ==
  \E r \in Requests :
    \/ \E h \in Headcounts : Open(r, h)
    \/ SendForReview(r)
    \/ \E p \in Proposals : Attach(p, r) \/ Approve(p, r) \/ Reject(p, r)

LedgerSpec == LedgerInit /\ [][LedgerNext]_ledger
=============================================================================

----------------------------- MODULE MCCampaigns -----------------------------
(* Small instances of Campaigns: lists of two employees a page.            *)
EXTENDS Campaigns, TLC

CONSTANT f1

Dir(matching, active) ==
  [listed |-> {1, 2, 3}, matching |-> (f1 :> matching), active |-> active]

\* The first match moves away, which moves the others up; the last one leaves.
Staff == {Dir({1, 2, 3}, {1, 2, 3}), Dir({2, 3}, {1, 2, 3}), Dir({1, 2, 3}, {1, 2})}

\* Everybody the filter finds, all but one, and a list without filters that
\* names one employee twice.
Invitations ==
  {[filter |-> f1, added |-> {}, excluded |-> {}],
   [filter |-> f1, added |-> {1}, excluded |-> {2}],
   [filter |-> NoFilter, added |-> {2, 3}, excluded |-> {}]}
=============================================================================

---------------------------- MODULE MCResourcing ----------------------------
(* Small instances of Resourcing: a unit manager, two delivery managers.   *)
EXTENDS Resourcing, TLC

CONSTANTS um, dm1, dm2

Dir(projectDms, roles, manager) ==
  [routedUm |-> [r \in Requests |-> um],
   projectDms |-> [r \in Requests |-> projectDms],
   roles |-> [e \in Employees |-> IF e \in DOMAIN roles THEN roles[e] ELSE {}],
   manager |-> [e \in Employees |-> IF e \in DOMAIN manager THEN manager[e] ELSE NoOne]]

\* The project changes hands, loses its assignments, or has an overlap of DMs;
\* the author's own roles come and go.
ChangingDirectory ==
  {Dir({dm1}, dm1 :> {"DM"}, <<>>),
   Dir({dm1, dm2}, dm1 :> {"DM"}, <<>>),
   Dir({}, dm1 :> {"DM", "PM"}, <<>>),
   Dir({}, dm1 :> {"PM"}, dm1 :> dm2),
   Dir({}, dm1 :> {"PM"}, <<>>),
   [Dir({}, <<>>, <<>>) EXCEPT !.routedUm = [r \in Requests |-> dm2]]}
=============================================================================

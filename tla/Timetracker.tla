----------------------------- MODULE Timetracker -----------------------------
(* What the integrations depend on: TimeTracker, which answers each call or *)
(* fails (src/modules/timetracker/timetracker.service.ts), the table that   *)
(* maps its people to employees (external-identity-mapping.service.ts), and *)
(* the clock.                                                              *)
EXTENDS Integers, FiniteSets, Requests

CONSTANTS
  Worlds,         \* what TimeTracker may hold: its reports and its projects
  LastMonth,      \* the months asked for are 1..LastMonth, the earliest first
  People,         \* identifiers of TimeTracker
  Employees,
  Nobody,         \* no employee, no e-mail, no identifier
  IdentityTables, \* what external_identities may hold
  LastTime,       \* the clock stops here
  MaxChanges      \* how often TimeTracker and the identities change

VARIABLES
  now,
  world,          \* what TimeTracker holds now
  identity,       \* identity[p]: the employee a person is mapped to
  changes,        \* how often they have
  inForce         \* inForce[w]: last moment TimeTracker held w; each may have been
                  \* there before the beginning

outside == <<now, world, identity, changes, inForce>>

Months == 1..LastMonth
Times == 1..LastTime

\* A report names the people who submitted hours for the month, each with an
\* e-mail; a project its managers and its members, by e-mail.
Listed(report) == {p \in People : report[p] # Nobody}

WorldInit ==
  /\ now \in Times /\ changes = 0
  /\ world \in Worlds /\ identity \in IdentityTables
  /\ inForce = [w \in Worlds |-> now]

Tick ==
  /\ now < LastTime
  /\ now' = now + 1 /\ inForce' = [inForce EXCEPT ![world] = now + 1]
  /\ UNCHANGED <<world, identity, changes>>

\* What a request has read may be out of date from here on.
Disturb ==
  /\ changes < MaxChanges /\ changes' = changes + 1
  /\ steady' = [c \in Calls |-> steady[c] /\ ~Waiting(c)]

WorldChanges ==
  /\ \E w \in Worlds \ {world} : world' = w /\ inForce' = [inForce EXCEPT ![w] = now]
  /\ Disturb /\ UNCHANGED <<now, identity, call>>

IdentityChanges ==
  /\ \E i \in IdentityTables \ {identity} : identity' = i
  /\ Disturb /\ UNCHANGED <<now, world, inForce, call>>

Outside == WorldChanges \/ IdentityChanges \/ (Tick /\ UNCHANGED requestVars)

\* findByExternalId: a row that was superseded stands for the one it names, and
\* no further.
EmployeeOf(table, p) ==
  IF table[p].supersededBy = Nobody THEN table[p].employee ELSE table[table[p].supersededBy].employee

\* findTimetrackerExternalId: any row of the employee that is not superseded.
PersonsOf(table, e) == {p \in People : table[p].employee = e /\ table[p].supersededBy = Nobody}

HeldSince(w, t) == inForce[w] >= t
=============================================================================

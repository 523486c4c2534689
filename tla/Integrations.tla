---------------------------- MODULE Integrations ----------------------------
(* The synchronisation of projects and the reading of leaves together: one *)
(* process, which may be restarted, and one TimeTracker.                   *)
EXTENDS ProjectsSync, LeavesSync, LeavePeriods

CONSTANT Works   \* which requests may be about assignments, about leaves,
                 \* about pages of employees
VARIABLE work    \* the choice made of them; it stays

RowFields == {"source", "confirmed", "at", "period"}

\* What an earlier synchronisation has left is dated the first moment and was true
\* of some world; what is written by hand has no key of TimeTracker's.
ASSUME IntegrationsAssumption ==
  /\ LastMonth \in Nat \ {0} /\ LastTime \in Nat /\ Window \in Nat /\ Ttl \in Nat \ {0}
  /\ Unlisted \notin Nat /\ Nobody \notin Calls \cup People /\ IsFiniteSet(People)
  /\ \A table \in IdentityTables, p \in People :
       table[p].employee \in Employees \cup {Nobody} /\ table[p].supersededBy \in People \cup {Nobody}
  /\ \A w \in Worlds : \A x \in w.projects, p \in People : <<x.id, p>> \notin ManualRows
  /\ \A row \in ManualRecords : row.source = "manual" /\ RowFields \subseteq DOMAIN row
  /\ \A table \in StoredAssignments : \A k \in DOMAIN table :
       /\ table[k] = NoRow \/ RowFields \subseteq DOMAIN table[k]
       /\ k \in ManualRows \/ (k = <<k[1], k[2]>> /\ table[k].source \in {"none", "timetracker"})
       /\ table[k].source = "timetracker" =>
            /\ k \notin ManualRows /\ table[k].at = 1
            /\ \E w \in Worlds : \E x \in w.projects : \E member \in x.members :
                 /\ x.id = k[1] /\ member[2] = table[k].period
                 /\ \E v \in Worlds, m \in Months : v.report[m][k[2]] = member[1]

integrationVars == <<syncVars, leaveVars, requestVars, outside, work>>

Init == RequestsInit /\ WorldInit /\ SyncInit /\ LeavesInit /\ work \in Works

Begin(c) ==
  /\ \/ "assignments" \in work[c] /\ BeginSyncing(c) /\ UNCHANGED leaveVars
     \/ "leaves" \in work[c] /\ BeginLeaves(c) /\ UNCHANGED syncVars
     \/ "pages" \in work[c] /\ BeginPage(c) /\ UNCHANGED syncVars
  /\ UNCHANGED <<outside, work>>

Serve(c) ==
  /\ UNCHANGED <<outside, work>>
  /\ (ServeSync(c) /\ UNCHANGED leaveVars) \/ (ServeLeaves(c) /\ UNCHANGED syncVars)

\* The database does not answer a reader.
StatementFails(c) ==
  /\ call[c].pc \in {"leaves", "page"} /\ Fail(c)
  /\ UNCHANGED <<syncVars, leaveVars, outside, work>>

\* The process dies with all it has in memory; the bootstrap synchronises again.
Restart ==
  /\ call' = [c \in Calls |-> IF At(c, "idle") THEN NotAsked ELSE [pc |-> "refused"]]
  /\ running' = FALSE
  /\ monthCache' = NoMonths
  /\ batchCache' = NoBatches
  /\ maps' = [x \in MapIds |-> EmptyMap]
  /\ UNCHANGED <<steady, assigned, outside, work>>

Surroundings == Outside /\ UNCHANGED <<syncVars, leaveVars, work>>

Next == Restart \/ Surroundings \/ \E c \in Calls : Begin(c) \/ Serve(c) \/ StatementFails(c)

Spec == Init /\ [][Next]_integrationVars

\* The periods of a list of days are its longest runs of days of one type and
\* approval state, each exactly once and in order, in whatever is answered
\* (groupLeavePeriods).
GroupingIsExact == \A c \in Calls : At(c, "done") => WellGrouped
=============================================================================

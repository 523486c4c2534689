------------------------------ MODULE Directory ------------------------------
(* What is known about employees: definitions and values of fields, the    *)
(* lists and exports made of them, and the records in the sections of a    *)
(* profile, while other systems change the roster and the organisation.    *)
EXTENDS EmployeeList, Records

CONSTANT Works   \* which requests may be about fields, lists, records
VARIABLE work    \* the choice made of them; it stays

directoryVars == <<requestVars, orgVars, registryVars, recordVars, work>>

Init == RequestsInit /\ OrgInit /\ RegistryInit /\ RecordsInit /\ work \in Works

Begin(c) ==
  /\ \/ "fields" \in work[c] /\ BeginRegistry(c) /\ UNCHANGED recordVars
     \/ "lists" \in work[c] /\ BeginList(c) /\ UNCHANGED recordVars
     \/ "records" \in work[c] /\ BeginRecord(c) /\ UNCHANGED registryVars
  /\ UNCHANGED work

Serve(c) ==
  /\ \/ (ServeRegistry(c) \/ ServeList(c)) /\ UNCHANGED recordVars
     \/ (ServeRecord(c) \/ RowFails(c)) /\ UNCHANGED registryVars
  /\ Proceeds /\ UNCHANGED work

StatementFails(c) == ~Compensates(c) /\ Fail(c) /\ Proceeds /\ UNCHANGED <<registryVars, recordVars, work>>

\* The process stops, and with it every request: nobody cleans up.
Crash ==
  /\ \E c \in Calls : Waiting(c)
  /\ call' = [c \in Calls |-> IF Waiting(c) THEN [call[c] EXCEPT !.pc = "refused"] ELSE call[c]]
  /\ Reads /\ Proceeds /\ UNCHANGED <<registryVars, recordVars, work>>

\* Other rows of histories, other pairs and assessments; nobody is removed.  No
\* request about records reads the roster.
RosterMoves ==
  /\ \E c \in Calls : work[c] # {"records"}
  /\ moves < MaxMoves /\ moves' = moves + 1
  /\ roster' \in {next \in RosterTables \ {roster} : \A e \in Employees : Hired(e) => next[e] # Null}
  /\ steady' = [c \in Calls |-> steady[c] /\ ~Waiting(c)]
  /\ UNCHANGED <<call, org, during, definitions, stored, recordVars, work>>

\* Nobody is related to somebody who has not been hired.
RelatesTheHired(o) ==
  \A e \in Employees : ~Hired(e) =>
    /\ o.manager[e] = Nobody /\ o.partner[e] = Nobody
    /\ \A d \in Employees : e \notin {o.manager[d], o.partner[d]}
    /\ \A row \in o.staffing : e \notin {row.employee, row.pm, row.dm}

Surroundings ==
  \/ RosterMoves
  \/ OrgMoves /\ RelatesTheHired(org') /\ UNCHANGED <<call, registryVars, recordVars, work>>

Next == Surroundings \/ Crash \/ \E c \in Calls : Begin(c) \/ Serve(c) \/ StatementFails(c)

Spec == Init /\ [][Next]_directoryVars

\* An invariant: neither a list, nor an export, nor the values or a section of an
\* employee show a viewer what was closed to them from the beginning of the request to its end.
NothingHiddenIsShown == ListsShowNothingHidden /\ ValuesShowNothingHidden /\ SectionsShowNothingHidden

\* A list or an export that nothing has come between is exact: see ListIsExact.
UndisturbedListIsExact == [][\A c \in Calls : ListIsExact(c)]_directoryVars

\* A request about records that nothing has come between is exact: see RecordIsExact.
UndisturbedRecordIsExact == [][\A c \in Calls : RecordIsExact(c)]_directoryVars
=============================================================================

------------------------------ MODULE Audience ------------------------------
(* Who is what to whom, and what that opens: the relations kept by other   *)
(* systems, and the audience the resolver computes from them.  A resolution *)
(* is one step here; what may happen inside one, and what its cache may    *)
(* answer, is the subject of AccessCache.                                   *)
EXTENDS Naturals, FiniteSets, Requests

CONSTANTS
  Employees, Nobody,
  OrgTables,       \* the organisations there may be
  MaxMoves         \* how often they may follow each other

\* Everybody has one manager, or nobody.
ASSUME OrgAssumption ==
  Nobody \notin Employees /\ \A o \in OrgTables : o.manager \in [Employees -> Employees \cup {Nobody}]

VARIABLES
  org,             \* manager, partner, hr, staffing and granted, see OrgTables
  moves,           \* how often the organisation has changed
  during           \* during[c]: the organisations since request c began

orgVars == <<org, moves, during>>

OrgInit == org \in OrgTables /\ moves = 0 /\ during = [c \in Calls |-> {}]

\* Other systems write relations, at any time.
OrgMoves ==
  /\ moves < MaxMoves /\ moves' = moves + 1
  /\ org' \in OrgTables \ {org}
  /\ during' = [c \in Calls |-> IF Waiting(c) THEN during[c] \cup {org'} ELSE during[c]]
  /\ steady' = [c \in Calls |-> steady[c] /\ ~Waiting(c)]

\* A request begins, and one goes on.
Arrives(c) == during' = [during EXCEPT ![c] = {org}] /\ UNCHANGED <<org, moves>>
Proceeds == UNCHANGED orgVars

-----------------------------------------------------------------------------
(* Sections and levels *)

Sections == {"S1", "S2", "S3", "S4", "S5", "S6", "S7", "S8", "S9", "S10", "S11",
             "S12", "S13", "S14", "S15", "S16"}
Rank(level) == CASE level = "none" -> 0 [] level = "R" -> 1 [] level = "RW" -> 2
RoleRank(role) == CASE role \in {"Colleague", "SharedLink"} -> 0 [] role = "ProjectLine" -> 1
                    [] role = "PP" -> 2 [] role = "ReportingLine" -> 3
                    [] role = "Self" -> 4 [] role = "FullAccess" -> 5

\* The grants that read and write some sections, read others, and no more.
Granting(rw, r) ==
  [s \in Sections |-> IF s \in rw THEN "RW" ELSE IF s \in r THEN "R" ELSE "none"]

ReportingLineSections == Granting({"S1", "S4", "S6", "S7", "S8", "S9", "S12", "S13", "S14", "S16"}, Sections)
SelfSections == Granting({"S2", "S3", "S13"}, Sections \ {"S6", "S15"})
ProjectLineSections == [ReportingLineSections EXCEPT !["S2"] = "none", !["S3"] = "none", !["S7"] = "R"]
PpSections == Granting(Sections \ {"S10", "S11", "S15"}, Sections)
FullAccessSections == Granting(Sections, {})
ColleagueSections == Granting({}, {"S1", "S10", "S11", "S16"})

MaxLevel(a, b) == IF Rank(a) >= Rank(b) THEN a ELSE b
UnionOf(maps) ==
  [s \in Sections |-> CHOOSE level \in {m[s] : m \in maps \cup {ColleagueSections}} :
     \A m \in maps \cup {ColleagueSections} : MaxLevel(level, m[s]) = level]

-----------------------------------------------------------------------------
(* Lines of an organisation o *)

\* The n-th manager above somebody; a cycle goes round, within the bound.
Above(o, e) ==
  LET up[n \in 0..Cardinality(Employees)] ==
        IF n = 0 THEN e ELSE IF up[n - 1] = Nobody THEN Nobody ELSE o.manager[up[n - 1]]
  IN  {up[n] : n \in 0..Cardinality(Employees)} \ {Nobody}

InReportingLine(o, viewer, subject) == subject # Nobody /\ viewer \in Above(o, subject)

\* From the people partner up as long as the department is HR.
InHrLine(o, viewer, pp) ==
  LET up[n \in 0..Cardinality(Employees)] ==
        IF n = 0 THEN pp
        ELSE IF up[n - 1] = Nobody \/ o.manager[up[n - 1]] \notin o.hr THEN Nobody
        ELSE o.manager[up[n - 1]]
  IN  pp # Nobody /\ viewer \in {up[n] : n \in 0..Cardinality(Employees)}

ActiveRows(o, subject) == {row \in o.staffing : row.employee = subject /\ row.active}
PmLeg(o, viewer, subject) == \E row \in ActiveRows(o, subject) : InReportingLine(o, viewer, row.pm)
DmLeg(o, viewer, subject) == \E row \in ActiveRows(o, subject) : InReportingLine(o, viewer, row.dm)

\* The project line is asked for when the reporting line does not match.
ProjectLine(o, viewer, subject) ==
  IF InReportingLine(o, viewer, subject) THEN {}
  ELSE IF DmLeg(o, viewer, subject)
       THEN {[role |-> "ProjectLine", sections |-> [ProjectLineSections EXCEPT !["S7"] = "RW"]]}
  ELSE IF PmLeg(o, viewer, subject)
       THEN {[role |-> "ProjectLine", sections |-> ProjectLineSections]} ELSE {}

Matched(o, viewer, subject) ==
  ProjectLine(o, viewer, subject) \cup
  {m \in {[role |-> "ReportingLine", sections |-> ReportingLineSections],
          [role |-> "PP", sections |-> PpSections],
          [role |-> "FullAccess", sections |-> FullAccessSections]} :
     CASE m.role = "ReportingLine" -> InReportingLine(o, viewer, subject)
       [] m.role = "PP" -> InHrLine(o, viewer, o.partner[subject])
       [] m.role = "FullAccess" -> viewer \in o.granted}

AudienceOf(o, viewer, subject) ==
  LET matched == Matched(o, viewer, subject)
  IN  IF viewer = subject THEN [role |-> "Self", sections |-> SelfSections]
      ELSE IF matched = {} THEN [role |-> "Colleague", sections |-> ColleagueSections]
      ELSE [role |-> (CHOOSE m \in matched : \A k \in matched : RoleRank(m.role) >= RoleRank(k.role)).role,
            sections |-> UnionOf({m.sections : m \in matched})]

\* The gate in front of a section of a profile.
Allows(o, viewer, subject, section, minLevel) ==
  LET grant == AudienceOf(o, viewer, subject).sections[section]
  IN  grant # "none" /\ Rank(grant) >= Rank(minLevel)
GrantedSections(audience) == {s \in Sections : audience.sections[s] # "none"}
=============================================================================

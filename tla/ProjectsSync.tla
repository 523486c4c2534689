---------------------------- MODULE ProjectsSync ----------------------------
(***************************************************************************)
(* Synchronisation of project assignments with TimeTracker                 *)
(* (src/modules/integrations/projects-sync.service.ts, .scheduler.ts and   *)
(* project-assignment.mapper.ts) and the rows everybody else reads         *)
(* (src/modules/access/project-assignment.service.ts).  An assignment's    *)
(* dates are one period.                                                   *)
(***************************************************************************)
EXTENDS Timetracker

CONSTANTS
  ManualRows,     \* rows written by hand
  ManualRecords,  \* and what is written in them
  StoredAssignments,
  Window          \* how long a confirmation lasts

VARIABLES
  running,        \* ProjectsSyncService.running
  assigned        \* project_assignments: by source key, or by manual row

syncVars == <<running, assigned>>

Sources == {"timetracker", "manual"}
NoRow == [source |-> "none"]
Stored(k) == assigned[k].source # "none"

SyncInit == running = FALSE /\ assigned \in StoredAssignments

-----------------------------------------------------------------------------
(* ProjectAssignmentMapper: e-mails to people to employees.                *)

\* mergeDirectoryEmployees: a person's first entry counts; buildDirectory: an
\* e-mail of two people is nobody's.
EntryOf(reports, p) ==
  LET named == {m \in Months : reports[m][p] # Nobody}
  IN IF named = {} THEN Nobody ELSE reports[CHOOSE m \in named : \A n \in named : m <= n][p]
Holders(reports, email) == {p \in People : EntryOf(reports, p) = email}
PersonOf(reports, email) ==
  IF Cardinality(Holders(reports, email)) = 1 THEN CHOOSE p \in Holders(reports, email) : TRUE ELSE Nobody

\* resolveEmployee, with what identityMapping answered so far.
ResolvedBy(reports, found, email) ==
  LET p == PersonOf(reports, email)
  IN IF p \in DOMAIN found THEN found[p] ELSE Nobody

ManagersKnown(reports, found, project) ==
  \A email \in {project.pm, project.dm} : ResolvedBy(reports, found, email) # Nobody

\* Members are looked up only in projects whose managers are known.
Wanted(reports, found, projects) ==
  {PersonOf(reports, email) : email \in
     (UNION {{x.pm, x.dm} : x \in projects})
     \cup (UNION {{member[1] : member \in x.members} :
                    x \in {y \in projects : ManagersKnown(reports, found, y)}})}
  \ (DOMAIN found \cup {Nobody})

\* The assignments of a feed; a member whom nobody knows is left out.
Mapped(reports, found, projects) ==
  UNION {{[key |-> <<x.id, PersonOf(reports, member[1])>>,
           employee |-> ResolvedBy(reports, found, member[1]),
           pm |-> ResolvedBy(reports, found, x.pm), dm |-> ResolvedBy(reports, found, x.dm),
           period |-> member[2]] :
            member \in {z \in x.members : ResolvedBy(reports, found, z[1]) # Nobody}} :
         x \in {y \in projects : ManagersKnown(reports, found, y)}}

\* Exact duplicates are dropped (they are one element); others end the sync.
Conflicting(rows) == \E r, s \in rows : r.key = s.key /\ r # s

-----------------------------------------------------------------------------
(* ProjectsSyncService.sync                                                *)

Parts == Months \cup {0}       \* the reports, and the projects

BeginSync(c) ==
  /\ At(c, "idle")
  /\ IF running
     THEN Become(c, [pc |-> "refused"]) /\ UNCHANGED running
     ELSE /\ running' = TRUE
          /\ Become(c, [pc |-> "fetching", at |-> now, got |-> << >>, failed |-> {}])
  /\ Reads /\ UNCHANGED assigned

Awaited(c) == Parts \ (DOMAIN call[c].got \cup call[c].failed)
Got(c, part, answer) ==
  call' = [call EXCEPT ![c].got = [x \in DOMAIN @ \cup {part} |-> IF x = part THEN answer ELSE @[x]]]

\* One of the four answers: what TimeTracker holds at that moment.
Fetch(c) ==
  /\ At(c, "fetching")
  /\ \E part \in Awaited(c) : Got(c, part, IF part = 0 THEN world.projects ELSE world.report[part])
  /\ Reads /\ UNCHANGED syncVars

\* Mutant: a report that fails counts as an empty one.
FetchNothing(c) ==
  /\ At(c, "fetching")
  /\ \E part \in Awaited(c) : Got(c, part, IF part = 0 THEN {} ELSE [p \in People |-> Nobody])
  /\ Reads /\ UNCHANGED syncVars

\* An error, a time-out or an answer that is no JSON object.
FetchFails(c) ==
  /\ At(c, "fetching")
  /\ \E part \in Awaited(c) : call' = [call EXCEPT ![c].failed = @ \cup {part}]
  /\ Reads /\ UNCHANGED syncVars

\* Promise.allSettled: the projects are there or failed, and so are all reports,
\* or one of them failed.
Settled(c) == 0 \notin Awaited(c) /\ (Months \cap Awaited(c) = {} \/ Months \cap call[c].failed # {})

\* finally: whatever happened, the next synchronisation may run.
GiveUp(c) == running' = FALSE /\ Become(c, [pc |-> "refused"]) /\ Reads /\ UNCHANGED assigned

\* validatePayload may refuse what TimeTracker sent.
CheckPayload(c) ==
  /\ At(c, "fetching") /\ Settled(c)
  /\ \/ /\ call[c].failed = {}
        /\ Become(c, [pc |-> "mapping", at |-> call[c].at, projects |-> call[c].got[0],
                      reports |-> [m \in Months |-> call[c].got[m]], found |-> << >>])
        /\ Reads /\ UNCHANGED syncVars
     \/ GiveUp(c)

Lookup(c) ==
  /\ At(c, "mapping")
  /\ \E p \in Wanted(call[c].reports, call[c].found, call[c].projects) :
       call' = [call EXCEPT ![c].found = [x \in DOMAIN @ \cup {p} |->
                   IF x \in DOMAIN @ THEN @[x] ELSE EmployeeOf(identity, p)]]
  /\ Reads /\ UNCHANGED syncVars

Mapping(c) == Mapped(call[c].reports, call[c].found, call[c].projects)
MappingDone(c) == At(c, "mapping") /\ Wanted(call[c].reports, call[c].found, call[c].projects) = {}

Confirm(rows, at) ==
  [k \in DOMAIN assigned |->
     IF \E r \in rows : r.key = k
     THEN LET r == CHOOSE r \in rows : r.key = k
          IN [source |-> "timetracker", employee |-> r.employee, pm |-> r.pm, dm |-> r.dm,
              period |-> r.period, confirmed |-> TRUE, at |-> at]
     ELSE assigned[k]]

DeconfirmMissing(table, rows) ==
  [k \in DOMAIN table |->
     IF table[k].source = "timetracker" /\ k \notin {r.key : r \in rows}
     THEN [table[k] EXCEPT !.confirmed = FALSE] ELSE table[k]]

\* Mutant: the confirmation is dated when it is saved.
SaveDatedNow(c) ==
  /\ MappingDone(c) /\ ~Conflicting(Mapping(c))
  /\ assigned' = DeconfirmMissing(Confirm(Mapping(c), now), Mapping(c))
  /\ running' = FALSE /\ Goto(c, "done") /\ Commits(c)

\* The transaction: every upsert, then updateMany.  Nothing else writes rows
\* that have a source key.
Save(c) ==
  /\ MappingDone(c) /\ ~Conflicting(Mapping(c))
  /\ assigned' = DeconfirmMissing(Confirm(Mapping(c), call[c].at), Mapping(c))
  /\ running' = FALSE /\ Goto(c, "done") /\ Commits(c)

\* A conflicting duplicate, a lookup or the transaction fails.
SyncFails(c) == At(c, "mapping") /\ GiveUp(c)

-----------------------------------------------------------------------------
(* ProjectAssignmentService and the projects section                       *)

\* create and update write rows that have no source key; update only patches
\* the confirmation (and the end of the period).
WriteByHand(c) ==
  /\ At(c, "idle")
  /\ \E k \in ManualRows, row \in ManualRecords :
       assigned' = [assigned EXCEPT ![k] =
          IF Stored(k) THEN [@ EXCEPT !.confirmed = row.confirmed, !.at = row.at] ELSE row]
  /\ Become(c, [pc |-> "done"]) /\ Commits(c) /\ UNCHANGED running

Ended(period) == period.to < now

\* filterActiveAssignments: confirmed rows that have not ended, however old
\* their confirmation is.
ShowProjects(c) ==
  /\ At(c, "idle")
  /\ \E e \in Employees :
       Become(c, [pc |-> "done", shown |-> {k \in DOMAIN assigned :
          /\ Stored(k) /\ assigned[k].employee = e
          /\ assigned[k].confirmed /\ ~Ended(assigned[k].period)}])
  /\ Reads /\ UNCHANGED syncVars

\* isProjectAssignmentActive: what the access resolver goes by.
Active(k) ==
  /\ Stored(k) /\ assigned[k].confirmed
  /\ assigned[k].at # 0 /\ assigned[k].at <= now /\ now - assigned[k].at <= Window
  /\ assigned[k].period.from <= now /\ ~Ended(assigned[k].period)

BeginSyncing(c) == BeginSync(c) \/ WriteByHand(c) \/ ShowProjects(c)
ServeSync(c) == Fetch(c) \/ FetchFails(c) \/ CheckPayload(c) \/ Lookup(c) \/ Save(c) \/ SyncFails(c)

-----------------------------------------------------------------------------
(* Properties                                                              *)

\* Part of the next property: all that is confirmed comes from one synchronisation: rows of two feeds are
\* never mixed, and the flag says whether one is at work.
ConfirmedTogether ==
  /\ running <=> \E c \in Calls : call[c].pc \in {"fetching", "mapping"}
  /\ Cardinality({c \in Calls : call[c].pc \in {"fetching", "mapping"}}) <= 1
  /\ \A k, l \in DOMAIN assigned :
       (/\ Stored(k) /\ assigned[k].source = "timetracker" /\ assigned[k].confirmed
        /\ Stored(l) /\ assigned[l].source = "timetracker" /\ assigned[l].confirmed)
       => assigned[k].at = assigned[l].at

\* What an assignment that gives access says was so in TimeTracker, and its
\* people were known to it by those e-mails, at some moment no longer ago than a
\* confirmation lasts: however long a synchronisation takes, and whatever fails,
\* a removed assignment stops giving access in time (sync's confirmedAt,
\* isProjectAssignmentActive), and no two rows that are confirmed come from
\* different synchronisations.
AccessFollowsTheFeed ==
  ConfirmedTogether /\ \A k \in DOMAIN assigned :
    Stored(k) /\ assigned[k].source = "timetracker" /\ Active(k) =>
      \E w \in Worlds : \E x \in w.projects, member \in UNION {y.members : y \in w.projects} :
        /\ HeldSince(w, now - Window)
        /\ x.id = k[1] /\ member \in x.members /\ member[2] = assigned[k].period
        /\ \E v \in Worlds, m \in Months : HeldSince(v, now - Window) /\ v.report[m][k[2]] = member[1]

\* A person is known by an e-mail if nobody else has it in the reports.
Known(w, p, email) == \A q \in People : EntryOf(w.report, q) = email <=> q = p
EmployeeBy(w, email, e) ==
  e # Nobody /\ \E p \in People : Known(w, p, email) /\ EmployeeOf(identity, p) = e

FedBy(w, k, row) ==
  \E x \in w.projects : \E member \in x.members :
    /\ k[1] = x.id /\ Known(w, k[2], member[1]) /\ row.period = member[2]
    /\ EmployeeBy(w, member[1], row.employee) /\ EmployeeBy(w, x.pm, row.pm) /\ EmployeeBy(w, x.dm, row.dm)

Feeds(w, k) ==
  \E x \in w.projects : \E member \in x.members :
    /\ k[1] = x.id /\ Known(w, k[2], member[1])
    /\ \A email \in {member[1], x.pm, x.dm} : \E e \in Employees : EmployeeBy(w, email, e)

\* A synchronisation during which TimeTracker and the identities stay the same
\* confirms an assignment exactly if TimeTracker has it, between people whom an
\* unambiguous e-mail and an identity connect with employees, and touches no row
\* written by hand (sync, ProjectAssignmentMapper).
UndisturbedSyncIsExact ==
  [][\A c \in Calls : At(c, "mapping") /\ steady[c] /\ call'[c].pc = "done" =>
       \A k \in DOMAIN assigned :
         IF k \in ManualRows THEN assigned'[k] = assigned[k]
         ELSE LET row == assigned'[k]
                  confirmed == row.source # "none" /\ row.confirmed
              IN (confirmed <=> Feeds(world, k)) /\ (confirmed => FedBy(world, k, row))
    ]_<<syncVars, requestVars, outside>>
=============================================================================

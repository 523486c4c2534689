--------------------------- MODULE MCIntegrations ---------------------------
(* Small instances of Integrations: two persons, one project, two months.  *)
EXTENDS TLC, Integrations

CONSTANTS p1, p2, e1, e2, proj, man

\* The e-mail of a person is the person's name unless it was taken over.
Report(first, second) == [p \in People |-> IF p = p1 THEN first ELSE second]
Long == [from |-> 1, to |-> LastTime]
Project(members) == [id |-> proj, pm |-> p1, dm |-> p1, members |-> members]

Ambiguous == <<Report(p1, Nobody), Report(p1, p1)>>

\* Both on the project; the second one gone, or not in the later report; two
\* persons with one e-mail.
WorldTables ==
  {[report |-> <<Report(p1, p2), Report(p1, Nobody)>>, projects |-> {Project({<<p1, Long>>, <<p2, Long>>})}],
   [report |-> <<Report(p1, Nobody), Report(p1, p2)>>, projects |-> {Project({<<p1, Long>>})}],
   [report |-> Ambiguous, projects |-> {Project({<<p1, Long>>})}]}

Mapping1 == [p \in People |-> [employee |-> IF p = p1 THEN e1 ELSE e2, supersededBy |-> Nobody]]
Mapping2 == [Mapping1 EXCEPT ![p2] = [employee |-> e2, supersededBy |-> p1]]
Identities == {Mapping1, Mapping2}

Row(source, e) ==
  [source |-> source, employee |-> e, pm |-> e1, dm |-> e1, period |-> Long, confirmed |-> TRUE, at |-> 1]

\* Nothing yet, or what an earlier synchronisation left.
AssignmentTables ==
  {[k \in ({proj} \X People) \cup ManualRows |-> NoRow],
   [k \in ({proj} \X People) \cup ManualRows |->
      IF k \in ManualRows THEN Row("manual", e2) ELSE Row("timetracker", IF k[2] = p1 THEN e1 ELSE e2)]}

ManualTables == {Row("manual", e1), [Row("manual", e2) EXCEPT !.confirmed = FALSE, !.at = 0]}

\* The three do not share any state of theirs: both requests are about the same.
OneKindOfWork == {[c \in Calls |-> {what}] : what \in {"assignments", "leaves", "pages"}}

\* Assignments are synchronised from the first moment on.  Leaves are read from
\* the second, beginning with one of two reports and the plain identities; those
\* who read them write no assignment.
MCInit ==
  /\ Init
  /\ IF \A c \in Calls : work[c] = {"assignments"} THEN now = 1 /\ batchCache = NoBatches
     ELSE now = 2 /\ identity = Mapping1 /\ world.report # Ambiguous
          /\ \A k \in DOMAIN assigned : ~Stored(k)

MCSpec == MCInit /\ [][Next]_integrationVars

NobodyOrOne == {{}, {p1}}
CallsAreAlike == Permutations(Calls)
=============================================================================

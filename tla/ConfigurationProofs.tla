------------------------- MODULE ConfigurationProofs -------------------------
(* Proofs about requests for roles, saved views and shared links, served   *)
(* together: the tables of roles and views stay consistent although        *)
(* deletes, inserts and renames of several requests interleave; what a     *)
(* link discloses was its creator's to share, and a dead link stays dead;  *)
(* a request that nothing disturbs leaves what it was asked to leave.      *)
EXTENDS Configuration, TLAPS

-----------------------------------------------------------------------------
(* ROLES AND VIEWS                                                         *)

-----------------------------------------------------------------------------
(* What a request about roles or views has in its record.                  *)

KeyRows == PermissionKeys \X (Calls \cup {Nobody})
ShareRows == Users \X (Calls \cup {NoOwner})

AssignState ==
  [pc : {"granting", "self", "holders", "roles", "assign"}, caller : Callers, employee : Staff,
   desired : SUBSET Roles, granting : SUBSET Roles, existing : SUBSET Roles]
CreateState == [pc : {"createRole"}, name : RoleNames, keys : SUBSET PermissionKeys]

\* An update has checked its keys if they were given; without them it ends with
\* the renaming.
UpdateState ==
  {s \in [pc : {"rename", "seeKeys", "deleteKeys", "insertKeys"}, role : Roles, name : RoleNames \cup {NoName},
          keys : SUBSET PermissionKeys, given : {"name", "keys", "both"}, seen : SUBSET KeyRows] :
     /\ s.pc = "rename" => s.name # NoName
     /\ s.pc # "rename" => s.given # "name"
     /\ s.given # "name" => MayHaveKeys(s.role, s.keys)}
DeleteState == [pc : {"deleteRole"}, role : Roles \ {HrAdmin}]
EditState == [pc : {"updateView"}, view : Views, layout : Layouts]
RemoveState == [pc : {"removeView"}, view : Views]
ShareState ==
  [pc : {"seeShares", "deleteShares", "insertShares"}, view : Views, recipients : SUBSET Users,
   seen : SUBSET ShareRows]
TablePcs ==
  {"granting", "self", "holders", "roles", "assign", "createRole", "rename", "seeKeys", "deleteKeys",
   "insertKeys", "deleteRole", "updateView", "removeView", "seeShares", "deleteShares", "insertShares"}

\* Any other request, and one that has not been made or is answered.
Elsewhere(s) == "pc" \in DOMAIN s /\ s.pc \notin TablePcs
Fits(s) ==
  \/ s \in AssignState \/ s \in CreateState \/ s \in UpdateState \/ s \in DeleteState
  \/ s \in EditState \/ s \in RemoveState \/ s \in ShareState \/ Elsewhere(s)
TableCallsFit == DOMAIN call = Calls /\ \A c \in Calls : Fits(call[c])

\* A request that has renamed a role and not committed has the name to itself.
Renaming(s) == s \in UpdateState /\ s.pc # "rename" /\ s.name # NoName
NameIsFree(s) == \A q \in Roles \ {s.role} : role[q].name # s.name
NamesAreKept ==
  /\ \A c \in Calls : Renaming(call[c]) => NameIsFree(call[c])
  /\ \A c, d \in Calls : Renaming(call[c]) /\ Renaming(call[d]) /\ c # d => call[c].name # call[d].name

\* Nobody shares a view with its owner, whether it is still there or not; and a
\* view that a request makes is there once the request is.
SharedWithOthers(s) ==
  /\ view[s.view].owner \notin s.recipients
  /\ s.view \in Calls => ~At(s.view, "idle")
SharesAreWithOthers == \A c \in Calls : call[c] \in ShareState => SharedWithOthers(call[c])
ViewsAreMade == \A c \in Calls : Stored(c) => ~At(c, "idle")

TablesInv ==
  /\ TableCallsFit /\ RolesAreConsistent /\ ViewsAreConsistent
  /\ NamesAreKept /\ SharesAreWithOthers /\ ViewsAreMade

-----------------------------------------------------------------------------
(* Steps in general.                                                       *)

LEMMA StatesByPlace ==
  ASSUME NEW s, Fits(s)
  PROVE  /\ "pc" \in DOMAIN s
         /\ s.pc \in {"granting", "self", "holders", "roles", "assign"} => s \in AssignState
         /\ s.pc = "createRole" => s \in CreateState
         /\ s.pc \in {"rename", "seeKeys", "deleteKeys", "insertKeys"} => s \in UpdateState
         /\ s.pc = "deleteRole" => s \in DeleteState
         /\ s.pc = "updateView" => s \in EditState
         /\ s.pc = "removeView" => s \in RemoveState
         /\ s.pc \in {"seeShares", "deleteShares", "insertShares"} => s \in ShareState
         /\ s.pc \notin TablePcs => Elsewhere(s)
BY DEF Fits, AssignState, CreateState, UpdateState, DeleteState, EditState, RemoveState, ShareState, Elsewhere, TablePcs

LEMMA ElsewhereIsNoWork ==
  ASSUME NEW s, Elsewhere(s)
  PROVE  Fits(s) /\ ~Renaming(s) /\ s \notin ShareState
BY DEF Elsewhere, Fits, Renaming, UpdateState, ShareState, TablePcs

\* One request goes on to s; the tables are as they should be.
LEMMA TablesGoOn ==
  ASSUME TablesInv, NEW c \in Calls, NEW s, call' = [call EXCEPT ![c] = s], s.pc # "idle", Fits(s),
         RolesAreConsistent', ViewsAreConsistent',
         \A d \in Calls \ {c} : Renaming(call[d]) =>
           /\ \A q \in Roles \ {call[d].role} : role'[q].name # call[d].name
           /\ Renaming(s) => s.name # call[d].name,
         Renaming(s) => \A q \in Roles \ {s.role} : role'[q].name # s.name,
         \A d \in Calls \ {c} : call[d] \in ShareState => view'[call[d].view].owner \notin call[d].recipients,
         s \in ShareState =>
           view'[s.view].owner \notin s.recipients /\ (s.view \in Calls \ {c} => ~At(s.view, "idle")),
         \A d \in Calls \ {c} : Stored(d)' => Stored(d)
  PROVE  TablesInv'
<1>1. DOMAIN call' = Calls /\ call'[c] = s /\ \A d \in Calls \ {c} : call'[d] = call[d]
  BY DEF TablesInv, TableCallsFit
<1>2. TableCallsFit'
  <2>1. \A d \in Calls : Fits(call'[d])
    BY <1>1 DEF TablesInv, TableCallsFit
  <2> QED
    BY <1>1, <2>1 DEF TableCallsFit, Fits, Elsewhere
<1>3. \A d \in Calls : At(d, "idle")' => d # c /\ At(d, "idle")
  BY <1>1 DEF At
<1>4. NamesAreKept'
  <2>1. \A d \in Calls : Renaming(call'[d]) => \A q \in Roles \ {call'[d].role} : role'[q].name # call'[d].name
    BY <1>1
  <2>2. \A d, e \in Calls : Renaming(call'[d]) /\ Renaming(call'[e]) /\ d # e => call'[d].name # call'[e].name
    BY <1>1 DEF TablesInv, NamesAreKept
  <2> QED
    BY <2>1, <2>2 DEF NamesAreKept, NameIsFree, Renaming
<1>5. SharesAreWithOthers'
  <2>1. ASSUME NEW d \in Calls, call'[d] \in ShareState
        PROVE  /\ view'[call'[d].view].owner \notin call'[d].recipients
               /\ call'[d].view \in Calls => call'[call'[d].view].pc # "idle"
    <3>1. CASE d = c
      BY <1>1, <2>1, <3>1 DEF At
    <3>2. CASE d # c
      BY <1>1, <2>1, <3>2 DEF TablesInv, SharesAreWithOthers, SharedWithOthers, At
    <3> QED
      BY <3>1, <3>2
  <2> QED
    BY <2>1 DEF SharesAreWithOthers, SharedWithOthers, At
<1>6. ViewsAreMade'
  <2>1. ASSUME NEW d \in Calls, Stored(d)'
        PROVE  ~At(d, "idle")'
    BY <1>3, <2>1 DEF TablesInv, ViewsAreMade
  <2> QED
    BY <2>1 DEF ViewsAreMade
<1> QED
  BY <1>2, <1>4, <1>5, <1>6 DEF TablesInv

LEMMA TablesStay ==
  ASSUME TablesInv, UNCHANGED roleVars, UNCHANGED viewVars
  PROVE  /\ RolesAreConsistent' /\ ViewsAreConsistent'
         /\ \A d \in Calls : Renaming(call[d]) =>
              \A q \in Roles \ {call[d].role} : role'[q].name # call[d].name
         /\ \A d \in Calls : call[d] \in ShareState => view'[call[d].view].owner \notin call[d].recipients
         /\ \A d : Stored(d)' => Stored(d)
<1>1. RolesAreConsistent'
  BY DEF TablesInv, roleVars, RolesAreConsistent, RolesTypeOK, Exists, KeysOfRole
<1>2. ViewsAreConsistent'
  BY DEF TablesInv, viewVars, ViewsAreConsistent, Stored
<1>3. \A d \in Calls : Renaming(call[d]) => \A q \in Roles \ {call[d].role} : role'[q].name # call[d].name
  BY DEF TablesInv, NamesAreKept, NameIsFree, roleVars
<1>4. \A d \in Calls : call[d] \in ShareState => view'[call[d].view].owner \notin call[d].recipients
  BY DEF TablesInv, SharesAreWithOthers, SharedWithOthers, viewVars
<1>5. \A d : Stored(d)' => Stored(d)
  BY DEF Stored, viewVars
<1> QED
  BY <1>1, <1>2, <1>3, <1>4, <1>5

\* A step that only reads, to a state that neither renames nor shares.
LEMMA Reading ==
  ASSUME TablesInv, UNCHANGED roleVars, UNCHANGED viewVars,
         NEW c \in Calls, NEW s, call' = [call EXCEPT ![c] = s], s.pc # "idle", Fits(s),
         ~Renaming(s), s \notin ShareState
  PROVE  TablesInv'
BY TablesGoOn, TablesStay

LEMMA Leaving ==
  ASSUME TablesInv, UNCHANGED roleVars, UNCHANGED viewVars,
         NEW c \in Calls, NEW s, call' = [call EXCEPT ![c] = s], s.pc # "idle", Elsewhere(s)
  PROVE  TablesInv'
BY Reading, ElsewhereIsNoWork

\* Goto, from anywhere.
LEMMA LeavingFor ==
  ASSUME TablesInv, UNCHANGED roleVars, UNCHANGED viewVars,
         NEW c \in Calls, NEW pc, pc \notin TablePcs \cup {"idle"}, Goto(c, pc)
  PROVE  TablesInv'
<1>1. PICK s : s = [call[c] EXCEPT !.pc = pc]
  OBVIOUS
<1>2. "pc" \in DOMAIN call[c]
  BY StatesByPlace DEF TablesInv, TableCallsFit
<1>3. call' = [call EXCEPT ![c] = s] /\ s.pc = pc /\ Elsewhere(s)
  BY <1>1, <1>2 DEF Goto, TablesInv, TableCallsFit, Elsewhere
<1> QED
  BY <1>3, Leaving

-----------------------------------------------------------------------------
(* Requests about roles.                                                   *)

LEMMA RoleTablesBegin ==
  ASSUME TablesInv, UNCHANGED viewVars, NEW c \in Calls, BeginRoles(c)
  PROVE  TablesInv'
<1>1. CASE ListRoles(c) /\ ~Become(c, [pc |-> "refused"])
  <2>1. PICK s : s = [pc |-> "done", roles |-> {r \in Roles : Exists(r)}]
    OBVIOUS
  <2>2. call' = [call EXCEPT ![c] = s] /\ UNCHANGED roleVars
    BY <1>1, <2>1 DEF ListRoles, Become
  <2>3. Elsewhere(s) /\ s.pc # "idle"
    BY <2>1 DEF Elsewhere, TablePcs
  <2> QED
    BY <2>2, <2>3, Leaving
<1>2. CASE MyPermissions(c)
  <2>1. PICK e \in Staff : Become(c, [pc |-> "done", permissions |-> GrantedPermissions(e)])
    BY <1>2 DEF MyPermissions
  <2>2. PICK s : s = [pc |-> "done", permissions |-> GrantedPermissions(e)]
    OBVIOUS
  <2>3. call' = [call EXCEPT ![c] = s] /\ UNCHANGED roleVars /\ Elsewhere(s) /\ s.pc # "idle"
    BY <1>2, <2>1, <2>2 DEF MyPermissions, Become, Elsewhere, TablePcs
  <2> QED
    BY <2>3, Leaving
<1>3. ASSUME Become(c, [pc |-> "refused"]), UNCHANGED roleVars
      PROVE  TablesInv'
  <2>1. PICK s : s = [pc |-> "refused"]
    OBVIOUS
  <2>2. call' = [call EXCEPT ![c] = s] /\ Elsewhere(s) /\ s.pc # "idle"
    BY <1>3, <2>1 DEF Become, Elsewhere, TablePcs
  <2> QED
    BY <1>3, <2>2, Leaving
<1>4. CASE BeginAssignment(c) /\ ~Become(c, [pc |-> "refused"])
  <2>1. PICK caller \in Callers, e \in Staff, desired \in SUBSET Roles :
          Become(c, [pc |-> "granting", caller |-> caller, employee |-> e, desired |-> desired,
                     granting |-> {}, existing |-> {}])
    BY <1>4 DEF BeginAssignment
  <2>2. PICK s : s = [pc |-> "granting", caller |-> caller, employee |-> e, desired |-> desired,
                     granting |-> {}, existing |-> {}]
    OBVIOUS
  <2>3. call' = [call EXCEPT ![c] = s] /\ s \in AssignState /\ UNCHANGED roleVars
    BY <1>4, <2>1, <2>2 DEF Become, AssignState, BeginAssignment
  <2>4. s.pc # "idle" /\ ~Renaming(s) /\ s \notin ShareState
    BY <2>3 DEF AssignState, Renaming, UpdateState, ShareState
  <2> QED
    BY <2>3, <2>4, Reading DEF Fits
<1>5. CASE BeginCreateRole(c) /\ ~Become(c, [pc |-> "refused"])
  <2>1. PICK name \in RoleNames, keys \in SUBSET PermissionKeys :
          Become(c, [pc |-> "createRole", name |-> name, keys |-> keys])
    BY <1>5 DEF BeginCreateRole
  <2>2. PICK s : s = [pc |-> "createRole", name |-> name, keys |-> keys]
    OBVIOUS
  <2>3. call' = [call EXCEPT ![c] = s] /\ s \in CreateState /\ UNCHANGED roleVars
    BY <1>5, <2>1, <2>2 DEF Become, CreateState, BeginCreateRole
  <2>4. s.pc # "idle" /\ ~Renaming(s) /\ s \notin ShareState
    BY <2>3 DEF CreateState, Renaming, UpdateState, ShareState
  <2> QED
    BY <2>3, <2>4, Reading DEF Fits
<1>6. CASE BeginUpdateRole(c) /\ ~Become(c, [pc |-> "refused"])
  <2>1. PICK r \in Roles, name \in RoleNames \cup {NoName}, keys \in SUBSET PermissionKeys,
             given \in {"name", "keys", "both"} :
          /\ (given = "keys") <=> (name = NoName)
          /\ given # "name" => MayHaveKeys(r, keys)
          /\ Become(c, [pc |-> IF name = NoName THEN "seeKeys" ELSE "rename", role |-> r,
                        name |-> name, keys |-> keys, given |-> given, seen |-> {}])
    <3>1. PICK caller \in Callers, r \in Roles, name \in RoleNames \cup {NoName}, keys \in SUBSET PermissionKeys,
               given \in {"name", "keys", "both"} :
            /\ (given = "keys") <=> (name = NoName)
            /\ Become(c, IF /\ MayAdminister(caller) /\ Exists(r)
                            /\ name # NoName => r # HrAdmin /\ ~NameTaken(name, r)
                            /\ given # "name" => MayHaveKeys(r, keys)
                         THEN [pc |-> IF name = NoName THEN "seeKeys" ELSE "rename", role |-> r,
                               name |-> name, keys |-> keys, given |-> given, seen |-> {}]
                         ELSE [pc |-> "refused"])
      BY <1>6 DEF BeginUpdateRole
    <3>2. given # "name" => MayHaveKeys(r, keys)
      BY <1>6, <3>1
    <3>3. Become(c, [pc |-> IF name = NoName THEN "seeKeys" ELSE "rename", role |-> r,
                     name |-> name, keys |-> keys, given |-> given, seen |-> {}])
      BY <1>6, <3>1
    <3> QED
      BY <3>1, <3>2, <3>3
  <2>2. PICK s : s = [pc |-> IF name = NoName THEN "seeKeys" ELSE "rename", role |-> r,
                     name |-> name, keys |-> keys, given |-> given, seen |-> {}]
    OBVIOUS
  <2>3. call' = [call EXCEPT ![c] = s] /\ s \in UpdateState /\ UNCHANGED roleVars
    BY <1>6, <2>1, <2>2 DEF Become, UpdateState, BeginUpdateRole
  <2>4. s.pc # "idle" /\ ~Renaming(s) /\ s \notin ShareState
    BY <2>2, <2>3 DEF Renaming, UpdateState, ShareState
  <2> QED
    BY <2>3, <2>4, Reading DEF Fits
<1>7. CASE BeginDeleteRole(c) /\ ~Become(c, [pc |-> "refused"])
  <2>1. PICK r \in Roles \ {HrAdmin} : Become(c, [pc |-> "deleteRole", role |-> r])
    BY <1>7 DEF BeginDeleteRole
  <2>2. PICK s : s = [pc |-> "deleteRole", role |-> r]
    OBVIOUS
  <2>3. call' = [call EXCEPT ![c] = s] /\ s \in DeleteState /\ UNCHANGED roleVars
    BY <1>7, <2>1, <2>2 DEF Become, DeleteState, BeginDeleteRole
  <2>4. s.pc # "idle" /\ ~Renaming(s) /\ s \notin ShareState
    BY <2>3 DEF DeleteState, Renaming, UpdateState, ShareState
  <2> QED
    BY <2>3, <2>4, Reading DEF Fits
<1> QED
  BY <1>1, <1>2, <1>3, <1>4, <1>5, <1>6, <1>7
     DEF BeginRoles, ListRoles, BeginAssignment, BeginCreateRole, BeginUpdateRole, BeginDeleteRole

\* The checks of an assignment only read.
LEMMA AssignmentReads ==
  ASSUME TablesInv, UNCHANGED viewVars, NEW c \in Calls,
         FindAdminGrantingRoles(c) \/ CheckSelfGrant(c) \/ CountHolders(c) \/ ReadAssignments(c)
  PROVE  TablesInv'
<1>1. call[c] \in AssignState
  BY StatesByPlace
     DEF TablesInv, TableCallsFit, FindAdminGrantingRoles, CheckSelfGrant, CountHolders, ReadAssignments, At
<1>2. UNCHANGED roleVars
  BY DEF FindAdminGrantingRoles, CheckSelfGrant, CountHolders, ReadAssignments
<1>3. ASSUME NEW s, s \in AssignState, call' = [call EXCEPT ![c] = s]
      PROVE  TablesInv'
  <2>1. s.pc # "idle" /\ ~Renaming(s) /\ s \notin ShareState /\ Fits(s)
    BY <1>3 DEF AssignState, Renaming, UpdateState, ShareState, Fits
  <2> QED
    BY <1>2, <1>3, <2>1, Reading
<1>4. ASSUME NEW pc \in {"holders", "roles"}, Goto(c, pc)
      PROVE  TablesInv'
  <2>1. PICK s : s = [call[c] EXCEPT !.pc = pc]
    OBVIOUS
  <2>2. s \in AssignState /\ call' = [call EXCEPT ![c] = s]
    BY <1>1, <1>4, <2>1 DEF AssignState, Goto, TablesInv, TableCallsFit
  <2> QED
    BY <1>3, <2>2
<1>5. ASSUME Goto(c, "refused")
      PROVE  TablesInv'
  BY <1>2, <1>5, LeavingFor DEF TablePcs
<1>6. CASE FindAdminGrantingRoles(c)
  <2>1. PICK s : s = [call[c] EXCEPT !.granting = AdminGrantingRoles,
                                   !.pc = IF AdminGrantingRoles = {} THEN "roles" ELSE "self"]
    OBVIOUS
  <2>2. AdminGrantingRoles \subseteq Roles
    BY DEF AdminGrantingRoles
  <2>3. s \in AssignState /\ call' = [call EXCEPT ![c] = s]
    BY <1>1, <1>6, <2>1, <2>2 DEF AssignState, FindAdminGrantingRoles, TablesInv, TableCallsFit
  <2> QED
    BY <1>3, <2>3
<1>7. CASE CheckSelfGrant(c)
  BY <1>4, <1>5, <1>7 DEF CheckSelfGrant
<1>8. CASE CountHolders(c)
  BY <1>4, <1>5, <1>8 DEF CountHolders
<1>9. CASE ReadAssignments(c)
  <2>1. PICK s : s = [call[c] EXCEPT !.existing = held[call[c].employee],
                        !.pc = IF \A r \in call[c].desired : Exists(r) THEN "assign" ELSE "refused"]
    OBVIOUS
  <2>2. call' = [call EXCEPT ![c] = s] /\ s.pc \in {"assign", "refused"}
    BY <1>1, <1>9, <2>1 DEF AssignState, ReadAssignments, TablesInv, TableCallsFit
  <2>3. held[call[c].employee] \subseteq Roles
    BY <1>1 DEF AssignState, TablesInv, RolesAreConsistent, RolesTypeOK
  <2>4. CASE s.pc = "assign"
    BY <1>1, <1>3, <2>1, <2>2, <2>3, <2>4 DEF AssignState
  <2>5. CASE s.pc = "refused"
    <3>1. Elsewhere(s)
      BY <1>1, <2>1, <2>5 DEF AssignState, Elsewhere, TablePcs
    <3> QED
      BY <1>2, <2>2, <2>5, <3>1, Leaving
  <2> QED
    BY <2>2, <2>4, <2>5
<1> QED
  BY <1>6, <1>7, <1>8, <1>9

\* A request writes roles and is done.
LEMMA RolesWritten ==
  ASSUME TablesInv, UNCHANGED viewVars, NEW c \in Calls, Goto(c, "done"), RolesAreConsistent',
         \A d \in Calls \ {c} : Renaming(call[d]) =>
           \A q \in Roles \ {call[d].role} : role'[q].name # call[d].name
  PROVE  TablesInv'
<1>1. PICK s : s = [call[c] EXCEPT !.pc = "done"]
  OBVIOUS
<1>2. "pc" \in DOMAIN call[c]
  BY StatesByPlace DEF TablesInv, TableCallsFit
<1>3. call' = [call EXCEPT ![c] = s] /\ s.pc = "done" /\ Elsewhere(s)
  BY <1>1, <1>2 DEF Goto, TablesInv, TableCallsFit, Elsewhere, TablePcs
<1>4. ViewsAreConsistent'
  BY DEF TablesInv, viewVars, ViewsAreConsistent, Stored
<1>5. \A d \in Calls : call[d] \in ShareState => view'[call[d].view].owner \notin call[d].recipients
  BY DEF TablesInv, SharesAreWithOthers, SharedWithOthers, viewVars
<1>6. \A d : Stored(d)' => Stored(d)
  BY DEF Stored, viewVars
<1>7. Fits(s) /\ ~Renaming(s) /\ s \notin ShareState /\ s.pc # "idle"
  BY <1>3, ElsewhereIsNoWork
<1> QED
  BY <1>3, <1>4, <1>5, <1>6, <1>7, TablesGoOn

LEMMA ReplaceAssignmentsKeeps ==
  ASSUME TablesInv, UNCHANGED viewVars, NEW c \in Calls, ReplaceAssignments(c)
  PROVE  TablesInv'
<1>1. call[c] \in AssignState
  BY StatesByPlace DEF TablesInv, TableCallsFit, ReplaceAssignments, At
<1>2. CASE Goto(c, "refused") /\ UNCHANGED held
  BY <1>2, LeavingFor DEF TablePcs, ReplaceAssignments, roleVars
<1>3. CASE ~(Goto(c, "refused") /\ UNCHANGED held)
  <2>1. PICK e, toAdd, toRemove :
          /\ e = call[c].employee /\ toAdd = call[c].desired \ call[c].existing
          /\ toRemove = call[c].existing \ call[c].desired
    OBVIOUS
  <2>2. /\ \A r \in toAdd : Exists(r)
        /\ held' = [held EXCEPT ![e] = (@ \ toRemove) \cup toAdd]
        /\ Goto(c, "done") /\ UNCHANGED <<role, leads>>
    BY <1>3, <2>1 DEF ReplaceAssignments
  <2>3. e \in Staff /\ toAdd \subseteq Roles
    BY <1>1, <2>1 DEF AssignState
  <2>4. \A f \in Staff : held'[f] = IF f = e THEN (held[e] \ toRemove) \cup toAdd ELSE held[f]
    BY <2>2, <2>3 DEF TablesInv, RolesAreConsistent, RolesTypeOK
  <2>5. held' \in [Staff -> SUBSET Roles]
    BY <2>2, <2>3 DEF TablesInv, RolesAreConsistent, RolesTypeOK
  <2>6. \A f \in Staff : \A r \in held'[f] : Exists(r)'
    BY <2>2, <2>3, <2>4 DEF TablesInv, RolesAreConsistent, Exists
  <2>7. RolesAreConsistent'
    BY <2>2, <2>5, <2>6 DEF TablesInv, RolesAreConsistent, RolesTypeOK, Exists, KeysOfRole
  <2>8. \A d \in Calls : Renaming(call[d]) => \A q \in Roles \ {call[d].role} : role'[q].name # call[d].name
    BY <2>2 DEF TablesInv, NamesAreKept, NameIsFree
  <2> QED
    BY <2>2, <2>7, <2>8, RolesWritten
<1> QED
  BY <1>2, <1>3

\* One row of the roles is written: what is left to show is about that row.
LEMMA OneRoleWritten ==
  ASSUME TablesInv, NEW r \in Roles, NEW row \in RoleRow, role' = [role EXCEPT ![r] = row],
         UNCHANGED <<held, leads>>,
         row.name = NoName => \A e \in Staff : r \notin held[e],
         row.name # NoName => \A q \in Roles \ {r} : role[q].name # row.name,
         \A x, y \in row.keys : x[1] = y[1] => x = y,
         r = HrAdmin => Manage \in KeysOf(row.keys)
  PROVE  RolesAreConsistent'
<1>1. \A q \in Roles : role'[q] = IF q = r THEN row ELSE role[q]
  BY DEF TablesInv, RolesAreConsistent, RolesTypeOK
<1>2. RolesTypeOK'
  BY DEF TablesInv, RolesAreConsistent, RolesTypeOK
<1>3. \A e \in Staff : \A q \in held'[e] : Exists(q)'
  BY <1>1 DEF TablesInv, RolesAreConsistent, RolesTypeOK, Exists
<1>4. \A p, q \in Roles : Exists(p)' /\ role'[p].name = role'[q].name => p = q
  BY <1>1 DEF TablesInv, RolesAreConsistent, Exists
<1>5. HrAdmin \in Roles
  BY FunctionalRolesAssumption DEF Roles
<1>6. Manage \in KeysOf(role'[HrAdmin].keys)
  BY <1>1, <1>5 DEF TablesInv, RolesAreConsistent, KeysOfRole
<1>7. \A q \in Roles : \A x, y \in role'[q].keys : x[1] = y[1] => x = y
  BY <1>1 DEF TablesInv, RolesAreConsistent
<1> QED
  BY <1>2, <1>3, <1>4, <1>6, <1>7 DEF RolesAreConsistent, KeysOfRole

\* Rows a request writes for a set of keys.
LEMMA RowsOfOne ==
  ASSUME NEW c \in Calls, NEW keys, NEW rows, rows = RowsBy(c, keys)
  PROVE  /\ \A x, y \in rows : x[1] = y[1] => x = y
         /\ KeysOf(rows) = keys
<1>1. rows = keys \X {c}
  BY DEF RowsBy
<1>2. \A x \in rows : x[1] \in keys /\ x = <<x[1], c>>
  BY <1>1
<1>3. \A k \in keys : <<k, c>> \in rows
  BY <1>1
<1>4. KeysOf(rows) = keys
  BY <1>2, <1>3 DEF KeysOf
<1>5. \A x, y \in rows : x[1] = y[1] => x = y
  BY <1>2
<1> QED
  BY <1>4, <1>5

LEMMA RowsReplaced ==
  ASSUME NEW c \in Calls, NEW keys, NEW old, NEW seen, NEW new, new = RowsBy(c, keys), ~Clash(old, seen, new),
         \A x, y \in old : x[1] = y[1] => x = y,
         NEW rows, rows = Replaced(old, seen, new)
  PROVE  /\ \A x, y \in rows : x[1] = y[1] => x = y
         /\ keys \subseteq KeysOf(rows) /\ KeysOf(rows) \subseteq KeysOf(old) \cup keys
         /\ rows \subseteq old \cup new
<1>1. \A x, y \in new : x[1] = y[1] => x = y
  BY RowsOfOne
<1>2. KeysOf(new) = keys
  BY RowsOfOne
<1>3. \A x \in old \ seen, y \in new : x[1] # y[1]
  BY DEF Clash, KeysOf
<1>4. rows = (old \ seen) \cup new
  BY DEF Replaced
<1>5. \A x, y \in rows : x[1] = y[1] => x = y
  BY <1>1, <1>3, <1>4
<1>6. keys \subseteq KeysOf(rows) /\ KeysOf(rows) \subseteq KeysOf(old) \cup keys
  BY <1>2, <1>4 DEF KeysOf
<1> QED
  BY <1>4, <1>5, <1>6

\* A step of an update that has begun, to the next one.
LEMMA UpdateMoves ==
  ASSUME TablesInv, UNCHANGED roleVars, UNCHANGED viewVars, NEW c \in Calls,
         call[c] \in UpdateState, call[c].pc # "rename",
         NEW s \in UpdateState, s.pc # "rename", s.role = call[c].role, s.name = call[c].name,
         call' = [call EXCEPT ![c] = s]
  PROVE  TablesInv'
<1>1. s.pc # "idle" /\ s \notin ShareState /\ Fits(s) /\ (Renaming(s) => Renaming(call[c]))
  BY DEF UpdateState, ShareState, Fits, Renaming
<1>2. Renaming(s) => \A q \in Roles \ {s.role} : role'[q].name # s.name
  BY <1>1 DEF TablesInv, NamesAreKept, NameIsFree, roleVars
<1>3. \A d \in Calls \ {c} : Renaming(call[d]) /\ Renaming(s) => s.name # call[d].name
  BY <1>1 DEF TablesInv, NamesAreKept
<1> QED
  BY <1>1, <1>2, <1>3, TablesStay, TablesGoOn

LEMMA RenamingIsOpen ==
  ASSUME NEW d \in Calls, Renaming(call[d])
  PROVE  RenameOpen(d) /\ call[d].name # NoName
BY DEF Renaming, RenameOpen, UpdateState

LEMMA CreateRoleKeeps ==
  ASSUME TablesInv, UNCHANGED viewVars, NEW c \in Calls, CreateRole(c)
  PROVE  TablesInv'
<1>1. call[c] \in CreateState
  BY StatesByPlace DEF TablesInv, TableCallsFit, CreateRole, At
<1>2. CASE Goto(c, "refused") /\ UNCHANGED role
  BY <1>2, LeavingFor DEF TablePcs, CreateRole, roleVars
<1>3. CASE ~(Goto(c, "refused") /\ UNCHANGED role)
  <2>1. PICK rows : rows = RowsBy(c, call[c].keys)
    OBVIOUS
  <2>2. PICK row : row = [name |-> call[c].name, keys |-> rows]
    OBVIOUS
  <2>3. /\ \A q \in Roles : role[q].name # call[c].name
        /\ role' = [role EXCEPT ![c] = row] /\ Goto(c, "done") /\ UNCHANGED <<held, leads>>
    BY <1>3, <2>1, <2>2 DEF CreateRole
  <2>4. rows \subseteq PermissionKeys \X (Calls \cup {Nobody}) /\ \A x, y \in rows : x[1] = y[1] => x = y
    <3>1. call[c].keys \subseteq PermissionKeys
      BY <1>1 DEF CreateState
    <3>2. rows \subseteq PermissionKeys \X (Calls \cup {Nobody})
      BY <2>1, <3>1 DEF RowsBy
    <3>3. \A x, y \in rows : x[1] = y[1] => x = y
      BY <2>1, RowsOfOne
    <3> QED
      BY <3>2, <3>3
  <2>5. row \in RoleRow /\ row.name = call[c].name /\ row.name # NoName /\ row.keys = rows
    BY <1>1, <2>2, <2>4, FunctionalRolesAssumption DEF CreateState, RoleRow
  <2>6. c \in Roles /\ c # HrAdmin
    BY FunctionalRolesAssumption DEF Roles
  <2>7. RolesAreConsistent'
    <3>1. \A q \in Roles \ {c} : role[q].name # row.name
      BY <2>3, <2>5
    <3>2. \A x, y \in row.keys : x[1] = y[1] => x = y
      BY <2>4, <2>5
    <3> QED
      BY <2>3, <2>5, <2>6, <3>1, <3>2, OneRoleWritten
  <2>8. ASSUME NEW d \in Calls \ {c}, Renaming(call[d]), NEW q \in Roles \ {call[d].role}
        PROVE  role'[q].name # call[d].name
    <3>1. call[d].name # call[c].name
      BY <2>8, RenamingIsOpen DEF CreateRole, NameHeld
    <3>2. role[q].name # call[d].name
      BY <2>8 DEF TablesInv, NamesAreKept, NameIsFree
    <3> QED
      BY <2>3, <2>5, <3>1, <3>2 DEF TablesInv, RolesAreConsistent, RolesTypeOK
  <2> QED
    BY <2>3, <2>7, <2>8, RolesWritten
<1> QED
  BY <1>2, <1>3

LEMMA RenameRoleKeeps ==
  ASSUME TablesInv, UNCHANGED viewVars, NEW c \in Calls, RenameRole(c)
  PROVE  TablesInv'
<1>1. call[c] \in UpdateState /\ call[c].pc = "rename"
  BY StatesByPlace DEF TablesInv, TableCallsFit, RenameRole, At
<1>2. PICK r, name : r = call[c].role /\ name = call[c].name
  OBVIOUS
<1>3. r \in Roles /\ name \in RoleNames /\ name # NoName
  BY <1>1, <1>2 DEF UpdateState
<1>4. \A d \in Calls \ {c} : Renaming(call[d]) => call[d].name # name
  BY <1>2, RenamingIsOpen DEF RenameRole, NameHeld
<1>5. CASE Goto(c, "refused") /\ UNCHANGED role
  BY <1>5, LeavingFor DEF TablePcs, RenameRole, roleVars
<1>6. CASE Exists(r) /\ ~NameTaken(name, r) /\ call[c].given = "name"
  <2>1. PICK row : row = [role[r] EXCEPT !.name = name]
    OBVIOUS
  <2>2. role' = [role EXCEPT ![r] = row] /\ Goto(c, "done") /\ UNCHANGED <<held, leads>>
    BY <1>2, <1>6, <2>1 DEF RenameRole, TablesInv, RolesAreConsistent, RolesTypeOK
  <2>3. row \in RoleRow /\ row.name = name /\ row.keys = role[r].keys
    BY <1>3, <2>1 DEF RoleRow, TablesInv, RolesAreConsistent, RolesTypeOK
  <2>4. \A q \in Roles \ {r} : role[q].name # name
    BY <1>6 DEF NameTaken
  <2>5. RolesAreConsistent'
    <3>1. \A x, y \in row.keys : x[1] = y[1] => x = y
      BY <1>3, <2>3 DEF TablesInv, RolesAreConsistent
    <3>2. r = HrAdmin => Manage \in KeysOf(row.keys)
      BY <2>3 DEF TablesInv, RolesAreConsistent, KeysOfRole
    <3> QED
      BY <1>3, <2>2, <2>3, <2>4, <3>1, <3>2, OneRoleWritten
  <2>6. ASSUME NEW d \in Calls \ {c}, Renaming(call[d]), NEW q \in Roles \ {call[d].role}
        PROVE  role'[q].name # call[d].name
    <3>1. role[q].name # call[d].name
      BY <2>6 DEF TablesInv, NamesAreKept, NameIsFree
    <3> QED
      BY <1>4, <2>2, <2>3, <2>6, <3>1 DEF TablesInv, RolesAreConsistent, RolesTypeOK
  <2> QED
    BY <2>2, <2>5, <2>6, RolesWritten
<1>7. CASE Exists(r) /\ ~NameTaken(name, r) /\ call[c].given # "name"
  <2>1. PICK s : s = [call[c] EXCEPT !.pc = "seeKeys"]
    OBVIOUS
  <2>2. call' = [call EXCEPT ![c] = s] /\ UNCHANGED roleVars
    BY <1>2, <1>7, <2>1 DEF RenameRole, Goto, TablesInv, TableCallsFit, roleVars
  <2>3. s \in UpdateState /\ s.role = r /\ s.name = name /\ s.pc = "seeKeys"
    BY <1>1, <1>2, <1>7, <2>1 DEF UpdateState
  <2>4. s.pc # "idle" /\ s \notin ShareState /\ Fits(s)
    BY <2>3 DEF ShareState, Fits
  <2>5. \A q \in Roles \ {s.role} : role'[q].name # s.name
    BY <1>7, <2>2, <2>3 DEF NameTaken, roleVars
  <2> QED
    BY <1>4, <2>2, <2>3, <2>4, <2>5, TablesStay, TablesGoOn
<1> QED
  BY <1>2, <1>5, <1>6, <1>7 DEF RenameRole

LEMMA SeeKeysKeeps ==
  ASSUME TablesInv, UNCHANGED viewVars, NEW c \in Calls, SeeKeys(c) \/ DeleteKeys(c)
  PROVE  TablesInv'
<1>1. call[c] \in UpdateState /\ call[c].pc # "rename"
  BY StatesByPlace DEF TablesInv, TableCallsFit, SeeKeys, DeleteKeys, At
<1>2. CASE SeeKeys(c)
  <2>1. PICK s : s = [call[c] EXCEPT !.seen = role[call[c].role].keys, !.pc = "deleteKeys"]
    OBVIOUS
  <2>2. role[call[c].role].keys \subseteq KeyRows
    BY <1>1 DEF UpdateState, TablesInv, RolesAreConsistent, RolesTypeOK, RoleRow, KeyRows
  <2>3. /\ s \in UpdateState /\ s.pc # "rename" /\ s.role = call[c].role /\ s.name = call[c].name
        /\ call' = [call EXCEPT ![c] = s]
    BY <1>1, <1>2, <2>1, <2>2 DEF UpdateState, SeeKeys, TablesInv, TableCallsFit
  <2> QED
    BY <1>1, <1>2, <2>3, UpdateMoves DEF SeeKeys
<1>3. CASE DeleteKeys(c)
  <2>1. PICK s : s = [call[c] EXCEPT !.pc = "insertKeys"]
    OBVIOUS
  <2>2. /\ s \in UpdateState /\ s.pc # "rename" /\ s.role = call[c].role /\ s.name = call[c].name
        /\ call' = [call EXCEPT ![c] = s]
    BY <1>1, <1>3, <2>1 DEF UpdateState, DeleteKeys, Goto, TablesInv, TableCallsFit
  <2> QED
    BY <1>1, <1>3, <2>2, UpdateMoves DEF DeleteKeys
<1> QED
  BY <1>2, <1>3

LEMMA InsertKeysKeeps ==
  ASSUME TablesInv, UNCHANGED viewVars, NEW c \in Calls, InsertKeys(c)
  PROVE  TablesInv'
<1>1. call[c] \in UpdateState /\ call[c].pc # "rename"
  BY StatesByPlace DEF TablesInv, TableCallsFit, InsertKeys, At
<1>2. CASE Goto(c, "refused") /\ UNCHANGED role
  BY <1>2, LeavingFor DEF TablePcs, InsertKeys, roleVars
<1>3. CASE ~(Goto(c, "refused") /\ UNCHANGED role)
  <2>1. PICK r, old, new, rows, name :
          /\ r = call[c].role /\ old = role[r].keys /\ new = RowsBy(c, call[c].keys)
          /\ rows = Replaced(old, call[c].seen, new)
          /\ name = IF call[c].name = NoName THEN role[r].name ELSE call[c].name
    OBVIOUS
  <2>2. PICK row : row = [name |-> name, keys |-> rows]
    OBVIOUS
  <2>3. /\ Exists(r) /\ ~Clash(old, call[c].seen, new)
        /\ role' = [role EXCEPT ![r] = row] /\ Goto(c, "done") /\ UNCHANGED <<held, leads>>
    BY <1>3, <2>1, <2>2 DEF InsertKeys
  <2>4. r \in Roles /\ call[c].keys \subseteq PermissionKeys /\ MayHaveKeys(r, call[c].keys)
        /\ call[c].name \in RoleNames \cup {NoName}
    BY <1>1, <2>1 DEF UpdateState
  <2>5. old \subseteq KeyRows /\ role[r].name \in RoleNames \cup {NoName} /\ \A x, y \in old : x[1] = y[1] => x = y
    <3>1. role[r] \in RoleRow
      BY <2>4 DEF TablesInv, RolesAreConsistent, RolesTypeOK
    <3>2. old \subseteq KeyRows /\ role[r].name \in RoleNames \cup {NoName}
      BY <2>1, <3>1 DEF RoleRow, KeyRows
    <3>3. \A x, y \in old : x[1] = y[1] => x = y
      BY <2>1, <2>4 DEF TablesInv, RolesAreConsistent
    <3> QED
      BY <3>2, <3>3
  <2>6. new \subseteq KeyRows
    BY <2>1, <2>4 DEF RowsBy, KeyRows
  <2>7. /\ \A x, y \in rows : x[1] = y[1] => x = y
        /\ call[c].keys \subseteq KeysOf(rows) /\ rows \subseteq old \cup new
    BY <2>1, <2>3, <2>5, RowsReplaced
  <2>8. rows \in SUBSET KeyRows
    BY <2>5, <2>6, <2>7
  <2>9. row \in RoleRow /\ row.name = name /\ row.keys = rows /\ name # NoName
    BY <2>1, <2>2, <2>3, <2>4, <2>5, <2>8 DEF RoleRow, Exists, KeyRows
  <2>10. r = HrAdmin => Manage \in KeysOf(row.keys)
    BY <2>4, <2>7, <2>9 DEF MayHaveKeys
  <2>11. \A q \in Roles \ {r} : role[q].name # name
    <3>1. CASE call[c].name = NoName
      BY <2>1, <2>3, <2>4, <3>1 DEF TablesInv, RolesAreConsistent
    <3>2. CASE call[c].name # NoName
      <4>1. Renaming(call[c])
        BY <1>1, <3>2 DEF Renaming
      <4> QED
        BY <2>1, <3>2, <4>1 DEF TablesInv, NamesAreKept, NameIsFree
    <3> QED
      BY <3>1, <3>2
  <2>12. RolesAreConsistent'
    BY <2>3, <2>4, <2>7, <2>9, <2>10, <2>11, OneRoleWritten
  <2>13. ASSUME NEW d \in Calls \ {c}, Renaming(call[d]), NEW q \in Roles \ {call[d].role}
         PROVE  role'[q].name # call[d].name
    <3>1. role[q].name # call[d].name
      BY <2>13 DEF TablesInv, NamesAreKept, NameIsFree
    <3>2. call[c].name # NoName => call[c].name # call[d].name
      BY <1>1, <2>13 DEF TablesInv, NamesAreKept, Renaming
    <3>3. CASE q = r
      BY <2>1, <2>3, <2>4, <2>9, <3>1, <3>2, <3>3 DEF TablesInv, RolesAreConsistent, RolesTypeOK
    <3>4. CASE q # r
      BY <2>3, <3>1, <3>4 DEF TablesInv, RolesAreConsistent, RolesTypeOK
    <3> QED
      BY <3>3, <3>4
  <2> QED
    BY <2>3, <2>12, <2>13, RolesWritten
<1> QED
  BY <1>2, <1>3

LEMMA DeleteRoleKeeps ==
  ASSUME TablesInv, UNCHANGED viewVars, NEW c \in Calls, DeleteRole(c)
  PROVE  TablesInv'
<1>1. call[c] \in DeleteState
  BY StatesByPlace DEF TablesInv, TableCallsFit, DeleteRole, At
<1>2. CASE Goto(c, "refused") /\ UNCHANGED role
  BY <1>2, LeavingFor DEF TablePcs, DeleteRole, roleVars
<1>3. CASE ~(Goto(c, "refused") /\ UNCHANGED role)
  <2>1. PICK r, row : r = call[c].role /\ row = [name |-> NoName, keys |-> {}]
    OBVIOUS
  <2>2. /\ \A e \in Staff : r \notin held[e]
        /\ role' = [role EXCEPT ![r] = row] /\ Goto(c, "done") /\ UNCHANGED <<held, leads>>
    BY <1>3, <2>1 DEF DeleteRole
  <2>3. r \in Roles /\ r # HrAdmin
    BY <1>1, <2>1 DEF DeleteState
  <2>4. row \in RoleRow /\ row.name = NoName /\ row.keys = {}
    BY <2>1 DEF RoleRow
  <2>5. RolesAreConsistent'
    BY <2>2, <2>3, <2>4, OneRoleWritten
  <2>6. ASSUME NEW d \in Calls \ {c}, Renaming(call[d]), NEW q \in Roles \ {call[d].role}
        PROVE  role'[q].name # call[d].name
    <3>1. role[q].name # call[d].name /\ call[d].name # NoName
      BY <2>6, RenamingIsOpen DEF TablesInv, NamesAreKept, NameIsFree
    <3> QED
      BY <2>2, <2>4, <3>1 DEF TablesInv, RolesAreConsistent, RolesTypeOK
  <2> QED
    BY <2>2, <2>5, <2>6, RolesWritten
<1> QED
  BY <1>2, <1>3

LEMMA RoleTablesGoOn ==
  ASSUME TablesInv, UNCHANGED viewVars, NEW c \in Calls, ServeRoles(c)
  PROVE  TablesInv'
BY AssignmentReads, ReplaceAssignmentsKeeps, CreateRoleKeeps, RenameRoleKeeps, SeeKeysKeeps, InsertKeysKeeps,
   DeleteRoleKeeps DEF ServeRoles

-----------------------------------------------------------------------------
(* Requests about views.                                                   *)

LEMMA CreateViewKeeps ==
  ASSUME TablesInv, UNCHANGED roleVars, NEW c \in Calls, CreateView(c)
  PROVE  TablesInv'
<1>1. PICK u \in Users, layout \in Layouts : view' = [view EXCEPT ![c] = [owner |-> u, layout |-> layout]]
  BY DEF CreateView
<1>2. At(c, "idle") /\ ~Stored(c) /\ UNCHANGED shares /\ c \in Views
  BY DEF CreateView, TablesInv, ViewsAreMade, Views
<1>3. shares[c] = {}
  BY <1>2 DEF TablesInv, ViewsAreConsistent
<1>4. /\ view' \in [Views -> ViewRow] /\ view'[c].owner = u /\ view'[c].layout = layout
      /\ \A v \in Views \ {c} : view'[v] = view[v]
  BY <1>1, <1>2 DEF TablesInv, ViewsAreConsistent, ViewRow
<1>5. ViewsAreConsistent'
  <2>1. ASSUME NEW v \in Views
        PROVE  /\ view'[v].owner # NoOwner <=> view'[v].layout # NoLayout
               /\ view'[v].owner = NoOwner => shares[v] = {}
               /\ view'[v].owner \notin KeysOf(shares[v])
               /\ \A a, b \in shares[v] : a[1] = b[1] => a = b
    <3>1. CASE v = c
      <4>1. KeysOf(shares[c]) = {}
        BY <1>3 DEF KeysOf
      <4> QED
        BY <1>3, <1>4, <3>1, <4>1, SavedViewsAssumption
    <3>2. CASE v # c
      BY <1>4, <3>2 DEF TablesInv, ViewsAreConsistent, Stored
    <3> QED
      BY <3>1, <3>2
  <2> QED
    BY <1>2, <1>4, <2>1 DEF TablesInv, ViewsAreConsistent, Stored
<1>6. PICK s : s = [pc |-> "done"]
  OBVIOUS
<1>7. call' = [call EXCEPT ![c] = s] /\ s.pc # "idle" /\ Elsewhere(s)
  BY <1>6 DEF CreateView, Become, Elsewhere, TablePcs
<1>8. Fits(s) /\ ~Renaming(s) /\ s \notin ShareState
  BY <1>7, ElsewhereIsNoWork
<1>9. RolesAreConsistent'
  BY DEF TablesInv, roleVars, RolesAreConsistent, RolesTypeOK, Exists, KeysOfRole
<1>10. \A d \in Calls \ {c} : Renaming(call[d]) => \A q \in Roles \ {call[d].role} : role'[q].name # call[d].name
  BY DEF TablesInv, NamesAreKept, NameIsFree, roleVars
<1>11. ASSUME NEW d \in Calls \ {c}, call[d] \in ShareState
       PROVE  view'[call[d].view].owner \notin call[d].recipients
  <2>1. call[d].view \in Views /\ call[d].view # c
    BY <1>2, <1>11 DEF TablesInv, SharesAreWithOthers, SharedWithOthers, ShareState
  <2> QED
    BY <1>4, <1>11, <2>1 DEF TablesInv, SharesAreWithOthers, SharedWithOthers
<1>12. \A d \in Calls \ {c} : Stored(d)' => Stored(d)
  BY <1>4 DEF Stored, Views
<1> QED
  BY <1>5, <1>7, <1>8, <1>9, <1>10, <1>11, <1>12, TablesGoOn

LEMMA ViewTablesBegin ==
  ASSUME TablesInv, UNCHANGED roleVars, NEW c \in Calls, BeginViews(c)
  PROVE  TablesInv'
<1>1. CASE CreateView(c)
  BY <1>1, CreateViewKeeps
<1>2. CASE ListViews(c)
  <2>1. PICK u \in Users : Become(c, [pc |-> "done", views |-> {v \in Views : Accessible(u, v)}])
    BY <1>2 DEF ListViews
  <2>2. PICK s : s = [pc |-> "done", views |-> {v \in Views : Accessible(u, v)}]
    OBVIOUS
  <2>3. call' = [call EXCEPT ![c] = s] /\ UNCHANGED viewVars /\ Elsewhere(s) /\ s.pc # "idle"
    BY <1>2, <2>1, <2>2 DEF ListViews, Become, Elsewhere, TablePcs
  <2> QED
    BY <2>3, Leaving
<1>3. ASSUME Become(c, [pc |-> "refused"]), UNCHANGED viewVars
      PROVE  TablesInv'
  <2>1. PICK s : s = [pc |-> "refused"]
    OBVIOUS
  <2>2. call' = [call EXCEPT ![c] = s] /\ Elsewhere(s) /\ s.pc # "idle"
    BY <1>3, <2>1 DEF Become, Elsewhere, TablePcs
  <2> QED
    BY <1>3, <2>2, Leaving
<1>4. CASE BeginViewUpdate(c) /\ ~Become(c, [pc |-> "refused"])
  <2>1. PICK v \in Views, layout \in Layouts : Become(c, [pc |-> "updateView", view |-> v, layout |-> layout])
    BY <1>4 DEF BeginViewUpdate
  <2>2. PICK s : s = [pc |-> "updateView", view |-> v, layout |-> layout]
    OBVIOUS
  <2>3. call' = [call EXCEPT ![c] = s] /\ s \in EditState /\ UNCHANGED viewVars
    BY <1>4, <2>1, <2>2 DEF Become, EditState, BeginViewUpdate
  <2>4. s.pc # "idle" /\ ~Renaming(s) /\ s \notin ShareState
    BY <2>3 DEF EditState, Renaming, UpdateState, ShareState
  <2> QED
    BY <2>3, <2>4, Reading DEF Fits
<1>5. CASE BeginViewRemoval(c) /\ ~Become(c, [pc |-> "refused"])
  <2>1. PICK v \in Views : Become(c, [pc |-> "removeView", view |-> v])
    BY <1>5 DEF BeginViewRemoval
  <2>2. PICK s : s = [pc |-> "removeView", view |-> v]
    OBVIOUS
  <2>3. call' = [call EXCEPT ![c] = s] /\ s \in RemoveState /\ UNCHANGED viewVars
    BY <1>5, <2>1, <2>2 DEF Become, RemoveState, BeginViewRemoval
  <2>4. s.pc # "idle" /\ ~Renaming(s) /\ s \notin ShareState
    BY <2>3 DEF RemoveState, Renaming, UpdateState, ShareState
  <2> QED
    BY <2>3, <2>4, Reading DEF Fits
<1>6. CASE BeginShare(c) /\ ~Become(c, [pc |-> "refused"])
  <2>1. PICK u \in Users, v \in Views, recipients \in SUBSET Users :
          /\ CanEdit(u, v) /\ u \notin recipients
          /\ Become(c, [pc |-> "seeShares", view |-> v, recipients |-> recipients, seen |-> {}])
    BY <1>6 DEF BeginShare
  <2>2. PICK s : s = [pc |-> "seeShares", view |-> v, recipients |-> recipients, seen |-> {}]
    OBVIOUS
  <2>3. call' = [call EXCEPT ![c] = s] /\ s \in ShareState /\ UNCHANGED viewVars
    BY <1>6, <2>1, <2>2 DEF Become, ShareState, BeginShare
  <2>4. s.pc # "idle" /\ ~Renaming(s) /\ Fits(s)
    BY <2>3 DEF ShareState, Renaming, UpdateState, Fits
  <2>5. view'[s.view].owner \notin s.recipients /\ (s.view \in Calls \ {c} => ~At(s.view, "idle"))
    BY <2>1, <2>2, <2>3 DEF CanEdit, Accessible, viewVars, TablesInv, ViewsAreMade
  <2> QED
    BY <2>3, <2>4, <2>5, TablesStay, TablesGoOn
<1> QED
  BY <1>1, <1>2, <1>3, <1>4, <1>5, <1>6 DEF BeginViews, BeginViewUpdate, BeginViewRemoval, BeginShare

\* A request writes views or shares and is done; no view changes hands.
LEMMA ViewsWritten ==
  ASSUME TablesInv, UNCHANGED roleVars, NEW c \in Calls, Goto(c, "done"), ViewsAreConsistent',
         \A v \in Views : view'[v].owner \in {view[v].owner, NoOwner}
  PROVE  TablesInv'
<1>1. PICK s : s = [call[c] EXCEPT !.pc = "done"]
  OBVIOUS
<1>2. "pc" \in DOMAIN call[c]
  BY StatesByPlace DEF TablesInv, TableCallsFit
<1>3. call' = [call EXCEPT ![c] = s] /\ s.pc # "idle" /\ Elsewhere(s)
  BY <1>1, <1>2 DEF Goto, TablesInv, TableCallsFit, Elsewhere, TablePcs
<1>4. Fits(s) /\ ~Renaming(s) /\ s \notin ShareState
  BY <1>3, ElsewhereIsNoWork
<1>5. RolesAreConsistent'
  BY DEF TablesInv, roleVars, RolesAreConsistent, RolesTypeOK, Exists, KeysOfRole
<1>6. \A d \in Calls \ {c} : Renaming(call[d]) => \A q \in Roles \ {call[d].role} : role'[q].name # call[d].name
  BY DEF TablesInv, NamesAreKept, NameIsFree, roleVars
<1>7. ASSUME NEW d \in Calls \ {c}, call[d] \in ShareState
      PROVE  view'[call[d].view].owner \notin call[d].recipients
  <2>1. call[d].view \in Views /\ call[d].recipients \subseteq Users
    BY <1>7 DEF ShareState
  <2> QED
    BY <1>7, <2>1, SavedViewsAssumption DEF TablesInv, SharesAreWithOthers, SharedWithOthers
<1>8. \A d \in Calls \ {c} : Stored(d)' => Stored(d)
  BY DEF Stored, Views
<1> QED
  BY <1>3, <1>4, <1>5, <1>6, <1>7, <1>8, TablesGoOn

LEMMA UpdateViewKeeps ==
  ASSUME TablesInv, UNCHANGED roleVars, NEW c \in Calls, UpdateView(c)
  PROVE  TablesInv'
<1>1. call[c] \in EditState
  BY StatesByPlace DEF TablesInv, TableCallsFit, UpdateView, At
<1>2. CASE ~Stored(call[c].view)
  BY <1>2, LeavingFor DEF TablePcs, UpdateView, viewVars
<1>3. CASE Stored(call[c].view)
  <2>1. PICK w, layout : w = call[c].view /\ layout = call[c].layout
    OBVIOUS
  <2>2. view' = [view EXCEPT ![w].layout = layout] /\ Goto(c, "done") /\ UNCHANGED shares
    BY <1>3, <2>1 DEF UpdateView
  <2>3. w \in Views /\ layout \in Layouts /\ layout # NoLayout
    BY <1>1, <2>1, SavedViewsAssumption DEF EditState
  <2>4. /\ view' \in [Views -> ViewRow] /\ view'[w].owner = view[w].owner /\ view'[w].layout = layout
        /\ \A v \in Views \ {w} : view'[v] = view[v]
    BY <2>2, <2>3 DEF TablesInv, ViewsAreConsistent, ViewRow
  <2>5. ViewsAreConsistent'
    BY <1>3, <2>1, <2>2, <2>3, <2>4 DEF TablesInv, ViewsAreConsistent, Stored
  <2>6. \A v \in Views : view'[v].owner = view[v].owner
    BY <2>4
  <2> QED
    BY <2>2, <2>5, <2>6, ViewsWritten
<1> QED
  BY <1>2, <1>3

LEMMA RemoveViewKeeps ==
  ASSUME TablesInv, UNCHANGED roleVars, NEW c \in Calls, RemoveView(c)
  PROVE  TablesInv'
<1>1. call[c] \in RemoveState
  BY StatesByPlace DEF TablesInv, TableCallsFit, RemoveView, At
<1>2. CASE ~Stored(call[c].view)
  BY <1>2, LeavingFor DEF TablePcs, RemoveView
<1>3. CASE Stored(call[c].view)
  <2>1. PICK w : w = call[c].view
    OBVIOUS
  <2>2. view' = [view EXCEPT ![w] = NoView] /\ shares' = [shares EXCEPT ![w] = {}] /\ Goto(c, "done")
    BY <1>3, <2>1 DEF RemoveView
  <2>3. w \in Views
    BY <1>1, <2>1 DEF RemoveState
  <2>4. /\ view' \in [Views -> ViewRow] /\ view'[w].owner = NoOwner /\ view'[w].layout = NoLayout
        /\ \A v \in Views \ {w} : view'[v] = view[v]
    BY <2>2, <2>3 DEF TablesInv, ViewsAreConsistent, ViewRow, NoView
  <2>5. /\ shares' \in [Views -> SUBSET (Users \X (Calls \cup {NoOwner}))] /\ shares'[w] = {}
        /\ \A v \in Views \ {w} : shares'[v] = shares[v]
    BY <2>2, <2>3 DEF TablesInv, ViewsAreConsistent
  <2>6. KeysOf(shares'[w]) = {}
    BY <2>5 DEF KeysOf
  <2>7. ASSUME NEW v \in Views
        PROVE  /\ view'[v].owner # NoOwner <=> view'[v].layout # NoLayout
               /\ view'[v].owner = NoOwner => shares'[v] = {}
               /\ view'[v].owner \notin KeysOf(shares'[v])
               /\ \A a, b \in shares'[v] : a[1] = b[1] => a = b
    <3>1. CASE v = w
      BY <2>4, <2>5, <2>6, <3>1
    <3>2. CASE v # w
      BY <2>4, <2>5, <3>2 DEF TablesInv, ViewsAreConsistent, Stored
    <3> QED
      BY <3>1, <3>2
  <2>8. ViewsAreConsistent'
    BY <2>4, <2>5, <2>7 DEF ViewsAreConsistent, Stored
  <2>9. \A v \in Views : view'[v].owner \in {view[v].owner, NoOwner}
    BY <2>4
  <2> QED
    BY <2>2, <2>8, <2>9, ViewsWritten
<1> QED
  BY <1>2, <1>3

LEMMA SharesSeen ==
  ASSUME TablesInv, UNCHANGED roleVars, NEW c \in Calls, SeeShares(c) \/ DeleteShares(c)
  PROVE  TablesInv'
<1>1. call[c] \in ShareState /\ UNCHANGED viewVars /\ SharedWithOthers(call[c])
  BY StatesByPlace DEF TablesInv, TableCallsFit, SeeShares, DeleteShares, At, SharesAreWithOthers
<1>2. ASSUME NEW s \in ShareState, s.view = call[c].view, s.recipients = call[c].recipients,
             call' = [call EXCEPT ![c] = s]
      PROVE  TablesInv'
  <2>1. s.pc # "idle" /\ ~Renaming(s) /\ Fits(s)
    BY <1>2 DEF ShareState, Renaming, UpdateState, Fits
  <2>2. view'[s.view].owner \notin s.recipients /\ (s.view \in Calls \ {c} => ~At(s.view, "idle"))
    BY <1>1, <1>2 DEF SharedWithOthers, viewVars
  <2> QED
    BY <1>1, <1>2, <2>1, <2>2, TablesStay, TablesGoOn
<1>3. CASE SeeShares(c)
  <2>1. PICK s : s = [call[c] EXCEPT !.seen = shares[call[c].view], !.pc = "deleteShares"]
    OBVIOUS
  <2>2. shares[call[c].view] \subseteq ShareRows
    BY <1>1 DEF ShareState, TablesInv, ViewsAreConsistent, ShareRows
  <2>3. /\ s \in ShareState /\ s.view = call[c].view /\ s.recipients = call[c].recipients
        /\ call' = [call EXCEPT ![c] = s]
    BY <1>1, <1>3, <2>1, <2>2 DEF ShareState, SeeShares, TablesInv, TableCallsFit
  <2> QED
    BY <1>2, <2>3
<1>4. CASE DeleteShares(c)
  <2>1. PICK s : s = [call[c] EXCEPT !.pc = "insertShares"]
    OBVIOUS
  <2>2. /\ s \in ShareState /\ s.view = call[c].view /\ s.recipients = call[c].recipients
        /\ call' = [call EXCEPT ![c] = s]
    BY <1>1, <1>4, <2>1 DEF ShareState, DeleteShares, Goto, TablesInv, TableCallsFit
  <2> QED
    BY <1>2, <2>2
<1> QED
  BY <1>3, <1>4

LEMMA InsertSharesKeeps ==
  ASSUME TablesInv, UNCHANGED roleVars, NEW c \in Calls, InsertShares(c)
  PROVE  TablesInv'
<1>1. call[c] \in ShareState /\ SharedWithOthers(call[c])
  BY StatesByPlace DEF TablesInv, TableCallsFit, InsertShares, At, SharesAreWithOthers
<1>2. CASE Goto(c, "refused") /\ UNCHANGED shares
  BY <1>2, LeavingFor DEF TablePcs, InsertShares, viewVars
<1>3. CASE ~(Goto(c, "refused") /\ UNCHANGED shares)
  <2>1. PICK w, old, new, rows :
          /\ w = call[c].view /\ old = shares[w] /\ new = RowsBy(c, call[c].recipients)
          /\ rows = Replaced(old, call[c].seen, new)
    OBVIOUS
  <2>2. w \in Views /\ call[c].recipients \subseteq Users
    BY <1>1, <2>1 DEF ShareState
  <2>3. /\ Stored(w) /\ ~Clash(old, call[c].seen, new)
        /\ shares' = [shares EXCEPT ![w] = rows] /\ Goto(c, "done") /\ UNCHANGED view
    BY <1>3, <2>1, <2>2 DEF InsertShares, TablesInv, ViewsAreConsistent
  <2>4. old \subseteq ShareRows /\ view[w].owner \notin KeysOf(old) /\ \A a, b \in old : a[1] = b[1] => a = b
    BY <2>1, <2>2 DEF TablesInv, ViewsAreConsistent, ShareRows
  <2>5. new \subseteq ShareRows
    BY <2>1, <2>2 DEF RowsBy, ShareRows
  <2>6. /\ \A a, b \in rows : a[1] = b[1] => a = b
        /\ KeysOf(rows) \subseteq KeysOf(old) \cup call[c].recipients
        /\ rows \subseteq old \cup new
    BY <2>1, <2>3, <2>4, RowsReplaced
  <2>7. view[w].owner \notin KeysOf(rows)
    BY <1>1, <2>1, <2>4, <2>6 DEF SharedWithOthers
  <2>8. /\ shares'[w] = rows /\ \A v \in Views \ {w} : shares'[v] = shares[v]
        /\ shares' \in [Views -> SUBSET ShareRows]
    BY <2>2, <2>3, <2>4, <2>5, <2>6 DEF TablesInv, ViewsAreConsistent, ShareRows
  <2>9. ASSUME NEW v \in Views
        PROVE  /\ view[v].owner # NoOwner <=> view[v].layout # NoLayout
               /\ view[v].owner = NoOwner => shares'[v] = {}
               /\ view[v].owner \notin KeysOf(shares'[v])
               /\ \A a, b \in shares'[v] : a[1] = b[1] => a = b
    <3>1. CASE v = w
      BY <2>3, <2>6, <2>7, <2>8, <3>1 DEF TablesInv, ViewsAreConsistent, Stored
    <3>2. CASE v # w
      BY <2>8, <3>2 DEF TablesInv, ViewsAreConsistent, Stored
    <3> QED
      BY <3>1, <3>2
  <2>10. ViewsAreConsistent'
    BY <2>3, <2>8, <2>9 DEF TablesInv, ViewsAreConsistent, Stored, ShareRows
  <2> QED
    BY <2>3, <2>10, ViewsWritten
<1> QED
  BY <1>2, <1>3

LEMMA ViewTablesGoOn ==
  ASSUME TablesInv, UNCHANGED roleVars, NEW c \in Calls, ServeViews(c)
  PROVE  TablesInv'
BY UpdateViewKeeps, RemoveViewKeeps, SharesSeen, InsertSharesKeeps DEF ServeViews

-----------------------------------------------------------------------------
(* Requests about links, and everything else.                              *)

LEMMA LinksBegin ==
  ASSUME TablesInv, UNCHANGED roleVars, UNCHANGED viewVars, NEW c \in Calls, BeginLinks(c)
  PROVE  TablesInv'
<1>1. ASSUME NEW s, Become(c, s), s.pc \notin TablePcs \cup {"idle"}, "pc" \in DOMAIN s
      PROVE  TablesInv'
  BY <1>1, Leaving DEF Become, Elsewhere
<1>2. ASSUME Become(c, [pc |-> "refused"])
      PROVE  TablesInv'
  BY <1>1, <1>2 DEF TablePcs
<1>3. CASE BeginLink(c) /\ ~Become(c, [pc |-> "refused"])
  <2>1. PICK creator, recipient \in Viewers, asked \in SUBSET (Configurable \cup Never), hours \in Lifetimes :
          Become(c, [pc |-> "recipient", viewer |-> creator, recipient |-> recipient, asked |-> asked, hours |-> hours])
    BY <1>3 DEF BeginLink
  <2> QED
    BY <1>1, <2>1 DEF TablePcs
<1>4. CASE BeginRevoke(c) /\ ~Become(c, [pc |-> "refused"])
  <2>1. PICK l \in Links : Become(c, [pc |-> "findLink", link |-> l])
    BY <1>4 DEF BeginRevoke
  <2> QED
    BY <1>1, <2>1 DEF TablePcs
<1>5. CASE BeginListLinks(c) /\ ~Become(c, [pc |-> "refused"])
  <2>1. Become(c, [pc |-> "listLinks", shown |-> {}])
    BY <1>5 DEF BeginListLinks
  <2> QED
    BY <1>1, <2>1 DEF TablePcs
<1>6. CASE BeginAccessLog(c) /\ ~Become(c, [pc |-> "refused"])
  <2>1. PICK v \in Viewers, l \in Links : Become(c, [pc |-> "readLog", viewer |-> v, link |-> l, log |-> {}])
    BY <1>6 DEF BeginAccessLog
  <2> QED
    BY <1>1, <2>1 DEF TablePcs
<1>7. CASE BeginConsume(c) /\ ~Become(c, [pc |-> "refused"])
  <2>1. PICK v \in Viewers, l \in Links, outcome \in Outcomes :
          Become(c, [pc |-> IF outcome = "granted" THEN "clamp" ELSE "record", viewer |-> v, link |-> l,
                     outcome |-> outcome, profile |-> {}])
    BY <1>7 DEF BeginConsume, Outcomes, Denial
  <2> QED
    BY <1>1, <2>1 DEF TablePcs
<1>8. CASE BeginProfile(c)
  <2>1. PICK v \in Viewers :
          Become(c, [pc |-> "assemble", viewer |-> v, outcome |-> "own", profile |-> access[v].sections \ Deferred])
    BY <1>8 DEF BeginProfile
  <2> QED
    BY <1>1, <2>1 DEF TablePcs
<1> QED
  BY <1>2, <1>3, <1>4, <1>5, <1>6, <1>7, <1>8 DEF BeginLinks

LEMMA LinksKeepTables ==
  ASSUME TablesInv, UNCHANGED roleVars, UNCHANGED viewVars, NEW c \in Calls, ServeLinks(c)
  PROVE  TablesInv'
<1>1. DOMAIN call = Calls /\ "pc" \in DOMAIN call[c]
  BY StatesByPlace DEF TablesInv, TableCallsFit
<1>2. ASSUME NEW s, call' = [call EXCEPT ![c] = s], s.pc \notin TablePcs \cup {"idle"}, "pc" \in DOMAIN s
      PROVE  TablesInv'
  BY <1>2, Leaving DEF Elsewhere
<1>3. ASSUME NEW pc \in {"sections", "saveLink", "refused", "done", "revoke"}, Goto(c, pc)
      PROVE  TablesInv'
  BY <1>3, LeavingFor DEF TablePcs
<1>4. CASE CheckRecipient(c) \/ GrantSections(c) \/ SaveLink(c) \/ FindLink(c) \/ RevokeLink(c) \/ RecordAccess(c)
  BY <1>3, <1>4 DEF CheckRecipient, GrantSections, SaveLink, FindLink, RevokeLink, RecordAccess
<1>5. CASE ListLinks(c)
  <2>1. PICK s : s = [call[c] EXCEPT !.pc = "done", !.shown = {l \in Links : Alive(l)}]
    OBVIOUS
  <2>2. call' = [call EXCEPT ![c] = s] /\ s.pc = "done" /\ "pc" \in DOMAIN s
    BY <1>1, <1>5, <2>1 DEF ListLinks
  <2> QED
    BY <1>2, <2>2 DEF TablePcs
<1>6. CASE ReadLog(c)
  <2>1. PICK pc, log : /\ pc \in {"done", "refused"}
                       /\ call' = [call EXCEPT ![c].pc = pc, ![c].log = log]
    BY <1>6 DEF ReadLog
  <2>2. PICK s : s = [call[c] EXCEPT !.pc = pc, !.log = log]
    OBVIOUS
  <2>3. call' = [call EXCEPT ![c] = s] /\ s.pc = pc /\ "pc" \in DOMAIN s
    BY <1>1, <2>1, <2>2
  <2> QED
    BY <1>2, <2>1, <2>3 DEF TablePcs
<1>7. CASE ClampSections(c)
  <2>1. PICK profile : call' = [call EXCEPT ![c].profile = profile, ![c].pc = "assemble"]
    BY <1>7 DEF ClampSections
  <2>2. PICK s : s = [call[c] EXCEPT !.profile = profile, !.pc = "assemble"]
    OBVIOUS
  <2>3. call' = [call EXCEPT ![c] = s] /\ s.pc = "assemble" /\ "pc" \in DOMAIN s
    BY <1>1, <2>1, <2>2
  <2> QED
    BY <1>2, <2>3 DEF TablePcs
<1>8. CASE AssembleProfile(c)
  <2>1. PICK loaded \in Loads(call[c].profile) :
          call' = [call EXCEPT ![c].profile = loaded,
                               ![c].pc = IF call[c].outcome = "own" THEN "done" ELSE "record"]
    BY <1>8 DEF AssembleProfile
  <2>2. PICK s : s = [call[c] EXCEPT !.profile = loaded, !.pc = IF call[c].outcome = "own" THEN "done" ELSE "record"]
    OBVIOUS
  <2>3. call' = [call EXCEPT ![c] = s] /\ s.pc \in {"done", "record"} /\ "pc" \in DOMAIN s
    BY <1>1, <2>1, <2>2
  <2> QED
    BY <1>2, <2>3 DEF TablePcs
<1> QED
  BY <1>4, <1>5, <1>6, <1>7, <1>8 DEF ServeLinks

\* Nobody moves, and the tables stay.
LEMMA NothingOfTheirs ==
  ASSUME TablesInv, UNCHANGED roleVars, UNCHANGED viewVars, UNCHANGED call
  PROVE  TablesInv'
<1>1. UNCHANGED <<role, held, leads, view, shares, call>>
  BY DEF roleVars, viewVars
<1> QED
  BY <1>1
     DEF TablesInv, TableCallsFit, RolesAreConsistent, RolesTypeOK, Exists, KeysOfRole, ViewsAreConsistent, Stored,
         NamesAreKept, NameIsFree, SharesAreWithOthers, SharedWithOthers, ViewsAreMade, At

LEMMA TablesBegin == Init => TablesInv
<1> SUFFICES ASSUME Init
             PROVE  TablesInv
  OBVIOUS
<1>1. PICK b \in Beginnings : RolesInit(b.roles) /\ ViewsInit(b.views)
  BY DEF Init
<1>2. /\ role = b.roles.role /\ held = b.roles.held /\ leads = b.roles.leads
      /\ view = b.views.view /\ shares = b.views.shares /\ call = [c \in Calls |-> NotAsked]
  BY <1>1 DEF RolesInit, ViewsInit, Init, RequestsInit
<1>3. RolesAreConsistent
  BY <1>2, ConfigurationAssumption DEF RolesStored, RolesAreConsistent, RolesTypeOK, Exists, KeysOfRole
<1>4. ViewsAreConsistent
  BY <1>2, ConfigurationAssumption DEF ViewsStored, ViewsAreConsistent, Stored
<1>5. \A c \in Calls : Elsewhere(call[c])
  BY <1>2 DEF NotAsked, Elsewhere, TablePcs
<1>6. \A c \in Calls : Fits(call[c]) /\ ~Renaming(call[c]) /\ call[c] \notin ShareState
  BY <1>5, ElsewhereIsNoWork
<1>7. ViewsAreMade
  BY <1>2, ConfigurationAssumption DEF ViewsStored, ViewsAreMade, Stored, NoView
<1> QED
  BY <1>2, <1>3, <1>4, <1>6, <1>7 DEF TablesInv, TableCallsFit, NamesAreKept, SharesAreWithOthers

LEMMA TablesStep == TablesInv /\ [Next]_configurationVars => TablesInv'
<1> SUFFICES ASSUME TablesInv, [Next]_configurationVars
             PROVE  TablesInv'
  OBVIOUS
<1>1. ASSUME NEW c \in Calls, Begin(c)
      PROVE  TablesInv'
  BY <1>1, RoleTablesBegin, ViewTablesBegin, LinksBegin DEF Begin
<1>2. ASSUME NEW c \in Calls, Serve(c)
      PROVE  TablesInv'
  BY <1>2, RoleTablesGoOn, ViewTablesGoOn, LinksKeepTables DEF Serve
<1>3. ASSUME NEW c \in Calls, StatementFails(c)
      PROVE  TablesInv'
  BY <1>3, LeavingFor DEF StatementFails, Fail, TablePcs
<1>4. CASE Surroundings
  BY <1>4, NothingOfTheirs DEF Surroundings, LinkSurroundings, AccessChanges, Dismissal, Tick, requestVars
<1>5. CASE UNCHANGED configurationVars
  BY <1>5, NothingOfTheirs DEF configurationVars, requestVars
<1> QED
  BY <1>1, <1>2, <1>3, <1>4, <1>5 DEF Next

\* The strengthened invariant: what every request under way has read and checked
\* fits the tables, whatever other requests have committed since.
THEOREM TablesAlwaysHold == Spec => []TablesInv
BY TablesBegin, TablesStep, PTL DEF Spec

\* Whatever creations, updates, deletions and assignments interleave, nobody holds
\* a role that is gone, no two roles share a name, and the HR Admin role keeps the
\* key that administers roles (functional-role.service.ts).
THEOREM RolesTheorem == Spec => []RolesAreConsistent
<1>1. TablesInv => RolesAreConsistent
  BY DEF TablesInv
<1> QED
  BY <1>1, TablesAlwaysHold, PTL

\* Whatever updates, removals and replacements of shares interleave, a view that is
\* gone is shared with nobody, and no view is shared with its owner or twice with
\* the same person (saved-views.service.ts).
THEOREM ViewsTheorem == Spec => []ViewsAreConsistent
<1>1. TablesInv => ViewsAreConsistent
  BY DEF TablesInv
<1> QED
  BY <1>1, TablesAlwaysHold, PTL

-----------------------------------------------------------------------------
(* SHARED LINKS                                                            *)

-----------------------------------------------------------------------------
(* What a request about links has in its record.                           *)

UseState == [pc : {"clamp", "assemble", "record", "done", "refused"}, viewer : Viewers, link : Links,
             outcome : Outcomes, profile : SUBSET Sections]
OwnState == [pc : {"assemble", "done", "refused"}, viewer : Viewers, outcome : {"own"},
             profile : SUBSET Sections]
MakeState ==
  {s \in [pc : {"recipient", "sections", "saveLink", "done", "refused"}, viewer : Viewers,
          recipient : Viewers, asked : SUBSET (Configurable \cup Never), hours : Lifetimes] :
     s.pc \in {"sections", "saveLink"} => Shareable(s.asked)}
RevokeState == [pc : {"findLink", "revoke", "done", "refused"}, link : Links]
LinkPcs == {"clamp", "assemble", "record", "recipient", "sections", "saveLink", "findLink", "revoke"}

\* Any other request, and one that has not been made: no profile in it.
Other(s) == "pc" \in DOMAIN s /\ "profile" \notin DOMAIN s /\ s.pc \notin LinkPcs
CallFits(s) == s \in UseState \/ s \in OwnState \/ s \in MakeState \/ s \in RevokeState \/ Other(s)
CallsFit == DOMAIN call = Calls /\ \A c \in Calls : CallFits(call[c])

\* A request makes its link with its last step.
MadeAtTheEnd == \A c \in Calls : Made(c) => At(c, "done")
LinksAreShareable == \A l \in Links : link[l].sections \cap Never = {}

\* A request that uses a link: the link is there; one that may show something
\* came from its recipient, and shows no more than was to be shared.
UseFits(c, s) ==
  /\ Made(s.link) /\ s.profile \cap Never = {}
  /\ s.outcome = "granted" => s.viewer = link[s.link].recipient
  /\ s.pc = "clamp" => s.outcome = "granted" /\ SharedBy(link[s.link], access) \subseteq had[c]
  /\ s.pc = "done" => s.outcome = "granted" /\
       [who |-> s.viewer, link |-> s.link, outcome |-> "granted"] \in journal
UsesHold == \A c \in Calls : call[c] \in UseState => UseFits(c, call[c])

ProfileFits(c, s) == "profile" \in DOMAIN s => s.profile \subseteq had[c]
ProfilesAreTheirs == \A c \in Calls : ProfileFits(c, call[c])

LinksInv ==
  /\ LinksTypeOK /\ access \in Accesses /\ CallsFit /\ MadeAtTheEnd /\ LinksAreShareable
  /\ UsesHold /\ ProfilesAreTheirs

-----------------------------------------------------------------------------
(* States of requests.                                                     *)

\* What is in a record with a given place.
LEMMA UsesByPlace ==
  ASSUME NEW s, CallFits(s)
  PROVE  /\ s.pc = "clamp" => s \in UseState
         /\ s.pc = "record" => s \in UseState
         /\ s.pc = "assemble" => s \in UseState \/ s \in OwnState
         /\ s.pc \in {"recipient", "sections", "saveLink"} => s \in MakeState
         /\ s.pc \in {"findLink", "revoke"} => s \in RevokeState
         /\ s.pc \notin LinkPcs \cup {"done", "refused"} => Other(s)
         /\ "pc" \in DOMAIN s
  BY DEF CallFits, UseState, OwnState, MakeState, RevokeState, Other, LinkPcs

LEMMA ProfilesByKind ==
  ASSUME NEW s, CallFits(s)
  PROVE  /\ "profile" \in DOMAIN s => s \in UseState \/ s \in OwnState
         /\ Other(s) => s \notin UseState
  BY DEF CallFits, UseState, OwnState, MakeState, RevokeState, Other

\* A request that fails keeps what it has.
LEMMA Failing ==
  ASSUME NEW s, CallFits(s), s.pc # "done",
         NEW t, t = [s EXCEPT !.pc = "refused"]
  PROVE  /\ CallFits(t) /\ t.pc = "refused" /\ DOMAIN t = DOMAIN s
         /\ "profile" \in DOMAIN s => t.profile = s.profile
         /\ t \in UseState => s \in UseState /\ t.link = s.link /\ t.viewer = s.viewer /\ t.outcome = s.outcome
<1>1. "pc" \in DOMAIN s
  BY UsesByPlace
<1>2. CASE s \in UseState
  BY <1>2 DEF UseState, CallFits
<1>3. CASE s \in OwnState
  BY <1>3 DEF OwnState, UseState, CallFits
<1>4. CASE s \in MakeState
  BY <1>4 DEF MakeState, UseState, CallFits
<1>5. CASE s \in RevokeState
  BY <1>5 DEF RevokeState, UseState, CallFits
<1>6. CASE Other(s)
  BY <1>6 DEF Other, LinkPcs, UseState, CallFits
<1> QED
  BY <1>2, <1>3, <1>4, <1>5, <1>6 DEF CallFits

-----------------------------------------------------------------------------
(* Steps of one request.                                                   *)

\* A request goes on to a state that fits it, and touches neither a link that is
\* made, nor what others were entitled to, nor an entry of the journal.
LEMMA LinksGoOn ==
  ASSUME LinksInv, NEW c \in Calls, ~At(c, "done"), NEW s, call' = [call EXCEPT ![c] = s],
         CallFits(s), s \in UseState => UseFits(c, s)', ProfileFits(c, s)',
         LinksTypeOK', access' = access, LinksAreShareable', journal \subseteq journal',
         \A d \in Calls \ {c} : had'[d] = had[d],
         \A l \in Links : Made(l) =>
            link'[l].creator = link[l].creator /\ link'[l].recipient = link[l].recipient
              /\ link'[l].sections = link[l].sections,
         \A d \in Calls : Made(d)' => Made(d) \/ (d = c /\ s.pc = "done")
  PROVE  LinksInv'
<1>1. DOMAIN call' = Calls /\ call'[c] = s /\ \A d \in Calls \ {c} : call'[d] = call[d]
  BY DEF LinksInv, CallsFit
<1>2. CallsFit'
  BY <1>1 DEF LinksInv, CallsFit
<1>3. MadeAtTheEnd'
  BY <1>1 DEF LinksInv, MadeAtTheEnd, At
<1>4. UsesHold'
  <2> SUFFICES ASSUME NEW d \in Calls, d # c, call[d] \in UseState
               PROVE  UseFits(d, call[d])'
    BY <1>1 DEF UsesHold
  <2>1. UseFits(d, call[d]) /\ call[d].link \in Links
    BY DEF LinksInv, UsesHold, UseState
  <2> QED
    BY <1>1, <2>1 DEF UseFits, Made, SharedBy
<1>5. ProfilesAreTheirs'
  BY <1>1 DEF LinksInv, ProfilesAreTheirs, ProfileFits
<1> QED
  BY <1>2, <1>3, <1>4, <1>5 DEF LinksInv

\* The request only reads.
LEMMA GoingOn ==
  ASSUME LinksInv, UNCHANGED linkVars, NEW c \in Calls, ~At(c, "done"), NEW s,
         call' = [call EXCEPT ![c] = s],
         CallFits(s), s \in UseState => UseFits(c, s), ProfileFits(c, s)
  PROVE  LinksInv'
<1>1. /\ s \in UseState => UseFits(c, s)'
      /\ ProfileFits(c, s)'
  BY DEF UseFits, ProfileFits, Made, SharedBy, linkVars
<1>2. LinksTypeOK' /\ access' = access /\ LinksAreShareable' /\ journal' = journal /\ had' = had /\ link' = link
  BY DEF LinksInv, linkVars, LinksTypeOK, LinksAreShareable
<1>3. \A d \in Calls : Made(d)' <=> Made(d)
  BY <1>2 DEF Made
<1> HIDE DEF linkVars
<1> QED
  BY <1>1, <1>2, <1>3, LinksGoOn

LEMMA OtherGoesOn ==
  ASSUME LinksInv, UNCHANGED linkVars, NEW c \in Calls, NEW s,
         call' = [call EXCEPT ![c] = s], ~At(c, "done"), Other(s)
  PROVE  LinksInv'
<1>1. CallFits(s)
  BY DEF CallFits
<1>2. s \notin UseState /\ ProfileFits(c, s)
  BY <1>1, ProfilesByKind DEF Other, ProfileFits
<1> QED
  BY <1>1, <1>2, GoingOn

\* A request that neither uses nor changes links moves to another place.
LEMMA OtherMoves ==
  ASSUME LinksInv, UNCHANGED linkVars, NEW c \in Calls,
         call[c].pc \notin LinkPcs \cup {"done", "refused"},
         NEW pc, pc \notin LinkPcs, Goto(c, pc)
  PROVE  LinksInv'
<1> DEFINE s == [call[c] EXCEPT !.pc = pc]
<1>1. Other(call[c]) /\ "pc" \in DOMAIN call[c]
  BY UsesByPlace DEF LinksInv, CallsFit
<1>2. Other(s)
  BY <1>1 DEF Other
<1>3. call' = [call EXCEPT ![c] = s]
  BY <1>1 DEF Goto, LinksInv, CallsFit
<1> HIDE DEF s
<1> QED
  BY <1>2, <1>3, OtherGoesOn DEF At

LEMMA NothingMoves ==
  ASSUME LinksInv, UNCHANGED linkVars, UNCHANGED call
  PROVE  LinksInv'
BY DEF LinksInv, linkVars, LinksTypeOK, LinksAreShareable, CallsFit, MadeAtTheEnd, Made, At, UsesHold,
  UseFits, SharedBy, ProfilesAreTheirs, ProfileFits

LEMMA FailureKeepsLinks ==
  ASSUME LinksInv, UNCHANGED linkVars, NEW c \in Calls, Fail(c)
  PROVE  LinksInv'
<1> DEFINE s == [call[c] EXCEPT !.pc = "refused"]
<1>1. CallFits(call[c]) /\ call[c].pc # "done" /\ call' = [call EXCEPT ![c] = s]
  BY DEF Fail, Waiting, Answers, Goto, LinksInv, CallsFit
<1>2. PICK t : t = s
  OBVIOUS
<1>3. /\ CallFits(t) /\ t.pc = "refused" /\ DOMAIN t = DOMAIN call[c]
      /\ "profile" \in DOMAIN call[c] => t.profile = call[c].profile
      /\ t \in UseState => /\ call[c] \in UseState /\ t.link = call[c].link
                           /\ t.viewer = call[c].viewer /\ t.outcome = call[c].outcome
  BY <1>1, <1>2, Failing
<1>4. ProfileFits(c, t)
  BY <1>3 DEF LinksInv, ProfilesAreTheirs, ProfileFits
<1>5. ASSUME t \in UseState
      PROVE  UseFits(c, t)
  <2>1. UseFits(c, call[c]) /\ "profile" \in DOMAIN call[c]
    BY <1>3, <1>5 DEF LinksInv, UsesHold, UseState
  <2> QED
    BY <1>3, <1>5, <2>1 DEF UseFits
<1> HIDE DEF s
<1> QED
  BY <1>1, <1>2, <1>3, <1>4, <1>5, GoingOn DEF At

-----------------------------------------------------------------------------
(* Requests about roles and about views.                                   *)

\* A request begins, or ends, as one of another kind.
LEMMA OtherBegins ==
  ASSUME LinksInv, UNCHANGED linkVars, NEW c \in Calls, At(c, "idle"), NEW s, Become(c, s), Other(s)
  PROVE  LinksInv'
BY OtherGoesOn DEF Become, At

LEMMA RolesBegin ==
  ASSUME LinksInv, UNCHANGED linkVars, NEW c \in Calls, BeginRoles(c)
  PROVE  LinksInv'
<1>1. CASE ListRoles(c)
  <2>1. PICK s : At(c, "idle") /\ Become(c, s) /\ Other(s)
    BY <1>1 DEF ListRoles, Other, LinkPcs
  <2> QED
    BY <2>1, OtherBegins
<1>2. CASE MyPermissions(c)
  <2>1. PICK s : At(c, "idle") /\ Become(c, s) /\ Other(s)
    BY <1>2 DEF MyPermissions, Other, LinkPcs
  <2> QED
    BY <2>1, OtherBegins
<1>3. CASE BeginAssignment(c)
  <2>1. PICK s : At(c, "idle") /\ Become(c, s) /\ Other(s)
    BY <1>3 DEF BeginAssignment, Other, LinkPcs
  <2> QED
    BY <2>1, OtherBegins
<1>4. CASE BeginCreateRole(c)
  <2>1. PICK s : At(c, "idle") /\ Become(c, s) /\ Other(s)
    BY <1>4 DEF BeginCreateRole, Other, LinkPcs
  <2> QED
    BY <2>1, OtherBegins
<1>5. CASE BeginUpdateRole(c)
  <2>1. PICK s : At(c, "idle") /\ Become(c, s) /\ Other(s)
    BY <1>5 DEF BeginUpdateRole, Other, LinkPcs
  <2> QED
    BY <2>1, OtherBegins
<1>6. CASE BeginDeleteRole(c)
  <2>1. PICK s : At(c, "idle") /\ Become(c, s) /\ Other(s)
    BY <1>6 DEF BeginDeleteRole, Other, LinkPcs
  <2> QED
    BY <2>1, OtherBegins
<1> QED
  BY <1>1, <1>2, <1>3, <1>4, <1>5, <1>6 DEF BeginRoles

\* A request that neither uses nor changes links, and has come on to s.
LEMMA OtherComesTo ==
  ASSUME LinksInv, UNCHANGED linkVars, NEW c \in Calls,
         call[c].pc \notin LinkPcs \cup {"done", "refused"},
         NEW s, call' = [call EXCEPT ![c] = s], Other(call[c]) => Other(s)
  PROVE  LinksInv'
<1>1. Other(call[c])
  BY UsesByPlace DEF LinksInv, CallsFit
<1> QED
  BY <1>1, OtherGoesOn DEF At

LEMMA RolesGoOn ==
  ASSUME LinksInv, UNCHANGED linkVars, NEW c \in Calls, ServeRoles(c)
  PROVE  LinksInv'
<1> USE DEF LinkPcs
<1>1. CASE FindAdminGrantingRoles(c)
  <2> DEFINE s == [call[c] EXCEPT !.granting = AdminGrantingRoles,
                                !.pc = IF AdminGrantingRoles = {} THEN "roles" ELSE "self"]
  <2>1. call' = [call EXCEPT ![c] = s]
    BY <1>1 DEF FindAdminGrantingRoles, LinksInv, CallsFit
  <2>2. Other(call[c]) => Other(s)
    BY DEF Other
  <2>3. call[c].pc \notin LinkPcs \cup {"done", "refused"}
    BY <1>1 DEF FindAdminGrantingRoles, At
  <2> HIDE DEF s
  <2> QED
    BY <2>1, <2>2, <2>3, OtherComesTo
<1>2. CASE CheckSelfGrant(c)
  BY <1>2, OtherMoves DEF CheckSelfGrant, At
<1>3. CASE CountHolders(c)
  BY <1>3, OtherMoves DEF CountHolders, At
<1>4. CASE ReadAssignments(c)
  <2> DEFINE s == [call[c] EXCEPT !.existing = held[call[c].employee],
                                !.pc = IF \A r \in call[c].desired : Exists(r) THEN "assign" ELSE "refused"]
  <2>1. call' = [call EXCEPT ![c] = s]
    BY <1>4 DEF ReadAssignments, LinksInv, CallsFit
  <2>2. Other(call[c]) => Other(s)
    BY DEF Other
  <2>3. call[c].pc \notin LinkPcs \cup {"done", "refused"}
    BY <1>4 DEF ReadAssignments, At
  <2> HIDE DEF s
  <2> QED
    BY <2>1, <2>2, <2>3, OtherComesTo
<1>5. CASE ReplaceAssignments(c)
  BY <1>5, OtherMoves DEF ReplaceAssignments, At
<1>6. CASE CreateRole(c)
  BY <1>6, OtherMoves DEF CreateRole, At
<1>7. CASE RenameRole(c)
  BY <1>7, OtherMoves DEF RenameRole, At
<1>8. CASE SeeKeys(c)
  <2> DEFINE s == [call[c] EXCEPT !.seen = role[call[c].role].keys, !.pc = "deleteKeys"]
  <2>1. call' = [call EXCEPT ![c] = s]
    BY <1>8 DEF SeeKeys, LinksInv, CallsFit
  <2>2. Other(call[c]) => Other(s)
    BY DEF Other
  <2>3. call[c].pc \notin LinkPcs \cup {"done", "refused"}
    BY <1>8 DEF SeeKeys, At
  <2> HIDE DEF s
  <2> QED
    BY <2>1, <2>2, <2>3, OtherComesTo
<1>9. CASE DeleteKeys(c)
  BY <1>9, OtherMoves DEF DeleteKeys, At
<1>10. CASE InsertKeys(c)
  BY <1>10, OtherMoves DEF InsertKeys, At
<1>11. CASE DeleteRole(c)
  BY <1>11, OtherMoves DEF DeleteRole, At
<1> QED
  BY <1>1, <1>2, <1>3, <1>4, <1>5, <1>6, <1>7, <1>8, <1>9, <1>10, <1>11 DEF ServeRoles

LEMMA ViewsBegin ==
  ASSUME LinksInv, UNCHANGED linkVars, NEW c \in Calls, BeginViews(c)
  PROVE  LinksInv'
<1>1. CASE CreateView(c)
  <2>1. PICK s : At(c, "idle") /\ Become(c, s) /\ Other(s)
    BY <1>1 DEF CreateView, Other, LinkPcs
  <2> QED
    BY <2>1, OtherBegins
<1>2. CASE ListViews(c)
  <2>1. PICK s : At(c, "idle") /\ Become(c, s) /\ Other(s)
    BY <1>2 DEF ListViews, Other, LinkPcs
  <2> QED
    BY <2>1, OtherBegins
<1>3. CASE BeginViewUpdate(c)
  <2>1. PICK s : At(c, "idle") /\ Become(c, s) /\ Other(s)
    BY <1>3 DEF BeginViewUpdate, Other, LinkPcs
  <2> QED
    BY <2>1, OtherBegins
<1>4. CASE BeginViewRemoval(c)
  <2>1. PICK s : At(c, "idle") /\ Become(c, s) /\ Other(s)
    BY <1>4 DEF BeginViewRemoval, Other, LinkPcs
  <2> QED
    BY <2>1, OtherBegins
<1>5. CASE BeginShare(c)
  <2>1. PICK s : At(c, "idle") /\ Become(c, s) /\ Other(s)
    BY <1>5 DEF BeginShare, Other, LinkPcs
  <2> QED
    BY <2>1, OtherBegins
<1> QED
  BY <1>1, <1>2, <1>3, <1>4, <1>5 DEF BeginViews

LEMMA ViewsGoOn ==
  ASSUME LinksInv, UNCHANGED linkVars, NEW c \in Calls, ServeViews(c)
  PROVE  LinksInv'
<1> USE DEF LinkPcs
<1>1. CASE UpdateView(c)
  BY <1>1, OtherMoves DEF UpdateView, At
<1>2. CASE RemoveView(c)
  BY <1>2, OtherMoves DEF RemoveView, At
<1>3. CASE SeeShares(c)
  <2> DEFINE s == [call[c] EXCEPT !.seen = shares[call[c].view], !.pc = "deleteShares"]
  <2>1. call' = [call EXCEPT ![c] = s]
    BY <1>3 DEF SeeShares, LinksInv, CallsFit
  <2>2. Other(call[c]) => Other(s)
    BY DEF Other
  <2>3. call[c].pc \notin LinkPcs \cup {"done", "refused"}
    BY <1>3 DEF SeeShares, At
  <2> HIDE DEF s
  <2> QED
    BY <2>1, <2>2, <2>3, OtherComesTo
<1>4. CASE DeleteShares(c)
  BY <1>4, OtherMoves DEF DeleteShares, At
<1>5. CASE InsertShares(c)
  BY <1>5, OtherMoves DEF InsertShares, At
<1> QED
  BY <1>1, <1>2, <1>3, <1>4, <1>5 DEF ServeViews

-----------------------------------------------------------------------------
(* Requests about links that neither make, revoke nor use one.             *)

LEMMA LinkListsBegin ==
  ASSUME LinksInv, UNCHANGED linkVars, NEW c \in Calls, BeginListLinks(c) \/ BeginAccessLog(c)
  PROVE  LinksInv'
<1>1. CASE BeginListLinks(c)
  <2>1. PICK s : At(c, "idle") /\ Become(c, s) /\ Other(s)
    BY <1>1 DEF BeginListLinks, Other, LinkPcs
  <2> QED
    BY <2>1, OtherBegins
<1>2. CASE BeginAccessLog(c)
  <2>1. PICK s : At(c, "idle") /\ Become(c, s) /\ Other(s)
    BY <1>2 DEF BeginAccessLog, Other, LinkPcs
  <2> QED
    BY <2>1, OtherBegins
<1> QED
  BY <1>1, <1>2

LEMMA LinkListsEnd ==
  ASSUME LinksInv, UNCHANGED linkVars, NEW c \in Calls, ListLinks(c) \/ ReadLog(c)
  PROVE  LinksInv'
<1> USE DEF LinkPcs
<1>1. CASE ListLinks(c)
  <2> DEFINE s == [call[c] EXCEPT !.pc = "done", !.shown = {l \in Links : Alive(l)}]
  <2>1. call' = [call EXCEPT ![c] = s]
    BY <1>1 DEF ListLinks, LinksInv, CallsFit
  <2>2. Other(call[c]) => Other(s)
    BY DEF Other
  <2>3. call[c].pc \notin LinkPcs \cup {"done", "refused"}
    BY <1>1 DEF ListLinks, At
  <2> HIDE DEF s
  <2> QED
    BY <2>1, <2>2, <2>3, OtherComesTo
<1>2. CASE ReadLog(c)
  <2> DEFINE s == [call[c] EXCEPT !.pc = IF MayReadJournal(call[c].viewer) THEN "done" ELSE "refused",
                                  !.log = {e \in journal : e.link = call[c].link}]
  <2>1. call' = [call EXCEPT ![c] = s]
    BY <1>2 DEF ReadLog, LinksInv, CallsFit
  <2>2. Other(call[c]) => Other(s)
    BY DEF Other
  <2>3. call[c].pc \notin LinkPcs \cup {"done", "refused"}
    BY <1>2 DEF ReadLog, At
  <2> HIDE DEF s
  <2> QED
    BY <2>1, <2>2, <2>3, OtherComesTo
<1> QED
  BY <1>1, <1>2

-----------------------------------------------------------------------------
(* Making and revoking links.                                              *)

LEMMA MakingOrRevoking ==
  ASSUME LinksInv, UNCHANGED linkVars, NEW c \in Calls, ~At(c, "done"), NEW s,
         call' = [call EXCEPT ![c] = s], s \in MakeState \/ s \in RevokeState
  PROVE  LinksInv'
<1>1. CallFits(s) /\ s \notin UseState /\ ProfileFits(c, s)
  BY DEF CallFits, MakeState, RevokeState, UseState, ProfileFits
<1> QED
  BY <1>1, GoingOn

LEMMA MakingMoves ==
  ASSUME LinksInv, UNCHANGED linkVars, NEW c \in Calls, call[c] \in MakeState, ~At(c, "done"),
         NEW pc \in {"sections", "saveLink", "refused"},
         pc \in {"sections", "saveLink"} => Shareable(call[c].asked), Goto(c, pc)
  PROVE  LinksInv'
<1> DEFINE s == [call[c] EXCEPT !.pc = pc]
<1>1. call' = [call EXCEPT ![c] = s]
  BY DEF Goto, LinksInv, CallsFit
<1>2. s \in MakeState
  BY DEF MakeState
<1> HIDE DEF s
<1> QED
  BY <1>1, <1>2, MakingOrRevoking

LEMMA RevokingMoves ==
  ASSUME LinksInv, UNCHANGED linkVars, NEW c \in Calls, call[c] \in RevokeState, ~At(c, "done"),
         NEW pc \in {"revoke", "done", "refused"}, Goto(c, pc)
  PROVE  LinksInv'
<1> DEFINE s == [call[c] EXCEPT !.pc = pc]
<1>1. call' = [call EXCEPT ![c] = s]
  BY DEF Goto, LinksInv, CallsFit
<1>2. s \in RevokeState
  BY DEF RevokeState
<1> HIDE DEF s
<1> QED
  BY <1>1, <1>2, MakingOrRevoking

LEMMA MakingReads ==
  ASSUME LinksInv, UNCHANGED linkVars, NEW c \in Calls,
         BeginLink(c) \/ CheckRecipient(c) \/ GrantSections(c)
  PROVE  LinksInv'
<1>1. CASE BeginLink(c)
  <2>1. PICK s : At(c, "idle") /\ Become(c, s) /\ (s \in MakeState \/ Other(s))
    BY <1>1 DEF BeginLink, MakeState, Other, LinkPcs
  <2> QED
    BY <2>1, MakingOrRevoking, OtherBegins DEF Become, At
<1>2. CASE CheckRecipient(c)
  <2>1. call[c] \in MakeState /\ call[c].pc = "recipient"
    BY <1>2, UsesByPlace DEF CheckRecipient, At, LinksInv, CallsFit
  <2> QED
    BY <1>2, <2>1, MakingMoves DEF CheckRecipient, At
<1>3. CASE GrantSections(c)
  <2>1. call[c] \in MakeState /\ call[c].pc = "sections"
    BY <1>3, UsesByPlace DEF GrantSections, At, LinksInv, CallsFit
  <2>2. Shareable(call[c].asked)
    BY <2>1 DEF MakeState
  <2> QED
    BY <1>3, <2>1, <2>2, MakingMoves DEF GrantSections, At
<1> QED
  BY <1>1, <1>2, <1>3

LEMMA RevokingReads ==
  ASSUME LinksInv, UNCHANGED linkVars, NEW c \in Calls, BeginRevoke(c) \/ FindLink(c)
  PROVE  LinksInv'
<1>1. CASE BeginRevoke(c)
  <2>1. PICK s : At(c, "idle") /\ Become(c, s) /\ (s \in RevokeState \/ Other(s))
    BY <1>1 DEF BeginRevoke, RevokeState, Other, LinkPcs
  <2> QED
    BY <2>1, MakingOrRevoking, OtherBegins DEF Become, At
<1>2. CASE FindLink(c)
  <2>1. call[c] \in RevokeState /\ call[c].pc = "findLink"
    BY <1>2, UsesByPlace DEF FindLink, At, LinksInv, CallsFit
  <2> QED
    BY <1>2, <2>1, RevokingMoves DEF FindLink, At
<1> QED
  BY <1>1, <1>2

LEMMA RevokeLinkKeepsLinks ==
  ASSUME LinksInv, NEW c \in Calls, RevokeLink(c)
  PROVE  LinksInv'
<1> DEFINE s == [call[c] EXCEPT !.pc = "done"]
<1>1. call[c] \in RevokeState /\ call[c].pc = "revoke" /\ call[c].link \in Links
  BY UsesByPlace DEF RevokeLink, At, LinksInv, CallsFit, RevokeState
<1>2. call' = [call EXCEPT ![c] = s]
  BY DEF RevokeLink, Goto, LinksInv, CallsFit
<1>3. s \in RevokeState
  BY <1>1 DEF RevokeState
<1> HIDE DEF s
<1>4. CallFits(s) /\ s \notin UseState /\ "profile" \notin DOMAIN s
  BY <1>3 DEF CallFits, RevokeState, UseState
<1>5. link \in [Links -> LinkRow] /\ link' = [link EXCEPT ![call[c].link].revoked = TRUE]
  BY DEF RevokeLink, LinksInv, LinksTypeOK
<1>6. \A l \in Links :
        /\ link'[l] \in LinkRow
        /\ link'[l].creator = link[l].creator /\ link'[l].recipient = link[l].recipient
        /\ link'[l].sections = link[l].sections
  BY <1>1, <1>5 DEF LinkRow
<1>7. /\ link' \in [Links -> LinkRow] /\ LinksAreShareable' /\ \A l \in Links : Made(l)' <=> Made(l)
      /\ Calls \subseteq Links
  BY <1>5, <1>6 DEF LinksInv, LinksAreShareable, Made, Links
<1>8. LinksTypeOK' /\ access' = access /\ journal' = journal /\ had' = had
  BY <1>7 DEF RevokeLink, LinksInv, LinksTypeOK
<1>9. PICK t : t = s
  OBVIOUS
<1> QED
  BY <1>1, <1>2, <1>4, <1>6, <1>7, <1>8, <1>9, LinksGoOn DEF At, ProfileFits

LEMMA SaveLinkKeepsLinks ==
  ASSUME LinksInv, NEW c \in Calls, SaveLink(c)
  PROVE  LinksInv'
<1> DEFINE s == [call[c] EXCEPT !.pc = "done"]
           row == [creator |-> call[c].viewer, recipient |-> call[c].recipient,
                   sections |-> WithDefault(call[c].asked), expires |-> ExpiresAt(call[c].hours), revoked |-> FALSE]
<1>1. call[c] \in MakeState /\ call[c].pc = "saveLink" /\ Shareable(call[c].asked)
  BY UsesByPlace DEF SaveLink, At, LinksInv, CallsFit, MakeState
<1>2. call' = [call EXCEPT ![c] = s]
  BY DEF SaveLink, Goto, LinksInv, CallsFit
<1>3. s \in MakeState /\ s.pc = "done"
  BY <1>1 DEF MakeState
<1>4. link \in [Links -> LinkRow] /\ link' = [link EXCEPT ![c] = row] /\ now \in Nat
  BY SharedLinksAssumption DEF SaveLink, LinksInv, LinksTypeOK, Times
<1>5. row \in LinkRow /\ row.sections \cap Never = {}
  <2>1. /\ call[c].viewer \in Viewers /\ call[c].recipient \in Viewers
        /\ call[c].asked \subseteq Configurable /\ call[c].hours \in Nat
    BY <1>1, SharedLinksAssumption DEF MakeState, Shareable
  <2>2. WithDefault(call[c].asked) \in SUBSET Sections /\ WithDefault(call[c].asked) \cap Never = {}
    BY <2>1, SharedLinksAssumption DEF WithDefault, Sections
  <2>3. ExpiresAt(call[c].hours) \in Nat
    BY <1>4, <2>1 DEF ExpiresAt
  <2> QED
    BY <2>1, <2>2, <2>3 DEF LinkRow
<1> HIDE DEF s, row
<1>6. CallFits(s) /\ s \notin UseState /\ "profile" \notin DOMAIN s
  BY <1>3 DEF CallFits, MakeState, UseState
<1>7. c \in Links /\ ~Made(c) /\ ~At(c, "done")
  BY <1>1 DEF Links, LinksInv, MadeAtTheEnd, At
<1>8. /\ link' \in [Links -> LinkRow] /\ \A l \in Links \ {c} : link'[l] = link[l] 
      /\ link'[c].sections \cap Never = {} /\ Calls \subseteq Links
  BY <1>4, <1>5, <1>7 DEF Links
<1>9. LinksAreShareable' /\ \A d \in Calls : Made(d)' => Made(d) \/ d = c
  BY <1>8 DEF LinksInv, LinksAreShareable, Made
<1>10. LinksTypeOK' /\ access' = access /\ journal' = journal /\ had' = had
  BY <1>8 DEF SaveLink, LinksInv, LinksTypeOK
<1>11. PICK t : t = s
  OBVIOUS
<1> QED
  BY <1>2, <1>3, <1>6, <1>7, <1>8, <1>9, <1>10, <1>11, LinksGoOn DEF ProfileFits

-----------------------------------------------------------------------------
(* Using a link.                                                           *)

\* What a viewer's access to the subject opens are sections.
LEMMA AccessOpensSections ==
  ASSUME LinksInv, NEW v \in Viewers
  PROVE  access[v].sections \subseteq Sections
BY SharedLinksAssumption DEF LinksInv

LEMMA BeginConsumeKeepsLinks ==
  ASSUME LinksInv, NEW c \in Calls, BeginConsume(c)
  PROVE  LinksInv'
<1>1. PICK v \in Viewers, l \in Links :
        LET row == link[l]
            outcome == IF Denial(row, now) # "none" THEN Denial(row, now)
                       ELSE IF row.recipient # v THEN "wrong_recipient" ELSE "granted"
        IN /\ Become(c, IF Made(l)
                THEN [pc |-> IF outcome = "granted" THEN "clamp" ELSE "record", viewer |-> v, link |-> l,
                      outcome |-> outcome, profile |-> {}]
                ELSE [pc |-> "refused"])
           /\ had' = [had EXCEPT ![c] = IF outcome = "granted" THEN SharedBy(row, access) ELSE {}]
  BY DEF BeginConsume
<1> DEFINE outcome == IF Denial(link[l], now) # "none" THEN Denial(link[l], now)
                      ELSE IF link[l].recipient # v THEN "wrong_recipient" ELSE "granted"
           shared == IF outcome = "granted" THEN SharedBy(link[l], access) ELSE {}
           use == [pc |-> IF outcome = "granted" THEN "clamp" ELSE "record", viewer |-> v, link |-> l,
                   outcome |-> outcome, profile |-> {}]
           s == IF Made(l) THEN use ELSE [pc |-> "refused"]
<1>2. call' = [call EXCEPT ![c] = s] /\ had' = [had EXCEPT ![c] = shared]
  BY <1>1 DEF Become
<1>3. outcome \in Outcomes /\ (outcome = "granted" => link[l].recipient = v)
  BY DEF Denial, Outcomes
<1>4. shared \in SUBSET Sections
  BY DEF LinksInv, LinksTypeOK, LinkRow, SharedBy
<1>5. UNCHANGED <<link, access, employed, journal, now>> /\ ~At(c, "done")
  BY DEF BeginConsume, At
<1> HIDE DEF outcome
<1>6. use \in UseState /\ use.link = l /\ use.viewer = v /\ use.outcome = outcome /\ use.profile = {}
      /\ use.pc \in {"clamp", "record"} /\ (use.pc = "clamp" => outcome = "granted")
  BY <1>3 DEF UseState
<1> HIDE DEF use
<1>7. CallFits(s) /\ (s \in UseState => Made(l) /\ s = use)
      /\ ("profile" \in DOMAIN s => s = use)
  BY <1>6 DEF CallFits, Other, LinkPcs, UseState
<1> HIDE DEF shared, s
<1>8. PICK t : t = s
  OBVIOUS
<1>9. had'[c] = shared /\ (\A d \in Calls \ {c} : had'[d] = had[d]) /\ LinksTypeOK'
  BY <1>2, <1>4, <1>5 DEF LinksInv, LinksTypeOK
<1>10. ASSUME t \in UseState
       PROVE  UseFits(c, t)'
  <2>1. Made(l) /\ t = use
    BY <1>7, <1>8, <1>10
  <2>2. use.pc = "clamp" => SharedBy(link[l], access) = shared
    BY <1>6 DEF shared
  <2> QED
    BY <1>3, <1>5, <1>6, <1>9, <2>1, <2>2 DEF UseFits, Made, SharedBy
<1>11. ProfileFits(c, t)'
  BY <1>6, <1>7, <1>8, <1>9 DEF ProfileFits
<1>12. LinksAreShareable' /\ access' = access /\ journal' = journal /\ \A d \in Calls : Made(d)' <=> Made(d)
  BY <1>5 DEF LinksInv, LinksAreShareable, Made
<1> QED
  BY <1>2, <1>5, <1>7, <1>8, <1>9, <1>10, <1>11, <1>12, LinksGoOn

LEMMA BeginProfileKeepsLinks ==
  ASSUME LinksInv, NEW c \in Calls, BeginProfile(c)
  PROVE  LinksInv'
<1>1. PICK v \in Viewers :
        /\ Become(c, [pc |-> "assemble", viewer |-> v, outcome |-> "own", profile |-> access[v].sections \ Deferred])
        /\ had' = [had EXCEPT ![c] = access[v].sections]
  BY DEF BeginProfile
<1>2. access[v].sections \subseteq Sections
  BY AccessOpensSections
<1>3. PICK t : t = [pc |-> "assemble", viewer |-> v, outcome |-> "own", profile |-> access[v].sections \ Deferred]
  OBVIOUS
<1>4. UNCHANGED <<link, access, employed, journal, now>> /\ ~At(c, "done") /\ call' = [call EXCEPT ![c] = t]
  BY <1>1, <1>3 DEF BeginProfile, At, Become
<1>5. t \in OwnState /\ t.profile = access[v].sections \ Deferred
  BY <1>2, <1>3 DEF OwnState
<1>6. CallFits(t) /\ t \notin UseState
  BY <1>3, <1>5 DEF CallFits, UseState
<1>7. had'[c] = access[v].sections /\ (\A d \in Calls \ {c} : had'[d] = had[d]) /\ LinksTypeOK'
  BY <1>1, <1>2, <1>4 DEF LinksInv, LinksTypeOK
<1>8. ProfileFits(c, t)'
  BY <1>5, <1>7 DEF ProfileFits
<1>9. LinksAreShareable' /\ access' = access /\ journal' = journal /\ \A d \in Calls : Made(d)' <=> Made(d)
  BY <1>4 DEF LinksInv, LinksAreShareable, Made
<1> QED
  BY <1>4, <1>6, <1>7, <1>8, <1>9, LinksGoOn

LEMMA ClampSectionsKeepsLinks ==
  ASSUME LinksInv, UNCHANGED linkVars, NEW c \in Calls, ClampSections(c)
  PROVE  LinksInv'
<1> DEFINE shared == SharedBy(link[call[c].link], access)
           s == [call[c] EXCEPT !.profile = shared, !.pc = "assemble"]
<1>1. call[c] \in UseState /\ call[c].pc = "clamp" /\ ~At(c, "done")
  BY UsesByPlace DEF ClampSections, At, LinksInv, CallsFit
<1>2. call' = [call EXCEPT ![c] = s]
  BY DEF ClampSections, SharedBy, LinksInv, CallsFit
<1>3. UseFits(c, call[c])
  BY <1>1 DEF LinksInv, UsesHold
<1>4. shared \subseteq had[c] /\ shared \subseteq Sections /\ shared \cap Never = {}
  BY <1>1, <1>3 DEF UseFits, SharedBy, LinksInv, LinksAreShareable, LinksTypeOK, LinkRow, UseState
<1> HIDE DEF shared
<1>5. /\ s \in UseState /\ s.pc = "assemble" /\ s.profile = shared
      /\ s.link = call[c].link /\ s.viewer = call[c].viewer /\ s.outcome = call[c].outcome
  BY <1>1, <1>4 DEF UseState
<1> HIDE DEF s
<1>6. UseFits(c, s) /\ ProfileFits(c, s) /\ CallFits(s)
  BY <1>3, <1>4, <1>5 DEF UseFits, ProfileFits, CallFits
<1> QED
  BY <1>1, <1>2, <1>6, GoingOn

LEMMA AssembleProfileKeepsLinks ==
  ASSUME LinksInv, UNCHANGED linkVars, NEW c \in Calls, AssembleProfile(c)
  PROVE  LinksInv'
<1>1. PICK loaded \in Loads(call[c].profile) :
        call' = [call EXCEPT ![c].profile = loaded,
                             ![c].pc = IF call[c].outcome = "own" THEN "done" ELSE "record"]
  BY DEF AssembleProfile
<1> DEFINE s == [call[c] EXCEPT !.profile = loaded, !.pc = IF call[c].outcome = "own" THEN "done" ELSE "record"]
<1>2. call' = [call EXCEPT ![c] = s]
  BY <1>1 DEF LinksInv, CallsFit
<1>3. (call[c] \in UseState \/ call[c] \in OwnState) /\ call[c].pc = "assemble" /\ ~At(c, "done")
  BY UsesByPlace DEF AssembleProfile, At, LinksInv, CallsFit
<1>4. loaded \subseteq call[c].profile /\ call[c].profile \subseteq had[c] /\ call[c].profile \subseteq Sections
  BY <1>3 DEF Loads, LinksInv, ProfilesAreTheirs, ProfileFits, UseState, OwnState
<1>5. CASE call[c] \in UseState
  <2>1. UseFits(c, call[c])
    BY <1>5 DEF LinksInv, UsesHold
  <2>2. /\ s \in UseState /\ s.pc = "record" /\ s.profile = loaded
        /\ s.link = call[c].link /\ s.viewer = call[c].viewer /\ s.outcome = call[c].outcome
    BY <1>4, <1>5 DEF UseState, Outcomes
  <2> HIDE DEF s
  <2>3. UseFits(c, s) /\ ProfileFits(c, s) /\ CallFits(s)
    BY <1>4, <2>1, <2>2 DEF UseFits, ProfileFits, CallFits
  <2> QED
    BY <1>2, <1>3, <2>3, GoingOn
<1>6. CASE call[c] \in OwnState
  <2>1. s \in OwnState /\ s.profile = loaded
    BY <1>4, <1>6 DEF OwnState
  <2> HIDE DEF s
  <2>2. s \notin UseState /\ ProfileFits(c, s) /\ CallFits(s)
    BY <1>4, <2>1 DEF UseState, OwnState, Outcomes, ProfileFits, CallFits
  <2> QED
    BY <1>2, <1>3, <2>2, GoingOn
<1> QED
  BY <1>3, <1>5, <1>6

LEMMA RecordAccessKeepsLinks ==
  ASSUME LinksInv, NEW c \in Calls, RecordAccess(c)
  PROVE  LinksInv'
<1> DEFINE entry == [who |-> call[c].viewer, link |-> call[c].link, outcome |-> call[c].outcome]
           s == [call[c] EXCEPT !.pc = IF call[c].outcome = "granted" THEN "done" ELSE "refused"]
<1>1. call[c] \in UseState /\ call[c].pc = "record" /\ ~At(c, "done")
  BY UsesByPlace DEF RecordAccess, At, LinksInv, CallsFit
<1>2. call' = [call EXCEPT ![c] = s] /\ journal' = journal \cup {entry}
      /\ UNCHANGED <<link, access, employed, now, had>>
  BY DEF RecordAccess, Goto, LinksInv, CallsFit
<1>3. entry \in [who : Viewers, link : Links, outcome : Outcomes]
  BY <1>1 DEF UseState
<1>4. LinksTypeOK' /\ LinksAreShareable' /\ journal \subseteq journal' /\ \A d \in Calls : Made(d)' <=> Made(d)
  BY <1>2, <1>3 DEF LinksInv, LinksTypeOK, LinksAreShareable, Made
<1>5. /\ s \in UseState /\ s.profile = call[c].profile
      /\ s.link = call[c].link /\ s.viewer = call[c].viewer /\ s.outcome = call[c].outcome
      /\ s.pc \in {"done", "refused"} /\ (s.pc = "done" => call[c].outcome = "granted")
  BY <1>1 DEF UseState
<1> HIDE DEF s
<1>6. PICK t : t = s
  OBVIOUS
<1>7. UseFits(c, call[c]) /\ ProfileFits(c, call[c]) /\ "profile" \in DOMAIN call[c]
  BY <1>1 DEF LinksInv, UsesHold, ProfilesAreTheirs, UseState
<1>8. UseFits(c, t)'
  BY <1>2, <1>5, <1>6, <1>7 DEF UseFits, Made
<1>9. ProfileFits(c, t)' /\ CallFits(t)
  BY <1>2, <1>5, <1>6, <1>7 DEF ProfileFits, CallFits
<1> QED
  BY <1>1, <1>2, <1>4, <1>6, <1>8, <1>9, LinksGoOn

-----------------------------------------------------------------------------
(* The surroundings.                                                       *)

LEMMA SurroundingsKeepLinks ==
  ASSUME LinksInv, LinkSurroundings
  PROVE  LinksInv'
<1>1. CASE AccessChanges
  <2>1. UNCHANGED <<link, employed, journal, now, call>> /\ access' \in Accesses
    BY <1>1 DEF AccessChanges, requestVars
  <2>2. had' = [c \in Calls |-> IF Using(c) THEN had[c] \cup SharedBy(link[call[c].link], access') ELSE had[c]]
    BY <1>1 DEF AccessChanges, Watch
  <2>3. \A c \in Calls : had[c] \subseteq had'[c] /\ had[c] \subseteq Sections
    BY <2>2 DEF LinksInv, LinksTypeOK
  <2>4. ASSUME NEW c \in Calls, Using(c)
        PROVE  call[c] \in UseState /\ UseFits(c, call[c]) /\ call[c].link \in Links
    BY <2>4, UsesByPlace DEF Using, LinksInv, CallsFit, UsesHold, UseState
  <2>5. \A c \in Calls : had'[c] \in SUBSET Sections
    BY <2>2, <2>3, <2>4 DEF SharedBy, LinksInv, LinksTypeOK, LinkRow
  <2>6. LinksTypeOK' /\ LinksAreShareable' /\ CallsFit' /\ MadeAtTheEnd'
    BY <2>1, <2>2, <2>5 DEF LinksInv, LinksTypeOK, LinksAreShareable, CallsFit, MadeAtTheEnd, Made, At
  <2>7. UsesHold'
    <3> SUFFICES ASSUME NEW c \in Calls, call[c] \in UseState
                 PROVE  UseFits(c, call[c])'
      BY <2>1 DEF UsesHold
    <3>1. UseFits(c, call[c])
      BY DEF LinksInv, UsesHold
    <3>2. call[c].pc = "clamp" => SharedBy(link[call[c].link], access') \subseteq had'[c]
      BY <2>2 DEF Using
    <3> QED
      BY <2>1, <3>1, <3>2 DEF UseFits, Made, SharedBy
  <2>8. ProfilesAreTheirs'
    BY <2>1, <2>3 DEF LinksInv, ProfilesAreTheirs, ProfileFits
  <2> QED
    BY <2>1, <2>6, <2>7, <2>8 DEF LinksInv
<1>2. CASE Dismissal \/ Tick
  <2>1. UNCHANGED <<link, access, journal, had, call>> /\ employed' \subseteq Viewers /\ now' \in Times
    BY <1>2, SharedLinksAssumption DEF Dismissal, Tick, requestVars, LinksInv, LinksTypeOK, Times
  <2>2. LinksTypeOK' /\ LinksAreShareable' /\ CallsFit' /\ MadeAtTheEnd' /\ ProfilesAreTheirs'
    BY <2>1 DEF LinksInv, LinksTypeOK, LinksAreShareable, CallsFit, MadeAtTheEnd, Made, At,
                ProfilesAreTheirs, ProfileFits
  <2>3. UsesHold'
    BY <2>1 DEF LinksInv, UsesHold, UseFits, Made, SharedBy
  <2> QED
    BY <2>1, <2>2, <2>3 DEF LinksInv
<1> QED
  BY <1>1, <1>2 DEF LinkSurroundings

-----------------------------------------------------------------------------
(* Every step.                                                             *)

LEMMA InitHolds == Init => LinksInv
<1> SUFFICES ASSUME Init
             PROVE  LinksInv
  OBVIOUS
<1>1. PICK b \in Beginnings : LinksInit(b.links)
  BY DEF Init
<1>2. /\ link = b.links.link /\ access = b.links.access /\ employed = Viewers
      /\ journal = {} /\ now = 0 /\ had = [c \in Calls |-> {}] /\ call = [c \in Calls |-> NotAsked]
  BY <1>1 DEF LinksInit, Init, RequestsInit
<1>3. LinksTypeOK /\ access \in Accesses /\ LinksAreShareable
  BY <1>2, ConfigurationAssumption, SharedLinksAssumption DEF LinksStored, LinksTypeOK, Times, LinksAreShareable
<1>4. \A c \in Calls : ~Made(c)
  BY <1>2, ConfigurationAssumption DEF LinksStored, Made, FreeLink
<1>5. \A c \in Calls : Other(call[c])
  BY <1>2 DEF NotAsked, Other, LinkPcs
<1>6. CallsFit /\ \A c \in Calls : call[c] \notin UseState /\ "profile" \notin DOMAIN call[c]
  BY <1>2, <1>5, ProfilesByKind DEF CallsFit, CallFits, Other
<1> QED
  BY <1>3, <1>4, <1>6 DEF LinksInv, MadeAtTheEnd, UsesHold, ProfilesAreTheirs, ProfileFits

LEMMA BeginKeepsLinks ==
  ASSUME LinksInv, NEW c \in Calls, Begin(c)
  PROVE  LinksInv'
<1>1. CASE BeginRoles(c) /\ UNCHANGED linkVars
  BY <1>1, RolesBegin
<1>2. CASE BeginViews(c) /\ UNCHANGED linkVars
  BY <1>2, ViewsBegin
<1>3. CASE BeginLink(c)
  BY <1>3, MakingReads DEF BeginLink
<1>4. CASE BeginRevoke(c)
  BY <1>4, RevokingReads DEF BeginRevoke
<1>5. CASE BeginListLinks(c) \/ BeginAccessLog(c)
  BY <1>5, LinkListsBegin DEF BeginListLinks, BeginAccessLog
<1>6. CASE BeginConsume(c)
  BY <1>6, BeginConsumeKeepsLinks
<1>7. CASE BeginProfile(c)
  BY <1>7, BeginProfileKeepsLinks
<1> QED
  BY <1>1, <1>2, <1>3, <1>4, <1>5, <1>6, <1>7 DEF Begin, BeginLinks

LEMMA ServeKeepsLinks ==
  ASSUME LinksInv, NEW c \in Calls, Serve(c)
  PROVE  LinksInv'
<1>1. CASE ServeRoles(c) /\ UNCHANGED linkVars
  BY <1>1, RolesGoOn
<1>2. CASE ServeViews(c) /\ UNCHANGED linkVars
  BY <1>2, ViewsGoOn
<1>3. CASE CheckRecipient(c) \/ GrantSections(c)
  BY <1>3, MakingReads DEF CheckRecipient, GrantSections
<1>4. CASE SaveLink(c)
  BY <1>4, SaveLinkKeepsLinks
<1>5. CASE FindLink(c)
  BY <1>5, RevokingReads DEF FindLink
<1>6. CASE RevokeLink(c)
  BY <1>6, RevokeLinkKeepsLinks
<1>7. CASE ListLinks(c) \/ ReadLog(c)
  BY <1>7, LinkListsEnd DEF ListLinks, ReadLog
<1>8. CASE ClampSections(c)
  BY <1>8, ClampSectionsKeepsLinks DEF ClampSections
<1>9. CASE AssembleProfile(c)
  BY <1>9, AssembleProfileKeepsLinks DEF AssembleProfile
<1>10. CASE RecordAccess(c)
  BY <1>10, RecordAccessKeepsLinks
<1> QED
  BY <1>1, <1>2, <1>3, <1>4, <1>5, <1>6, <1>7, <1>8, <1>9, <1>10 DEF Serve, ServeLinks

LEMMA StepKeepsLinks == LinksInv /\ [Next]_configurationVars => LinksInv'
<1> SUFFICES ASSUME LinksInv, [Next]_configurationVars
             PROVE  LinksInv'
  OBVIOUS
<1>1. CASE Surroundings
  BY <1>1, SurroundingsKeepLinks DEF Surroundings
<1>2. ASSUME NEW c \in Calls, Begin(c)
      PROVE  LinksInv'
  BY <1>2, BeginKeepsLinks
<1>3. ASSUME NEW c \in Calls, Serve(c)
      PROVE  LinksInv'
  BY <1>3, ServeKeepsLinks
<1>4. ASSUME NEW c \in Calls, StatementFails(c)
      PROVE  LinksInv'
  BY <1>4, FailureKeepsLinks DEF StatementFails
<1>5. CASE UNCHANGED configurationVars
  BY <1>5, NothingMoves DEF configurationVars, requestVars
<1> QED
  BY <1>1, <1>2, <1>3, <1>4, <1>5 DEF Next

\* Whatever requests are under way, a request that uses a link shows nothing but
\* what it may (consumeProfile): the part that is kept by every step.
THEOREM LinksAlwaysHold == Spec => []LinksInv
<1>1. Init => LinksInv
  BY InitHolds
<1>2. LinksInv /\ [Next]_configurationVars => LinksInv'
  BY StepKeepsLinks
<1> QED
  BY <1>1, <1>2, PTL DEF Spec

\* For every number of requests, viewers and links: a profile that a link has
\* disclosed went to its recipient, is in the access log, and shows only what
\* the link's creator could see since the living link was presented.
THEOREM DisclosureTheorem == Spec => []DisclosureIsAuthorized
<1>1. LinksInv => DisclosureIsAuthorized
  <2> SUFFICES ASSUME LinksInv, NEW c \in Calls, At(c, "done"), "profile" \in DOMAIN call[c]
               PROVE  /\ call[c].profile \subseteq had[c]
                      /\ call[c].outcome # "own" =>
                           /\ call[c].viewer = link[call[c].link].recipient /\ call[c].profile \cap Never = {}
                           /\ [who |-> call[c].viewer, link |-> call[c].link, outcome |-> "granted"] \in journal
    BY DEF DisclosureIsAuthorized, LinksInv
  <2>1. call[c].profile \subseteq had[c]
    BY DEF LinksInv, ProfilesAreTheirs, ProfileFits
  <2>2. call[c] \in UseState \/ call[c] \in OwnState
    BY ProfilesByKind DEF LinksInv, CallsFit
  <2>3. CASE call[c] \in UseState
    BY <2>1, <2>3 DEF LinksInv, UsesHold, UseFits, At
  <2>4. CASE call[c] \in OwnState
    BY <2>1, <2>4 DEF OwnState
  <2> QED
    BY <2>2, <2>3, <2>4
<1> QED
  BY <1>1, LinksAlwaysHold, PTL

-----------------------------------------------------------------------------
(* Dead links.                                                             *)

\* No request becomes one that uses a link, unless it begins as one.
NoNewUse == \A c \in Calls : At(c, "idle") => call'[c].pc # "clamp" \/ BeginConsume(c)

\* A request begins as something else; a request goes on.
LEMMA BeginsOtherwise ==
  ASSUME LinksInv, NEW c \in Calls, NEW s, Become(c, s), s.pc # "clamp"
  PROVE  NoNewUse
BY DEF NoNewUse, Become, At, LinksInv, CallsFit

LEMMA GoesOn ==
  ASSUME LinksInv, NEW c \in Calls, ~At(c, "idle"), \A d \in Calls \ {c} : call'[d] = call[d]
  PROVE  NoNewUse
BY DEF NoNewUse, At

LEMMA OneAtATime ==
  ASSUME LinksInv, NEW c \in Calls
  PROVE  /\ \A pc : Goto(c, pc) => \A d \in Calls \ {c} : call'[d] = call[d]
         /\ \A s : Become(c, s) => \A d \in Calls \ {c} : call'[d] = call[d]
BY DEF Goto, Become, LinksInv, CallsFit

LEMMA RolesUseNoLink ==
  ASSUME LinksInv, NEW c \in Calls, BeginRoles(c) \/ BeginViews(c)
  PROVE  NoNewUse
<1>1. CASE ListRoles(c)
  BY <1>1, BeginsOtherwise DEF ListRoles
<1>2. CASE MyPermissions(c)
  BY <1>2, BeginsOtherwise DEF MyPermissions
<1>3. CASE BeginAssignment(c)
  BY <1>3, BeginsOtherwise DEF BeginAssignment
<1>4. CASE BeginCreateRole(c)
  BY <1>4, BeginsOtherwise DEF BeginCreateRole
<1>5. CASE BeginUpdateRole(c)
  BY <1>5, BeginsOtherwise DEF BeginUpdateRole
<1>6. CASE BeginDeleteRole(c)
  BY <1>6, BeginsOtherwise DEF BeginDeleteRole
<1>7. CASE CreateView(c)
  BY <1>7, BeginsOtherwise DEF CreateView
<1>8. CASE ListViews(c)
  BY <1>8, BeginsOtherwise DEF ListViews
<1>9. CASE BeginViewUpdate(c)
  BY <1>9, BeginsOtherwise DEF BeginViewUpdate
<1>10. CASE BeginViewRemoval(c)
  BY <1>10, BeginsOtherwise DEF BeginViewRemoval
<1>11. CASE BeginShare(c)
  BY <1>11, BeginsOtherwise DEF BeginShare
<1> QED
  BY <1>1, <1>2, <1>3, <1>4, <1>5, <1>6, <1>7, <1>8, <1>9, <1>10, <1>11 DEF BeginRoles, BeginViews

LEMMA LinksBeginOrdinarily ==
  ASSUME LinksInv, NEW c \in Calls, BeginLinks(c)
  PROVE  NoNewUse
<1>1. CASE BeginLink(c)
  BY <1>1, BeginsOtherwise DEF BeginLink
<1>2. CASE BeginRevoke(c)
  BY <1>2, BeginsOtherwise DEF BeginRevoke
<1>3. CASE BeginListLinks(c)
  BY <1>3, BeginsOtherwise DEF BeginListLinks
<1>4. CASE BeginAccessLog(c)
  BY <1>4, BeginsOtherwise DEF BeginAccessLog
<1>5. CASE BeginProfile(c)
  BY <1>5, BeginsOtherwise DEF BeginProfile
<1>6. CASE BeginConsume(c)
  <2>1. PICK s : Become(c, s)
    BY <1>6 DEF BeginConsume
  <2>2. \A d \in Calls \ {c} : call'[d] = call[d]
    BY <2>1, OneAtATime
  <2> QED
    BY <1>6, <2>2 DEF NoNewUse, At
<1> QED
  BY <1>1, <1>2, <1>3, <1>4, <1>5, <1>6 DEF BeginLinks

LEMMA ServingMovesOne ==
  ASSUME LinksInv, NEW c \in Calls, ServeRoles(c) \/ ServeViews(c) \/ ServeLinks(c)
  PROVE  ~At(c, "idle") /\ \A d \in Calls \ {c} : call'[d] = call[d]
<1> USE OneAtATime DEF At
<1>1. CASE FindAdminGrantingRoles(c)
  BY <1>1 DEF FindAdminGrantingRoles, LinksInv, CallsFit
<1>2. CASE CheckSelfGrant(c) \/ CountHolders(c)
  BY <1>2 DEF CheckSelfGrant, CountHolders
<1>3. CASE ReadAssignments(c)
  BY <1>3 DEF ReadAssignments, LinksInv, CallsFit
<1>4. CASE ReplaceAssignments(c) \/ CreateRole(c) \/ RenameRole(c)
  BY <1>4 DEF ReplaceAssignments, CreateRole, RenameRole
<1>5. CASE SeeKeys(c)
  BY <1>5 DEF SeeKeys, LinksInv, CallsFit
<1>6. CASE DeleteKeys(c) \/ InsertKeys(c) \/ DeleteRole(c)
  BY <1>6 DEF DeleteKeys, InsertKeys, DeleteRole
<1>7. CASE UpdateView(c) \/ RemoveView(c)
  BY <1>7 DEF UpdateView, RemoveView
<1>8. CASE SeeShares(c)
  BY <1>8 DEF SeeShares, LinksInv, CallsFit
<1>9. CASE DeleteShares(c) \/ InsertShares(c)
  BY <1>9 DEF DeleteShares, InsertShares
<1>10. CASE CheckRecipient(c) \/ GrantSections(c) \/ SaveLink(c) \/ FindLink(c) \/ RevokeLink(c)
  BY <1>10 DEF CheckRecipient, GrantSections, SaveLink, FindLink, RevokeLink
<1>11. CASE ListLinks(c)
  BY <1>11 DEF ListLinks, LinksInv, CallsFit
<1>12. CASE ReadLog(c)
  BY <1>12 DEF ReadLog, LinksInv, CallsFit
<1>13. CASE ClampSections(c)
  BY <1>13 DEF ClampSections, LinksInv, CallsFit
<1>14. CASE AssembleProfile(c)
  BY <1>14 DEF AssembleProfile, LinksInv, CallsFit
<1>15. CASE RecordAccess(c)
  BY <1>15 DEF RecordAccess
<1> QED
  BY <1>1, <1>2, <1>3, <1>4, <1>5, <1>6, <1>7, <1>8, <1>9, <1>10, <1>11, <1>12, <1>13, <1>14, <1>15
     DEF ServeRoles, ServeViews, ServeLinks

LEMMA ServingBeginsNothing ==
  ASSUME LinksInv, NEW c \in Calls, ServeRoles(c) \/ ServeViews(c) \/ ServeLinks(c)
  PROVE  NoNewUse
BY ServingMovesOne, GoesOn

LEMMA NoNewUseAtAnyStep == LinksInv /\ Next => NoNewUse
<1> SUFFICES ASSUME LinksInv, Next
             PROVE  NoNewUse
  OBVIOUS
<1>1. CASE Surroundings
  BY <1>1 DEF Surroundings, LinkSurroundings, AccessChanges, Dismissal, Tick, requestVars, NoNewUse, At
<1>2. ASSUME NEW c \in Calls, Begin(c)
      PROVE  NoNewUse
  BY <1>2, RolesUseNoLink, LinksBeginOrdinarily DEF Begin
<1>3. ASSUME NEW c \in Calls, Serve(c)
      PROVE  NoNewUse
  BY <1>3, ServingBeginsNothing DEF Serve
<1>4. ASSUME NEW c \in Calls, StatementFails(c)
      PROVE  NoNewUse
  <2>1. ~At(c, "idle") /\ Goto(c, "refused")
    BY <1>4 DEF StatementFails, Fail, Waiting, At
  <2> QED
    BY <2>1, OneAtATime, GoesOn
<1> QED
  BY <1>1, <1>2, <1>3, <1>4 DEF Next

\* What a link is for, from whom and for whom and until when, is settled when it
\* is made; a revocation is, too; and the journal grows.
LinksStay ==
  /\ journal \subseteq journal'
  /\ \A l \in Links : Made(l) =>
       /\ [link[l] EXCEPT !.revoked = TRUE] = [link'[l] EXCEPT !.revoked = TRUE]
       /\ link[l].revoked => link'[l].revoked

LEMMA LinksStayAtAnyStep == LinksInv /\ Next => LinksStay
<1> SUFFICES ASSUME LinksInv, Next
             PROVE  LinksStay
  OBVIOUS
<1>1. CASE link' = link /\ journal \subseteq journal'
  BY <1>1 DEF LinksStay
<1>2. ASSUME NEW c \in Calls, SaveLink(c)
      PROVE  LinksStay
  <2>1. ~Made(c) /\ link \in [Links -> LinkRow]
    BY <1>2 DEF SaveLink, LinksInv, LinksTypeOK, MadeAtTheEnd, At
  <2>2. journal' = journal /\ \A l \in Links \ {c} : link'[l] = link[l]
    BY <1>2, <2>1 DEF SaveLink
  <2> QED
    BY <2>1, <2>2 DEF LinksStay
<1>3. ASSUME NEW c \in Calls, RevokeLink(c)
      PROVE  LinksStay
  <2>1. link \in [Links -> LinkRow] /\ journal' = journal
        /\ link' = [link EXCEPT ![call[c].link].revoked = TRUE]
    BY <1>3 DEF RevokeLink, LinksInv, LinksTypeOK
  <2>2. \A l \in Links : link'[l] = link[l] \/ link'[l] = [link[l] EXCEPT !.revoked = TRUE]
    BY <2>1
  <2>3. \A l \in Links : [[link[l] EXCEPT !.revoked = TRUE] EXCEPT !.revoked = TRUE] = [link[l] EXCEPT !.revoked = TRUE]
                         /\ [link[l] EXCEPT !.revoked = TRUE].revoked
    BY <2>1 DEF LinkRow
  <2> QED
    BY <2>1, <2>2, <2>3 DEF LinksStay
<1>4. CASE Surroundings
  BY <1>1, <1>4 DEF Surroundings, LinkSurroundings, AccessChanges, Dismissal, Tick
<1>5. ASSUME NEW c \in Calls, Begin(c)
      PROVE  LinksStay
  BY <1>1, <1>5 DEF Begin, BeginLinks, BeginLink, BeginRevoke, BeginListLinks, BeginAccessLog, BeginConsume,
                    BeginProfile, linkVars
<1>6. ASSUME NEW c \in Calls, Serve(c)
      PROVE  LinksStay
  BY <1>1, <1>2, <1>3, <1>6
     DEF Serve, ServeLinks, CheckRecipient, GrantSections, FindLink, ListLinks, ReadLog, ClampSections,
         AssembleProfile, RecordAccess, linkVars
<1>7. ASSUME NEW c \in Calls, StatementFails(c)
      PROVE  LinksStay
  BY <1>1, <1>7 DEF StatementFails, linkVars
<1> QED
  BY <1>4, <1>5, <1>6, <1>7 DEF Next

\* A link that has been revoked or has expired is used by no request that begins,
\* and no step changes what a link is, or takes an entry from the journal.
THEOREM DeadLinksTheorem == Spec => DeadLinksStayDead
<1> DEFINE StaysDead ==
      /\ journal \subseteq journal'
      /\ \A l \in Links : Made(l) =>
           /\ [link[l] EXCEPT !.revoked = TRUE] = [link'[l] EXCEPT !.revoked = TRUE]
           /\ link[l].revoked => link'[l].revoked
           /\ link[l].revoked \/ now >= link[l].expires =>
                \A c \in Calls : At(c, "idle") => call'[c].pc # "clamp" \/ call'[c].link # l
<1>1. LinksInv /\ Next => StaysDead
  <2> SUFFICES ASSUME LinksInv, Next
               PROVE  StaysDead
    OBVIOUS
  <2>1. ASSUME NEW l \in Links, Made(l), link[l].revoked \/ now >= link[l].expires, NEW c \in Calls, At(c, "idle")
        PROVE  call'[c].pc # "clamp" \/ call'[c].link # l
    <3>1. CASE ~BeginConsume(c)
      BY <2>1, <3>1, NoNewUseAtAnyStep DEF NoNewUse
    <3>2. CASE BeginConsume(c)
      <4>1. Denial(link[l], now) # "none"
        BY <2>1 DEF Denial
      <4>2. PICK v \in Viewers, m \in Links :
              LET row == link[m]
                  outcome == IF Denial(row, now) # "none" THEN Denial(row, now)
                             ELSE IF row.recipient # v THEN "wrong_recipient" ELSE "granted"
              IN Become(c, IF Made(m)
                   THEN [pc |-> IF outcome = "granted" THEN "clamp" ELSE "record", viewer |-> v, link |-> m,
                         outcome |-> outcome, profile |-> {}]
                   ELSE [pc |-> "refused"])
        BY <3>2 DEF BeginConsume
      <4>3. CASE m = l
        <5>1. Denial(link[l], now) # "granted"
          BY DEF Denial
        <5> QED
          BY <4>1, <4>2, <4>3, <5>1 DEF Become, LinksInv, CallsFit
      <4>4. CASE m # l
        BY <4>2, <4>4 DEF Become, LinksInv, CallsFit
      <4> QED
        BY <4>3, <4>4
    <3> QED
      BY <3>1, <3>2
  <2> QED
    BY <2>1, LinksStayAtAnyStep DEF LinksStay
<1>2. LinksInv /\ [Next]_configurationVars => [StaysDead]_<<linkVars, requestVars>>
  BY <1>1 DEF configurationVars
<1> QED
  BY <1>2, LinksAlwaysHold, PTL DEF Spec, DeadLinksStayDead

-----------------------------------------------------------------------------
(* UNDISTURBED REQUESTS                                                    *)

-----------------------------------------------------------------------------
(* Every step moves one request at most.                                   *)

LEMMA BeginningMovesOne ==
  ASSUME LinksInv, NEW c \in Calls, BeginRoles(c) \/ BeginViews(c) \/ BeginLinks(c)
  PROVE  At(c, "idle") /\ \E s : Become(c, s)
<1>1. CASE BeginRoles(c)
  BY <1>1 DEF BeginRoles, ListRoles, MyPermissions, BeginAssignment, BeginCreateRole, BeginUpdateRole, BeginDeleteRole
<1>2. CASE BeginViews(c)
  BY <1>2 DEF BeginViews, CreateView, ListViews, BeginViewUpdate, BeginViewRemoval, BeginShare
<1>3. CASE BeginLinks(c)
  BY <1>3 DEF BeginLinks, BeginLink, BeginRevoke, BeginListLinks, BeginAccessLog, BeginConsume, BeginProfile
<1> QED
  BY <1>1, <1>2, <1>3

LEMMA OnlyOneMoves ==
  ASSUME LinksInv, Next, NEW c \in Calls, call'[c] # call[c]
  PROVE  Begin(c) \/ Serve(c) \/ StatementFails(c)
<1>1. ASSUME NEW d \in Calls, Begin(d)
      PROVE  \A e \in Calls \ {d} : call'[e] = call[e]
  BY <1>1, BeginningMovesOne, OneAtATime DEF Begin
<1>2. ASSUME NEW d \in Calls, Serve(d)
      PROVE  \A e \in Calls \ {d} : call'[e] = call[e]
  BY <1>2, ServingMovesOne DEF Serve
<1>3. ASSUME NEW d \in Calls, StatementFails(d)
      PROVE  \A e \in Calls \ {d} : call'[e] = call[e]
  BY <1>3, OneAtATime DEF StatementFails, Fail
<1>4. ~Surroundings
  BY DEF Surroundings, LinkSurroundings, AccessChanges, Dismissal, Tick, requestVars
<1> QED
  BY <1>1, <1>2, <1>3, <1>4 DEF Next

-----------------------------------------------------------------------------
(* What an undisturbed request has read is still so.                       *)

SightPcs == {"self", "holders", "roles", "assign", "deleteShares", "insertShares"}
SomebodyIsLeft(s) ==
  s.granting = {} \/ s.desired \cap s.granting # {} \/ AdminHolders(s.granting) \ {s.employee} # {}
SightFits(s) ==
  /\ s.pc \in {"deleteShares", "insertShares"} => s.seen = shares[s.view]
  /\ s.pc \in {"self", "holders", "roles", "assign"} => s.granting = AdminGrantingRoles
  /\ s.pc \in {"roles", "assign"} => SomebodyIsLeft(s)
  /\ s.pc = "assign" => s.existing = held[s.employee]
SightsFit == \A c \in Calls : steady[c] => SightFits(call[c])

\* The other invariants go with it.
UndisturbedInv == TablesInv /\ LinksInv /\ SightsFit

LEMMA NoSightElsewhere ==
  ASSUME NEW s, s.pc \notin SightPcs
  PROVE  SightFits(s) /\ SightFits(s)'
BY DEF SightFits, SightPcs

\* A step that commits leaves no request undisturbed that is still under way.
LEMMA CommittingKeepsSights ==
  ASSUME UndisturbedInv, NEW c \in Calls, Commits(c),
         \A d \in Calls \ {c} : call'[d] = call[d], call'[c].pc \in Answers
  PROVE  SightsFit'
<1> SUFFICES ASSUME NEW d \in Calls, steady'[d]
             PROVE  SightFits(call[d])'
  BY DEF SightsFit
<1>1. CASE d = c
  <2>1. PICK s : s = call'[c]
    OBVIOUS
  <2>2. s.pc \notin SightPcs
    BY <2>1 DEF Answers, SightPcs
  <2> QED
    BY <1>1, <2>1, <2>2 DEF SightFits, SightPcs
<1>2. CASE d # c
  <2>1. ~Waiting(d)
    BY <1>2 DEF Commits
  <2>2. call'[d].pc \notin SightPcs
    BY <1>2, <2>1 DEF Waiting, Answers, SightPcs
  <2> QED
    BY <2>2 DEF SightFits, SightPcs
<1> QED
  BY <1>1, <1>2

\* A step that only reads, to a state in which what it has read is so.
LEMMA ReadingKeepsSights ==
  ASSUME UndisturbedInv, NEW c \in Calls, UNCHANGED roleVars, UNCHANGED viewVars, Reads,
         \A d \in Calls \ {c} : call'[d] = call[d], NEW s, call'[c] = s, steady[c] => SightFits(s)
  PROVE  SightsFit'
<1>1. UNCHANGED <<role, held, shares, steady>>
  BY DEF roleVars, viewVars, Reads
<1>2. \A t : SightFits(t)' <=> SightFits(t)
  BY <1>1 DEF SightFits, SomebodyIsLeft, AdminGrantingRoles, AdminHolders, Exists, KeysOfRole
<1>3. \A d \in Calls : steady'[d] => SightFits(call'[d])
  BY <1>1 DEF UndisturbedInv, SightsFit
<1>4. \A d \in Calls : \E t : t = call'[d]
  OBVIOUS
<1> SUFFICES ASSUME NEW d \in Calls, steady'[d]
             PROVE  SightFits(call[d])'
  BY DEF SightsFit
<1>5. SightFits(call'[d])
  BY <1>3
<1> QED
  BY <1>1, <1>5 DEF SightFits, SomebodyIsLeft, AdminGrantingRoles, AdminHolders, Exists, KeysOfRole

\* A step that only reads, of a request that need not remember anything.
LEMMA BlindReading ==
  ASSUME UndisturbedInv, NEW c \in Calls, UNCHANGED roleVars, UNCHANGED viewVars, Reads,
         \A d \in Calls \ {c} : call'[d] = call[d], call'[c].pc \notin SightPcs
  PROVE  SightsFit'
<1>1. PICK s : s = call'[c]
  OBVIOUS
<1>2. SightFits(s)
  BY <1>1, NoSightElsewhere
<1> QED
  BY <1>1, <1>2, ReadingKeepsSights

\* Goto and Become, to where nothing is remembered.
LEMMA BlindGoto ==
  ASSUME UndisturbedInv, NEW c \in Calls, UNCHANGED roleVars, UNCHANGED viewVars, Reads,
         NEW pc, Goto(c, pc), pc \notin SightPcs
  PROVE  SightsFit'
<1>1. call'[c].pc = pc /\ \A d \in Calls \ {c} : call'[d] = call[d]
  BY StatesByPlace DEF Goto, UndisturbedInv, TablesInv, TableCallsFit
<1> QED
  BY <1>1, BlindReading

LEMMA BlindBecome ==
  ASSUME UndisturbedInv, NEW c \in Calls, UNCHANGED roleVars, UNCHANGED viewVars, Reads,
         NEW s, Become(c, s), s.pc \notin SightPcs
  PROVE  SightsFit'
<1>1. call'[c].pc = s.pc /\ \A d \in Calls \ {c} : call'[d] = call[d]
  BY DEF Become, UndisturbedInv, TablesInv, TableCallsFit
<1> QED
  BY <1>1, BlindReading

LEMMA CommittingGoto ==
  ASSUME UndisturbedInv, NEW c \in Calls, NEW pc \in Answers, Goto(c, pc), Commits(c)
  PROVE  SightsFit'
<1>1. call'[c].pc = pc /\ \A d \in Calls \ {c} : call'[d] = call[d]
  BY StatesByPlace DEF Goto, UndisturbedInv, TablesInv, TableCallsFit
<1> QED
  BY <1>1, CommittingKeepsSights

-----------------------------------------------------------------------------
(* The steps of requests for roles.                                        *)

LEMMA RoleSightsBegin ==
  ASSUME UndisturbedInv, UNCHANGED viewVars, NEW c \in Calls, BeginRoles(c)
  PROVE  SightsFit'
<1> USE DEF SightPcs
<1>1. CASE ListRoles(c)
  BY <1>1, BlindBecome DEF ListRoles
<1>2. CASE MyPermissions(c)
  BY <1>2, BlindBecome DEF MyPermissions
<1>3. CASE BeginAssignment(c)
  BY <1>3, BlindBecome DEF BeginAssignment
<1>4. CASE BeginCreateRole(c)
  BY <1>4, BlindBecome DEF BeginCreateRole
<1>5. CASE BeginUpdateRole(c)
  BY <1>5, BlindBecome DEF BeginUpdateRole
<1>6. CASE BeginDeleteRole(c)
  BY <1>6, BlindBecome DEF BeginDeleteRole
<1> QED
  BY <1>1, <1>2, <1>3, <1>4, <1>5, <1>6 DEF BeginRoles

\* The checks of an assignment, one after the other.
LEMMA AssignmentSights ==
  ASSUME UndisturbedInv, UNCHANGED viewVars, NEW c \in Calls,
         FindAdminGrantingRoles(c) \/ CheckSelfGrant(c) \/ CountHolders(c) \/ ReadAssignments(c)
  PROVE  SightsFit'
<1>1. call[c] \in AssignState
  BY StatesByPlace
     DEF UndisturbedInv, TablesInv, TableCallsFit, FindAdminGrantingRoles, CheckSelfGrant, CountHolders,
         ReadAssignments, At
<1>2. UNCHANGED roleVars /\ Reads
  BY DEF FindAdminGrantingRoles, CheckSelfGrant, CountHolders, ReadAssignments
<1>3. DOMAIN call = Calls /\ (steady[c] => SightFits(call[c]))
  BY DEF UndisturbedInv, TablesInv, TableCallsFit, SightsFit
<1>4. ASSUME NEW s, s \in AssignState \/ s.pc \notin SightPcs, call' = [call EXCEPT ![c] = s],
             steady[c] /\ s.pc \in SightPcs => SightFits(s)
      PROVE  SightsFit'
  <2>1. steady[c] => SightFits(s)
    BY <1>4, NoSightElsewhere
  <2>2. call'[c] = s /\ \A d \in Calls \ {c} : call'[d] = call[d]
    BY <1>3, <1>4
  <2> QED
    BY <1>2, <2>1, <2>2, ReadingKeepsSights
<1>5. CASE FindAdminGrantingRoles(c)
  <2>1. PICK s : s = [call[c] EXCEPT !.granting = AdminGrantingRoles,
                                   !.pc = IF AdminGrantingRoles = {} THEN "roles" ELSE "self"]
    OBVIOUS
  <2>2. AdminGrantingRoles \subseteq Roles
    BY DEF AdminGrantingRoles
  <2>3. s \in AssignState /\ call' = [call EXCEPT ![c] = s]
    BY <1>1, <1>3, <1>5, <2>1, <2>2 DEF AssignState, FindAdminGrantingRoles
  <2>4. /\ s.granting = AdminGrantingRoles
        /\ s.pc = IF AdminGrantingRoles = {} THEN "roles" ELSE "self"
    BY <1>1, <2>1 DEF AssignState
  <2>5. SightFits(s)
    BY <2>4 DEF SightFits, SomebodyIsLeft
  <2> QED
    BY <1>4, <2>3, <2>5
<1>6. CASE CheckSelfGrant(c)
  <2>1. PICK pc \in {"holders", "refused"} : Goto(c, pc)
    BY <1>6 DEF CheckSelfGrant
  <2>2. PICK s : s = [call[c] EXCEPT !.pc = pc]
    OBVIOUS
  <2>3. /\ call' = [call EXCEPT ![c] = s] /\ s.pc = pc /\ s.granting = call[c].granting
        /\ s \in AssignState \/ s.pc \notin SightPcs
    BY <1>1, <2>1, <2>2 DEF AssignState, Goto, SightPcs
  <2>4. call[c].pc = "self"
    BY <1>6 DEF CheckSelfGrant, At
  <2>5. steady[c] => SightFits(s)
    BY <1>3, <2>1, <2>3, <2>4 DEF SightFits
  <2> QED
    BY <1>4, <2>3, <2>5
<1>7. CASE CountHolders(c)
  <2>1. PICK pc : /\ Goto(c, pc)
                  /\ pc = IF /\ AdminHolders(call[c].granting) \ {call[c].employee} = {}
                             /\ call[c].desired \cap call[c].granting = {}
                          THEN "refused" ELSE "roles"
    BY <1>7 DEF CountHolders
  <2>2. PICK s : s = [call[c] EXCEPT !.pc = pc]
    OBVIOUS
  <2>3. /\ call' = [call EXCEPT ![c] = s] /\ s.pc = pc /\ s.granting = call[c].granting
        /\ s.desired = call[c].desired /\ s.employee = call[c].employee
        /\ s \in AssignState \/ s.pc \notin SightPcs
    BY <1>1, <2>1, <2>2 DEF AssignState, Goto, SightPcs
  <2>4. call[c].pc = "holders"
    BY <1>7 DEF CountHolders, At
  <2>5. s.pc = "roles" => SomebodyIsLeft(s)
    BY <2>1, <2>3 DEF SomebodyIsLeft
  <2>6. steady[c] => SightFits(s)
    BY <1>3, <2>1, <2>3, <2>4, <2>5 DEF SightFits
  <2> QED
    BY <1>4, <2>3, <2>6
<1>8. CASE ReadAssignments(c)
  <2>1. PICK s : s = [call[c] EXCEPT !.existing = held[call[c].employee],
                        !.pc = IF \A r \in call[c].desired : Exists(r) THEN "assign" ELSE "refused"]
    OBVIOUS
  <2>2. /\ call' = [call EXCEPT ![c] = s] /\ s.pc \in {"assign", "refused"} /\ s.granting = call[c].granting
        /\ s.desired = call[c].desired /\ s.employee = call[c].employee
        /\ s.existing = held[call[c].employee]
    BY <1>1, <1>3, <1>8, <2>1 DEF AssignState, ReadAssignments
  <2>3. held[call[c].employee] \subseteq Roles
    BY <1>1 DEF AssignState, UndisturbedInv, TablesInv, RolesAreConsistent, RolesTypeOK
  <2>4. s \in AssignState \/ s.pc \notin SightPcs
    BY <1>1, <2>1, <2>2, <2>3 DEF AssignState, SightPcs
  <2>5. call[c].pc = "roles"
    BY <1>8 DEF ReadAssignments, At
  <2>6. steady[c] => SightFits(s)
    BY <1>3, <2>2, <2>5 DEF SightFits, SomebodyIsLeft
  <2> QED
    BY <1>4, <2>2, <2>4, <2>6
<1> QED
  BY <1>5, <1>6, <1>7, <1>8

LEMMA RoleSightsGoOn ==
  ASSUME UndisturbedInv, UNCHANGED viewVars, NEW c \in Calls, ServeRoles(c)
  PROVE  SightsFit'
<1> USE DEF SightPcs
<1>1. \A pc : Goto(c, pc) /\ UNCHANGED roleVars /\ Reads /\ pc \notin SightPcs => SightsFit'
  BY BlindGoto
<1>2. \A pc : Goto(c, pc) /\ Commits(c) /\ pc \in Answers => SightsFit'
  BY CommittingGoto
<1>3. CASE FindAdminGrantingRoles(c) \/ CheckSelfGrant(c) \/ CountHolders(c) \/ ReadAssignments(c)
  BY <1>3, AssignmentSights
<1>4. CASE ReplaceAssignments(c)
  BY <1>1, <1>2, <1>4 DEF ReplaceAssignments, roleVars, Answers
<1>5. CASE CreateRole(c)
  BY <1>1, <1>2, <1>5 DEF CreateRole, roleVars, Answers
<1>6. CASE RenameRole(c)
  BY <1>1, <1>2, <1>6 DEF RenameRole, roleVars, Answers
<1>7. CASE SeeKeys(c)
  <2>1. /\ \A d \in Calls \ {c} : call'[d] = call[d]
        /\ call' = [call EXCEPT ![c].seen = role[call[c].role].keys, ![c].pc = "deleteKeys"]
    BY <1>7 DEF SeeKeys, UndisturbedInv, TablesInv, TableCallsFit
  <2>2. "pc" \in DOMAIN call[c] /\ DOMAIN call = Calls
    BY StatesByPlace DEF UndisturbedInv, TablesInv, TableCallsFit
  <2>3. call'[c].pc = "deleteKeys"
    BY <2>1, <2>2
  <2> QED
    BY <1>7, <2>1, <2>3, BlindReading DEF SeeKeys
<1>8. CASE DeleteKeys(c)
  BY <1>1, <1>8 DEF DeleteKeys
<1>9. CASE InsertKeys(c)
  BY <1>1, <1>2, <1>9 DEF InsertKeys, roleVars, Answers
<1>10. CASE DeleteRole(c)
  BY <1>1, <1>2, <1>10 DEF DeleteRole, roleVars, Answers
<1> QED
  BY <1>3, <1>4, <1>5, <1>6, <1>7, <1>8, <1>9, <1>10 DEF ServeRoles

-----------------------------------------------------------------------------
(* The steps of requests for views.                                        *)

LEMMA ViewSightsBegin ==
  ASSUME UndisturbedInv, UNCHANGED roleVars, NEW c \in Calls, BeginViews(c)
  PROVE  SightsFit'
<1> USE DEF SightPcs
<1>1. CASE CreateView(c)
  <2>1. call'[c] = [pc |-> "done"] /\ \A d \in Calls \ {c} : call'[d] = call[d]
    BY <1>1 DEF CreateView, Become, UndisturbedInv, TablesInv, TableCallsFit
  <2>2. call'[c].pc \in Answers
    BY <2>1 DEF Answers
  <2> QED
    BY <1>1, <2>1, <2>2, CommittingKeepsSights DEF CreateView
<1>2. CASE ListViews(c)
  BY <1>2, BlindBecome DEF ListViews
<1>3. CASE BeginViewUpdate(c)
  BY <1>3, BlindBecome DEF BeginViewUpdate
<1>4. CASE BeginViewRemoval(c)
  BY <1>4, BlindBecome DEF BeginViewRemoval
<1>5. CASE BeginShare(c)
  BY <1>5, BlindBecome DEF BeginShare
<1> QED
  BY <1>1, <1>2, <1>3, <1>4, <1>5 DEF BeginViews

LEMMA ViewSightsGoOn ==
  ASSUME UndisturbedInv, UNCHANGED roleVars, NEW c \in Calls, ServeViews(c)
  PROVE  SightsFit'
<1> USE DEF SightPcs
<1>1. \A pc : Goto(c, pc) /\ UNCHANGED viewVars /\ Reads /\ pc \notin SightPcs => SightsFit'
  BY BlindGoto
<1>2. \A pc : Goto(c, pc) /\ Commits(c) /\ pc \in Answers => SightsFit'
  BY CommittingGoto
<1>3. DOMAIN call = Calls /\ (steady[c] => SightFits(call[c]))
  BY DEF UndisturbedInv, TablesInv, TableCallsFit, SightsFit
<1>4. CASE UpdateView(c)
  BY <1>1, <1>2, <1>4 DEF UpdateView, viewVars, Answers
<1>5. CASE RemoveView(c)
  BY <1>1, <1>2, <1>5 DEF RemoveView, viewVars, Answers
<1>6. ASSUME NEW s, s \in ShareState, call' = [call EXCEPT ![c] = s], UNCHANGED viewVars, Reads,
             steady[c] => s.seen = shares[s.view]
      PROVE  SightsFit'
  <2>1. steady[c] => SightFits(s)
    BY <1>6 DEF SightFits, ShareState
  <2>2. call'[c] = s /\ \A d \in Calls \ {c} : call'[d] = call[d]
    BY <1>3, <1>6
  <2> QED
    BY <1>6, <2>1, <2>2, ReadingKeepsSights
<1>7. CASE SeeShares(c)
  <2>1. call[c] \in ShareState
    BY <1>7, StatesByPlace DEF SeeShares, At, UndisturbedInv, TablesInv, TableCallsFit
  <2>2. PICK s : s = [call[c] EXCEPT !.seen = shares[call[c].view], !.pc = "deleteShares"]
    OBVIOUS
  <2>3. shares[call[c].view] \subseteq ShareRows
    BY <2>1 DEF ShareState, ShareRows, UndisturbedInv, TablesInv, ViewsAreConsistent
  <2>4. s \in ShareState /\ call' = [call EXCEPT ![c] = s] /\ s.seen = shares[s.view]
    BY <1>3, <1>7, <2>1, <2>2, <2>3 DEF SeeShares, ShareState
  <2> QED
    BY <1>6, <1>7, <2>4 DEF SeeShares
<1>8. CASE DeleteShares(c)
  <2>1. call[c] \in ShareState /\ call[c].pc = "deleteShares"
    BY <1>8, StatesByPlace DEF DeleteShares, At, UndisturbedInv, TablesInv, TableCallsFit
  <2>2. PICK s : s = [call[c] EXCEPT !.pc = "insertShares"]
    OBVIOUS
  <2>3. /\ s \in ShareState /\ call' = [call EXCEPT ![c] = s]
        /\ s.seen = call[c].seen /\ s.view = call[c].view
    BY <1>3, <1>8, <2>1, <2>2 DEF DeleteShares, Goto, ShareState
  <2>4. steady[c] => s.seen = shares[s.view]
    BY <1>3, <2>1, <2>3 DEF SightFits
  <2> QED
    BY <1>6, <1>8, <2>3, <2>4 DEF DeleteShares
<1>9. CASE InsertShares(c)
  BY <1>1, <1>2, <1>9 DEF InsertShares, viewVars, Answers
<1> QED
  BY <1>4, <1>5, <1>7, <1>8, <1>9 DEF ServeViews

-----------------------------------------------------------------------------
(* The steps of requests for links, and of everybody.                      *)

LEMMA LinkSightsBegin ==
  ASSUME UndisturbedInv, UNCHANGED roleVars, UNCHANGED viewVars, NEW c \in Calls, BeginLinks(c)
  PROVE  SightsFit'
<1> USE DEF SightPcs
<1>1. CASE BeginLink(c)
  BY <1>1, BlindBecome DEF BeginLink
<1>2. CASE BeginRevoke(c)
  BY <1>2, BlindBecome DEF BeginRevoke
<1>3. CASE BeginListLinks(c)
  BY <1>3, BlindBecome DEF BeginListLinks
<1>4. CASE BeginAccessLog(c)
  BY <1>4, BlindBecome DEF BeginAccessLog
<1>5. CASE BeginConsume(c)
  BY <1>5, BlindBecome DEF BeginConsume
<1>6. CASE BeginProfile(c)
  BY <1>6, BlindBecome DEF BeginProfile
<1> QED
  BY <1>1, <1>2, <1>3, <1>4, <1>5, <1>6 DEF BeginLinks

LEMMA LinkSightsGoOn ==
  ASSUME UndisturbedInv, UNCHANGED roleVars, UNCHANGED viewVars, NEW c \in Calls, ServeLinks(c)
  PROVE  SightsFit'
<1> USE DEF SightPcs
<1>1. \A d \in Calls \ {c} : call'[d] = call[d]
  BY ServingMovesOne DEF UndisturbedInv
<1>2. "pc" \in DOMAIN call[c] /\ DOMAIN call = Calls
  BY StatesByPlace DEF UndisturbedInv, TablesInv, TableCallsFit
<1>3. CASE CheckRecipient(c) \/ GrantSections(c) \/ FindLink(c)
  BY <1>3, BlindGoto DEF CheckRecipient, GrantSections, FindLink
<1>4. CASE SaveLink(c) \/ RevokeLink(c) \/ RecordAccess(c)
  BY <1>4, CommittingGoto DEF SaveLink, RevokeLink, RecordAccess, Answers
<1>5. CASE ListLinks(c)
  BY <1>1, <1>2, <1>5, BlindReading DEF ListLinks
<1>6. CASE ReadLog(c)
  BY <1>1, <1>2, <1>6, BlindReading DEF ReadLog
<1>7. CASE ClampSections(c)
  BY <1>1, <1>2, <1>7, BlindReading DEF ClampSections
<1>8. CASE AssembleProfile(c)
  BY <1>1, <1>2, <1>8, BlindReading DEF AssembleProfile
<1> QED
  BY <1>3, <1>4, <1>5, <1>6, <1>7, <1>8 DEF ServeLinks

LEMMA NoSightMoves ==
  ASSUME UndisturbedInv, UNCHANGED roleVars, UNCHANGED viewVars, UNCHANGED requestVars
  PROVE  SightsFit'
BY DEF UndisturbedInv, SightsFit, SightFits, SomebodyIsLeft, AdminGrantingRoles, AdminHolders, Exists, KeysOfRole,
       roleVars, viewVars, requestVars

LEMMA UndisturbedBegin == Init => UndisturbedInv
<1> SUFFICES ASSUME Init
             PROVE  SightsFit
  BY TablesBegin, InitHolds DEF UndisturbedInv
<1>1. \A c \in Calls : call[c].pc \notin SightPcs
  BY DEF Init, RequestsInit, NotAsked, SightPcs
<1> QED
  BY <1>1 DEF SightsFit, SightFits, SightPcs

LEMMA UndisturbedStep == UndisturbedInv /\ [Next]_configurationVars => UndisturbedInv'
<1> SUFFICES ASSUME UndisturbedInv, [Next]_configurationVars
             PROVE  SightsFit'
  BY TablesStep, StepKeepsLinks DEF UndisturbedInv
<1>1. ASSUME NEW c \in Calls, Begin(c)
      PROVE  SightsFit'
  BY <1>1, RoleSightsBegin, ViewSightsBegin, LinkSightsBegin DEF Begin
<1>2. ASSUME NEW c \in Calls, Serve(c)
      PROVE  SightsFit'
  BY <1>2, RoleSightsGoOn, ViewSightsGoOn, LinkSightsGoOn DEF Serve
<1>3. ASSUME NEW c \in Calls, StatementFails(c)
      PROVE  SightsFit'
  BY <1>3, BlindGoto DEF StatementFails, Fail, SightPcs
<1>4. CASE Surroundings
  BY <1>4, NoSightMoves DEF Surroundings, LinkSurroundings, AccessChanges, Dismissal, Tick
<1>5. CASE UNCHANGED configurationVars
  BY <1>5, NoSightMoves DEF configurationVars
<1> QED
  BY <1>1, <1>2, <1>3, <1>4, <1>5 DEF Next

\* What an undisturbed request has read of roles, assignments and shares is what
\* the tables hold.
THEOREM UndisturbedAlways == Spec => []UndisturbedInv
BY UndisturbedBegin, UndisturbedStep, PTL DEF Spec

-----------------------------------------------------------------------------
(* What an undisturbed request leaves behind.                              *)

\* A request is answered from insertShares by its insertion, and from assign by
\* writing its assignments.
LEMMA InsertionsAnswer ==
  ASSUME UndisturbedInv, Next, NEW c \in Calls, call[c].pc \in {"insertShares", "assign"}, call'[c].pc = "done"
  PROVE  IF call[c].pc = "insertShares" THEN InsertShares(c) ELSE ReplaceAssignments(c)
<1>1. Begin(c) \/ Serve(c) \/ StatementFails(c)
  BY OnlyOneMoves DEF UndisturbedInv
<1>2. ~Begin(c)
  BY BeginningMovesOne DEF Begin, UndisturbedInv, At
<1>3. ~StatementFails(c)
  BY StatesByPlace DEF StatementFails, Fail, Goto, UndisturbedInv, TablesInv, TableCallsFit
<1> QED
  BY <1>1, <1>2, <1>3
     DEF Serve, ServeRoles, ServeViews, ServeLinks, At, FindAdminGrantingRoles, CheckSelfGrant, CountHolders,
         ReadAssignments, ReplaceAssignments, CreateRole, RenameRole, SeeKeys, DeleteKeys, InsertKeys, DeleteRole,
         UpdateView, RemoveView, SeeShares, DeleteShares, InsertShares, CheckRecipient, GrantSections, SaveLink,
         FindLink, RevokeLink, ListLinks, ReadLog, ClampSections, AssembleProfile, RecordAccess

\* Whoever replaces the shares of a view while nobody else commits anything leaves
\* it shared with exactly the people that were named (replaceShares).
THEOREM SharesAreExact == Spec => UndisturbedShareIsExact
<1> DEFINE Exact ==
      \A c \in Calls : At(c, "insertShares") /\ steady[c] /\ call'[c].pc = "done" =>
        KeysOf(shares'[call[c].view]) = call[c].recipients
<1>1. UndisturbedInv /\ Next => Exact
  <2> SUFFICES ASSUME UndisturbedInv, Next, NEW c \in Calls, At(c, "insertShares"), steady[c], call'[c].pc = "done"
               PROVE  KeysOf(shares'[call[c].view]) = call[c].recipients
    OBVIOUS
  <2>1. InsertShares(c)
    BY InsertionsAnswer DEF At
  <2>2. PICK s : s = call[c]
    OBVIOUS
  <2>3. s \in ShareState /\ s.seen = shares[s.view]
    BY <2>2, StatesByPlace DEF At, UndisturbedInv, TablesInv, TableCallsFit, SightsFit, SightFits
  <2>4. shares'[s.view] = Replaced(shares[s.view], s.seen, RowsBy(c, s.recipients))
    <3>1. ~Goto(c, "refused")
      BY StatesByPlace DEF Goto, UndisturbedInv, TablesInv, TableCallsFit
    <3>2. DOMAIN shares = Views /\ s.view \in Views
      BY <2>3 DEF ShareState, UndisturbedInv, TablesInv, ViewsAreConsistent
    <3> QED
      BY <2>1, <2>2, <3>1, <3>2 DEF InsertShares
  <2>5. shares'[s.view] = RowsBy(c, s.recipients)
    BY <2>3, <2>4 DEF Replaced
  <2>6. KeysOf(RowsBy(c, s.recipients)) = s.recipients
    <3>1. PICK rows : rows = RowsBy(c, s.recipients)
      OBVIOUS
    <3> QED
      BY <3>1, RowsOfOne
  <2> QED
    BY <2>2, <2>5, <2>6
<1>2. UndisturbedInv /\ [Next]_configurationVars => [Exact]_<<viewVars, requestVars>>
  BY <1>1 DEF configurationVars
<1> QED
  BY <1>2, UndisturbedAlways, PTL DEF Spec, UndisturbedShareIsExact

\* A change of assignments during which no other change is committed leaves
\* somebody who can manage roles (assertAssignmentAllowed).
THEOREM AnAdminIsKept == Spec => UndisturbedAssignmentKeepsAnAdmin
<1> DEFINE Kept ==
      \A c \in Calls : At(c, "assign") /\ steady[c] /\ Admins # {} /\ held' # held
        /\ call'[c].pc = "done" /\ call[c].pc # "done" => Admins' # {}
<1>1. UndisturbedInv /\ Next => Kept
  <2> SUFFICES ASSUME UndisturbedInv, Next, NEW c \in Calls, At(c, "assign"), steady[c], Admins # {},
                      call'[c].pc = "done"
               PROVE  Admins' # {}
    OBVIOUS
  <2>1. ReplaceAssignments(c)
    BY InsertionsAnswer DEF At
  <2>2. PICK s : s = call[c]
    OBVIOUS
  <2>3. s \in AssignState /\ s.granting = AdminGrantingRoles /\ s.existing = held[s.employee] /\ SomebodyIsLeft(s)
    BY <2>2, StatesByPlace DEF At, UndisturbedInv, TablesInv, TableCallsFit, SightsFit, SightFits
  <2>4. s.employee \in Staff /\ held \in [Staff -> SUBSET Roles]
    BY <2>3 DEF AssignState, UndisturbedInv, TablesInv, RolesAreConsistent, RolesTypeOK
  <2>5. ~Goto(c, "refused")
    BY StatesByPlace DEF Goto, UndisturbedInv, TablesInv, TableCallsFit
  <2>6. held' = [held EXCEPT ![s.employee] = (@ \ (s.existing \ s.desired)) \cup (s.desired \ s.existing)]
    BY <2>1, <2>2, <2>5 DEF ReplaceAssignments
  <2>7. held'[s.employee] = s.desired /\ \A e \in Staff \ {s.employee} : held'[e] = held[e]
    BY <2>3, <2>4, <2>6
  <2>8. AdminGrantingRoles' = s.granting
    BY <2>1, <2>3 DEF ReplaceAssignments, AdminGrantingRoles, Exists, KeysOfRole
  <2>9. Admins' = {e \in Staff : held'[e] \cap s.granting # {}}
    BY <2>8 DEF Admins, AdminHolders
  <2>10. CASE s.granting = {}
    BY <2>3, <2>10 DEF Admins, AdminHolders
  <2>11. CASE s.desired \cap s.granting # {}
    BY <2>4, <2>7, <2>9, <2>11
  <2>12. CASE AdminHolders(s.granting) \ {s.employee} # {}
    BY <2>7, <2>9, <2>12 DEF AdminHolders
  <2> QED
    BY <2>3, <2>10, <2>11, <2>12 DEF SomebodyIsLeft
<1>2. UndisturbedInv /\ [Next]_configurationVars => [Kept]_<<role, held, leads, call, steady>>
  BY <1>1 DEF configurationVars, roleVars, requestVars
<1> QED
  BY <1>2, UndisturbedAlways, PTL DEF Spec, UndisturbedAssignmentKeepsAnAdmin
=============================================================================

--------------------------- MODULE FunctionalRoles ---------------------------
(***************************************************************************)
(* Functional roles, their permissions and who holds them                  *)
(* (src/modules/access/functional-role.service.ts,                         *)
(* functional-role-assignment.service.ts, permission-checker.service.ts    *)
(* and their controllers).                                                 *)
(*                                                                         *)
(* The permission catalogue is cut down to the two keys the code treats    *)
(* differently from the others.  A role name stands for its lower-case     *)
(* form, which is what the unique index looks at.                          *)
(***************************************************************************)
EXTENDS Naturals, FiniteSets, Requests

CONSTANTS
  Staff,         \* employees, each with a user account
  Callers,       \* those who ask for changes
  StoredRoles,   \* rows of functional_roles that may be there to begin with
  HrAdmin,       \* the built-in HR Admin role
  RoleNames,
  NoName, Nobody

\* A request that creates a role creates the one that bears its name.
Roles == StoredRoles \cup Calls
Manage == "manage_functional_roles"
CreateCampaigns == "create_form_campaigns"
PermissionKeys == {Manage, CreateCampaigns}

ASSUME FunctionalRolesAssumption == HrAdmin \in StoredRoles \ Calls /\ NoName \notin RoleNames

VARIABLES
  role,       \* functional_roles with functional_role_permissions
  held,       \* held[e]: functional_role_assignments of e
  leads       \* employees who manage, partner or run a project for somebody

roleVars == <<role, held, leads>>

RoleRow == [name : RoleNames \cup {NoName}, keys : SUBSET (PermissionKeys \X (Calls \cup {Nobody}))]
Exists(r) == role[r].name # NoName

RolesInit(stored) == role = stored.role /\ held = stored.held /\ leads = stored.leads

-----------------------------------------------------------------------------
(* Permissions.                                                            *)

KeysOfRole(r) == KeysOf(role[r].keys)

\* getGrantedPermissions: the roles of the employee, and the default access of
\* managers, people partners, PMs and DMs to form campaigns.
GrantedPermissions(e) ==
  (UNION {KeysOfRole(r) : r \in held[e]}) \cup (IF e \in leads THEN {CreateCampaigns} ELSE {})

HasPermission(e, key) == key \in GrantedPermissions(e)

\* assertManageFunctionalRoles, before every request about roles.
MayAdminister(caller) == HasPermission(caller, Manage)

AdminGrantingRoles == {r \in Roles : Exists(r) /\ Manage \in KeysOfRole(r)}
AdminHolders(granting) == {e \in Staff : held[e] \cap granting # {}}
Admins == AdminHolders(AdminGrantingRoles)

\* list and me only read.
ListRoles(c) ==
  /\ At(c, "idle")
  /\ \E caller \in Callers :
       Become(c, IF MayAdminister(caller) THEN [pc |-> "done", roles |-> {r \in Roles : Exists(r)}]
                 ELSE [pc |-> "refused"])
  /\ Reads /\ UNCHANGED roleVars

MyPermissions(c) ==
  /\ At(c, "idle")
  /\ \E e \in Staff : Become(c, [pc |-> "done", permissions |-> GrantedPermissions(e)])
  /\ Reads /\ UNCHANGED roleVars

-----------------------------------------------------------------------------
(* Assigning roles to an employee.                                         *)

\* replace: the caller may manage roles when the request comes in.
BeginAssignment(c) ==
  /\ At(c, "idle")
  /\ \E caller \in Callers, e \in Staff, desired \in SUBSET Roles :
       Become(c, IF MayAdminister(caller)
                 THEN [pc |-> "granting", caller |-> caller, employee |-> e, desired |-> desired,
                       granting |-> {}, existing |-> {}]
                 ELSE [pc |-> "refused"])
  /\ Reads /\ UNCHANGED roleVars

\* assertAssignmentAllowed: which roles grant the administration of roles.
FindAdminGrantingRoles(c) ==
  /\ At(c, "granting")
  /\ call' = [call EXCEPT ![c].granting = AdminGrantingRoles,
                          ![c].pc = IF AdminGrantingRoles = {} THEN "roles" ELSE "self"]
  /\ Reads /\ UNCHANGED roleVars

\* Nobody makes an administrator of themselves.
CheckSelfGrant(c) ==
  /\ At(c, "self")
  /\ LET self == /\ call[c].caller = call[c].employee
                 /\ call[c].desired \cap call[c].granting # {}
     IN Goto(c, IF self /\ held[call[c].caller] \cap call[c].granting = {} THEN "refused" ELSE "holders")
  /\ Reads /\ UNCHANGED roleVars

\* Mutant: the employee is counted among the holders although the role goes.
CountHoldersBefore(c) ==
  /\ At(c, "holders")
  /\ Goto(c, IF AdminHolders(call[c].granting) = {} THEN "refused" ELSE "roles")
  /\ Reads /\ UNCHANGED roleVars

\* Somebody must be left who can manage roles.
CountHolders(c) ==
  /\ At(c, "holders")
  /\ LET others == AdminHolders(call[c].granting) \ {call[c].employee}
     IN Goto(c, IF others = {} /\ call[c].desired \cap call[c].granting = {} THEN "refused" ELSE "roles")
  /\ Reads /\ UNCHANGED roleVars

\* The transaction of setAssignments: the roles exist; what the employee has.
ReadAssignments(c) ==
  /\ At(c, "roles")
  /\ call' = [call EXCEPT ![c].existing = held[call[c].employee],
       ![c].pc = IF \A r \in call[c].desired : Exists(r) THEN "assign" ELSE "refused"]
  /\ Reads /\ UNCHANGED roleVars

\* The differences are written; a row somebody else has added meanwhile, or a
\* role somebody else has deleted, makes the transaction fail.
ReplaceAssignments(c) ==
  /\ At(c, "assign")
  /\ LET e == call[c].employee
         toAdd == call[c].desired \ call[c].existing
         toRemove == call[c].existing \ call[c].desired
     IN IF held[e] \cap toAdd = {} /\ \A r \in toAdd : Exists(r)
        THEN /\ held' = [held EXCEPT ![e] = (@ \ toRemove) \cup toAdd]
             /\ Goto(c, "done") /\ Commits(c)
        ELSE /\ Goto(c, "refused") /\ Reads /\ UNCHANGED held
  /\ UNCHANGED <<role, leads>>

-----------------------------------------------------------------------------
(* The roles themselves.                                                   *)

NameTaken(name, r) == \E q \in Roles \ {r} : role[q].name = name

\* create: the name is looked up, then inserted under the unique index.
BeginCreateRole(c) ==
  /\ At(c, "idle")
  /\ \E caller \in Callers, name \in RoleNames, keys \in SUBSET PermissionKeys :
       Become(c, IF MayAdminister(caller) /\ \A q \in Roles : role[q].name # name
                 THEN [pc |-> "createRole", name |-> name, keys |-> keys]
                 ELSE [pc |-> "refused"])
  /\ Reads /\ UNCHANGED roleVars

\* Mutant: any role may be stripped of any key.
MayHaveAnyKeys(r, keys) == TRUE

\* The built-in HR Admin role keeps the administration of roles.
MayHaveKeys(r, keys) == r = HrAdmin => Manage \in keys

\* update reads the role and checks the name and the keys, if they were given.
BeginUpdateRole(c) ==
  /\ At(c, "idle")
  /\ \E caller \in Callers, r \in Roles, name \in RoleNames \cup {NoName}, keys \in SUBSET PermissionKeys,
        given \in {"name", "keys", "both"} :
       /\ (given = "keys") <=> (name = NoName)
       /\ Become(c, IF /\ MayAdminister(caller) /\ Exists(r)
                       /\ name # NoName => r # HrAdmin /\ ~NameTaken(name, r)
                       /\ given # "name" => MayHaveKeys(r, keys)
                    THEN [pc |-> IF name = NoName THEN "seeKeys" ELSE "rename", role |-> r,
                          name |-> name, keys |-> keys, given |-> given, seen |-> {}]
                    ELSE [pc |-> "refused"])
  /\ Reads /\ UNCHANGED roleVars

\* An open transaction that has renamed holds the row of the role and the name.
RenameOpen(d) == call[d].pc \in {"seeKeys", "deleteKeys", "insertKeys"} /\ call[d].name # NoName
RoleLocked(c, r) == \E d \in Calls \ {c} : RenameOpen(d) /\ call[d].role = r
NameHeld(c, name) == \E d \in Calls \ {c} : RenameOpen(d) /\ call[d].name = name

\* The unique index makes the insert wait for a rename that is not committed.
CreateRole(c) ==
  /\ At(c, "createRole") /\ ~NameHeld(c, call[c].name)
  /\ IF \E q \in Roles : role[q].name = call[c].name
     THEN Goto(c, "refused") /\ Reads /\ UNCHANGED role
     ELSE /\ role' = [role EXCEPT ![c] = [name |-> call[c].name, keys |-> RowsBy(c, call[c].keys)]]
          /\ Goto(c, "done") /\ Commits(c)
  /\ UNCHANGED <<held, leads>>

\* The new name is written: at once, or as the first statement of a transaction.
RenameRole(c) ==
  /\ At(c, "rename") /\ ~RoleLocked(c, call[c].role) /\ ~NameHeld(c, call[c].name)
  /\ LET r == call[c].role
         possible == Exists(r) /\ ~NameTaken(call[c].name, r)
     IN IF possible /\ call[c].given = "name"
        THEN /\ role' = [role EXCEPT ![r].name = call[c].name]
             /\ Goto(c, "done") /\ Commits(c)
        ELSE Goto(c, IF possible THEN "seeKeys" ELSE "refused") /\ Reads /\ UNCHANGED role
  /\ UNCHANGED <<held, leads>>

\* Mutant: a transaction waits for the rows it has picked itself.
KeysLockedByItself(c, rows) ==
  \E d \in Calls :
    /\ call[d].pc \in {"deleteKeys", "insertKeys"}
    /\ call[d].role = call[c].role /\ call[d].seen \cap rows # {}

\* Rows another transaction has deleted and not yet committed.
KeysLocked(c, rows) ==
  \E d \in Calls \ {c} : At(d, "insertKeys") /\ call[d].role = call[c].role /\ call[d].seen \cap rows # {}

\* deleteMany picks its rows, and waits for those another transaction holds.
SeeKeys(c) ==
  /\ At(c, "seeKeys")
  /\ call' = [call EXCEPT ![c].seen = role[call[c].role].keys, ![c].pc = "deleteKeys"]
  /\ Reads /\ UNCHANGED roleVars

DeleteKeys(c) ==
  /\ At(c, "deleteKeys") /\ ~KeysLocked(c, call[c].seen)
  /\ Goto(c, "insertKeys")
  /\ Reads /\ UNCHANGED roleVars

InsertKeys(c) ==
  /\ At(c, "insertKeys")
  /\ LET r == call[c].role
         new == RowsBy(c, call[c].keys)
         name == IF call[c].name = NoName THEN role[r].name ELSE call[c].name
     IN IF Exists(r) /\ ~Clash(role[r].keys, call[c].seen, new)
        THEN /\ role' = [role EXCEPT ![r] = [name |-> name,
                                             keys |-> Replaced(role[r].keys, call[c].seen, new)]]
             /\ Goto(c, "done") /\ Commits(c)
        ELSE Goto(c, "refused") /\ Reads /\ UNCHANGED role
  /\ UNCHANGED <<held, leads>>

\* delete counts the assignments of a custom role first.
BeginDeleteRole(c) ==
  /\ At(c, "idle")
  /\ \E caller \in Callers, r \in Roles :
       Become(c, IF MayAdminister(caller) /\ Exists(r) /\ r # HrAdmin
                    /\ \A e \in Staff : r \notin held[e]
                 THEN [pc |-> "deleteRole", role |-> r] ELSE [pc |-> "refused"])
  /\ Reads /\ UNCHANGED roleVars

\* The foreign key of an assignment made meanwhile stops the deletion.
DeleteRole(c) ==
  /\ At(c, "deleteRole") /\ ~RoleLocked(c, call[c].role)
  /\ IF Exists(call[c].role) /\ \A e \in Staff : call[c].role \notin held[e]
     THEN /\ role' = [role EXCEPT ![call[c].role] = [name |-> NoName, keys |-> {}]]
          /\ Goto(c, "done") /\ Commits(c)
     ELSE Goto(c, "refused") /\ Reads /\ UNCHANGED role
  /\ UNCHANGED <<held, leads>>

-----------------------------------------------------------------------------
BeginRoles(c) == ListRoles(c) \/ MyPermissions(c) \/ BeginAssignment(c) \/ BeginCreateRole(c)
                 \/ BeginUpdateRole(c) \/ BeginDeleteRole(c)

ServeRoles(c) ==
  \/ FindAdminGrantingRoles(c) \/ CheckSelfGrant(c) \/ CountHolders(c)
  \/ ReadAssignments(c) \/ ReplaceAssignments(c)
  \/ CreateRole(c) \/ RenameRole(c) \/ SeeKeys(c) \/ DeleteKeys(c) \/ InsertKeys(c) \/ DeleteRole(c)

-----------------------------------------------------------------------------
(* Properties.                                                             *)

RolesTypeOK ==
  /\ role \in [Roles -> RoleRow] /\ held \in [Staff -> SUBSET Roles] /\ leads \subseteq Staff

\* Through any interleaving of creations, updates, deletions and assignments,
\* nobody holds a role that is gone, no two roles share a name, and the HR Admin
\* role keeps the key that administers roles: two updates whose delete and
\* insert statements interleave may mix their keys, but never lose that one.
RolesAreConsistent ==
  /\ RolesTypeOK
  /\ \A e \in Staff : \A r \in held[e] : Exists(r)
  /\ \A r, q \in Roles : Exists(r) /\ role[r].name = role[q].name => r = q
  /\ Manage \in KeysOfRole(HrAdmin)
  /\ \A r \in Roles : \A a, b \in role[r].keys : a[1] = b[1] => a = b

\* A change of assignments during which no other change is committed leaves
\* somebody who can manage roles (assertAssignmentAllowed).
UndisturbedAssignmentKeepsAnAdmin ==
  [][\A c \in Calls : At(c, "assign") /\ steady[c] /\ Admins # {} /\ held' # held
       /\ call'[c].pc = "done" /\ call[c].pc # "done" => Admins' # {}]_<<role, held, leads, call, steady>>

\* Somebody can always manage roles: "Cannot remove the last employee who holds
\* manage_functional_roles" (functional-role-assignment.service.ts).
SomebodyManagesRoles == Admins # {}
=============================================================================

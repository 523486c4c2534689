---------------------------- MODULE Configuration ----------------------------
(* Roles, views and links together: requests about functional roles, about *)
(* saved views and about shared links, served by one process on one        *)
(* database.                                                               *)
EXTENDS FunctionalRoles, SavedViews, SharedLinks

CONSTANT Beginnings   \* kinds of requests that come in beside each other, and tables

\* What is there to begin with was made by the rules, and not by a request that
\* has yet to come.
RolesStored(stored) ==
  /\ stored.role \in [Roles -> RoleRow] /\ stored.held \in [Staff -> SUBSET Roles] /\ stored.leads \subseteq Staff
  /\ \A e \in Staff : \A r \in stored.held[e] : stored.role[r].name # NoName
  /\ \A r, q \in Roles : stored.role[r].name # NoName /\ stored.role[r].name = stored.role[q].name => r = q
  /\ \A r \in Roles : \A x, y \in stored.role[r].keys : x[1] = y[1] => x = y
  /\ Manage \in KeysOf(stored.role[HrAdmin].keys)
  /\ \A c \in Calls : stored.role[c].name = NoName

ViewsStored(stored) ==
  /\ stored.view \in [Views -> ViewRow] /\ stored.shares \in [Views -> SUBSET (Users \X (Calls \cup {NoOwner}))]
  /\ \A v \in Views :
       /\ stored.view[v].owner # NoOwner <=> stored.view[v].layout # NoLayout
       /\ stored.view[v].owner = NoOwner => stored.shares[v] = {}
       /\ stored.view[v].owner \notin KeysOf(stored.shares[v])
       /\ \A x, y \in stored.shares[v] : x[1] = y[1] => x = y
  /\ \A c \in Calls : stored.view[c] = NoView

LinksStored(stored) ==
  /\ stored.access \in Accesses /\ stored.link \in [Links -> LinkRow]
  /\ \A l \in Links : stored.link[l].sections \cap Never = {}
  /\ \A c \in Calls : stored.link[c] = FreeLink

ASSUME ConfigurationAssumption ==
  \A b \in Beginnings : RolesStored(b.roles) /\ ViewsStored(b.views) /\ LinksStored(b.links)

VARIABLE kinds        \* the kinds that do

configurationVars == <<roleVars, viewVars, linkVars, requestVars, kinds>>

Init ==
  /\ RequestsInit
  /\ \E b \in Beginnings : RolesInit(b.roles) /\ ViewsInit(b.views) /\ LinksInit(b.links) /\ kinds = b.kinds

Begin(c) ==
  \/ "roles" \in kinds /\ BeginRoles(c) /\ UNCHANGED <<viewVars, linkVars>>
  \/ "views" \in kinds /\ BeginViews(c) /\ UNCHANGED <<roleVars, linkVars>>
  \/ "links" \in kinds /\ BeginLinks(c) /\ UNCHANGED <<roleVars, viewVars>>

Serve(c) ==
  \/ ServeRoles(c) /\ UNCHANGED <<viewVars, linkVars>>
  \/ ServeViews(c) /\ UNCHANGED <<roleVars, linkVars>>
  \/ ServeLinks(c) /\ UNCHANGED <<roleVars, viewVars>>

StatementFails(c) == Fail(c) /\ UNCHANGED <<roleVars, viewVars, linkVars>>

Surroundings == "links" \in kinds /\ LinkSurroundings /\ UNCHANGED <<roleVars, viewVars>>

Next ==
  /\ Surroundings \/ \E c \in Calls : Begin(c) \/ Serve(c) \/ StatementFails(c)
  /\ UNCHANGED kinds

Spec == Init /\ [][Next]_configurationVars

\* The event loop and the database go on with every request they have begun.
FairSpec == Spec /\ \A c \in Calls : WF_configurationVars(Serve(c) /\ UNCHANGED kinds)

\* Nobody waits for ever for rows of a role or of a view: every request about
\* them is answered (update, replaceShares).
RequestsEnd == \A c \in Calls : Waiting(c) ~> call[c].pc \in Answers
=============================================================================

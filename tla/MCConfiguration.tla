-------------------------- MODULE MCConfiguration --------------------------
(* Small instances of Configuration: two employees, the built-in role and  *)
(* a custom one, a view, and a link of one profile, made by somebody whose *)
(* access comes and goes; and what two requests add to them.               *)
EXTENDS Configuration

CONSTANTS hr, r1, nhr, n1, s1, s2, w1, v1, v2, own, added, l1

\* One custom role administers roles as well: it is held, and the built-in one
\* or not.
RoleTables ==
  {[role |-> [r \in Roles |->
      CASE r = hr -> [name |-> nhr, keys |-> {<<Manage, Nobody>>}]
        [] r = r1 -> [name |-> n1, keys |-> {<<Manage, Nobody>>, <<CreateCampaigns, Nobody>>}]
        [] OTHER -> [name |-> NoName, keys |-> {}]],
    held |-> [e \in Staff |-> IF e = s1 THEN {r1} ELSE theirs], leads |-> {s2}] :
   theirs \in {{hr}, {}}}

\* The first view is shared already.
ViewTables ==
  {[view |-> [v \in Views |-> IF v = w1 THEN [owner |-> s1, layout |-> CHOOSE l \in Layouts : TRUE] ELSE NoView],
    shares |-> [v \in Views |-> IF v = w1 THEN {<<s2, NoOwner>>} ELSE {}]]}

Partner == [role |-> "PP", sections |-> {own, added}]
Overseer == [role |-> "FullAccess", sections |-> {own, added}]
Colleague == [role |-> "Colleague", sections |-> {own}]

AccessOfTheCreator == {[v \in Viewers |-> IF v = v1 THEN a ELSE Colleague] : a \in {Partner, Overseer, Colleague}}

\* The first link may be there already.
OneLinkOrNone ==
  {[l \in Links |-> FreeLink],
   [l \in Links |-> IF l = l1 THEN [creator |-> v1, recipient |-> v2, sections |-> {own, added},
                                    expires |-> 1, revoked |-> FALSE] ELSE FreeLink]}

\* Requests of one kind beside each other: the three share no table, and a request
\* of another kind would only take its steadiness from one.
NoLinks == [link |-> [l \in Links |-> FreeLink], access |-> [w \in Viewers |-> Colleague]]
SomeRoles == CHOOSE r \in RoleTables : TRUE
SomeViews == CHOOSE v \in ViewTables : TRUE
Starts ==
  {[kinds |-> {"roles"}, roles |-> r, views |-> SomeViews, links |-> NoLinks] : r \in RoleTables}
  \cup {[kinds |-> {"views"}, roles |-> SomeRoles, views |-> v, links |-> NoLinks] : v \in ViewTables}
  \cup {[kinds |-> {"links"}, roles |-> SomeRoles, views |-> SomeViews, links |-> [link |-> l, access |-> a]] :
          l \in OneLinkOrNone, a \in AccessOfTheCreator}
=============================================================================

----------------------------- MODULE SavedViews -----------------------------
(***************************************************************************)
(* Saved views of the employee list and whom they are shared with          *)
(* (src/modules/directory/saved-views.service.ts and its controller).      *)
(* Name, filters, columns and sort order of a view are one layout.         *)
(***************************************************************************)
EXTENDS FiniteSets, Requests

CONSTANTS
  StoredViews,   \* rows of saved_views that may be there to begin with
  Users,         \* employees who use views
  Layouts, NoLayout, NoOwner

\* A request that creates a view creates the one that bears its name.
Views == StoredViews \cup Calls

ASSUME SavedViewsAssumption == NoOwner \notin Users /\ NoLayout \notin Layouts

VARIABLES
  view,          \* saved_views
  shares         \* saved_view_shares, rows of every view

viewVars == <<view, shares>>
ViewRow == [owner : Users \cup {NoOwner}, layout : Layouts \cup {NoLayout}]
NoView == [owner |-> NoOwner, layout |-> NoLayout]
Stored(v) == view[v].owner # NoOwner

ViewsInit(stored) == view = stored.view /\ shares = stored.shares

\* findAccessibleView, then assertCanEdit.
Accessible(u, v) == Stored(v) /\ (view[v].owner = u \/ u \in KeysOf(shares[v]))
CanEdit(u, v) == Accessible(u, v) /\ view[v].owner = u

CreateView(c) ==
  /\ At(c, "idle")
  /\ \E u \in Users, layout \in Layouts : view' = [view EXCEPT ![c] = [owner |-> u, layout |-> layout]]
  /\ Become(c, [pc |-> "done"]) /\ Commits(c) /\ UNCHANGED shares

\* listForViewer: own views and shared ones, in one statement.
ListViews(c) ==
  /\ At(c, "idle")
  /\ \E u \in Users : Become(c, [pc |-> "done", views |-> {v \in Views : Accessible(u, v)}])
  /\ Reads /\ UNCHANGED viewVars

BeginViewUpdate(c) ==
  /\ At(c, "idle")
  /\ \E u \in Users, v \in Views, layout \in Layouts :
       Become(c, IF CanEdit(u, v) THEN [pc |-> "updateView", view |-> v, layout |-> layout]
                 ELSE [pc |-> "refused"])
  /\ Reads /\ UNCHANGED viewVars

\* Mutant: the row is written back although it has been removed.
UpsertView(c) ==
  /\ At(c, "updateView")
  /\ view' = [view EXCEPT ![call[c].view].layout = call[c].layout]
  /\ Goto(c, "done") /\ Commits(c) /\ UNCHANGED shares

\* The row is updated by its id; if it has gone the update fails.
UpdateView(c) ==
  /\ At(c, "updateView")
  /\ IF Stored(call[c].view)
     THEN /\ view' = [view EXCEPT ![call[c].view].layout = call[c].layout]
          /\ Goto(c, "done") /\ Commits(c)
     ELSE Goto(c, "refused") /\ Reads /\ UNCHANGED view
  /\ UNCHANGED shares

BeginViewRemoval(c) ==
  /\ At(c, "idle")
  /\ \E u \in Users, v \in Views :
       Become(c, IF CanEdit(u, v) THEN [pc |-> "removeView", view |-> v] ELSE [pc |-> "refused"])
  /\ Reads /\ UNCHANGED viewVars

\* A transaction that is replacing shares holds the rows it has deleted; if it
\* has met none, nobody waits for it.
Replacing(c, v) ==
  \E d \in Calls \ {c} : At(d, "insertShares") /\ call[d].view = v /\ call[d].seen \cap shares[v] # {}

\* The shares go with the view.
RemoveView(c) ==
  /\ At(c, "removeView") /\ ~Replacing(c, call[c].view)
  /\ IF Stored(call[c].view)
     THEN /\ view' = [view EXCEPT ![call[c].view] = NoView]
          /\ shares' = [shares EXCEPT ![call[c].view] = {}]
          /\ Goto(c, "done") /\ Commits(c)
     ELSE Goto(c, "refused") /\ Reads /\ UNCHANGED viewVars

\* replaceShares: never with oneself, only with people who exist.
BeginShare(c) ==
  /\ At(c, "idle")
  /\ \E u \in Users, v \in Views, recipients \in SUBSET Users :
       Become(c, IF CanEdit(u, v) /\ u \notin recipients
                 THEN [pc |-> "seeShares", view |-> v, recipients |-> recipients, seen |-> {}]
                 ELSE [pc |-> "refused"])
  /\ Reads /\ UNCHANGED viewVars

\* deleteMany picks its rows, and waits for those another transaction holds.
SeeShares(c) ==
  /\ At(c, "seeShares")
  /\ call' = [call EXCEPT ![c].seen = shares[call[c].view], ![c].pc = "deleteShares"]
  /\ Reads /\ UNCHANGED viewVars

DeleteShares(c) ==
  /\ At(c, "deleteShares")
  /\ \A d \in Calls \ {c} : ~(At(d, "insertShares") /\ call[d].view = call[c].view
                               /\ call[d].seen \cap call[c].seen # {})
  /\ Goto(c, "insertShares")
  /\ Reads /\ UNCHANGED viewVars

\* Mutant: the new shares join the old ones.
AddShares(c) ==
  /\ At(c, "insertShares")
  /\ LET v == call[c].view
     IN /\ shares' = [shares EXCEPT ![v] = @ \cup RowsBy(c, call[c].recipients \ KeysOf(@))]
        /\ Goto(c, "done") /\ Commits(c)
  /\ UNCHANGED view

InsertShares(c) ==
  /\ At(c, "insertShares")
  /\ LET v == call[c].view
         new == RowsBy(c, call[c].recipients)
     IN IF Stored(v) /\ ~Clash(shares[v], call[c].seen, new)
        THEN /\ shares' = [shares EXCEPT ![v] = Replaced(@, call[c].seen, new)]
             /\ Goto(c, "done") /\ Commits(c)
        ELSE Goto(c, "refused") /\ Reads /\ UNCHANGED shares
  /\ UNCHANGED view

BeginViews(c) == CreateView(c) \/ ListViews(c) \/ BeginViewUpdate(c) \/ BeginViewRemoval(c) \/ BeginShare(c)
ServeViews(c) == UpdateView(c) \/ RemoveView(c) \/ SeeShares(c) \/ DeleteShares(c) \/ InsertShares(c)

-----------------------------------------------------------------------------
(* Properties.                                                             *)

\* A view that is gone stays gone and leaves no share, its owner is never among
\* the recipients, and nobody is a recipient twice, although shares are deleted
\* and inserted by statements that interleave (replaceShares, remove).
ViewsAreConsistent ==
  /\ view \in [Views -> ViewRow] /\ shares \in [Views -> SUBSET (Users \X (Calls \cup {NoOwner}))]
  /\ \A v \in Views :
       /\ Stored(v) <=> view[v].layout # NoLayout
       /\ ~Stored(v) => shares[v] = {}
       /\ view[v].owner \notin KeysOf(shares[v])
       /\ \A a, b \in shares[v] : a[1] = b[1] => a = b

\* Whoever replaces the shares of a view, or updates it, while nobody else
\* commits anything leaves it shared with exactly the people that were named.
UndisturbedShareIsExact ==
  [][\A c \in Calls : At(c, "insertShares") /\ steady[c] /\ call'[c].pc = "done" =>
       KeysOf(shares'[call[c].view]) = call[c].recipients]_<<viewVars, requestVars>>
=============================================================================

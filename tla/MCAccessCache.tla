---------------------------- MODULE MCAccessCache ----------------------------
(* Small instances of AccessCache for TLC.                                 *)
EXTENDS AccessCache, TLC

\* The subject moves out of and into the viewer's reporting line.
LineGraphs == {{"rl"}}
Line == {"rl"}
\* Grants, the people partner, the HR chain and assignments change under a
\* viewer who also has an assignment that is due, or becomes due.
LiveGraphs == {{"asg", "due", "pl", "pp", "hr", "fa"}, {"asg", "pl"}}
Live == {"fa", "pp", "hr", "asg"}

Sym == Permutations(Calls) \cup Permutations(Writers)
=============================================================================

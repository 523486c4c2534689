---------------------------- MODULE MCMentorship ----------------------------
(* Small instances of Mentorship: three people, one of them mentored.      *)
EXTENDS Mentorship

CONSTANTS e1, e2, e3, p1, p2, p3, p4

Row(status, mentor, mentee) == [status |-> status, mentor |-> mentor, mentee |-> mentee, closedBy |-> NoCall]

\* No pair yet, or e1 mentors e2 and was mentored by e3 before.
Tables0 ==
  {[p \in Pairs |-> NoRow],
   [p \in Pairs |-> IF p = p1 THEN Row("active", e1, e2)
                    ELSE IF p = p2 THEN Row("ended", e3, e1) ELSE NoRow]}
\* The author of a request may see everybody, or e2 only.
EverybodyOrOne == {{e1, e2, e3}, {e2}}
=============================================================================

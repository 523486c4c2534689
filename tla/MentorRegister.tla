--------------------------- MODULE MentorRegister ---------------------------
(* What mentorship promises: a mentee has at most one mentor at a time, a  *)
(* pair that has ended stays as it was closed, and the career timelines of *)
(* both people say what happened to the pair, or neither does.             *)

CONSTANTS Employees, Pairs, Closers, NoPair, NoCloser

VARIABLES
  mentorship,   \* who every pair joins
  current,      \* the pair a mentee is in now
  closedBy,     \* whose feedback closed a pair
  entries       \* the entries of a pair in the timelines of its two people

Nobody == [mentor |-> NoPair, mentee |-> NoPair]
StartEntries(m) == {m.mentor, m.mentee} \X {"mentorshipStart"}
EndEntries(m) == {m.mentor, m.mentee} \X {"mentorshipEnd"}

\* Pairs may have been joined, and closed, before.
RegisterInit ==
  /\ \A e \in Employees : current[e] # NoPair =>
       mentorship[current[e]].mentee = e /\ closedBy[current[e]] = NoCloser
  /\ \A p \in Pairs :
       entries[p] = IF mentorship[p] = Nobody THEN {}
                    ELSE IF current[mentorship[p].mentee] = p THEN StartEntries(mentorship[p])
                    ELSE StartEntries(mentorship[p]) \cup EndEntries(mentorship[p])

Start(p, mentor, mentee) ==
  /\ mentorship[p] = Nobody /\ mentor # mentee /\ current[mentee] = NoPair
  /\ mentorship' = [mentorship EXCEPT ![p] = [mentor |-> mentor, mentee |-> mentee]]
  /\ current' = [current EXCEPT ![mentee] = p]
  /\ entries' = [entries EXCEPT ![p] = StartEntries(mentorship'[p])]
  /\ UNCHANGED closedBy

End(p, closer) ==
  /\ mentorship[p] # Nobody /\ current[mentorship[p].mentee] = p
  /\ current' = [current EXCEPT ![mentorship[p].mentee] = NoPair]
  /\ closedBy' = [closedBy EXCEPT ![p] = closer]
  /\ entries' = [entries EXCEPT ![p] = @ \cup EndEntries(mentorship[p])]
  /\ UNCHANGED mentorship

RegisterNext ==
  \E p \in Pairs : \/ \E mentor, mentee \in Employees : Start(p, mentor, mentee)
                   \/ \E closer \in Closers : End(p, closer)

registerVars == <<mentorship, current, closedBy, entries>>
RegisterSpec == RegisterInit /\ [][RegisterNext]_registerVars
=============================================================================

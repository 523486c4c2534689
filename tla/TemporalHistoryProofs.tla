------------------------- MODULE TemporalHistoryProofs -------------------------
(***************************************************************************)
(* TemporalHistory's inductive invariant, for any number of calls, dates,  *)
(* values and manual events.                                               *)
(***************************************************************************)
EXTENDS TemporalHistory, TLAPS

USE DEF Open

\* A call that goes on or ends keeps its record's type.
LEMMA CallMoves ==
  ASSUME TypeOK, NEW c \in Calls,
         NEW pc \in {"idle", "ended"} \cup CreatePcs \cup ManualPcs, NEW out \in Outcomes,
         NEW pre \in Values \cup {NoValue}, NEW seen \in Row \cup {NoRow},
         NEW event \in ManualIds \cup {NoEvent}, NEW amends \in BOOLEAN, NEW inserted \in BOOLEAN
  PROVE  /\ [call[c] EXCEPT !.pc = pc] \in CallState
         /\ [call[c] EXCEPT !.pc = pc, !.outcome = out] \in CallState
         /\ [call[c] EXCEPT !.pc = pc, !.pre = pre, !.amends = amends] \in CallState
         /\ [call[c] EXCEPT !.pc = pc, !.event = event] \in CallState
         /\ [call[c] EXCEPT !.pc = pc, !.seen = seen] \in CallState
         /\ [call[c] EXCEPT !.pc = pc, !.inserted = inserted] \in CallState
         /\ [call[c] EXCEPT !.pc = pc, !.outcome = out, !.event = event] \in CallState
<1>1. call[c] \in CallState
  BY DEF TypeOK
<1>2. [call[c] EXCEPT !.pc = pc] \in CallState
  BY <1>1 DEF CallState
<1>3. [call[c] EXCEPT !.pc = pc, !.outcome = out] \in CallState
  BY <1>1 DEF CallState
<1>4. [call[c] EXCEPT !.pc = pc, !.pre = pre, !.amends = amends] \in CallState
  BY <1>1, ZenonT(40) DEF CallState
<1>5. [call[c] EXCEPT !.pc = pc, !.event = event] \in CallState
  BY <1>1 DEF CallState
<1>6. [call[c] EXCEPT !.pc = pc, !.seen = seen] \in CallState
  BY <1>1 DEF CallState
<1>7. [call[c] EXCEPT !.pc = pc, !.inserted = inserted] \in CallState
  BY <1>1, ZenonT(40) DEF CallState
<1>8. [call[c] EXCEPT !.pc = pc, !.outcome = out, !.event = event] \in CallState
  BY <1>1 DEF CallState
<1>9. QED
  BY <1>2, <1>3, <1>4, <1>5, <1>6, <1>7, <1>8

\* An idle call is well typed, and so is one that begins.
LEMMA CallBegins ==
  ASSUME NEW pc \in {"idle"} \cup CreatePcs \cup ManualPcs, NEW d \in Dates,
         NEW v \in Values \cup {NoValue}, NEW o \in Values \cup {NoValue},
         NEW m \in ManualIds \cup {NoEvent}
  PROVE  /\ Idle \in CallState
         /\ [Idle EXCEPT !.pc = pc, !.date = d, !.value = v] \in CallState
         /\ [Idle EXCEPT !.pc = pc, !.date = d, !.old = o, !.value = v] \in CallState
         /\ [Idle EXCEPT !.pc = pc, !.event = m] \in CallState
BY DEF Idle, CallState, Outcomes

\* A call that ends or moves on alone leaves the table of calls well typed.
LEMMA EndIsTyped ==
  ASSUME TypeOK, NEW c \in Calls, NEW out \in Outcomes, End(c, out)
  PROVE  call' \in [Calls -> CallState]
<1>1. [call[c] EXCEPT !.pc = "ended", !.outcome = out] \in CallState
  <2>1. call[c] \in CallState
    BY DEF TypeOK
  <2> QED BY <2>1 DEF CallState
<1> QED BY <1>1 DEF End, TypeOK

LEMMA GotoIsTyped ==
  ASSUME TypeOK, NEW c \in Calls, NEW pc \in CreatePcs \cup ManualPcs, Goto(c, pc)
  PROVE  call' \in [Calls -> CallState]
<1>1. [call[c] EXCEPT !.pc = pc] \in CallState
  <2>1. call[c] \in CallState
    BY DEF TypeOK
  <2> QED BY <2>1 DEF CallState
<1>2. call' = [call EXCEPT ![c] = [call[c] EXCEPT !.pc = pc]]
  BY DEF Goto
<1> QED BY <1>1, <1>2 DEF TypeOK

LEMMA CommitEndsIsTyped ==
  ASSUME TypeOK, NEW c \in Calls, NEW out \in Outcomes, CommitEnds(c, out)
  PROVE  call' \in [Calls -> CallState]
<1>1. [call[c] EXCEPT !.pc = "ended", !.outcome = out] \in CallState
  <2>1. call[c] \in CallState
    BY DEF TypeOK
  <2> QED BY <2>1 DEF CallState
<1>2. ASSUME NEW k \in Calls
      PROVE  [call[k] EXCEPT !.doomed = call[k].doomed \/ call[k].pc = "commit"] \in CallState
  <2>1. call[k] \in CallState
    BY DEF TypeOK
  <2>2. (call[k].doomed \/ call[k].pc = "commit") \in BOOLEAN
    BY Zenon
  <2> DEFINE b == call[k].doomed \/ call[k].pc = "commit"
  <2>3. b \in BOOLEAN
    BY <2>2
  <2> HIDE DEF b
  <2>4. [call[k] EXCEPT !.doomed = b] \in CallState
    BY <2>1, <2>3 DEF CallState
  <2> QED BY <2>4 DEF b
<1>3. call' = [k \in Calls |->
        IF k = c THEN [call[c] EXCEPT !.pc = "ended", !.outcome = out]
        ELSE [call[k] EXCEPT !.doomed = call[k].doomed \/ call[k].pc = "commit"]]
  BY DEF CommitEnds
<1> QED BY <1>1, <1>2, <1>3, Zenon

\* The outcomes and program counters that the actions name.
LEMMA Names ==
  /\ {"created", "amended", "unchanged", "out_of_order", "suppressed", "concurrent",
      "failed", "refused", "not_found", "done"} \subseteq Outcomes
  /\ {"pre_read", "exact", "anchor", "transition", "mark", "begin", "commit",
      "record", "find", "edit", "delete"} \subseteq CreatePcs \cup ManualPcs
  /\ NoValue \notin Values /\ Dates \subseteq Nat \ {0} /\ NoRow \notin Row
BY DatesAssumption, NullsAssumption DEF Outcomes, CreatePcs, ManualPcs

\* The checks outside the transaction only move their call.
LEMMA ChecksAreTyped ==
  ASSUME TypeOK, NEW c \in Calls,
         PreRead(c) \/ ExactMatch(c) \/ SystemAnchor(c) \/ TransitionMatch(c)
  PROVE  TypeOK'
<1>1. call' \in [Calls -> CallState]
  <2>1. CASE PreRead(c)
    <3>1. ASSUME NEW r \in OpenRows PROVE r.value \in Values
      BY DEF OpenRows, TypeOK, Row
    <3>2. ASSUME NEW v \in Values \cup {NoValue}, NEW a \in BOOLEAN, Checked(c, v, a)
          PROVE  call' \in [Calls -> CallState]
      <4>1. [call[c] EXCEPT !.pc = "exact", !.pre = v, !.amends = a] \in CallState
        BY CallMoves, Names
      <4> QED BY <3>2, <4>1 DEF Checked, TypeOK
    <3> QED BY <2>1, <3>1, <3>2, EndIsTyped, Names DEF PreRead
  <2>2. ASSUME NEW m \in ManualIds, Conflict(c, m)
        PROVE  call' \in [Calls -> CallState]
    <3>1. [call[c] EXCEPT !.pc = "mark", !.event = m] \in CallState
      BY CallMoves, Names
    <3> QED BY <2>2, <3>1 DEF Conflict, TypeOK
  <2>3. CASE ExactMatch(c)
    BY <2>2, <2>3, GotoIsTyped, Names DEF ExactMatch, ActiveManual
  <2>4. CASE SystemAnchor(c)
    BY <2>4, GotoIsTyped, Names DEF SystemAnchor
  <2>5. CASE TransitionMatch(c)
    BY <2>2, <2>5, GotoIsTyped, Names DEF TransitionMatch, SameTransition
  <2> QED BY <2>1, <2>3, <2>4, <2>5
<1>2. UNCHANGED Tables
  BY DEF PreRead, ExactMatch, SystemAnchor, TransitionMatch
<1> QED BY <1>1, <1>2 DEF TypeOK, Tables

\* So do the transaction's, and its commit writes rows and events.
LEMMA TransactionIsTyped ==
  ASSUME TypeOK, CreatesHaveInputs, TransactionReadsHold, NEW c \in Calls,
         BeginTransaction(c) \/ RollBack(c) \/ CommitAppend(c) \/ CommitAmend(c)
  PROVE  TypeOK'
<1>1. /\ call[c] \in CallState /\ history \in SUBSET Row /\ system \in SUBSET SystemEvent
      /\ call[c].seen \in Row \cup {NoRow} /\ call[c].pre \in Values \cup {NoValue}
  BY DEF TypeOK, CallState
<1>2. CASE BeginTransaction(c)
  <2>1. ASSUME NEW r \in Row \cup {NoRow}, InTransaction(c, r)
        PROVE  call' \in [Calls -> CallState]
    <3>1. [call[c] EXCEPT !.pc = "commit", !.seen = r] \in CallState
      BY CallMoves, Names
    <3> QED BY <2>1, <3>1 DEF InTransaction, TypeOK
  <2>2. OpenRows \subseteq Row
    BY <1>1 DEF OpenRows
  <2>3. call' \in [Calls -> CallState]
    BY <1>2, <2>1, <2>2, EndIsTyped, Names DEF BeginTransaction
  <2> QED BY <1>2, <2>3 DEF BeginTransaction, TypeOK, Tables
<1>3. CASE RollBack(c)
  <2>1. call' \in [Calls -> CallState]
    BY <1>3, EndIsTyped, Names DEF RollBack
  <2> QED BY <1>3, <2>1 DEF RollBack, TypeOK, Tables
<1>4. ASSUME At(c, "commit")
      PROVE  call[c].date \in Dates /\ call[c].value \in Values
  BY <1>4 DEF At, CreatesHaveInputs, CreatePcs
<1>5. CASE CommitAppend(c)
  <2>1. call' \in [Calls -> CallState]
    BY <1>5, CommitEndsIsTyped, Names DEF CommitAppend
  <2>2. call[c].date \in Dates /\ call[c].value \in Values
    BY <1>4, <1>5 DEF CommitAppend
  <2>3. history' \in SUBSET Row
    <3>1. \A r \in history : [r EXCEPT !.to = call[c].date] \in Row
      BY <1>1, <2>2 DEF Row
    <3>2. [from |-> call[c].date, to |-> Open, value |-> call[c].value] \in Row
      BY <2>2 DEF Row
    <3> QED BY <1>1, <1>5, <3>1, <3>2 DEF CommitAppend
  <2>4. system' \in SUBSET SystemEvent
    <3>1. call[c].seen # NoRow => call[c].seen.value \in Values
      BY <1>1 DEF Row
    <3> DEFINE old == IF call[c].seen = NoRow THEN NoValue ELSE call[c].seen.value
    <3>2. old \in Values \cup {NoValue}
      BY <3>1
    <3>3. system' = system \cup {[date |-> call[c].date, old |-> old, new |-> call[c].value]}
      BY <1>5 DEF CommitAppend
    <3> HIDE DEF old
    <3> QED BY <1>1, <2>2, <3>2, <3>3 DEF SystemEvent
  <2>5. manual' = manual
    BY <1>5 DEF CommitAppend
  <2> QED BY <2>1, <2>3, <2>4, <2>5 DEF TypeOK
<1>6. CASE CommitAmend(c)
  <2>1. call' \in [Calls -> CallState]
    BY <1>6, CommitEndsIsTyped, Names DEF CommitAmend
  <2>2. /\ call[c].date \in Dates /\ call[c].value \in Values
        /\ call[c].seen \in Row
    BY <1>1, <1>4, <1>6 DEF CommitAmend, At, TransactionReadsHold, OpenRows
  <2>3. history' \in SUBSET Row
    <3>1. [call[c].seen EXCEPT !.value = call[c].value] \in Row
      BY <2>2 DEF Row
    <3> QED BY <1>1, <1>6, <3>1 DEF CommitAmend
  <2>4. system' \in SUBSET SystemEvent
    <3>1. \A e \in system :
            [e EXCEPT !.new = IF e.date = call[c].date THEN call[c].value ELSE e.new] \in SystemEvent
      BY <1>1, <2>2 DEF SystemEvent
    <3>2. [date |-> call[c].date, old |-> call[c].pre, new |-> call[c].value] \in SystemEvent
      BY <1>1, <2>2 DEF SystemEvent
    <3> QED BY <1>1, <1>6, <3>1, <3>2 DEF CommitAmend
  <2>5. manual' = manual
    BY <1>6 DEF CommitAmend
  <2> QED BY <2>1, <2>3, <2>4, <2>5 DEF TypeOK
<1> QED BY <1>2, <1>3, <1>5, <1>6

\* Manual events and the calls about them stay well typed, and so do calls
\* that begin, return or die.
LEMMA ManualIsTyped ==
  ASSUME TypeOK, NEW c \in Calls,
         MarkSkipped(c) \/ ManualStep(c) \/ Begin(c) \/ Return(c) \/ Die(c)
  PROVE  TypeOK'
<1>1. /\ call[c] \in CallState /\ manual \in [ManualIds -> ManualEvent]
      /\ call[c].date \in Dates \cup {Open} /\ call[c].old \in Values \cup {NoValue}
      /\ call[c].value \in Values \cup {NoValue}
  BY DEF TypeOK, CallState
<1>2. CASE MarkSkipped(c)
  <2>1. call' \in [Calls -> CallState]
    BY <1>2, EndIsTyped, Names DEF MarkSkipped
  <2>2. manual' \in [ManualIds -> ManualEvent]
    <3>1. \A m \in ManualIds : [manual[m] EXCEPT !.skipped = TRUE] \in ManualEvent
      BY <1>1 DEF ManualEvent
    <3> QED BY <1>1, <1>2, <3>1 DEF MarkSkipped
  <2> QED BY <1>2, <2>1, <2>2 DEF MarkSkipped, TypeOK
<1>3. CASE RecordManual(c)
  <2>1. /\ [call[c] EXCEPT !.pc = "find"] \in CallState
        /\ [call[c] EXCEPT !.pc = "find", !.inserted = TRUE] \in CallState
    BY <1>1, Names DEF CallState
  <2>2. call' \in [Calls -> CallState]
    BY <1>3, <2>1, GotoIsTyped, Names DEF RecordManual, TypeOK
  <2>3. [state |-> "active", date |-> call[c].date, old |-> call[c].old,
         new |-> call[c].value, skipped |-> FALSE] \in ManualEvent
    BY <1>1 DEF ManualEvent
  <2>4. manual' \in [ManualIds -> ManualEvent]
    BY <1>1, <1>3, <2>3 DEF RecordManual
  <2> QED BY <1>3, <2>2, <2>4 DEF RecordManual, TypeOK
<1>4. CASE FindManual(c)
  <2>1. \A m \in ManualIds :
          [call[c] EXCEPT !.pc = "ended", !.outcome = "created", !.event = m] \in CallState
    BY <1>1, Names DEF CallState
  <2>2. call' \in [Calls -> CallState]
    BY <1>4, <2>1, EndIsTyped, Names DEF FindManual, TypeOK, ActiveManual
  <2> QED BY <1>4, <2>2 DEF FindManual, TypeOK, Tables
<1>5. CASE WriteDelete(c)
  <2>1. call' \in [Calls -> CallState]
    BY <1>5, EndIsTyped, Names DEF WriteDelete
  <2>2. manual' \in [ManualIds -> ManualEvent]
    <3>1. \A m \in ManualIds : [manual[m] EXCEPT !.state = "deleted"] \in ManualEvent
      BY <1>1 DEF ManualEvent
    <3> QED BY <1>1, <1>5, <3>1 DEF WriteDelete
  <2> QED BY <1>5, <2>1, <2>2 DEF WriteDelete, TypeOK
<1>6. ASSUME NEW s \in {"active", "elsewhere"}, NEW d \in Dates,
             NEW o \in Olds, NEW n \in News, WriteEdit(c, s, d, o, n)
      PROVE  TypeOK'
  <2>1. call' \in [Calls -> CallState]
    BY <1>6, EndIsTyped, Names DEF WriteEdit
  <2>2. manual' \in [ManualIds -> ManualEvent]
    <3> DEFINE m == call[c].event
               s2 == IF manual[m].state = "deleted" THEN "deleted" ELSE s
    <3>1. s2 \in {"none", "active", "elsewhere", "deleted"}
      OBVIOUS
    <3>2. manual' = manual \/ manual' = [manual EXCEPT ![m] =
            [manual[m] EXCEPT !.state = s2, !.date = d, !.old = o, !.new = n]]
      BY <1>6 DEF WriteEdit
    <3> HIDE DEF s2, m
    <3>3. ASSUME m \in ManualIds
          PROVE [manual[m] EXCEPT !.state = s2, !.date = d, !.old = o, !.new = n] \in ManualEvent
      BY <1>1, <3>1, <3>3, ManualValuesAssumption DEF ManualEvent
    <3> QED BY <1>1, <3>2, <3>3
  <2> QED BY <1>6, <2>1, <2>2 DEF WriteEdit, TypeOK
<1>7. CASE Begin(c)
  <2>1. ASSUME NEW d \in Dates, NEW v \in Values, BeginCreate(c, d, v)
        PROVE  TypeOK'
    <3>1. [Idle EXCEPT !.pc = "pre_read", !.date = d, !.value = v] \in CallState
      BY CallBegins, Names
    <3> QED BY <2>1, <3>1 DEF BeginCreate, TypeOK, Tables
  <2>2. ASSUME NEW d \in Dates, NEW o \in Olds, NEW n \in News,
               BeginManual(c, d, o, n)
        PROVE  TypeOK'
    <3>1. [Idle EXCEPT !.pc = "record", !.date = d, !.old = o, !.value = n] \in CallState
      BY CallBegins, Names, ManualValuesAssumption
    <3> QED BY <2>2, <3>1 DEF BeginManual, TypeOK, Tables
  <2>3. ASSUME NEW m \in ManualIds, NEW pc \in {"edit", "delete"}, BeginEdit(c, m, pc)
        PROVE  TypeOK'
    <3>1. [Idle EXCEPT !.pc = pc, !.event = m] \in CallState
      BY Names DEF Idle, CallState, Outcomes
    <3> QED BY <2>3, <3>1 DEF BeginEdit, TypeOK, Tables
  <2> QED BY <1>7, <2>1, <2>2, <2>3 DEF Begin
<1>8. CASE Return(c) \/ Die(c)
  <2>1. Idle \in CallState
    BY Names DEF Idle, CallState, Outcomes
  <2> QED BY <1>8, <2>1 DEF Return, Die, TypeOK, Tables
<1> QED BY <1>2, <1>3, <1>4, <1>5, <1>6, <1>7, <1>8 DEF ManualStep

-----------------------------------------------------------------------------
(* The chain.                                                              *)

\* Rows start and end on calendar days.
LEMMA RowsAreTyped ==
  ASSUME TypeOK, NEW r \in history
  PROVE  /\ r \in Row /\ r.from \in Dates /\ r.from \in Nat \ {0}
         /\ r.to \in Nat /\ r.value \in Values
<1>1. r \in Row
  BY DEF TypeOK
<1>2. r.from \in Dates /\ r.to \in Dates \cup {0} /\ r.value \in Values
  BY <1>1 DEF Row
<1>3. \A x \in Dates : x \in Nat \ {0}
  BY DatesAssumption
<1> QED BY <1>1, <1>2, <1>3

\* The open row is alone, and everything else is over when it starts.
LEMMA OpenRowIsLast ==
  ASSUME TypeOK, ChainIsUnbroken, NEW o \in OpenRows
  PROVE  /\ \A r \in OpenRows : r = o
         /\ \A r \in history : r.from <= o.from /\ (r.to # Open => r.to <= o.from)
<1>1. \A r \in history : /\ r.from \in Nat /\ r.to \in Nat
  BY RowsAreTyped
<1>2. o \in history /\ o.to = Open
  BY DEF OpenRows
<1>3. ASSUME NEW r \in history
      PROVE  r.from <= o.from /\ (r.to # Open => r.to <= o.from)
  BY <1>1, <1>2 DEF ChainIsUnbroken
<1>4. ASSUME NEW r \in OpenRows
      PROVE  r = o
  <2>1. r \in history /\ r.to = Open
    BY DEF OpenRows
  <2>2. ~(r.from < o.from)
    BY <1>2, <2>1 DEF ChainIsUnbroken
  <2>3. r.from = o.from
    BY <1>1, <1>2, <1>3, <2>1, <2>2
  <2> QED BY <1>2, <2>1, <2>3 DEF ChainIsUnbroken
<1> QED BY <1>3, <1>4

\* A commit that appends keeps the chain and its events.
LEMMA AppendKeepsChain ==
  ASSUME IInv, NEW c \in Calls, CommitAppend(c)
  PROVE  ChainIsUnbroken' /\ OpenRows' # {} /\ EventsHaveLinks' /\ TimelineMatchesHistory'
<1> DEFINE d == call[c].date
           o == call[c].seen
           closed == [o EXCEPT !.to = d]
           next == [from |-> d, to |-> Open, value |-> call[c].value]
           old == IF o = NoRow THEN NoValue ELSE o.value
           event == [date |-> d, old |-> old, new |-> call[c].value]
<1>1. /\ TypeOK /\ ChainIsUnbroken /\ TransactionReadsHold /\ EventsHaveLinks
      /\ TimelineMatchesHistory /\ (history # {} => OpenRows # {})
      /\ d \in Nat \ {0} /\ d \in Dates
      /\ \A r \in history : r \in Row /\ r.from \in Nat \ {0} /\ r.to \in Nat
      /\ \A e \in system : e.date # d
      /\ system' = system \cup {event}
      /\ next.from = d /\ next.to = Open /\ next.value = call[c].value
      /\ event.date = d /\ event.old = old /\ event.new = call[c].value
  <2>1. At(c, "commit") /\ SystemAt(d) = {} /\ system' = system \cup {event}
    BY DEF CommitAppend
  <2>2. d \in Dates
    BY <2>1 DEF IInv, At, CreatesHaveInputs, CreatePcs
  <2>3. \A r \in history : r \in Row /\ r.from \in Nat \ {0} /\ r.to \in Nat
    BY RowsAreTyped DEF IInv
  <2>4. \A e \in system : e.date # d
    BY <2>1 DEF SystemAt
  <2>5. \A x \in Dates : x \in Nat \ {0}
    BY DatesAssumption
  <2> QED BY <2>1, <2>2, <2>3, <2>4, <2>5 DEF IInv
<1>2. CASE OpenRows = {}
  <2>1. history = {} /\ o = NoRow /\ history' = {next} /\ system = {}
    BY <1>1, <1>2 DEF CommitAppend, TransactionReadsHold, EventsHaveLinks
  <2>2. old = NoValue
    BY <2>1
  <2> HIDE DEF d, o, closed, next, old, event
  <2> QED BY <1>1, <2>1, <2>2
    DEF ChainIsUnbroken, OpenRows, EventsHaveLinks, TimelineMatchesHistory, Announces
<1>3. CASE OpenRows # {}
  <2>1. /\ o \in history /\ o.to = Open /\ o.from < d
        /\ history' = (history \ {o}) \cup {closed} \cup {next}
        /\ closed.from = o.from /\ closed.to = d /\ closed.value = o.value
    <3>1. o \in OpenRows /\ o.from < d
      BY <1>1, <1>3 DEF CommitAppend, TransactionReadsHold
    <3>2. o \in history /\ o.to = Open /\ o \in Row
      BY <1>1, <3>1 DEF OpenRows
    <3> QED BY <3>1, <3>2 DEF CommitAppend, Row
  <2>2. old = o.value
    BY <1>1, <2>1, Names
  <2>3. \A r \in history : r.from <= o.from /\ (r.to # Open => r.to <= o.from)
    BY <1>1, <2>1, OpenRowIsLast DEF OpenRows
  <2> HIDE DEF d, o, closed, next, old, event
  <2>4. ChainIsUnbroken'
    BY <1>1, <2>1, <2>3 DEF ChainIsUnbroken
  <2>5. OpenRows' # {}
    BY <1>1, <2>1 DEF OpenRows
  <2>6. EventsHaveLinks'
    BY <1>1, <2>1 DEF EventsHaveLinks
  <2>7. TimelineMatchesHistory'
    <3>1. ASSUME NEW r \in history
          PROVE  \E e \in system' : Announces(e, r.from, r.value)'
      <4>1. PICK e \in system : Announces(e, r.from, r.value)
        BY <1>1 DEF TimelineMatchesHistory
      <4>2. r.from # d /\ r.from # Open
        BY <1>1, <2>1, <2>3
      <4>3. \A p \in history : p.to = r.from => p \in history'
        BY <2>1, <4>2
      <4>4. \A p \in history' : p.to = r.from => p \in history
        BY <1>1, <2>1, <4>2
      <4> QED BY <1>1, <4>1, <4>3, <4>4 DEF Announces
    <3>2. PICK e : e = event
      OBVIOUS
    <3>3. PICK n : n = next
      OBVIOUS
    <3>4. Announces(e, n.from, n.value)'
      BY <1>1, <2>1, <2>2, <3>2, <3>3 DEF Announces
    <3> QED BY <1>1, <2>1, <3>1, <3>2, <3>3, <3>4 DEF TimelineMatchesHistory
  <2> QED BY <2>4, <2>5, <2>6, <2>7
<1> QED BY <1>2, <1>3

\* A commit that amends keeps the chain and its events.
LEMMA AmendKeepsChain ==
  ASSUME IInv, NEW c \in Calls, CommitAmend(c)
  PROVE  ChainIsUnbroken' /\ OpenRows' # {} /\ EventsHaveLinks' /\ TimelineMatchesHistory'
<1> DEFINE v == call[c].value
           o == call[c].seen
           amended == [o EXCEPT !.value = v]
           rewritten(e) == [e EXCEPT !.new = IF e.date = o.from THEN v ELSE e.new]
<1>1. /\ TypeOK /\ ChainIsUnbroken /\ EventsHaveLinks /\ TimelineMatchesHistory
      /\ o \in OpenRows /\ o \in history /\ o.to = Open /\ o.from = call[c].date
  <2>1. o \in OpenRows /\ o.from = call[c].date
    BY DEF CommitAmend, IInv, TransactionReadsHold
  <2> QED BY <2>1 DEF IInv, OpenRows
<1>2. /\ \A r \in history : /\ r \in Row /\ r.from \in Nat \ {0} /\ r.to \in Nat
                           /\ r.from <= o.from /\ r.to # r.from
      /\ \A r \in history : r.from = o.from => r = o
  <2>1. ASSUME NEW r \in history
        PROVE  r \in Row /\ r.from \in Nat \ {0} /\ r.to \in Nat /\ r.from <= o.from
    BY <1>1, RowsAreTyped, OpenRowIsLast
  <2> QED BY <1>1, <2>1 DEF ChainIsUnbroken
<1>3. /\ history' = (history \ {o}) \cup {amended}
      /\ amended.from = o.from /\ amended.to = Open /\ amended.value = v
  BY <1>1, <1>2 DEF CommitAmend, Row
<1>4. /\ system' = {rewritten(e) : e \in system}
      /\ \A e \in system : /\ rewritten(e).date = e.date /\ rewritten(e).old = e.old
                           /\ rewritten(e).new = IF e.date = o.from THEN v ELSE e.new
  <2>1. SystemAt(o.from) # {}
    BY <1>1 DEF TimelineMatchesHistory, Announces, SystemAt
  <2>2. system' = {rewritten(e) : e \in system}
    BY <1>1, <2>1 DEF CommitAmend
  <2>3. \A e \in system : e \in SystemEvent
    BY <1>1 DEF TypeOK
  <2> QED BY <2>2, <2>3 DEF SystemEvent
<1> HIDE DEF v, o, amended, rewritten
<1>5. ChainIsUnbroken'
  BY <1>1, <1>2, <1>3 DEF ChainIsUnbroken
<1>6. OpenRows' # {}
  BY <1>3 DEF OpenRows
<1>7. EventsHaveLinks'
  BY <1>1, <1>3, <1>4 DEF EventsHaveLinks
<1>8. TimelineMatchesHistory'
  <2>1. ASSUME NEW r \in history, NEW s \in history', s.from = r.from,
               s.value = IF r = o THEN v ELSE r.value
        PROVE  \E e \in system' : Announces(e, s.from, s.value)'
    <3>1. PICK e \in system : Announces(e, r.from, r.value)
      BY <1>1 DEF TimelineMatchesHistory
    <3>2. r.from # Open
      BY <1>2
    <3>3. \A p \in history : p.to = r.from => p \in history'
      BY <1>1, <1>3, <3>2
    <3>4. \A p \in history' : p.to = r.from => p \in history
      BY <1>3, <3>2
    <3>5. e.date = r.from /\ e.new = r.value
      BY <3>1 DEF Announces
    <3>6. /\ rewritten(e) \in system' /\ rewritten(e).date = r.from
          /\ rewritten(e).old = e.old
          /\ rewritten(e).new = IF r = o THEN v ELSE r.value
      BY <1>2, <1>4, <3>5
    <3>7. PICK f : f = rewritten(e)
      OBVIOUS
    <3>8. Announces(f, s.from, s.value)'
      BY <2>1, <3>1, <3>3, <3>4, <3>6, <3>7 DEF Announces
    <3> QED BY <3>6, <3>7, <3>8
  <2>2. ASSUME NEW s \in history'
        PROVE  \E r \in history : s.from = r.from /\ s.value = IF r = o THEN v ELSE r.value
    BY <1>1, <1>3
  <2> QED BY <2>1, <2>2 DEF TimelineMatchesHistory
<1> QED BY <1>5, <1>6, <1>7, <1>8

-----------------------------------------------------------------------------
(* The calls.                                                              *)

\* What a step does to a call: another call stays as it is, but that a commit
\* may doom it; the call itself keeps its inputs, or begins, or is done.
Kept(k) == call'[k].date = call[k].date /\ call'[k].value = call[k].value
Commits(c) == CommitAppend(c) \/ CommitAmend(c)

LEMMA OthersStay ==
  ASSUME TypeOK, NEW c \in Calls, NEW k \in Calls \ {c},
         CreateStep(c) \/ ManualStep(c) \/ Begin(c) \/ Return(c) \/ Die(c), ~Commits(c)
  PROVE  call'[k] = call[k]
<1>1. call \in [Calls -> CallState]
  BY DEF TypeOK
<1>2. ASSUME NEW r, call' = [call EXCEPT ![c] = r]
      PROVE  call'[k] = call[k]
  BY <1>1, <1>2
<1>3. ASSUME NEW out, End(c, out) PROVE call'[k] = call[k]
  BY <1>2, <1>3 DEF End
<1>4. ASSUME NEW pc, Goto(c, pc) PROVE call'[k] = call[k]
  BY <1>1, <1>4 DEF Goto
<1>5. CASE PreRead(c) \/ ExactMatch(c) \/ SystemAnchor(c) \/ TransitionMatch(c)
  BY <1>2, <1>3, <1>4, <1>5
    DEF PreRead, ExactMatch, SystemAnchor, TransitionMatch, Checked, Conflict
<1>6. CASE MarkSkipped(c) \/ BeginTransaction(c) \/ RollBack(c)
  BY <1>2, <1>3, <1>6 DEF MarkSkipped, BeginTransaction, RollBack, InTransaction
<1>7. CASE ManualStep(c)
  BY <1>2, <1>3, <1>4, <1>7 DEF ManualStep, RecordManual, FindManual, WriteDelete, WriteEdit
<1>8. CASE Begin(c) \/ Return(c) \/ Die(c)
  BY <1>2, <1>8 DEF Begin, BeginCreate, BeginManual, BeginEdit, Return, Die
<1> QED BY <1>5, <1>6, <1>7, <1>8 DEF CreateStep, Commits

LEMMA InputsAreKept ==
  ASSUME TypeOK, CreatesHaveInputs, NEW c \in Calls,
         CreateStep(c) \/ ManualStep(c) \/ Begin(c) \/ Return(c) \/ Die(c)
  PROVE  CreatesHaveInputs'
<1>1. call \in [Calls -> CallState] /\ call[c] \in CallState
  BY DEF TypeOK
<1>2. ASSUME NEW out, End(c, out) PROVE call'[c].pc = "ended"
  BY <1>1, <1>2 DEF End, CallState
<1>3. ASSUME NEW pc, Goto(c, pc) PROVE Kept(c)
  BY <1>1, <1>3 DEF Goto, Kept, CallState
<1>4. /\ "ended" \notin CreatePcs /\ "idle" \notin CreatePcs /\ "record" \notin CreatePcs
      /\ "find" \notin CreatePcs /\ "edit" \notin CreatePcs /\ "delete" \notin CreatePcs
      /\ {"pre_read", "exact", "anchor", "transition", "begin"} \subseteq CreatePcs
  BY DEF CreatePcs
<1>5. \/ call'[c].pc \notin CreatePcs
      \/ call[c].pc \in CreatePcs /\ Kept(c)
      \/ call'[c].date \in Dates /\ call'[c].value \in Values
  <2>1. CASE PreRead(c)
    <3>1. ASSUME NEW v, NEW a, Checked(c, v, a) PROVE Kept(c)
      BY <1>1, <3>1 DEF Checked, Kept, CallState
    <3> QED BY <1>2, <1>4, <2>1, <3>1 DEF PreRead, At
  <2>2. ASSUME NEW m, Conflict(c, m) PROVE Kept(c)
    BY <1>1, <2>2 DEF Conflict, Kept, CallState
  <2>3. CASE ExactMatch(c) \/ SystemAnchor(c) \/ TransitionMatch(c)
    BY <1>3, <1>4, <2>2, <2>3 DEF ExactMatch, SystemAnchor, TransitionMatch, At
  <2>4. CASE MarkSkipped(c) \/ RollBack(c)
    BY <1>2, <1>4, <2>4 DEF MarkSkipped, RollBack
  <2>5. CASE BeginTransaction(c)
    <3>1. ASSUME NEW r, InTransaction(c, r) PROVE Kept(c)
      BY <1>1, <3>1 DEF InTransaction, Kept, CallState
    <3> QED BY <1>2, <1>4, <2>5, <3>1 DEF BeginTransaction, At
  <2>6. CASE Commits(c)
    <3>1. ASSUME NEW out, CommitEnds(c, out) PROVE call'[c].pc = "ended"
      BY <1>1, <3>1 DEF CommitEnds, CallState
    <3> QED BY <1>4, <2>6, <3>1 DEF Commits, CommitAppend, CommitAmend
  <2>7. CASE ManualStep(c)
    <3>1. ASSUME NEW m PROVE [call[c] EXCEPT !.pc = "ended", !.outcome = "created", !.event = m].pc = "ended"
      BY <1>1 DEF CallState
    <3>2. [call[c] EXCEPT !.pc = "find", !.inserted = TRUE].pc = "find"
      BY <1>1 DEF CallState
    <3>3. Goto(c, "find") => call'[c].pc = "find"
      BY <1>1 DEF Goto, CallState
    <3>4. CASE RecordManual(c)
      BY <1>1, <1>4, <3>2, <3>3, <3>4 DEF RecordManual
    <3>5. CASE FindManual(c)
      BY <1>1, <1>2, <1>4, <3>1, <3>5, ZenonT(40) DEF FindManual
    <3> QED BY <1>2, <1>4, <2>7, <3>4, <3>5 DEF ManualStep, WriteDelete, WriteEdit
  <2>8. CASE Begin(c) \/ Return(c) \/ Die(c)
    <3>1. ASSUME NEW d, NEW v, BeginCreate(c, d, v)
          PROVE  call'[c].date = d /\ call'[c].value = v
      BY <1>1, <3>1 DEF BeginCreate, Idle
    <3>2. ASSUME NEW d, NEW o, NEW n, BeginManual(c, d, o, n)
          PROVE  call'[c].pc = "record"
      BY <1>1, <3>2 DEF BeginManual, Idle
    <3>3. ASSUME NEW m, NEW pc, BeginEdit(c, m, pc)
          PROVE  call'[c].pc = pc
      BY <1>1, <3>3 DEF BeginEdit, Idle
    <3>4. ASSUME Return(c) \/ Die(c) PROVE call'[c].pc = "idle"
      BY <1>1, <3>4 DEF Return, Die, Idle
    <3> QED BY <1>4, <2>8, <3>1, <3>2, <3>3, <3>4 DEF Begin
  <2> QED BY <2>1, <2>3, <2>4, <2>5, <2>6, <2>7, <2>8 DEF CreateStep, Commits
<1>6. ASSUME NEW k \in Calls \ {c}
      PROVE  Kept(k) /\ call'[k].pc = call[k].pc
  <2>1. CASE Commits(c)
    <3>1. call[k] \in CallState
      BY <1>1
    <3>2. ASSUME NEW out, CommitEnds(c, out) PROVE Kept(k) /\ call'[k].pc = call[k].pc
      BY <3>1, <3>2 DEF CommitEnds, Kept, CallState
    <3> QED BY <2>1, <3>2 DEF Commits, CommitAppend, CommitAmend
  <2>2. CASE ~Commits(c)
    BY <2>2, OthersStay DEF Kept
  <2> QED BY <2>1, <2>2
<1> QED BY <1>5, <1>6 DEF CreatesHaveInputs, Kept

\* A transaction is entered by BeginTransaction alone.
LEMMA OnlyBeginTransactionCommits ==
  ASSUME TypeOK, NEW c \in Calls,
         CreateStep(c) \/ ManualStep(c) \/ Begin(c) \/ Return(c) \/ Die(c),
         ~BeginTransaction(c), ~CommitAppend(c), ~CommitAmend(c)
  PROVE  call'[c].pc # "commit"
<1>1. call \in [Calls -> CallState] /\ call[c] \in CallState
  BY DEF TypeOK
<1>2. ASSUME NEW out, End(c, out) PROVE call'[c].pc = "ended"
  BY <1>1, <1>2 DEF End, CallState
<1>3. ASSUME NEW pc, Goto(c, pc) PROVE call'[c].pc = pc
  BY <1>1, <1>3 DEF Goto, CallState
<1>4. ASSUME NEW v, NEW a, Checked(c, v, a) PROVE call'[c].pc = "exact"
  BY <1>1, <1>4 DEF Checked, CallState
<1>5. ASSUME NEW m, Conflict(c, m) PROVE call'[c].pc = "mark"
  BY <1>1, <1>5 DEF Conflict, CallState
<1>6. CASE PreRead(c) \/ MarkSkipped(c) \/ RollBack(c)
  BY <1>2, <1>4, <1>6 DEF PreRead, MarkSkipped, RollBack
<1>7. CASE ExactMatch(c) \/ SystemAnchor(c) \/ TransitionMatch(c)
  BY <1>3, <1>5, <1>7 DEF ExactMatch, SystemAnchor, TransitionMatch
<1>8. CASE ManualStep(c)
  <2>1. CASE RecordManual(c)
    <3>1. [call[c] EXCEPT !.pc = "find", !.inserted = TRUE].pc = "find"
      BY <1>1 DEF CallState
    <3> QED BY <1>1, <1>3, <2>1, <3>1 DEF RecordManual
  <2>2. CASE FindManual(c)
    <3>1. ASSUME NEW m
          PROVE  [call[c] EXCEPT !.pc = "ended", !.outcome = "created", !.event = m].pc = "ended"
      BY <1>1 DEF CallState
    <3> QED BY <1>1, <1>2, <2>2, <3>1 DEF FindManual
  <2> QED BY <1>2, <1>8, <2>1, <2>2 DEF ManualStep, WriteDelete, WriteEdit
<1>9. CASE Begin(c) \/ Return(c) \/ Die(c)
  <2>1. ASSUME NEW d, NEW v, BeginCreate(c, d, v) PROVE call'[c].pc = "pre_read"
    BY <1>1, <2>1 DEF BeginCreate, Idle
  <2>2. ASSUME NEW d, NEW o, NEW n, BeginManual(c, d, o, n) PROVE call'[c].pc = "record"
    BY <1>1, <2>2 DEF BeginManual, Idle
  <2>3. ASSUME NEW m, NEW pc, BeginEdit(c, m, pc) PROVE call'[c].pc = pc
    BY <1>1, <2>3 DEF BeginEdit, Idle
  <2>4. ASSUME Return(c) \/ Die(c) PROVE call'[c].pc = "idle"
    BY <1>1, <2>4 DEF Return, Die, Idle
  <2> QED BY <1>9, <2>1, <2>2, <2>3, <2>4 DEF Begin
<1> QED BY <1>6, <1>7, <1>8, <1>9 DEF CreateStep

\* What a transaction has read is still there as long as it is not doomed.
LEMMA ReadsStillHold ==
  ASSUME TypeOK, TransactionReadsHold, NEW c \in Calls,
         CreateStep(c) \/ ManualStep(c) \/ Begin(c) \/ Return(c) \/ Die(c)
  PROVE  TransactionReadsHold'
<1>1. call \in [Calls -> CallState] /\ call[c] \in CallState
  BY DEF TypeOK
<1>2. CASE Commits(c)
  <2>1. ASSUME NEW out, CommitEnds(c, out), NEW k \in Calls
        PROVE  call'[k].pc = "commit" => call'[k].doomed
    <3>1. call[k] \in CallState
      BY <1>1
    <3> QED BY <1>1, <2>1, <3>1 DEF CommitEnds, CallState
  <2>2. \A k \in Calls : call'[k].pc = "commit" => call'[k].doomed
    BY <1>2, <2>1 DEF Commits, CommitAppend, CommitAmend
  <2> QED BY <2>2 DEF TransactionReadsHold, At
<1>3. CASE ~Commits(c)
  <2>1. UNCHANGED history
    BY <1>3 DEF CreateStep, ManualStep, Begin, Return, Die, PreRead, ExactMatch, SystemAnchor,
      TransitionMatch, MarkSkipped, BeginTransaction, RollBack, RecordManual, FindManual,
      WriteDelete, WriteEdit, BeginCreate, BeginManual, BeginEdit, Commits, Tables
  <2>2. \A k \in Calls \ {c} : call'[k] = call[k]
    BY <1>3, OthersStay
  <2>3. CASE BeginTransaction(c)
    <3>1. ASSUME NEW out, End(c, out) PROVE call'[c].pc = "ended"
      BY <1>1, <3>1 DEF End, CallState
    <3>2. ASSUME NEW r, InTransaction(c, r)
          PROVE  /\ call'[c].seen = r /\ call'[c].amends = call[c].amends
                 /\ call'[c].date = call[c].date
      BY <1>1, <3>2 DEF InTransaction, CallState
    <3>3. At(c, "commit")' =>
            IF call'[c].amends
              THEN call'[c].seen \in OpenRows /\ call'[c].seen.from = call'[c].date
              ELSE IF OpenRows = {} THEN call'[c].seen = NoRow
                   ELSE call'[c].seen \in OpenRows /\ call'[c].seen.from < call'[c].date
      BY <2>3, <3>1, <3>2 DEF BeginTransaction, At
    <3> QED BY <2>1, <2>2, <3>3 DEF TransactionReadsHold, At, OpenRows
  <2>4. CASE ~BeginTransaction(c)
    <3>1. call'[c].pc # "commit"
      BY <1>3, <2>4, OnlyBeginTransactionCommits DEF Commits
    <3> QED BY <2>1, <2>2, <3>1 DEF TransactionReadsHold, At, OpenRows
  <2> QED BY <2>3, <2>4
<1> QED BY <1>2, <1>3

-----------------------------------------------------------------------------
(* The theorems.                                                           *)

\* Only commits write rows and system events.
LEMMA OnlyCommitsWrite ==
  ASSUME NEW c \in Calls, CreateStep(c) \/ ManualStep(c) \/ Begin(c) \/ Return(c) \/ Die(c),
         ~Commits(c)
  PROVE  UNCHANGED <<history, system>>
BY DEF CreateStep, ManualStep, Begin, Return, Die, PreRead, ExactMatch, SystemAnchor,
  TransitionMatch, MarkSkipped, BeginTransaction, RollBack, RecordManual, FindManual,
  WriteDelete, WriteEdit, BeginCreate, BeginManual, BeginEdit, Commits, Tables

LEMMA InitIsSound == Init => IInv
<1> SUFFICES ASSUME Init PROVE IInv
  OBVIOUS
<1>1. TypeOK
  <2>1. Idle \in CallState
    BY DEF Idle, CallState, Outcomes
  <2>2. NoManual \in ManualEvent
    BY DEF NoManual, ManualEvent
  <2> QED BY <2>1, <2>2 DEF Init, TypeOK
<1>2. CreatesHaveInputs /\ TransactionReadsHold
  <2>1. \A c \in Calls : call[c].pc = "idle"
    BY DEF Init, Idle
  <2> QED BY <2>1 DEF CreatesHaveInputs, TransactionReadsHold, At, CreatePcs
<1> QED BY <1>1, <1>2 DEF Init, IInv, ChainIsUnbroken, EventsHaveLinks, TimelineMatchesHistory

LEMMA StepIsSound == IInv /\ [Next]_vars => IInv'
<1> SUFFICES ASSUME IInv, [Next]_vars PROVE IInv'
  OBVIOUS
<1>1. CASE UNCHANGED vars
  BY <1>1 DEF vars, IInv, TypeOK, CreatesHaveInputs, ChainIsUnbroken, OpenRows,
    TransactionReadsHold, At, EventsHaveLinks, TimelineMatchesHistory, Announces
<1>2. ASSUME NEW c \in Calls,
             CreateStep(c) \/ ManualStep(c) \/ Begin(c) \/ Return(c) \/ Die(c)
      PROVE  IInv'
  <2>1. TypeOK'
    BY <1>2, ChecksAreTyped, TransactionIsTyped, ManualIsTyped DEF IInv, CreateStep
  <2>2. CreatesHaveInputs' /\ TransactionReadsHold'
    BY <1>2, InputsAreKept, ReadsStillHold DEF IInv
  <2>3. CASE Commits(c)
    BY <2>1, <2>2, <2>3, AppendKeepsChain, AmendKeepsChain DEF IInv, Commits
  <2>4. CASE ~Commits(c)
    <3>1. UNCHANGED <<history, system>>
      BY <1>2, <2>4, OnlyCommitsWrite
    <3> QED BY <2>1, <2>2, <3>1
      DEF IInv, ChainIsUnbroken, OpenRows, EventsHaveLinks, TimelineMatchesHistory, Announces
  <2> QED BY <2>3, <2>4
<1> QED BY <1>1, <1>2 DEF Next

\* Whatever creates, amendments and manual edits interleave, the rows form one
\* chain, each has its system event, and what a transaction has read is the
\* open row unless it is bound to fail.
THEOREM HistoryInvariant == Spec => []IInv
<1>1. Init => IInv
  BY InitIsSound
<1>2. IInv /\ [Next]_vars => IInv'
  BY StepIsSound
<1> QED BY <1>1, <1>2, PTL DEF Spec

\* No interleaving breaks the chain of rows, or makes it say something else
\* than the timeline.
THEOREM ChainAndTimeline == Spec => [](ChainIsUnbroken /\ TimelineMatchesHistory)
<1>1. IInv => ChainIsUnbroken /\ TimelineMatchesHistory
  BY DEF IInv
<1> QED BY <1>1, HistoryInvariant, PTL

\* No step changes a row that has been closed.
THEOREM ClosedRowsStay == Spec => ClosedRowsAreFinal
<1>1. IInv /\ [Next]_vars => [\A r \in history : r.to # Open => r \in history']_vars
  <2> SUFFICES ASSUME IInv, Next, NEW r \in history, r.to # Open
               PROVE  r \in history'
    BY DEF vars
  <2>1. PICK c \in Calls : CreateStep(c) \/ ManualStep(c) \/ Begin(c) \/ Return(c) \/ Die(c)
    BY DEF Next
  <2>2. CASE ~Commits(c)
    BY <2>1, <2>2, OnlyCommitsWrite
  <2>3. CASE Commits(c)
    <3>1. At(c, "commit") /\ ~call[c].doomed
      BY <2>3 DEF Commits, CommitAppend, CommitAmend
    <3>2. call[c].seen # r
      <4>1. call[c].seen = NoRow \/ call[c].seen \in OpenRows
        BY <3>1 DEF IInv, TransactionReadsHold
      <4>2. r \in Row
        BY DEF IInv, TypeOK
      <4> QED BY <4>1, <4>2, Names DEF OpenRows
    <3> QED BY <2>3, <3>2 DEF Commits, CommitAppend, CommitAmend
  <2> QED BY <2>2, <2>3
<1> QED BY <1>1, HistoryInvariant, PTL DEF Spec, ClosedRowsAreFinal

-----------------------------------------------------------------------------
(* The refinement.                                                         *)

\* What the mapping makes of a row and its event.
LEMMA MappedRow ==
  ASSUME IInv, NEW r \in history, NEW e \in system, e.date = r.from
  PROVE  /\ InForce[r.from] = r.value
         /\ Announced[r.from] = <<e.old, e.new>>
<1>1. r.from \in Dates
  BY RowsAreTyped DEF IInv
<1>2. (CHOOSE s \in history : s.from = r.from) = r
  BY DEF IInv, ChainIsUnbroken
<1>3. (CHOOSE f \in system : f.date = r.from) = e
  BY DEF IInv, EventsHaveLinks
<1> QED BY <1>1, <1>2, <1>3 DEF InForce, Announced

\* Days on which no row starts are empty.
LEMMA MappedGap ==
  ASSUME NEW d \in Dates, ~\E r \in history : r.from = d
  PROVE  InForce[d] = NoValue /\ Announced[d] = <<NoValue, NoValue>>
BY DEF InForce, Announced

\* Both, before and after a step.
MapsRows == \A r \in history, e \in system :
  e.date = r.from => InForce[r.from] = r.value /\ Announced[r.from] = <<e.old, e.new>>
MapsGaps == \A d \in Dates :
  (~\E r \in history : r.from = d) => InForce[d] = NoValue /\ Announced[d] = <<NoValue, NoValue>>

LEMMA MapsHold == IInv => MapsRows /\ MapsGaps
  BY MappedRow, MappedGap DEF MapsRows, MapsGaps

LEMMA MapsHoldNext == IInv' => MapsRows' /\ MapsGaps'
  BY MapsHold, PTL

\* The links of the chain are the days on which rows start.
LEMMA MappedStarts ==
  ASSUME IInv
  PROVE  Chain!Starts = {r.from : r \in history}
<1>1. ASSUME NEW r \in history PROVE r.from \in Chain!Starts
  <2>1. PICK e \in system : Announces(e, r.from, r.value)
    BY DEF IInv, TimelineMatchesHistory
  <2>2. InForce[r.from] = r.value
    BY <2>1, MappedRow DEF Announces
  <2> QED BY <2>2, RowsAreTyped, Names DEF Chain!Starts, IInv
<1>2. ASSUME NEW d \in Chain!Starts PROVE \E r \in history : r.from = d
  BY MappedGap DEF Chain!Starts
<1> QED BY <1>1, <1>2 DEF Chain!Starts

\* The value before a day is that of the last row that starts before it.
LEMMA MappedBefore ==
  ASSUME IInv, NEW d \in Dates, NEW p \in history, p.from < d,
         \A r \in history : r.from < d => r.from <= p.from
  PROVE  Chain!Before(d) = p.value
<1>1. \A r \in history : r.from \in Nat
  BY RowsAreTyped DEF IInv
<1>2. p.from \in Chain!Starts
  BY MappedStarts
<1>3. (CHOOSE s \in Chain!Starts : s < d /\ \A t \in Chain!Starts : t < d => t <= s) = p.from
  <2>1. \A t \in Chain!Starts : t \in Nat /\ (t < d => t <= p.from)
    BY <1>1, MappedStarts
  <2>2. \A s \in Chain!Starts :
          (s < d /\ \A t \in Chain!Starts : t < d => t <= s) => s = p.from
    BY <1>1, <1>2, <2>1
  <2> QED BY <1>2, <2>1, <2>2
<1>4. InForce[p.from] = p.value
  <2>1. PICK e \in system : Announces(e, p.from, p.value)
    BY DEF IInv, TimelineMatchesHistory
  <2> QED BY <2>1, MappedRow DEF Announces
<1> QED BY <1>2, <1>3, <1>4 DEF Chain!Before

\* The value that an event says was replaced is the one before its day.
LEMMA MappedOld ==
  ASSUME IInv, NEW r \in history, NEW e \in system, Announces(e, r.from, r.value)
  PROVE  Chain!Before(r.from) = e.old
<1>1. \A s \in history : s.from \in Nat /\ s.to \in Nat
  BY RowsAreTyped DEF IInv
<1>2. CASE \E p \in history : p.to = r.from
  <2>1. PICK p \in history : p.to = r.from /\ p.value = e.old
    BY <1>2 DEF Announces
  <2>2. p.to # Open
    BY <2>1, RowsAreTyped DEF IInv
  <2>3. p.from < r.from
    BY <2>1, <2>2 DEF IInv, ChainIsUnbroken
  <2>4. ASSUME NEW s \in history, s.from < r.from
        PROVE  s.from <= p.from
    <3>1. ~(p.from < s.from)
      BY <1>1, <2>1, <2>4 DEF IInv, ChainIsUnbroken
    <3> QED BY <1>1, <3>1
  <2> QED BY <2>1, <2>3, <2>4, MappedBefore, RowsAreTyped DEF IInv
<1>3. CASE ~\E p \in history : p.to = r.from
  <2>1. ~\E s \in Chain!Starts : s < r.from
    BY <1>3, MappedStarts DEF IInv, ChainIsUnbroken
  <2> QED BY <1>3, <2>1 DEF Chain!Before, Announces
<1> QED BY <1>2, <1>3

\* A commit that appends is an Append of the chain.
LEMMA AppendRefines ==
  ASSUME IInv, IInv', NEW c \in Calls, CommitAppend(c)
  PROVE  Chain!Append(call[c].date, call[c].value)
<1> DEFINE d == call[c].date
           v == call[c].value
           o == call[c].seen
           old == IF o = NoRow THEN NoValue ELSE o.value
           next == [from |-> d, to |-> Open, value |-> v]
           event == [date |-> d, old |-> old, new |-> v]
<1>1. d \in Dates /\ v \in Values /\ d \in Nat
  <2>1. At(c, "commit")
    BY DEF CommitAppend
  <2> QED BY <2>1, Names DEF IInv, At, CreatesHaveInputs, CreatePcs
<1>2. /\ history' = (history \ ({o} \cap history)) \cup {[r EXCEPT !.to = d] : r \in {o} \cap history}
                      \cup {next}
      /\ system' = system \cup {event}
      /\ next.from = d /\ next.value = v /\ event.date = d /\ event.old = old /\ event.new = v
  BY DEF CommitAppend
<1>3. IF OpenRows = {} THEN o = NoRow /\ history = {} ELSE o \in OpenRows /\ o.from < d
  BY DEF CommitAppend, IInv, TransactionReadsHold
<1>4. \A r \in history : r.from < d /\ r.from \in Nat
  <2>1. ASSUME NEW r \in history PROVE r.from < d /\ r.from \in Nat
    <3>1. o \in OpenRows /\ o.from < d
      BY <1>3 DEF OpenRows, IInv
    <3>2. o \in history
      BY <3>1 DEF OpenRows
    <3>3. r.from <= o.from /\ r.from \in Nat /\ o.from \in Nat
      BY <3>1, <3>2, OpenRowIsLast, RowsAreTyped DEF IInv
    <3> QED BY <1>1, <3>1, <3>3
  <2> QED BY <2>1
<1>5. Chain!Before(d) = old
  <2>1. CASE OpenRows = {}
    <3>1. Chain!Starts = {} /\ old = NoValue
      BY <1>3, <2>1, MappedStarts
    <3> QED BY <3>1 DEF Chain!Before
  <2>2. CASE OpenRows # {}
    <3>1. o \in OpenRows /\ o \in history /\ o.from < d
      BY <1>3, <2>2 DEF OpenRows
    <3>2. old = o.value
      BY <3>1, RowsAreTyped, Names DEF IInv
    <3>3. \A r \in history : r.from <= o.from
      BY <3>1, OpenRowIsLast DEF IInv
    <3> QED BY <1>1, <3>1, <3>2, <3>3, MappedBefore
  <2> QED BY <2>1, <2>2
<1>6. ASSUME NEW x \in Dates
      PROVE  /\ InForce'[x] = IF x = d THEN v ELSE InForce[x]
             /\ Announced'[x] = IF x = d THEN <<old, v>> ELSE Announced[x]
  <2>1. MapsRows /\ MapsGaps /\ MapsRows' /\ MapsGaps'
    BY MapsHold, MapsHoldNext
  <2>2. next \in history' /\ event \in system'
    BY <1>2
  <2>3. CASE x = d
    BY <1>2, <2>1, <2>2, <2>3 DEF MapsRows
  <2>4. ASSUME x # d, NEW r \in history, r.from = x
        PROVE  InForce'[x] = InForce[x] /\ Announced'[x] = Announced[x]
    <3>1. PICK e \in system : Announces(e, r.from, r.value)
      BY DEF IInv, TimelineMatchesHistory
    <3>2. e \in system' /\ e.date = r.from
      BY <1>2, <3>1 DEF Announces
    <3>3. PICK s \in history' : s.from = r.from /\ s.value = r.value
      <4>1. r \in Row
        BY RowsAreTyped DEF IInv
      <4>2. [r EXCEPT !.to = d].from = r.from /\ [r EXCEPT !.to = d].value = r.value
        BY <4>1 DEF Row
      <4> QED BY <1>2, <4>2
    <3> QED BY <2>1, <2>4, <3>2, <3>3 DEF MapsRows
  <2>5. CASE x # d /\ ~\E r \in history : r.from = x
    <3>1. ASSUME NEW r \in history' PROVE r.from # x
      <4>1. r = next \/ r \in history \/ \E s \in history : r = [s EXCEPT !.to = d]
        BY <1>2
      <4>2. \A s \in history : [s EXCEPT !.to = d].from = s.from
        BY RowsAreTyped DEF IInv, Row
      <4> QED BY <1>2, <2>5, <4>1, <4>2
    <3>2. ~\E r \in history' : r.from = x
      BY <3>1
    <3> QED BY <2>1, <2>5, <3>2 DEF MapsGaps
  <2> QED BY <2>3, <2>4, <2>5
<1> HIDE DEF old
<1>7. /\ InForce' = [InForce EXCEPT ![d] = v]
      /\ Announced' = [Announced EXCEPT ![d] = <<old, v>>]
  <2>1. InForce = [x \in Dates |-> InForce[x]] /\ Announced = [x \in Dates |-> Announced[x]]
    BY DEF InForce, Announced
  <2>2. InForce' = [x \in Dates |-> InForce'[x]] /\ Announced' = [x \in Dates |-> Announced'[x]]
    BY DEF InForce, Announced
  <2> QED BY <1>1, <1>6, <2>1, <2>2
<1>8. \A s \in Chain!Starts : s < d
  BY <1>4, MappedStarts
<1> QED BY <1>5, <1>7, <1>8 DEF Chain!Append

\* A commit that amends is an AmendLast of the chain.
LEMMA AmendRefines ==
  ASSUME IInv, IInv', NEW c \in Calls, CommitAmend(c)
  PROVE  Chain!AmendLast(call[c].date, call[c].value)
<1> DEFINE d == call[c].date
           v == call[c].value
           o == call[c].seen
           amended == [o EXCEPT !.value = v]
<1>1. /\ o \in OpenRows /\ o \in history /\ o.from = d /\ o \in Row
  BY DEF CommitAmend, IInv, TransactionReadsHold, OpenRows, TypeOK
<1>2. /\ \A r \in history : r.from \in Nat /\ r.from <= d
      /\ \A r \in history : r.from = d => r = o
      /\ d \in Dates /\ d \in Nat
  BY <1>1, OpenRowIsLast, RowsAreTyped DEF IInv, ChainIsUnbroken
<1>3. /\ history' = (history \ {o}) \cup {amended}
      /\ amended.from = d /\ amended.value = v
  BY <1>1 DEF CommitAmend, Row
<1>4. PICK e \in system : Announces(e, o.from, o.value)
  BY <1>1 DEF IInv, TimelineMatchesHistory
<1>5. e.date = d /\ Chain!Before(d) = e.old
  BY <1>1, <1>4, MappedOld DEF Announces
<1>6. /\ \A f \in system : f.date # d => f \in system'
      /\ \E f \in system' : f.date = d /\ f.old = e.old /\ f.new = v
  <2>1. \A f \in system : f \in SystemEvent
    BY DEF IInv, TypeOK
  <2>2. system' = {[f EXCEPT !.new = IF f.date = d THEN v ELSE f.new] : f \in system}
    BY <1>5 DEF CommitAmend, SystemAt
  <2>3. \A f \in system : f.date # d =>
          [f EXCEPT !.new = IF f.date = d THEN v ELSE f.new] = f
    BY <2>1 DEF SystemEvent
  <2>4. LET f == [e EXCEPT !.new = IF e.date = d THEN v ELSE e.new]
        IN f \in system' /\ f.date = d /\ f.old = e.old /\ f.new = v
    BY <1>5, <2>1, <2>2 DEF SystemEvent
  <2> QED BY <2>2, <2>3, <2>4
<1> HIDE DEF amended
<1>7. ASSUME NEW x \in Dates
      PROVE  /\ InForce'[x] = IF x = d THEN v ELSE InForce[x]
             /\ Announced'[x] = IF x = d THEN <<e.old, v>> ELSE Announced[x]
  <2>1. MapsRows /\ MapsGaps /\ MapsRows' /\ MapsGaps'
    BY MapsHold, MapsHoldNext
  <2>2. CASE x = d
    BY <1>3, <1>6, <2>1, <2>2 DEF MapsRows
  <2>3. ASSUME x # d, NEW r \in history, r.from = x
        PROVE  InForce'[x] = InForce[x] /\ Announced'[x] = Announced[x]
    <3>1. PICK f \in system : Announces(f, r.from, r.value)
      BY DEF IInv, TimelineMatchesHistory
    <3>2. f.date = r.from /\ f \in system' /\ r \in history'
      BY <1>1, <1>3, <1>6, <2>3, <3>1 DEF Announces
    <3> QED BY <2>1, <2>3, <3>2 DEF MapsRows
  <2>4. CASE x # d /\ ~\E r \in history : r.from = x
    <3>1. ~\E r \in history' : r.from = x
      BY <1>3, <2>4
    <3> QED BY <2>1, <2>4, <3>1 DEF MapsGaps
  <2> QED BY <2>2, <2>3, <2>4
<1>8. /\ InForce' = [InForce EXCEPT ![d] = v]
      /\ Announced' = [Announced EXCEPT ![d] = <<e.old, v>>]
  <2>1. InForce = [x \in Dates |-> InForce[x]] /\ Announced = [x \in Dates |-> Announced[x]]
    BY DEF InForce, Announced
  <2>2. InForce' = [x \in Dates |-> InForce'[x]] /\ Announced' = [x \in Dates |-> Announced'[x]]
    BY DEF InForce, Announced
  <2> QED BY <1>2, <1>7, <2>1, <2>2
<1>9. Chain!IsLast(d)
  BY <1>1, <1>2, MappedStarts DEF Chain!IsLast
<1> QED BY <1>5, <1>8, <1>9 DEF Chain!AmendLast

\* The tables implement the chain of EffectiveDatedChain: every commit is an
\* append or an amendment of the last link, announced with the value before
\* it, and no other step shows.
THEOREM HistoryImplementsChain == Spec => ImplementsChain
<1>1. Init => Chain!ChainInit
  <2>1. Init => InForce = [d \in Dates |-> NoValue]
    BY DEF Init, InForce
  <2>2. Init => Announced = [d \in Dates |-> <<NoValue, NoValue>>]
    BY DEF Init, Announced
  <2> QED BY <2>1, <2>2 DEF Chain!ChainInit
<1>2. IInv /\ IInv' /\ [Next]_vars => [Chain!ChainNext]_<<InForce, Announced>>
  <2> SUFFICES ASSUME IInv, IInv', [Next]_vars
               PROVE  Chain!ChainNext \/ UNCHANGED <<InForce, Announced>>
    OBVIOUS
  <2>1. UNCHANGED <<history, system>> => UNCHANGED <<InForce, Announced>>
    BY DEF InForce, Announced
  <2>2. CASE UNCHANGED vars
    BY <2>1, <2>2 DEF vars
  <2>3. ASSUME NEW c \in Calls,
               CreateStep(c) \/ ManualStep(c) \/ Begin(c) \/ Return(c) \/ Die(c)
        PROVE  Chain!ChainNext \/ UNCHANGED <<InForce, Announced>>
    <3>1. CASE ~Commits(c)
      BY <2>1, <2>3, <3>1, OnlyCommitsWrite
    <3>2. CASE Commits(c)
      <4>1. At(c, "commit")
        BY <3>2 DEF Commits, CommitAppend, CommitAmend
      <4>2. call[c].date \in Dates /\ call[c].value \in Values
        BY <4>1 DEF IInv, At, CreatesHaveInputs, CreatePcs
      <4> QED BY <3>2, <4>2, AppendRefines, AmendRefines DEF Commits, Chain!ChainNext
    <3> QED BY <3>1, <3>2
  <2> QED BY <2>2, <2>3 DEF Next
<1> QED BY <1>1, <1>2, HistoryInvariant, PTL DEF Spec, ImplementsChain, Chain!ChainSpec
=============================================================================

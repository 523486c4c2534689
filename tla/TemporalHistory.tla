--------------------------- MODULE TemporalHistory ---------------------------
(***************************************************************************)
(* One employee's effective-dated history of one kind (grade, position,    *)
(* department or employment type) and the timeline events of that kind     *)
(* (src/prisma/extensions/temporal-history.extension.ts,                   *)
(* src/modules/timeline/timeline.service.ts and                            *)
(* timeline-event-writer.service.ts).                                      *)
(*                                                                         *)
(* A call is a history create intercepted by the extension, or a create,   *)
(* update or delete of a manual timeline event; its awaits interleave with *)
(* those of the others.  Only the extension's transactions are             *)
(* SERIALIZABLE: of two that overlap, the one that would commit second     *)
(* after a write of the other fails.                                       *)
(***************************************************************************)
EXTENDS Naturals, FiniteSets

CONSTANTS
  Calls,
  Dates,            \* calendar days
  Values,           \* values a history row may have
  ManualIds,        \* bound: the manual events that may ever be created
  Olds, News,       \* bound: what a manual event may say was replaced, and what by
  NoValue, NoEvent, NoRow

Open == 0           \* effectiveTo is null

ASSUME DatesAssumption == Dates \subseteq Nat \ {0}

Row == [from : Dates, to : Dates \cup {Open}, value : Values]
ASSUME ManualValuesAssumption == Olds \subseteq Values \cup {NoValue} /\ News \subseteq Values \cup {NoValue}
ASSUME NullsAssumption == NoValue \notin Values /\ NoEvent \notin ManualIds /\ NoRow \notin Row

SystemEvent == [date : Dates, old : Values \cup {NoValue}, new : Values]
ManualEvent ==
  [state : {"none", "active", "elsewhere", "deleted"}, date : Dates \cup {Open},
   old : Values \cup {NoValue}, new : Values \cup {NoValue}, skipped : BOOLEAN]
NoManual == [state |-> "none", date |-> Open, old |-> NoValue, new |-> NoValue, skipped |-> FALSE]

VARIABLES
  history,   \* the rows of the history table
  system,    \* the system timeline events
  manual,    \* manual[m]: a manual timeline event, soft-deleted ones included
  call       \* call[c]: where c is and what it has read

vars == <<history, system, manual, call>>

CreatePcs == {"pre_read", "exact", "anchor", "transition", "mark", "begin", "commit"}
ManualPcs == {"record", "find", "edit", "delete"}
Outcomes == {"none", "created", "amended", "unchanged", "out_of_order", "suppressed",
             "concurrent", "failed", "refused", "not_found", "done"}

CallState ==
  [pc : {"idle", "ended"} \cup CreatePcs \cup ManualPcs, date : Dates \cup {Open},
   value : Values \cup {NoValue}, old : Values \cup {NoValue}, amends : BOOLEAN,
   pre : Values \cup {NoValue}, seen : Row \cup {NoRow},
   event : ManualIds \cup {NoEvent}, inserted : BOOLEAN, doomed : BOOLEAN, outcome : Outcomes]
Idle ==
  [pc |-> "idle", date |-> Open, value |-> NoValue, old |-> NoValue, amends |-> FALSE,
   pre |-> NoValue, seen |-> NoRow, event |-> NoEvent, inserted |-> FALSE,
   doomed |-> FALSE, outcome |-> "none"]

TypeOK ==
  /\ history \in SUBSET Row
  /\ system \in SUBSET SystemEvent
  /\ manual \in [ManualIds -> ManualEvent]
  /\ call \in [Calls -> CallState]

\* A history create carries a date and a value.
CreatesHaveInputs ==
  \A c \in Calls : call[c].pc \in CreatePcs => call[c].date \in Dates /\ call[c].value \in Values

Init ==
  /\ history = {}
  /\ system = {}
  /\ manual = [m \in ManualIds |-> NoManual]
  /\ call = [c \in Calls |-> Idle]

OpenRows == {r \in history : r.to = Open}
SystemAt(d) == {e \in system : e.date = d}
ActiveManual(d) == {m \in ManualIds : manual[m].state = "active" /\ manual[m].date = d}

At(c, pc) == call[c].pc = pc
Goto(c, pc) == call' = [call EXCEPT ![c].pc = pc]
End(c, outcome) == call' = [call EXCEPT ![c] = [@ EXCEPT !.pc = "ended", !.outcome = outcome]]
Tables == <<history, system, manual>>

-----------------------------------------------------------------------------
(* A history create: checks outside the transaction.                       *)

BeginCreate(c, d, v) ==
  /\ At(c, "idle")
  /\ call' = [call EXCEPT ![c] = [Idle EXCEPT !.pc = "pre_read", !.date = d, !.value = v]]
  /\ UNCHANGED Tables

Checked(c, pre, amends) ==
  call' = [call EXCEPT ![c] = [@ EXCEPT !.pc = "exact", !.pre = pre, !.amends = amends]]

\* The open row decides between refusing, amending and appending.
PreRead(c) ==
  /\ At(c, "pre_read")
  /\ \/ OpenRows = {} /\ Checked(c, NoValue, FALSE)
     \/ \E r \in OpenRows :
          \/ call[c].date < r.from /\ End(c, "out_of_order")
          \/ call[c].date = r.from /\ call[c].value = r.value /\ End(c, "unchanged")
          \/ call[c].date = r.from /\ call[c].value # r.value /\ Checked(c, r.value, TRUE)
          \/ call[c].date > r.from /\ Checked(c, r.value, FALSE)
  /\ UNCHANGED Tables

Conflict(c, m) == call' = [call EXCEPT ![c] = [@ EXCEPT !.pc = "mark", !.event = m]]

\* findManualConflict: a manual event on that date, or, if a system event is
\* there, a manual one elsewhere with the same transition.
ExactMatch(c) ==
  /\ At(c, "exact")
  /\ \/ ActiveManual(call[c].date) = {} /\ Goto(c, "anchor")
     \/ \E m \in ActiveManual(call[c].date) : Conflict(c, m)
  /\ UNCHANGED Tables

SystemAnchor(c) ==
  /\ At(c, "anchor")
  /\ Goto(c, IF SystemAt(call[c].date) = {} THEN "begin" ELSE "transition")
  /\ UNCHANGED Tables

SameTransition(c) ==
  {m \in ManualIds : /\ manual[m].state = "active" /\ manual[m].date # call[c].date
                     /\ manual[m].old = call[c].pre /\ manual[m].new = call[c].value}

TransitionMatch(c) ==
  /\ At(c, "transition")
  /\ \/ SameTransition(c) = {} /\ Goto(c, "begin")
     \/ \E m \in SameTransition(c) : Conflict(c, m)
  /\ UNCHANGED Tables

\* markSystemWriteSkipped updates by id, then the write is suppressed.
MarkSkipped(c) ==
  /\ At(c, "mark")
  /\ manual' = [manual EXCEPT ![call[c].event].skipped = TRUE]
  /\ End(c, "suppressed")
  /\ UNCHANGED <<history, system>>

-----------------------------------------------------------------------------
(* A history create: the SERIALIZABLE transaction.                         *)

InTransaction(c, row) == call' = [call EXCEPT ![c] = [@ EXCEPT !.pc = "commit", !.seen = row]]

\* Mutant: the open row is read again, but its date is not compared again.
BeginTransactionUnordered(c) ==
  /\ At(c, "begin")
  /\ \/ OpenRows = {} /\ InTransaction(c, NoRow)
     \/ \E r \in OpenRows : InTransaction(c, r)
  /\ UNCHANGED Tables

\* The snapshot is taken and the open row read again.
BeginTransaction(c) ==
  /\ At(c, "begin")
  /\ IF call[c].amends
       THEN \E r \in OpenRows :
              \/ call[c].date # r.from /\ End(c, "out_of_order")
              \/ call[c].date = r.from /\ call[c].value = r.value /\ End(c, "unchanged")
              \/ call[c].date = r.from /\ call[c].value # r.value /\ InTransaction(c, r)
       ELSE \/ OpenRows = {} /\ InTransaction(c, NoRow)
            \/ \E r \in OpenRows :
                 \/ call[c].date <= r.from /\ End(c, "out_of_order")
                 \/ call[c].date > r.from /\ InTransaction(c, r)
  /\ UNCHANGED Tables

\* A commit that writes makes the transactions that overlap it fail.
CommitEnds(c, outcome) ==
  call' = [k \in Calls |->
    IF k = c THEN [call[c] EXCEPT !.pc = "ended", !.outcome = outcome]
    ELSE [call[k] EXCEPT !.doomed = @ \/ call[k].pc = "commit"]]

\* Lost to an overlapping transaction, or one of its statements failed (the
\* timeline's unique key included): everything is rolled back.
RollBack(c) ==
  /\ At(c, "commit")
  /\ \/ call[c].doomed /\ End(c, "concurrent")
     \/ End(c, "failed")
  /\ UNCHANGED Tables

\* Mutant: the event says that the value the first read saw was replaced.
CommitAppendPreOld(c) ==
  /\ At(c, "commit") /\ ~call[c].doomed /\ ~call[c].amends
  /\ SystemAt(call[c].date) = {}
  /\ history' = (history \ {call[c].seen})
       \cup {[r EXCEPT !.to = call[c].date] : r \in {call[c].seen} \cap history}
       \cup {[from |-> call[c].date, to |-> Open, value |-> call[c].value]}
  /\ system' = system \cup {[date |-> call[c].date, old |-> call[c].pre, new |-> call[c].value]}
  /\ CommitEnds(c, "created")
  /\ UNCHANGED manual

\* The open row is closed, the new one inserted, the event recorded.
CommitAppend(c) ==
  /\ At(c, "commit") /\ ~call[c].doomed /\ ~call[c].amends
  /\ SystemAt(call[c].date) = {}
  /\ LET closing == {call[c].seen} \cap history
         replaced == IF call[c].seen = NoRow THEN NoValue ELSE call[c].seen.value
     IN /\ history' = (history \ closing)
             \cup {[r EXCEPT !.to = call[c].date] : r \in closing}
             \cup {[from |-> call[c].date, to |-> Open, value |-> call[c].value]}
        /\ system' = system \cup {[date |-> call[c].date, old |-> replaced, new |-> call[c].value]}
  /\ CommitEnds(c, "created")
  /\ UNCHANGED manual

\* Mutant: the amendment leaves the system event as it was.
CommitAmendSilently(c) ==
  /\ At(c, "commit") /\ ~call[c].doomed /\ call[c].amends
  /\ history' = (history \ {call[c].seen}) \cup {[call[c].seen EXCEPT !.value = call[c].value]}
  /\ CommitEnds(c, "amended")
  /\ UNCHANGED <<system, manual>>

\* Mutant: the row is updated by its id at a weaker isolation level.
CommitAmendUnserialized(c) ==
  /\ At(c, "commit") /\ call[c].amends
  /\ history' = {[r EXCEPT !.value = IF r.from = call[c].date THEN call[c].value ELSE @] : r \in history}
  /\ CommitEnds(c, "amended")
  /\ UNCHANGED <<system, manual>>

\* The open row's value is replaced, and so is what the system event of the
\* day says, or an event is recorded if there is none.
CommitAmend(c) ==
  /\ At(c, "commit") /\ ~call[c].doomed /\ call[c].amends
  /\ history' = (history \ {call[c].seen}) \cup {[call[c].seen EXCEPT !.value = call[c].value]}
  /\ system' =
       IF SystemAt(call[c].date) # {}
         THEN {[e EXCEPT !.new = IF e.date = call[c].date THEN call[c].value ELSE @] : e \in system}
         ELSE system \cup {[date |-> call[c].date, old |-> call[c].pre, new |-> call[c].value]}
  /\ CommitEnds(c, "amended")
  /\ UNCHANGED manual

-----------------------------------------------------------------------------
(* Manual events.                                                          *)

\* createManualEvent: an insert whose failure recordTimelineEvent swallows.
BeginManual(c, d, o, n) ==
  /\ At(c, "idle")
  /\ \E m \in ManualIds : manual[m].state = "none"
  /\ call' = [call EXCEPT ![c] =
       [Idle EXCEPT !.pc = "record", !.date = d, !.old = o, !.value = n]]
  /\ UNCHANGED Tables

RecordManual(c) ==
  /\ At(c, "record")
  /\ IF ActiveManual(call[c].date) # {}
       THEN Goto(c, "find") /\ manual' = manual
       ELSE \E m \in ManualIds :
              /\ manual[m].state = "none"
              /\ manual' = [manual EXCEPT ![m] =
                   [state |-> "active", date |-> call[c].date, old |-> call[c].old,
                    new |-> call[c].value, skipped |-> FALSE]]
              /\ call' = [call EXCEPT ![c] = [@ EXCEPT !.pc = "find", !.inserted = TRUE]]
  /\ UNCHANGED <<history, system>>

\* The active event on that date is what the caller is answered.
FindManual(c) ==
  /\ At(c, "find")
  /\ \/ ActiveManual(call[c].date) = {} /\ End(c, "not_found")
     \/ \E m \in ActiveManual(call[c].date) :
          call' = [call EXCEPT ![c] = [@ EXCEPT !.pc = "ended", !.outcome = "created", !.event = m]]
  /\ UNCHANGED Tables

\* updateManualEvent and softDeleteManualEvent read an active event first ...
BeginEdit(c, m, pc) ==
  /\ At(c, "idle") /\ manual[m].state \in {"active", "elsewhere"}
  /\ call' = [call EXCEPT ![c] = [Idle EXCEPT !.pc = pc, !.event = m]]
  /\ UNCHANGED Tables

\* ... and write by id.  An update may move the event to another timeline and
\* back; the unique key refuses it a taken day, but binds no deleted event.
WriteEdit(c, s, d, o, n) ==
  /\ At(c, "edit")
  /\ LET m == call[c].event
         deleted == manual[m].state = "deleted"
         taken == ActiveManual(d) \ {m} # {}
     IN \/ /\ ~deleted /\ (s = "elsewhere" \/ taken)
           /\ End(c, "refused") /\ manual' = manual
        \/ /\ deleted \/ s = "elsewhere" \/ ~taken
           /\ manual' = [manual EXCEPT ![m] =
                [@ EXCEPT !.state = IF deleted THEN "deleted" ELSE s,
                          !.date = d, !.old = o, !.new = n]]
           /\ End(c, "done")
  /\ UNCHANGED <<history, system>>

WriteDelete(c) ==
  /\ At(c, "delete")
  /\ manual' = [manual EXCEPT ![call[c].event].state = "deleted"]
  /\ End(c, "done")
  /\ UNCHANGED <<history, system>>

-----------------------------------------------------------------------------
Return(c) ==
  /\ At(c, "ended")
  /\ call' = [call EXCEPT ![c] = Idle]
  /\ UNCHANGED Tables

\* A lost connection or a crash; an open transaction rolls back.
Die(c) ==
  /\ call[c].pc \notin {"idle", "ended"}
  /\ call' = [call EXCEPT ![c] = Idle]
  /\ UNCHANGED Tables

CreateStep(c) ==
  \/ PreRead(c) \/ ExactMatch(c) \/ SystemAnchor(c) \/ TransitionMatch(c) \/ MarkSkipped(c)
  \/ BeginTransaction(c) \/ RollBack(c) \/ CommitAppend(c) \/ CommitAmend(c)

Begin(c) ==
  \/ \E d \in Dates, v \in Values : BeginCreate(c, d, v)
  \/ \E d \in Dates, o \in Olds, n \in News : BeginManual(c, d, o, n)
  \/ \E m \in ManualIds, pc \in {"edit", "delete"} : BeginEdit(c, m, pc)

ManualStep(c) ==
  \/ RecordManual(c) \/ FindManual(c) \/ WriteDelete(c)
  \/ \E s \in {"active", "elsewhere"}, d \in Dates, o \in Olds, n \in News :
       WriteEdit(c, s, d, o, n)

Next == \E c \in Calls : Begin(c) \/ CreateStep(c) \/ ManualStep(c) \/ Return(c) \/ Die(c)

Spec == Init /\ [][Next]_vars

-----------------------------------------------------------------------------
(* Properties.                                                             *)

\* The rows form one chain: no two start on the same day, each closed row
\* ends where the next one starts, each but the first starts where another
\* one ends, and the last one is open.
ChainIsUnbroken ==
  /\ \A r, s \in history : r.from = s.from => r = s
  /\ \A r, s \in history : r.from < s.from => r.to # Open /\ r.to <= s.from
  /\ \A r \in history : r.to # Open => r.from < r.to /\ \E s \in history : s.from = r.to
  /\ \A r, s \in history : r.from < s.from => \E p \in history : p.to = s.from

\* e says that value took over on day from, and what it replaced.
Announces(e, from, value) ==
  /\ e.date = from /\ e.new = value
  /\ IF \E p \in history : p.to = from
       THEN \E p \in history : p.to = from /\ p.value = e.old
       ELSE e.old = NoValue

\* Every link has its system event: on its day, with its value, and with the
\* value of the link before it, whatever was amended meanwhile.
TimelineMatchesHistory == \A r \in history : \E e \in system : Announces(e, r.from, r.value)

\* What a transaction that may still commit has read is still the open row.
TransactionReadsHold ==
  \A c \in Calls : At(c, "commit") /\ ~call[c].doomed =>
    IF call[c].amends
      THEN call[c].seen \in OpenRows /\ call[c].seen.from = call[c].date
      ELSE IF OpenRows = {} THEN call[c].seen = NoRow
           ELSE call[c].seen \in OpenRows /\ call[c].seen.from < call[c].date

\* No two system events on a day, and none without its link.
EventsHaveLinks ==
  /\ \A e, f \in system : e.date = f.date => e = f
  /\ \A e \in system : \E r \in history : r.from = e.date

\* The inductive invariant: with the chain and its events, a chain that is
\* not empty has an open row, and transactions that may commit have it.
IInv ==
  /\ TypeOK
  /\ CreatesHaveInputs
  /\ ChainIsUnbroken
  /\ history # {} => OpenRows # {}
  /\ TransactionReadsHold
  /\ EventsHaveLinks
  /\ TimelineMatchesHistory

\* A row that has been closed never changes again.
ClosedRowsAreFinal == [][\A r \in history : r.to # Open => r \in history']_vars

\* The tables implement the effective-dated chain: what is in force from a
\* day on is the row's value, what is announced is the day's system event.
InForce == [d \in Dates |->
  IF \E r \in history : r.from = d THEN (CHOOSE r \in history : r.from = d).value ELSE NoValue]
Announced == [d \in Dates |->
  IF \E r \in history : r.from = d
    THEN LET e == CHOOSE f \in system : f.date = d IN <<e.old, e.new>>
    ELSE <<NoValue, NoValue>>]
Chain == INSTANCE EffectiveDatedChain WITH inForce <- InForce, announced <- Announced
ImplementsChain == Chain!ChainSpec
=============================================================================

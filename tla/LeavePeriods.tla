---------------------------- MODULE LeavePeriods ----------------------------
(* The days of a person grouped into periods                               *)
(* (src/modules/integrations/leave-period.mapper.ts).                      *)
EXTENDS Integers, Sequences

CONSTANTS
  LeaveKinds,   \* a type of leave and its approval state
  LastDate      \* the dates of a report are 1..LastDate

NoLeave == "no leave"     \* a date without an entry, or one of another status

ASSUME LeavePeriodsAssumption == LastDate \in Nat /\ NoLeave \notin LeaveKinds

LeaveDays(days) == {d \in 1..LastDate : days[d] # NoLeave}

\* Mutant: days of one kind are joined across a gap.
ExtendAcross(periods, day) ==
  IF periods = << >> THEN <<day>>
  ELSE IF periods[Len(periods)].kind = day.kind
       THEN [periods EXCEPT ![Len(periods)].to = day.to] ELSE Append(periods, day)

\* One more leave day, in the order of the dates: it prolongs the period at hand
\* or begins the next one.
Extend(periods, day) ==
  IF periods = << >> THEN <<day>>
  ELSE LET last == periods[Len(periods)]
       IN IF last.to + 1 = day.from /\ last.kind = day.kind
          THEN [periods EXCEPT ![Len(periods)].to = day.to]
          ELSE Append(periods, day)

\* The leave days one by one, in the order of their dates.
GroupLeavePeriods(days) ==
  LET upTo[d \in 0..LastDate] ==
        IF d = 0 THEN << >>
        ELSE IF d \in LeaveDays(days)
             THEN Extend(upTo[d - 1], [from |-> d, to |-> d, kind |-> days[d]])
             ELSE upTo[d - 1]
  IN upTo[LastDate]

\* The longest runs of days of one kind.
Runs(days) ==
  {r \in [from : 1..LastDate, to : 1..LastDate, kind : LeaveKinds] :
     /\ r.from <= r.to /\ \A d \in r.from..r.to : days[d] = r.kind
     /\ r.from - 1 \in LeaveDays(days) => days[r.from - 1] # r.kind
     /\ r.to + 1 \in LeaveDays(days) => days[r.to + 1] # r.kind}

WellGrouped ==
  \A days \in [1..LastDate -> LeaveKinds \cup {NoLeave}] :
     LET periods == GroupLeavePeriods(days)
     IN /\ {periods[i] : i \in DOMAIN periods} = Runs(days)
        /\ \A i, j \in DOMAIN periods : i < j => periods[i].to < periods[j].from
=============================================================================

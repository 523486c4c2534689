------------------------------ MODULE LeavesSync ------------------------------
(***************************************************************************)
(* Leaves read from TimeTracker through two caches, one for single          *)
(* employees and one for pages of them                                     *)
(* (src/modules/integrations/leaves-sync.service.ts).  The days of a person *)
(* are the moment TimeTracker reported them at, Unlisted if the report left *)
(* the person out.                                                         *)
(***************************************************************************)
EXTENDS Timetracker, Sequences

CONSTANTS
  Ttl,          \* how long an entry of a cache is fresh
  Unlisted,
  KnownAtStart  \* the persons whom a fresh entry may hold at the beginning

VARIABLES
  monthCache,   \* monthCache[<<m, p>>]: at is fetchedAt, 0 if there is no entry
  batchCache,   \* batchCache[m]: at, and which Map object it holds
  maps          \* maps[x]: what each Map object holds now

leaveVars == <<monthCache, batchCache, maps>>

\* A load that replaces an entry makes a Map object of its own.
MapIds == (Calls \cup {Nobody}) \X Months
NoEntry == [at |-> 0, days |-> Unlisted]
Fresh(entry, t) == entry.at # 0 /\ t - entry.at < Ttl
DaysNow(m, p) == IF world.report[m][p] # Nobody THEN now ELSE Unlisted

EmptyMap == [p \in People |-> Unlisted]
NoMonths == [mp \in Months \X People |-> NoEntry]
NoBatches == [m \in Months |-> [at |-> 0, map |-> <<Nobody, m>>]]

LeavesInit ==
  /\ monthCache = NoMonths
  /\ \E known \in KnownAtStart :
       /\ batchCache = IF known = {} THEN NoBatches ELSE [m \in Months |-> [at |-> now, map |-> <<Nobody, m>>]]
       /\ maps = [x \in MapIds |-> IF x[1] = Nobody THEN [p \in People |-> IF p \in known THEN now ELSE Unlisted]
                                  ELSE EmptyMap]

-----------------------------------------------------------------------------
(* One employee: the months one after the other.                           *)

\* The viewer may lack the section; an employee without a person has no leaves.
BeginLeaves(c) ==
  /\ At(c, "idle")
  /\ \E e \in Employees :
       \/ Become(c, [pc |-> "refused"])
       \/ PersonsOf(identity, e) = {} /\ Become(c, [pc |-> "done"])
       \/ \E p \in PersonsOf(identity, e) :
            Become(c, [pc |-> "leaves", person |-> p, since |-> now, month |-> 1,
                       days |-> << >>, stale |-> FALSE, at |-> 0, old |-> NoEntry])
  /\ Reads /\ UNCHANGED leaveVars

Take(c, days, stale) ==
  Become(c, [call[c] EXCEPT !.pc = "leaves", !.month = @ + 1, !.days = Append(@, days),
                            !.stale = @ \/ stale, !.at = 0, !.old = NoEntry])

EntryFor(c) == monthCache[<<call[c].month, call[c].person>>]

TakeCached(c) ==
  /\ At(c, "leaves") /\ call[c].month \in Months /\ Fresh(EntryFor(c), now)
  /\ Take(c, EntryFor(c).days, FALSE)
  /\ Reads /\ UNCHANGED leaveVars

AskMonth(c) ==
  /\ At(c, "leaves") /\ call[c].month \in Months /\ ~Fresh(EntryFor(c), now)
  /\ Become(c, [call[c] EXCEPT !.pc = "askMonth", !.at = now, !.old = EntryFor(c)])
  /\ Reads /\ UNCHANGED leaveVars

MonthArrives(c) ==
  /\ At(c, "askMonth")
  /\ LET days == DaysNow(call[c].month, call[c].person)
     IN /\ monthCache' = [monthCache EXCEPT ![<<call[c].month, call[c].person>>] =
                            [at |-> call[c].at, days |-> days]]
        /\ Take(c, days, FALSE)
  /\ Reads /\ UNCHANGED <<batchCache, maps>>

\* If TimeTracker fails an old entry is better than none, and marked as stale; any
\* other failure is the answer.
MonthFails(c) ==
  /\ At(c, "askMonth")
  /\ \/ call[c].old.at # 0 /\ Take(c, call[c].old.days, TRUE)
     \/ Become(c, [pc |-> "refused"])
  /\ Reads /\ UNCHANGED leaveVars

\* The days of all months are the answer.
AnswerLeaves(c) ==
  /\ At(c, "leaves") /\ call[c].month \notin Months
  /\ Become(c, [pc |-> "done"])
  /\ Reads /\ UNCHANGED leaveVars

-----------------------------------------------------------------------------
(* A page of employees: all months at once.                                *)

BeginPage(c) ==
  /\ At(c, "idle")
  /\ \E page \in (SUBSET Employees) \ {{}} : Become(c, [pc |-> "page", employees |-> page])
  /\ Reads /\ UNCHANGED leaveVars

\* loadBatchMonthDays up to its await: who is not in a fresh entry is asked for,
\* into the Map object of that entry; otherwise everybody, into a new one.
LoadOf(c, m, wanted) ==
  LET entry == batchCache[m]
      fresh == Fresh(entry, now)
      missing == IF fresh THEN {p \in wanted : maps[entry.map][p] = Unlisted} ELSE wanted
  IN [state |-> IF missing = {} THEN "done" ELSE "asking",
      asked |-> missing, stale |-> FALSE, old |-> entry,
      at |-> IF fresh THEN entry.at ELSE now,
      map |-> IF fresh THEN entry.map ELSE <<c, m>>]

\* One person of every employee who has any.
OneOfEach(employees, wanted) ==
  \E person \in [employees -> People \cup {Nobody}] :
    /\ \A e \in employees : person[e] \in (IF PersonsOf(identity, e) = {} THEN {Nobody} ELSE PersonsOf(identity, e))
    /\ wanted = {person[e] : e \in employees} \ {Nobody}

\* The employees' persons are known; everything is asked for in one go.
LoadPage(c) ==
  /\ At(c, "page")
  /\ \E wanted \in SUBSET People :
       /\ OneOfEach(call[c].employees, wanted)
       /\ Become(c, IF wanted = {} THEN [pc |-> "done"]
                    ELSE [pc |-> "loading", wanted |-> wanted, since |-> now,
                          loads |-> [m \in Months |-> LoadOf(c, m, wanted)]])
  /\ Reads /\ UNCHANGED leaveVars

\* Loads go on when the page has been answered already.
Loading(c, m) == "loads" \in DOMAIN call[c] /\ call[c].loads[m].state = "asking"
Load(c, m) == call[c].loads[m]
Fill(map, asked, m) == [p \in People |-> IF p \in asked /\ DaysNow(m, p) # Unlisted THEN DaysNow(m, p) ELSE map[p]]

PageArrives(c) ==
  /\ \E m \in Months :
       /\ Loading(c, m)
       /\ maps' = [maps EXCEPT ![Load(c, m).map] = Fill(@, Load(c, m).asked, m)]
       /\ batchCache' = [batchCache EXCEPT ![m] = [at |-> Load(c, m).at, map |-> Load(c, m).map]]
       /\ call' = [call EXCEPT ![c].loads[m].state = "done"]
  /\ Reads /\ UNCHANGED monthCache

\* Mutant: an old answer looks like a new one.
PageFailsUnmarked(c) ==
  /\ \E m \in Months, old \in BOOLEAN :
       /\ Loading(c, m) /\ (old => Load(c, m).old.at # 0)
       /\ call' = [call EXCEPT ![c].loads[m] =
                      IF old THEN [@ EXCEPT !.state = "done", !.map = Load(c, m).old.map]
                      ELSE [@ EXCEPT !.state = "failed"]]
  /\ Reads /\ UNCHANGED leaveVars

\* If TimeTracker fails, what the cache held when the load began is answered as
\* stale; any other failure is the answer.
PageFails(c) ==
  /\ \E m \in Months, old \in BOOLEAN :
       /\ Loading(c, m) /\ (old => Load(c, m).old.at # 0)
       /\ call' = [call EXCEPT ![c].loads[m] =
                      IF old THEN [@ EXCEPT !.state = "done", !.map = Load(c, m).old.map, !.stale = TRUE]
                      ELSE [@ EXCEPT !.state = "failed"]]
  /\ Reads /\ UNCHANGED leaveVars

\* What the maps of its loads hold when the last of them is there.
PageDays(c) == [mp \in Months \X call[c].wanted |-> maps[Load(c, mp[1]).map][mp[2]]]
PageIsStale(c) == \E m \in Months : Load(c, m).stale

\* Promise.all: one load without an answer is enough to give up.
AnswerPage(c) ==
  /\ At(c, "loading")
  /\ \/ (\A m \in Months : Load(c, m).state = "done") /\ Become(c, [pc |-> "done"])
     \/ (\E m \in Months : Load(c, m).state = "failed") /\ Goto(c, "refused")
  /\ Reads /\ UNCHANGED leaveVars

ServeLeaves(c) ==
  \/ TakeCached(c) \/ AskMonth(c) \/ MonthArrives(c) \/ MonthFails(c) \/ AnswerLeaves(c)
  \/ LoadPage(c) \/ PageArrives(c) \/ PageFails(c) \/ AnswerPage(c)

-----------------------------------------------------------------------------
(* Properties                                                              *)

\* The report of month m had days d for person p at some moment after t - Ttl.
ReportedSince(m, p, d, t) ==
  IF d = Unlisted
  THEN \E w \in Worlds : HeldSince(w, t - Ttl + 1) /\ w.report[m][p] = Nobody
  ELSE d > t - Ttl

\* An answer that is not marked as stale says of every month what TimeTracker
\* said less than Ttl before the question, a person without leaves included,
\* although loads extend and replace one entry, and the Map object in it, in
\* any order (getLeavesForEmployee, getLeavesForEmployees).
UnmarkedAnswersAreFresh ==
  [][\A c \in Calls : call'[c].pc = "done" =>
       /\ At(c, "leaves") /\ ~call[c].stale =>
            \A m \in Months : ReportedSince(m, call[c].person, call[c].days[m], call[c].since)
       /\ At(c, "loading") /\ ~PageIsStale(c) =>
            \A mp \in DOMAIN PageDays(c) : ReportedSince(mp[1], mp[2], PageDays(c)[mp], call[c].since)
    ]_<<leaveVars, requestVars, outside>>
=============================================================================

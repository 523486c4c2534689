----------------------------- MODULE Mentorship -----------------------------
(***************************************************************************)
(* Mentorship (src/modules/mentorship): who is open to mentoring, the      *)
(* pairs, and the mentorship section of a profile.                         *)
(*                                                                         *)
(* A call is one HTTP request whose author has passed the permission check *)
(* of the controller.  A transaction runs at READ COMMITTED: what it has   *)
(* written is visible at its commit, and until then the row it updated and *)
(* the unique key it inserted make other writers wait.                     *)
(***************************************************************************)
EXTENDS Naturals, FiniteSets

CONSTANTS
  Calls,       \* requests, each served once
  Employees,
  Pairs,       \* rows of mentorship_pairs, there or to come
  Stored,      \* what the table may hold at the beginning
  Scopes,      \* what section S6 may show to the author of a request
  NoOne, NoPair, NoCall

PairRow == [status : {"none", "active", "ended"}, mentor : Employees \cup {NoOne},
            mentee : Employees \cup {NoOne}, closedBy : Calls \cup {NoCall}]
NoRow == [status |-> "none", mentor |-> NoOne, mentee |-> NoOne, closedBy |-> NoCall]

\* The partial unique index mentorship_pairs_active_mentee_key.
ActiveMenteeKey(table) ==
  \A p, q \in Pairs :
    table[p].status = "active" /\ table[q].status = "active" /\ table[p].mentee = table[q].mentee => p = q

\* Two employees, and nobody's feedback before the end.
RowFits(row) ==
  /\ row.status # "none" => row.mentor \in Employees /\ row.mentee \in Employees /\ row.mentor # row.mentee
  /\ row.status # "ended" => row.closedBy = NoCall

ASSUME MentorshipAssumption ==
  /\ NoOne \notin Employees /\ NoPair \notin Pairs /\ NoCall \notin Calls
  /\ Scopes \subseteq SUBSET Employees
  /\ \A table \in Stored :
       table \in [Pairs -> PairRow] /\ ActiveMenteeKey(table) /\ \A p \in Pairs : RowFits(table[p])

VARIABLES
  pair,       \* the table mentorship_pairs
  willing,    \* employees.openToMentoring
  timeline,   \* timeline[p]: entries of p in the timelines of its people
  call,       \* where each request is and what it has read
  watched     \* what has happened to the pairs of a section since it was asked for

vars == <<pair, willing, timeline, call, watched>>

Statuses == {"mentor", "openToMentoring", "none"}
Entries == Employees \X {"mentorshipStart", "mentorshipEnd"}
Pcs == {"idle", "consent", "check", "insert", "commitPair", "endScope", "close", "commitEnd",
        "derive", "deriveFlag", "flag", "mentorPair", "mentor", "mentees", "status", "history",
        "done", "refused"}
CallState == [pc : Pcs, mentor : Employees \cup {NoOne}, mentee : Employees \cup {NoOne},
              pair : Pairs \cup {NoPair}, open : BOOLEAN, mentorPair : Pairs \cup {NoPair},
              myMentor : Employees \cup {NoOne}, mentees : SUBSET Pairs,
              isMentor : BOOLEAN, status : Statuses, history : SUBSET Pairs,
              listed : SUBSET Employees]
Idle == [pc |-> "idle", mentor |-> NoOne, mentee |-> NoOne, pair |-> NoPair, open |-> FALSE,
         mentorPair |-> NoPair, myMentor |-> NoOne, mentees |-> {}, isMentor |-> FALSE,
         status |-> "none", history |-> {}, listed |-> {}]

StartOf(row) == {row.mentor, row.mentee} \X {"mentorshipStart"}
EndOf(row) == {row.mentor, row.mentee} \X {"mentorshipEnd"}
EntriesOf(row) ==
  CASE row.status = "none" -> {}
    [] row.status = "active" -> StartOf(row)
    [] row.status = "ended" -> StartOf(row) \cup EndOf(row)

Init ==
  /\ pair \in Stored
  /\ willing \in [Employees -> BOOLEAN]
  /\ timeline = [p \in Pairs |-> EntriesOf(pair[p])]
  /\ call = [c \in Calls |-> Idle]
  /\ watched = [c \in Calls |-> [before |-> {}, steady |-> TRUE]]

Goto(c, pc) == call' = [call EXCEPT ![c].pc = pc]
Tables == <<pair, willing, timeline>>

\* A commit disturbs every section that is being read.
Disturb == watched' = [c \in Calls |-> [watched[c] EXCEPT !.steady = FALSE]]

-----------------------------------------------------------------------------
(* Assigning a mentor.                                                     *)

\* createPair: the mentee must be among the S6 subjects of the assigner.
BeginPair(c) ==
  /\ call[c].pc = "idle"
  /\ \E mentor, mentee \in Employees, scope \in Scopes :
       call' = [call EXCEPT ![c].mentor = mentor, ![c].mentee = mentee,
                            ![c].pc = IF mentee \in scope THEN "consent" ELSE "refused"]
  /\ UNCHANGED <<Tables, watched>>

\* The transaction begins by reading the mentor; the row is not locked.
AskConsent(c) ==
  /\ call[c].pc = "consent"
  /\ Goto(c, IF willing[call[c].mentor] /\ call[c].mentor # call[c].mentee THEN "check" ELSE "refused")
  /\ UNCHANGED <<Tables, watched>>

\* createActivePair looks for an active pair of the mentee, then inserts.
CheckMentee(c) ==
  /\ call[c].pc = "check"
  /\ Goto(c, IF \E p \in Pairs : pair[p].status = "active" /\ pair[p].mentee = call[c].mentee
               THEN "refused" ELSE "insert")
  /\ UNCHANGED <<Tables, watched>>

\* An id no row has, and no open transaction has inserted.
Fresh(p) ==
  pair[p].status = "none" /\ \A d \in Calls : call[d].pc = "commitPair" => call[d].pair # p

\* Mutant: the waiting insert and the commit wait for one another.
KeyHeldForever(c, mentee) ==
  \E d \in Calls \ {c} : call[d].mentee = mentee /\ call[d].pc \in {"insert", "commitPair"}

\* An uncommitted row of the mentee, or an uncommitted end of the mentee's
\* pair, holds the index entry the insert needs.
KeyHeld(c, mentee) ==
  \E d \in Calls \ {c} :
    \/ call[d].pc = "commitPair" /\ call[d].mentee = mentee
    \/ call[d].pc = "commitEnd" /\ pair[call[d].pair].mentee = mentee

\* Mutant: the insert is not held back by the index.
InsertUnchecked(c) ==
  /\ call[c].pc = "insert"
  /\ \E p \in Pairs :
       /\ Fresh(p)
       /\ call' = [call EXCEPT ![c].pair = p, ![c].pc = "commitPair"]
  /\ UNCHANGED <<Tables, watched>>

InsertPair(c) ==
  /\ call[c].pc = "insert" /\ ~KeyHeld(c, call[c].mentee)
  /\ IF \E p \in Pairs : pair[p].status = "active" /\ pair[p].mentee = call[c].mentee
     THEN Goto(c, "refused")
     ELSE \E p \in Pairs :
            /\ Fresh(p)
            /\ call' = [call EXCEPT ![c].pair = p, ![c].pc = "commitPair"]
  /\ UNCHANGED <<Tables, watched>>

\* Mutant: the entry of the mentee is written outside the transaction and lost.
CommitPairHalf(c) ==
  /\ call[c].pc = "commitPair"
  /\ LET row == [status |-> "active", mentor |-> call[c].mentor, mentee |-> call[c].mentee,
                 closedBy |-> NoCall]
     IN /\ pair' = [pair EXCEPT ![call[c].pair] = row]
        /\ timeline' = [timeline EXCEPT ![call[c].pair] = {<<row.mentor, "mentorshipStart">>}]
  /\ Goto(c, "derive") /\ Disturb /\ UNCHANGED willing

\* The row and both timeline entries become visible together.
CommitPair(c) ==
  /\ call[c].pc = "commitPair"
  /\ LET row == [status |-> "active", mentor |-> call[c].mentor, mentee |-> call[c].mentee,
                 closedBy |-> NoCall]
     IN /\ pair' = [pair EXCEPT ![call[c].pair] = row]
        /\ timeline' = [timeline EXCEPT ![call[c].pair] = StartOf(row)]
  /\ Goto(c, "derive") /\ Disturb /\ UNCHANGED willing

-----------------------------------------------------------------------------
(* Ending a pair.                                                          *)

\* endPair: the closing text is there, and the subjects are read; then the pair.
BeginEnd(c) ==
  /\ call[c].pc = "idle"
  /\ \E p \in Pairs, scope \in Scopes :
       call' = [call EXCEPT ![c].pair = p, ![c].mentor = pair[p].mentor,
         ![c].pc = IF pair[p].status # "none" /\ {pair[p].mentor, pair[p].mentee} \cap scope # {}
                     THEN "close" ELSE "refused"]
  /\ UNCHANGED <<Tables, watched>>

\* endActivePair updates the row where endedAt is null, waiting for its lock.
ClosePair(c) ==
  /\ call[c].pc = "close"
  /\ \A d \in Calls : ~(call[d].pc = "commitEnd" /\ call[d].pair = call[c].pair)
  /\ Goto(c, IF pair[call[c].pair].status = "active" THEN "commitEnd" ELSE "refused")
  /\ UNCHANGED <<Tables, watched>>

CommitEnd(c) ==
  /\ call[c].pc = "commitEnd"
  /\ pair' = [pair EXCEPT ![call[c].pair].status = "ended", ![call[c].pair].closedBy = c]
  /\ timeline' = [timeline EXCEPT ![call[c].pair] = @ \cup EndOf(pair[call[c].pair])]
  /\ Goto(c, "derive") /\ Disturb /\ UNCHANGED willing

\* A timeline write or the commit fails: the transaction is rolled back.
Fail(c) ==
  /\ call[c].pc \in {"commitPair", "commitEnd"}
  /\ call' = [call EXCEPT ![c].pc = "refused", ![c].pair = NoPair]
  /\ UNCHANGED <<Tables, watched>>

-----------------------------------------------------------------------------
(* What a request tells: the status of a mentor, and section S13.          *)

ActiveAsMentor(e) == \E p \in Pairs : pair[p].status = "active" /\ pair[p].mentor = e

ComputeMentorStatus(open, active) ==
  IF active THEN "mentor" ELSE IF open THEN "openToMentoring" ELSE "none"

\* deriveMentorStatus, after the transaction: the pairs, then the flag.
DeriveMentorStatus(c) ==
  \/ /\ call[c].pc = "derive"
     /\ call' = [call EXCEPT ![c].isMentor = ActiveAsMentor(call[c].mentor), ![c].pc = "deriveFlag"]
     /\ UNCHANGED <<Tables, watched>>
  \/ /\ call[c].pc = "deriveFlag"
     /\ call' = [call EXCEPT ![c].pc = "done",
                   ![c].status = ComputeMentorStatus(willing[call[c].mentor], call[c].isMentor)]
     /\ UNCHANGED <<Tables, watched>>

PairsOf(e) == {p \in Pairs : pair[p].status # "none" /\ e \in {pair[p].mentor, pair[p].mentee}}

\* getSection: the subject's row; from here on the section is watched.
BeginSection(c) ==
  /\ call[c].pc = "idle"
  /\ \E e \in Employees :
       /\ call' = [call EXCEPT ![c].mentor = e, ![c].open = willing[e], ![c].pc = "mentorPair"]
       /\ watched' = [watched EXCEPT ![c] = [before |-> PairsOf(e), steady |-> TRUE]]
  /\ UNCHANGED Tables

\* patchOpenToMentoring writes the owner's flag, then builds the section.
UpdateOpenToMentoring(c) ==
  /\ call[c].pc = "idle"
  /\ \E e \in Employees, open \in BOOLEAN :
       /\ willing' = [willing EXCEPT ![e] = open]
       /\ call' = [call EXCEPT ![c].mentor = e, ![c].pc = "flag"]
  /\ Disturb /\ UNCHANGED <<pair, timeline>>

ReadFlag(c) ==
  /\ call[c].pc = "flag"
  /\ call' = [call EXCEPT ![c].open = willing[call[c].mentor], ![c].pc = "mentorPair"]
  /\ watched' = [watched EXCEPT ![c] = [before |-> PairsOf(call[c].mentor), steady |-> TRUE]]
  /\ UNCHANGED Tables

\* An active pair of the mentee e, if there is one.
MentorPairOf(e) ==
  LET found == {p \in Pairs : pair[p].status = "active" /\ pair[p].mentee = e}
  IN IF found = {} THEN NoPair ELSE CHOOSE p \in found : TRUE

\* The statements of buildSection, each with a snapshot of its own.
ReadMentorPair(c) ==
  /\ call[c].pc = "mentorPair"
  /\ call' = [call EXCEPT ![c].mentorPair = MentorPairOf(call[c].mentor), ![c].pc = "mentor"]
  /\ UNCHANGED <<Tables, watched>>

ReadMentor(c) ==
  /\ call[c].pc = "mentor"
  /\ LET p == MentorPairOf(call[c].mentor)
     IN call' = [call EXCEPT ![c].myMentor = IF p = NoPair THEN NoOne ELSE pair[p].mentor,
                             ![c].pc = "mentees"]
  /\ UNCHANGED <<Tables, watched>>

\* Part of a mutant: the history first, the active pairs last.
ReadMenteesLast(c) ==
  /\ call[c].pc \in {"mentees", "history"}
  /\ LET mine == {p \in PairsOf(call[c].mentor) : pair[p].status = "ended"}
         active == {p \in Pairs : pair[p].status = "active" /\ pair[p].mentor = call[c].mentor}
     IN IF call[c].pc = "mentees"
        THEN call' = [call EXCEPT ![c].history = mine, ![c].pc = "status"]
        ELSE call' = [call EXCEPT ![c].mentees = active, ![c].pc = "done"]
  /\ UNCHANGED <<Tables, watched>>

ReadMentees(c) ==
  /\ call[c].pc = "mentees"
  /\ call' = [call EXCEPT ![c].pc = "status",
       ![c].mentees = {p \in Pairs : pair[p].status = "active" /\ pair[p].mentor = call[c].mentor}]
  /\ UNCHANGED <<Tables, watched>>

ReadStatus(c) ==
  /\ call[c].pc = "status"
  /\ call' = [call EXCEPT ![c].pc = "history",
       ![c].status = ComputeMentorStatus(call[c].open, ActiveAsMentor(call[c].mentor))]
  /\ UNCHANGED <<Tables, watched>>

LoadPairHistory(c) ==
  /\ call[c].pc = "history"
  /\ call' = [call EXCEPT ![c].pc = "done",
       ![c].history = {p \in PairsOf(call[c].mentor) : pair[p].status = "ended"}]
  /\ UNCHANGED <<Tables, watched>>

-----------------------------------------------------------------------------
(* Lists for those who assign mentors: whom they may choose from.          *)

ListAssignableMentees(c) ==
  /\ call[c].pc = "idle"
  /\ \E scope \in Scopes :
       call' = [call EXCEPT ![c].pc = "done",
         ![c].listed = {e \in scope : \A p \in Pairs : ~(pair[p].status = "active" /\ pair[p].mentee = e)}]
  /\ UNCHANGED <<Tables, watched>>

ListWillingMentors(c) ==
  /\ call[c].pc = "idle"
  /\ call' = [call EXCEPT ![c].pc = "done", ![c].listed = {e \in Employees : willing[e]}]
  /\ UNCHANGED <<Tables, watched>>

ListPairs(c) ==
  /\ call[c].pc = "idle"
  /\ \E scope \in Scopes, wanted \in {{"active"}, {"ended"}, {"active", "ended"}} :
       call' = [call EXCEPT ![c].pc = "done",
         ![c].history = {p \in UNION {PairsOf(e) : e \in scope} : pair[p].status \in wanted}]
  /\ UNCHANGED <<Tables, watched>>

-----------------------------------------------------------------------------
Begin(c) == ListAssignableMentees(c) \/ ListWillingMentors(c) \/ ListPairs(c)
            \/ BeginPair(c) \/ BeginEnd(c) \/ BeginSection(c) \/ UpdateOpenToMentoring(c)

Transact(c) == AskConsent(c) \/ CheckMentee(c) \/ InsertPair(c) \/ CommitPair(c)
               \/ ClosePair(c) \/ CommitEnd(c) \/ Fail(c) \/ DeriveMentorStatus(c)

\* Mutant: the history is loaded before the active pairs.
BuildSectionHistoryFirst(c) == ReadFlag(c) \/ ReadMentorPair(c) \/ ReadMentor(c)
                               \/ ReadMenteesLast(c) \/ ReadStatus(c)

BuildSection(c) == ReadFlag(c) \/ ReadMentorPair(c) \/ ReadMentor(c) \/ ReadMentees(c)
                   \/ ReadStatus(c) \/ LoadPairHistory(c)

Next == \E c \in Calls : Begin(c) \/ Transact(c) \/ BuildSection(c)

Spec == Init /\ [][Next]_vars

\* The event loop and the database go on with every request they have begun.
FairSpec == Spec /\ \A c \in Calls : WF_vars(Transact(c) \/ BuildSection(c))

-----------------------------------------------------------------------------
(* Properties.                                                             *)

TypeOK ==
  /\ pair \in [Pairs -> PairRow] /\ willing \in [Employees -> BOOLEAN]
  /\ timeline \in [Pairs -> SUBSET Entries] /\ call \in [Calls -> CallState]
  /\ watched \in [Calls -> [before : SUBSET Pairs, steady : BOOLEAN]]

\* The keys that uncommitted transactions hold are theirs alone.
KeysAreExclusive ==
  \A c, d \in Calls : c # d =>
    /\ ~(call[c].pc = "commitEnd" /\ call[d].pc = "commitEnd" /\ call[c].pair = call[d].pair)
    /\ ~(call[c].pc = "commitPair" /\ call[d].pc = "commitPair"
           /\ (call[c].pair = call[d].pair \/ call[c].mentee = call[d].mentee))

\* What a transaction is about to commit is still what it has checked.
PendingIsValid ==
  \A c \in Calls :
    /\ call[c].pc = "commitPair" =>
         /\ call[c].pair \in Pairs /\ pair[call[c].pair].status = "none"
         /\ {call[c].mentor, call[c].mentee} \subseteq Employees /\ call[c].mentor # call[c].mentee
         /\ \A p \in Pairs : ~(pair[p].status = "active" /\ pair[p].mentee = call[c].mentee)
    /\ call[c].pc = "commitEnd" => call[c].pair \in Pairs /\ pair[call[c].pair].status = "active"

\* What a request has checked before its transaction holds anything, and what no
\* other request can change: that somebody exists, and that a row is there.
CallsKnowTheirRows ==
  \A c \in Calls :
    /\ call[c].pc \in {"consent", "check", "insert"} => {call[c].mentor, call[c].mentee} \subseteq Employees
    /\ call[c].pc \in {"check", "insert"} => call[c].mentor # call[c].mentee
    /\ call[c].pc = "flag" => call[c].mentor \in Employees
    /\ call[c].pc = "close" => call[c].pair \in Pairs /\ pair[call[c].pair].status # "none"

\* However requests interleave, a mentee has one active mentor, an open
\* transaction is valid until its commit, and the two timelines of a pair say
\* what the pairs table says (createPair, endPair and the active-mentee index).
IInv ==
  /\ TypeOK /\ ActiveMenteeKey(pair) /\ KeysAreExclusive /\ PendingIsValid /\ CallsKnowTheirRows
  /\ \A p \in Pairs : RowFits(pair[p]) /\ timeline[p] = EntriesOf(pair[p])

\* The pairs a section shows: with the mentor the pair that was read before him.
Shown(c) ==
  call[c].mentees \cup call[c].history
    \cup (IF call[c].myMentor = NoOne THEN {} ELSE {call[c].mentorPair} \ {NoPair})

\* Part of SectionIsFaithful: the section never loses a pair: one the subject
\* had when the section was asked for is in the answer, as current or as past,
\* although it may end between the statements of buildSection.
SectionMissesNoPair ==
  \A c \in Calls : call[c].pc = "done" =>
    watched[c].before \subseteq Shown(c)

\* Part of SectionIsFaithful: if nothing was committed while it was read, the
\* section is exact: the mentor belongs to the pair shown beside it, and the
\* status agrees with the mentees.
UndisturbedSectionIsExact ==
  \A c \in Calls : call[c].pc = "done" /\ watched[c].steady /\ watched[c].before # {} =>
    /\ Shown(c) = watched[c].before
    /\ call[c].mentorPair # NoPair => call[c].myMentor = pair[call[c].mentorPair].mentor
    /\ (call[c].status = "mentor") <=> (call[c].mentees # {})
    /\ call[c].mentees \cap call[c].history = {}

\* What the section answers, whatever is committed between its statements and
\* whatever was not (buildSection).
SectionIsFaithful == SectionMissesNoPair /\ UndisturbedSectionIsExact

Joined(row) == IF row.status = "none" THEN [mentor |-> NoPair, mentee |-> NoPair]
               ELSE [mentor |-> row.mentor, mentee |-> row.mentee]

Register == INSTANCE MentorRegister WITH
  Closers <- Calls, NoCloser <- NoCall,
  mentorship <- [p \in Pairs |-> Joined(pair[p])],
  current <- [e \in Employees |-> MentorPairOf(e)],
  closedBy <- [p \in Pairs |-> pair[p].closedBy],
  entries <- timeline

\* Concurrent createPair and endPair requests together keep the register of
\* mentors: one mentor at a time, closed once, both timelines or neither.
ImplementsRegister == Register!RegisterSpec

\* Every request is answered: nobody waits for ever for the active-mentee key
\* or for the row of a pair.
RequestsEnd == \A c \in Calls : call[c].pc # "idle" ~> call[c].pc \in {"done", "refused"}
=============================================================================

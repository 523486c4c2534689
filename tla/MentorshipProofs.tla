--------------------------- MODULE MentorshipProofs ---------------------------
(***************************************************************************)
(* Proofs about Mentorship, for any number of requests, people and pairs:  *)
(* the inductive invariant, and that concurrent createPair and endPair     *)
(* requests implement MentorRegister.                                      *)
(***************************************************************************)
EXTENDS Mentorship, TLAPS

\* What CallsKnowTheirRows asks of one request.
KnowsRow(s) ==
  /\ s.pc \in {"consent", "check", "insert"} => {s.mentor, s.mentee} \subseteq Employees
  /\ s.pc \in {"check", "insert"} => s.mentor # s.mentee
  /\ s.pc = "flag" => s.mentor \in Employees
  /\ s.pc = "close" => s.pair \in Pairs /\ pair[s.pair].status # "none"

Watching == [Calls -> [before : SUBSET Pairs, steady : BOOLEAN]]

\* A request that holds nothing after its step, and has written no pair.
LEMMA RequestMovesOn ==
  ASSUME IInv, NEW c \in Calls, NEW s \in CallState,
         call' = [call EXCEPT ![c] = s],
         UNCHANGED <<pair, timeline>>,
         willing' \in [Employees -> BOOLEAN], watched' \in Watching,
         s.pc \notin {"commitPair", "commitEnd"},
         KnowsRow(s)
  PROVE  IInv'
<1>1. call \in [Calls -> CallState]
  BY DEF IInv, TypeOK
<1>2. /\ call'[c] = s
      /\ \A d \in Calls \ {c} : call'[d] = call[d]
  BY <1>1
<1>3. TypeOK'
  BY DEF IInv, TypeOK, Watching
<1>4. ActiveMenteeKey(pair') /\ \A p \in Pairs : RowFits(pair'[p]) /\ timeline'[p] = EntriesOf(pair'[p])
  BY DEF IInv
<1>5. \A d \in Calls : call'[d].pc \in {"commitPair", "commitEnd"} => d # c /\ call'[d] = call[d]
  BY <1>2
<1>6. KeysAreExclusive'
  BY <1>5 DEF IInv, KeysAreExclusive
<1>7. PendingIsValid'
  BY <1>5 DEF IInv, PendingIsValid
<1>8. CallsKnowTheirRows'
  <2> SUFFICES ASSUME NEW d \in Calls
               PROVE  KnowsRow(call'[d])
    BY DEF CallsKnowTheirRows, KnowsRow
  <2>1. CASE d = c
    BY <2>1, <1>2
  <2>2. CASE d # c
    BY <2>2, <1>2 DEF IInv, CallsKnowTheirRows, KnowsRow
  <2> QED
    BY <2>1, <2>2
<1> QED
  BY <1>3, <1>4, <1>6, <1>7, <1>8 DEF IInv

\* A commit leaves the watchers typed.
LEMMA DisturbedWatching ==
  ASSUME watched \in Watching, Disturb
  PROVE  watched' \in Watching
<1>1. ASSUME NEW d \in Calls
      PROVE  [watched[d] EXCEPT !.steady = FALSE] \in [before : SUBSET Pairs, steady : BOOLEAN]
  BY DEF Watching
<1> QED
  BY <1>1 DEF Disturb, Watching

LEMMA InitHolds == MentorshipAssumption /\ Init => IInv
<1> SUFFICES ASSUME MentorshipAssumption, Init
             PROVE  IInv
  OBVIOUS
<1>1. pair \in [Pairs -> PairRow] /\ ActiveMenteeKey(pair) /\ \A p \in Pairs : RowFits(pair[p])
  BY DEF Init, MentorshipAssumption
<1>2. Idle \in CallState
  BY DEF Idle, CallState, Pcs, Statuses
<1>3. timeline \in [Pairs -> SUBSET Entries]
  <2>1. ASSUME NEW p \in Pairs
        PROVE  EntriesOf(pair[p]) \in SUBSET Entries
    <3>1. pair[p].status \in {"none", "active", "ended"} /\ (pair[p].status # "none" =>
            {pair[p].mentor, pair[p].mentee} \subseteq Employees)
      BY <1>1 DEF PairRow, RowFits
    <3> QED
      BY <3>1 DEF EntriesOf, StartOf, EndOf, Entries
  <2> QED
    BY <2>1 DEF Init
<1>4. TypeOK
  BY <1>1, <1>2, <1>3 DEF Init, TypeOK
<1>5. KeysAreExclusive /\ PendingIsValid /\ CallsKnowTheirRows
  BY DEF Init, KeysAreExclusive, PendingIsValid, CallsKnowTheirRows, Idle
<1>6. \A p \in Pairs : timeline[p] = EntriesOf(pair[p])
  BY DEF Init
<1> QED
  BY <1>1, <1>4, <1>5, <1>6 DEF IInv

-----------------------------------------------------------------------------
(* Requests begin, read and give up.                                       *)

LEMMA BeginKeepsIt ==
  ASSUME MentorshipAssumption, IInv, NEW c \in Calls, Begin(c)
  PROVE  IInv'
<1>1. call[c] \in CallState /\ call \in [Calls -> CallState] /\ pair \in [Pairs -> PairRow]
  BY DEF IInv, TypeOK
<1>2. willing \in [Employees -> BOOLEAN] /\ watched \in Watching
  BY DEF IInv, TypeOK, Watching
<1>3. CASE ListAssignableMentees(c) \/ ListWillingMentors(c)
  <2>1. PICK listed \in SUBSET Employees :
          call' = [call EXCEPT ![c].pc = "done", ![c].listed = listed]
    BY <1>3 DEF ListAssignableMentees, ListWillingMentors, MentorshipAssumption
  <2> DEFINE next == [call[c] EXCEPT !.pc = "done", !.listed = listed]
  <2>2. next \in CallState /\ next.pc = "done"
    BY <1>1 DEF CallState, Pcs
  <2>3. call' = [call EXCEPT ![c] = next]
    BY <2>1, <1>1
  <2>4. UNCHANGED <<pair, timeline, willing, watched>>
    BY <1>3 DEF ListAssignableMentees, ListWillingMentors, Tables
  <2> HIDE DEF next
  <2> QED
    BY <2>2, <2>3, <2>4, <1>2, RequestMovesOn DEF KnowsRow
<1>4. CASE ListPairs(c)
  <2>5. PICK scope \in Scopes, wanted \in {{"active"}, {"ended"}, {"active", "ended"}} :
          call' = [call EXCEPT ![c].pc = "done",
                     ![c].history = {p \in UNION {PairsOf(e) : e \in scope} : pair[p].status \in wanted}]
    BY <1>4, Zenon DEF ListPairs
  <2> DEFINE history == {p \in UNION {PairsOf(e) : e \in scope} : pair[p].status \in wanted}
  <2>1. call' = [call EXCEPT ![c].pc = "done", ![c].history = history]
    BY <2>5
  <2>6. history \in SUBSET Pairs
    BY DEF PairsOf
  <2> HIDE DEF history
  <2> DEFINE next == [call[c] EXCEPT !.pc = "done", !.history = history]
  <2>2. next \in CallState /\ next.pc = "done"
    BY <1>1, <2>6 DEF CallState, Pcs
  <2>3. call' = [call EXCEPT ![c] = next]
    BY <2>1, <1>1
  <2>4. UNCHANGED <<pair, timeline, willing, watched>>
    BY <1>4 DEF ListPairs, Tables
  <2> HIDE DEF next
  <2> QED
    BY <2>2, <2>3, <2>4, <1>2, RequestMovesOn DEF KnowsRow
<1>5. CASE BeginPair(c)
  <2>1. PICK mentor \in Employees, mentee \in Employees, pc \in {"consent", "refused"} :
          call' = [call EXCEPT ![c].mentor = mentor, ![c].mentee = mentee, ![c].pc = pc]
    BY <1>5 DEF BeginPair
  <2> DEFINE next == [call[c] EXCEPT !.mentor = mentor, !.mentee = mentee, !.pc = pc]
  <2>2. next \in CallState /\ next.pc = pc /\ next.mentor = mentor /\ next.mentee = mentee
    BY <1>1 DEF CallState, Pcs
  <2>3. call' = [call EXCEPT ![c] = next]
    BY <2>1, <1>1
  <2>4. UNCHANGED <<pair, timeline, willing, watched>>
    BY <1>5 DEF BeginPair, Tables
  <2> HIDE DEF next
  <2> QED
    BY <2>2, <2>3, <2>4, <1>2, RequestMovesOn DEF KnowsRow
<1>6. CASE BeginEnd(c)
  <2>1. PICK p \in Pairs, pc \in {"close", "refused"} :
          /\ call' = [call EXCEPT ![c].pair = p, ![c].mentor = pair[p].mentor, ![c].pc = pc]
          /\ pc = "close" => pair[p].status # "none"
    BY <1>6 DEF BeginEnd
  <2> DEFINE next == [call[c] EXCEPT !.pair = p, !.mentor = pair[p].mentor, !.pc = pc]
  <2>2. pair[p].mentor \in Employees \cup {NoOne}
    BY <1>1 DEF PairRow
  <2>3. next \in CallState /\ next.pc = pc /\ next.pair = p
    BY <1>1, <2>2 DEF CallState, Pcs
  <2>4. call' = [call EXCEPT ![c] = next]
    BY <2>1, <1>1
  <2>5. UNCHANGED <<pair, timeline, willing, watched>>
    BY <1>6 DEF BeginEnd, Tables
  <2>6. KnowsRow(next)
    BY <2>1, <2>3 DEF KnowsRow
  <2> HIDE DEF next
  <2> QED
    BY <2>1, <2>3, <2>4, <2>5, <2>6, <1>2, RequestMovesOn
<1>7. CASE BeginSection(c)
  <2>1. PICK e \in Employees :
          /\ call' = [call EXCEPT ![c].mentor = e, ![c].open = willing[e], ![c].pc = "mentorPair"]
          /\ watched' = [watched EXCEPT ![c] = [before |-> PairsOf(e), steady |-> TRUE]]
    BY <1>7 DEF BeginSection
  <2> DEFINE next == [call[c] EXCEPT !.mentor = e, !.open = willing[e], !.pc = "mentorPair"]
  <2>2. willing[e] \in BOOLEAN
    BY <1>2
  <2>3. next \in CallState /\ next.pc = "mentorPair"
    BY <1>1, <2>2, Zenon DEF CallState, Pcs
  <2>4. call' = [call EXCEPT ![c] = next]
    BY <2>1, <1>1
  <2>5. watched' \in Watching
    BY <2>1, <1>2 DEF Watching, PairsOf
  <2>6. UNCHANGED <<pair, timeline, willing>>
    BY <1>7 DEF BeginSection, Tables
  <2> HIDE DEF next
  <2> QED
    BY <2>3, <2>4, <2>5, <2>6, <1>2, RequestMovesOn DEF KnowsRow
<1>8. CASE UpdateOpenToMentoring(c)
  <2>1. PICK e \in Employees, open \in BOOLEAN :
          /\ willing' = [willing EXCEPT ![e] = open]
          /\ call' = [call EXCEPT ![c].mentor = e, ![c].pc = "flag"]
    BY <1>8 DEF UpdateOpenToMentoring
  <2> DEFINE next == [call[c] EXCEPT !.mentor = e, !.pc = "flag"]
  <2>2. next \in CallState /\ next.pc = "flag" /\ next.mentor = e
    BY <1>1 DEF CallState, Pcs
  <2>3. call' = [call EXCEPT ![c] = next]
    BY <2>1, <1>1
  <2>4. watched' \in Watching
    BY <1>8, <1>2, DisturbedWatching DEF UpdateOpenToMentoring
  <2>5. willing' \in [Employees -> BOOLEAN]
    BY <2>1, <1>2
  <2>6. UNCHANGED <<pair, timeline>>
    BY <1>8 DEF UpdateOpenToMentoring
  <2>7. KnowsRow(next)
    BY <2>2 DEF KnowsRow
  <2> HIDE DEF next
  <2> QED
    BY <2>2, <2>3, <2>4, <2>5, <2>6, <2>7, RequestMovesOn
<1> QED
  BY <1>3, <1>4, <1>5, <1>6, <1>7, <1>8 DEF Begin

\* The steps of a section, of the status after a transaction, and those of a
\* transaction before it has written anything, or after it has failed.
LEMMA ReadsKeepIt ==
  ASSUME MentorshipAssumption, IInv, NEW c \in Calls,
         BuildSection(c) \/ AskConsent(c) \/ CheckMentee(c) \/ Fail(c) \/ DeriveMentorStatus(c)
  PROVE  IInv'
<1>1. call[c] \in CallState /\ call \in [Calls -> CallState] /\ pair \in [Pairs -> PairRow]
  BY DEF IInv, TypeOK
<1>2. willing \in [Employees -> BOOLEAN] /\ watched \in Watching
  BY DEF IInv, TypeOK, Watching
<1>3. KnowsRow(call[c])
  BY DEF IInv, CallsKnowTheirRows, KnowsRow
<1>4. \A open, active : ComputeMentorStatus(open, active) \in Statuses
  BY DEF ComputeMentorStatus, Statuses
<1>5. \A e : MentorPairOf(e) \in Pairs \cup {NoPair}
  BY DEF MentorPairOf
<1>6. \A e : ActiveAsMentor(e) \in BOOLEAN
  BY DEF ActiveAsMentor
<1>7. CASE AskConsent(c)
  <2>1. PICK pc \in {"check", "refused"} :
          /\ Goto(c, pc)
          /\ pc = "check" => call[c].mentor # call[c].mentee
    BY <1>7 DEF AskConsent
  <2> DEFINE next == [call[c] EXCEPT !.pc = pc]
  <2>2. next \in CallState /\ next.pc = pc /\ next.mentor = call[c].mentor /\ next.mentee = call[c].mentee
    BY <1>1 DEF CallState, Pcs
  <2>3. call' = [call EXCEPT ![c] = next]
    BY <2>1, <1>1 DEF Goto
  <2>4. UNCHANGED <<pair, timeline, willing, watched>> /\ call[c].pc = "consent"
    BY <1>7 DEF AskConsent, Tables
  <2>5. KnowsRow(next)
    BY <2>1, <2>2, <2>4, <1>3 DEF KnowsRow
  <2> HIDE DEF next
  <2> QED
    BY <2>2, <2>3, <2>4, <2>5, <1>2, RequestMovesOn
<1>8. CASE CheckMentee(c)
  <2>1. PICK pc \in {"insert", "refused"} : Goto(c, pc)
    BY <1>8 DEF CheckMentee
  <2> DEFINE next == [call[c] EXCEPT !.pc = pc]
  <2>2. next \in CallState /\ next.pc = pc /\ next.mentor = call[c].mentor /\ next.mentee = call[c].mentee
    BY <1>1 DEF CallState, Pcs
  <2>3. call' = [call EXCEPT ![c] = next]
    BY <2>1, <1>1 DEF Goto
  <2>4. UNCHANGED <<pair, timeline, willing, watched>> /\ call[c].pc = "check"
    BY <1>8 DEF CheckMentee, Tables
  <2>5. KnowsRow(next)
    BY <2>1, <2>2, <2>4, <1>3 DEF KnowsRow
  <2> HIDE DEF next
  <2> QED
    BY <2>2, <2>3, <2>4, <2>5, <1>2, RequestMovesOn
<1>9. CASE Fail(c)
  <2> DEFINE next == [call[c] EXCEPT !.pc = "refused", !.pair = NoPair]
  <2>1. next \in CallState /\ next.pc = "refused"
    BY <1>1 DEF CallState, Pcs
  <2>2. call' = [call EXCEPT ![c] = next]
    BY <1>9, <1>1 DEF Fail
  <2>3. UNCHANGED <<pair, timeline, willing, watched>>
    BY <1>9 DEF Fail, Tables
  <2> HIDE DEF next
  <2> QED
    BY <2>1, <2>2, <2>3, <1>2, RequestMovesOn DEF KnowsRow
<1>10. CASE DeriveMentorStatus(c)
  <2>1. UNCHANGED <<pair, timeline, willing, watched>>
    BY <1>10 DEF DeriveMentorStatus, Tables
  <2>2. PICK next \in CallState : call' = [call EXCEPT ![c] = next] /\ next.pc \in {"deriveFlag", "done"}
    <3>1. CASE call[c].pc = "derive"
      <4> DEFINE active == ActiveAsMentor(call[c].mentor)
                 after == [call[c] EXCEPT !.isMentor = active, !.pc = "deriveFlag"]
      <4>1. active \in BOOLEAN /\ call' = [call EXCEPT ![c] = after]
        BY <1>10, <3>1, <1>1, <1>6 DEF DeriveMentorStatus
      <4> HIDE DEF active
      <4>2. after \in CallState /\ after.pc = "deriveFlag"
        BY <1>1, <4>1 DEF CallState, Pcs
      <4> QED
        BY <4>1, <4>2
    <3>2. CASE call[c].pc = "deriveFlag"
      <4> DEFINE status == ComputeMentorStatus(willing[call[c].mentor], call[c].isMentor)
                 after == [call[c] EXCEPT !.pc = "done", !.status = status]
      <4>1. status \in Statuses /\ call' = [call EXCEPT ![c] = after]
        BY <1>10, <3>2, <1>1, <1>4 DEF DeriveMentorStatus
      <4> HIDE DEF status
      <4>2. after \in CallState /\ after.pc = "done"
        BY <1>1, <4>1 DEF CallState, Pcs
      <4> QED
        BY <4>1, <4>2
    <3> QED
      BY <3>1, <3>2, <1>10 DEF DeriveMentorStatus
  <2>3. KnowsRow(next)
    BY <2>2 DEF KnowsRow
  <2> QED
    BY <2>1, <2>2, <2>3, <1>2, RequestMovesOn
<1>11. CASE ReadFlag(c)
  <2> DEFINE open == willing[call[c].mentor]
             next == [call[c] EXCEPT !.open = open, !.pc = "mentorPair"]
  <2>1. open \in BOOLEAN
    BY <1>11, <1>2, <1>3 DEF ReadFlag, KnowsRow
  <2>2. call' = [call EXCEPT ![c] = next]
    BY <1>11, <1>1 DEF ReadFlag
  <2> HIDE DEF open
  <2>3. next \in CallState /\ next.pc = "mentorPair"
    BY <1>1, <2>1 DEF CallState, Pcs
  <2>4. watched' \in Watching
    BY <1>11, <1>2 DEF ReadFlag, Watching, PairsOf
  <2>5. UNCHANGED <<pair, timeline, willing>>
    BY <1>11 DEF ReadFlag, Tables
  <2> HIDE DEF next
  <2> QED
    BY <2>2, <2>3, <2>4, <2>5, <1>2, RequestMovesOn DEF KnowsRow
<1>12. CASE ReadMentorPair(c) \/ ReadMentor(c) \/ ReadMentees(c) \/ ReadStatus(c) \/ LoadPairHistory(c)
  <2>1. UNCHANGED <<pair, timeline, willing, watched>>
    BY <1>12 DEF ReadMentorPair, ReadMentor, ReadMentees, ReadStatus, LoadPairHistory, Tables
  <2>2. PICK next \in CallState : call' = [call EXCEPT ![c] = next]
                                  /\ next.pc \in {"mentor", "mentees", "status", "history", "done"}
    <3>1. CASE ReadMentorPair(c)
      <4> DEFINE p == MentorPairOf(call[c].mentor)
                 after == [call[c] EXCEPT !.mentorPair = p, !.pc = "mentor"]
      <4>1. p \in Pairs \cup {NoPair} /\ call' = [call EXCEPT ![c] = after]
        BY <3>1, <1>1, <1>5 DEF ReadMentorPair
      <4> HIDE DEF p
      <4>2. after \in CallState /\ after.pc = "mentor"
        BY <1>1, <4>1 DEF CallState, Pcs
      <4> QED
        BY <4>1, <4>2
    <3>2. CASE ReadMentor(c)
      <4> DEFINE p == MentorPairOf(call[c].mentor)
                 mentor == IF p = NoPair THEN NoOne ELSE pair[p].mentor
                 after == [call[c] EXCEPT !.myMentor = mentor, !.pc = "mentees"]
      <4>1. p \in Pairs \cup {NoPair} /\ call' = [call EXCEPT ![c] = after]
        BY <3>2, <1>1, <1>5 DEF ReadMentor
      <4> HIDE DEF p
      <4>2. mentor \in Employees \cup {NoOne}
        BY <4>1, <1>1 DEF PairRow
      <4> HIDE DEF mentor
      <4>3. after \in CallState /\ after.pc = "mentees"
        BY <1>1, <4>2 DEF CallState, Pcs
      <4> QED
        BY <4>1, <4>3
    <3>3. CASE ReadMentees(c)
      <4> DEFINE mentees == {p \in Pairs : pair[p].status = "active" /\ pair[p].mentor = call[c].mentor}
                 after == [call[c] EXCEPT !.pc = "status", !.mentees = mentees]
      <4>1. mentees \in SUBSET Pairs /\ call' = [call EXCEPT ![c] = after]
        BY <3>3, <1>1 DEF ReadMentees
      <4> HIDE DEF mentees
      <4>2. after \in CallState /\ after.pc = "status"
        BY <1>1, <4>1 DEF CallState, Pcs
      <4> QED
        BY <4>1, <4>2
    <3>4. CASE ReadStatus(c)
      <4> DEFINE status == ComputeMentorStatus(call[c].open, ActiveAsMentor(call[c].mentor))
                 after == [call[c] EXCEPT !.pc = "history", !.status = status]
      <4>1. status \in Statuses /\ call' = [call EXCEPT ![c] = after]
        BY <3>4, <1>1, <1>4 DEF ReadStatus
      <4> HIDE DEF status
      <4>2. after \in CallState /\ after.pc = "history"
        BY <1>1, <4>1 DEF CallState, Pcs
      <4> QED
        BY <4>1, <4>2
    <3>5. CASE LoadPairHistory(c)
      <4> DEFINE history == {p \in PairsOf(call[c].mentor) : pair[p].status = "ended"}
                 after == [call[c] EXCEPT !.pc = "done", !.history = history]
      <4>1. call' = [call EXCEPT ![c] = after]
        BY <3>5, <1>1 DEF LoadPairHistory
      <4>2. history \in SUBSET Pairs
        BY DEF PairsOf
      <4> HIDE DEF history
      <4>3. after \in CallState /\ after.pc = "done"
        BY <1>1, <4>2 DEF CallState, Pcs
      <4> QED
        BY <4>1, <4>3
    <3> QED
      BY <1>12, <3>1, <3>2, <3>3, <3>4, <3>5
  <2>3. KnowsRow(next)
    BY <2>2 DEF KnowsRow
  <2> QED
    BY <2>1, <2>2, <2>3, <1>2, RequestMovesOn
<1> QED
  BY <1>7, <1>8, <1>9, <1>10, <1>11, <1>12 DEF BuildSection

-----------------------------------------------------------------------------
(* Steps that hold a key or a row, and the commits.                        *)

\* What the insert has found, and the index keeps, is all a commit relies on.
LEMMA InsertKeepsIt ==
  ASSUME MentorshipAssumption, IInv, NEW c \in Calls, InsertPair(c)
  PROVE  IInv'
<1>1. call[c] \in CallState /\ call \in [Calls -> CallState] /\ call[c].pc = "insert"
  BY DEF IInv, TypeOK, InsertPair
<1>2. UNCHANGED <<pair, timeline, willing, watched>>
  BY DEF InsertPair, Tables
<1>3. willing \in [Employees -> BOOLEAN] /\ watched \in Watching
  BY DEF IInv, TypeOK, Watching
<1>4. CASE \E p \in Pairs : pair[p].status = "active" /\ pair[p].mentee = call[c].mentee
  <2> DEFINE next == [call[c] EXCEPT !.pc = "refused"]
  <2>1. next \in CallState /\ next.pc = "refused"
    BY <1>1 DEF CallState, Pcs
  <2>2. call' = [call EXCEPT ![c] = next]
    BY <1>4, <1>1 DEF InsertPair, Goto
  <2> HIDE DEF next
  <2> QED
    BY <2>1, <2>2, <1>2, <1>3, RequestMovesOn DEF KnowsRow
<1>5. CASE ~\E p \in Pairs : pair[p].status = "active" /\ pair[p].mentee = call[c].mentee
  <2>1. PICK p \in Pairs : Fresh(p) /\ call' = [call EXCEPT ![c].pair = p, ![c].pc = "commitPair"]
    BY <1>5 DEF InsertPair
  <2> DEFINE next == [call[c] EXCEPT !.pair = p, !.pc = "commitPair"]
  <2>2. /\ next \in CallState /\ next.pc = "commitPair" /\ next.pair = p
        /\ next.mentor = call[c].mentor /\ next.mentee = call[c].mentee
    BY <1>1 DEF CallState, Pcs
  <2>3. call' = [call EXCEPT ![c] = next]
    BY <2>1, <1>1
  <2> HIDE DEF next
  <2>4. /\ call'[c] = next
        /\ \A d \in Calls \ {c} : call'[d] = call[d]
    BY <2>3, <1>1
  <2>5. {call[c].mentor, call[c].mentee} \subseteq Employees /\ call[c].mentor # call[c].mentee
    BY <1>1 DEF IInv, CallsKnowTheirRows
  <2>6. TypeOK'
    BY <1>1, <1>2, <2>2, <2>3 DEF IInv, TypeOK
  <2>7. KeysAreExclusive'
    <3>1. \A d \in Calls \ {c} : call[d].pc = "commitPair" => call[d].pair # p /\ call[d].mentee # call[c].mentee
      BY <2>1 DEF Fresh, InsertPair, KeyHeld
    <3> SUFFICES ASSUME NEW d \in Calls, NEW e \in Calls, d # e
                   PROVE  /\ ~(call'[d].pc = "commitEnd" /\ call'[e].pc = "commitEnd" /\ call'[d].pair = call'[e].pair)
                          /\ ~(call'[d].pc = "commitPair" /\ call'[e].pc = "commitPair"
                                 /\ (call'[d].pair = call'[e].pair \/ call'[d].mentee = call'[e].mentee))
      BY DEF KeysAreExclusive
    <3>3. CASE d = c
      BY <3>1, <3>3, <2>2, <2>4
    <3>4. CASE e = c
      BY <3>1, <3>4, <2>2, <2>4
    <3>5. CASE d # c /\ e # c
      BY <3>5, <2>4 DEF IInv, KeysAreExclusive
    <3> QED
      BY <3>3, <3>4, <3>5
  <2>8. PendingIsValid'
    <3>1. /\ pair[p].status = "none" /\ p \in Pairs
          /\ \A q \in Pairs : ~(pair[q].status = "active" /\ pair[q].mentee = call[c].mentee)
      BY <2>1, <1>5 DEF Fresh
    <3> SUFFICES ASSUME NEW d \in Calls
                   PROVE  /\ call'[d].pc = "commitPair" =>
                               /\ call'[d].pair \in Pairs /\ pair[call'[d].pair].status = "none"
                               /\ {call'[d].mentor, call'[d].mentee} \subseteq Employees
                               /\ call'[d].mentor # call'[d].mentee
                               /\ \A q \in Pairs : ~(pair[q].status = "active" /\ pair[q].mentee = call'[d].mentee)
                          /\ call'[d].pc = "commitEnd" =>
                               call'[d].pair \in Pairs /\ pair[call'[d].pair].status = "active"
      BY <1>2 DEF PendingIsValid
    <3>3. CASE d = c
      BY <3>1, <3>3, <2>2, <2>4, <2>5
    <3>4. CASE d # c
      BY <3>4, <2>4 DEF IInv, PendingIsValid
    <3> QED
      BY <3>3, <3>4
  <2>9. CallsKnowTheirRows'
    <3> SUFFICES ASSUME NEW d \in Calls
                   PROVE  KnowsRow(call'[d])
      BY <1>2 DEF CallsKnowTheirRows, KnowsRow
    <3>2. CASE d = c
      BY <3>2, <2>2, <2>4 DEF KnowsRow
    <3>3. CASE d # c
      BY <3>3, <2>4 DEF IInv, CallsKnowTheirRows, KnowsRow
    <3> QED
      BY <3>2, <3>3
  <2> QED
    BY <1>2, <2>6, <2>7, <2>8, <2>9 DEF IInv
<1> QED
  BY <1>4, <1>5

LEMMA CloseKeepsIt ==
  ASSUME MentorshipAssumption, IInv, NEW c \in Calls, ClosePair(c)
  PROVE  IInv'
<1>1. call[c] \in CallState /\ call \in [Calls -> CallState] /\ call[c].pc = "close"
  BY DEF IInv, TypeOK, ClosePair
<1>2. UNCHANGED <<pair, timeline, willing, watched>>
  BY DEF ClosePair, Tables
<1>3. willing \in [Employees -> BOOLEAN] /\ watched \in Watching
  BY DEF IInv, TypeOK, Watching
<1>4. CASE pair[call[c].pair].status # "active"
  <2> DEFINE next == [call[c] EXCEPT !.pc = "refused"]
  <2>1. next \in CallState /\ next.pc = "refused"
    BY <1>1 DEF CallState, Pcs
  <2>2. call' = [call EXCEPT ![c] = next]
    BY <1>4, <1>1 DEF ClosePair, Goto
  <2> HIDE DEF next
  <2> QED
    BY <2>1, <2>2, <1>2, <1>3, RequestMovesOn DEF KnowsRow
<1>5. CASE pair[call[c].pair].status = "active"
  <2> DEFINE next == [call[c] EXCEPT !.pc = "commitEnd"]
  <2>1. next \in CallState /\ next.pc = "commitEnd" /\ next.pair = call[c].pair
    BY <1>1 DEF CallState, Pcs
  <2>2. call' = [call EXCEPT ![c] = next]
    BY <1>5, <1>1 DEF ClosePair, Goto
  <2> HIDE DEF next
  <2>3. /\ call'[c] = next
        /\ \A d \in Calls \ {c} : call'[d] = call[d]
    BY <2>2, <1>1
  <2>4. call[c].pair \in Pairs
    BY <1>1 DEF IInv, CallsKnowTheirRows
  <2>5. TypeOK'
    BY <1>1, <1>2, <2>1, <2>2 DEF IInv, TypeOK
  <2>6. KeysAreExclusive'
    <3>1. \A d \in Calls : ~(call[d].pc = "commitEnd" /\ call[d].pair = call[c].pair)
      BY DEF ClosePair
    <3> QED
      BY <3>1, <2>1, <2>3 DEF IInv, KeysAreExclusive
  <2>7. PendingIsValid'
    BY <1>2, <1>5, <2>1, <2>3, <2>4 DEF IInv, PendingIsValid
  <2>8. CallsKnowTheirRows'
    BY <1>2, <2>1, <2>3 DEF IInv, CallsKnowTheirRows
  <2> QED
    BY <1>2, <2>5, <2>6, <2>7, <2>8 DEF IInv
<1> QED
  BY <1>4, <1>5

\* The calls a commit leaves alone, and the call that has committed.
LEMMA CommitMovesOn ==
  ASSUME IInv, NEW c \in Calls, Goto(c, "derive")
  PROVE  /\ call' \in [Calls -> CallState]
         /\ call'[c].pc = "derive"
         /\ \A d \in Calls \ {c} : call'[d] = call[d]
<1>1. call \in [Calls -> CallState] /\ call' = [call EXCEPT ![c].pc = "derive"]
  BY DEF IInv, TypeOK, Goto
<1>2. [call[c] EXCEPT !.pc = "derive"] \in CallState /\ [call[c] EXCEPT !.pc = "derive"].pc = "derive"
  BY <1>1 DEF CallState, Pcs
<1>3. call' = [call EXCEPT ![c] = [call[c] EXCEPT !.pc = "derive"]]
  BY <1>1
<1> QED
  BY <1>1, <1>2, <1>3

LEMMA CommitPairKeepsIt ==
  ASSUME MentorshipAssumption, IInv, NEW c \in Calls, CommitPair(c)
  PROVE  IInv'
<1> DEFINE p == call[c].pair
           row == [status |-> "active", mentor |-> call[c].mentor, mentee |-> call[c].mentee, closedBy |-> NoCall]
<1>1. call[c].pc = "commitPair" /\ Goto(c, "derive") /\ Disturb /\ willing' = willing
  BY DEF CommitPair
<1>2. /\ p \in Pairs /\ pair[p].status = "none"
      /\ call[c].mentor \in Employees /\ call[c].mentee \in Employees /\ call[c].mentor # call[c].mentee
      /\ \A q \in Pairs : ~(pair[q].status = "active" /\ pair[q].mentee = call[c].mentee)
  BY <1>1 DEF IInv, PendingIsValid
<1>3. pair' = [pair EXCEPT ![p] = row] /\ timeline' = [timeline EXCEPT ![p] = StartOf(row)]
  BY DEF CommitPair
<1>4. /\ row \in PairRow /\ row.status = "active" /\ row.mentor = call[c].mentor
      /\ row.mentee = call[c].mentee /\ row.closedBy = NoCall
  BY <1>2 DEF PairRow
<1>5. RowFits(row) /\ EntriesOf(row) = StartOf(row) /\ StartOf(row) \in SUBSET Entries
  BY <1>2, <1>4 DEF RowFits, EntriesOf, StartOf, Entries
<1>6. pair \in [Pairs -> PairRow] /\ timeline \in [Pairs -> SUBSET Entries]
  BY DEF IInv, TypeOK
<1> HIDE DEF p, row
<1>7. /\ pair'[p] = row /\ timeline'[p] = StartOf(row)
      /\ \A q \in Pairs \ {p} : pair'[q] = pair[q] /\ timeline'[q] = timeline[q]
  BY <1>2, <1>3, <1>6
<1>8. /\ call' \in [Calls -> CallState] /\ call'[c].pc = "derive"
      /\ \A d \in Calls \ {c} : call'[d] = call[d]
  BY <1>1, CommitMovesOn
<1>9. TypeOK'
  <2>1. watched' \in Watching
    BY <1>1, DisturbedWatching DEF IInv, TypeOK, Watching
  <2> QED
    BY <2>1, <1>1, <1>2, <1>3, <1>4, <1>5, <1>6, <1>8 DEF IInv, TypeOK, Watching
<1>10. ActiveMenteeKey(pair')
  BY <1>2, <1>4, <1>7 DEF IInv, ActiveMenteeKey
<1>11. KeysAreExclusive'
  BY <1>8 DEF IInv, KeysAreExclusive
<1>12. PendingIsValid'
  <2> SUFFICES ASSUME NEW d \in Calls, d # c
               PROVE  /\ call[d].pc = "commitPair" =>
                           /\ call[d].pair \in Pairs /\ pair'[call[d].pair].status = "none"
                           /\ {call[d].mentor, call[d].mentee} \subseteq Employees
                           /\ call[d].mentor # call[d].mentee
                           /\ \A q \in Pairs : ~(pair'[q].status = "active" /\ pair'[q].mentee = call[d].mentee)
                      /\ call[d].pc = "commitEnd" =>
                           call[d].pair \in Pairs /\ pair'[call[d].pair].status = "active"
    BY <1>8 DEF PendingIsValid
  <2>1. CASE call[d].pc = "commitPair"
    <3>1. call[d].pair # p /\ call[d].mentee # call[c].mentee
      BY <2>1, <1>1 DEF IInv, KeysAreExclusive, p
    <3>2. /\ call[d].pair \in Pairs /\ pair[call[d].pair].status = "none"
          /\ {call[d].mentor, call[d].mentee} \subseteq Employees /\ call[d].mentor # call[d].mentee
          /\ \A q \in Pairs : ~(pair[q].status = "active" /\ pair[q].mentee = call[d].mentee)
      BY <2>1 DEF IInv, PendingIsValid
    <3> QED
      BY <2>1, <3>1, <3>2, <1>4, <1>7
  <2>2. CASE call[d].pc = "commitEnd"
    <3>1. call[d].pair \in Pairs /\ pair[call[d].pair].status = "active"
      BY <2>2 DEF IInv, PendingIsValid
    <3> QED
      BY <2>2, <3>1, <1>2, <1>4, <1>7
  <2> QED
    BY <2>1, <2>2
<1>13. CallsKnowTheirRows'
  <2>1. \A q \in Pairs : pair[q].status # "none" => pair'[q].status # "none"
    BY <1>4, <1>7
  <2> QED
    BY <2>1, <1>8 DEF IInv, CallsKnowTheirRows
<1>14. \A q \in Pairs : RowFits(pair'[q]) /\ timeline'[q] = EntriesOf(pair'[q])
  BY <1>5, <1>7 DEF IInv
<1> QED
  BY <1>9, <1>10, <1>11, <1>12, <1>13, <1>14 DEF IInv

LEMMA CommitEndKeepsIt ==
  ASSUME MentorshipAssumption, IInv, NEW c \in Calls, CommitEnd(c)
  PROVE  IInv'
<1> DEFINE p == call[c].pair
           row == [pair[p] EXCEPT !.status = "ended", !.closedBy = c]
<1>1. call[c].pc = "commitEnd" /\ Goto(c, "derive") /\ Disturb /\ willing' = willing
  BY DEF CommitEnd
<1>2. p \in Pairs /\ pair[p].status = "active" /\ RowFits(pair[p]) /\ timeline[p] = EntriesOf(pair[p])
  BY <1>1 DEF IInv, PendingIsValid
<1>3. pair \in [Pairs -> PairRow] /\ timeline \in [Pairs -> SUBSET Entries]
  BY DEF IInv, TypeOK
<1>4. pair' = [pair EXCEPT ![p] = row] /\ timeline' = [timeline EXCEPT ![p] = timeline[p] \cup EndOf(pair[p])]
  BY <1>2, <1>3 DEF CommitEnd
<1>5. row \in PairRow /\ row.status = "ended" /\ row.mentor = pair[p].mentor /\ row.mentee = pair[p].mentee
  <2>1. pair[p] \in PairRow
    BY <1>2, <1>3
  <2> QED
    BY <2>1 DEF PairRow
<1> HIDE DEF row
<1>6. /\ RowFits(row) /\ EntriesOf(row) = timeline[p] \cup EndOf(pair[p])
      /\ timeline[p] \cup EndOf(pair[p]) \in SUBSET Entries
  BY <1>2, <1>5 DEF RowFits, EntriesOf, StartOf, EndOf, Entries
<1> HIDE DEF p
<1>7. /\ pair'[p] = row /\ timeline'[p] = timeline[p] \cup EndOf(pair[p])
      /\ \A q \in Pairs \ {p} : pair'[q] = pair[q] /\ timeline'[q] = timeline[q]
  BY <1>2, <1>3, <1>4
<1>8. /\ call' \in [Calls -> CallState] /\ call'[c].pc = "derive"
      /\ \A d \in Calls \ {c} : call'[d] = call[d]
  BY <1>1, CommitMovesOn
<1>9. TypeOK'
  <2>1. watched' \in Watching
    BY <1>1, DisturbedWatching DEF IInv, TypeOK, Watching
  <2> QED
    BY <2>1, <1>1, <1>2, <1>3, <1>4, <1>5, <1>6, <1>8 DEF IInv, TypeOK, Watching
<1>10. ActiveMenteeKey(pair')
  BY <1>5, <1>7 DEF IInv, ActiveMenteeKey
<1>11. KeysAreExclusive'
  BY <1>8 DEF IInv, KeysAreExclusive
<1>12. PendingIsValid'
  <2> SUFFICES ASSUME NEW d \in Calls, d # c
               PROVE  /\ call[d].pc = "commitPair" =>
                           /\ call[d].pair \in Pairs /\ pair'[call[d].pair].status = "none"
                           /\ {call[d].mentor, call[d].mentee} \subseteq Employees
                           /\ call[d].mentor # call[d].mentee
                           /\ \A q \in Pairs : ~(pair'[q].status = "active" /\ pair'[q].mentee = call[d].mentee)
                      /\ call[d].pc = "commitEnd" =>
                           call[d].pair \in Pairs /\ pair'[call[d].pair].status = "active"
    BY <1>8 DEF PendingIsValid
  <2>1. CASE call[d].pc = "commitPair"
    <3>1. /\ call[d].pair \in Pairs /\ pair[call[d].pair].status = "none"
          /\ {call[d].mentor, call[d].mentee} \subseteq Employees /\ call[d].mentor # call[d].mentee
          /\ \A q \in Pairs : ~(pair[q].status = "active" /\ pair[q].mentee = call[d].mentee)
      BY <2>1 DEF IInv, PendingIsValid
    <3> QED
      BY <2>1, <3>1, <1>2, <1>5, <1>7
  <2>2. CASE call[d].pc = "commitEnd"
    <3>1. call[d].pair \in Pairs /\ pair[call[d].pair].status = "active"
      BY <2>2 DEF IInv, PendingIsValid
    <3>2. call[d].pair # p
      BY <2>2, <1>1 DEF IInv, KeysAreExclusive, p
    <3> QED
      BY <2>2, <3>1, <3>2, <1>7
  <2> QED
    BY <2>1, <2>2
<1>13. CallsKnowTheirRows'
  <2>1. \A q \in Pairs : pair[q].status # "none" => pair'[q].status # "none"
    BY <1>5, <1>7
  <2> QED
    BY <2>1, <1>8 DEF IInv, CallsKnowTheirRows
<1>14. \A q \in Pairs : RowFits(pair'[q]) /\ timeline'[q] = EntriesOf(pair'[q])
  BY <1>6, <1>7 DEF IInv
<1> QED
  BY <1>9, <1>10, <1>11, <1>12, <1>13, <1>14 DEF IInv

LEMMA NextKeepsIt == MentorshipAssumption /\ IInv /\ [Next]_vars => IInv'
<1> SUFFICES ASSUME MentorshipAssumption, IInv, [Next]_vars
             PROVE  IInv'
  OBVIOUS
<1>1. CASE UNCHANGED vars
  BY <1>1 DEF vars, IInv, TypeOK, KeysAreExclusive, PendingIsValid, CallsKnowTheirRows
<1>2. ASSUME NEW c \in Calls, Begin(c)
      PROVE  IInv'
  BY <1>2, BeginKeepsIt
<1>3. ASSUME NEW c \in Calls, Transact(c)
      PROVE  IInv'
  BY <1>3, ReadsKeepIt, InsertKeepsIt, CommitPairKeepsIt, CloseKeepsIt, CommitEndKeepsIt DEF Transact
<1>4. ASSUME NEW c \in Calls, BuildSection(c)
      PROVE  IInv'
  BY <1>4, ReadsKeepIt
<1> QED
  BY <1>1, <1>2, <1>3, <1>4 DEF Next

\* However many requests interleave, a mentee has at most one active mentor,
\* nothing that a transaction has checked is overtaken before its commit, and
\* both timelines of a pair say what its row says (createPair, endPair).
THEOREM InvariantHolds == Spec => []IInv
<1>1. Init => IInv
  BY InitHolds, MentorshipAssumption
<1>2. IInv /\ [Next]_vars => IInv'
  BY NextKeepsIt, MentorshipAssumption
<1> QED
  BY <1>1, <1>2, PTL DEF Spec

-----------------------------------------------------------------------------
(* Refinement.                                                             *)

\* MentorPairOf for a table that is given.
OneOf(found) == IF found = {} THEN NoPair ELSE CHOOSE p \in found : TRUE
ActiveIn(table, e) == OneOf({p \in Pairs : table[p].status = "active" /\ table[p].mentee = e})

\* The index makes the active pair of a mentee the one that is found.
LEMMA ActiveInIsIt ==
  ASSUME MentorshipAssumption, NEW table, ActiveMenteeKey(table), NEW e
  PROVE  /\ \A p \in Pairs : table[p].status = "active" /\ table[p].mentee = e <=> p = ActiveIn(table, e)
         /\ ActiveIn(table, e) \in Pairs \cup {NoPair}
<1> DEFINE found == {p \in Pairs : table[p].status = "active" /\ table[p].mentee = e}
<1>1. CASE found = {}
  BY <1>1 DEF ActiveIn, OneOf, MentorshipAssumption
<1>2. CASE found # {}
  <2>1. PICK q \in found : q = ActiveIn(table, e)
    BY <1>2 DEF ActiveIn, OneOf
  <2>2. \A p \in found : p = q
    BY DEF ActiveMenteeKey
  <2> QED
    BY <2>1, <2>2
<1> QED
  BY <1>1, <1>2

\* It depends on nothing but the active pairs of the mentee.
LEMMA SameActive ==
  ASSUME NEW table, NEW next, NEW e,
         \A q \in Pairs : (next[q].status = "active" /\ next[q].mentee = e)
                           <=> (table[q].status = "active" /\ table[q].mentee = e)
  PROVE  ActiveIn(next, e) = ActiveIn(table, e)
<1> DEFINE before == {p \in Pairs : table[p].status = "active" /\ table[p].mentee = e}
           after == {p \in Pairs : next[p].status = "active" /\ next[p].mentee = e}
<1>1. before = after
  OBVIOUS
<1>2. ActiveIn(table, e) = OneOf(before) /\ ActiveIn(next, e) = OneOf(after)
  BY DEF ActiveIn
<1> HIDE DEF before, after
<1> QED
  BY <1>1, <1>2

LEMMA MentorPairIsIt ==
  ASSUME NEW e
  PROVE  MentorPairOf(e) = ActiveIn(pair, e) /\ MentorPairOf(e)' = ActiveIn(pair', e)
BY DEF MentorPairOf, ActiveIn, OneOf

\* A row that is there joins two people, and a row that is not joins nobody.
LEMMA JoinedIsIt ==
  ASSUME NEW row, RowFits(row)
  PROVE  /\ row.status = "none" <=> Joined(row) = [mentor |-> NoPair, mentee |-> NoPair]
         /\ row.status # "none" => Joined(row).mentor = row.mentor /\ Joined(row).mentee = row.mentee
BY DEF Joined, RowFits

LEMMA RegisterStarts ==
  ASSUME MentorshipAssumption, IInv, Init
  PROVE  Register!RegisterInit
<1> DEFINE mentorship == [p \in Pairs |-> Joined(pair[p])]
           current == [e \in Employees |-> MentorPairOf(e)]
           closedBy == [p \in Pairs |-> pair[p].closedBy]
<1>1. ActiveMenteeKey(pair) /\ pair \in [Pairs -> PairRow]
      /\ \A p \in Pairs : RowFits(pair[p]) /\ timeline[p] = EntriesOf(pair[p])
  BY DEF IInv, TypeOK
<1>2. ASSUME NEW e \in Employees, current[e] # NoPair
      PROVE  mentorship[current[e]].mentee = e /\ closedBy[current[e]] = NoCall
  <2> DEFINE p == ActiveIn(pair, e)
  <2>1. current[e] = p
    BY MentorPairIsIt
  <2>2. p \in Pairs /\ pair[p].status = "active" /\ pair[p].mentee = e
    BY <1>1, <1>2, <2>1, ActiveInIsIt
  <2> HIDE DEF p
  <2>3. Joined(pair[p]).mentee = e /\ pair[p].closedBy = NoCall
    BY <1>1, <2>2, JoinedIsIt DEF RowFits
  <2> QED
    BY <2>1, <2>2, <2>3
<1>3. ASSUME NEW p \in Pairs
      PROVE  timeline[p] = IF mentorship[p] = Register!Nobody THEN {}
                           ELSE IF current[mentorship[p].mentee] = p THEN Register!StartEntries(mentorship[p])
                           ELSE Register!StartEntries(mentorship[p]) \cup Register!EndEntries(mentorship[p])
  <2>1. mentorship[p] = Joined(pair[p]) /\ RowFits(pair[p]) /\ timeline[p] = EntriesOf(pair[p])
        /\ pair[p].status \in {"none", "active", "ended"}
    BY <1>1 DEF PairRow
  <2>2. CASE pair[p].status = "none"
    BY <2>1, <2>2, JoinedIsIt DEF Register!Nobody, EntriesOf
  <2>3. CASE pair[p].status # "none"
    <3>1. /\ mentorship[p] # Register!Nobody
          /\ mentorship[p].mentor = pair[p].mentor /\ mentorship[p].mentee = pair[p].mentee
          /\ pair[p].mentee \in Employees
      BY <2>1, <2>3, JoinedIsIt DEF Register!Nobody, RowFits
    <3>2. current[pair[p].mentee] = p <=> pair[p].status = "active"
      BY <1>1, <3>1, MentorPairIsIt, ActiveInIsIt
    <3>3. /\ Register!StartEntries(mentorship[p]) = StartOf(pair[p])
          /\ Register!EndEntries(mentorship[p]) = EndOf(pair[p])
      BY <3>1 DEF Register!StartEntries, Register!EndEntries, StartOf, EndOf
    <3> HIDE DEF mentorship, current
    <3> QED
      BY <2>1, <2>3, <3>1, <3>2, <3>3 DEF EntriesOf
  <2> QED
    BY <2>2, <2>3
<1> HIDE DEF mentorship, current, closedBy
<1>4. Register!RegisterInit
  BY <1>2, <1>3 DEF Register!RegisterInit, mentorship, current, closedBy
<1> QED
  BY <1>4

LEMMA CommitStarts ==
  ASSUME MentorshipAssumption, IInv, IInv', NEW c \in Calls, CommitPair(c)
  PROVE  Register!RegisterNext
<1> DEFINE row == [status |-> "active", mentor |-> call[c].mentor, mentee |-> call[c].mentee, closedBy |-> NoCall]
<1>1. PICK p, mentor, mentee : p = call[c].pair /\ mentor = call[c].mentor /\ mentee = call[c].mentee
  OBVIOUS
<1>2. /\ p \in Pairs /\ pair[p].status = "none" /\ mentor \in Employees /\ mentee \in Employees /\ mentor # mentee
      /\ \A q \in Pairs : ~(pair[q].status = "active" /\ pair[q].mentee = mentee)
  BY <1>1 DEF CommitPair, IInv, PendingIsValid
<1>3. pair \in [Pairs -> PairRow] /\ ActiveMenteeKey(pair) /\ RowFits(pair[p])
  BY <1>2 DEF IInv, TypeOK
<1>4. ActiveMenteeKey(pair') /\ timeline \in [Pairs -> SUBSET Entries]
  BY DEF IInv, TypeOK
<1>5. /\ row.status = "active" /\ row.mentor = mentor /\ row.mentee = mentee /\ row.closedBy = NoCall
      /\ RowFits(row) /\ pair' = [pair EXCEPT ![p] = row] /\ timeline' = [timeline EXCEPT ![p] = StartOf(row)]
  BY <1>1, <1>2 DEF CommitPair, RowFits
<1> HIDE DEF row
<1>6. pair'[p] = row /\ \A q \in Pairs \ {p} : pair'[q] = pair[q]
  BY <1>2, <1>3, <1>5
<1>7. Joined(pair[p]) = [mentor |-> NoPair, mentee |-> NoPair]
  BY <1>2, <1>3, JoinedIsIt
<1>8. Joined(row) = [mentor |-> mentor, mentee |-> mentee]
  BY <1>5 DEF Joined
<1>9. ActiveIn(pair, mentee) = NoPair
  BY <1>2, <1>3, ActiveInIsIt
<1>10. ASSUME NEW e \in Employees
       PROVE  ActiveIn(pair', e) = IF e = mentee THEN p ELSE ActiveIn(pair, e)
  <2>1. CASE e = mentee
    <3>1. pair'[p].status = "active" /\ pair'[p].mentee = e
      BY <2>1, <1>5, <1>6
    <3>2. p = ActiveIn(pair', e)
      BY <3>1, <1>2, <1>4, ActiveInIsIt
    <3> QED
      BY <2>1, <3>2
  <2>2. CASE e # mentee
    <3>1. \A q \in Pairs : (pair'[q].status = "active" /\ pair'[q].mentee = e)
                              <=> (pair[q].status = "active" /\ pair[q].mentee = e)
      BY <2>2, <1>2, <1>5, <1>6
    <3>2. ActiveIn(pair', e) = ActiveIn(pair, e)
      BY <3>1, SameActive
    <3> QED
      BY <2>2, <3>2
  <2> QED
    BY <2>1, <2>2
<1>11. pair'[p].closedBy = pair[p].closedBy
  BY <1>2, <1>3, <1>5, <1>6 DEF RowFits
<1>12. Register!Start(p, mentor, mentee)
  <2> DEFINE mentorship == [q \in Pairs |-> Joined(pair[q])]
             mentorshipAfter == [q \in Pairs |-> Joined(pair'[q])]
             current == [e \in Employees |-> MentorPairOf(e)]
             currentAfter == [e \in Employees |-> MentorPairOf(e)']
             closedBy == [q \in Pairs |-> pair[q].closedBy]
             closedByAfter == [q \in Pairs |-> pair'[q].closedBy]
  <2>1. mentorship[p] = Register!Nobody /\ mentorshipAfter[p] = [mentor |-> mentor, mentee |-> mentee]
    BY <1>2, <1>5, <1>6, <1>7, <1>8 DEF Register!Nobody
  <2>2. mentorshipAfter = [mentorship EXCEPT ![p] = [mentor |-> mentor, mentee |-> mentee]]
    BY <1>2, <1>6, <1>8
  <2>3. current[mentee] = NoPair
    BY <1>2, <1>9, MentorPairIsIt
  <2>4. currentAfter = [current EXCEPT ![mentee] = p]
    <3>1. currentAfter = [e \in Employees |-> ActiveIn(pair', e)] /\ current = [e \in Employees |-> ActiveIn(pair, e)]
      BY MentorPairIsIt
    <3> HIDE DEF current, currentAfter
    <3> QED
      BY <3>1, <1>10
  <2>5. closedByAfter = closedBy
    BY <1>6, <1>11
  <2>6. Register!StartEntries([mentor |-> mentor, mentee |-> mentee]) = StartOf(row)
    BY <1>5 DEF Register!StartEntries, StartOf
  <2>7. timeline' = [timeline EXCEPT ![p] = Register!StartEntries(mentorshipAfter[p])]
    BY <1>5, <2>1, <2>6
  <2> HIDE DEF mentorship, mentorshipAfter, current, currentAfter, closedBy, closedByAfter
  <2> QED
    BY <1>2, <2>1, <2>2, <2>3, <2>4, <2>5, <2>7
    DEF Register!Start, mentorship, mentorshipAfter, current, currentAfter, closedBy, closedByAfter
<1> QED
  BY <1>2, <1>12 DEF Register!RegisterNext

LEMMA CommitEnds ==
  ASSUME MentorshipAssumption, IInv, IInv', NEW c \in Calls, CommitEnd(c)
  PROVE  Register!RegisterNext
<1>1. PICK p : p = call[c].pair
  OBVIOUS
<1>2. p \in Pairs /\ pair[p].status = "active" /\ RowFits(pair[p])
  BY <1>1 DEF CommitEnd, IInv, PendingIsValid
<1>3. pair \in [Pairs -> PairRow] /\ ActiveMenteeKey(pair) /\ ActiveMenteeKey(pair')
      /\ timeline \in [Pairs -> SUBSET Entries]
  BY DEF IInv, TypeOK
<1>4. PICK mentor, mentee : mentor = pair[p].mentor /\ mentee = pair[p].mentee
  OBVIOUS
<1>5. mentor \in Employees /\ mentee \in Employees /\ mentor # mentee
  BY <1>2, <1>4 DEF RowFits
<1> DEFINE row == [pair[p] EXCEPT !.status = "ended", !.closedBy = c]
<1>6. row.status = "ended" /\ row.mentor = mentor /\ row.mentee = mentee /\ row.closedBy = c
  <2>1. pair[p] \in PairRow
    BY <1>2, <1>3
  <2> QED
    BY <2>1, <1>4 DEF PairRow
<1>7. pair' = [pair EXCEPT ![p] = row] /\ timeline' = [timeline EXCEPT ![p] = timeline[p] \cup EndOf(pair[p])]
  BY <1>1, <1>2, <1>3 DEF CommitEnd
<1> HIDE DEF row
<1>8. pair'[p] = row /\ \A q \in Pairs \ {p} : pair'[q] = pair[q]
  BY <1>2, <1>3, <1>7
<1>9. Joined(pair[p]) = [mentor |-> mentor, mentee |-> mentee] /\ Joined(row) = Joined(pair[p])
  BY <1>2, <1>4, <1>6 DEF Joined
<1>10. Joined(pair[p]) # Register!Nobody
  BY <1>2, JoinedIsIt DEF Register!Nobody
<1>11. ActiveIn(pair, mentee) = p
  BY <1>2, <1>3, <1>4, ActiveInIsIt
<1>12. ASSUME NEW e \in Employees
       PROVE  ActiveIn(pair', e) = IF e = mentee THEN NoPair ELSE ActiveIn(pair, e)
  <2>1. CASE e = mentee
    <3>1. ASSUME NEW q \in Pairs, pair'[q].status = "active", pair'[q].mentee = mentee
          PROVE  FALSE
      BY <3>1, <1>2, <1>3, <1>4, <1>6, <1>8 DEF ActiveMenteeKey
    <3> QED
      BY <2>1, <3>1, <1>3, ActiveInIsIt
  <2>2. CASE e # mentee
    <3>1. \A q \in Pairs : (pair'[q].status = "active" /\ pair'[q].mentee = e)
                              <=> (pair[q].status = "active" /\ pair[q].mentee = e)
      BY <2>2, <1>2, <1>4, <1>6, <1>8
    <3>2. ActiveIn(pair', e) = ActiveIn(pair, e)
      BY <3>1, SameActive
    <3> QED
      BY <2>2, <3>2
  <2> QED
    BY <2>1, <2>2
<1>13. Register!End(p, c)
  <2> DEFINE mentorship == [q \in Pairs |-> Joined(pair[q])]
             mentorshipAfter == [q \in Pairs |-> Joined(pair'[q])]
             current == [e \in Employees |-> MentorPairOf(e)]
             currentAfter == [e \in Employees |-> MentorPairOf(e)']
             closedBy == [q \in Pairs |-> pair[q].closedBy]
             closedByAfter == [q \in Pairs |-> pair'[q].closedBy]
  <2>1. mentorship[p] # Register!Nobody /\ mentorship[p].mentor = mentor /\ mentorship[p].mentee = mentee
    BY <1>2, <1>9, <1>10
  <2>2. mentorshipAfter = mentorship
    BY <1>8, <1>9
  <2>3. current[mentee] = p
    BY <1>5, <1>11, MentorPairIsIt
  <2>4. currentAfter = [current EXCEPT ![mentee] = NoPair]
    <3>1. currentAfter = [e \in Employees |-> ActiveIn(pair', e)] /\ current = [e \in Employees |-> ActiveIn(pair, e)]
      BY MentorPairIsIt
    <3> HIDE DEF current, currentAfter
    <3> QED
      BY <3>1, <1>12
  <2>5. closedByAfter = [closedBy EXCEPT ![p] = c]
    BY <1>2, <1>6, <1>8
  <2>6. timeline' = [timeline EXCEPT ![p] = timeline[p] \cup Register!EndEntries(mentorship[p])]
    BY <1>4, <1>7, <2>1 DEF Register!EndEntries, EndOf
  <2> HIDE DEF mentorship, mentorshipAfter, current, currentAfter, closedBy, closedByAfter
  <2> QED
    BY <2>1, <2>2, <2>3, <2>4, <2>5, <2>6
    DEF Register!End, mentorship, mentorshipAfter, current, currentAfter, closedBy, closedByAfter
<1> QED
  BY <1>2, <1>13 DEF Register!RegisterNext

LEMMA StepIsRegisterStep ==
  ASSUME MentorshipAssumption, IInv, IInv', [Next]_vars
  PROVE  [Register!RegisterNext]_(Register!registerVars)
<1>1. CASE UNCHANGED <<pair, timeline>>
  BY <1>1 DEF Register!registerVars, MentorPairOf
<1>2. ASSUME NEW c \in Calls, Begin(c) \/ BuildSection(c)
      PROVE  UNCHANGED <<pair, timeline>>
  BY <1>2 DEF Begin, ListAssignableMentees, ListWillingMentors, ListPairs, BeginPair, BeginEnd, BeginSection,
    UpdateOpenToMentoring, BuildSection, ReadFlag, ReadMentorPair, ReadMentor, ReadMentees, ReadStatus,
    LoadPairHistory, Tables
<1>3. ASSUME NEW c \in Calls, AskConsent(c) \/ CheckMentee(c) \/ InsertPair(c) \/ ClosePair(c) \/ Fail(c) \/ DeriveMentorStatus(c)
      PROVE  UNCHANGED <<pair, timeline>>
  BY <1>3 DEF AskConsent, CheckMentee, InsertPair, ClosePair, Fail, DeriveMentorStatus, Tables
<1>4. ASSUME NEW c \in Calls, Transact(c)
      PROVE  UNCHANGED <<pair, timeline>> \/ Register!RegisterNext
  BY <1>3, <1>4, CommitStarts, CommitEnds DEF Transact
<1>5. CASE UNCHANGED vars
  BY <1>1, <1>5 DEF vars
<1> QED
  BY <1>1, <1>2, <1>4, <1>5 DEF Next

\* Concurrent requests keep the register of mentors: every commit of createPair
\* or endPair is one step of it, and nothing else is.
THEOREM MentorshipKeepsRegister == Spec => ImplementsRegister
<1>1. Init => Register!RegisterInit
  BY InitHolds, RegisterStarts, MentorshipAssumption
<1>2. IInv /\ IInv' /\ [Next]_vars => [Register!RegisterNext]_(Register!registerVars)
  BY StepIsRegisterStep, MentorshipAssumption
<1> QED
  BY <1>1, <1>2, InvariantHolds, PTL DEF Spec, Register!RegisterSpec, ImplementsRegister

-----------------------------------------------------------------------------
(* What a section shows.                                                   *)

SectionPcs == {"mentorPair", "mentor", "mentees", "status", "history"}

\* How a pair the subject had when the section was asked for gets into it: it has
\* ended, and the history is read last; or the statements that find it have
\* found it, or are still to come.
AccountedFor(c, p) ==
  /\ pair[p].status # "none"
  /\ \/ pair[p].status = "ended"
     \/ /\ pair[p].mentor = call[c].mentor
        /\ call[c].pc \in {"status", "history"} => p \in call[c].mentees
     \/ /\ pair[p].mentee = call[c].mentor
        /\ call[c].pc # "mentorPair" => call[c].mentorPair = p
        /\ call[c].pc \in {"mentees", "status", "history"} => call[c].myMentor # NoOne
  /\ call[c].mentor \in {pair[p].mentor, pair[p].mentee}

MissesNothing(c) ==
  /\ watched[c].before # {} => call[c].pc \in SectionPcs \cup {"done"}
  /\ call[c].pc \in SectionPcs => \A p \in watched[c].before : AccountedFor(c, p)
  /\ call[c].pc = "done" => watched[c].before \subseteq Shown(c)

\* What was read is as it is, if nothing has been committed since.
StandsStill(c) ==
  /\ watched[c].before = PairsOf(call[c].mentor)
  /\ call[c].pc # "mentorPair" => call[c].mentorPair = MentorPairOf(call[c].mentor)
  /\ call[c].pc \in {"mentees", "status", "history"} =>
       call[c].myMentor = IF call[c].mentorPair = NoPair THEN NoOne ELSE pair[call[c].mentorPair].mentor
  /\ call[c].pc \in {"status", "history"} =>
       call[c].mentees = {p \in Pairs : pair[p].status = "active" /\ pair[p].mentor = call[c].mentor}
  /\ call[c].pc = "history" => (call[c].status = "mentor" <=> call[c].mentees # {})

Exact(c) ==
  /\ Shown(c) = watched[c].before
  /\ call[c].mentorPair # NoPair => call[c].myMentor = pair[call[c].mentorPair].mentor
  /\ (call[c].status = "mentor") <=> (call[c].mentees # {})
  /\ call[c].mentees \cap call[c].history = {}

IsExact(c) ==
  watched[c].steady =>
    /\ call[c].pc \in SectionPcs => StandsStill(c)
    /\ call[c].pc = "done" /\ watched[c].before # {} => Exact(c)

SectionInv == \A c \in Calls : MissesNothing(c) /\ IsExact(c)

\* Rows only go on: their people stay, and what has ended stays so.
RowsGoOn ==
  \A p \in Pairs : pair[p].status # "none" =>
    /\ pair'[p].mentor = pair[p].mentor /\ pair'[p].mentee = pair[p].mentee /\ pair'[p].status # "none"
    /\ pair[p].status = "ended" => pair'[p].status = "ended"

\* Nothing is committed, or every section that is read is disturbed.
NobodyCommits == pair' = pair /\ willing' = willing /\ watched' = watched

LEMMA CommitsGoOn ==
  ASSUME MentorshipAssumption, IInv, NEW c \in Calls, CommitPair(c) \/ CommitEnd(c) \/ UpdateOpenToMentoring(c)
  PROVE  RowsGoOn /\ Disturb
<1>1. call \in [Calls -> CallState] /\ pair \in [Pairs -> PairRow]
  BY DEF IInv, TypeOK
<1>2. CASE CommitPair(c)
  <2>1. call[c].pair \in Pairs /\ pair[call[c].pair].status = "none"
    BY <1>2 DEF CommitPair, IInv, PendingIsValid
  <2>2. \A p \in Pairs \ {call[c].pair} : pair'[p] = pair[p]
    BY <1>1, <1>2 DEF CommitPair
  <2> QED
    BY <1>2, <2>1, <2>2 DEF CommitPair, RowsGoOn
<1>3. CASE CommitEnd(c)
  <2>1. PICK p : p = call[c].pair
    OBVIOUS
  <2>2. p \in Pairs /\ pair[p] \in PairRow
    BY <1>1, <1>3, <2>1 DEF CommitEnd, IInv, PendingIsValid
  <2>3. pair' = [pair EXCEPT ![p] = [pair[p] EXCEPT !.status = "ended", !.closedBy = c]]
    BY <1>1, <1>3, <2>1, <2>2 DEF CommitEnd
  <2>4. pair'[p] = [pair[p] EXCEPT !.status = "ended", !.closedBy = c] /\ \A q \in Pairs \ {p} : pair'[q] = pair[q]
    BY <1>1, <2>2, <2>3
  <2>5. pair'[p].status = "ended" /\ pair'[p].mentor = pair[p].mentor /\ pair'[p].mentee = pair[p].mentee
    BY <2>2, <2>4 DEF PairRow
  <2> QED
    BY <1>3, <2>4, <2>5 DEF CommitEnd, RowsGoOn
<1>4. CASE UpdateOpenToMentoring(c)
  BY <1>4 DEF UpdateOpenToMentoring, RowsGoOn
<1> QED
  BY <1>2, <1>3, <1>4

\* A section that waits is as it was.
LEMMA SectionStands ==
  ASSUME MentorshipAssumption, IInv, NEW d \in Calls, MissesNothing(d), IsExact(d), call'[d] = call[d],
         NobodyCommits \/ (RowsGoOn /\ Disturb)
  PROVE  MissesNothing(d)' /\ IsExact(d)'
<1>1. CASE NobodyCommits
  BY <1>1 DEF NobodyCommits, MissesNothing, IsExact, AccountedFor, Shown, StandsStill, Exact, PairsOf, MentorPairOf
<1>2. CASE RowsGoOn /\ Disturb
  <2>1. watched \in [Calls -> [before : SUBSET Pairs, steady : BOOLEAN]]
    BY DEF IInv, TypeOK
  <2>2. watched'[d].before = watched[d].before /\ ~watched'[d].steady /\ watched[d].before \subseteq Pairs
    BY <1>2, <2>1 DEF Disturb
  <2>3. \A p \in watched[d].before : AccountedFor(d, p) => AccountedFor(d, p)'
    BY <1>2, <2>2 DEF RowsGoOn, AccountedFor
  <2>4. MissesNothing(d)'
    BY <2>2, <2>3 DEF MissesNothing, Shown
  <2> QED
    BY <2>2, <2>4 DEF IsExact
<1> QED
  BY <1>1, <1>2

\* Requests about pairs, and lists, are no sections.
LEMMA NoSection ==
  ASSUME NEW c \in Calls, watched'[c].before = {}, call'[c].pc \notin SectionPcs
  PROVE  MissesNothing(c)' /\ IsExact(c)'
BY DEF MissesNothing, IsExact, Shown

LEMMA OtherRequestsShowNothing ==
  ASSUME MentorshipAssumption, IInv, IInv', NEW c \in Calls, MissesNothing(c),
         \/ ListAssignableMentees(c) \/ ListWillingMentors(c) \/ ListPairs(c) \/ BeginPair(c) \/ BeginEnd(c)
         \/ UpdateOpenToMentoring(c) \/ Transact(c)
  PROVE  MissesNothing(c)' /\ IsExact(c)'
<1>1. call \in [Calls -> CallState] /\ watched \in [Calls -> [before : SUBSET Pairs, steady : BOOLEAN]]
  BY DEF IInv, TypeOK
<1>2. call[c] \in CallState
  BY <1>1
<1>3. watched'[c].before = watched[c].before
  <2>1. watched' = watched \/ Disturb
    BY DEF ListAssignableMentees, ListWillingMentors, ListPairs, BeginPair, BeginEnd, UpdateOpenToMentoring, Transact,
       AskConsent, CheckMentee, InsertPair, CommitPair, ClosePair, CommitEnd, Fail, DeriveMentorStatus
  <2> QED
    BY <1>1, <2>1 DEF Disturb
<1>4. call[c].pc \notin SectionPcs \cup {"done"}
  BY DEF ListAssignableMentees, ListWillingMentors, ListPairs, BeginPair, BeginEnd, UpdateOpenToMentoring, Transact,
     AskConsent, CheckMentee, InsertPair, CommitPair, ClosePair, CommitEnd, Fail, DeriveMentorStatus, SectionPcs
<1>5. call'[c].pc \notin SectionPcs
  <2>1. CASE ListAssignableMentees(c) \/ ListWillingMentors(c) \/ ListPairs(c)
    BY <1>1, <1>2, <2>1 DEF ListAssignableMentees, ListWillingMentors, ListPairs, SectionPcs, CallState
  <2>2. CASE BeginPair(c)
    <3>1. PICK mentor \in Employees, mentee \in Employees, pc \in {"consent", "refused"} :
            call' = [call EXCEPT ![c].mentor = mentor, ![c].mentee = mentee, ![c].pc = pc]
      BY <2>2 DEF BeginPair
    <3> QED
      BY <1>1, <1>2, <3>1 DEF SectionPcs, CallState
  <2>6. CASE BeginEnd(c)
    <3>1. PICK p \in Pairs, pc \in {"close", "refused"} :
            call' = [call EXCEPT ![c].pair = p, ![c].mentor = pair[p].mentor, ![c].pc = pc]
      BY <2>6 DEF BeginEnd
    <3> QED
      BY <1>1, <1>2, <3>1 DEF SectionPcs, CallState
  <2>7. CASE UpdateOpenToMentoring(c)
    <3>1. PICK e \in Employees : call' = [call EXCEPT ![c].mentor = e, ![c].pc = "flag"]
      BY <2>7 DEF UpdateOpenToMentoring
    <3> QED
      BY <1>1, <1>2, <3>1 DEF SectionPcs, CallState
  <2>3. CASE AskConsent(c) \/ CheckMentee(c)
    BY <1>1, <1>2, <2>3 DEF AskConsent, CheckMentee, Goto, SectionPcs, CallState
  <2>8. CASE InsertPair(c)
    <3>1. CASE Goto(c, "refused")
      BY <1>1, <1>2, <3>1 DEF Goto, SectionPcs, CallState
    <3>2. CASE ~Goto(c, "refused")
      <4>1. PICK p \in Pairs : call' = [call EXCEPT ![c].pair = p, ![c].pc = "commitPair"]
        BY <2>8, <3>2 DEF InsertPair
      <4> QED
        BY <1>1, <1>2, <4>1 DEF SectionPcs, CallState
    <3> QED
      BY <3>1, <3>2
  <2>4. CASE CommitPair(c) \/ ClosePair(c) \/ CommitEnd(c)
    BY <1>1, <1>2, <2>4 DEF CommitPair, ClosePair, CommitEnd, Goto, SectionPcs, CallState
  <2>5. CASE Fail(c) \/ DeriveMentorStatus(c)
    BY <1>1, <1>2, <2>5 DEF Fail, DeriveMentorStatus, SectionPcs, CallState
  <2> QED
    BY <2>1, <2>2, <2>3, <2>4, <2>5, <2>6, <2>7, <2>8 DEF Transact
<1> QED
  BY <1>3, <1>4, <1>5, NoSection DEF MissesNothing

\* From here on the section is watched.
LEMMA SectionBegins ==
  ASSUME MentorshipAssumption, IInv, NEW c \in Calls, BeginSection(c) \/ ReadFlag(c)
  PROVE  MissesNothing(c)' /\ IsExact(c)'
<1>1. /\ call \in [Calls -> CallState] /\ watched \in [Calls -> [before : SUBSET Pairs, steady : BOOLEAN]]
      /\ pair' = pair
  BY DEF IInv, TypeOK, BeginSection, ReadFlag, Tables
<1>2. call'[c].pc = "mentorPair" /\ watched'[c].before = PairsOf(call'[c].mentor)
  <2>1. call[c] \in CallState
    BY <1>1
  <2>2. CASE BeginSection(c)
    <3>1. PICK e \in Employees :
            /\ call' = [call EXCEPT ![c].mentor = e, ![c].open = willing[e], ![c].pc = "mentorPair"]
            /\ watched' = [watched EXCEPT ![c] = [before |-> PairsOf(e), steady |-> TRUE]]
      BY <2>2 DEF BeginSection
    <3>2. call'[c].mentor = e /\ call'[c].pc = "mentorPair"
      BY <1>1, <2>1, <3>1 DEF CallState
    <3> QED
      BY <1>1, <3>1, <3>2
  <2>3. CASE ReadFlag(c)
    <3>1. call'[c].mentor = call[c].mentor /\ call'[c].pc = "mentorPair"
      BY <1>1, <2>1, <2>3 DEF ReadFlag, CallState
    <3> QED
      BY <1>1, <2>3, <3>1 DEF ReadFlag
  <2> QED
    BY <2>2, <2>3
<1>3. \A p \in watched'[c].before : AccountedFor(c, p)'
  <2> SUFFICES ASSUME NEW p \in PairsOf(call'[c].mentor)
               PROVE  AccountedFor(c, p)'
    BY <1>2
  <2> QED
    BY <1>1, <1>2 DEF PairsOf, AccountedFor
<1>4. watched'[c].before = PairsOf(call[c].mentor)'
  BY <1>1, <1>2 DEF PairsOf
<1> QED
  BY <1>2, <1>3, <1>4 DEF MissesNothing, IsExact, StandsStill, SectionPcs

LEMMA MentorPairFacts ==
  ASSUME MentorshipAssumption, IInv, NEW e, NEW p \in Pairs
  PROVE  /\ pair[p].status \in {"none", "active", "ended"}
         /\ pair[p].status # "none" => pair[p].mentor # NoOne /\ pair[p].mentor # pair[p].mentee
         /\ pair[p].status = "active" /\ pair[p].mentee = e => MentorPairOf(e) = p
         /\ MentorPairOf(e) # NoPair =>
              MentorPairOf(e) \in Pairs /\ pair[MentorPairOf(e)].status = "active" /\ pair[MentorPairOf(e)].mentee = e
<1>1. pair[p] \in PairRow /\ RowFits(pair[p])
  BY DEF IInv, TypeOK
<1>2. pair[p].status \in {"none", "active", "ended"}
  BY <1>1 DEF PairRow
<1>3. pair[p].status # "none" => pair[p].mentor # NoOne /\ pair[p].mentor # pair[p].mentee
  BY <1>1 DEF RowFits, MentorshipAssumption
<1>4. pair[p].status = "active" /\ pair[p].mentee = e => MentorPairOf(e) = p
  BY DEF MentorPairOf, IInv, ActiveMenteeKey
<1>5. MentorPairOf(e) # NoPair =>
        MentorPairOf(e) \in Pairs /\ pair[MentorPairOf(e)].status = "active" /\ pair[MentorPairOf(e)].mentee = e
  BY DEF MentorPairOf
<1> QED
  BY <1>2, <1>3, <1>4, <1>5

\* The statements of buildSection, one after the other.
LEMMA SectionGoesOn ==
  ASSUME MentorshipAssumption, IInv, NEW c \in Calls, MissesNothing(c), IsExact(c),
         ReadMentorPair(c) \/ ReadMentor(c) \/ ReadMentees(c) \/ ReadStatus(c)
  PROVE  MissesNothing(c)' /\ IsExact(c)'
<1>1. /\ call \in [Calls -> CallState] /\ watched \in [Calls -> [before : SUBSET Pairs, steady : BOOLEAN]]
      /\ call[c] \in CallState /\ watched[c].before \subseteq Pairs
  BY DEF IInv, TypeOK
<1>2. pair' = pair /\ watched' = watched /\ call[c].pc \in SectionPcs
  BY DEF ReadMentorPair, ReadMentor, ReadMentees, ReadStatus, Tables, SectionPcs
<1>3. PICK t : t = call'[c]
  OBVIOUS
<1>4. PICK e : e = call[c].mentor
  OBVIOUS
<1>5. PICK mp : mp = MentorPairOf(e)
  OBVIOUS
<1>6. MentorPairOf(e)' = mp /\ PairsOf(e)' = PairsOf(e)
  BY <1>2, <1>5 DEF MentorPairOf, PairsOf
<1>7. CASE ReadMentorPair(c)
  <2>1. t.pc = "mentor" /\ t.mentorPair = mp /\ t.mentor = e /\ call[c].pc = "mentorPair"
    BY <1>1, <1>3, <1>4, <1>5, <1>7 DEF ReadMentorPair, CallState
  <2>2. \A p \in watched[c].before : AccountedFor(c, p)'
    BY <1>1, <1>2, <1>3, <1>4, <1>5, <2>1, MentorPairFacts DEF AccountedFor, MissesNothing
  <2>3. IsExact(c)'
    BY <1>2, <1>3, <1>4, <1>6, <2>1 DEF IsExact, StandsStill, SectionPcs
  <2> QED
    BY <1>2, <1>3, <2>1, <2>2, <2>3 DEF MissesNothing, SectionPcs
<1>8. CASE ReadMentor(c)
  <2>1. /\ t.pc = "mentees" /\ t.mentorPair = call[c].mentorPair /\ t.mentor = e /\ call[c].pc = "mentor"
        /\ t.myMentor = IF mp = NoPair THEN NoOne ELSE pair[mp].mentor
    BY <1>1, <1>3, <1>4, <1>5, <1>8 DEF ReadMentor, CallState
  <2>2. ASSUME NEW p \in watched[c].before
        PROVE  AccountedFor(c, p)'
    <3>1. AccountedFor(c, p) /\ p \in Pairs
      BY <1>1, <1>2 DEF MissesNothing
    <3>2. pair[p].status = "active" /\ pair[p].mentee = e => mp = p
      BY <1>5, <3>1, MentorPairFacts
    <3>3. pair[p].status \in {"active", "ended"} /\ pair[p].mentor # NoOne /\ p # NoPair
      BY <3>1, MentorPairFacts DEF AccountedFor, MentorshipAssumption
    <3> QED
      BY <1>2, <1>3, <1>4, <2>1, <3>1, <3>2, <3>3 DEF AccountedFor
  <2>3. IsExact(c)'
    BY <1>2, <1>3, <1>4, <1>5, <1>6, <2>1 DEF IsExact, StandsStill, SectionPcs
  <2> QED
    BY <1>2, <1>3, <2>1, <2>2, <2>3 DEF MissesNothing, SectionPcs
<1>9. CASE ReadMentees(c)
  <2>1. /\ t.pc = "status" /\ t.mentorPair = call[c].mentorPair /\ t.mentor = e /\ call[c].pc = "mentees"
        /\ t.myMentor = call[c].myMentor /\ t.mentees = {p \in Pairs : pair[p].status = "active" /\ pair[p].mentor = e}
    BY <1>1, <1>3, <1>4, <1>9 DEF ReadMentees, CallState
  <2>2. ASSUME NEW p \in watched[c].before
        PROVE  AccountedFor(c, p)'
    <3>1. AccountedFor(c, p) /\ p \in Pairs
      BY <1>1, <1>2 DEF MissesNothing
    <3>2. pair[p].status \in {"active", "ended"}
      BY <3>1, MentorPairFacts DEF AccountedFor
    <3> QED
      BY <1>2, <1>3, <1>4, <2>1, <3>1, <3>2 DEF AccountedFor
  <2>3. ASSUME watched[c].steady
        PROVE  StandsStill(c)'
    <3>1. StandsStill(c)
      BY <1>2, <2>3 DEF IsExact
    <3>2. /\ watched[c].before = PairsOf(e) /\ t.mentorPair = mp
          /\ t.myMentor = (IF t.mentorPair = NoPair THEN NoOne ELSE pair[t.mentorPair].mentor)
      BY <1>4, <1>5, <2>1, <3>1 DEF StandsStill
    <3> QED
      BY <1>2, <1>3, <1>6, <2>1, <3>2 DEF StandsStill
  <2>4. IsExact(c)'
    BY <1>2, <1>3, <2>1, <2>3 DEF IsExact
  <2> QED
    BY <1>2, <1>3, <2>1, <2>2, <2>4 DEF MissesNothing, SectionPcs
<1>10. CASE ReadStatus(c)
  <2>1. /\ t.pc = "history" /\ t.mentorPair = call[c].mentorPair /\ t.mentor = e /\ call[c].pc = "status"
        /\ t.myMentor = call[c].myMentor /\ t.mentees = call[c].mentees
        /\ t.status = ComputeMentorStatus(call[c].open, ActiveAsMentor(e))
    BY <1>1, <1>3, <1>4, <1>10 DEF ReadStatus, CallState
  <2>2. \A p \in watched[c].before : AccountedFor(c, p)'
    BY <1>1, <1>2, <1>3, <1>4, <2>1 DEF AccountedFor, MissesNothing
  <2>3. t.status = "mentor" <=> ActiveAsMentor(e)
    BY <2>1 DEF ComputeMentorStatus
  <2>4. ASSUME watched[c].steady
        PROVE  StandsStill(c)'
    <3>1. StandsStill(c)
      BY <1>2, <2>4 DEF IsExact
    <3>2. /\ watched[c].before = PairsOf(e) /\ t.mentorPair = mp
          /\ t.myMentor = (IF t.mentorPair = NoPair THEN NoOne ELSE pair[t.mentorPair].mentor)
          /\ t.mentees = {p \in Pairs : pair[p].status = "active" /\ pair[p].mentor = e}
      BY <1>4, <1>5, <2>1, <3>1 DEF StandsStill
    <3>3. t.status = "mentor" <=> t.mentees # {}
      BY <2>3, <3>2 DEF ActiveAsMentor
    <3> QED
      BY <1>2, <1>3, <1>6, <2>1, <3>2, <3>3 DEF StandsStill
  <2>5. IsExact(c)'
    BY <1>2, <1>3, <2>1, <2>4 DEF IsExact
  <2> QED
    BY <1>2, <1>3, <2>1, <2>2, <2>5 DEF MissesNothing, SectionPcs
<1> QED
  BY <1>7, <1>8, <1>9, <1>10

LEMMA SectionEnds ==
  ASSUME MentorshipAssumption, IInv, NEW c \in Calls, MissesNothing(c), IsExact(c), LoadPairHistory(c)
  PROVE  MissesNothing(c)' /\ IsExact(c)'
<1>1. /\ call \in [Calls -> CallState] /\ watched \in [Calls -> [before : SUBSET Pairs, steady : BOOLEAN]]
      /\ call[c] \in CallState /\ watched[c].before \subseteq Pairs
  BY DEF IInv, TypeOK
<1>2. pair' = pair /\ watched' = watched /\ call[c].pc = "history"
  BY DEF LoadPairHistory, Tables
<1>3. PICK t : t = call'[c]
  OBVIOUS
<1>4. PICK e : e = call[c].mentor
  OBVIOUS
<1>5. /\ t.pc = "done" /\ t.mentorPair = call[c].mentorPair /\ t.myMentor = call[c].myMentor
      /\ t.mentees = call[c].mentees /\ t.status = call[c].status
      /\ t.history = {p \in PairsOf(e) : pair[p].status = "ended"}
  BY <1>1, <1>3, <1>4 DEF LoadPairHistory, CallState
<1>6. PICK shown : shown = t.mentees \cup t.history \cup (IF t.myMentor = NoOne THEN {} ELSE {t.mentorPair} \ {NoPair})
  OBVIOUS
<1>7. Shown(c)' = shown
  BY <1>3, <1>6 DEF Shown
<1>8. ASSUME NEW p \in watched[c].before
      PROVE  p \in shown
  <2>1. AccountedFor(c, p) /\ p \in Pairs /\ p # NoPair
    BY <1>1, <1>2 DEF MissesNothing, SectionPcs, MentorshipAssumption
  <2>2. p \in PairsOf(e)
    BY <1>4, <2>1 DEF AccountedFor, PairsOf
  <2> QED
    BY <1>2, <1>5, <1>6, <2>1, <2>2 DEF AccountedFor
<1>9. MissesNothing(c)'
  BY <1>2, <1>3, <1>5, <1>7, <1>8 DEF MissesNothing, SectionPcs
<1>10. ASSUME watched[c].steady
       PROVE  Exact(c)'
  <2>1. StandsStill(c)
    BY <1>2, <1>10 DEF IsExact, SectionPcs
  <2>2. /\ watched[c].before = PairsOf(e) /\ t.mentorPair = MentorPairOf(e)
        /\ t.myMentor = (IF t.mentorPair = NoPair THEN NoOne ELSE pair[t.mentorPair].mentor)
        /\ t.mentees = {p \in Pairs : pair[p].status = "active" /\ pair[p].mentor = e}
        /\ t.status = "mentor" <=> t.mentees # {}
    BY <1>2, <1>4, <1>5, <2>1 DEF StandsStill
  <2>3. shown \subseteq PairsOf(e)
    <3>1. t.mentees \subseteq PairsOf(e) /\ t.history \subseteq PairsOf(e)
      BY <1>5, <2>2 DEF PairsOf
    <3>2. t.mentorPair # NoPair => t.mentorPair \in PairsOf(e)
      <4>1. CASE Pairs = {}
        BY <2>2, <4>1 DEF MentorPairOf
      <4>2. CASE Pairs # {}
        BY <2>2, <4>2, MentorPairFacts DEF PairsOf
      <4> QED
        BY <4>1, <4>2
    <3> QED
      BY <1>6, <3>1, <3>2
  <2>4. shown = watched[c].before
    <3>1. watched[c].before \subseteq shown
      BY <1>8
    <3>2. shown \subseteq watched[c].before
      BY <2>2, <2>3
    <3> QED
      BY <3>1, <3>2
  <2>5. t.mentees \cap t.history = {}
    BY <1>5, <2>2
  <2> QED
    BY <1>2, <1>3, <1>7, <2>2, <2>4, <2>5 DEF Exact
<1> QED
  BY <1>2, <1>3, <1>5, <1>9, <1>10 DEF IsExact, SectionPcs

LEMMA SectionStepKeeps ==
  ASSUME MentorshipAssumption, IInv, IInv', SectionInv, [Next]_vars
  PROVE  SectionInv'
<1>1. ASSUME UNCHANGED vars
      PROVE  SectionInv'
  BY <1>1, SectionStands DEF vars, SectionInv, NobodyCommits
<1>2. ASSUME NEW c \in Calls, Begin(c) \/ Transact(c) \/ BuildSection(c)
      PROVE  SectionInv'
  <2>1. \A d \in Calls \ {c} : call'[d] = call[d]
    <3>1. call \in [Calls -> CallState]
      BY DEF IInv, TypeOK
    <3>2. CASE Begin(c)
      BY <3>1, <3>2 DEF Begin, ListAssignableMentees, ListWillingMentors, ListPairs, BeginPair, BeginEnd, BeginSection,
         UpdateOpenToMentoring
    <3>3. CASE Transact(c)
      BY <3>1, <3>3 DEF Transact, AskConsent, CheckMentee, InsertPair, CommitPair, ClosePair, CommitEnd, Fail,
         DeriveMentorStatus, Goto
    <3>4. CASE BuildSection(c)
      BY <3>1, <3>4 DEF BuildSection, ReadFlag, ReadMentorPair, ReadMentor, ReadMentees, ReadStatus, LoadPairHistory
    <3> QED
      BY <1>2, <3>2, <3>3, <3>4
  <2>2. MissesNothing(c)' /\ IsExact(c)'
    BY <1>2, OtherRequestsShowNothing, SectionBegins, SectionGoesOn, SectionEnds DEF Begin, BuildSection, SectionInv
  <2>3. CASE BeginSection(c) \/ ReadFlag(c)
    <3>0. DOMAIN watched = Calls
      BY DEF IInv, TypeOK
    <3>1. pair' = pair /\ \A d \in Calls \ {c} : watched'[d] = watched[d]
      <4>1. pair' = pair
        BY <2>3 DEF BeginSection, ReadFlag, Tables
      <4>2. CASE BeginSection(c)
        BY <3>0, <4>1, <4>2 DEF BeginSection
      <4>3. CASE ReadFlag(c)
        BY <3>0, <4>1, <4>3 DEF ReadFlag
      <4> QED
        BY <2>3, <4>2, <4>3
    <3>2. ASSUME NEW d \in Calls \ {c}
          PROVE  MissesNothing(d)' /\ IsExact(d)'
      BY <2>1, <3>1, <3>2 DEF SectionInv, MissesNothing, IsExact, AccountedFor, Shown, StandsStill, Exact, PairsOf,
         MentorPairOf
    <3> QED
      BY <2>2, <3>2 DEF SectionInv
  <2>4. CASE ~(BeginSection(c) \/ ReadFlag(c))
    <3>1. NobodyCommits \/ (RowsGoOn /\ Disturb)
      <4>1. CASE CommitPair(c) \/ CommitEnd(c) \/ UpdateOpenToMentoring(c)
        BY <4>1, CommitsGoOn
      <4>2. CASE ~(CommitPair(c) \/ CommitEnd(c) \/ UpdateOpenToMentoring(c))
        BY <1>2, <2>4, <4>2 DEF Begin, Transact, BuildSection, ListAssignableMentees, ListWillingMentors, ListPairs,
           BeginPair, BeginEnd, AskConsent, CheckMentee, InsertPair, ClosePair, Fail, DeriveMentorStatus,
           ReadMentorPair, ReadMentor, ReadMentees, ReadStatus, LoadPairHistory, Tables, NobodyCommits
      <4> QED
        BY <4>1, <4>2
    <3> QED
      BY <2>1, <2>2, <3>1, SectionStands DEF SectionInv
  <2> QED
    BY <2>3, <2>4
<1> QED
  BY <1>1, <1>2 DEF Next

\* A section never loses a pair that the subject had when it was asked for,
\* although the pair may end between the statements that look for it, and it is
\* exact if nothing is committed meanwhile (buildSection, loadPairHistory).
THEOREM SectionsAreFaithful == Spec => []SectionIsFaithful
<1>1. Init => SectionInv
  BY DEF Init, Idle, SectionInv, MissesNothing, IsExact, SectionPcs, Shown
<1>2. IInv /\ IInv' /\ SectionInv /\ [Next]_vars => SectionInv'
  BY SectionStepKeeps, MentorshipAssumption
<1>3. SectionInv => SectionIsFaithful
  BY DEF SectionInv, MissesNothing, IsExact, Exact, SectionIsFaithful, SectionMissesNoPair, UndisturbedSectionIsExact
<1> QED
  BY <1>1, <1>2, <1>3, InvariantHolds, PTL DEF Spec
=============================================================================

-------------------------- MODULE AccessCacheProofs --------------------------
(***************************************************************************)
(* What AccessCache keeps for every number of calls and writers, every     *)
(* initial graph and every bound: its types; that the reply of a bump      *)
(* never makes a cached audience usable again; and what answers and clean  *)
(* entries rest on.                                                        *)
(***************************************************************************)
EXTENDS AccessCache, TLAPS

\* A step of the resolver, of a writer, of the clock or of a restart,
\* without the history variables.
Step ==
  \/ \E c \in Calls : ResolverStep(c)
  \/ \E w \in Writers : WriterStep(w)
  \/ TimePasses \/ Restart

-----------------------------------------------------------------------------
(* Types.                                                                  *)

LEMMA ReadsAreTyped ==
  /\ RevalidationReads \in Seq(SUBSET Reads)
  /\ ComputeReads \in Seq(SUBSET Reads)
<1>1. /\ {"pl", "due"} \in SUBSET Reads /\ {"hr"} \in SUBSET Reads /\ {"fa"} \in SUBSET Reads
      /\ {"pp"} \in SUBSET Reads /\ {"rl"} \in SUBSET Reads /\ {"asg"} \in SUBSET Reads
      /\ {"pp_again"} \in SUBSET Reads
  BY DEF Reads, Facts
<1>2. QED
  BY <1>1 DEF RevalidationReads, ComputeReads

LEMMA AudienceIsTyped == \A facts : AudienceOf(facts) \in Audiences
  BY DEF AudienceOf, Audiences

LEMMA NoCallIsTyped ==
  /\ NoCall \in CallState /\ NoCall.cached = Missing /\ NoCall.got = {}
  /\ NoCall.result = {} /\ NoCall.pc = "idle" /\ NoCall.left = <<>>
  BY DEF NoCall, CallState, Audiences

LEMMA InitIsTyped == Init => TypeOK
  BY NoCallIsTyped, ConstantsAssumption DEF Init, TypeOK, NoWrite, WriterState, WriterPcs, Facts

\* Every step of a call leaves a call state and, at most, a new entry.
LEMMA ResolverKeepsTypes ==
  ASSUME TypeOK, NEW c \in Calls, ResolverStep(c)
  PROVE  /\ call' \in [Calls -> CallState] /\ entry' \in CacheEntry \cup {Missing}
         /\ UNCHANGED <<graph, generation, mirror, writer>>
<1>1. /\ call \in [Calls -> CallState] /\ call[c] \in CallState
      /\ entry \in CacheEntry \cup {Missing}
      /\ mirror \in Nat /\ clean \in [Calls -> BOOLEAN]
  BY DEF TypeOK
<1>2. CASE Resolve(c)
  <2>1. Usable(entry) => entry.trusted \in SUBSET Reads
    BY <1>1 DEF CacheEntry, Missing, Reads, Facts, Trusted, Usable
  <2>2. ASSUME Usable(entry)
        PROVE  [NoCall EXCEPT !.pc = "revalidate", !.left = RevalidationReads,
                              !.got = entry.trusted, !.cached = entry] \in CallState
    BY <1>1, <2>1, <2>2, NoCallIsTyped, ReadsAreTyped DEF CallState
  <2>3. [NoCall EXCEPT !.pc = "compute", !.left = ComputeReads] \in CallState
    BY NoCallIsTyped, ReadsAreTyped DEF CallState
  <2>4. QED
    BY <1>1, <1>2, <2>2, <2>3 DEF Resolve
<1>3. CASE Read(c)
  <2>1. call[c].left \in Seq(SUBSET Reads) /\ call[c].left # <<>> /\ call[c].got \in SUBSET Reads
    BY <1>1, <1>3 DEF Read, CallState
  <2>2. Tail(call[c].left) \in Seq(SUBSET Reads) /\ Head(call[c].left) \in SUBSET Reads
    BY <2>1
  <2> DEFINE got == call[c].got \cup {r \in Head(call[c].left) : FactOf(r) \in graph}
  <2>3. /\ got \in SUBSET Reads
        /\ call' = [call EXCEPT ![c] = [call[c] EXCEPT !.left = Tail(call[c].left), !.got = got]]
    BY <1>3, <2>1, <2>2 DEF Read
  <2> HIDE DEF got
  <2>4. [call[c] EXCEPT !.left = Tail(call[c].left), !.got = got] \in CallState
    BY <1>1, <2>1, <2>2, <2>3 DEF CallState
  <2>5. entry' = entry /\ UNCHANGED <<graph, generation, mirror, writer>>
    BY <1>3 DEF Read
  <2>6. QED
    BY <1>1, <2>3, <2>4, <2>5
<1>4. CASE Compare(c)
  <2>1. [NoCall EXCEPT !.pc = "compute", !.left = ComputeReads] \in CallState
    BY NoCallIsTyped, ReadsAreTyped DEF CallState
  <2>2. ASSUME AudienceOf(call[c].got) = call[c].cached.audience
        PROVE  [call[c] EXCEPT !.pc = "done", !.result = call[c].cached.audience] \in CallState
    <3>1. call[c].cached.audience \in Audiences
      BY <2>2, AudienceIsTyped
    <3>2. QED
      BY <1>1, <3>1 DEF CallState
  <2>3. QED
    BY <1>1, <1>4, <2>1, <2>2 DEF Compare
<1>5. CASE Store(c)
  <2>1. [call[c] EXCEPT !.pc = "done", !.result = AudienceOf(call[c].got)] \in CallState
    BY <1>1, AudienceIsTyped DEF CallState
  <2>2. call[c].got \cap Trusted \in SUBSET Trusted /\ clean[c] \in BOOLEAN
    BY <1>1
  <2>3. entry' \in CacheEntry
    BY <1>1, <1>5, <2>2, AudienceIsTyped DEF Store, CacheEntry
  <2>4. QED
    BY <1>1, <1>5, <2>1, <2>3 DEF Store
<1>6. CASE Return(c)
  BY <1>1, <1>6, NoCallIsTyped DEF Return
<1>7. QED
  BY <1>2, <1>3, <1>4, <1>5, <1>6 DEF ResolverStep

LEMMA WriterKeepsTypes ==
  ASSUME TypeOK, NEW w \in Writers, WriterStep(w)
  PROVE  /\ writer' \in [Writers -> WriterState] /\ graph' \in SUBSET Facts
         /\ generation' \in Nat /\ mirror' \in Nat
         /\ entry' \in CacheEntry \cup {Missing} /\ call' = call
<1>1. /\ writer \in [Writers -> WriterState] /\ writer[w] \in WriterState
      /\ graph \in SUBSET Facts /\ generation \in Nat /\ mirror \in Nat
      /\ entry \in CacheEntry \cup {Missing}
  BY DEF TypeOK
<1>2. NoWrite \in WriterState
  BY DEF NoWrite, WriterState, WriterPcs, Facts
<1>3. ASSUME NEW f \in Volatile, NEW transaction \in BOOLEAN, BeginWrite(w, f, transaction)
      PROVE  writer' \in [Writers -> WriterState]
  <2>1. f \in Facts
    BY ConstantsAssumption
  <2>2. [pc |-> IF transaction THEN "clear" ELSE "write",
         fact |-> f, transaction |-> transaction, row |-> 0] \in WriterState
    BY <2>1 DEF WriterState, WriterPcs
  <2>3. QED
    BY <1>1, <1>3, <2>2 DEF BeginWrite
<1>4. CASE Commit(w)
  <2>1. [writer[w] EXCEPT !.pc = "clear"] \in WriterState /\ writer[w].fact \in Facts
    BY <1>1 DEF WriterState, WriterPcs
  <2>2. QED
    BY <1>1, <1>2, <1>4, <2>1 DEF Commit
<1>5. CASE Clear(w)
  <2>1. [writer[w] EXCEPT !.pc = "upsert"] \in WriterState
    BY <1>1 DEF WriterState, WriterPcs
  <2>2. QED
    BY <1>1, <1>5, <2>1 DEF Clear
<1>6. CASE Upsert(w)
  <2>1. [writer[w] EXCEPT !.pc = "reply", !.row = generation + 1] \in WriterState
    <3>1. generation + 1 \in Nat
      BY <1>1
    <3>2. QED
      BY <1>1, <3>1 DEF WriterState, WriterPcs
  <2>2. QED
    BY <1>1, <1>6, <2>1 DEF Upsert
<1>7. CASE Reply(w)
  <2>1. [writer[w] EXCEPT !.pc = "commit"] \in WriterState /\ writer[w].row \in Nat
    BY <1>1 DEF WriterState, WriterPcs
  <2>2. QED
    BY <1>1, <1>2, <1>7, <2>1 DEF Reply
<1>8. CASE Fail(w)
  BY <1>1, <1>2, <1>8 DEF Fail
<1>9. QED
  BY <1>1, <1>3, <1>4, <1>5, <1>6, <1>7, <1>8 DEF WriterStep, BeginWrite, Commit, Clear, Upsert, Reply, Fail

LEMMA HistoryIsTyped ==
  ASSUME TypeOK, graph' \in SUBSET Facts, Observe
  PROVE  /\ held' \in [Calls -> SUBSET Facts]
         /\ moved' \in [Calls -> BOOLEAN] /\ clean' \in [Calls -> BOOLEAN]
<1>1. held \in [Calls -> SUBSET Facts] /\ moved \in [Calls -> BOOLEAN] /\ clean \in [Calls -> BOOLEAN]
  BY DEF TypeOK
<1>2. QED
  BY <1>1 DEF Observe

LEMMA NextKeepsTypes == TypeOK /\ [Next]_vars => TypeOK'
<1> SUFFICES ASSUME TypeOK, [Next]_vars PROVE TypeOK'
  OBVIOUS
<1>1. CASE UNCHANGED vars
  BY <1>1 DEF vars, TypeOK
<1>2. ASSUME Step, Observe PROVE TypeOK'
  <2>1. ASSUME NEW c \in Calls, ResolverStep(c) PROVE TypeOK'
    BY <2>1, <1>2, ResolverKeepsTypes, HistoryIsTyped DEF TypeOK
  <2>2. ASSUME NEW w \in Writers, WriterStep(w) PROVE TypeOK'
    BY <2>2, <1>2, WriterKeepsTypes, HistoryIsTyped DEF TypeOK
  <2>3. CASE TimePasses
    <3>1. graph' \in SUBSET Facts
      BY <2>3 DEF TimePasses, TypeOK, Facts
    <3>2. QED
      BY <2>3, <1>2, <3>1, HistoryIsTyped DEF TimePasses, TypeOK
  <2>4. CASE Restart
    <3>1. NoWrite \in WriterState
      BY DEF NoWrite, WriterState, WriterPcs, Facts
    <3>2. QED
      BY <2>4, <1>2, <3>1, NoCallIsTyped, HistoryIsTyped DEF Restart, TypeOK
  <2>5. QED
    BY <1>2, <2>1, <2>2, <2>3, <2>4 DEF Step
<1>3. QED
  BY <1>1, <1>2 DEF Next, Step

-----------------------------------------------------------------------------
(* The generation labels.                                                  *)

LEMMA InitRepliesAreNew == Init => RepliesAreNew
  BY DEF Init, RepliesAreNew, NoWrite

LEMMA StepKeepsRepliesNew ==
  ASSUME TypeOK, RepliesAreNew, [Next]_vars
  PROVE  RepliesAreNew'
<1>0. writer \in [Writers -> WriterState]
  BY DEF TypeOK
<1>1. CASE UNCHANGED vars
  BY <1>1 DEF vars, RepliesAreNew
<1>2. ASSUME NEW c \in Calls, ResolverStep(c) PROVE RepliesAreNew'
  <2>1. CASE Store(c)
    <3>1. entry'.generation = mirror /\ UNCHANGED <<generation, mirror, writer>>
      BY <2>1 DEF Store
    <3>2. QED
      BY <3>1 DEF RepliesAreNew
  <2>2. CASE Resolve(c) \/ Read(c) \/ Compare(c) \/ Return(c)
    BY <2>2 DEF Resolve, Read, Compare, Return, RepliesAreNew
  <2>3. QED
    BY <1>2, <2>1, <2>2 DEF ResolverStep
<1>3. ASSUME NEW w \in Writers, WriterStep(w) PROVE RepliesAreNew'
  <2>1. ASSUME NEW f \in Volatile, NEW transaction \in BOOLEAN, BeginWrite(w, f, transaction)
        PROVE  RepliesAreNew'
    BY <1>0, <2>1 DEF BeginWrite, RepliesAreNew
  <2>2. CASE Commit(w)
    BY <1>0, <2>2 DEF Commit, RepliesAreNew, NoWrite, WriterState
  <2>3. CASE Clear(w)
    BY <1>0, <2>3 DEF Clear, RepliesAreNew, WriterState
  <2>4. CASE Upsert(w)
    <3>1. /\ generation' = generation + 1 /\ mirror' = mirror /\ entry' = entry
          /\ \A v \in Writers \ {w} : writer'[v] = writer[v]
          /\ writer'[w].row = generation + 1
      BY <1>0, <2>4 DEF Upsert, WriterState
    <3>2. QED
      BY <3>1 DEF RepliesAreNew
  <2>5. CASE Reply(w)
    <3>1. /\ generation' = generation /\ mirror' = writer[w].row /\ entry' = entry
          /\ writer[w].pc = "reply" /\ writer'[w].pc # "reply"
          /\ \A v \in Writers \ {w} : writer'[v] = writer[v]
      BY <1>0, <2>5 DEF Reply, NoWrite, WriterState
    <3>2. QED
      BY <3>1 DEF RepliesAreNew
  <2>6. CASE Fail(w)
    BY <1>0, <2>6 DEF Fail, RepliesAreNew, NoWrite
  <2>7. QED
    BY <1>3, <2>1, <2>2, <2>3, <2>4, <2>5, <2>6 DEF WriterStep
<1>4. CASE TimePasses
  BY <1>4 DEF TimePasses, RepliesAreNew
<1>5. CASE Restart
  BY <1>5 DEF Restart, RepliesAreNew, NoWrite
<1>6. QED
  BY <1>1, <1>2, <1>3, <1>4, <1>5 DEF Next

LEMMA StepRetiresEntries ==
  IInv /\ [Next]_vars =>
    [\A w \in Writers :
       writer[w].pc = "reply" /\ writer'[w].pc # "reply" => ~Usable(entry)']_vars
<1> SUFFICES ASSUME IInv, Next, NEW w \in Writers,
                    writer[w].pc = "reply", writer'[w].pc # "reply"
             PROVE  ~Usable(entry)'
  OBVIOUS
<1> USE DEF IInv
<1>1. ASSUME NEW c \in Calls, ResolverStep(c) PROVE FALSE
  BY <1>1 DEF ResolverStep, Resolve, Read, Compare, Store, Return
<1>2. ASSUME NEW v \in Writers, WriterStep(v), v # w PROVE FALSE
  BY <1>2 DEF WriterStep, BeginWrite, Commit, Clear, Upsert, Reply, Fail, TypeOK
<1>3. CASE WriterStep(w)
  <2>1. Reply(w)
    BY <1>3 DEF WriterStep, BeginWrite, Commit, Clear, Upsert, Fail
  <2>2. QED
    BY <2>1 DEF Reply, RepliesAreNew, Usable
<1>4. CASE TimePasses
  BY <1>4 DEF TimePasses
<1>5. CASE Restart
  BY <1>5 DEF Restart, Usable
<1>6. QED
  BY <1>1, <1>2, <1>3, <1>4, <1>5 DEF Next

\* The types hold and the rows the pending replies carry are new to the
\* process and its cache, in every reachable state.
THEOREM InvariantHolds == Spec => []IInv
<1>1. Init => IInv
  BY InitIsTyped, InitRepliesAreNew DEF IInv
<1>2. IInv /\ [Next]_vars => IInv'
  BY StepKeepsRepliesNew, NextKeepsTypes DEF IInv
<1>3. QED
  BY <1>1, <1>2, PTL DEF Spec

\* However the replies of parallel bumps are reordered, failed, or cut short
\* by a restart, none leaves a usable entry behind.
THEOREM BumpsRetireEntries == Spec => BumpRetiresEveryEntry
<1>1. QED
  BY StepRetiresEntries, InvariantHolds, PTL DEF Spec, BumpRetiresEveryEntry

-----------------------------------------------------------------------------
(* What calls in flight and the cache entry rest on.                       *)

\* The facts every hit reads again.
LiveFacts == {"due", "pl", "hr", "fa"}

\* The reads a call has still to make; none is made twice.
Remaining(left) == UNION {left[i] : i \in 1 .. Len(left)}
NoReadTwice(left) == \A i, j \in 1 .. Len(left) : i # j => left[i] \cap left[j] = {}

\* The reads a call makes from the database: all, or what its entry leaves open.
ReadsOf(s) == IF s.cached = Missing THEN Reads ELSE LiveFacts
Answered(s) == ReadsOf(s) \ Remaining(s.left)

CallFits(s) ==
  /\ s.pc = "idle" => s = NoCall
  /\ s.pc \in {"idle", "done"} => s.left = <<>>
  /\ s.pc = "compute" => s.cached = Missing
  /\ s.pc = "revalidate" => s.cached # Missing
  /\ s.pc = "done" => s.result = AudienceOf(s.got)
  /\ NoReadTwice(s.left) /\ Remaining(s.left) \subseteq ReadsOf(s) \ s.got
  /\ s.cached # Missing => s.got \subseteq Facts /\ s.got \cap Trusted = s.cached.trusted

\* What a call has read held while it ran; holds now if the graph has not moved;
\* and, of the facts an entry remembers, holds now if no write was in flight.
ReadsHold(c) ==
  LET s == call[c]
  IN /\ s.got \cap LiveFacts \subseteq held[c]
     /\ s.pc # "idle" /\ ~moved[c] => \A r \in Answered(s) : r \in s.got <=> FactOf(r) \in graph
     /\ clean[c] =>
          /\ Quiet /\ s.pc # "idle"
          /\ \A r \in Answered(s) : FactOf(r) \in Trusted => (r \in s.got <=> FactOf(r) \in graph)
          /\ s.cached.clean => s.cached.trusted = graph \cap Trusted

\* A clean entry remembers what holds, or a write that has been committed is
\* about to remove it; one that has removed it has left none behind, and a
\* transaction removes it before its commit.
EntryFits ==
  /\ entry.clean =>
       \/ entry.trusted = graph \cap Trusted
       \/ \E w \in Writers : writer[w].pc = "clear" /\ ~writer[w].transaction
  /\ \A w \in Writers :
       /\ writer[w].pc \in {"upsert", "reply", "commit"} => ~entry.clean
       /\ writer[w].pc = "write" => ~writer[w].transaction

AnswersInv ==
  /\ TypeOK /\ EntryFits
  /\ \A c \in Calls : CallFits(call[c]) /\ ReadsHold(c)

\* The next read takes what it reads away from what remains, and from nothing else.
LEMMA NextRead ==
  ASSUME NEW left \in Seq(SUBSET Reads), left # <<>>, NoReadTwice(left)
  PROVE  /\ Tail(left) \in Seq(SUBSET Reads) /\ NoReadTwice(Tail(left))
         /\ Remaining(left) = Head(left) \cup Remaining(Tail(left))
         /\ Head(left) \cap Remaining(Tail(left)) = {}
<1> DEFINE rest == Tail(left)
<1>1. /\ Len(left) \in Nat \ {0} /\ Len(rest) = Len(left) - 1 /\ Head(left) = left[1]
      /\ rest \in Seq(SUBSET Reads)
      /\ \A i \in 1 .. Len(rest) : rest[i] = left[i + 1]
  OBVIOUS
<1> HIDE DEF rest
<1>2. NoReadTwice(rest)
  BY <1>1 DEF NoReadTwice
<1>3. Head(left) \cap Remaining(rest) = {}
  BY <1>1 DEF NoReadTwice, Remaining
<1>4. ASSUME NEW r \in Remaining(left)
      PROVE  r \in Head(left) \cup Remaining(rest)
  <2>1. PICK i \in 1 .. Len(left) : r \in left[i]
    BY <1>4 DEF Remaining
  <2>2. CASE i = 1
    BY <1>1, <2>1, <2>2
  <2>3. CASE i # 1
    <3>1. i - 1 \in 1 .. Len(rest) /\ rest[i - 1] = left[i]
      BY <1>1, <2>1, <2>3
    <3> QED
      BY <2>1, <3>1 DEF Remaining
  <2> QED
    BY <2>2, <2>3
<1>5. Head(left) \cup Remaining(rest) \subseteq Remaining(left)
  BY <1>1 DEF Remaining
<1> QED
  BY <1>1, <1>2, <1>3, <1>4, <1>5 DEF rest

LEMMA NothingRemains == Remaining(<<>>) = {} /\ NoReadTwice(<<>>)
BY DEF Remaining, NoReadTwice

LEMMA AllReads ==
  /\ Remaining(ComputeReads) = Reads /\ NoReadTwice(ComputeReads)
  /\ Remaining(RevalidationReads) = LiveFacts /\ NoReadTwice(RevalidationReads)
<1>1. PICK a : a = RevalidationReads
  OBVIOUS
<1>2. Len(a) = 3 /\ a[1] = {"pl", "due"} /\ a[2] = {"hr"} /\ a[3] = {"fa"}
  BY <1>1 DEF RevalidationReads
<1>3. \A i \in 1 .. Len(a) : i = 1 \/ i = 2 \/ i = 3
  BY <1>2
<1>4. Remaining(a) = LiveFacts
  <2>1. ASSUME NEW r \in LiveFacts PROVE \E i \in 1 .. Len(a) : r \in a[i]
    <3>1. 1 \in 1 .. Len(a) /\ 2 \in 1 .. Len(a) /\ 3 \in 1 .. Len(a)
      BY <1>2
    <3> QED
      BY <1>2, <3>1 DEF LiveFacts
  <2>2. \A i \in 1 .. Len(a) : a[i] \subseteq LiveFacts
    BY <1>2, <1>3 DEF LiveFacts
  <2> QED
    BY <2>1, <2>2 DEF Remaining
<1>5. NoReadTwice(a)
  BY <1>2, <1>3 DEF NoReadTwice
<1>6. PICK b : b = ComputeReads
  OBVIOUS
<1>7. /\ Len(b) = 7 /\ b[1] = {"pp"} /\ b[2] = {"rl"} /\ b[3] = {"asg"} /\ b[4] = {"pl", "due"}
      /\ b[5] = {"pp_again"} /\ b[6] = {"hr"} /\ b[7] = {"fa"}
  BY <1>6 DEF ComputeReads
<1>8. \A i \in 1 .. Len(b) : i = 1 \/ i = 2 \/ i = 3 \/ i = 4 \/ i = 5 \/ i = 6 \/ i = 7
  BY <1>7
<1>9. Remaining(b) = Reads
  <2>1. ASSUME NEW r \in Reads PROVE \E i \in 1 .. Len(b) : r \in b[i]
    <3>1. /\ 1 \in 1 .. Len(b) /\ 2 \in 1 .. Len(b) /\ 3 \in 1 .. Len(b) /\ 4 \in 1 .. Len(b)
          /\ 5 \in 1 .. Len(b) /\ 6 \in 1 .. Len(b) /\ 7 \in 1 .. Len(b)
      BY <1>7
    <3> QED
      BY <1>7, <3>1 DEF Reads, Facts
  <2>2. \A i \in 1 .. Len(b) : b[i] \subseteq Reads
    BY <1>7, <1>8 DEF Reads, Facts
  <2> QED
    BY <2>1, <2>2 DEF Remaining
<1>10. NoReadTwice(b)
  BY <1>7, <1>8 DEF NoReadTwice
<1> QED
  BY <1>1, <1>4, <1>5, <1>6, <1>9, <1>10

LEMMA HistoryOf ==
  ASSUME TypeOK, Observe, NEW c \in Calls
  PROVE  /\ held'[c] = IF call'[c].pc # "idle" THEN graph' \cup (IF call[c].pc = "idle" THEN {} ELSE held[c]) ELSE {}
         /\ moved'[c] <=> call'[c].pc # "idle" /\ call[c].pc # "idle" /\ (moved[c] \/ graph' # graph)
         /\ clean'[c] <=> call'[c].pc # "idle" /\ Quiet' /\ (call[c].pc = "idle" \/ clean[c])
         /\ moved[c] \in BOOLEAN /\ clean[c] \in BOOLEAN /\ moved'[c] \in BOOLEAN /\ clean'[c] \in BOOLEAN
BY DEF Observe, TypeOK

LEMMA IdleFits == CallFits(NoCall) /\ NoCall.got = {} /\ ~NoCall.cached.clean /\ NoCall.pc = "idle"
<1>1. /\ NoCall.pc = "idle" /\ NoCall.left = <<>> /\ NoCall.got = {} /\ NoCall.cached = Missing
      /\ ~Missing.clean
  BY DEF NoCall, Missing
<1> QED
  BY <1>1, NothingRemains DEF CallFits, ReadsOf

\* A call that does not move, beside a step that changes nothing an entry
\* remembers unless a write is in flight.
LEMMA WaitingKeeps ==
  ASSUME AnswersInv, Observe, NEW c \in Calls, call'[c] = call[c],
         Quiet => graph' \cap Trusted = graph \cap Trusted
  PROVE  CallFits(call'[c]) /\ ReadsHold(c)'
<1>1. CallFits(call'[c]) /\ ReadsHold(c) /\ TypeOK
  BY DEF AnswersInv
<1>2. CASE call[c].pc = "idle"
  <2>1. call'[c] = NoCall
    BY <1>1, <1>2 DEF CallFits
  <2> QED
    BY <1>1, <1>2, <2>1, HistoryOf, IdleFits DEF ReadsHold
<1>3. CASE call[c].pc # "idle"
  <2>1. call'[c].got \cap LiveFacts \subseteq held'[c]
    BY <1>1, <1>3, HistoryOf DEF ReadsHold
  <2>2. ASSUME ~moved'[c]
        PROVE  \A r \in Answered(call'[c]) : r \in call'[c].got <=> FactOf(r) \in graph'
    <3>1. ~moved[c] /\ graph' = graph
      BY <1>1, <1>3, <2>2, HistoryOf
    <3> QED
      BY <1>1, <1>3, <3>1 DEF ReadsHold
  <2>3. ASSUME clean'[c]
        PROVE  /\ Quiet' /\ call'[c].pc # "idle"
               /\ \A r \in Answered(call'[c]) :
                    FactOf(r) \in Trusted => (r \in call'[c].got <=> FactOf(r) \in graph')
               /\ call'[c].cached.clean => call'[c].cached.trusted = graph' \cap Trusted
    <3>1. clean[c] /\ Quiet'
      BY <1>1, <1>3, <2>3, HistoryOf
    <3>2. Quiet
      BY <1>1, <3>1 DEF ReadsHold
    <3>3. \A f \in Trusted : f \in graph' <=> f \in graph
      BY <3>2
    <3> QED
      BY <1>1, <1>3, <3>1, <3>2, <3>3 DEF ReadsHold
  <2> QED
    BY <1>1, <2>1, <2>2, <2>3 DEF ReadsHold
<1> QED
  BY <1>2, <1>3

\* A call moves to s, and the graph stays.
LEMMA MovingKeeps ==
  ASSUME TypeOK, Observe, NEW c \in Calls, NEW s, call'[c] = s, CallFits(s), graph' = graph,
         s.got \cap LiveFacts \subseteq held[c] \cup graph,
         call[c].pc = "idle" => s.got \cap LiveFacts = {},
         s.pc # "idle" /\ (call[c].pc = "idle" \/ ~moved[c]) =>
           \A r \in Answered(s) : r \in s.got <=> FactOf(r) \in graph,
         s.pc # "idle" /\ Quiet' /\ (call[c].pc = "idle" \/ clean[c]) =>
           /\ \A r \in Answered(s) : FactOf(r) \in Trusted => (r \in s.got <=> FactOf(r) \in graph)
           /\ s.cached.clean => s.cached.trusted = graph \cap Trusted
  PROVE  CallFits(call'[c]) /\ (s.pc # "idle" => ReadsHold(c)')
<1>1. ASSUME s.pc # "idle"
      PROVE  s.got \cap LiveFacts \subseteq held'[c]
  BY <1>1, HistoryOf
<1>2. ASSUME s.pc # "idle", ~moved'[c]
      PROVE  \A r \in Answered(s) : r \in s.got <=> FactOf(r) \in graph'
  BY <1>2, HistoryOf
<1>3. ASSUME s.pc # "idle", clean'[c]
      PROVE  /\ Quiet' /\ \A r \in Answered(s) : FactOf(r) \in Trusted => (r \in s.got <=> FactOf(r) \in graph')
             /\ s.cached.clean => s.cached.trusted = graph' \cap Trusted
  BY <1>3, HistoryOf
<1> QED
  BY <1>1, <1>2, <1>3 DEF ReadsHold

LEMMA LiveOrTrusted ==
  /\ LiveFacts \cap Trusted = {} /\ LiveFacts \cup Trusted = Facts /\ "pp_again" \notin Facts
  /\ \A r \in LiveFacts \cup Trusted : FactOf(r) = r
  /\ FactOf("pp_again") = "pp" /\ Reads = Facts \cup {"pp_again"}
BY DEF LiveFacts, Trusted, Facts, FactOf, Reads

LEMMA ResolveKeeps ==
  ASSUME AnswersInv, Observe, NEW c \in Calls, Resolve(c)
  PROVE  CallFits(call'[c]) /\ ReadsHold(c)'
<1>1. TypeOK /\ call[c].pc = "idle" /\ UNCHANGED <<graph, entry, writer>>
  BY DEF AnswersInv, Resolve
<1>2. PICK s : s = call'[c]
  OBVIOUS
<1>3. CASE s.pc = "revalidate"
  <2>1. /\ s = [NoCall EXCEPT !.pc = "revalidate", !.left = RevalidationReads, !.got = entry.trusted, !.cached = entry]
        /\ Usable(entry)
    BY <1>1, <1>2, <1>3 DEF Resolve, TypeOK, NoCall
  <2>2. s.left = RevalidationReads /\ s.got = entry.trusted /\ s.cached = entry
    BY <2>1 DEF NoCall
  <2>3. entry # Missing /\ entry.trusted \subseteq Trusted
    BY <1>1, <2>1 DEF Usable, TypeOK, CacheEntry
  <2>4. Answered(s) = {}
    BY <2>2, <2>3, AllReads DEF Answered, ReadsOf
  <2>5. CallFits(s)
    BY <1>3, <2>2, <2>3, AllReads, LiveOrTrusted DEF CallFits, ReadsOf
  <2>6. Quiet => (entry.clean => entry.trusted = graph \cap Trusted)
    BY DEF AnswersInv, EntryFits, Quiet
  <2>7. Quiet' => Quiet
    BY <1>1 DEF Quiet
  <2>8. s.got \cap LiveFacts = {}
    BY <2>2, <2>3, LiveOrTrusted
  <2>9. Quiet' => (s.cached.clean => s.cached.trusted = graph \cap Trusted)
    BY <2>2, <2>6, <2>7
  <2>10. /\ s.got \cap LiveFacts \subseteq held[c] \cup graph
         /\ \A r \in Answered(s) : r \in s.got <=> FactOf(r) \in graph
         /\ \A r \in Answered(s) : FactOf(r) \in Trusted => (r \in s.got <=> FactOf(r) \in graph)
    BY <2>4, <2>8
  <2>11. s.pc # "idle" /\ call'[c] = s /\ graph' = graph
    BY <1>1, <1>2, <1>3
  <2> QED
    BY <1>1, <2>5, <2>8, <2>9, <2>10, <2>11, MovingKeeps
<1>4. CASE s.pc # "revalidate"
  <2>1. s = [NoCall EXCEPT !.pc = "compute", !.left = ComputeReads]
    <3>1. PICK t : t = [NoCall EXCEPT !.pc = "revalidate", !.left = RevalidationReads,
                                      !.got = entry.trusted, !.cached = entry]
      OBVIOUS
    <3>2. t.pc = "revalidate"
      BY <3>1 DEF NoCall
    <3> QED
      BY <1>1, <1>2, <1>4, <3>1, <3>2 DEF Resolve, TypeOK
  <2>2. s.left = ComputeReads /\ s.got = {} /\ s.cached = Missing /\ s.pc = "compute" /\ ~s.cached.clean
    BY <2>1 DEF NoCall, Missing
  <2>3. Answered(s) = {}
    BY <2>2, AllReads DEF Answered, ReadsOf
  <2>4. CallFits(s)
    BY <2>2, AllReads DEF CallFits, ReadsOf
  <2> QED
    BY <1>1, <1>2, <2>2, <2>3, <2>4, MovingKeeps
<1> QED
  BY <1>3, <1>4

LEMMA ReadKeeps ==
  ASSUME AnswersInv, Observe, NEW c \in Calls, Read(c)
  PROVE  CallFits(call'[c]) /\ ReadsHold(c)'
<1>1. TypeOK /\ CallFits(call[c]) /\ ReadsHold(c) /\ UNCHANGED <<graph, writer>>
  BY DEF AnswersInv, Read
<1>2. call[c].left \in Seq(SUBSET Reads) /\ call[c].left # <<>> /\ call[c] \in CallState
  BY <1>1 DEF TypeOK, CallState, Read
<1>3. call[c].pc \in {"revalidate", "compute"}
  BY <1>1, <1>2 DEF CallFits, CallState
<1>4. PICK new : new = {r \in Head(call[c].left) : FactOf(r) \in graph}
  OBVIOUS
<1>5. PICK s : s = [call[c] EXCEPT !.left = Tail(call[c].left), !.got = call[c].got \cup new]
  OBVIOUS
<1>6. call'[c] = s
  BY <1>1, <1>4, <1>5 DEF Read, TypeOK
<1>7. /\ s.left = Tail(call[c].left) /\ s.got = call[c].got \cup new /\ s.pc = call[c].pc
      /\ s.cached = call[c].cached
  BY <1>2, <1>5 DEF CallState
<1>8. /\ NoReadTwice(s.left) /\ Remaining(call[c].left) = Head(call[c].left) \cup Remaining(s.left)
      /\ Head(call[c].left) \cap Remaining(s.left) = {}
  BY <1>1, <1>2, <1>7, NextRead DEF CallFits
<1>9. ReadsOf(s) = ReadsOf(call[c])
  BY <1>7 DEF ReadsOf
<1>10. Remaining(call[c].left) \subseteq ReadsOf(s) \ call[c].got
  BY <1>1, <1>9 DEF CallFits
<1>11. Remaining(s.left) \subseteq ReadsOf(s) \ s.got
  BY <1>4, <1>7, <1>8, <1>10
<1>12. Answered(s) = Answered(call[c]) \cup Head(call[c].left)
  BY <1>8, <1>9, <1>10 DEF Answered
<1>13. \A r \in Head(call[c].left) : r \in s.got <=> FactOf(r) \in graph
  BY <1>4, <1>7, <1>8, <1>10
<1>14. \A r \in Answered(call[c]) : r \in s.got <=> r \in call[c].got
  <2>1. new \subseteq Remaining(call[c].left)
    BY <1>4, <1>8
  <2> QED
    BY <1>7, <2>1 DEF Answered
<1>15. s.cached # Missing => new \subseteq LiveFacts
  BY <1>4, <1>7, <1>8, <1>10 DEF ReadsOf
<1>16. CallFits(s)
  <2>1. s.cached # Missing => s.got \subseteq Facts /\ s.got \cap Trusted = s.cached.trusted
    BY <1>1, <1>7, <1>15, LiveOrTrusted DEF CallFits
  <2> QED
    BY <1>1, <1>3, <1>7, <1>8, <1>11, <2>1 DEF CallFits
<1>17. s.got \cap LiveFacts \subseteq held[c] \cup graph
  BY <1>1, <1>4, <1>7, LiveOrTrusted DEF ReadsHold
<1>18. ~moved[c] => \A r \in Answered(s) : r \in s.got <=> FactOf(r) \in graph
  BY <1>1, <1>3, <1>12, <1>13, <1>14 DEF ReadsHold
<1>19. clean[c] => /\ \A r \in Answered(s) : FactOf(r) \in Trusted => (r \in s.got <=> FactOf(r) \in graph)
                   /\ s.cached.clean => s.cached.trusted = graph \cap Trusted
  BY <1>1, <1>7, <1>12, <1>13, <1>14 DEF ReadsHold
<1>20. s.pc # "idle" /\ call[c].pc # "idle"
  BY <1>3, <1>7
<1> QED
  BY <1>1, <1>6, <1>16, <1>17, <1>18, <1>19, <1>20, MovingKeeps

LEMMA CompareKeeps ==
  ASSUME AnswersInv, Observe, NEW c \in Calls, Compare(c)
  PROVE  CallFits(call'[c]) /\ ReadsHold(c)'
<1>1. /\ TypeOK /\ CallFits(call[c]) /\ ReadsHold(c) /\ UNCHANGED <<graph, writer>>
      /\ call[c].pc = "revalidate" /\ call[c].left = <<>>
  BY DEF AnswersInv, Compare
<1>2. call[c] \in CallState
  BY <1>1 DEF TypeOK
<1>3. CASE AudienceOf(call[c].got) = call[c].cached.audience
  <2>1. PICK s : s = [call[c] EXCEPT !.pc = "done", !.result = call[c].cached.audience]
    OBVIOUS
  <2>2. call'[c] = s
    BY <1>1, <1>3, <2>1 DEF Compare, TypeOK
  <2>3. /\ s.left = <<>> /\ s.got = call[c].got /\ s.pc = "done" /\ s.cached = call[c].cached
        /\ s.result = AudienceOf(s.got)
    BY <1>1, <1>2, <1>3, <2>1 DEF CallState
  <2>4. Answered(s) = Answered(call[c]) /\ ReadsOf(s) = ReadsOf(call[c])
    BY <1>1, <2>3 DEF Answered, ReadsOf
  <2>5. CallFits(s)
    BY <1>1, <2>3, <2>4, NothingRemains DEF CallFits
  <2> QED
    BY <1>1, <2>2, <2>3, <2>4, <2>5, MovingKeeps DEF ReadsHold
<1>4. CASE AudienceOf(call[c].got) # call[c].cached.audience
  <2>1. PICK s : s = [NoCall EXCEPT !.pc = "compute", !.left = ComputeReads]
    OBVIOUS
  <2>2. call'[c] = s
    BY <1>1, <1>4, <2>1 DEF Compare, TypeOK
  <2>3. s.left = ComputeReads /\ s.got = {} /\ s.cached = Missing /\ s.pc = "compute" /\ ~s.cached.clean
    BY <2>1 DEF NoCall, Missing
  <2>4. Answered(s) = {}
    BY <2>3, AllReads DEF Answered, ReadsOf
  <2>5. CallFits(s)
    BY <2>3, AllReads DEF CallFits, ReadsOf
  <2> QED
    BY <1>1, <2>2, <2>3, <2>4, <2>5, MovingKeeps
<1> QED
  BY <1>3, <1>4

LEMMA StoreKeeps ==
  ASSUME AnswersInv, Observe, NEW c \in Calls, Store(c)
  PROVE  CallFits(call'[c]) /\ ReadsHold(c)'
<1>1. /\ TypeOK /\ CallFits(call[c]) /\ ReadsHold(c) /\ UNCHANGED <<graph, writer>>
      /\ call[c].pc = "compute" /\ call[c].left = <<>>
  BY DEF AnswersInv, Store
<1>2. call[c] \in CallState
  BY <1>1 DEF TypeOK
<1>3. PICK s : s = [call[c] EXCEPT !.pc = "done", !.result = AudienceOf(call[c].got)]
  OBVIOUS
<1>4. call'[c] = s
  BY <1>1, <1>3 DEF Store, TypeOK
<1>5. /\ s.left = <<>> /\ s.got = call[c].got /\ s.pc = "done" /\ s.cached = call[c].cached
      /\ s.result = AudienceOf(s.got)
  BY <1>1, <1>2, <1>3 DEF CallState
<1>6. Answered(s) = Answered(call[c]) /\ ReadsOf(s) = ReadsOf(call[c])
  BY <1>1, <1>5 DEF Answered, ReadsOf
<1>7. CallFits(s)
  BY <1>1, <1>5, <1>6, NothingRemains DEF CallFits
<1> QED
  BY <1>1, <1>4, <1>5, <1>6, <1>7, MovingKeeps DEF ReadsHold

\* A call that is gone.
LEMMA GoneKeeps ==
  ASSUME TypeOK, Observe, NEW c \in Calls, call'[c] = NoCall
  PROVE  CallFits(call'[c]) /\ ReadsHold(c)'
<1>1. ~clean'[c]
  BY HistoryOf, IdleFits
<1> QED
  BY <1>1, IdleFits DEF ReadsHold

LEMMA CallsKeep ==
  ASSUME AnswersInv, Next
  PROVE  \A c \in Calls : CallFits(call'[c]) /\ ReadsHold(c)'
<1> SUFFICES ASSUME NEW c \in Calls
             PROVE  CallFits(call'[c]) /\ ReadsHold(c)'
  OBVIOUS
<1>1. TypeOK /\ Observe
  BY DEF AnswersInv, Next
<1>2. CASE ResolverStep(c)
  <2>1. CASE Return(c)
    BY <1>1, <2>1, GoneKeeps DEF Return, TypeOK
  <2> QED
    BY <1>1, <1>2, <2>1, ResolveKeeps, ReadKeeps, CompareKeeps, StoreKeeps DEF ResolverStep
<1>3. ASSUME NEW d \in Calls \ {c}, ResolverStep(d)
      PROVE  call'[c] = call[c] /\ graph' = graph
  BY <1>1, <1>3 DEF ResolverStep, Resolve, Read, Compare, Store, Return, TypeOK
<1>4. ASSUME NEW w \in Writers, WriterStep(w)
      PROVE  call'[c] = call[c] /\ (Quiet => graph' = graph)
  BY <1>4 DEF WriterStep, BeginWrite, Commit, Clear, Upsert, Reply, Fail, Quiet
<1>5. ASSUME TimePasses
      PROVE  call'[c] = call[c] /\ graph' \cap Trusted = graph \cap Trusted
  BY <1>5 DEF TimePasses, Trusted
<1>6. CASE Restart
  BY <1>1, <1>6, GoneKeeps DEF Restart
<1> QED
  BY <1>1, <1>2, <1>3, <1>4, <1>5, <1>6, WaitingKeeps DEF Next

LEMMA EntryKeeps ==
  ASSUME AnswersInv, Next
  PROVE  EntryFits'
<1>1. TypeOK /\ EntryFits /\ Observe
  BY DEF AnswersInv, Next
<1>2. ASSUME NEW c \in Calls, Store(c)
      PROVE  EntryFits'
  <2>1. /\ entry'.clean = clean[c] /\ entry'.trusted = call[c].got \cap Trusted
        /\ UNCHANGED <<graph, writer>>
    BY <1>2 DEF Store
  <2>2. CASE ~clean[c]
    BY <1>1, <2>1, <2>2 DEF EntryFits
  <2>3. CASE clean[c]
    <3>1. CallFits(call[c]) /\ ReadsHold(c) /\ call[c].pc = "compute" /\ call[c].left = <<>>
      BY <1>2 DEF AnswersInv, Store
    <3>2. Answered(call[c]) = Reads
      BY <3>1, NothingRemains DEF Answered, ReadsOf, CallFits
    <3>3. Quiet /\ \A r \in Trusted : r \in call[c].got <=> r \in graph
      BY <2>3, <3>1, <3>2, LiveOrTrusted DEF ReadsHold
    <3>4. entry'.trusted = graph' \cap Trusted
      BY <2>1, <3>3
    <3>5. \A w \in Writers : writer'[w].pc = "idle"
      BY <2>1, <3>3 DEF Quiet
    <3> QED
      BY <3>4, <3>5 DEF EntryFits
  <2> QED
    BY <2>2, <2>3
<1>3. ASSUME NEW c \in Calls, Resolve(c) \/ Read(c) \/ Compare(c) \/ Return(c)
      PROVE  EntryFits'
  BY <1>1, <1>3 DEF Resolve, Read, Compare, Return, EntryFits
<1>4. ASSUME NEW w \in Writers, WriterStep(w)
      PROVE  EntryFits'
  <2>1. \A v \in Writers \ {w} : writer'[v] = writer[v]
    BY <1>1, <1>4 DEF WriterStep, BeginWrite, Commit, Clear, Upsert, Reply, Fail, TypeOK
  <2>2. writer[w] \in WriterState /\ writer \in [Writers -> WriterState]
    BY <1>1 DEF TypeOK
  <2>3. ASSUME NEW f \in Volatile, NEW transaction \in BOOLEAN, BeginWrite(w, f, transaction)
        PROVE  EntryFits'
    <3>1. /\ UNCHANGED <<graph, entry>> /\ writer[w].pc = "idle" /\ writer'[w].pc \in {"clear", "write"}
          /\ writer'[w].pc = "write" => ~writer'[w].transaction
      BY <2>2, <2>3 DEF BeginWrite
    <3> QED
      BY <1>1, <2>1, <3>1 DEF EntryFits
  <2>4. CASE Commit(w)
    <3>1. CASE writer[w].transaction
      <4>1. writer[w].pc = "commit"
        BY <1>1, <2>4, <3>1 DEF Commit, EntryFits
      <4> QED
        BY <1>1, <2>1, <2>2, <2>4, <3>1, <4>1 DEF Commit, EntryFits, NoWrite
    <3>2. CASE ~writer[w].transaction
      <4>1. writer'[w].pc = "clear" /\ ~writer'[w].transaction /\ entry' = entry
        BY <2>2, <2>4, <3>2 DEF Commit, WriterState
      <4> QED
        BY <1>1, <2>1, <4>1 DEF EntryFits
    <3> QED
      BY <3>1, <3>2
  <2>5. CASE Clear(w)
    <3>1. writer'[w].pc = "upsert" /\ entry' = Missing
      BY <2>2, <2>5 DEF Clear, WriterState
    <3> QED
      BY <1>1, <2>1, <3>1 DEF EntryFits, Missing
  <2>6. ASSUME UNCHANGED <<graph, entry>>, writer[w].pc # "clear", writer'[w].pc # "write",
               writer'[w].pc \in {"upsert", "reply", "commit"} => writer[w].pc \in {"upsert", "reply", "commit"}
        PROVE  EntryFits'
    BY <1>1, <2>1, <2>6 DEF EntryFits
  <2>7. CASE Upsert(w)
    <3>1. writer[w].pc = "upsert" /\ writer'[w].pc = "reply" /\ UNCHANGED <<graph, entry>>
      BY <2>2, <2>7 DEF Upsert, WriterState
    <3> QED
      BY <2>6, <3>1
  <2>8. CASE Reply(w)
    <3>1. writer[w].pc = "reply" /\ writer'[w].pc \in {"commit", "idle"} /\ UNCHANGED <<graph, entry>>
      BY <2>2, <2>8 DEF Reply, NoWrite, WriterState
    <3> QED
      BY <2>6, <3>1
  <2>9. CASE Fail(w)
    <3>1. writer[w].pc # "clear" /\ writer'[w].pc = "idle" /\ UNCHANGED <<graph, entry>>
      BY <2>2, <2>9 DEF Fail, NoWrite
    <3> QED
      BY <2>6, <3>1
  <2> QED
    BY <1>4, <2>3, <2>4, <2>5, <2>7, <2>8, <2>9 DEF WriterStep
<1>5. CASE TimePasses
  <2>1. graph' \cap Trusted = graph \cap Trusted /\ UNCHANGED <<entry, writer>>
    BY <1>5 DEF TimePasses, Trusted
  <2> QED
    BY <1>1, <2>1 DEF EntryFits
<1>6. CASE Restart
  BY <1>6 DEF Restart, EntryFits, Missing, NoWrite
<1> QED
  BY <1>2, <1>3, <1>4, <1>5, <1>6 DEF Next, ResolverStep

\* The strengthened invariant: what a call has read and what an entry remembers.
THEOREM AnswersAlwaysFit == Spec => []AnswersInv
<1>1. Init => AnswersInv
  <2> SUFFICES ASSUME Init PROVE AnswersInv
    OBVIOUS
  <2>1. TypeOK
    BY InitIsTyped
  <2>2. EntryFits
    BY DEF Init, EntryFits, Missing, NoWrite
  <2>3. \A c \in Calls : call[c] = NoCall /\ ~clean[c]
    BY DEF Init
  <2>4. \A c \in Calls : CallFits(call[c]) /\ ReadsHold(c)
    BY <2>3, IdleFits DEF ReadsHold
  <2> QED
    BY <2>1, <2>2, <2>4 DEF AnswersInv
<1>2. AnswersInv /\ [Next]_vars => AnswersInv'
  <2> SUFFICES ASSUME AnswersInv, [Next]_vars PROVE AnswersInv'
    OBVIOUS
  <2>1. TypeOK'
    BY NextKeepsTypes DEF AnswersInv
  <2>2. CASE Next
    BY <2>1, <2>2, CallsKeep, EntryKeeps DEF AnswersInv
  <2>3. CASE UNCHANGED vars
    BY <2>1, <2>3 DEF vars, AnswersInv, EntryFits, ReadsHold, Quiet
  <2> QED
    BY <2>2, <2>3
<1> QED
  BY <1>1, <1>2, PTL DEF Spec

\* An entry that was computed while no graph write was in flight serves no stale
\* audience once the writes after it have ended (resolveAudience, bump).
THEOREM CleanEntriesTheorem == Spec => []CleanEntryIsNeverStale
<1>1. AnswersInv => CleanEntryIsNeverStale
  <2> SUFFICES ASSUME AnswersInv, Quiet, entry.clean PROVE ~ServesStale
    BY DEF CleanEntryIsNeverStale
  <2>1. entry.trusted = graph \cap Trusted
    BY DEF AnswersInv, EntryFits, Quiet
  <2>2. entry.trusted \cup (graph \ Trusted) = graph
    BY <2>1
  <2> QED
    BY <2>2 DEF ServesStale, Rebuilt
<1> QED
  BY <1>1, AnswersAlwaysFit, PTL

\* An audience that rests on the clock, a grant, or the walks above an assignment's
\* managers and the people partner is only answered if these held at some moment
\* of the call (audienceFromRevalidation).
THEOREM LiveLegsTheorem == Spec => []LiveLegsHeldDuringCall
<1>1. AnswersInv => LiveLegsHeldDuringCall
  <2> SUFFICES ASSUME AnswersInv, NEW c \in Calls, call[c].pc = "done"
               PROVE  /\ "FullAccess" \in call[c].result => "fa" \in held[c]
                      /\ "ProjectLine" \in call[c].result => {"due", "pl"} \subseteq held[c]
                      /\ "PP" \in call[c].result => "hr" \in held[c]
    BY DEF LiveLegsHeldDuringCall
  <2>1. call[c].result = AudienceOf(call[c].got) /\ call[c].got \cap LiveFacts \subseteq held[c]
    BY DEF AnswersInv, CallFits, ReadsHold
  <2>2. /\ "FullAccess" \in call[c].result => "fa" \in call[c].got
        /\ "ProjectLine" \in call[c].result => {"due", "pl"} \subseteq call[c].got
        /\ "PP" \in call[c].result => "hr" \in call[c].got
    BY <2>1 DEF AudienceOf
  <2> QED
    BY <2>1, <2>2 DEF LiveFacts
<1> QED
  BY <1>1, AnswersAlwaysFit, PTL

\* A call during which the graph did not change answers what the graph says,
\* whether it computed the audience or reused a clean entry (resolveAudience).
THEOREM UndisturbedCallTheorem == Spec => []UndisturbedCallIsExact
<1>1. AnswersInv => UndisturbedCallIsExact
  <2> SUFFICES ASSUME AnswersInv, NEW c \in Calls, call[c].pc = "done", ~moved[c],
                      call[c].cached = Missing \/ (call[c].cached.clean /\ clean[c])
               PROVE  call[c].result = AudienceOf(graph)
    BY DEF UndisturbedCallIsExact
  <2>1. call[c].result = AudienceOf(call[c].got) /\ CallFits(call[c]) /\ ReadsHold(c) /\ call[c].left = <<>>
    BY DEF AnswersInv, CallFits
  <2>2. Answered(call[c]) = ReadsOf(call[c])
    BY <2>1, NothingRemains DEF Answered
  <2>3. \A r \in ReadsOf(call[c]) : r \in call[c].got <=> FactOf(r) \in graph
    BY <2>1, <2>2 DEF ReadsHold
  <2>4. graph \subseteq Facts
    BY DEF AnswersInv, TypeOK
  <2>5. CASE call[c].cached = Missing
    <3>1. \A f \in Facts : f \in call[c].got <=> f \in graph
      BY <2>3, <2>5, LiveOrTrusted DEF ReadsOf
    <3>2. "pp_again" \in call[c].got <=> "pp" \in graph
      BY <2>3, <2>5, LiveOrTrusted DEF ReadsOf
    <3>3. "pp_again" \notin graph
      BY <2>4, LiveOrTrusted
    <3>4. AudienceOf(call[c].got) = AudienceOf(graph)
      BY <3>1, <3>2, <3>3 DEF AudienceOf, Facts
    <3> QED
      BY <2>1, <3>4
  <2>6. CASE call[c].cached # Missing
    <3>1. call[c].got \subseteq Facts /\ call[c].got \cap Trusted = graph \cap Trusted
      BY <2>1, <2>6 DEF CallFits, ReadsHold
    <3>2. \A f \in LiveFacts : f \in call[c].got <=> f \in graph
      BY <2>3, <2>6, LiveOrTrusted DEF ReadsOf
    <3>3. call[c].got = graph
      BY <2>4, <3>1, <3>2, LiveOrTrusted
    <3> QED
      BY <2>1, <3>3
  <2> QED
    BY <2>5, <2>6
<1> QED
  BY <1>1, AnswersAlwaysFit, PTL
=============================================================================

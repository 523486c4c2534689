----------------------------- MODULE AccessCache -----------------------------
(***************************************************************************)
(* The cached answer of AccessResolverService.resolveAudience for one      *)
(* viewer and one subject, and the generation counter that invalidates it  *)
(* (src/modules/access/access-resolver.service.ts,                         *)
(* relationship-graph-generation.service.ts and                            *)
(* src/prisma/extensions/relationship-graph.extension.ts).                 *)
(*                                                                         *)
(* A call of resolveAudience and a write of the relationship graph run     *)
(* concurrently in one process; every await is a step of its own.  What    *)
(* the database says of the pair is the set of facts that hold, and a      *)
(* query (a walk of the manager chain included) reads one of them.         *)
(***************************************************************************)
EXTENDS Naturals, FiniteSets, Sequences

CONSTANTS
  Calls,           \* calls of resolveAudience in flight at once
  Writers,         \* graph writes in flight at once
  InitialGraphs,   \* what the database may say at first
  Volatile,        \* the facts the writers change
  TimeMatters,     \* whether assignments start and lapse while we watch
  Ttl,             \* whether ACCESS_RESOLUTION_CACHE_TTL_MS is configured
  MaxGeneration    \* bound: the generation row is bumped this often at most

(***************************************************************************)
(*   rl   the viewer is in the subject's reporting line                    *)
(*   asg  the subject has a confirmed project assignment row               *)
(*   due  now lies within that row's dates and confirmation window         *)
(*   pl   the viewer is the row's PM or DM, or above them                  *)
(*   pp   the subject has a people partner                                 *)
(*   hr   the viewer is that partner, or above them within HR              *)
(*   fa   the viewer holds a full-access grant that is not revoked         *)
(***************************************************************************)
Facts == {"rl", "asg", "due", "pl", "pp", "hr", "fa"}

\* Mutant: revalidation believes the fullAccess flag the entry also stores.
TrustedWithGrant == {"rl", "asg", "pp", "fa"}

\* What a cache entry remembers instead of reading it again.
Trusted == {"rl", "asg", "pp"}

ASSUME ConstantsAssumption ==
  /\ InitialGraphs \subseteq SUBSET Facts /\ Volatile \subseteq Facts \ {"due"}
  /\ TimeMatters \in BOOLEAN /\ Ttl \in BOOLEAN /\ MaxGeneration \in Nat

\* resolvePp asks for the people partner again when the first read found none.
Reads == Facts \cup {"pp_again"}
FactOf(read) == IF read = "pp_again" THEN "pp" ELSE read

VARIABLES
  graph,       \* the facts that hold in the database
  generation,  \* the access_graph_generation row
  mirror,      \* currentGeneration in the process
  entry,       \* the pair's cache entry, or Missing
  call,        \* call[c]: where a call of resolveAudience is
  writer,      \* writer[w]: where a graph write and its bump are
  held,        \* history: held[c]: the facts that held at some moment of call c
  moved,       \* history: moved[c]: the graph has changed since c began
  clean        \* history: clean[c]: no graph write in flight since c began

vars == <<graph, generation, mirror, entry, call, writer, held, moved, clean>>

Audiences == SUBSET {"ReportingLine", "ProjectLine", "PP", "FullAccess"}

CacheEntry ==
  [generation : Nat, audience : Audiences, trusted : SUBSET Trusted, clean : BOOLEAN]
Missing == [generation |-> 0, audience |-> {"Missing"}, trusted |-> {}, clean |-> FALSE]

CallState ==
  [pc : {"idle", "revalidate", "compute", "done"}, left : Seq(SUBSET Reads),
   got : SUBSET Reads, cached : CacheEntry \cup {Missing}, result : Audiences]
NoCall == [pc |-> "idle", left |-> <<>>, got |-> {}, cached |-> Missing, result |-> {}]

WriterPcs == {"idle", "write", "clear", "upsert", "reply", "commit"}
WriterState ==
  [pc : WriterPcs, fact : Facts, transaction : BOOLEAN, row : Nat]
NoWrite == [pc |-> "idle", fact |-> "rl", transaction |-> FALSE, row |-> 0]

TypeOK ==
  /\ graph \in SUBSET Facts /\ generation \in Nat /\ mirror \in Nat
  /\ entry \in CacheEntry \cup {Missing}
  /\ call \in [Calls -> CallState]
  /\ writer \in [Writers -> WriterState]
  /\ held \in [Calls -> SUBSET Facts]
  /\ moved \in [Calls -> BOOLEAN] /\ clean \in [Calls -> BOOLEAN]

\* The process has just started: an empty cache, the generation loaded.
Init ==
  /\ graph \in InitialGraphs
  /\ generation = 0 /\ mirror = 0 /\ entry = Missing
  /\ call = [c \in Calls |-> NoCall]
  /\ writer = [w \in Writers |-> NoWrite]
  /\ held = [c \in Calls |-> {}]
  /\ moved = [c \in Calls |-> FALSE]
  /\ clean = [c \in Calls |-> FALSE]

-----------------------------------------------------------------------------
(* What an audience is made of.                                            *)

(***************************************************************************)
(* The audiences matched on the facts read, as far as two answers can be   *)
(* told apart: full access outranks and includes everything, PP includes   *)
(* what a project line grants, and no match at all is a colleague.         *)
(***************************************************************************)
AudienceOf(facts) ==
  LET line == IF "rl" \in facts THEN {"ReportingLine"}
              ELSE IF {"asg", "due", "pl"} \subseteq facts THEN {"ProjectLine"} ELSE {}
      partner == IF "hr" \in facts /\ {"pp", "pp_again"} \cap facts # {} THEN {"PP"} ELSE {}
  IN IF "fa" \in facts THEN {"FullAccess"}
     ELSE partner \cup (IF partner # {} THEN line \ {"ProjectLine"} ELSE line)

RevalidationReads == <<{"pl", "due"}, {"hr"}, {"fa"}>>
ComputeReads == <<{"pp"}, {"rl"}, {"asg"}, {"pl", "due"}, {"pp_again"}, {"hr"}, {"fa"}>>

Usable(e) == e # Missing /\ e.generation = mirror

-----------------------------------------------------------------------------
(* resolveAudience.                                                        *)

\* The entry and the generation are looked at synchronously.
Resolve(c) ==
  /\ call[c].pc = "idle"
  /\ \/ /\ Usable(entry)
        /\ call' = [call EXCEPT ![c] =
             [NoCall EXCEPT !.pc = "revalidate", !.left = RevalidationReads,
                            !.got = entry.trusted, !.cached = entry]]
     \/ /\ ~Usable(entry) \/ Ttl
        /\ call' = [call EXCEPT ![c] = [NoCall EXCEPT !.pc = "compute", !.left = ComputeReads]]
  /\ UNCHANGED <<graph, generation, mirror, entry, writer>>

\* The next query of audienceFromRevalidation or computeAudience is answered.
Read(c) ==
  /\ call[c].left # <<>>
  /\ call' = [call EXCEPT ![c] =
       [@ EXCEPT !.left = Tail(call[c].left),
                 !.got = call[c].got \cup {r \in Head(call[c].left) : FactOf(r) \in graph}]]
  /\ UNCHANGED <<graph, generation, mirror, entry, writer>>

\* Mutant: after a failed comparison computeAudience reuses what was read.
CompareKeepsReads(c) ==
  /\ call[c].pc = "revalidate" /\ call[c].left = <<>>
  /\ call' = [call EXCEPT ![c] =
       IF AudienceOf(call[c].got) = call[c].cached.audience
         THEN [@ EXCEPT !.pc = "done", !.result = call[c].cached.audience]
         ELSE [NoCall EXCEPT !.pc = "compute", !.left = ComputeReads, !.got = call[c].got]]
  /\ UNCHANGED <<graph, generation, mirror, entry, writer>>

\* The rebuilt audience is the cached one, which is served; otherwise a miss.
Compare(c) ==
  /\ call[c].pc = "revalidate" /\ call[c].left = <<>>
  /\ call' = [call EXCEPT ![c] =
       IF AudienceOf(call[c].got) = call[c].cached.audience
         THEN [@ EXCEPT !.pc = "done", !.result = call[c].cached.audience]
         ELSE [NoCall EXCEPT !.pc = "compute", !.left = ComputeReads]]
  /\ UNCHANGED <<graph, generation, mirror, entry, writer>>

Quiet == \A w \in Writers : writer[w].pc = "idle"

\* The entry is labelled with the generation of the moment it is stored.
Store(c) ==
  /\ call[c].pc = "compute" /\ call[c].left = <<>>
  /\ entry' = [generation |-> mirror, audience |-> AudienceOf(call[c].got),
               trusted |-> call[c].got \cap Trusted, clean |-> clean[c]]
  /\ call' = [call EXCEPT ![c] =
       [@ EXCEPT !.pc = "done", !.result = AudienceOf(call[c].got)]]
  /\ UNCHANGED <<graph, generation, mirror, writer>>

Return(c) ==
  /\ call[c].pc = "done"
  /\ call' = [call EXCEPT ![c] = NoCall]
  /\ UNCHANGED <<graph, generation, mirror, entry, writer>>

-----------------------------------------------------------------------------
(* Graph writes and the bump that follows them.                            *)

InFlight == Cardinality({w \in Writers : writer[w].pc # "idle"})

\* A statement of its own commits first and bumps when it is answered; one
\* inside an interactive transaction is answered, and bumps, before commit.
BeginWrite(w, f, transaction) ==
  /\ writer[w].pc = "idle"
  /\ generation + InFlight < MaxGeneration
  /\ writer' = [writer EXCEPT ![w] =
       [pc |-> IF transaction THEN "clear" ELSE "write",
        fact |-> f, transaction |-> transaction, row |-> 0]]
  /\ UNCHANGED <<graph, generation, mirror, entry, call>>

Commit(w) ==
  /\ writer[w].pc \in {"write", "commit"}
  /\ graph' = IF writer[w].fact \in graph THEN graph \ {writer[w].fact}
                                          ELSE graph \cup {writer[w].fact}
  /\ writer' = [writer EXCEPT ![w] =
       IF @.transaction THEN NoWrite ELSE [@ EXCEPT !.pc = "clear"]]
  /\ UNCHANGED <<generation, mirror, entry, call>>

\* Mutant: the cache is left to the generation check alone.
ClearForgotten(w) ==
  /\ writer[w].pc = "clear"
  /\ entry' = entry
  /\ writer' = [writer EXCEPT ![w].pc = "upsert"]
  /\ UNCHANGED <<graph, generation, mirror, call>>

Clear(w) ==
  /\ writer[w].pc = "clear"
  /\ entry' = Missing
  /\ writer' = [writer EXCEPT ![w].pc = "upsert"]
  /\ UNCHANGED <<graph, generation, mirror, call>>

\* Mutant: the row is set to the process's generation plus one.
UpsertFromMirror(w) ==
  /\ writer[w].pc = "upsert"
  /\ generation' = mirror + 1
  /\ writer' = [writer EXCEPT ![w] = [@ EXCEPT !.pc = "reply", !.row = mirror + 1]]
  /\ UNCHANGED <<graph, mirror, entry, call>>

Upsert(w) ==
  /\ writer[w].pc = "upsert"
  /\ generation' = generation + 1
  /\ writer' = [writer EXCEPT ![w] = [@ EXCEPT !.pc = "reply", !.row = generation + 1]]
  /\ UNCHANGED <<graph, mirror, entry, call>>

\* Replies of parallel bumps may be handled in either order.
Reply(w) ==
  /\ writer[w].pc = "reply"
  /\ mirror' = writer[w].row
  /\ writer' = [writer EXCEPT ![w] =
       IF @.transaction THEN [@ EXCEPT !.pc = "commit"] ELSE NoWrite]
  /\ UNCHANGED <<graph, generation, entry, call>>

\* The write, or its bump, is answered with an error: a transaction rolls
\* back, a write of its own stays committed.
Fail(w) ==
  /\ writer[w].pc \in {"write", "upsert", "commit"}
  /\ writer' = [writer EXCEPT ![w] = NoWrite]
  /\ UNCHANGED <<graph, generation, mirror, entry, call>>

-----------------------------------------------------------------------------
\* Without any write, an assignment starts, ends or loses its confirmation.
TimePasses ==
  /\ TimeMatters
  /\ graph' = IF "due" \in graph THEN graph \ {"due"} ELSE graph \cup {"due"}
  /\ UNCHANGED <<generation, mirror, entry, call, writer>>

\* The process restarts: whatever was in flight is gone.
Restart ==
  /\ mirror' = generation /\ entry' = Missing
  /\ call' = [c \in Calls |-> NoCall]
  /\ writer' = [w \in Writers |-> NoWrite]
  /\ UNCHANGED <<graph, generation>>

\* What the history variables record of every step.
Observe ==
  LET active(c) == call'[c].pc # "idle"
      began(c) == call[c].pc = "idle"
  IN /\ held' = [c \in Calls |->
          IF active(c) THEN graph' \cup (IF began(c) THEN {} ELSE held[c]) ELSE {}]
     /\ moved' = [c \in Calls |-> active(c) /\ ~began(c) /\ (moved[c] \/ graph' # graph)]
     /\ clean' = [c \in Calls |-> active(c) /\ Quiet' /\ (began(c) \/ clean[c])]

ResolverStep(c) == Resolve(c) \/ Read(c) \/ Compare(c) \/ Store(c) \/ Return(c)

WriterStep(w) ==
  \/ \E f \in Volatile, transaction \in BOOLEAN : BeginWrite(w, f, transaction)
  \/ Commit(w) \/ Clear(w) \/ Upsert(w) \/ Reply(w) \/ Fail(w)

Next ==
  /\ \/ \E c \in Calls : ResolverStep(c)
     \/ \E w \in Writers : WriterStep(w)
     \/ TimePasses \/ Restart
  /\ Observe

Spec == Init /\ [][Next]_vars

-----------------------------------------------------------------------------
(* Properties.                                                             *)

\* The clock, the grants, and the walks above an assignment's managers and
\* above the people partner are read again on every hit: an audience that
\* rests on them is only served if they held at some moment of the call.
LiveLegsHeldDuringCall ==
  \A c \in Calls : call[c].pc = "done" =>
    /\ "FullAccess" \in call[c].result => "fa" \in held[c]
    /\ "ProjectLine" \in call[c].result => {"due", "pl"} \subseteq held[c]
    /\ "PP" \in call[c].result => "hr" \in held[c]

\* In whatever order the replies of parallel bumps arrive, none of them
\* brings an entry back to life: when a bump ends nothing cached is usable.
BumpRetiresEveryEntry ==
  [][\A w \in Writers :
       writer[w].pc = "reply" /\ writer'[w].pc # "reply" => ~Usable(entry)']_vars

\* The invariant behind it: the rows the pending replies carry are
\* new to the process and to the cache, and differ from each other.
RepliesAreNew ==
  /\ generation \in Nat /\ mirror \in 0..generation
  /\ entry # Missing => entry.generation \in 0..generation
  /\ \A w \in Writers : writer[w].pc = "reply" =>
       /\ writer[w].row \in 1..generation /\ writer[w].row # mirror
       /\ entry # Missing => entry.generation # writer[w].row
       /\ \A v \in Writers \ {w} : writer[v].pc = "reply" => writer[v].row # writer[w].row

\* The inductive invariant the proofs use.
IInv == TypeOK /\ RepliesAreNew

\* What a hit on entry e would be answered now.
Rebuilt(e) == AudienceOf(e.trusted \cup (graph \ Trusted))
ServesStale == Usable(entry) /\ Rebuilt(entry) = entry.audience
                             /\ entry.audience # AudienceOf(graph)

\* An entry computed while no graph write was in flight never serves a
\* stale audience once the writes after it have ended, failed bumps included.
CleanEntryIsNeverStale == Quiet /\ entry.clean => ~ServesStale

\* A call during which the graph did not change answers exactly what the
\* graph says, whether it computed the audience or reused a clean one.
UndisturbedCallIsExact ==
  \A c \in Calls :
    /\ call[c].pc = "done" /\ ~moved[c]
    /\ call[c].cached = Missing \/ (call[c].cached.clean /\ clean[c])
    => call[c].result = AudienceOf(graph)

-----------------------------------------------------------------------------
(* What the unit test says, and calls in flight do not keep.               *)

\* The unit test's title: parallel bumps leave no stale entry behind.
NoStaleEntryAfterBumps == Quiet => ~ServesStale
=============================================================================

------------------------------ MODULE Requests ------------------------------
(* The requests the server is working on.  A request runs from one await   *)
(* to the next without interruption; in between, other requests run.  What *)
(* a request has read is in its own record, whose fields depend on what it *)
(* was asked to do.                                                        *)
CONSTANT Calls    \* requests, each served once

VARIABLES
  call,           \* call[c].pc: where the request is; the other fields: its locals
  steady          \* steady[c]: no other request has committed since c began

requestVars == <<call, steady>>

NotAsked == [pc |-> "idle"]
Answers == {"done", "refused"}

RequestsInit ==
  /\ call = [c \in Calls |-> NotAsked]
  /\ steady = [c \in Calls |-> TRUE]

At(c, pc) == call[c].pc = pc
Become(c, state) == call' = [call EXCEPT ![c] = state]
Goto(c, pc) == call' = [call EXCEPT ![c].pc = pc]
Waiting(c) == call[c].pc \notin {"idle"} \cup Answers

\* A step that only reads, and one that commits.
Reads == UNCHANGED steady
Commits(c) == steady' = [d \in Calls |-> steady[d] /\ (d = c \/ ~Waiting(d))]

\* A statement or a call to another system fails: an error is the answer.
Fail(c) == Waiting(c) /\ Goto(c, "refused") /\ Reads

\* An object spread over another one: what f says, and else what g says.
Over(f, g) == [x \in DOMAIN f \cup DOMAIN g |-> IF x \in DOMAIN f THEN f[x] ELSE g[x]]

\* Rows that remember who wrote them: a row that was replaced is another row
\* with the same key.
RowsBy(c, keys) == keys \X {c}
KeysOf(rows) == {row[1] : row \in rows}

\* deleteMany, then createMany in one READ COMMITTED transaction: the rows the
\* first statement saw go, and the new ones must not meet a key that is there.
Clash(rows, seen, new) == KeysOf(rows \ seen) \cap KeysOf(new) # {}
Replaced(rows, seen, new) == (rows \ seen) \cup new
=============================================================================

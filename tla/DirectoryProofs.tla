--------------------------- MODULE DirectoryProofs ---------------------------
(* Proofs about what the directory keeps and shows: files are there, plans *)
(* that are completed stay, values fit their definitions, nothing that is  *)
(* hidden from a viewer gets into an answer, and what nothing has come     *)
(* between is exact: requests about records, lists and exports.            *)
EXTENDS Directory, FiniteSetTheorems, SequenceTheorems, TLAPS

-----------------------------------------------------------------------------
(* What a request has in its record.                                       *)

\* Where requests about records may be, by what they are asked to do.
StagesOf(op) ==
  Answers \cup
  (CASE op = "list" -> {"enter", "read"}
     [] op = "view" -> {"enter", "portrait", "open"}
     [] op = "upload" -> {"enter", "save", "attach", "previous", "swap", "unlink", "undo"}
     [] op = "create" -> {"enter", "insert"}
     [] op = "complete" -> {"enter", "update", "why", "reread"}
     [] op = "change" -> {"enter", "find", "write", "peek", "update", "why", "reread"}
     [] op = "remove" -> {"enter", "find", "delete"}
     [] op = "download" -> {"enter", "find", "judge", "open"}
     [] op = "risks" -> {"walk", "partnered", "staffed", "latest"})
RecordPcs ==
  {"enter", "read", "portrait", "open", "save", "attach", "previous", "swap", "unlink", "undo", "insert",
   "update", "why", "reread", "find", "write", "peek", "delete", "judge", "walk", "partnered", "staffed", "latest"}
RecordFields ==
  {"pc", "op", "kind", "viewer", "subject", "id", "data", "audience", "found", "queue", "people", "answer"}

RecordState(s) ==
  /\ DOMAIN s = RecordFields
  /\ s.op \in {"list", "view", "upload", "create", "complete", "change", "remove", "download", "risks"}
  /\ MayBeAsked(s.op, s.kind) /\ s.pc \in StagesOf(s.op)
  /\ s.pc = "attach" => s.kind = "document"
  /\ s.pc \in {"find", "write"} => s.kind # "plan" \/ s.op = "download"
  /\ s.subject \in Employees
  /\ s.op \in {"change", "remove", "complete", "download"} => s.id \in RecordIds

\* Any other request, and one that has not been made.
Elsewhere(s) == "pc" \in DOMAIN s /\ "op" \notin DOMAIN s /\ s.pc \notin RecordPcs
CallsFit == DOMAIN call = Calls /\ \A c \in Calls : RecordState(call[c]) \/ Elsewhere(call[c])

-----------------------------------------------------------------------------
(* Records and files.                                                      *)

RecordsFit ==
  /\ DOMAIN records = RecordIds
  /\ \A i \in RecordIds : Kept(i) => DOMAIN records[i] = {"kind", "subject", "data"}

\* A record that a request makes is there when the request is answered, or when its
\* file is about to go since the answer to its row was lost; and nobody names it before.
Past(c) == call[c].pc \in Answers \cup {"undo"}
MadeAtTheEnd == \A c \in Calls : Kept(c) => Past(c)
NamedAfterwards == \A c \in Calls : "op" \in DOMAIN call[c] /\ call[c].id \in Calls => Past(call[c].id)

\* What a change or a removal has found is of its kind, if it is still there.
FoundHolds ==
  \A c \in Calls : call[c].pc \in {"write", "delete"} /\ Kept(call[c].id) => records[call[c].id].kind = call[c].kind

\* A request that completes a plan has done so, or will not.
CompletionHolds ==
  \A c \in Calls : "op" \in DOMAIN call[c] /\ call[c].op = "complete" =>
    /\ At(c, "why") => ~OpenOnly(call[c])
    /\ At(c, "reread") /\ Stored(call[c]) => records[call[c].id].data.completed = c

\* A file is given its place once: those of the beginning have it, and those of an
\* upload that is past it.  A document's file is no photo.
Placed(f) == f \in StoredIds \/ (f \in Calls /\ call[f].pc \in {"unlink", "undo"} \cup Answers)
IsDocument(i) == i \in RecordIds /\ Kept(i) /\ records[i].kind = "document"

\* Of what a row names only the file of an upload that was answered with an error may have gone.
Refused(f) == f \in Calls /\ At(f, "refused")
HasFile(f) == f \in files \/ Refused(f)

DocumentsHaveFiles == \A i \in RecordIds : IsDocument(i) => records[i].data.file = i /\ HasFile(i)
PhotosHaveFiles ==
  /\ DOMAIN photo = Employees
  /\ \A e \in Employees : photo[e] # NoRecord =>
       /\ HasFile(photo[e]) /\ Placed(photo[e]) /\ ~IsDocument(photo[e])
       /\ \A d \in Employees \ {e} : photo[d] # photo[e]
UploadsHaveFiles == \A c \in Calls : call[c].pc \in {"previous", "swap", "attach"} => c \in files

\* The previous photo, which an upload is to delete, is nobody's any more.
PreviousIsGone ==
  \A c \in Calls : call[c].pc \in {"swap", "unlink"} =>
    \/ At(c, "swap") /\ call[c].found = NoRecord
    \/ /\ Placed(call[c].found) /\ ~IsDocument(call[c].found)
       /\ \A e \in Employees : photo[e] = call[c].found => At(c, "swap") /\ e = call[c].subject

RecordsInv ==
  /\ CallsFit /\ RecordsFit /\ MadeAtTheEnd /\ NamedAfterwards /\ FoundHolds /\ CompletionHolds
  /\ DocumentsHaveFiles /\ PhotosHaveFiles /\ UploadsHaveFiles /\ PreviousIsGone

RecordsUnchanged == records' = records /\ files' = files /\ photo' = photo

-----------------------------------------------------------------------------
(* Steps that write nothing about records.                                 *)

LEMMA OpsByPlace ==
  ASSUME NEW s, RecordState(s) \/ Elsewhere(s)
  PROVE  /\ "pc" \in DOMAIN s
         /\ s.pc \in RecordPcs => RecordState(s)
         /\ "op" \in DOMAIN s => RecordState(s)
         /\ RecordState(s) => s.pc \in RecordPcs \cup Answers
         /\ s.pc = "read" => s.op = "list"
         /\ s.pc = "insert" => s.op = "create"
         /\ s.pc = "find" => s.op \in {"change", "remove", "download"}
         /\ s.pc = "write" => s.op = "change"
         /\ s.pc = "delete" => s.op = "remove"
         /\ s.pc \in {"update", "why", "reread"} => s.op \in {"complete", "change"}
         /\ s.pc = "peek" => s.op = "change"
         /\ s.pc = "judge" => s.op = "download"
         /\ s.pc = "portrait" => s.op = "view"
         /\ s.pc = "open" => s.op \in {"download", "view"}
         /\ s.pc \in {"save", "attach", "previous", "swap", "unlink", "undo"} => s.op = "upload"
         /\ s.pc \in {"walk", "partnered", "staffed", "latest"} => s.op = "risks"
         /\ s.pc = "attach" => s.kind = "document"
         /\ s.pc = "write" => s.kind # "plan"
BY DEF RecordState, Elsewhere, StagesOf, RecordPcs, RecordFields, Answers

\* A request goes on to s and nothing about records is written.
GoesOn(c, s) ==
  /\ RecordState(s) \/ Elsewhere(s)
  /\ "op" \in DOMAIN s /\ s.id \in Calls => Past(s.id)
  /\ s.pc \in {"write", "delete"} /\ Kept(s.id) => records[s.id].kind = s.kind
  /\ "op" \in DOMAIN s /\ s.op = "complete" =>
       /\ s.pc = "why" => ~OpenOnly(s)
       /\ s.pc = "reread" /\ Stored(s) => records[s.id].data.completed = c
  /\ s.pc \in {"previous", "swap", "attach"} => c \in files
  /\ call[c].pc \in {"unlink", "undo"} => s.pc \in Answers
  /\ s.pc \in {"swap", "unlink"} =>
       \/ s.pc = "swap" /\ s.found = NoRecord
       \/ /\ Placed(s.found) /\ ~IsDocument(s.found)
          /\ \A e \in Employees : photo[e] = s.found => s.pc = "swap" /\ e = s.subject

LEMMA NothingWritten ==
  ASSUME RecordsInv, RecordsUnchanged, DOMAIN call' = Calls,
         \A c \in Calls : call'[c] = call[c] \/ (call[c].pc \notin Answers /\ GoesOn(c, call'[c]))
  PROVE  RecordsInv'
<1> USE DEF RecordsUnchanged
<1>1. \A c \in Calls : Past(c) => Past(c)'
  BY DEF Past, GoesOn, Answers
<1>2. \A f : (Placed(f) => Placed(f)') /\ (HasFile(f) => HasFile(f)')
  BY DEF Placed, HasFile, Refused, GoesOn, At, Answers
<1>3. \A i : (Kept(i)' <=> Kept(i)) /\ (IsDocument(i)' <=> IsDocument(i))
  BY DEF Kept, IsDocument
<1>4. CallsFit'
  BY DEF RecordsInv, CallsFit, GoesOn, RecordState, Elsewhere
<1>5. RecordsFit'
  BY DEF RecordsInv, RecordsFit, Kept
<1>6. MadeAtTheEnd'
  BY <1>1, <1>3 DEF RecordsInv, MadeAtTheEnd
<1>7. NamedAfterwards'
  BY <1>1 DEF RecordsInv, NamedAfterwards, GoesOn
<1>8. FoundHolds'
  BY DEF RecordsInv, FoundHolds, GoesOn, Kept
<1>9. CompletionHolds'
  BY DEF RecordsInv, CompletionHolds, GoesOn, Kept, At, OpenOnly, Stored
<1>10. DocumentsHaveFiles'
  BY <1>2, <1>3 DEF RecordsInv, DocumentsHaveFiles
<1>11. PhotosHaveFiles'
  BY <1>2, <1>3 DEF RecordsInv, PhotosHaveFiles
<1>12. UploadsHaveFiles'
  BY DEF RecordsInv, UploadsHaveFiles, GoesOn
<1>13. PreviousIsGone'
  <2> SUFFICES ASSUME NEW c \in Calls, call'[c].pc \in {"swap", "unlink"}, NEW f, f = call'[c].found
               PROVE  \/ call'[c].pc = "swap" /\ f = NoRecord
                      \/ /\ Placed(f)' /\ ~IsDocument(f)'
                         /\ \A e \in Employees : photo[e] = f => call'[c].pc = "swap" /\ e = call'[c].subject
    BY DEF PreviousIsGone, At, Placed, IsDocument
  <2>1. \/ call'[c].pc = "swap" /\ f = NoRecord
        \/ /\ Placed(f) /\ ~IsDocument(f)
           /\ \A e \in Employees : photo[e] = f => call'[c].pc = "swap" /\ e = call'[c].subject
    <3>1. CASE call'[c] = call[c]
      BY <3>1 DEF RecordsInv, PreviousIsGone, At
    <3>2. CASE GoesOn(c, call'[c])
      BY <3>2 DEF GoesOn
    <3> QED
      BY <3>1, <3>2
  <2> QED
    BY <2>1, <1>2, <1>3
<1> QED
  BY <1>4, <1>5, <1>6, <1>7, <1>8, <1>9, <1>10, <1>11, <1>12, <1>13 DEF RecordsInv

\* One request goes on.
LEMMA OneGoesOn ==
  ASSUME RecordsInv, RecordsUnchanged, NEW c \in Calls, call[c].pc \notin Answers,
         NEW s, call' = [call EXCEPT ![c] = s], GoesOn(c, s)
  PROVE  RecordsInv'
<1>1. DOMAIN call' = Calls /\ call'[c] = s /\ \A d \in Calls \ {c} : call'[d] = call[d]
  BY DEF RecordsInv, CallsFit
<1> QED
  BY <1>1, NothingWritten

\* A request whose record only gets another place.
LEMMA OnlyMoves ==
  ASSUME RecordsInv, NEW c \in Calls, RecordState(call[c]),
         NEW s, DOMAIN s = RecordFields, s.op = call[c].op, s.kind = call[c].kind, s.subject = call[c].subject,
         s.id = call[c].id, s.pc \in StagesOf(call[c].op) \ {"write", "delete", "why", "reread", "unlink", "swap"},
         s.pc = "attach" => call[c].kind = "document",
         s.pc = "find" => call[c].kind # "plan" \/ call[c].op = "download",
         s.pc \in {"previous", "attach"} => c \in files, call[c].pc \in {"unlink", "undo"} => s.pc \in Answers
  PROVE  GoesOn(c, s)
<1>1. RecordState(s)
  BY DEF RecordState
<1>2. "op" \in DOMAIN s /\ s.id \in Calls => Past(s.id)
  BY DEF RecordsInv, NamedAfterwards, RecordState, RecordFields
<1> QED
  BY <1>1, <1>2 DEF GoesOn

LEMMA Refusing ==
  ASSUME RecordsInv, NEW c \in Calls, NEW s, s = [call[c] EXCEPT !.pc = "refused"]
  PROVE  GoesOn(c, s)
<1>1. CASE RecordState(call[c])
  <2>1. DOMAIN s = RecordFields /\ s.pc = "refused" /\ s.op = call[c].op /\ s.kind = call[c].kind
        /\ s.subject = call[c].subject /\ s.id = call[c].id
    BY <1>1 DEF RecordState, RecordFields
  <2>2. s.pc \in StagesOf(call[c].op)
    BY <2>1 DEF StagesOf, Answers
  <2> QED
    BY <1>1, <2>1, <2>2, OnlyMoves DEF Answers
<1>2. CASE Elsewhere(call[c])
  BY <1>2 DEF Elsewhere, GoesOn, RecordPcs, Answers
<1> QED
  BY <1>1, <1>2 DEF RecordsInv, CallsFit

LEMMA GotoBecomes ==
  ASSUME NEW c, NEW pc, Goto(c, pc)
  PROVE  call' = [call EXCEPT ![c] = [call[c] EXCEPT !.pc = pc]]
BY DEF Goto

LEMMA RequestFails ==
  ASSUME RecordsInv, RecordsUnchanged, NEW c \in Calls, call[c].pc \notin Answers, Goto(c, "refused")
  PROVE  RecordsInv'
<1>1. PICK s : s = [call[c] EXCEPT !.pc = "refused"]
  OBVIOUS
<1> QED
  BY <1>1, Refusing, OneGoesOn, GotoBecomes

\* A request that does not go on to look at what others may change.
Plain == RecordPcs \ {"write", "delete", "why", "reread", "previous", "attach", "unlink", "swap"}
LEMMA PlainSteps ==
  ASSUME RecordsInv, RecordsUnchanged, NEW c \in Calls, call[c].pc \in RecordPcs \ {"unlink", "undo"},
         NEW s, call' = [call EXCEPT ![c] = s], DOMAIN s = RecordFields,
         s.op = call[c].op, s.kind = call[c].kind, s.subject = call[c].subject, s.id = call[c].id,
         s.pc \in StagesOf(call[c].op) \cap (Plain \cup Answers),
         s.pc = "find" => call[c].kind # "plan" \/ call[c].op = "download"
  PROVE  RecordsInv'
<1>1. RecordState(call[c]) /\ call[c].pc \notin Answers
  BY OpsByPlace DEF RecordsInv, CallsFit, RecordPcs, Answers
<1>2. GoesOn(c, s)
  BY <1>1, OnlyMoves DEF Plain, RecordPcs, At, Answers
<1> QED
  BY <1>1, <1>2, OneGoesOn

LEMMA EnterKeeps ==
  ASSUME RecordsInv, NEW c \in Calls, EnterSection(c)
  PROVE  RecordsInv'
<1>1. RecordsUnchanged /\ call[c].pc = "enter" /\ RecordState(call[c])
  BY OpsByPlace DEF RecordsInv, CallsFit, EnterSection, At, RecordPcs, recordVars, RecordsUnchanged
<1>2. CASE Goto(c, "refused")
  BY <1>1, <1>2, RequestFails DEF Answers
<1>3. CASE ~Goto(c, "refused")
  <2>1. PICK audience : audience = AudienceOf(org, call[c].viewer, call[c].subject)
    OBVIOUS
  <2>2. PICK s : s = [call[c] EXCEPT !.pc = FirstStep(call[c]), !.audience = audience]
    OBVIOUS
  <2>3. call' = [call EXCEPT ![c] = s]
    BY <1>3, <2>1, <2>2 DEF EnterSection, Become
  <2>4. DOMAIN s = RecordFields /\ s.pc = FirstStep(call[c])
        /\ s.op = call[c].op /\ s.kind = call[c].kind /\ s.subject = call[c].subject /\ s.id = call[c].id
    BY <1>1, <2>2 DEF RecordState, RecordFields
  <2>5. call[c].op \in {"list", "view", "upload", "create", "complete", "change", "remove", "download"}
    BY <1>1 DEF RecordState, StagesOf, Answers
  <2>6. FirstStep(call[c]) \in StagesOf(call[c].op) \cap (Plain \cup Answers)
    BY <2>5 DEF FirstStep, StagesOf, Plain, RecordPcs
  <2>7. FirstStep(call[c]) = "find" => call[c].kind # "plan" \/ call[c].op = "download"
    BY <1>1, <2>5 DEF FirstStep, RecordState, MayBeAsked
  <2> QED
    BY <1>1, <2>3, <2>4, <2>6, <2>7, PlainSteps DEF RecordPcs
<1> QED
  BY <1>2, <1>3

LEMMA FindKeeps ==
  ASSUME RecordsInv, NEW c \in Calls, FindRecord(c)
  PROVE  RecordsInv'
<1>1. /\ RecordsUnchanged /\ call[c].pc = "find" /\ RecordState(call[c]) /\ call[c].pc \notin Answers
      /\ call[c].op \in {"change", "remove", "download"}
  BY OpsByPlace DEF RecordsInv, CallsFit, FindRecord, Denied, At, RecordPcs, recordVars, RecordsUnchanged, Answers
<1>2. CASE Goto(c, "refused")
  BY <1>1, <1>2, RequestFails
<1>3. CASE ~Goto(c, "refused")
  <2>0. Stored(call[c])
    BY <1>3 DEF FindRecord, Denied
  <2>1. PICK s : s = [call[c] EXCEPT !.found = records[call[c].id].data,
           !.pc = CASE call[c].op = "change" -> "write" [] call[c].op = "remove" -> "delete"
                    [] call[c].op = "download" -> "judge"]
    OBVIOUS
  <2>2. call' = [call EXCEPT ![c] = s]
    BY <1>3, <2>1 DEF FindRecord, Become, Denied
  <2>3. DOMAIN s = RecordFields /\ s.op = call[c].op /\ s.kind = call[c].kind
        /\ s.subject = call[c].subject /\ s.id = call[c].id
        /\ s.pc = CASE call[c].op = "change" -> "write" [] call[c].op = "remove" -> "delete"
                    [] call[c].op = "download" -> "judge"
    BY <1>1, <2>1 DEF RecordState, RecordFields
  <2>4. s.pc \in StagesOf(call[c].op) \cap {"write", "delete", "judge"}
    BY <1>1, <2>3 DEF StagesOf
  <2>5. RecordState(s)
    BY <1>1, <2>3, <2>4 DEF RecordState
  <2>6. GoesOn(c, s)
    BY <1>1, <2>0, <2>3, <2>4, <2>5 DEF GoesOn, RecordsInv, NamedAfterwards, Stored, RecordFields, RecordState, At
  <2> QED
    BY <1>1, <2>2, <2>6, OneGoesOn
<1> QED
  BY <1>2, <1>3

LEMMA AssertOpenKeeps ==
  ASSUME RecordsInv, NEW c \in Calls, AssertOpen(c)
  PROVE  RecordsInv'
<1>1. /\ RecordsUnchanged /\ call[c].pc = "why" /\ RecordState(call[c]) /\ call[c].pc \notin Answers
      /\ call[c].op \in {"change", "complete"}
  BY OpsByPlace DEF RecordsInv, CallsFit, AssertOpen, At, RecordPcs, recordVars, RecordsUnchanged, Answers
<1>2. CASE ~OpenOnly(call[c])
  BY <1>1, <1>2, RequestFails DEF AssertOpen
<1>3. CASE OpenOnly(call[c])
  <2>1. PICK s : s = [call[c] EXCEPT !.pc = "reread"]
    OBVIOUS
  <2>2. call' = [call EXCEPT ![c] = s]
    BY <1>3, <2>1, GotoBecomes DEF AssertOpen
  <2>3. DOMAIN s = RecordFields /\ s.op = call[c].op /\ s.kind = call[c].kind
        /\ s.subject = call[c].subject /\ s.id = call[c].id /\ s.pc = "reread"
    BY <1>1, <2>1 DEF RecordState, RecordFields
  <2>4. call[c].op = "change"
    BY <1>1, <1>3 DEF RecordsInv, CompletionHolds, At, RecordState, RecordFields
  <2>5. RecordState(s)
    BY <1>1, <2>3, <2>4 DEF RecordState, StagesOf
  <2>6. GoesOn(c, s)
    BY <1>1, <2>3, <2>4, <2>5 DEF GoesOn, RecordsInv, NamedAfterwards, RecordFields, RecordState, At
  <2> QED
    BY <1>1, <2>2, <2>6, OneGoesOn
<1> QED
  BY <1>2, <1>3

LEMMA PreviousKeeps ==
  ASSUME RecordsInv, NEW c \in Calls, PreviousPhoto(c)
  PROVE  RecordsInv'
<1>1. /\ RecordsUnchanged /\ call[c].pc = "previous" /\ RecordState(call[c]) /\ call[c].pc \notin Answers
      /\ call[c].op = "upload"
  BY OpsByPlace DEF RecordsInv, CallsFit, PreviousPhoto, At, RecordPcs, recordVars, RecordsUnchanged, Answers
<1>2. PICK s : s = [call[c] EXCEPT !.found = photo[call[c].subject], !.pc = "swap"]
  OBVIOUS
<1>3. call' = [call EXCEPT ![c] = s]
  BY <1>2 DEF PreviousPhoto, Become
<1>4. DOMAIN s = RecordFields /\ s.op = call[c].op /\ s.kind = call[c].kind /\ s.subject = call[c].subject
      /\ s.id = call[c].id /\ s.pc = "swap" /\ s.found = photo[call[c].subject] /\ call[c].subject \in Employees
  BY <1>1, <1>2 DEF RecordState, RecordFields
<1>5. RecordState(s)
  BY <1>1, <1>4 DEF RecordState, StagesOf
<1>6. c \in files
  BY <1>1 DEF RecordsInv, UploadsHaveFiles
<1>7. \/ s.found = NoRecord
      \/ /\ Placed(s.found) /\ ~IsDocument(s.found)
         /\ \A e \in Employees : photo[e] = s.found => s.pc = "swap" /\ e = s.subject
  BY <1>4 DEF RecordsInv, PhotosHaveFiles
<1>8. GoesOn(c, s)
  BY <1>1, <1>4, <1>5, <1>6, <1>7 DEF GoesOn, RecordsInv, NamedAfterwards, RecordFields, RecordState, At
<1> QED
  BY <1>1, <1>3, <1>8, OneGoesOn


LEMMA SayingKeeps ==
  ASSUME RecordsInv, RecordsUnchanged, NEW c \in Calls, call[c].pc \in RecordPcs, NEW answer, Said(c, answer)
  PROVE  RecordsInv'
<1>1. RecordState(call[c]) /\ call[c].pc \notin Answers
  BY OpsByPlace DEF RecordsInv, CallsFit, RecordPcs, Answers
<1>2. PICK s : s = [call[c] EXCEPT !.pc = "done", !.answer = answer]
  OBVIOUS
<1>3. call' = [call EXCEPT ![c] = s]
  BY <1>2 DEF Said, Become
<1>4. DOMAIN s = RecordFields /\ s.op = call[c].op /\ s.kind = call[c].kind /\ s.subject = call[c].subject
      /\ s.id = call[c].id /\ s.pc = "done"
  BY <1>1, <1>2 DEF RecordState, RecordFields
<1>5. s.pc \in StagesOf(call[c].op)
  BY <1>4 DEF StagesOf, Answers
<1>6. GoesOn(c, s)
  BY <1>1, <1>4, <1>5, OnlyMoves DEF Answers
<1> QED
  BY <1>1, <1>3, <1>6, OneGoesOn

\* Steps that read, and answer or refuse.
LEMMA AnsweringKeeps ==
  ASSUME RecordsInv, NEW c \in Calls,
         ReadAgain(c) \/ PeekRecord(c) \/ ReadSection(c) \/ OpenFile(c) \/ ShowRisks(c)
  PROVE  RecordsInv'
<1>1. RecordsUnchanged /\ call[c].pc \in RecordPcs /\ call[c].pc \notin Answers
  BY DEF ReadAgain, PeekRecord, ReadSection, OpenFile, ShowRisks, At, RecordPcs, recordVars, RecordsUnchanged, Answers
<1>2. Goto(c, "refused") \/ \E answer : Said(c, answer)
  BY DEF ReadAgain, PeekRecord, ReadSection, OpenFile, ShowRisks
<1> QED
  BY <1>1, <1>2, RequestFails, SayingKeeps

LEMMA DownloadKeeps ==
  ASSUME RecordsInv, NEW c \in Calls, JudgeDownload(c) \/ FindPortrait(c)
  PROVE  RecordsInv'
<1>1. /\ RecordsUnchanged /\ call[c].pc \in {"judge", "portrait"} /\ RecordState(call[c]) /\ call[c].pc \notin Answers
      /\ call[c].op \in {"download", "view"}
  BY OpsByPlace DEF RecordsInv, CallsFit, JudgeDownload, FindPortrait, At, RecordPcs, recordVars, RecordsUnchanged, Answers
<1>2. CASE Goto(c, "refused")
  BY <1>1, <1>2, RequestFails
<1>3. CASE ~Goto(c, "refused")
  <2>1. \E found : call' = [call EXCEPT ![c] = [call[c] EXCEPT !.pc = "open", !.found = found]]
    <3>1. CASE JudgeDownload(c)
      <4>1. call' = [call EXCEPT ![c] = [call[c] EXCEPT !.pc = "open"]]
        BY <1>3, <3>1, GotoBecomes DEF JudgeDownload
      <4>2. [call[c] EXCEPT !.pc = "open"] = [call[c] EXCEPT !.pc = "open", !.found = call[c].found]
        BY <1>1 DEF RecordState, RecordFields
      <4> QED
        BY <4>1, <4>2
    <3>2. CASE FindPortrait(c)
      BY <1>3, <3>2 DEF FindPortrait, Become
    <3> QED
      BY <3>1, <3>2
  <2>2. PICK found : call' = [call EXCEPT ![c] = [call[c] EXCEPT !.pc = "open", !.found = found]]
    BY <2>1
  <2>3. PICK s : s = [call[c] EXCEPT !.pc = "open", !.found = found]
    OBVIOUS
  <2>4. DOMAIN s = RecordFields /\ s.op = call[c].op /\ s.kind = call[c].kind /\ s.subject = call[c].subject
        /\ s.id = call[c].id /\ s.pc = "open"
    BY <1>1, <2>3 DEF RecordState, RecordFields
  <2>5. s.pc \in StagesOf(call[c].op) \cap (Plain \cup Answers)
    BY <1>1, <2>4 DEF StagesOf, Plain, RecordPcs
  <2> QED
    BY <1>1, <2>2, <2>3, <2>4, <2>5, PlainSteps DEF RecordPcs
<1> QED
  BY <1>2, <1>3

\* A request about risks goes on.
AsksOn(c, pc, queue, people, found) ==
  call' = [call EXCEPT ![c] = [call[c] EXCEPT !.pc = pc, !.queue = queue, !.people = people, !.found = found]]

LEMMA DashboardKeeps ==
  ASSUME RecordsInv, NEW c \in Calls, WalkReports(c) \/ AddPartnered(c) \/ AddStaffed(c)
  PROVE  RecordsInv'
<1>1. /\ RecordsUnchanged /\ call[c].pc \in {"walk", "partnered", "staffed"} /\ RecordState(call[c])
      /\ call[c].op = "risks"
  BY OpsByPlace DEF RecordsInv, CallsFit, WalkReports, AddPartnered, AddStaffed, At, RecordPcs, recordVars, RecordsUnchanged
<1>2. CASE Goto(c, "refused")
  BY <1>1, <1>2, RequestFails DEF Answers
<1>3. ASSUME ~Goto(c, "refused")
      PROVE  \E pc \in {"walk", "partnered", "staffed", "latest"} : \E queue, people, found :
               AsksOn(c, pc, queue, people, found)
  <2>1. CASE WalkReports(c)
    <3>1. PICK queue, people : \E pc \in {"walk", "partnered"} :
            call' = [call EXCEPT ![c] = [call[c] EXCEPT !.queue = queue, !.people = people, !.pc = pc]]
      BY <2>1 DEF WalkReports, Become
    <3>2. PICK pc \in {"walk", "partnered"} :
            call' = [call EXCEPT ![c] = [call[c] EXCEPT !.queue = queue, !.people = people, !.pc = pc]]
      BY <3>1
    <3>3. [call[c] EXCEPT !.queue = queue, !.people = people, !.pc = pc]
            = [call[c] EXCEPT !.pc = pc, !.queue = queue, !.people = people, !.found = call[c].found]
      BY <1>1 DEF RecordState, RecordFields
    <3>4. AsksOn(c, pc, queue, people, call[c].found)
      BY <3>2, <3>3 DEF AsksOn
    <3> QED
      BY <3>4
  <2>2. CASE AddPartnered(c)
    <3>1. PICK people : call' = [call EXCEPT ![c] = [call[c] EXCEPT !.pc = "staffed", !.people = people]]
      BY <2>2 DEF AddPartnered, Become
    <3>2. [call[c] EXCEPT !.pc = "staffed", !.people = people]
            = [call[c] EXCEPT !.pc = "staffed", !.queue = call[c].queue, !.people = people, !.found = call[c].found]
      BY <1>1 DEF RecordState, RecordFields
    <3>3. AsksOn(c, "staffed", call[c].queue, people, call[c].found)
      BY <3>1, <3>2 DEF AsksOn
    <3> QED
      BY <3>3
  <2>3. CASE AddStaffed(c) /\ call[c].found # NoRecord
    <3>1. PICK people : call' = [call EXCEPT ![c] = [call[c] EXCEPT !.pc = "latest", !.people = people]]
      BY <2>3 DEF AddStaffed, Become
    <3>2. [call[c] EXCEPT !.pc = "latest", !.people = people]
            = [call[c] EXCEPT !.pc = "latest", !.queue = call[c].queue, !.people = people, !.found = call[c].found]
      BY <1>1 DEF RecordState, RecordFields
    <3>3. AsksOn(c, "latest", call[c].queue, people, call[c].found)
      BY <3>1, <3>2 DEF AsksOn
    <3> QED
      BY <3>3
  <2>4. CASE AddStaffed(c) /\ call[c].found = NoRecord
    BY <1>3, <2>4 DEF AddStaffed, Become, AsksOn
  <2> QED
    BY <2>1, <2>2, <2>3, <2>4
<1>4. CASE ~Goto(c, "refused")
  <2>1. PICK pc \in {"walk", "partnered", "staffed", "latest"} : \E queue, people, found :
          AsksOn(c, pc, queue, people, found)
    BY <1>3, <1>4
  <2>2. PICK queue, people, found :
          AsksOn(c, pc, queue, people, found)
    BY <2>1
  <2>3. PICK s : s = [call[c] EXCEPT !.pc = pc, !.queue = queue, !.people = people, !.found = found]
    OBVIOUS
  <2>4. DOMAIN s = RecordFields /\ s.op = call[c].op /\ s.kind = call[c].kind /\ s.subject = call[c].subject
        /\ s.id = call[c].id /\ s.pc = pc
    BY <1>1, <2>3 DEF RecordState, RecordFields
  <2>5. s.pc \in StagesOf(call[c].op) \cap (Plain \cup Answers)
    BY <1>1, <2>4 DEF StagesOf, Plain, RecordPcs
  <2> QED
    BY <1>1, <2>2, <2>3, <2>4, <2>5, PlainSteps DEF RecordPcs, AsksOn
<1> QED
  BY <1>2, <1>4

-----------------------------------------------------------------------------
(* Steps that write a record.                                              *)

LEMMA CallsGoOn ==
  ASSUME RecordsInv, NEW c \in Calls, call[c].pc \in RecordPcs, NEW s, call' = [call EXCEPT ![c] = s],
         RecordState(s), s.id = call[c].id, call[c].pc \in {"unlink", "undo"} => s.pc \in Answers
  PROVE  /\ CallsFit' /\ NamedAfterwards'
         /\ call'[c] = s /\ \A d \in Calls \ {c} : call'[d] = call[d]
         /\ \A d \in Calls : Past(d) => Past(d)'
         /\ \A f : (Placed(f) => Placed(f)') /\ (Refused(f) => Refused(f)')
<1>1. DOMAIN call' = Calls /\ call'[c] = s /\ \A d \in Calls \ {c} : call'[d] = call[d]
  BY DEF RecordsInv, CallsFit
<1>2. \A d \in Calls : Past(d) => Past(d)'
  BY <1>1 DEF Past, Answers, RecordPcs
<1>3. \A f : (Placed(f) => Placed(f)') /\ (Refused(f) => Refused(f)')
  BY <1>1 DEF Placed, Refused, At, RecordPcs, Answers
<1>4. CallsFit'
  BY <1>1 DEF RecordsInv, CallsFit, RecordState, Elsewhere
<1>5. "op" \in DOMAIN call[c]
  BY OpsByPlace DEF RecordsInv, CallsFit, RecordState, RecordFields
<1>6. NamedAfterwards'
  BY <1>1, <1>2, <1>5 DEF RecordsInv, NamedAfterwards
<1> QED
  BY <1>1, <1>2, <1>3, <1>4, <1>6

LEMMA PlansAreNamed ==
  ASSUME RecordsInv, NEW c \in Calls, "op" \in DOMAIN call[c], call[c].op = "complete"
  PROVE  call[c].kind = "plan" /\ call[c].id \in RecordIds
BY OpsByPlace DEF RecordsInv, CallsFit, RecordState, MayBeAsked

\* What the writing of records keeps: a record keeps its kind and its subject,
\* nobody but the request makes one, and a completed plan stays as it is.
WritesOne(c) ==
  \A i \in RecordIds :
    /\ Kept(i)' /\ ~Kept(i) => i = c
    /\ Kept(i)' /\ Kept(i) =>
         /\ records'[i].kind = records[i].kind /\ records'[i].subject = records[i].subject
         /\ records[i].kind = "document" => records'[i] = records[i]
    /\ Kept(i) /\ records[i].kind = "plan" /\ records[i].data.completed # NoRecord => records'[i] = records[i]

CompletedPlansStay ==
  \A i \in RecordIds : IsPlan(i) /\ records[i].data.completed # NoRecord => records'[i] = records[i]

LEMMA RecordWritten ==
  ASSUME RecordsInv, NEW c \in Calls, call[c].pc \in RecordPcs \ {"unlink", "undo"},
         NEW s, call' = [call EXCEPT ![c] = s], RecordState(s), s.id = call[c].id, s.pc \in {"done", "reread", "undo"},
         files' = files, photo' = photo, RecordsFit', WritesOne(c),
         Kept(c)' => s.pc \in {"done", "undo"} /\ (records'[c].kind = "document" => records'[c].data.file = c /\ c \in files),
         s.pc = "reread" /\ s.op = "complete" /\ Stored(s)' => records'[s.id].data.completed = c
  PROVE  RecordsInv' /\ CompletedPlansStay
<1>1. /\ CallsFit' /\ NamedAfterwards'
      /\ call'[c] = s /\ \A d \in Calls \ {c} : call'[d] = call[d]
      /\ \A d \in Calls : Past(d) => Past(d)'
      /\ \A f : (Placed(f) => Placed(f)') /\ (Refused(f) => Refused(f)')
  BY CallsGoOn
<1>2. ~Past(c) /\ ~Placed(c) /\ c \in RecordIds /\ ~Kept(c)
  BY RecordsAssumption DEF Past, Placed, RecordPcs, Answers, RecordIds, RecordsInv, MadeAtTheEnd
<1>3. ASSUME NEW d \in Calls, "op" \in DOMAIN call[d]
      PROVE  call[d].id # c
  BY <1>2, <1>3 DEF RecordsInv, NamedAfterwards
<1>4. MadeAtTheEnd'
  <2> SUFFICES ASSUME NEW d \in Calls, Kept(d)'
               PROVE  Past(d)'
    BY DEF MadeAtTheEnd
  <2>1. d \in RecordIds
    BY DEF RecordIds
  <2>2. CASE d = c
    BY <1>1, <2>2 DEF Past, Answers
  <2>3. CASE d # c
    BY <1>1, <2>1, <2>3 DEF WritesOne, RecordsInv, MadeAtTheEnd
  <2> QED
    BY <2>2, <2>3
<1>5. ASSUME NEW d \in Calls \ {c}, call[d].pc \in {"write", "delete"}, Kept(call[d].id)'
      PROVE  records'[call[d].id].kind = call[d].kind
  <2>1. RecordState(call[d]) /\ call[d].id \in RecordIds /\ "op" \in DOMAIN call[d]
    BY <1>5, OpsByPlace DEF RecordsInv, CallsFit, RecordState, RecordPcs, RecordFields
  <2>2. Kept(call[d].id) /\ records'[call[d].id].kind = records[call[d].id].kind
    BY <1>3, <1>5, <2>1 DEF WritesOne
  <2> QED
    BY <1>5, <2>2 DEF RecordsInv, FoundHolds
<1>6. FoundHolds'
  BY <1>1, <1>5 DEF FoundHolds
<1>7. ASSUME NEW d \in Calls \ {c}, "op" \in DOMAIN call[d], call[d].op = "complete", Kept(call[d].id)'
      PROVE  /\ Kept(call[d].id) /\ records'[call[d].id].kind = records[call[d].id].kind
             /\ records'[call[d].id].subject = records[call[d].id].subject
             /\ records[call[d].id].kind = "plan" /\ records[call[d].id].data.completed # NoRecord =>
                  records'[call[d].id] = records[call[d].id]
  BY <1>3, <1>7, PlansAreNamed DEF WritesOne
<1>8. CompletionHolds'
  <2> SUFFICES ASSUME NEW d \in Calls, "op" \in DOMAIN call'[d], call'[d].op = "complete"
               PROVE  /\ call'[d].pc = "why" => ~OpenOnly(call[d])'
                      /\ call'[d].pc = "reread" /\ Stored(call[d])' => records'[call'[d].id].data.completed = d
    BY DEF CompletionHolds, At, OpenOnly, Stored
  <2>1. CASE d = c
    BY <1>1, <2>1 DEF Stored
  <2>2. CASE d # c
    <3>1. call'[d] = call[d] /\ call[d].kind = "plan" /\ d \in RecordIds
      BY <1>1, <2>2, PlansAreNamed DEF RecordIds
    <3>2. d # NoRecord
      BY <3>1, RecordsAssumption
    <3>3. ASSUME call[d].pc = "why", OpenOnly(call[d])'
          PROVE  FALSE
      <4>1. Stored(call[d]) /\ records[call[d].id].data.completed = NoRecord
        BY <1>7, <2>2, <3>1, <3>3 DEF OpenOnly, Stored
      <4> QED
        BY <2>2, <3>1, <3>3, <4>1 DEF RecordsInv, CompletionHolds, At, OpenOnly
    <3>4. ASSUME call[d].pc = "reread", Stored(call[d])'
          PROVE  records'[call[d].id].data.completed = d
      <4>1. Stored(call[d])
        BY <1>7, <2>2, <3>1, <3>4 DEF Stored
      <4>2. records[call[d].id].data.completed = d
        BY <2>2, <3>1, <3>4, <4>1 DEF RecordsInv, CompletionHolds, At
      <4> QED
        BY <1>7, <2>2, <3>1, <3>2, <3>4, <4>1, <4>2 DEF Stored
    <3> QED
      BY <3>1, <3>3, <3>4
  <2> QED
    BY <2>1, <2>2
<1>9. \A i : IsDocument(i)' => IsDocument(i) \/ i = c
  BY DEF IsDocument, WritesOne
<1>10. DocumentsHaveFiles'
  <2> SUFFICES ASSUME NEW i \in RecordIds, IsDocument(i)'
               PROVE  records'[i].data.file = i /\ HasFile(i)'
    BY DEF DocumentsHaveFiles
  <2>1. CASE i = c
    BY <2>1 DEF IsDocument, HasFile
  <2>2. CASE i # c
    <3>1. IsDocument(i)
      BY <1>9, <2>2
    <3>2. records'[i] = records[i]
      BY <3>1 DEF IsDocument, WritesOne
    <3> QED
      BY <1>1, <3>1, <3>2 DEF RecordsInv, DocumentsHaveFiles, HasFile
  <2> QED
    BY <2>1, <2>2
<1>11. PhotosHaveFiles'
  BY <1>1, <1>2, <1>9 DEF RecordsInv, PhotosHaveFiles, HasFile
<1>12. UploadsHaveFiles'
  BY <1>1 DEF RecordsInv, UploadsHaveFiles
<1>13. PreviousIsGone'
  <2> SUFFICES ASSUME NEW d \in Calls, call'[d].pc \in {"swap", "unlink"}, NEW f, f = call'[d].found
               PROVE  \/ call'[d].pc = "swap" /\ f = NoRecord
                      \/ /\ Placed(f)' /\ ~IsDocument(f)'
                         /\ \A e \in Employees : photo[e] = f => call'[d].pc = "swap" /\ e = call'[d].subject
    BY DEF PreviousIsGone, At, Placed, IsDocument
  <2>1. d # c
    BY <1>1
  <2> QED
    BY <1>1, <1>2, <1>9, <2>1 DEF RecordsInv, PreviousIsGone, At
<1> QED
  BY <1>1, <1>4, <1>6, <1>8, <1>10, <1>11, <1>12, <1>13 DEF RecordsInv, CompletedPlansStay, WritesOne, IsPlan

LEMMA InsertKeeps ==
  ASSUME RecordsInv, NEW c \in Calls, InsertRecord(c)
  PROVE  RecordsInv' /\ CompletedPlansStay
<1>1. /\ call[c].pc = "insert" /\ RecordState(call[c]) /\ call[c].op = "create" /\ c \in RecordIds /\ ~Kept(c)
      /\ call[c].kind # "document"
  BY OpsByPlace DEF RecordsInv, CallsFit, InsertRecord, At, RecordPcs, RecordIds, MadeAtTheEnd, RecordState, MayBeAsked,
     Past, Answers
<1>2. CASE ~Fitting(call[c].kind, call[c].data)
  BY <1>1, <1>2, RequestFails DEF CompletedPlansStay, InsertRecord, Denied, recordVars, RecordsUnchanged, Answers
<1>3. CASE Fitting(call[c].kind, call[c].data)
  <2>1. PICK new : new = [kind |-> call[c].kind, subject |-> call[c].subject, data |-> call[c].data]
    OBVIOUS
  <2>2. PICK s : s = [call[c] EXCEPT !.pc = "done", !.answer = new]
    OBVIOUS
  <2>3. /\ records' = [records EXCEPT ![c] = new] /\ call' = [call EXCEPT ![c] = s]
        /\ files' = files /\ photo' = photo
    BY <1>3, <2>1, <2>2 DEF InsertRecord, Said, Become
  <2>4. DOMAIN s = RecordFields /\ s.op = call[c].op /\ s.kind = call[c].kind /\ s.subject = call[c].subject
        /\ s.id = call[c].id /\ s.pc = "done"
    BY <1>1, <2>2 DEF RecordState, RecordFields
  <2>5. RecordState(s)
    BY <1>1, <2>4 DEF RecordState, StagesOf, Answers
  <2>6. DOMAIN new = {"kind", "subject", "data"} /\ new.kind = call[c].kind
    BY <2>1
  <2>7. DOMAIN records' = RecordIds /\ records'[c] = new /\ \A i \in RecordIds \ {c} : records'[i] = records[i]
    BY <1>1, <2>3 DEF RecordsInv, RecordsFit
  <2>8. RecordsFit'
    BY <2>6, <2>7 DEF RecordsInv, RecordsFit, Kept
  <2>9. WritesOne(c)
    BY <1>1, <2>7 DEF WritesOne, Kept
  <2>10. Kept(c)' => s.pc \in {"done", "undo"} /\ (records'[c].kind = "document" => records'[c].data.file = c /\ c \in files)
    BY <1>1, <2>4, <2>6, <2>7
  <2> QED
    BY <1>1, <2>3, <2>4, <2>5, <2>8, <2>9, <2>10, RecordWritten DEF RecordPcs
<1> QED
  BY <1>2, <1>3

\* The row of a certificate is written, whether the answer to it arrives or not.
LEMMA AttachKeeps ==
  ASSUME RecordsInv, NEW c \in Calls, AttachRow(c), NEW pc \in {"done", "undo"}, NEW answer,
         call' = [call EXCEPT ![c] = [call[c] EXCEPT !.pc = pc, !.answer = answer]]
  PROVE  RecordsInv' /\ CompletedPlansStay
<1>1. /\ call[c].pc = "attach" /\ RecordState(call[c]) /\ c \in RecordIds /\ ~Kept(c) /\ c \in files
      /\ call[c].op = "upload"
  BY OpsByPlace DEF RecordsInv, CallsFit, AttachRow, At, RecordPcs, RecordIds, MadeAtTheEnd, UploadsHaveFiles,
     Past, Answers
<1>2. PICK new : new = [kind |-> "document", subject |-> call[c].subject, data |-> [type |-> "CERTIFICATE", file |-> c]]
  OBVIOUS
<1>3. PICK s : s = [call[c] EXCEPT !.pc = pc, !.answer = answer]
  OBVIOUS
<1>4. /\ records' = [records EXCEPT ![c] = new] /\ call' = [call EXCEPT ![c] = s]
      /\ files' = files /\ photo' = photo
  BY <1>2, <1>3 DEF AttachRow, Certificate
<1>5. DOMAIN s = RecordFields /\ s.op = call[c].op /\ s.kind = call[c].kind /\ s.subject = call[c].subject
      /\ s.id = call[c].id /\ s.pc = pc
  BY <1>1, <1>3 DEF RecordState, RecordFields
<1>6. RecordState(s)
  BY <1>1, <1>5 DEF RecordState, StagesOf, Answers
<1>7. DOMAIN new = {"kind", "subject", "data"} /\ new.data.file = c
  BY <1>2
<1>8. DOMAIN records' = RecordIds /\ records'[c] = new /\ \A i \in RecordIds \ {c} : records'[i] = records[i]
  BY <1>1, <1>4 DEF RecordsInv, RecordsFit
<1>9. RecordsFit'
  BY <1>7, <1>8 DEF RecordsInv, RecordsFit, Kept
<1>10. WritesOne(c)
  BY <1>1, <1>8 DEF WritesOne, Kept
<1>11. Kept(c)' => s.pc \in {"done", "undo"} /\ (records'[c].kind = "document" => records'[c].data.file = c /\ c \in files)
  BY <1>1, <1>5, <1>7, <1>8
<1> QED
  BY <1>1, <1>4, <1>5, <1>6, <1>9, <1>10, <1>11, RecordWritten DEF RecordPcs

LEMMA WriteKeeps ==
  ASSUME RecordsInv, NEW c \in Calls, WriteRecord(c)
  PROVE  RecordsInv' /\ CompletedPlansStay
<1>1. /\ call[c].pc = "write" /\ RecordState(call[c]) /\ call[c].op = "change" /\ call[c].id \in RecordIds
      /\ call[c].kind # "document"
  BY OpsByPlace DEF RecordsInv, CallsFit, WriteRecord, At, RecordPcs, RecordState, MayBeAsked
<1>2. CASE ~Kept(call[c].id)
  BY <1>1, <1>2, RequestFails DEF CompletedPlansStay, WriteRecord, Denied, recordVars, RecordsUnchanged, Answers
<1>3. CASE Kept(call[c].id)
  <2>1. PICK i \in RecordIds : i = call[c].id
    BY <1>1
  <2>2. PICK new : new = [records[i] EXCEPT !.data = Over(call[c].data, @)]
    OBVIOUS
  <2>3. PICK s : s = [call[c] EXCEPT !.pc = "done", !.answer = new]
    OBVIOUS
  <2>4. /\ records' = [records EXCEPT ![i] = new] /\ call' = [call EXCEPT ![c] = s]
        /\ files' = files /\ photo' = photo
    BY <1>3, <2>1, <2>2, <2>3 DEF WriteRecord, Said, Become
  <2>5. DOMAIN s = RecordFields /\ s.op = call[c].op /\ s.kind = call[c].kind /\ s.subject = call[c].subject
        /\ s.id = call[c].id /\ s.pc = "done"
    BY <1>1, <2>3 DEF RecordState, RecordFields
  <2>6. RecordState(s)
    BY <1>1, <2>5 DEF RecordState, StagesOf, Answers
  <2>7. DOMAIN new = {"kind", "subject", "data"} /\ new.kind = records[i].kind /\ new.subject = records[i].subject
    BY <1>3, <2>1, <2>2 DEF RecordsInv, RecordsFit
  <2>8. DOMAIN records' = RecordIds /\ records'[i] = new /\ \A j \in RecordIds \ {i} : records'[j] = records[j]
    BY <2>4 DEF RecordsInv, RecordsFit
  <2>9. RecordsFit'
    BY <2>7, <2>8 DEF RecordsInv, RecordsFit, Kept
  <2>10. call[c].kind # "plan" /\ records[i].kind = call[c].kind
    BY <1>1, <1>3, <2>1, OpsByPlace DEF RecordsInv, FoundHolds, CallsFit
  <2>11. WritesOne(c)
    BY <1>1, <1>3, <2>1, <2>7, <2>8, <2>10 DEF WritesOne, Kept
  <2>12. ~Kept(c)'
    BY <1>1, <1>3, <2>1, <2>8 DEF Kept, RecordsInv, MadeAtTheEnd, Past, Answers, RecordIds
  <2> QED
    BY <1>1, <2>4, <2>5, <2>6, <2>9, <2>11, <2>12, RecordWritten DEF RecordPcs
<1> QED
  BY <1>2, <1>3

LEMMA DeleteKeeps ==
  ASSUME RecordsInv, NEW c \in Calls, DeleteRecord(c)
  PROVE  RecordsInv' /\ CompletedPlansStay
<1>1. /\ call[c].pc = "delete" /\ RecordState(call[c]) /\ call[c].op = "remove" /\ call[c].id \in RecordIds
      /\ call[c].kind # "plan"
  BY OpsByPlace DEF RecordsInv, CallsFit, DeleteRecord, At, RecordPcs, RecordState, MayBeAsked
<1>2. CASE ~Kept(call[c].id)
  BY <1>1, <1>2, RequestFails DEF CompletedPlansStay, DeleteRecord, Denied, recordVars, RecordsUnchanged, Answers
<1>3. CASE Kept(call[c].id)
  <2>1. PICK i \in RecordIds : i = call[c].id
    BY <1>1
  <2>2. PICK s : s = [call[c] EXCEPT !.pc = "done"]
    OBVIOUS
  <2>3. /\ records' = [records EXCEPT ![i] = NoRecord] /\ call' = [call EXCEPT ![c] = s]
        /\ files' = files /\ photo' = photo
    BY <1>3, <2>1, <2>2, GotoBecomes DEF DeleteRecord
  <2>4. DOMAIN s = RecordFields /\ s.op = call[c].op /\ s.kind = call[c].kind /\ s.subject = call[c].subject
        /\ s.id = call[c].id /\ s.pc = "done"
    BY <1>1, <2>2 DEF RecordState, RecordFields
  <2>5. RecordState(s)
    BY <1>1, <2>4 DEF RecordState, StagesOf, Answers
  <2>6. DOMAIN records' = RecordIds /\ records'[i] = NoRecord /\ \A j \in RecordIds \ {i} : records'[j] = records[j]
    BY <2>3 DEF RecordsInv, RecordsFit
  <2>7. RecordsFit'
    BY <2>6 DEF RecordsInv, RecordsFit, Kept
  <2>8. records[i].kind = call[c].kind
    BY <1>1, <1>3, <2>1 DEF RecordsInv, FoundHolds
  <2>9. WritesOne(c)
    BY <1>1, <2>6, <2>8 DEF WritesOne, Kept
  <2>10. ~Kept(c)'
    BY <1>1, <2>6 DEF Kept, RecordsInv, MadeAtTheEnd, Past, Answers, RecordIds
  <2> QED
    BY <1>1, <2>3, <2>4, <2>5, <2>7, <2>9, <2>10, RecordWritten DEF RecordPcs
<1> QED
  BY <1>2, <1>3

LEMMA UpdateKeeps ==
  ASSUME RecordsInv, NEW c \in Calls, UpdateRecord(c)
  PROVE  RecordsInv' /\ CompletedPlansStay
<1>1. /\ call[c].pc = "update" /\ RecordState(call[c]) /\ call[c].op \in {"complete", "change"}
      /\ call[c].id \in RecordIds /\ call[c].kind # "document" /\ call[c].pc \notin Answers
      /\ "op" \in DOMAIN call[c]
  BY OpsByPlace DEF RecordsInv, CallsFit, UpdateRecord, At, RecordPcs, RecordState, MayBeAsked, RecordFields, Answers
<1>2. CASE call[c].op = "change" /\ ~FitsChanged(call[c].kind, NoRecord, call[c].data)
  BY <1>1, <1>2, RequestFails DEF CompletedPlansStay, UpdateRecord, Denied, recordVars, RecordsUnchanged
<1>3. CASE ~(call[c].op = "change" /\ ~FitsChanged(call[c].kind, NoRecord, call[c].data)) /\ ~OpenOnly(call[c])
  <2>1. PICK s : s = [call[c] EXCEPT !.pc = "why"]
    OBVIOUS
  <2>2. call' = [call EXCEPT ![c] = s] /\ RecordsUnchanged
    BY <1>3, <2>1, GotoBecomes DEF UpdateRecord, RecordsUnchanged, recordVars
  <2>3. DOMAIN s = RecordFields /\ s.op = call[c].op /\ s.kind = call[c].kind /\ s.subject = call[c].subject
        /\ s.id = call[c].id /\ s.pc = "why"
    BY <1>1, <2>1 DEF RecordState, RecordFields
  <2>4. RecordState(s)
    BY <1>1, <2>3 DEF RecordState, StagesOf
  <2>5. ~OpenOnly(s)
    BY <1>3, <2>3 DEF OpenOnly, Stored
  <2>6. GoesOn(c, s)
    BY <1>1, <2>3, <2>4, <2>5 DEF GoesOn, RecordsInv, NamedAfterwards, At
  <2> QED
    BY <1>1, <2>2, <2>6, OneGoesOn DEF RecordsUnchanged, CompletedPlansStay
<1>4. CASE ~(call[c].op = "change" /\ ~FitsChanged(call[c].kind, NoRecord, call[c].data)) /\ OpenOnly(call[c])
  <2>1. PICK i \in RecordIds : i = call[c].id
    BY <1>1
  <2>2. PICK patch : patch = IF call[c].op = "complete" THEN [completed |-> c] ELSE call[c].data
    OBVIOUS
  <2>3. PICK new : new = [records[i] EXCEPT !.data = Over(patch, @)]
    OBVIOUS
  <2>4. PICK s : s = [call[c] EXCEPT !.pc = "reread"]
    OBVIOUS
  <2>5. /\ records' = [records EXCEPT ![i] = new] /\ call' = [call EXCEPT ![c] = s]
        /\ files' = files /\ photo' = photo
    BY <1>4, <2>1, <2>2, <2>3, <2>4, GotoBecomes DEF UpdateRecord
  <2>6. DOMAIN s = RecordFields /\ s.op = call[c].op /\ s.kind = call[c].kind /\ s.subject = call[c].subject
        /\ s.id = call[c].id /\ s.pc = "reread"
    BY <1>1, <2>4 DEF RecordState, RecordFields
  <2>7. RecordState(s)
    BY <1>1, <2>6 DEF RecordState, StagesOf
  <2>8. /\ Kept(i) /\ records[i].kind = call[c].kind
        /\ call[c].kind = "plan" => records[i].data.completed = NoRecord
    BY <1>4, <2>1 DEF OpenOnly, Stored
  <2>9. DOMAIN new = {"kind", "subject", "data"} /\ new.kind = records[i].kind /\ new.subject = records[i].subject
        /\ new.data = Over(patch, records[i].data)
    BY <2>3, <2>8 DEF RecordsInv, RecordsFit
  <2>10. DOMAIN records' = RecordIds /\ records'[i] = new /\ \A j \in RecordIds \ {i} : records'[j] = records[j]
    BY <2>5 DEF RecordsInv, RecordsFit
  <2>11. RecordsFit'
    BY <2>9, <2>10 DEF RecordsInv, RecordsFit, Kept
  <2>12. WritesOne(c)
    BY <1>1, <2>8, <2>9, <2>10 DEF WritesOne, Kept
  <2>13. ~Kept(c)'
    BY <1>1, <2>8, <2>10 DEF Kept, RecordsInv, MadeAtTheEnd, Past, Answers, RecordIds
  <2>14. ASSUME call[c].op = "complete", Stored(s)'
         PROVE  records'[s.id].data.completed = c
    BY <2>1, <2>2, <2>6, <2>9, <2>10, <2>14 DEF Over
  <2> QED
    BY <1>1, <2>5, <2>6, <2>7, <2>11, <2>12, <2>13, <2>14, RecordWritten DEF RecordPcs
<1> QED
  BY <1>2, <1>3, <1>4

-----------------------------------------------------------------------------
(* Steps that write a file or a photo.                                     *)

LEMMA RecordsKept ==
  ASSUME RecordsInv, NEW c \in Calls, call[c].pc \in RecordPcs, NEW s, call' = [call EXCEPT ![c] = s],
         RecordState(s), s.id = call[c].id, call[c].pc \in {"unlink", "undo"} => s.pc \in Answers,
         s.pc \notin {"write", "delete", "why", "reread"}, records' = records
  PROVE  /\ CallsFit' /\ RecordsFit' /\ MadeAtTheEnd' /\ NamedAfterwards' /\ FoundHolds' /\ CompletionHolds'
         /\ call'[c] = s /\ \A d \in Calls \ {c} : call'[d] = call[d]
         /\ \A f : (Placed(f) => Placed(f)') /\ (Refused(f) => Refused(f)') /\ (IsDocument(f)' <=> IsDocument(f))
<1>1. /\ CallsFit' /\ NamedAfterwards'
      /\ call'[c] = s /\ \A d \in Calls \ {c} : call'[d] = call[d]
      /\ \A d \in Calls : Past(d) => Past(d)'
      /\ \A f : (Placed(f) => Placed(f)') /\ (Refused(f) => Refused(f)')
  BY CallsGoOn
<1>2. \A i : (Kept(i)' <=> Kept(i)) /\ (IsDocument(i)' <=> IsDocument(i))
  BY DEF Kept, IsDocument
<1>3. RecordsFit'
  BY DEF RecordsInv, RecordsFit, Kept
<1>4. MadeAtTheEnd'
  BY <1>1, <1>2 DEF RecordsInv, MadeAtTheEnd
<1>5. FoundHolds'
  BY <1>1, <1>2 DEF RecordsInv, FoundHolds
<1>6. CompletionHolds'
  <2> SUFFICES ASSUME NEW d \in Calls, "op" \in DOMAIN call'[d], call'[d].op = "complete"
               PROVE  /\ call'[d].pc = "why" => ~OpenOnly(call[d])'
                      /\ call'[d].pc = "reread" /\ Stored(call[d])' => records'[call'[d].id].data.completed = d
    BY DEF CompletionHolds, At, OpenOnly, Stored
  <2>1. CASE d = c
    BY <1>1, <2>1
  <2>2. CASE d # c
    BY <1>1, <1>2, <2>2 DEF RecordsInv, CompletionHolds, At, OpenOnly, Stored
  <2> QED
    BY <2>1, <2>2
<1> QED
  BY <1>1, <1>2, <1>3, <1>4, <1>5, <1>6

\* Of the files only the request's own or a previous photo's changes.
LEMMA FilesKept ==
  ASSUME RecordsInv, NEW c \in Calls, call[c].pc \in RecordPcs, NEW s, call' = [call EXCEPT ![c] = s],
         RecordState(s), s.id = call[c].id, call[c].pc \in {"unlink", "undo"} => s.pc \in Answers,
         s.pc \notin {"write", "delete", "why", "reread", "swap", "unlink"}, records' = records, photo' = photo,
         s.pc \in {"previous", "attach"} => c \in files',
         \A f : f \in files /\ f \notin files' =>
            /\ \/ f = c /\ s.pc = "refused"
               \/ ~IsDocument(f) /\ \A e \in Employees : photo[e] # f
            /\ \A d \in Calls \ {c} : call[d].pc \in {"previous", "swap", "attach"} => d # f
  PROVE  RecordsInv'
<1>1. /\ CallsFit' /\ RecordsFit' /\ MadeAtTheEnd' /\ NamedAfterwards' /\ FoundHolds' /\ CompletionHolds'
      /\ call'[c] = s /\ \A d \in Calls \ {c} : call'[d] = call[d]
      /\ \A f : (Placed(f) => Placed(f)') /\ (Refused(f) => Refused(f)') /\ (IsDocument(f)' <=> IsDocument(f))
  BY RecordsKept
<1>2. DocumentsHaveFiles'
  BY <1>1 DEF RecordsInv, DocumentsHaveFiles, HasFile, Refused, At
<1>3. PhotosHaveFiles'
  BY <1>1 DEF RecordsInv, PhotosHaveFiles, HasFile, Refused, At
<1>4. UploadsHaveFiles'
  BY <1>1 DEF RecordsInv, UploadsHaveFiles
<1>5. PreviousIsGone'
  <2> SUFFICES ASSUME NEW d \in Calls, call'[d].pc \in {"swap", "unlink"}, NEW f, f = call'[d].found
               PROVE  \/ call'[d].pc = "swap" /\ f = NoRecord
                      \/ /\ Placed(f)' /\ ~IsDocument(f)'
                         /\ \A e \in Employees : photo[e] = f => call'[d].pc = "swap" /\ e = call'[d].subject
    BY DEF PreviousIsGone, At, Placed, IsDocument
  <2> QED
    BY <1>1 DEF RecordsInv, PreviousIsGone, At
<1> QED
  BY <1>1, <1>2, <1>3, <1>4, <1>5 DEF RecordsInv

LEMMA SaveKeeps ==
  ASSUME RecordsInv, NEW c \in Calls, SaveFile(c)
  PROVE  RecordsInv' /\ CompletedPlansStay
<1>1. /\ call[c].pc = "save" /\ RecordState(call[c]) /\ call[c].op = "upload" /\ call[c].pc \notin Answers
      /\ call[c].kind \in {"document", "photo"}
  BY OpsByPlace DEF RecordsInv, CallsFit, SaveFile, At, RecordPcs, RecordState, MayBeAsked, Answers
<1>2. CASE ~Fitting(call[c].kind, call[c].data)
  BY <1>1, <1>2, RequestFails DEF CompletedPlansStay, SaveFile, Denied, recordVars, RecordsUnchanged
<1>3. CASE Fitting(call[c].kind, call[c].data)
  <2>1. PICK s : s = [call[c] EXCEPT !.pc = IF call[c].kind = "photo" THEN "previous" ELSE "attach"]
    OBVIOUS
  <2>2. call' = [call EXCEPT ![c] = s] /\ files' = files \cup {c} /\ records' = records /\ photo' = photo
    BY <1>3, <2>1, GotoBecomes DEF SaveFile
  <2>3. DOMAIN s = RecordFields /\ s.op = call[c].op /\ s.kind = call[c].kind /\ s.subject = call[c].subject
        /\ s.id = call[c].id /\ s.pc = (IF call[c].kind = "photo" THEN "previous" ELSE "attach")
    BY <1>1, <2>1 DEF RecordState, RecordFields
  <2>4. RecordState(s)
    BY <1>1, <2>3 DEF RecordState, StagesOf
  <2> QED
    BY <1>1, <2>2, <2>3, <2>4, FilesKept DEF RecordPcs, CompletedPlansStay, At
<1> QED
  BY <1>2, <1>3

\* A file that may be deleted: the previous photo, or the upload that failed.
LEMMA UnlinkKeeps ==
  ASSUME RecordsInv, NEW c \in Calls, UnlinkPrevious(c) \/ UndoSave(c)
  PROVE  RecordsInv' /\ CompletedPlansStay
<1>1. /\ call[c].pc \in {"unlink", "undo"} /\ RecordState(call[c]) /\ call[c].op = "upload"
      /\ records' = records /\ photo' = photo
  BY OpsByPlace DEF RecordsInv, CallsFit, UnlinkPrevious, UndoSave, Unlinked, At, RecordPcs
<1>2. \E file : /\ files' \in {files, files \ {file}}
                /\ call[c].pc = "unlink" => file = call[c].found
                /\ call[c].pc = "undo" => file = c
  BY DEF UnlinkPrevious, UndoSave, Unlinked, At
<1>3. PICK file : /\ files' \in {files, files \ {file}}
                  /\ call[c].pc = "unlink" => file = call[c].found
                  /\ call[c].pc = "undo" => file = c
  BY <1>2
<1>4. \/ call[c].pc = "undo" /\ file = c
      \/ ~IsDocument(file) /\ \A e \in Employees : photo[e] # file
  BY <1>1, <1>3 DEF RecordsInv, PreviousIsGone, At
<1>5. \A d \in Calls \ {c} : call[d].pc \in {"previous", "swap", "attach"} => d # file
  <2>1. CASE call[c].pc = "unlink"
    <3>1. Placed(file)
      BY <1>3, <2>1 DEF RecordsInv, PreviousIsGone, At
    <3> QED
      BY <3>1, RecordsAssumption DEF Placed, Answers
  <2>2. CASE call[c].pc = "undo"
    BY <1>3, <2>2
  <2> QED
    BY <1>1, <2>1, <2>2
<1>6. \E pc \in Answers : \E answer :
        /\ call[c].pc = "undo" => pc = "refused"
        /\ call' = [call EXCEPT ![c] = [call[c] EXCEPT !.pc = pc, !.answer = answer]]
  <2>1. CASE UnlinkPrevious(c)
    BY <2>1 DEF UnlinkPrevious, At, Said, Become, Answers
  <2>2. CASE UndoSave(c)
    <3>1. call' = [call EXCEPT ![c] = [call[c] EXCEPT !.pc = "refused"]]
      BY <2>2, GotoBecomes DEF UndoSave
    <3>2. [call[c] EXCEPT !.pc = "refused"] = [call[c] EXCEPT !.pc = "refused", !.answer = call[c].answer]
      BY <1>1 DEF RecordState, RecordFields
    <3> QED
      BY <3>1, <3>2 DEF Answers
  <2> QED
    BY <2>1, <2>2
<1>7. PICK pc \in Answers : \E answer :
        /\ call[c].pc = "undo" => pc = "refused"
        /\ call' = [call EXCEPT ![c] = [call[c] EXCEPT !.pc = pc, !.answer = answer]]
  BY <1>6
<1>8. PICK answer : /\ call[c].pc = "undo" => pc = "refused"
                    /\ call' = [call EXCEPT ![c] = [call[c] EXCEPT !.pc = pc, !.answer = answer]]
  BY <1>7
<1>9. PICK s : s = [call[c] EXCEPT !.pc = pc, !.answer = answer]
  OBVIOUS
<1>10. DOMAIN s = RecordFields /\ s.op = call[c].op /\ s.kind = call[c].kind /\ s.subject = call[c].subject
       /\ s.id = call[c].id /\ s.pc \in Answers /\ (call[c].pc = "undo" => s.pc = "refused")
  BY <1>1, <1>8, <1>9 DEF RecordState, RecordFields
<1>11. RecordState(s)
  BY <1>1, <1>10 DEF RecordState, StagesOf, Answers
<1>12. \A f : f \in files /\ f \notin files' => f = file
  BY <1>3
<1> HIDE DEF RecordState
<1> QED
  BY <1>1, <1>4, <1>5, <1>8, <1>9, <1>10, <1>11, <1>12, FilesKept DEF RecordPcs, CompletedPlansStay, Answers

\* The row of a photo is written, whether the answer to it arrives or not.
LEMMA SwapKeeps ==
  ASSUME RecordsInv, NEW c \in Calls, SwapRow(c), NEW pc \in {"done", "unlink", "undo"}, NEW answer,
         pc = "unlink" => call[c].found # NoRecord,
         call' = [call EXCEPT ![c] = [call[c] EXCEPT !.pc = pc, !.answer = answer]]
  PROVE  RecordsInv' /\ CompletedPlansStay
<1>1. /\ call[c].pc = "swap" /\ RecordState(call[c]) /\ call[c].op = "upload" /\ c \in files
      /\ records' = records /\ files' = files
  BY OpsByPlace DEF RecordsInv, CallsFit, SwapRow, At, RecordPcs, UploadsHaveFiles
<1>2. PICK e \in Employees : e = call[c].subject
  BY <1>1 DEF RecordState
<1>3. photo' = [photo EXCEPT ![e] = c] /\ DOMAIN photo = Employees
  BY <1>2 DEF SwapRow, RecordsInv, PhotosHaveFiles
<1>4. photo'[e] = c /\ DOMAIN photo' = Employees /\ \A d \in Employees \ {e} : photo'[d] = photo[d]
  BY <1>3
<1>8. PICK s : s = [call[c] EXCEPT !.pc = pc, !.answer = answer]
  OBVIOUS
<1>9. DOMAIN s = RecordFields /\ s.op = call[c].op /\ s.kind = call[c].kind /\ s.subject = call[c].subject
      /\ s.id = call[c].id /\ s.pc = pc /\ s.found = call[c].found
  BY <1>1, <1>8 DEF RecordState, RecordFields
<1>10. RecordState(s)
  BY <1>1, <1>9 DEF RecordState, StagesOf, Answers
<1>11. /\ CallsFit' /\ RecordsFit' /\ MadeAtTheEnd' /\ NamedAfterwards' /\ FoundHolds' /\ CompletionHolds'
       /\ call'[c] = s /\ \A d \in Calls \ {c} : call'[d] = call[d]
       /\ \A f : (Placed(f) => Placed(f)') /\ (Refused(f) => Refused(f)') /\ (IsDocument(f)' <=> IsDocument(f))
  BY <1>1, <1>8, <1>9, <1>10, RecordsKept DEF RecordPcs
<1>12. ~Placed(c) /\ Placed(c)' /\ ~IsDocument(c) /\ c # NoRecord
  BY <1>1, <1>9, <1>11, RecordsAssumption DEF Placed, Answers, IsDocument, RecordsInv, MadeAtTheEnd, Past, RecordIds
<1>13. PhotosHaveFiles'
  <2> SUFFICES ASSUME NEW d \in Employees, photo'[d] # NoRecord
               PROVE  /\ HasFile(photo[d])' /\ Placed(photo[d])' /\ ~IsDocument(photo[d])'
                      /\ \A b \in Employees \ {d} : photo'[b] # photo'[d]
    BY <1>4 DEF PhotosHaveFiles
  <2>1. CASE d = e
    <3>1. \A b \in Employees \ {d} : photo'[b] # c
      BY <1>4, <1>12, <2>1 DEF RecordsInv, PhotosHaveFiles
    <3> QED
      BY <1>1, <1>4, <1>11, <1>12, <2>1, <3>1 DEF IsDocument, Kept, HasFile
  <2>2. CASE d # e
    <3>1. photo'[d] = photo[d] /\ HasFile(photo[d]) /\ Placed(photo[d]) /\ ~IsDocument(photo[d])
      BY <1>4, <2>2 DEF RecordsInv, PhotosHaveFiles
    <3>2. \A b \in Employees \ {d} : photo'[b] # photo[d]
      BY <1>4, <1>12, <2>2, <3>1 DEF RecordsInv, PhotosHaveFiles
    <3>3. PICK f : f = photo[d]
      OBVIOUS
    <3>4. Placed(f)' /\ ~IsDocument(f)' /\ HasFile(f)'
      BY <1>1, <1>11, <3>1, <3>3 DEF HasFile
    <3> QED
      BY <1>1, <3>1, <3>2, <3>3, <3>4 DEF Placed, IsDocument, Kept, HasFile, Refused, At
  <2> QED
    BY <2>1, <2>2
<1>14. DocumentsHaveFiles'
  BY <1>1, <1>11 DEF RecordsInv, DocumentsHaveFiles, HasFile
<1>15. UploadsHaveFiles'
  BY <1>1, <1>9, <1>11 DEF RecordsInv, UploadsHaveFiles
<1>16. PreviousIsGone'
  <2> SUFFICES ASSUME NEW d \in Calls, call'[d].pc \in {"swap", "unlink"}, NEW f, f = call'[d].found
               PROVE  \/ call'[d].pc = "swap" /\ f = NoRecord
                      \/ /\ Placed(f)' /\ ~IsDocument(f)'
                         /\ \A b \in Employees : photo'[b] = f => call'[d].pc = "swap" /\ b = call'[d].subject
    BY DEF PreviousIsGone, At, Placed, IsDocument
  <2>1. CASE d = c
    <3>1. Placed(f) /\ ~IsDocument(f) /\ \A b \in Employees : photo[b] = f => b = e
      BY <1>1, <1>2, <1>9, <1>11, <2>1 DEF RecordsInv, PreviousIsGone, At
    <3> QED
      BY <1>4, <1>11, <1>12, <3>1
  <2>2. CASE d # c
    <3>1. call'[d] = call[d]
      BY <1>11, <2>2
    <3>2. \/ call[d].pc = "swap" /\ f = NoRecord
          \/ /\ Placed(f) /\ ~IsDocument(f)
             /\ \A b \in Employees : photo[b] = f => call[d].pc = "swap" /\ b = call[d].subject
      BY <3>1 DEF RecordsInv, PreviousIsGone, At
    <3> QED
      BY <1>4, <1>11, <1>12, <3>1, <3>2
  <2> QED
    BY <2>1, <2>2
<1> QED
  BY <1>1, <1>11, <1>13, <1>14, <1>15, <1>16 DEF RecordsInv, CompletedPlansStay

LEMMA UploadKeeps ==
  ASSUME RecordsInv, NEW c \in Calls, AttachFile(c) \/ SwapPhoto(c)
  PROVE  RecordsInv' /\ CompletedPlansStay
<1>1. RecordState(call[c])
  BY OpsByPlace DEF RecordsInv, CallsFit, AttachFile, AttachRow, SwapPhoto, SwapRow, At, RecordPcs
<1>2. CASE AttachFile(c)
  BY <1>2, AttachKeeps DEF AttachFile, Said, Become
<1>3. CASE SwapPhoto(c) /\ call[c].found = NoRecord
  BY <1>3, SwapKeeps DEF SwapPhoto, Said, Become
<1>4. CASE SwapPhoto(c) /\ call[c].found # NoRecord
  <2>1. call' = [call EXCEPT ![c] = [call[c] EXCEPT !.pc = "unlink"]]
    BY <1>4, GotoBecomes DEF SwapPhoto
  <2>2. [call[c] EXCEPT !.pc = "unlink"] = [call[c] EXCEPT !.pc = "unlink", !.answer = call[c].answer]
    BY <1>1 DEF RecordState, RecordFields
  <2> QED
    BY <1>4, <2>1, <2>2, SwapKeeps DEF SwapPhoto
<1> QED
  BY <1>2, <1>3, <1>4

\* The statement of a row fails: the row is not written, or it is and the answer is lost.
LEMMA RowFailsKeeps ==
  ASSUME RecordsInv, NEW c \in Calls, RowFails(c)
  PROVE  RecordsInv' /\ CompletedPlansStay
<1>1. call[c].pc \in {"attach", "swap"} /\ RecordState(call[c]) /\ call[c].op = "upload"
  BY OpsByPlace DEF RecordsInv, CallsFit, RowFails, RecordPcs
<1>2. PICK s : s = [call[c] EXCEPT !.pc = "undo"]
  OBVIOUS
<1>3. call' = [call EXCEPT ![c] = s]
  BY <1>2, GotoBecomes DEF RowFails
<1>4. CASE RecordsUnchanged
  <2>1. DOMAIN s = RecordFields /\ s.op = call[c].op /\ s.kind = call[c].kind /\ s.subject = call[c].subject
        /\ s.id = call[c].id /\ s.pc = "undo"
    BY <1>1, <1>2 DEF RecordState, RecordFields
  <2>2. s.pc \in StagesOf(call[c].op) \cap (Plain \cup Answers)
    BY <1>1, <2>1 DEF StagesOf, Plain, RecordPcs
  <2> QED
    BY <1>1, <1>3, <1>4, <2>1, <2>2, PlainSteps DEF RecordPcs, RecordsUnchanged, CompletedPlansStay
<1>5. s = [call[c] EXCEPT !.pc = "undo", !.answer = call[c].answer]
  BY <1>1, <1>2 DEF RecordState, RecordFields
<1>6. CASE AttachRow(c)
  BY <1>3, <1>5, <1>6, AttachKeeps
<1>7. CASE SwapRow(c)
  BY <1>3, <1>5, <1>7, SwapKeeps
<1> QED
  BY <1>4, <1>6, <1>7 DEF RowFails, RecordsUnchanged, recordVars

-----------------------------------------------------------------------------
(* Requests about fields and lists.                                        *)

LEMMA OnlyOneMoves ==
  ASSUME DOMAIN call = Calls, NEW c \in Calls, NEW s, Become(c, s)
  PROVE  DOMAIN call' = Calls /\ call'[c] = s /\ \A d \in Calls \ {c} : call'[d] = call[d]
BY DEF Become

LEMMA GoneElsewhere ==
  ASSUME RecordsInv, RecordsUnchanged, NEW c \in Calls, call[c].pc \notin Answers \cup {"unlink", "undo"},
         DOMAIN call' = Calls, \A d \in Calls \ {c} : call'[d] = call[d], Elsewhere(call'[c])
  PROVE  RecordsInv'
<1>1. PICK s : s = call'[c]
  OBVIOUS
<1>2. GoesOn(c, s)
  BY <1>1 DEF Elsewhere, GoesOn, At, RecordPcs, RecordsInv, CallsFit, RecordState
<1> QED
  BY <1>1, <1>2, NothingWritten

\* A request that is elsewhere and only moves on.
LEMMA StaysElsewhere ==
  ASSUME NEW s, Elsewhere(s), NEW t, DOMAIN t = DOMAIN s, t.pc \notin RecordPcs
  PROVE  Elsewhere(t)
BY DEF Elsewhere

ListStages == {"columns", "prepare", "look", "everyone", "roster", "values", "cache", "mask"}
OtherPcs ==
  {"permit", "define", "gate", "writable", "append", "may", "store", "readback", "wanted", "query",
   "columns", "prepare", "look", "everyone", "roster", "values", "cache", "mask"}

LEMMA OthersAreElsewhere ==
  ASSUME CallsFit, NEW c \in Calls, call[c].pc \in OtherPcs
  PROVE  Elsewhere(call[c]) /\ call[c].pc \notin Answers /\ "pc" \in DOMAIN call[c] /\ DOMAIN call = Calls
BY OpsByPlace DEF CallsFit, RecordState, RecordPcs, OtherPcs, Answers, Elsewhere

LEMMA GoingElsewhere ==
  ASSUME CallsFit, NEW c \in Calls, call[c].pc \in OtherPcs, NEW pc, pc \notin RecordPcs, Goto(c, pc)
  PROVE  DOMAIN call' = Calls /\ Elsewhere(call'[c]) /\ call'[c].pc = pc /\ \A d \in Calls \ {c} : call'[d] = call[d]
<1>1. PICK s : s = [call[c] EXCEPT !.pc = pc]
  OBVIOUS
<1>2. Become(c, s) /\ DOMAIN s = DOMAIN call[c] /\ s.pc = pc
  BY <1>1, GotoBecomes, OthersAreElsewhere DEF Become
<1> QED
  BY <1>2, OnlyOneMoves, OthersAreElsewhere, StaysElsewhere

LEMMA BecomingElsewhere ==
  ASSUME CallsFit, NEW c \in Calls, call[c].pc \in OtherPcs, NEW s, Become(c, s), s.pc \notin RecordPcs,
         DOMAIN s = DOMAIN call[c]
  PROVE  DOMAIN call' = Calls /\ Elsewhere(call'[c]) /\ call'[c] = s /\ \A d \in Calls \ {c} : call'[d] = call[d]
BY OnlyOneMoves, OthersAreElsewhere, StaysElsewhere

LEMMA RegistryStaysElsewhere ==
  ASSUME CallsFit, NEW c \in Calls, ServeRegistry(c)
  PROVE  /\ call[c].pc \in OtherPcs
         /\ DOMAIN call' = Calls /\ Elsewhere(call'[c]) /\ \A d \in Calls \ {c} : call'[d] = call[d]
<1>1. call[c].pc \in OtherPcs
  BY DEF ServeRegistry, MayManage, DefineField, WritableField, GateSet, MayWrite, SetValue, ReadBack,
     SetBuiltinFieldValue, ChooseDefinitions, QueryValues, At, OtherPcs
<1>2. "pc" \in DOMAIN call[c]
  BY <1>1, OthersAreElsewhere
<1>3. CASE \E pc \in OtherPcs \cup {"refused"} : Goto(c, pc)
  BY <1>1, <1>3, GoingElsewhere DEF OtherPcs, RecordPcs
<1>4. ASSUME ~(\E pc \in OtherPcs \cup {"refused"} : Goto(c, pc))
      PROVE  DOMAIN call' = Calls /\ Elsewhere(call'[c]) /\ \A d \in Calls \ {c} : call'[d] = call[d]
  <2>0. MayManage(c) \/ WritableField(c) \/ GateSet(c) \/ MayWrite(c) \/ SetValue(c) => FALSE
    BY <1>4 DEF MayManage, WritableField, GateSet, MayWrite, SetValue, OtherPcs
  <2>1. CASE DefineField(c)
    <3>1. PICK f : Become(c, [call[c] EXCEPT !.pc = "done", !.field = f])
      BY <1>4, <2>1 DEF DefineField, Refuse
    <3>2. PICK s : s = [call[c] EXCEPT !.pc = "done", !.field = f]
      OBVIOUS
    <3>3. Become(c, s)
      BY <3>1, <3>2
    <3>4. DOMAIN s = DOMAIN call[c] /\ s.pc \notin RecordPcs
      BY <1>2, <3>2 DEF RecordPcs
    <3> QED
      BY <1>1, <3>3, <3>4, BecomingElsewhere
  <2>2. CASE ReadBack(c) \/ SetBuiltinFieldValue(c) \/ QueryValues(c)
    <3>1. PICK answer : Become(c, [call[c] EXCEPT !.pc = "done", !.answer = answer])
      BY <1>4, <2>2 DEF ReadBack, SetBuiltinFieldValue, QueryValues, Answer, Refuse
    <3>2. PICK s : s = [call[c] EXCEPT !.pc = "done", !.answer = answer]
      OBVIOUS
    <3>3. Become(c, s)
      BY <3>1, <3>2
    <3>4. DOMAIN s = DOMAIN call[c] /\ s.pc \notin RecordPcs
      BY <1>2, <3>2 DEF RecordPcs
    <3> QED
      BY <1>1, <3>3, <3>4, BecomingElsewhere
  <2>3. CASE ChooseDefinitions(c)
    <3>1. PICK wanted : Become(c, [call[c] EXCEPT !.pc = "query", !.wanted = wanted])
      BY <1>4, <2>3 DEF ChooseDefinitions
    <3>2. PICK s : s = [call[c] EXCEPT !.pc = "query", !.wanted = wanted]
      OBVIOUS
    <3>3. Become(c, s)
      BY <3>1, <3>2
    <3>4. DOMAIN s = DOMAIN call[c] /\ s.pc \notin RecordPcs
      BY <1>2, <3>2 DEF RecordPcs
    <3> QED
      BY <1>1, <3>3, <3>4, BecomingElsewhere
  <2> QED
    BY <2>0, <2>1, <2>2, <2>3 DEF ServeRegistry
<1> QED
  BY <1>1, <1>3, <1>4

LEMMA ListStaysElsewhere ==
  ASSUME CallsFit, NEW c \in Calls, ServeList(c)
  PROVE  /\ call[c].pc \in OtherPcs /\ call'[c].pc \in ListStages \cup Answers
         /\ DOMAIN call' = Calls /\ Elsewhere(call'[c]) /\ \A d \in Calls \ {c} : call'[d] = call[d]
<1>1. call[c].pc \in OtherPcs
  BY DEF ServeList, ChooseColumns, Prepare, Look, ResolveEveryone, LoadEmployeeSnapshots, QueryEmployees,
     PageAudiences, MaskRows, At, OtherPcs
<1>2. "pc" \in DOMAIN call[c]
  BY <1>1, OthersAreElsewhere
<1>3. CASE Goto(c, "refused")
  BY <1>1, <1>3, GoingElsewhere DEF RecordPcs, Answers
<1>4. CASE \E rows, total : Done(c, call[c], rows, total)
  <2>1. PICK rows, total : Done(c, call[c], rows, total)
    BY <1>4
  <2>2. PICK s : s = [pc |-> "done", kind |-> call[c].kind, viewer |-> call[c].viewer, sort |-> call[c].sort,
             order |-> call[c].order, filters |-> call[c].filters, columns |-> call[c].columns, page |-> call[c].page,
             pageSize |-> call[c].pageSize, rows |-> rows, total |-> total, failed |-> call[c].failed]
    OBVIOUS
  <2>3. Become(c, s)
    BY <2>1, <2>2 DEF Done
  <2>4. Elsewhere(s) /\ s.pc = "done"
    BY <2>2 DEF Elsewhere, RecordPcs
  <2> QED
    BY <1>1, <2>3, <2>4, OnlyOneMoves DEF CallsFit, Answers
<1>5. ASSUME ~Goto(c, "refused"), ~(\E rows, total : Done(c, call[c], rows, total))
      PROVE  /\ DOMAIN call' = Calls /\ Elsewhere(call'[c]) /\ \A d \in Calls \ {c} : call'[d] = call[d]
             /\ call'[c].pc \in ListStages
  <2>1. CASE ChooseColumns(c)
    <3>1. PICK columns : Become(c, [call[c] EXCEPT !.pc = "prepare", !.columns = columns])
      BY <1>5, <2>1 DEF ChooseColumns
    <3>2. PICK s : s = [call[c] EXCEPT !.pc = "prepare", !.columns = columns]
      OBVIOUS
    <3>3. Become(c, s)
      BY <3>1, <3>2
    <3>4. DOMAIN s = DOMAIN call[c] /\ s.pc \in ListStages
      BY <1>2, <3>2 DEF ListStages
    <3> QED
      BY <1>1, <3>3, <3>4, BecomingElsewhere DEF RecordPcs, ListStages
  <2>2. CASE Prepare(c)
    <3>1. \E filters, kept : \E pc \in {"everyone", "look"} :
            Become(c, [call[c] EXCEPT !.filters = filters, !.kept = kept, !.pc = pc])
      BY <2>2 DEF Prepare
    <3>2. PICK filters, kept : \E pc \in {"everyone", "look"} :
            Become(c, [call[c] EXCEPT !.filters = filters, !.kept = kept, !.pc = pc])
      BY <3>1
    <3>3. PICK pc \in {"everyone", "look"} : Become(c, [call[c] EXCEPT !.filters = filters, !.kept = kept, !.pc = pc])
      BY <3>2
    <3>4. PICK s : s = [call[c] EXCEPT !.filters = filters, !.kept = kept, !.pc = pc]
      OBVIOUS
    <3>5. Become(c, s)
      BY <3>3, <3>4
    <3>6. DOMAIN s = DOMAIN call[c] /\ s.pc \in ListStages
      BY <1>2, <3>4 DEF ListStages
    <3> QED
      BY <1>1, <3>5, <3>6, BecomingElsewhere DEF RecordPcs, ListStages
  <2>3. CASE Look(c)
    <3>1. \E visible, filters, audiences : \E pc \in {"everyone", "roster"} :
            Become(c, [call[c] EXCEPT !.visible = visible, !.filters = filters, !.audiences = audiences, !.pc = pc])
      BY <1>5, <2>3 DEF Look
    <3>2. PICK visible, filters, audiences : \E pc \in {"everyone", "roster"} :
            Become(c, [call[c] EXCEPT !.visible = visible, !.filters = filters, !.audiences = audiences, !.pc = pc])
      BY <3>1
    <3>3. PICK pc \in {"everyone", "roster"} :
            Become(c, [call[c] EXCEPT !.visible = visible, !.filters = filters, !.audiences = audiences, !.pc = pc])
      BY <3>2
    <3>4. PICK s : s = [call[c] EXCEPT !.visible = visible, !.filters = filters, !.audiences = audiences, !.pc = pc]
      OBVIOUS
    <3>5. Become(c, s)
      BY <3>3, <3>4
    <3>6. DOMAIN s = DOMAIN call[c] /\ s.pc \in ListStages
      BY <1>2, <3>4 DEF ListStages
    <3> QED
      BY <1>1, <3>5, <3>6, BecomingElsewhere DEF RecordPcs, ListStages
  <2>4. CASE ResolveEveryone(c)
    <3>1. \E audiences : \E pc \in {"look", "roster"} : Become(c, [call[c] EXCEPT !.pc = pc, !.audiences = audiences])
      BY <2>4 DEF ResolveEveryone
    <3>2. PICK audiences : \E pc \in {"look", "roster"} : Become(c, [call[c] EXCEPT !.pc = pc, !.audiences = audiences])
      BY <3>1
    <3>3. PICK pc \in {"look", "roster"} : Become(c, [call[c] EXCEPT !.pc = pc, !.audiences = audiences])
      BY <3>2
    <3>4. PICK s : s = [call[c] EXCEPT !.pc = pc, !.audiences = audiences]
      OBVIOUS
    <3>5. Become(c, s)
      BY <3>3, <3>4
    <3>6. DOMAIN s = DOMAIN call[c] /\ s.pc \in ListStages
      BY <1>2, <3>4 DEF ListStages
    <3> QED
      BY <1>1, <3>5, <3>6, BecomingElsewhere DEF RecordPcs, ListStages
  <2>5. CASE LoadEmployeeSnapshots(c)
    <3>1. PICK found : Become(c, [call[c] EXCEPT !.pc = "values", !.found = found])
      BY <2>5 DEF LoadEmployeeSnapshots
    <3>2. PICK s : s = [call[c] EXCEPT !.pc = "values", !.found = found]
      OBVIOUS
    <3>3. Become(c, s)
      BY <3>1, <3>2
    <3>4. DOMAIN s = DOMAIN call[c] /\ s.pc \in ListStages
      BY <1>2, <3>2 DEF ListStages
    <3> QED
      BY <1>1, <3>3, <3>4, BecomingElsewhere DEF RecordPcs, ListStages
  <2>6. CASE QueryEmployees(c)
    <3>1. PICK total, down, failed, batch :
            Become(c, [call[c] EXCEPT !.pc = "cache", !.found = NoAudiences, !.total = total, !.batch = batch,
                       !.down = down, !.failed = failed])
      BY <1>5, <2>6 DEF QueryEmployees
    <3>2. PICK s : s = [call[c] EXCEPT !.pc = "cache", !.found = NoAudiences, !.total = total, !.batch = batch,
                       !.down = down, !.failed = failed]
      OBVIOUS
    <3>3. Become(c, s)
      BY <3>1, <3>2
    <3>4. DOMAIN s = DOMAIN call[c] /\ s.pc \in ListStages
      BY <1>2, <3>2 DEF ListStages
    <3> QED
      BY <1>1, <3>3, <3>4, BecomingElsewhere DEF RecordPcs, ListStages
  <2>7. CASE PageAudiences(c)
    <3>1. PICK audiences : Become(c, [call[c] EXCEPT !.pc = "mask", !.audiences = audiences])
      BY <2>7 DEF PageAudiences
    <3>2. PICK s : s = [call[c] EXCEPT !.pc = "mask", !.audiences = audiences]
      OBVIOUS
    <3>3. Become(c, s)
      BY <3>1, <3>2
    <3>4. DOMAIN s = DOMAIN call[c] /\ s.pc \in ListStages
      BY <1>2, <3>2 DEF ListStages
    <3> QED
      BY <1>1, <3>3, <3>4, BecomingElsewhere DEF RecordPcs, ListStages
  <2>8. CASE MaskRows(c)
    <3>1. \E rows : Become(c, [call[c] EXCEPT !.pc = "look", !.rows = rows, !.batch = <<>>, !.page = @ + 1])
      BY <1>5, <2>8 DEF MaskRows
    <3>2. PICK rows : Become(c, [call[c] EXCEPT !.pc = "look", !.rows = rows, !.batch = <<>>, !.page = @ + 1])
      BY <3>1
    <3>3. PICK s : s = [call[c] EXCEPT !.pc = "look", !.rows = rows, !.batch = <<>>, !.page = @ + 1]
      OBVIOUS
    <3>4. Become(c, s)
      BY <3>2, <3>3
    <3>5. DOMAIN s = DOMAIN call[c] /\ s.pc \in ListStages
      BY <1>2, <3>3 DEF ListStages
    <3> QED
      BY <1>1, <3>4, <3>5, BecomingElsewhere DEF RecordPcs, ListStages
  <2> QED
    BY <2>1, <2>2, <2>3, <2>4, <2>5, <2>6, <2>7, <2>8 DEF ServeList
<1> QED
  BY <1>1, <1>3, <1>4, <1>5

-----------------------------------------------------------------------------
(* Every step.                                                             *)

LEMMA RecordBegins ==
  ASSUME RecordsInv, NEW c \in Calls, BeginRecord(c)
  PROVE  RecordsInv'
<1>1. call[c].pc \notin Answers /\ At(c, "idle") /\ RecordsUnchanged
  BY DEF BeginRecord, At, Answers, recordVars, RecordsUnchanged
<1>2. PICK ask \in Asks :
        /\ ask.id \in Calls => Kept(ask.id) \/ At(ask.id, "done")
        /\ Become(c, [pc |-> IF ask.op = "risks" THEN "walk" ELSE "enter", op |-> ask.op, kind |-> ask.kind,
             viewer |-> ask.viewer, subject |-> ask.subject, id |-> ask.id, data |-> ask.data,
             audience |-> NoRecord, found |-> NoRecord, queue |-> <<ask.viewer>>, people |-> {}, answer |-> NoRecord])
  BY DEF BeginRecord
<1>3. PICK s : s = [pc |-> IF ask.op = "risks" THEN "walk" ELSE "enter", op |-> ask.op, kind |-> ask.kind,
             viewer |-> ask.viewer, subject |-> ask.subject, id |-> ask.id, data |-> ask.data,
             audience |-> NoRecord, found |-> NoRecord, queue |-> <<ask.viewer>>, people |-> {}, answer |-> NoRecord]
  OBVIOUS
<1>4. /\ DOMAIN s = RecordFields /\ s.pc = (IF ask.op = "risks" THEN "walk" ELSE "enter")
      /\ s.op = ask.op /\ s.kind = ask.kind /\ s.subject = ask.subject /\ s.id = ask.id
  BY <1>3 DEF RecordFields
<1>5. ask.subject \in Employees /\ MayBeAsked(ask.op, ask.kind)
      /\ (ask.op \in {"change", "remove", "complete", "download"} => ask.id \in RecordIds)
  BY RecordsAssumption
<1>6. ask.op \in {"list", "view", "upload", "create", "complete", "change", "remove", "download", "risks"}
  BY <1>5 DEF MayBeAsked
<1>7. s.pc \in StagesOf(s.op)
  BY <1>4, <1>6 DEF StagesOf
<1>8. RecordState(s)
  BY <1>4, <1>5, <1>6, <1>7 DEF RecordState
<1>9. GoesOn(c, s)
  BY <1>1, <1>2, <1>4, <1>8 DEF GoesOn, At, Past, Answers, RecordsInv, MadeAtTheEnd
<1> QED
  BY <1>1, <1>2, <1>3, <1>9, OneGoesOn DEF Become

LEMMA OthersBegin ==
  ASSUME RecordsInv, RecordsUnchanged, NEW c \in Calls, BeginRegistry(c) \/ BeginList(c)
  PROVE  RecordsInv'
<1>1. call[c].pc = "idle" /\ DOMAIN call = Calls
  BY DEF BeginRegistry, BeginList, At, RecordsInv, CallsFit
<1>2. CASE BeginDefine(c)
  <2>1. PICK viewer \in Definers, d \in Drafts :
          Become(c, [pc |-> "permit", viewer |-> viewer, draft |-> d, field |-> Null])
    BY <1>2 DEF BeginDefine
  <2>2. PICK s : s = [pc |-> "permit", viewer |-> viewer, draft |-> d, field |-> Null]
    OBVIOUS
  <2>3. Elsewhere(s)
    BY <2>2 DEF Elsewhere, RecordPcs
  <2> QED
    BY <1>1, <2>1, <2>2, <2>3, OnlyOneMoves, GoneElsewhere DEF Answers
<1>3. CASE BeginSet(c)
  <2>1. PICK ask \in SetOrders :
          Become(c, [pc |-> IF ask.route = "fields" THEN "gate" ELSE "writable", viewer |-> ask.viewer,
                     subject |-> ask.subject, field |-> ask.field, value |-> ask.value, answer |-> Null])
    BY <1>3 DEF BeginSet
  <2>2. PICK s : s = [pc |-> IF ask.route = "fields" THEN "gate" ELSE "writable", viewer |-> ask.viewer,
                      subject |-> ask.subject, field |-> ask.field, value |-> ask.value, answer |-> Null]
    OBVIOUS
  <2>3. Elsewhere(s)
    BY <2>2 DEF Elsewhere, RecordPcs
  <2> QED
    BY <1>1, <2>1, <2>2, <2>3, OnlyOneMoves, GoneElsewhere DEF Answers
<1>4. CASE BeginValues(c)
  <2>1. PICK ask \in Readers :
          Become(c, [pc |-> "wanted", route |-> ask.route, viewer |-> ask.viewer, subject |-> ask.subject,
                     wanted |-> {}, answer |-> Null])
    BY <1>4 DEF BeginValues
  <2>2. PICK s : s = [pc |-> "wanted", route |-> ask.route, viewer |-> ask.viewer, subject |-> ask.subject,
                      wanted |-> {}, answer |-> Null]
    OBVIOUS
  <2>3. Elsewhere(s)
    BY <2>2 DEF Elsewhere, RecordPcs
  <2> QED
    BY <1>1, <2>1, <2>2, <2>3, OnlyOneMoves, GoneElsewhere DEF Answers
<1>5. CASE BeginList(c)
  <2>1. PICK q \in Queries :
       Become(c, [pc |-> IF q.kind = "export" THEN "columns" ELSE "look",
                  kind |-> q.kind, viewer |-> q.viewer, sort |-> q.sort, order |-> q.order,
                  filters |-> q.filters, columns |-> q.columns,
                  page |-> IF q.kind = "export" THEN 1 ELSE q.page,
                  pageSize |-> IF q.kind = "export" THEN MaxPageSize ELSE q.pageSize,
                  visible |-> {}, audiences |-> NoAudiences, kept |-> FALSE, found |-> NoAudiences,
                  batch |-> <<>>, rows |-> <<>>, total |-> 0, down |-> {}, failed |-> {}])
    BY <1>5 DEF BeginList
  <2>2. PICK s : s = [pc |-> IF q.kind = "export" THEN "columns" ELSE "look",
                  kind |-> q.kind, viewer |-> q.viewer, sort |-> q.sort, order |-> q.order,
                  filters |-> q.filters, columns |-> q.columns,
                  page |-> IF q.kind = "export" THEN 1 ELSE q.page,
                  pageSize |-> IF q.kind = "export" THEN MaxPageSize ELSE q.pageSize,
                  visible |-> {}, audiences |-> NoAudiences, kept |-> FALSE, found |-> NoAudiences,
                  batch |-> <<>>, rows |-> <<>>, total |-> 0, down |-> {}, failed |-> {}]
    OBVIOUS
  <2>3. Elsewhere(s)
    BY <2>2 DEF Elsewhere, RecordPcs
  <2> QED
    BY <1>1, <2>1, <2>2, <2>3, OnlyOneMoves, GoneElsewhere DEF Answers
<1> QED
  BY <1>2, <1>3, <1>4, <1>5 DEF BeginRegistry

LEMMA CrashKeeps ==
  ASSUME RecordsInv, Crash
  PROVE  RecordsInv'
<1>1. RecordsUnchanged /\ DOMAIN call' = Calls
  BY DEF Crash, recordVars, RecordsUnchanged
<1>2. ASSUME NEW c \in Calls
      PROVE  call'[c] = call[c] \/ (call[c].pc \notin Answers /\ GoesOn(c, call'[c]))
  <2>1. PICK s : s = [call[c] EXCEPT !.pc = "refused"]
    OBVIOUS
  <2> QED
    BY <2>1, Refusing DEF Crash, Waiting
<1> QED
  BY <1>1, <1>2, NothingWritten

LEMMA ServeKeeps ==
  ASSUME RecordsInv, NEW c \in Calls, ServeRecord(c) \/ RowFails(c)
  PROVE  RecordsInv' /\ CompletedPlansStay
<1>1. CASE InsertRecord(c) \/ AttachFile(c) \/ WriteRecord(c) \/ DeleteRecord(c) \/ UpdateRecord(c) \/ SaveFile(c)
           \/ UnlinkPrevious(c) \/ UndoSave(c) \/ SwapPhoto(c) \/ RowFails(c)
  BY <1>1, InsertKeeps, UploadKeeps, WriteKeeps, DeleteKeeps, UpdateKeeps, SaveKeeps, UnlinkKeeps, RowFailsKeeps
<1>2. CASE EnterSection(c) \/ FindRecord(c) \/ AssertOpen(c) \/ ReadAgain(c) \/ PeekRecord(c) \/ ReadSection(c)
           \/ PreviousPhoto(c) \/ JudgeDownload(c) \/ FindPortrait(c) \/ OpenFile(c) \/ WalkReports(c)
           \/ AddPartnered(c) \/ AddStaffed(c) \/ ShowRisks(c)
  <2>1. RecordsInv'
    BY <1>2, EnterKeeps, FindKeeps, AssertOpenKeeps, AnsweringKeeps, PreviousKeeps, DownloadKeeps, DashboardKeeps
  <2>2. records' = records
    BY <1>2 DEF EnterSection, FindRecord, Denied, AssertOpen, ReadAgain, PeekRecord, ReadSection, PreviousPhoto,
       JudgeDownload, FindPortrait, OpenFile, WalkReports, AddPartnered, AddStaffed, ShowRisks, recordVars
  <2> QED
    BY <2>1, <2>2 DEF CompletedPlansStay
<1> QED
  BY <1>1, <1>2 DEF ServeRecord

LEMMA StepKeeps ==
  ASSUME RecordsInv, [Next]_directoryVars
  PROVE  RecordsInv' /\ CompletedPlansStay
<1>1. CASE RecordsUnchanged
  <2>1. CompletedPlansStay
    BY <1>1 DEF RecordsUnchanged, CompletedPlansStay
  <2>2. CASE call' = call
    BY <1>1, <2>1, <2>2, NothingWritten DEF RecordsInv, CallsFit
  <2>3. CASE Crash
    BY <2>1, <2>3, CrashKeeps
  <2>4. ASSUME NEW c \in Calls, StatementFails(c)
        PROVE  RecordsInv'
    BY <1>1, <2>4, RequestFails DEF StatementFails, Fail, Waiting
  <2>5. ASSUME NEW c \in Calls, BeginRegistry(c) \/ BeginList(c)
        PROVE  RecordsInv'
    BY <1>1, <2>5, OthersBegin
  <2>6. ASSUME NEW c \in Calls, ServeRegistry(c) \/ ServeList(c)
        PROVE  RecordsInv'
    <3>1. /\ call[c].pc \in OtherPcs
          /\ DOMAIN call' = Calls /\ Elsewhere(call'[c]) /\ \A d \in Calls \ {c} : call'[d] = call[d]
      BY <2>6, RegistryStaysElsewhere, ListStaysElsewhere DEF RecordsInv
    <3> QED
      BY <1>1, <3>1, GoneElsewhere DEF OtherPcs, Answers
  <2>7. ASSUME NEW c \in Calls, BeginRecord(c)
        PROVE  RecordsInv'
    BY <2>7, RecordBegins
  <2>8. ASSUME NEW c \in Calls, ServeRecord(c) \/ RowFails(c)
        PROVE  RecordsInv'
    BY <2>8, ServeKeeps
  <2>9. CASE Surroundings \/ UNCHANGED directoryVars
    BY <2>2, <2>9 DEF Surroundings, RosterMoves, OrgMoves, directoryVars, requestVars
  <2> QED
    BY <2>1, <2>3, <2>4, <2>5, <2>6, <2>7, <2>8, <2>9 DEF Next, Begin, Serve
<1>2. CASE ~RecordsUnchanged
  <2>1. \E c \in Calls : ServeRecord(c) \/ RowFails(c)
    BY <1>2 DEF Next, Begin, Serve, Surroundings, RosterMoves, Crash, StatementFails, BeginRecord,
       directoryVars, recordVars, RecordsUnchanged
  <2> QED
    BY <2>1, ServeKeeps
<1> QED
  BY <1>1, <1>2

LEMMA RecordsBegin ==
  ASSUME Init
  PROVE  RecordsInv
<1>1. \A c \in Calls : call[c] = NotAsked
  BY DEF Init, RequestsInit
<1>2. DOMAIN call = Calls /\ \A c \in Calls : Elsewhere(call[c]) /\ call[c].pc = "idle"
  BY <1>1 DEF Init, RequestsInit, NotAsked, Elsewhere, RecordPcs
<1>3. CallsFit /\ NamedAfterwards /\ FoundHolds /\ CompletionHolds /\ UploadsHaveFiles /\ PreviousIsGone
  BY <1>2 DEF CallsFit, NamedAfterwards, FoundHolds, CompletionHolds, UploadsHaveFiles, PreviousIsGone, Elsewhere, RecordPcs
<1>4. records \in RecordTables /\ photo \in Photos
  BY DEF Init, RecordsInit
<1>5. /\ DOMAIN records = RecordIds /\ \A c \in Calls : ~Kept(c)
      /\ \A i \in StoredIds : Kept(i) =>
           DOMAIN records[i] = {"kind", "subject", "data"} /\ (records[i].kind = "document" => records[i].data.file = i)
  BY <1>4, RecordsAssumption DEF Kept
<1>6. RecordsFit /\ MadeAtTheEnd /\ DocumentsHaveFiles
  BY <1>5 DEF RecordsFit, MadeAtTheEnd, DocumentsHaveFiles, HasFile, IsDocument, RecordIds, Init, RecordsInit
<1>7. /\ photo \in [Employees -> StoredIds \cup {NoRecord}]
      /\ \A d, e \in Employees : d # e /\ photo[d] # NoRecord => photo[d] # photo[e]
      /\ \A e \in Employees : photo[e] # NoRecord /\ records[photo[e]] # NoRecord => records[photo[e]].kind # "document"
  BY <1>4, RecordsAssumption
<1>8. PhotosHaveFiles
  <2>1. \A e \in Employees : photo[e] # NoRecord => photo[e] \in StoredIds
    BY <1>7
  <2>2. \A e \in Employees : photo[e] # NoRecord => photo[e] \in files
    BY <2>1 DEF Init, RecordsInit
  <2> QED
    BY <1>7, <2>1, <2>2 DEF PhotosHaveFiles, HasFile, Placed, IsDocument, Kept
<1> QED
  BY <1>3, <1>6, <1>8 DEF RecordsInv

\* Always: requests are where their kind can be, a record that a request makes is
\* there once the request is answered, or its statement has failed, and not before,
\* and every file that an upload on its way relies on exists, as does that of a
\* document or a photo but for an upload answered with an error, and each is
\* relied on once (uploadPhoto, createCertificate, updateIdpRecord).
THEOREM RecordsHold == Spec => []RecordsInv
<1>1. Init => RecordsInv
  BY RecordsBegin
<1>2. RecordsInv /\ [Next]_directoryVars => RecordsInv'
  BY StepKeeps
<1> QED
  BY <1>1, <1>2, PTL DEF Spec

\* Whatever uploads of the same photo cross, whichever statement of them fails,
\* its row written or not, and wherever the process stops: a document's file is
\* there, and so is the file of a photo, unless the upload of that very file was
\* answered with an error; so the file of an upload that succeeded, or that has
\* been there from the beginning, is never lost while it is in use (uploadPhoto,
\* createCertificate).  That the exception is taken, a run shows.
THEOREM FilesAreThereAlways == Spec => []FilesAreThere
<1>1. RecordsInv => FilesAreThere
  <2> SUFFICES ASSUME RecordsInv, NEW file \in RecordIds, Names(file)
               PROVE  HasFile(file)
    BY DEF FilesAreThere, HasFile, Refused
  <2>1. CASE \E i \in RecordIds : Kept(i) /\ records[i].kind = "document" /\ records[i].data.file = file
    BY <2>1 DEF RecordsInv, DocumentsHaveFiles, IsDocument
  <2>2. CASE \E e \in Employees : photo[e] = file
    <3>1. file # NoRecord
      BY RecordsAssumption
    <3> QED
      BY <2>2, <3>1 DEF RecordsInv, PhotosHaveFiles
  <2> QED
    BY <2>1, <2>2 DEF Names
<1> QED
  BY <1>1, RecordsHold, PTL

-----------------------------------------------------------------------------
(* One request moves at a time.                                            *)

MovesAlone(c) == \A d \in Calls \ {c} : call'[d] = call[d]

LEMMA RecordsServedAlone ==
  ASSUME DOMAIN call = Calls, NEW c \in Calls, ServeRecord(c) \/ RowFails(c)
  PROVE  MovesAlone(c)
<1>1. CASE EnterSection(c) \/ InsertRecord(c) \/ FindRecord(c) \/ WriteRecord(c) \/ DeleteRecord(c) \/ UpdateRecord(c)
  BY <1>1 DEF EnterSection, InsertRecord, FindRecord, WriteRecord, DeleteRecord, UpdateRecord, Denied, Said, Become,
     Goto, MovesAlone
<1>2. CASE AssertOpen(c) \/ ReadAgain(c) \/ PeekRecord(c) \/ ReadSection(c) \/ SaveFile(c) \/ AttachFile(c)
  BY <1>2 DEF AssertOpen, ReadAgain, PeekRecord, ReadSection, SaveFile, AttachFile, Denied, Said, Become, Goto, MovesAlone
<1>3. CASE PreviousPhoto(c) \/ SwapPhoto(c) \/ UnlinkPrevious(c) \/ UndoSave(c) \/ JudgeDownload(c) \/ FindPortrait(c)
  BY <1>3 DEF PreviousPhoto, SwapPhoto, UnlinkPrevious, UndoSave, JudgeDownload, FindPortrait, Said, Become, Goto, MovesAlone
<1>4. CASE OpenFile(c) \/ WalkReports(c) \/ AddPartnered(c) \/ AddStaffed(c) \/ ShowRisks(c) \/ RowFails(c)
  BY <1>4 DEF OpenFile, WalkReports, AddPartnered, AddStaffed, ShowRisks, RowFails, Said, Become, Goto, MovesAlone
<1> QED
  BY <1>1, <1>2, <1>3, <1>4 DEF ServeRecord

LEMMA OneServedAtATime ==
  ASSUME CallsFit, [Next]_directoryVars, NEW c \in Calls
  PROVE  \/ call'[c] = call[c]
         \/ Begin(c) \/ Serve(c) \/ StatementFails(c)
         \/ Crash
<1>1. ASSUME NEW d \in Calls, Begin(d) \/ Serve(d) \/ StatementFails(d)
      PROVE  MovesAlone(d)
  <2>1. CASE Begin(d)
    BY <2>1 DEF Begin, BeginRegistry, BeginDefine, BeginSet, BeginValues, BeginList, BeginRecord, Become, MovesAlone, CallsFit
  <2>2. CASE Serve(d)
    BY <2>2, RecordsServedAlone, RegistryStaysElsewhere, ListStaysElsewhere DEF Serve, MovesAlone, CallsFit
  <2>3. CASE StatementFails(d)
    BY <2>3 DEF StatementFails, Fail, Goto, MovesAlone, CallsFit
  <2> QED
    BY <1>1, <2>1, <2>2, <2>3
<1>2. CASE Surroundings \/ UNCHANGED directoryVars
  BY <1>2 DEF Surroundings, RosterMoves, directoryVars, requestVars
<1>3. CASE \E d \in Calls : Begin(d) \/ Serve(d) \/ StatementFails(d)
  BY <1>1, <1>3 DEF MovesAlone
<1> QED
  BY <1>2, <1>3 DEF Next

\* A plan that has been completed stays as it is, and a request that is told it has
\* completed the plan is the one that has (updateIdpRecord, completeIdpRecord).
THEOREM CompletedPlansAreFinalAlways == Spec => CompletedPlansAreFinal
<1> DEFINE OneIsTold ==
      \A c \in Calls : At(c, "reread") /\ call'[c].pc = "done" /\ call[c].op = "complete" =>
        call'[c].answer.data.completed = c
<1>1. ASSUME RecordsInv, [Next]_directoryVars
      PROVE  OneIsTold
  <2> SUFFICES ASSUME NEW c \in Calls, At(c, "reread"), call'[c].pc = "done", call[c].op = "complete"
               PROVE  call'[c].answer.data.completed = c
    OBVIOUS
  <2>1. RecordState(call[c]) /\ DOMAIN call = Calls /\ "answer" \in DOMAIN call[c] /\ "pc" \in DOMAIN call[c]
        /\ "op" \in DOMAIN call[c]
    BY <1>1, OpsByPlace DEF At, RecordsInv, CallsFit, RecordPcs, RecordState, RecordFields
  <2>2. call'[c] # call[c]
    BY DEF At
  <2>3. ~Begin(c)
    BY DEF Begin, BeginRegistry, BeginList, BeginRecord, At
  <2>4. ~StatementFails(c) /\ ~Crash
    BY <2>1 DEF StatementFails, Fail, Goto, Crash, At, Waiting
  <2>5. ~ServeRegistry(c) /\ ~ServeList(c)
    BY <1>1, RegistryStaysElsewhere, ListStaysElsewhere DEF At, OtherPcs, RecordsInv
  <2>6. ServeRecord(c) \/ RowFails(c)
    BY <1>1, <2>2, <2>3, <2>4, <2>5, OneServedAtATime DEF RecordsInv, Serve
  <2>7. ReadAgain(c)
    BY <2>6 DEF ServeRecord, RowFails, EnterSection, InsertRecord, FindRecord, WriteRecord, DeleteRecord, UpdateRecord,
       AssertOpen, PeekRecord, ReadSection, SaveFile, AttachFile, AttachRow, PreviousPhoto, SwapPhoto, SwapRow, UnlinkPrevious,
       UndoSave, JudgeDownload, FindPortrait, OpenFile, WalkReports, AddPartnered, AddStaffed, ShowRisks, At
  <2>8. Stored(call[c]) /\ call'[c].answer = records[call[c].id]
    BY <2>1, <2>7 DEF ReadAgain, Said, Become, Goto
  <2>9. records[call[c].id].data.completed = c
    BY <1>1, <2>1, <2>8 DEF RecordsInv, CompletionHolds
  <2> QED
    BY <2>8, <2>9
<1>2. RecordsInv /\ [Next]_directoryVars => CompletedPlansStay
  BY StepKeeps
<1>3. RecordsInv /\ [Next]_directoryVars => [CompletedPlansStay /\ OneIsTold]_<<recordVars, requestVars>>
  BY <1>1, <1>2
<1> QED
  BY <1>3, RecordsHold, PTL DEF Spec, CompletedPlansAreFinal, CompletedPlansStay

-----------------------------------------------------------------------------
(* What requests about fields, values and lists have, and by which         *)
(* organisation of their time it was open to the viewer.                   *)

RowsFit(rows) == rows \in Seq({rows[i] : i \in DOMAIN rows})

\* A field of the catalog: what its definition, or the table of builtin ones, says of it.
FieldFits(f) ==
  IF f.id \in FieldIds
  THEN f.source = "custom" /\ f.section = "S16" /\ Defined(f.id) /\ f.visibility = definitions[f.id].visibility
  ELSE f.source # "custom" /\ f.section = Spec1(BuiltinFieldSpecs, f.id).section

OpenAt(c, viewer, e, id) == (id \in FieldIds => Defined(id)) /\ \E o \in during[c] : MaySee(o, viewer, e, id)

RowIsOpen(c, viewer, filters, row) ==
  /\ \A id \in DOMAIN row.cells : row.cells[id] \in {Null, <<"unavailable">>} \/ OpenAt(c, viewer, row.employee, id)
  /\ \A f \in filters : f.field \in ProviderBacked => OpenAt(c, viewer, row.employee, f.field)

ListState(c, s) ==
  /\ DOMAIN s = {"pc", "kind", "viewer", "sort", "order", "filters", "columns", "page", "pageSize", "visible",
                 "audiences", "kept", "found", "batch", "rows", "total", "down", "failed"}
  /\ s.pc \in ListStages \cup {"refused"}
  /\ \A f \in s.visible : FieldFits(f)
  /\ DOMAIN s.audiences \subseteq Employees
  /\ \A e \in DOMAIN s.audiences : \E o \in during[c] : s.audiences[e] = AudienceOf(o, s.viewer, e)
  /\ RowsFit(s.rows) /\ \A i \in DOMAIN s.rows : RowIsOpen(c, s.viewer, s.filters, s.rows[i])
  /\ s.page \in Int /\ s.pageSize \in Int
  /\ s.visible # {} \/ s.pc \in {"roster", "values", "cache", "mask"} => s.page >= 1 /\ s.pageSize >= 1
  /\ s.pc = "values" =>
       DOMAIN s.found \subseteq Employees /\ (UsesProvider(s.filters) => DOMAIN s.found \subseteq S12Visible(s.audiences))
  /\ s.pc \in {"cache", "mask"} => RowsFit(s.batch) /\ \A i \in DOMAIN s.batch :
       /\ s.batch[i].employee \in Employees /\ DOMAIN s.batch[i].cells \subseteq Ids(s.visible)
       /\ UsesProvider(s.filters) => s.batch[i].employee \in S12Visible(s.audiences)
       /\ s.pc = "mask" => s.batch[i].employee \in DOMAIN s.audiences

ListedState(c, s) ==
  /\ DOMAIN s = {"pc", "kind", "viewer", "sort", "order", "filters", "columns", "page", "pageSize", "rows", "total", "failed"}
  /\ s.pc = "done" /\ \A i \in DOMAIN s.rows : RowIsOpen(c, s.viewer, s.filters, s.rows[i])

DefineState(s) ==
  DOMAIN s = {"pc", "viewer", "draft", "field"} /\ s.pc \in {"permit", "define"} \cup Answers

\* A value is only stored when it fits; and it is there as long as nobody writes.
AsStored(s) == IF s.value = Null THEN Null ELSE StorageColumns(definitions[s.field].type, s.value)

SetState(c, s) ==
  /\ DOMAIN s = {"pc", "viewer", "subject", "field", "value", "answer"}
  /\ s.pc \in {"gate", "writable", "append", "may", "store", "readback"} \cup Answers
  /\ s.subject \in Employees /\ s.field \in FieldIds \cup Builtin /\ \E ask \in SetOrders : s.value = ask.value
  /\ s.pc \in {"gate", "may", "store", "readback"} => s.field \in FieldIds
  /\ s.pc = "append" => s.field \in Builtin
  /\ s.pc \in {"store", "readback"} => Defined(s.field) /\ Fits(definitions[s.field], s.value)
  /\ s.pc = "readback" /\ steady[c] => stored[<<s.subject, s.field>>] = AsStored(s)
  /\ s.pc = "done" /\ steady[c] =>
       \/ s.answer = s.value
       \/ s.field \in FieldIds /\ Defined(s.field) /\ IsNoDay(definitions[s.field], s.value)

ValuesState(c, s) ==
  /\ DOMAIN s = {"pc", "route", "viewer", "subject", "wanted", "answer"}
  /\ s.pc \in {"wanted", "query"} \cup Answers
  /\ s.pc = "query" => \A f \in s.wanted :
       f \in FieldIds /\ Defined(f) /\ \E o \in during[c] : MaySeeValue(o, s.route, s.viewer, s.subject, f)
  /\ s.pc = "done" => \A shown \in s.answer :
       /\ shown[2] \in FieldIds /\ Defined(shown[2])
       /\ \E o \in during[c] : MaySeeValue(o, s.route, s.viewer, shown[1], shown[2])

SectionState(c, s) ==
  /\ RecordState(s)
  /\ s.pc = "read" => \E o \in during[c] :
       s.audience = AudienceOf(o, s.viewer, s.subject) /\ s.audience.sections[SectionOf(s.kind)] # "none"
  /\ s.pc = "done" /\ s.op = "list" => \A record \in s.answer : \E o \in during[c] : MaySeeRecord(o, s.viewer, record)

Sees(c, s) ==
  \/ s = NotAsked \/ DefineState(s) \/ SetState(c, s) \/ ValuesState(c, s)
  \/ ListState(c, s) \/ ListedState(c, s) \/ SectionState(c, s)

TablesFit ==
  DOMAIN call = Calls /\ DOMAIN during = Calls /\ DOMAIN steady = Calls
  /\ DOMAIN definitions = FieldIds /\ DOMAIN stored = Employees \X FieldIds
ValuesFit ==
  \A k \in Employees \X FieldIds : stored[k] # Null =>
    Defined(k[2]) /\ ValueOf(k[1], k[2]) # Null /\ Fits(definitions[k[2]], ValueOf(k[1], k[2]))
TimesFit == \A c \in Calls : Waiting(c) => org \in during[c]

ShowsInv == TablesFit /\ ValuesFit /\ TimesFit /\ \A c \in Calls : Sees(c, call[c])

-----------------------------------------------------------------------------
(* What other requests and other systems leave alone.                      *)

Lasts(c) ==
  /\ during[c] \subseteq during'[c]
  /\ DOMAIN definitions' = FieldIds /\ \A f \in FieldIds : Defined(f) => definitions'[f] = definitions[f]
  /\ steady'[c] => steady[c] /\ (At(c, "readback") => stored' = stored)

LEMMA OpenStays ==
  ASSUME NEW c, Lasts(c), NEW viewer, NEW e, NEW id, OpenAt(c, viewer, e, id)
  PROVE  OpenAt(c, viewer, e, id)'
<1>1. PICK o \in during[c] : MaySee(o, viewer, e, id)
  BY DEF OpenAt
<1>2. o \in during'[c]
  BY DEF Lasts
<1>3. (id \in FieldIds => Defined(id)) /\ (id \in FieldIds => Defined(id)')
  BY DEF Lasts, OpenAt, Defined
<1>4. MaySee(o, viewer, e, id)'
  <2>1. CASE id \in FieldIds
    BY <1>1, <1>3, <2>1 DEF MaySee, Lasts
  <2>2. CASE id \notin FieldIds
    BY <1>1, <2>2 DEF MaySee
  <2> QED
    BY <2>1, <2>2
<1> QED
  BY <1>2, <1>3, <1>4 DEF OpenAt

LEMMA RowsStayOpen ==
  ASSUME NEW c, Lasts(c), NEW viewer, NEW filters, NEW row, RowIsOpen(c, viewer, filters, row)
  PROVE  RowIsOpen(c, viewer, filters, row)'
<1>1. ASSUME NEW id \in DOMAIN row.cells, ~(row.cells[id] \in {Null, <<"unavailable">>})
      PROVE  OpenAt(c, viewer, row.employee, id)'
  BY <1>1, OpenStays DEF RowIsOpen
<1>2. ASSUME NEW f \in filters, f.field \in ProviderBacked
      PROVE  OpenAt(c, viewer, row.employee, f.field)'
  BY <1>2, OpenStays DEF RowIsOpen
<1> QED
  BY <1>1, <1>2 DEF RowIsOpen

LEMMA FieldsStayFit ==
  ASSUME NEW c, Lasts(c), NEW f, FieldFits(f)
  PROVE  FieldFits(f)'
BY DEF Lasts, FieldFits, Defined

LEMMA ListStays ==
  ASSUME NEW c, Lasts(c), NEW s, ListState(c, s)
  PROVE  ListState(c, s)'
<1>1. \A f \in s.visible : FieldFits(f)'
  BY FieldsStayFit DEF ListState
<1>2. \A e \in DOMAIN s.audiences : \E o \in during'[c] : s.audiences[e] = AudienceOf(o, s.viewer, e)
  BY DEF ListState, Lasts
<1>3. \A i \in DOMAIN s.rows : RowIsOpen(c, s.viewer, s.filters, s.rows[i])'
  BY RowsStayOpen DEF ListState
<1> QED
  BY <1>1, <1>2, <1>3 DEF ListState

LEMMA ListedStays ==
  ASSUME NEW c, Lasts(c), NEW s, ListedState(c, s)
  PROVE  ListedState(c, s)'
<1>1. \A i \in DOMAIN s.rows : RowIsOpen(c, s.viewer, s.filters, s.rows[i])'
  BY RowsStayOpen DEF ListedState
<1> QED
  BY <1>1 DEF ListedState

LEMMA SetStays ==
  ASSUME NEW c, Lasts(c), NEW s, SetState(c, s), s.pc = "readback" => At(c, "readback")
  PROVE  SetState(c, s)'
<1>1. CASE s.field \in FieldIds /\ Defined(s.field)
  <2>1. PICK d : d = definitions[s.field]
    OBVIOUS
  <2>2. definitions'[s.field] = d /\ Defined(s.field)'
    BY <1>1, <2>1 DEF Lasts, Defined
  <2> QED
    BY <1>1, <2>1, <2>2 DEF SetState, Lasts, AsStored
<1>2. CASE ~(s.field \in FieldIds /\ Defined(s.field))
  BY <1>2 DEF SetState, Lasts
<1> QED
  BY <1>1, <1>2

LEMMA ValuesStay ==
  ASSUME NEW c, Lasts(c), NEW s, ValuesState(c, s)
  PROVE  ValuesState(c, s)'
<1>1. ASSUME NEW f \in FieldIds, Defined(f), NEW subject, \E o \in during[c] : MaySeeValue(o, s.route, s.viewer, subject, f)
      PROVE  Defined(f)' /\ \E o \in during'[c] : MaySeeValue(o, s.route, s.viewer, subject, f)'
  <2>1. PICK o \in during[c] : MaySeeValue(o, s.route, s.viewer, subject, f)
    BY <1>1
  <2>2. Defined(f)' /\ definitions'[f] = definitions[f] /\ o \in during'[c]
    BY <1>1 DEF Lasts, Defined
  <2> QED
    BY <2>1, <2>2 DEF MaySeeValue
<1>2. s.pc = "query" => \A f \in s.wanted :
         f \in FieldIds /\ Defined(f)' /\ \E o \in during'[c] : MaySeeValue(o, s.route, s.viewer, s.subject, f)'
  BY <1>1 DEF ValuesState
<1>3. s.pc = "done" => \A shown \in s.answer :
       /\ shown[2] \in FieldIds /\ Defined(shown[2])'
       /\ \E o \in during'[c] : MaySeeValue(o, s.route, s.viewer, shown[1], shown[2])'
  BY <1>1 DEF ValuesState
<1> QED
  BY <1>2, <1>3 DEF ValuesState

LEMMA SectionStays ==
  ASSUME NEW c, Lasts(c), NEW s, SectionState(c, s)
  PROVE  SectionState(c, s)'
BY DEF SectionState, Lasts

LEMMA StillSees ==
  ASSUME NEW c, Lasts(c), NEW s, Sees(c, s), s.pc = "readback" => At(c, "readback")
  PROVE  Sees(c, s)'
BY ListStays, ListedStays, SetStays, ValuesStay, SectionStays DEF Sees

LEMMA SeesByKind ==
  ASSUME NEW c, NEW s, Sees(c, s)
  PROVE  /\ "op" \in DOMAIN s => SectionState(c, s)
         /\ "rows" \in DOMAIN s => ListState(c, s) \/ ListedState(c, s)
         /\ "wanted" \in DOMAIN s => ValuesState(c, s)
         /\ "value" \in DOMAIN s => SetState(c, s)
         /\ "draft" \in DOMAIN s => DefineState(s)
         /\ "pc" \in DOMAIN s
<1>1. s = NotAsked => DOMAIN s = {"pc"}
  BY DEF NotAsked
<1>2. DefineState(s) => DOMAIN s = {"pc", "viewer", "draft", "field"}
  BY DEF DefineState
<1>3. SetState(c, s) => DOMAIN s = {"pc", "viewer", "subject", "field", "value", "answer"}
  BY DEF SetState
<1>4. ValuesState(c, s) => DOMAIN s = {"pc", "route", "viewer", "subject", "wanted", "answer"}
  BY DEF ValuesState
<1>5. ListState(c, s) \/ ListedState(c, s) =>
        "pc" \in DOMAIN s /\ "op" \notin DOMAIN s /\ "wanted" \notin DOMAIN s /\ "value" \notin DOMAIN s /\ "draft" \notin DOMAIN s
  BY DEF ListState, ListedState
<1>6. SectionState(c, s) => DOMAIN s = RecordFields
  BY DEF SectionState, RecordState
<1> QED
  BY <1>1, <1>2, <1>3, <1>4, <1>5, <1>6 DEF Sees, RecordFields

LEMMA ValuesStayFit ==
  ASSUME ValuesFit, stored' = stored, \A f \in FieldIds : Defined(f) => definitions'[f] = definitions[f]
  PROVE  ValuesFit'
<1> SUFFICES ASSUME NEW k \in Employees \X FieldIds, stored[k] # Null
             PROVE  Defined(k[2])' /\ ValueOf(k[1], k[2])' # Null /\ Fits(definitions'[k[2]], ValueOf(k[1], k[2])')
  BY DEF ValuesFit
<1>1. Defined(k[2]) /\ ValueOf(k[1], k[2]) # Null /\ Fits(definitions[k[2]], ValueOf(k[1], k[2]))
  BY DEF ValuesFit
<1>2. k[2] \in FieldIds
  OBVIOUS
<1>3. PICK d : d = definitions[k[2]]
  OBVIOUS
<1>4. definitions'[k[2]] = d /\ Defined(k[2])'
  BY <1>1, <1>2, <1>3 DEF Defined
<1>5. ValueOf(k[1], k[2])' = ValueOf(k[1], k[2])
  BY <1>3, <1>4 DEF ValueOf
<1> QED
  BY <1>1, <1>3, <1>4, <1>5

\* One request goes on.
LEMMA OneSees ==
  ASSUME ShowsInv, NEW c \in Calls, Waiting(c), DOMAIN call' = Calls, MovesAlone(c), Sees(c, call[c])',
         org' = org, during' = during, DOMAIN steady' = Calls, \A d \in Calls : steady'[d] => steady[d],
         DOMAIN definitions' = FieldIds, \A f \in FieldIds : Defined(f) => definitions'[f] = definitions[f],
         stored' = stored
  PROVE  ShowsInv'
<1>1. \A d \in Calls : Lasts(d)
  BY DEF Lasts
<1>2. ASSUME NEW d \in Calls
      PROVE  Sees(d, call[d])'
  <2>1. CASE d = c
    BY <2>1
  <2>2. CASE d # c
    <3>1. PICK s : s = call[d]
      OBVIOUS
    <3>2. Sees(d, s)'
      BY <1>1, <3>1, StillSees DEF ShowsInv, At
    <3> QED
      BY <2>2, <3>1, <3>2 DEF MovesAlone
  <2> QED
    BY <2>1, <2>2
<1>3. TablesFit'
  BY DEF ShowsInv, TablesFit
<1>4. ValuesFit'
  BY ValuesStayFit DEF ShowsInv
<1>5. TimesFit'
  BY DEF ShowsInv, TimesFit, MovesAlone, Waiting
<1> QED
  BY <1>2, <1>3, <1>4, <1>5 DEF ShowsInv

\* It writes nothing that is looked at here.
LEMMA OneSeesQuietly ==
  ASSUME ShowsInv, NEW c \in Calls, Waiting(c), DOMAIN call' = Calls, MovesAlone(c),
         NEW s, call'[c] = s, Sees(c, s), s.pc # "readback",
         org' = org, during' = during, DOMAIN steady' = Calls, \A d \in Calls : steady'[d] => steady[d],
         definitions' = definitions, stored' = stored
  PROVE  ShowsInv'
<1>2. Lasts(c)
  BY DEF ShowsInv, TablesFit, Lasts
<1>3. Sees(c, s)'
  BY <1>2, StillSees
<1> QED
  BY <1>3, OneSees DEF ShowsInv, TablesFit

LEMMA CommitsKeeps ==
  ASSUME DOMAIN steady = Calls, NEW c, Reads \/ Commits(c)
  PROVE  DOMAIN steady' = Calls /\ \A d \in Calls : steady'[d] => steady[d]
BY DEF Reads, Commits

-----------------------------------------------------------------------------
(* Sections.                                                               *)

LEMMA OpsStay ==
  ASSUME DOMAIN call = Calls, NEW c \in Calls, RecordState(call[c]), ServeRecord(c) \/ RowFails(c)
  PROVE  call'[c].op = call[c].op
<1>0. "op" \in DOMAIN call[c] /\ "pc" \in DOMAIN call[c]
  BY DEF RecordState, RecordFields
<1>1. CASE EnterSection(c) \/ InsertRecord(c) \/ FindRecord(c) \/ WriteRecord(c) \/ DeleteRecord(c) \/ UpdateRecord(c)
  BY <1>0, <1>1 DEF EnterSection, InsertRecord, FindRecord, WriteRecord, DeleteRecord, UpdateRecord, Denied, Said, Become,
     Goto
<1>2. CASE AssertOpen(c) \/ ReadAgain(c) \/ PeekRecord(c) \/ ReadSection(c) \/ SaveFile(c) \/ AttachFile(c)
  BY <1>0, <1>2 DEF AssertOpen, ReadAgain, PeekRecord, ReadSection, SaveFile, AttachFile, Denied, Said, Become, Goto
<1>3. CASE PreviousPhoto(c) \/ SwapPhoto(c) \/ UnlinkPrevious(c) \/ UndoSave(c) \/ JudgeDownload(c) \/ FindPortrait(c)
  BY <1>0, <1>3 DEF PreviousPhoto, SwapPhoto, UnlinkPrevious, UndoSave, JudgeDownload, FindPortrait, Said, Become, Goto
<1>4. CASE OpenFile(c) \/ WalkReports(c) \/ AddPartnered(c) \/ AddStaffed(c) \/ ShowRisks(c) \/ RowFails(c)
  BY <1>0, <1>4 DEF OpenFile, WalkReports, AddPartnered, AddStaffed, ShowRisks, RowFails, Said, Become, Goto
<1> QED
  BY <1>1, <1>2, <1>3, <1>4 DEF ServeRecord

LEMMA FieldsStay ==
  ASSUME DOMAIN call = Calls, NEW c \in Calls, ServeRecord(c) \/ RowFails(c)
  PROVE  DOMAIN call'[c] = DOMAIN call[c]
<1>1. CASE EnterSection(c) \/ InsertRecord(c)
  <2>1. CASE EnterSection(c)
    BY <2>1 DEF EnterSection, Become, Goto
  <2>2. CASE InsertRecord(c)
    <3>1. Goto(c, "refused") \/ \E answer : Said(c, answer)
      BY <2>2 DEF InsertRecord, Denied
    <3> QED
      BY <3>1 DEF Said, Become, Goto
  <2> QED
    BY <1>1, <2>1, <2>2
<1>2. CASE FindRecord(c)
  <2>1. Goto(c, "refused") \/ \E found, pc : Become(c, [call[c] EXCEPT !.found = found, !.pc = pc])
    BY <1>2 DEF FindRecord, Denied
  <2> QED
    BY <2>1 DEF Become, Goto
<1>3. CASE WriteRecord(c)
  <2>1. Goto(c, "refused") \/ \E answer : Said(c, answer)
    BY <1>3 DEF WriteRecord, Denied
  <2> QED
    BY <2>1 DEF Said, Become, Goto
<1>4. CASE DeleteRecord(c) \/ UpdateRecord(c)
  BY <1>4 DEF DeleteRecord, UpdateRecord, Denied, Said, Become, Goto
<1>5. CASE AssertOpen(c) \/ ReadAgain(c) \/ PeekRecord(c)
  BY <1>5 DEF AssertOpen, ReadAgain, PeekRecord, Denied, Said, Become, Goto
<1>6. CASE ReadSection(c)
  BY <1>6 DEF ReadSection, Denied, Said, Become, Goto
<1>7. CASE SaveFile(c)
  BY <1>7 DEF SaveFile, Denied, Said, Become, Goto
<1>8. CASE AttachFile(c)
  BY <1>8 DEF AttachFile, Denied, Said, Become, Goto
<1>9. CASE PreviousPhoto(c)
  BY <1>9 DEF PreviousPhoto, Denied, Said, Become, Goto
<1>10. CASE SwapPhoto(c)
  BY <1>10 DEF SwapPhoto, Denied, Said, Become, Goto
<1>11. CASE UnlinkPrevious(c) \/ UndoSave(c) \/ JudgeDownload(c)
  <2>1. CASE UnlinkPrevious(c)
    BY <2>1 DEF UnlinkPrevious, Said, Become, Goto
  <2>2. CASE UndoSave(c)
    BY <2>2 DEF UndoSave, Said, Become, Goto
  <2>3. CASE JudgeDownload(c)
    BY <2>3 DEF JudgeDownload, Denied, Said, Become, Goto
  <2> QED
    BY <1>11, <2>1, <2>2, <2>3
<1>12. CASE FindPortrait(c) \/ OpenFile(c) \/ WalkReports(c)
  <2>1. CASE FindPortrait(c)
    BY <2>1 DEF FindPortrait, Said, Become, Goto
  <2>2. CASE OpenFile(c)
    BY <2>2 DEF OpenFile, Said, Become, Goto
  <2>3. CASE WalkReports(c)
    BY <2>3 DEF WalkReports, Said, Become, Goto
  <2> QED
    BY <1>12, <2>1, <2>2, <2>3
<1>13. CASE AddPartnered(c) \/ AddStaffed(c)
  <2>1. CASE AddPartnered(c)
    BY <2>1 DEF AddPartnered, Become
  <2>2. CASE AddStaffed(c)
    BY <2>2 DEF AddStaffed, Become, Goto
  <2> QED
    BY <1>13, <2>1, <2>2
<1>14. CASE ShowRisks(c) \/ RowFails(c)
  BY <1>14 DEF ShowRisks, RowFails, Said, Become, Goto
<1> QED
  BY <1>1, <1>2, <1>3, <1>4, <1>5, <1>6, <1>7, <1>8, <1>9, <1>10, <1>11, <1>12, <1>13, <1>14 DEF ServeRecord

LEMMA RecordServed ==
  ASSUME NEW c, ServeRecord(c) \/ RowFails(c)
  PROVE  (Reads \/ Commits(c)) /\ call[c].pc \in RecordPcs
<1>1. CASE EnterSection(c) \/ InsertRecord(c) \/ FindRecord(c) \/ WriteRecord(c) \/ DeleteRecord(c) \/ UpdateRecord(c)
           \/ AssertOpen(c) \/ ReadAgain(c) \/ PeekRecord(c) \/ ReadSection(c) \/ SaveFile(c) \/ AttachFile(c)
  BY <1>1 DEF EnterSection, InsertRecord, FindRecord, WriteRecord, DeleteRecord, UpdateRecord, Denied,
     AssertOpen, ReadAgain, PeekRecord, ReadSection, SaveFile, AttachFile, AttachRow, At, RecordPcs
<1>2. CASE PreviousPhoto(c) \/ SwapPhoto(c) \/ UnlinkPrevious(c) \/ UndoSave(c) \/ JudgeDownload(c) \/ FindPortrait(c)
           \/ OpenFile(c) \/ WalkReports(c) \/ AddPartnered(c) \/ AddStaffed(c) \/ ShowRisks(c) \/ RowFails(c)
  BY <1>2 DEF PreviousPhoto, SwapPhoto, SwapRow, UnlinkPrevious, UndoSave, JudgeDownload, FindPortrait,
     OpenFile, WalkReports, AddPartnered, AddStaffed, ShowRisks, RowFails, At, RecordPcs
<1> QED
  BY <1>1, <1>2 DEF ServeRecord

LEMMA SectionsKeep ==
  ASSUME RecordsInv, RecordsInv', ShowsInv, NEW c \in Calls, ServeRecord(c) \/ RowFails(c),
         Proceeds, UNCHANGED registryVars
  PROVE  ShowsInv'
<1>1. RecordState(call[c]) /\ DOMAIN call = Calls /\ DOMAIN call' = Calls /\ Waiting(c)
  BY RecordServed, OpsByPlace DEF RecordsInv, CallsFit, Waiting, RecordPcs, Answers
<1>2. call'[c].op = call[c].op /\ DOMAIN call'[c] = DOMAIN call[c] /\ MovesAlone(c)
  BY <1>1, OpsStay, FieldsStay, RecordsServedAlone
<1>3. PICK s : s = call'[c]
  OBVIOUS
<1>5. RecordState(s)
  BY <1>1, <1>2, <1>3 DEF RecordsInv, CallsFit, RecordState, Elsewhere, RecordFields
<1>6. SectionState(c, s)
  <2>1. CASE EnterSection(c)
    <3>1. PICK audience : audience = AudienceOf(org, call[c].viewer, call[c].subject)
      OBVIOUS
    <3>2. CASE s = [call[c] EXCEPT !.pc = "refused"]
      BY <1>1, <1>5, <3>2 DEF SectionState, RecordState, RecordFields
    <3>3. CASE MayEnter(call[c], audience) /\ s = [call[c] EXCEPT !.pc = FirstStep(call[c]), !.audience = audience]
      <4>1. /\ s.pc = FirstStep(call[c]) /\ s.audience = audience /\ s.op = call[c].op /\ s.viewer = call[c].viewer
            /\ s.subject = call[c].subject /\ s.kind = call[c].kind
        BY <1>1, <3>3 DEF RecordState, RecordFields
      <4>2. s.pc # "done" /\ (s.pc = "read" => s.op = "list")
        <5>1. call[c].op \in {"list", "view", "upload", "create", "complete", "change", "remove", "download", "risks"}
          BY <1>1 DEF RecordState
        <5>2. call[c].op # "risks"
          BY <1>1, <2>1 DEF EnterSection, At, RecordState, StagesOf, Answers
        <5> QED
          BY <4>1, <5>1, <5>2 DEF FirstStep
      <4>3. s.pc = "read" => audience.sections[SectionOf(s.kind)] # "none"
        BY <3>3, <4>1, <4>2 DEF MayEnter
      <4>4. org \in during[c]
        BY <1>1 DEF ShowsInv, TimesFit
      <4> QED
        BY <1>5, <3>1, <4>1, <4>2, <4>3, <4>4 DEF SectionState
    <3> QED
      BY <1>1, <1>3, <2>1, <3>1, <3>2, <3>3 DEF EnterSection, Become, Goto
  <2>2. CASE ReadSection(c)
    <3>1. CASE s = [call[c] EXCEPT !.pc = "refused"]
      BY <1>1, <1>5, <3>1 DEF SectionState, RecordState, RecordFields
    <3>2. CASE \E answer :
                 /\ answer = {records[i] : i \in {i \in RecordIds :
                      Kept(i) /\ records[i].kind = call[c].kind /\ records[i].subject = call[c].subject
                      /\ Visible(call[c].audience, records[i])}}
                 /\ s = [call[c] EXCEPT !.pc = "done", !.answer = answer]
      <4>1. PICK answer :
                 /\ answer = {records[i] : i \in {i \in RecordIds :
                      Kept(i) /\ records[i].kind = call[c].kind /\ records[i].subject = call[c].subject
                      /\ Visible(call[c].audience, records[i])}}
                 /\ s = [call[c] EXCEPT !.pc = "done", !.answer = answer]
        BY <3>2
      <4>2. s.pc = "done" /\ s.answer = answer /\ s.viewer = call[c].viewer
        BY <1>1, <4>1 DEF RecordState, RecordFields
      <4>3. PICK o \in during[c] :
              /\ call[c].audience = AudienceOf(o, call[c].viewer, call[c].subject)
              /\ call[c].audience.sections[SectionOf(call[c].kind)] # "none"
        <5>1. SectionState(c, call[c])
          BY <1>1, SeesByKind DEF ShowsInv, RecordState, RecordFields
        <5> QED
          BY <2>2, <5>1 DEF SectionState, ReadSection, At
      <4>4. \A record \in answer : MaySeeRecord(o, s.viewer, record)
        BY <4>1, <4>2, <4>3 DEF MaySeeRecord
      <4> QED
        BY <1>5, <4>2, <4>3, <4>4 DEF SectionState
    <3> QED
      BY <1>1, <1>3, <2>2, <3>1, <3>2 DEF ReadSection, Said, Become, Goto
  <2>3. CASE call[c].pc \notin {"enter", "read"}
    <3>1. call[c].op # "list"
      BY <1>1, <2>3, RecordServed DEF RecordState, StagesOf, RecordPcs, Answers
    <3>2. s.op # "list" /\ s.pc # "read"
      BY <1>2, <1>3, <1>5, <3>1, OpsByPlace
    <3> QED
      BY <1>5, <3>2 DEF SectionState
  <2>4. call[c].pc \in {"enter", "read"} => EnterSection(c) \/ ReadSection(c)
    BY DEF ServeRecord, InsertRecord, FindRecord, WriteRecord, DeleteRecord, UpdateRecord, AssertOpen, ReadAgain,
       PeekRecord, SaveFile, AttachFile, AttachRow, PreviousPhoto, SwapPhoto, SwapRow, UnlinkPrevious, UndoSave,
       JudgeDownload, FindPortrait, OpenFile, WalkReports, AddPartnered, AddStaffed, ShowRisks, RowFails, At
  <2> QED
    BY <2>1, <2>2, <2>3, <2>4
<1>7. s.pc # "readback"
  BY <1>5, OpsByPlace DEF RecordPcs, Answers
<1>8. org' = org /\ during' = during /\ definitions' = definitions /\ stored' = stored
  BY DEF Proceeds, orgVars, registryVars
<1>9. DOMAIN steady' = Calls /\ \A d \in Calls : steady'[d] => steady[d]
  BY RecordServed, CommitsKeeps DEF ShowsInv, TablesFit
<1> QED
  BY <1>1, <1>2, <1>3, <1>6, <1>7, <1>8, <1>9, OneSeesQuietly DEF Sees

-----------------------------------------------------------------------------
(* Requests that are refused, and those about fields and their values.     *)

LEMMA SeesByPlace ==
  ASSUME NEW c, NEW s, Sees(c, s)
  PROVE  /\ s.pc \in {"permit", "define"} => DefineState(s)
         /\ s.pc \in {"gate", "writable", "append", "may", "store", "readback"} => SetState(c, s)
         /\ s.pc \in {"wanted", "query"} => ValuesState(c, s)
         /\ s.pc \in ListStages => ListState(c, s)
<1>1. s = NotAsked => s.pc = "idle"
  BY DEF NotAsked
<1>2. DefineState(s) => s.pc \in {"permit", "define"} \cup Answers
  BY DEF DefineState
<1>3. SetState(c, s) => s.pc \in {"gate", "writable", "append", "may", "store", "readback"} \cup Answers
  BY DEF SetState
<1>4. ValuesState(c, s) => s.pc \in {"wanted", "query"} \cup Answers
  BY DEF ValuesState
<1>5. ListState(c, s) => s.pc \in ListStages \cup Answers
  BY DEF ListState, Answers
<1>6. ListedState(c, s) => s.pc \in Answers
  BY DEF ListedState, Answers
<1>7. SectionState(c, s) => s.pc \in RecordPcs \cup Answers
  BY OpsByPlace DEF SectionState
<1> QED
  BY <1>1, <1>2, <1>3, <1>4, <1>5, <1>6, <1>7 DEF Sees, ListStages, RecordPcs, Answers

LEMMA RefusedSees ==
  ASSUME NEW c, Sees(c, call[c]), Waiting(c), NEW s, s = [call[c] EXCEPT !.pc = "refused"]
  PROVE  Sees(c, s)
<1>1. call[c] # NotAsked /\ ~ListedState(c, call[c])
  BY DEF NotAsked, ListedState, Waiting, Answers
<1>2. DefineState(call[c]) => DefineState(s)
  BY DEF DefineState, Answers
<1>3. SetState(c, call[c]) => SetState(c, s)
  BY DEF SetState, Answers
<1>4. ValuesState(c, call[c]) => ValuesState(c, s)
  BY DEF ValuesState, Answers
<1>5. ASSUME ListState(c, call[c])
      PROVE  ListState(c, s)
  <2>1. /\ DOMAIN s = DOMAIN call[c] /\ s.pc = "refused" /\ s.visible = call[c].visible /\ s.audiences = call[c].audiences
        /\ s.viewer = call[c].viewer /\ s.rows = call[c].rows /\ s.filters = call[c].filters /\ s.page = call[c].page
        /\ s.pageSize = call[c].pageSize
    BY <1>5 DEF ListState
  <2> QED
    BY <1>5, <2>1 DEF ListState
<1>6. SectionState(c, call[c]) => SectionState(c, s)
  BY DEF SectionState, RecordState, RecordFields, StagesOf, Answers
<1> QED
  BY <1>1, <1>2, <1>3, <1>4, <1>5, <1>6 DEF Sees

Quiet == Reads /\ Proceeds /\ UNCHANGED registryVars

LEMMA QuietStep ==
  ASSUME ShowsInv, NEW c \in Calls, Waiting(c), NEW s, Become(c, s), Sees(c, s), s.pc # "readback", Quiet
  PROVE  ShowsInv'
<1>1. DOMAIN call' = Calls /\ MovesAlone(c) /\ call'[c] = s
  BY DEF Become, ShowsInv, TablesFit, MovesAlone
<1>2. DOMAIN steady' = Calls /\ \A d \in Calls : steady'[d] => steady[d]
  BY CommitsKeeps DEF ShowsInv, TablesFit, Quiet
<1> QED
  BY <1>1, <1>2, OneSeesQuietly DEF Quiet, Proceeds, orgVars, registryVars

LEMMA RefusalKeeps ==
  ASSUME ShowsInv, NEW c \in Calls, Waiting(c), Goto(c, "refused"), Quiet
  PROVE  ShowsInv'
<1>1. PICK s : s = [call[c] EXCEPT !.pc = "refused"]
  OBVIOUS
<1>2. Sees(c, s)
  BY <1>1, RefusedSees DEF ShowsInv
<1>3. s.pc = "refused"
  BY <1>1, SeesByKind DEF ShowsInv
<1> QED
  BY <1>1, <1>2, <1>3, GotoBecomes, QuietStep DEF Become

LEMMA ManagingKeeps ==
  ASSUME ShowsInv, NEW c \in Calls, MayManage(c), Proceeds
  PROVE  ShowsInv'
<1>1. DefineState(call[c]) /\ Waiting(c) /\ Quiet
  BY SeesByPlace DEF MayManage, At, ShowsInv, Waiting, Answers, Quiet
<1>2. CASE Goto(c, "refused")
  BY <1>1, <1>2, RefusalKeeps
<1>3. CASE Goto(c, "define")
  <2>1. PICK s : s = [call[c] EXCEPT !.pc = "define"]
    OBVIOUS
  <2>2. DefineState(s) /\ s.pc # "readback"
    BY <1>1, <2>1 DEF DefineState
  <2>3. Become(c, s)
    BY <1>3, <2>1, GotoBecomes DEF Become
  <2>4. Sees(c, s)
    BY <2>2 DEF Sees
  <2> QED
    BY <1>1, <2>2, <2>3, <2>4, QuietStep
<1> QED
  BY <1>2, <1>3 DEF MayManage

LEMMA DefiningKeeps ==
  ASSUME ShowsInv, NEW c \in Calls, DefineField(c), Proceeds
  PROVE  ShowsInv'
<1>1. DefineState(call[c]) /\ Waiting(c)
  BY SeesByPlace DEF DefineField, At, ShowsInv, Waiting, Answers
<1>2. CASE Refuse(c) /\ UNCHANGED registryVars
  BY <1>1, <1>2, RefusalKeeps DEF Refuse, Quiet
<1>3. CASE ~(Refuse(c) /\ UNCHANGED registryVars)
  <2>1. PICK f \in {f \in FieldIds : ~Defined(f)} :
          /\ definitions' = [definitions EXCEPT ![f] = call[c].draft]
          /\ Become(c, [call[c] EXCEPT !.pc = "done", !.field = f])
          /\ Commits(c) /\ UNCHANGED <<stored, roster>>
    BY <1>3 DEF DefineField
  <2>2. PICK s : s = [call[c] EXCEPT !.pc = "done", !.field = f]
    OBVIOUS
  <2>3. DOMAIN call' = Calls /\ MovesAlone(c) /\ call'[c] = s
    BY <2>1, <2>2 DEF Become, ShowsInv, TablesFit, MovesAlone
  <2>4. DefineState(s)
    BY <1>1, <2>2 DEF DefineState, Answers
  <2>5. DOMAIN definitions' = FieldIds /\ \A g \in FieldIds : Defined(g) => definitions'[g] = definitions[g]
    BY <2>1 DEF ShowsInv, TablesFit
  <2>6. DOMAIN steady' = Calls /\ \A d \in Calls : steady'[d] => steady[d]
    BY <2>1, CommitsKeeps DEF ShowsInv, TablesFit
  <2>7. Sees(c, call[c])'
    BY <2>3, <2>4 DEF Sees, DefineState
  <2>8. org' = org /\ during' = during /\ stored' = stored
    BY <2>1 DEF Proceeds, orgVars
  <2> QED
    BY <1>1, <2>3, <2>5, <2>6, <2>7, <2>8, OneSees
<1> QED
  BY <1>2, <1>3

\* A request to set a value moves on.
LEMMA SetMoves ==
  ASSUME ShowsInv, NEW c \in Calls, NEW pc, call[c].pc \in {"gate", "writable", "may"}, Goto(c, pc), Quiet,
         \/ pc \in {"gate", "may"} /\ call[c].field \in FieldIds
         \/ pc = "append" /\ call[c].field \in Builtin
         \/ pc = "store" /\ call[c].field \in FieldIds /\ Defined(call[c].field)
            /\ Fits(definitions[call[c].field], call[c].value)
         \/ pc = "refused"
  PROVE  ShowsInv'
<1>1. SetState(c, call[c]) /\ Waiting(c)
  BY SeesByPlace DEF ShowsInv, Waiting, Answers
<1>2. CASE pc = "refused"
  BY <1>1, <1>2, RefusalKeeps
<1>3. CASE pc # "refused"
  <2>1. PICK s : s = [call[c] EXCEPT !.pc = pc]
    OBVIOUS
  <2>2. /\ DOMAIN s = DOMAIN call[c] /\ s.pc = pc /\ s.subject = call[c].subject /\ s.field = call[c].field
        /\ s.value = call[c].value
    BY <1>1, <2>1 DEF SetState
  <2>3. SetState(c, s)
    BY <1>1, <1>3, <2>2 DEF SetState
  <2> QED
    BY <1>1, <1>3, <2>1, <2>2, <2>3, GotoBecomes, QuietStep DEF Become, Sees
<1> QED
  BY <1>2, <1>3

LEMMA SetMovesKeep ==
  ASSUME ShowsInv, NEW c \in Calls, WritableField(c) \/ GateSet(c) \/ MayWrite(c), Proceeds
  PROVE  ShowsInv'
<1>1. call[c].pc \in {"gate", "writable", "may"} /\ Quiet
  BY DEF WritableField, GateSet, MayWrite, At, Quiet
<1>2. SetState(c, call[c])
  BY <1>1, SeesByPlace DEF ShowsInv
<1>3. CASE WritableField(c)
  BY <1>1, <1>3, SetMoves DEF WritableField
<1>4. CASE GateSet(c)
  BY <1>1, <1>2, <1>4, SetMoves DEF GateSet, SetState, At
<1>5. CASE MayWrite(c)
  BY <1>1, <1>2, <1>5, SetMoves DEF MayWrite, SetState, At
<1> QED
  BY <1>3, <1>4, <1>5

\* What is stored for a value that fits is read as one that fits: as the same,
\* unless it is a date no calendar has.
LEMMA StoredValuesFit ==
  ASSUME NEW d, NEW ask \in SetOrders, NEW value, value = ask.value, value # Null, Fits(d, value),
         NEW kept, kept = FromStorage(d.type, StorageColumns(d.type, value))
  PROVE  /\ kept # Null /\ Fits(d, kept) /\ (kept = value \/ IsNoDay(d, value))
         /\ StorageColumns(d.type, value) # Null
<1>1. /\ value = <<value[1], value[2]>> /\ <<"json", value[2]>> # Null
      /\ value[1] = "string" /\ DayOf(value[2]) # Null =>
           <<"string", IsoOf(DayOf(value[2]))>> # Null /\ DayOf(IsoOf(DayOf(value[2]))) # Null
      /\ \A type \in {"text", "number", "boolean", "select", "multi_select"} : StorageColumns(type, value) # Null
      /\ value[1] = "string" => StorageColumns("date", value) # Null
  BY RegistryAssumption
<1>2. CASE d.type = "date"
  <2>1. value[1] = "string" /\ DayOf(value[2]) # Null
    BY <1>2 DEF Fits
  <2>2. kept = <<"string", IsoOf(DayOf(value[2]))>>
    BY <1>2, <2>1 DEF FromStorage, StorageColumns, NoColumns
  <2> QED
    BY <1>1, <1>2, <2>1, <2>2 DEF Fits, IsNoDay
<1>3. CASE d.type = "multi_select"
  <2>1. value[1] = "list"
    BY <1>3 DEF Fits
  <2>2. kept = <<"list", value[2]>>
    BY <1>1, <1>3 DEF FromStorage, StorageColumns, NoColumns
  <2> QED
    BY <1>1, <1>3, <2>1, <2>2
<1>4. CASE d.type \in {"text", "number", "boolean", "select"}
  <2>1. kept = value
    BY <1>4 DEF FromStorage, StorageColumns, NoColumns
  <2> QED
    BY <1>1, <1>4, <2>1
<1> QED
  BY <1>2, <1>3, <1>4 DEF Fits

LEMMA StoringKeeps ==
  ASSUME ShowsInv, NEW c \in Calls, SetValue(c), Proceeds
  PROVE  ShowsInv'
<1>1. SetState(c, call[c]) /\ Waiting(c) /\ call[c].pc = "store"
  BY SeesByPlace DEF SetValue, At, ShowsInv, Waiting, Answers
<1>2. PICK s : s = [call[c] EXCEPT !.pc = "readback"]
  OBVIOUS
<1>3. /\ DOMAIN s = DOMAIN call[c] /\ s.pc = "readback" /\ s.subject = call[c].subject /\ s.field = call[c].field
      /\ s.value = call[c].value
  BY <1>1, <1>2 DEF SetState
<1>4. DOMAIN call' = Calls /\ call'[c] = s /\ MovesAlone(c)
  BY <1>2 DEF SetValue, Goto, ShowsInv, TablesFit, MovesAlone
<1>5. /\ s.subject \in Employees /\ s.field \in FieldIds /\ Defined(s.field) /\ Fits(definitions[s.field], s.value)
      /\ \E ask \in SetOrders : s.value = ask.value
  BY <1>1, <1>3 DEF SetState
<1>6. PICK row : row = AsStored(s)
  OBVIOUS
<1>7. /\ stored' = [stored EXCEPT ![<<s.subject, s.field>>] = row]
      /\ definitions' = definitions /\ org' = org /\ during' = during /\ Commits(c)
  BY <1>3, <1>6 DEF SetValue, AsStored, Proceeds, orgVars
<1>8. /\ DOMAIN stored' = Employees \X FieldIds /\ stored'[<<s.subject, s.field>>] = row
      /\ \A k \in Employees \X FieldIds : k # <<s.subject, s.field>> => stored'[k] = stored[k]
  BY <1>5, <1>7 DEF ShowsInv, TablesFit
<1>9. DOMAIN steady' = Calls /\ \A d \in Calls : steady'[d] => steady[d] /\ (d = c \/ ~Waiting(d))
  BY <1>7 DEF Commits, ShowsInv, TablesFit
<1>10. TablesFit'
  BY <1>4, <1>7, <1>8, <1>9 DEF ShowsInv, TablesFit
<1>11. TimesFit'
  BY <1>1, <1>4, <1>7 DEF ShowsInv, TimesFit, MovesAlone, Waiting
<1>12. ValuesFit'
  <2> SUFFICES ASSUME NEW k \in Employees \X FieldIds, stored'[k] # Null
               PROVE  Defined(k[2]) /\ ValueOf(k[1], k[2])' # Null /\ Fits(definitions[k[2]], ValueOf(k[1], k[2])')
    BY <1>7 DEF ValuesFit, Defined
  <2>1. CASE k # <<s.subject, s.field>>
    <3>1. stored'[k] = stored[k] /\ k = <<k[1], k[2]>>
      BY <1>8, <2>1
    <3>2. ValueOf(k[1], k[2])' = ValueOf(k[1], k[2])
      BY <1>7, <3>1 DEF ValueOf
    <3> QED
      BY <3>1, <3>2 DEF ShowsInv, ValuesFit
  <2>2. CASE k = <<s.subject, s.field>>
    <3>1. k[1] = s.subject /\ k[2] = s.field /\ row # Null
      BY <1>8, <2>2
    <3>2. s.value # Null /\ row = StorageColumns(definitions[s.field].type, s.value)
      BY <1>6, <3>1 DEF AsStored
    <3>3. PICK kept : kept = FromStorage(definitions[s.field].type, row)
      OBVIOUS
    <3>4. ValueOf(k[1], k[2])' = kept
      BY <1>7, <1>8, <3>1, <3>3 DEF ValueOf
    <3>5. kept # Null /\ Fits(definitions[s.field], kept)
      BY <1>5, <3>2, <3>3, StoredValuesFit
    <3> QED
      BY <1>5, <3>1, <3>4, <3>5
  <2> QED
    BY <2>1, <2>2
<1>13. ASSUME NEW d \in Calls
       PROVE  Sees(d, call[d])'
  <2>1. CASE d = c
    <3>1. SetState(c, s)'
      BY <1>1, <1>3, <1>5, <1>6, <1>7, <1>8 DEF SetState, AsStored, Defined
    <3> QED
      BY <1>4, <2>1, <3>1 DEF Sees
  <2>2. CASE d # c
    <3>1. PICK t : t = call[d]
      OBVIOUS
    <3>2. Lasts(d)
      BY <1>7, <1>9, <2>2 DEF Lasts, ShowsInv, TablesFit, At, Waiting, Answers
    <3>3. Sees(d, t)'
      BY <3>1, <3>2, StillSees DEF ShowsInv, At
    <3> QED
      BY <1>4, <2>2, <3>1, <3>3 DEF MovesAlone
  <2> QED
    BY <2>1, <2>2
<1> QED
  BY <1>10, <1>11, <1>12, <1>13 DEF ShowsInv

LEMMA ReadingBackKeeps ==
  ASSUME ShowsInv, NEW c \in Calls, ReadBack(c), Proceeds
  PROVE  ShowsInv'
<1>1. SetState(c, call[c]) /\ Waiting(c) /\ call[c].pc = "readback" /\ Quiet
  BY SeesByPlace DEF ReadBack, At, ShowsInv, Waiting, Answers, Quiet
<1>2. PICK s : s = [call[c] EXCEPT !.pc = "done", !.answer = ValueOf(call[c].subject, call[c].field)]
  OBVIOUS
<1>3. /\ DOMAIN s = DOMAIN call[c] /\ s.pc = "done" /\ s.subject = call[c].subject /\ s.field = call[c].field
      /\ s.value = call[c].value /\ s.answer = ValueOf(s.subject, s.field)
  BY <1>1, <1>2 DEF SetState
<1>4. /\ s.subject \in Employees /\ s.field \in FieldIds /\ Defined(s.field) /\ Fits(definitions[s.field], s.value)
      /\ \E ask \in SetOrders : s.value = ask.value
      /\ steady[c] => stored[<<s.subject, s.field>>] = AsStored(s)
  BY <1>1, <1>3 DEF SetState, AsStored
<1>5. ASSUME steady[c]
      PROVE  s.answer = s.value \/ IsNoDay(definitions[s.field], s.value)
  <2>1. CASE AsStored(s) = Null
    <3>1. s.answer = Null
      BY <1>3, <1>4, <1>5, <2>1 DEF ValueOf
    <3>2. CASE s.value = Null
      BY <3>1, <3>2
    <3>3. CASE s.value # Null
      BY <1>4, <2>1, <3>3, StoredValuesFit DEF AsStored
    <3> QED
      BY <3>2, <3>3
  <2>2. CASE AsStored(s) # Null
    <3>1. s.value # Null /\ AsStored(s) = StorageColumns(definitions[s.field].type, s.value)
      BY <2>2 DEF AsStored
    <3>2. s.answer = FromStorage(definitions[s.field].type, StorageColumns(definitions[s.field].type, s.value))
      BY <1>3, <1>4, <1>5, <2>2, <3>1 DEF ValueOf
    <3> QED
      BY <1>4, <3>1, <3>2, StoredValuesFit
  <2> QED
    BY <2>1, <2>2
<1>6. SetState(c, s)
  BY <1>1, <1>3, <1>4, <1>5 DEF SetState, Answers
<1>7. Become(c, s)
  BY <1>2 DEF ReadBack, Answer
<1> QED
  BY <1>1, <1>3, <1>6, <1>7, QuietStep DEF Sees

LEMMA AppendingKeeps ==
  ASSUME ShowsInv, NEW c \in Calls, SetBuiltinFieldValue(c), Proceeds
  PROVE  ShowsInv'
<1>1. SetState(c, call[c]) /\ Waiting(c) /\ call[c].pc = "append"
  BY SeesByPlace DEF SetBuiltinFieldValue, At, ShowsInv, Waiting, Answers
<1>2. CASE Refuse(c) /\ UNCHANGED registryVars
  BY <1>1, <1>2, RefusalKeeps DEF Refuse, Quiet
<1>3. CASE ~(Refuse(c) /\ UNCHANGED registryVars)
  <2>1. PICK s : s = [call[c] EXCEPT !.pc = "done", !.answer = call[c].value]
    OBVIOUS
  <2>2. Become(c, s) /\ Commits(c) /\ definitions' = definitions /\ stored' = stored
    BY <1>3, <2>1 DEF SetBuiltinFieldValue, Answer
  <2>3. DOMAIN call' = Calls /\ MovesAlone(c) /\ call'[c] = s
    BY <2>2 DEF Become, ShowsInv, TablesFit, MovesAlone
  <2>4. SetState(c, s) /\ s.pc # "readback"
    BY <1>1, <2>1 DEF SetState, Answers
  <2>5. DOMAIN steady' = Calls /\ \A d \in Calls : steady'[d] => steady[d]
    BY <2>2, CommitsKeeps DEF ShowsInv, TablesFit
  <2> QED
    BY <1>1, <2>2, <2>3, <2>4, <2>5, OneSeesQuietly DEF Sees, Proceeds, orgVars
<1> QED
  BY <1>2, <1>3

LEMMA ChoosingKeeps ==
  ASSUME ShowsInv, NEW c \in Calls, ChooseDefinitions(c), Proceeds
  PROVE  ShowsInv'
<1>1. ValuesState(c, call[c]) /\ Waiting(c) /\ Quiet /\ org \in during[c]
  BY SeesByPlace DEF ChooseDefinitions, At, ShowsInv, TimesFit, Waiting, Answers, Quiet
<1>2. CASE Goto(c, "refused")
  BY <1>1, <1>2, RefusalKeeps
<1>3. CASE ~Goto(c, "refused")
  <2>1. PICK wanted : wanted = VisibleDefinitions(call[c].route, call[c].viewer, call[c].subject)
    OBVIOUS
  <2>2. PICK s : s = [call[c] EXCEPT !.pc = "query", !.wanted = wanted]
    OBVIOUS
  <2>3. Become(c, s)
    BY <1>3, <2>1, <2>2 DEF ChooseDefinitions
  <2>4. /\ DOMAIN s = DOMAIN call[c] /\ s.pc = "query" /\ s.wanted = wanted /\ s.viewer = call[c].viewer
        /\ s.subject = call[c].subject /\ s.route = call[c].route
    BY <1>1, <2>2 DEF ValuesState
  <2>5. \A f \in wanted : f \in FieldIds /\ Defined(f) /\ MaySeeValue(org, s.route, s.viewer, s.subject, f)
    BY <2>1, <2>4 DEF VisibleDefinitions, MaySeeValue
  <2>6. ValuesState(c, s)
    BY <1>1, <2>4, <2>5 DEF ValuesState, Answers
  <2> QED
    BY <1>1, <2>3, <2>4, <2>6, QuietStep DEF Sees
<1> QED
  BY <1>2, <1>3

LEMMA QueryingKeeps ==
  ASSUME ShowsInv, NEW c \in Calls, QueryValues(c), Proceeds
  PROVE  ShowsInv'
<1>1. ValuesState(c, call[c]) /\ Waiting(c) /\ Quiet /\ call[c].pc = "query"
  BY SeesByPlace DEF QueryValues, At, ShowsInv, Waiting, Answers, Quiet
<1>2. PICK answer : answer = {<<call[c].subject, f, ValueOf(call[c].subject, f)>> :
                                f \in {f \in call[c].wanted : stored[<<call[c].subject, f>>] # Null}}
  OBVIOUS
<1>3. PICK s : s = [call[c] EXCEPT !.pc = "done", !.answer = answer]
  OBVIOUS
<1>4. Become(c, s)
  BY <1>2, <1>3 DEF QueryValues, Answer
<1>5. /\ DOMAIN s = DOMAIN call[c] /\ s.pc = "done" /\ s.answer = answer /\ s.viewer = call[c].viewer
      /\ s.subject = call[c].subject /\ s.route = call[c].route
  BY <1>1, <1>3 DEF ValuesState
<1>6. ASSUME NEW shown \in answer
      PROVE  shown[1] = s.subject /\ shown[2] \in call[c].wanted
  <2>1. PICK f \in call[c].wanted : shown = <<call[c].subject, f, ValueOf(call[c].subject, f)>>
    BY <1>2
  <2> QED
    BY <1>5, <2>1
<1>7. ValuesState(c, s)
  BY <1>1, <1>5, <1>6 DEF ValuesState, Answers
<1> QED
  BY <1>1, <1>4, <1>5, <1>7, QuietStep DEF Sees

-----------------------------------------------------------------------------
(* The catalog of fields, and the pages of a list.                         *)

LEMMA BuiltinSpecsDiffer ==
  ASSUME NEW f \in BuiltinFieldSpecs, NEW g \in BuiltinFieldSpecs, f.id = g.id
  PROVE  f = g
<1> DEFINE Of(id) ==
      CASE id = "name" -> Field("name", "text", "builtin", "S1", TRUE, FALSE)
        [] id = "grade" -> Field("grade", "text", "builtin", "S4", TRUE, TRUE)
        [] id = "position" -> Field("position", "text", "builtin", "S1", TRUE, TRUE)
        [] id = "department" -> Field("department", "text", "builtin", "S1", TRUE, FALSE)
        [] id = "employment_type" -> Field("employment_type", "select", "builtin", "S4", TRUE, TRUE)
        [] id = "years_with_company" -> Field("years_with_company", "number", "derived", "S4", TRUE, FALSE)
        [] id = "mentor_status" -> Field("mentor_status", "select", "derived", "S13", TRUE, FALSE)
        [] id = "current_leave_dates" -> Field("current_leave_dates", "text", "derived", "S10", FALSE, FALSE)
        [] id = "project_names" -> Field("project_names", "text", "derived", "S11", FALSE, FALSE)
        [] id = "last_assessment_date" -> Field("last_assessment_date", "date", "derived", "S12", TRUE, FALSE)
        [] id = "has_open_idp" -> Field("has_open_idp", "boolean", "derived", "S12", TRUE, FALSE)
<1>1. \A h \in BuiltinFieldSpecs : h = Of(h.id)
  BY DEF BuiltinFieldSpecs, Field
<1> HIDE DEF Of
<1> QED
  BY <1>1

LEMMA BuiltinSpecs ==
  /\ \A f \in BuiltinFieldSpecs :
       f.id \notin FieldIds /\ f.source # "custom" /\ f = Spec1(BuiltinFieldSpecs, f.id)
  /\ {"project_names", "has_open_idp", "last_assessment_date"} \cap FieldIds = {}
  /\ Spec1(BuiltinFieldSpecs, "project_names").section = "S11"
  /\ \A id \in ProviderBacked : id \notin FieldIds /\ Spec1(BuiltinFieldSpecs, id).section = "S12"
<1>1. \A f, g \in BuiltinFieldSpecs : f.id = g.id => f = g
  BY BuiltinSpecsDiffer
<1>2. \A f \in BuiltinFieldSpecs : f = Spec1(BuiltinFieldSpecs, f.id)
  BY <1>1 DEF Spec1
<1>3. \A f \in BuiltinFieldSpecs : f.source # "custom"
  BY DEF BuiltinFieldSpecs, Field
<1>4. \A f \in BuiltinFieldSpecs : f.id \notin FieldIds
  BY ListAssumption DEF Ids
<1>5. \E f \in BuiltinFieldSpecs : f.id = "project_names" /\ f.section = "S11"
  BY DEF BuiltinFieldSpecs, Field
<1>6. \A id \in ProviderBacked : \E f \in BuiltinFieldSpecs : f.id = id /\ f.section = "S12"
  BY DEF BuiltinFieldSpecs, Field, ProviderBacked
<1> QED
  BY <1>2, <1>3, <1>4, <1>5, <1>6 DEF ProviderBacked

LEMMA CatalogFits ==
  ASSUME NEW f \in ListFields
  PROVE  FieldFits(f) /\ {"id", "source", "section", "visibility", "sortable", "filterable"} \subseteq DOMAIN f
<1>1. CASE f \in BuiltinFieldSpecs
  <2>1. FieldFits(f)
    BY <1>1, BuiltinSpecs DEF FieldFits
  <2>2. {"id", "source", "section", "visibility", "sortable", "filterable"} \subseteq DOMAIN f
    BY <1>1 DEF BuiltinFieldSpecs, Field
  <2> QED
    BY <2>1, <2>2
<1>2. CASE f \notin BuiltinFieldSpecs
  <2>1. PICK g \in FieldIds :
          /\ Defined(g)
          /\ f = [id |-> g, type |-> definitions[g].type, source |-> "custom", section |-> "S16", sortable |-> TRUE,
                  filterable |-> TRUE, editable |-> TRUE, visibility |-> definitions[g].visibility]
    BY <1>2 DEF ListFields
  <2> QED
    BY <2>1 DEF FieldFits
<1> QED
  BY <1>1, <1>2

LEMMA VisibleFieldsFit ==
  ASSUME NEW o, NEW viewer, NEW f \in FilterVisibleFields(o, viewer)
  PROVE  FieldFits(f)
<1>1. PICK g \in ListFields : f = g \/ f = [g EXCEPT !.sortable = FALSE, !.filterable = FALSE]
  BY DEF FilterVisibleFields
<1>2. FieldFits(g) /\ {"id", "source", "section", "visibility", "sortable", "filterable"} \subseteq DOMAIN g
  BY CatalogFits
<1>3. f.id = g.id /\ f.source = g.source /\ f.section = g.section /\ f.visibility = g.visibility
  BY <1>1, <1>2
<1> QED
  BY <1>2, <1>3 DEF FieldFits

LEMMA SpecOfVisible ==
  ASSUME NEW fields, NEW id \in Ids(fields)
  PROVE  Spec1(fields, id) \in fields /\ Spec1(fields, id).id = id
BY DEF Ids, Spec1

\* However it is ordered, a list has the people it is made of.
LEMMA SortedPeople ==
  ASSUME NEW people, IsFiniteSet(people), NEW rows, NEW x, NEW id, NEW order
  PROVE  SortedBy(people, rows, x, id, order) \in Seq(people)
<1>1. PICK ordered : ordered = {s \in SetToSeqs(people) : \A i, j \in DOMAIN s : i < j =>
        Before(CellValue(rows[s[i]], x, s[i], id), CellValue(rows[s[j]], x, s[j], id), s[i], s[j], order)}
  OBVIOUS
<1>2. Cardinality(people) \in Nat /\ ExistsBijection(1..Cardinality(people), people)
  BY FS_CardinalityType
<1>3. PICK f : f \in Bijection(1..Cardinality(people), people)
  BY <1>2 DEF ExistsBijection
<1>4. f \in SetToSeqs(people)
  BY <1>3 DEF Bijection, Injection, Surjection, IsInjective, SetToSeqs
<1>5. SortedBy(people, rows, x, id, order) = CHOOSE s \in SetToSeqs(people) : ordered # {} => s \in ordered
  BY <1>1 DEF SortedBy
<1>6. \E s \in SetToSeqs(people) : ordered # {} => s \in ordered
  BY <1>1, <1>4
<1>7. SortedBy(people, rows, x, id, order) \in SetToSeqs(people)
  BY <1>5, <1>6
<1> QED
  BY <1>2, <1>7, SeqDef DEF SetToSeqs

LEMMA PagesFit ==
  ASSUME NEW people, NEW sorted \in Seq(people), NEW page \in Int, page >= 1, NEW size \in Int, size >= 1
  PROVE  PageOf(sorted, page, size) \in Seq(people)
<1>1. PICK first : first = (page - 1) * size
  OBVIOUS
<1>2. PICK behind : behind = page * size
  OBVIOUS
<1>3. first \in Nat /\ behind \in Int
  BY <1>1, <1>2, SMTT(30)
<1>4. PICK last : last = Min({behind, Len(sorted)})
  OBVIOUS
<1>5. Len(sorted) \in Nat
  OBVIOUS
<1>6. last \in {behind, Len(sorted)} /\ last <= Len(sorted) /\ last \in Int
  BY <1>3, <1>4, <1>5 DEF Min
<1>7. \A i \in (first + 1)..last : sorted[i] \in people
  BY <1>3, <1>6
<1>8. SubSeq(sorted, first + 1, last) \in Seq(people)
  BY <1>3, <1>6, <1>7, SubSeqProperties
<1> QED
  BY <1>1, <1>2, <1>4, <1>8 DEF PageOf

LEMMA BatchesFit ==
  ASSUME NEW c, NEW r, ListState(c, r), r.pc = "values", NEW down, NEW batch, batch = BatchOf(r, down)
  PROVE  RowsFit(batch) /\ \A i \in DOMAIN batch :
           batch[i].employee \in DOMAIN r.found /\ DOMAIN batch[i].cells \subseteq Ids(r.visible)
<1>1. PICK matching : matching = Matching(r, down)
  OBVIOUS
<1>2. PICK x : x = ValuesElsewhere(r, down)
  OBVIOUS
<1>3. matching \subseteq DOMAIN r.found /\ DOMAIN r.found \subseteq Employees
  BY <1>1 DEF Matching, Filtered, ListState
<1>4. IsFiniteSet(matching)
  BY <1>3, ListAssumption, FS_Subset
<1>5. PICK page : page = PageOf(SortedBy(matching, r.found, x, IF r.sort = Null THEN "name" ELSE r.sort,
                                         IF r.sort = Null THEN "asc" ELSE r.order), r.page, r.pageSize)
  OBVIOUS
<1>6. page \in Seq(matching)
  BY <1>4, <1>5, SortedPeople, PagesFit DEF ListState
<1>7. batch = [i \in DOMAIN page |->
         [employee |-> page[i],
          cells |-> [id \in Ids(r.visible) \ down |-> CellValue(r.found[page[i]], x, page[i], id)]]]
  BY <1>1, <1>2, <1>5 DEF BatchOf
<1>8. \A i \in DOMAIN batch : batch[i].employee \in DOMAIN r.found /\ DOMAIN batch[i].cells \subseteq Ids(r.visible)
  BY <1>3, <1>6, <1>7
<1>9. DOMAIN page = 1..Len(page) /\ Len(page) \in Nat
  BY <1>6
<1>10. batch \in [1..Len(page) -> {batch[i] : i \in DOMAIN batch}]
  BY <1>7, <1>9
<1>11. RowsFit(batch)
  BY <1>9, <1>10, SeqDef DEF RowsFit
<1> QED
  BY <1>8, <1>11

-----------------------------------------------------------------------------
(* Lists and exports, up to the roster.                                    *)

LEMMA ListGoesOn ==
  ASSUME ShowsInv, NEW c \in Calls, Waiting(c), NEW s, Become(c, s), ListState(c, s) \/ ListedState(c, s), Quiet
  PROVE  ShowsInv'
<1>1. Sees(c, s)
  BY DEF Sees
<1>2. s.pc # "readback"
  BY DEF ListState, ListedState, ListStages
<1> QED
  BY <1>1, <1>2, QuietStep

LEMMA ListServed ==
  ASSUME ShowsInv, NEW c \in Calls, call[c].pc \in ListStages
  PROVE  ListState(c, call[c]) /\ Waiting(c) /\ org \in during[c]
<1>1. ListState(c, call[c])
  BY SeesByPlace DEF ShowsInv
<1>2. Waiting(c)
  BY DEF Waiting, Answers, ListStages
<1> QED
  BY <1>1, <1>2 DEF ShowsInv, TimesFit

\* With fewer filters, a row is as open as before.
LEMMA FewerFilters ==
  ASSUME NEW c, NEW viewer, NEW filters, NEW fewer, fewer \subseteq filters,
         NEW row, RowIsOpen(c, viewer, filters, row)
  PROVE  RowIsOpen(c, viewer, fewer, row)
BY DEF RowIsOpen

LEMMA ChoosingColumnsKeeps ==
  ASSUME ShowsInv, NEW c \in Calls, ChooseColumns(c), Proceeds
  PROVE  ShowsInv'
<1>1. call[c].pc = "columns" /\ Quiet
  BY DEF ChooseColumns, At, Quiet
<1>2. ListState(c, call[c]) /\ Waiting(c)
  BY <1>1, ListServed DEF ListStages
<1>3. CASE Goto(c, "refused")
  BY <1>1, <1>2, <1>3, RefusalKeeps
<1>4. CASE ~Goto(c, "refused")
  <2>1. PICK columns : columns = call[c].columns \cap Ids(FilterVisibleFields(org, call[c].viewer))
    OBVIOUS
  <2>2. PICK s : s = [call[c] EXCEPT !.pc = "prepare", !.columns = columns]
    OBVIOUS
  <2>3. Become(c, s)
    BY <1>4, <2>1, <2>2 DEF ChooseColumns
  <2>4. /\ DOMAIN s = DOMAIN call[c] /\ s.pc = "prepare" /\ s.visible = call[c].visible /\ s.audiences = call[c].audiences
        /\ s.viewer = call[c].viewer /\ s.rows = call[c].rows /\ s.filters = call[c].filters /\ s.page = call[c].page
        /\ s.pageSize = call[c].pageSize
    BY <1>2, <2>2 DEF ListState
  <2>5. ListState(c, s)
    BY <1>1, <1>2, <2>4 DEF ListState, ListStages
  <2> QED
    BY <1>1, <1>2, <2>3, <2>5, ListGoesOn
<1> QED
  BY <1>3, <1>4

LEMMA PreparingKeeps ==
  ASSUME ShowsInv, NEW c \in Calls, Prepare(c), Proceeds
  PROVE  ShowsInv'
<1>1. call[c].pc = "prepare" /\ Quiet
  BY DEF Prepare, At, Quiet
<1>2. ListState(c, call[c]) /\ Waiting(c)
  BY <1>1, ListServed DEF ListStages
<1>3. PICK visible : visible = FilterVisibleFields(org, call[c].viewer)
  OBVIOUS
<1>4. PICK filters : filters = EffectiveFilters(call[c].filters, visible)
  OBVIOUS
<1>5. PICK needs : needs = NeedsAudiences(call[c], filters, visible)
  OBVIOUS
<1>6. PICK s : s = [call[c] EXCEPT !.filters = filters, !.kept = needs, !.pc = IF needs THEN "everyone" ELSE "look"]
  OBVIOUS
<1>7. Become(c, s)
  BY <1>3, <1>4, <1>5, <1>6 DEF Prepare
<1>8. /\ DOMAIN s = DOMAIN call[c] /\ s.pc \in {"everyone", "look"} /\ s.visible = call[c].visible
      /\ s.audiences = call[c].audiences /\ s.viewer = call[c].viewer /\ s.rows = call[c].rows /\ s.filters = filters
      /\ s.page = call[c].page /\ s.pageSize = call[c].pageSize
  BY <1>2, <1>6 DEF ListState
<1>9. filters \subseteq call[c].filters
  BY <1>4 DEF EffectiveFilters
<1>10. \A i \in DOMAIN s.rows : RowIsOpen(c, s.viewer, s.filters, s.rows[i])
  BY <1>2, <1>8, <1>9, FewerFilters DEF ListState
<1>11. ListState(c, s)
  BY <1>1, <1>2, <1>8, <1>10 DEF ListState, ListStages
<1> QED
  BY <1>1, <1>2, <1>7, <1>11, ListGoesOn

LEMMA LookingKeeps ==
  ASSUME ShowsInv, NEW c \in Calls, Look(c), Proceeds
  PROVE  ShowsInv'
<1>1. call[c].pc = "look" /\ Quiet
  BY DEF Look, At, Quiet
<1>2. ListState(c, call[c]) /\ Waiting(c)
  BY <1>1, ListServed DEF ListStages
<1>3. PICK visible : visible = FilterVisibleFields(org, call[c].viewer)
  OBVIOUS
<1>4. PICK filters : filters = EffectiveFilters(call[c].filters, visible)
  OBVIOUS
<1>5. CASE UsesProvider(call[c].filters \ filters)
  <2>1. PICK s : s = [pc |-> "done", kind |-> call[c].kind, viewer |-> call[c].viewer, sort |-> call[c].sort,
                      order |-> call[c].order, filters |-> call[c].filters, columns |-> call[c].columns,
                      page |-> call[c].page, pageSize |-> call[c].pageSize, rows |-> <<>>, total |-> 0,
                      failed |-> call[c].failed]
    OBVIOUS
  <2>2. Become(c, s)
    BY <1>3, <1>4, <1>5, <2>1 DEF Look, Done
  <2>3. ListedState(c, s)
    BY <2>1 DEF ListedState
  <2> QED
    BY <1>1, <1>2, <2>2, <2>3, ListGoesOn
<1>6. CASE ~UsesProvider(call[c].filters \ filters) /\ ~ValidQuery(call[c], filters, visible)
  <2>1. Goto(c, "refused")
    BY <1>3, <1>4, <1>6 DEF Look
  <2> QED
    BY <1>1, <1>2, <2>1, RefusalKeeps
<1>7. CASE ~UsesProvider(call[c].filters \ filters) /\ ValidQuery(call[c], filters, visible)
  <2>1. PICK audiences : audiences = IF call[c].kept THEN call[c].audiences ELSE NoAudiences
    OBVIOUS
  <2>2. PICK pc : pc = IF NeedsAudiences(call[c], filters, visible) /\ ~call[c].kept THEN "everyone" ELSE "roster"
    OBVIOUS
  <2>3. PICK s : s = [call[c] EXCEPT !.visible = visible, !.filters = filters, !.audiences = audiences, !.pc = pc]
    OBVIOUS
  <2>4. [call[c] EXCEPT !.audiences = IF call[c].kept THEN @ ELSE NoAudiences] = [call[c] EXCEPT !.audiences = audiences]
    BY <2>1
  <2>5. Become(c, s)
    BY <1>3, <1>4, <1>7, <2>1, <2>2, <2>3, <2>4 DEF Look
  <2>6. /\ DOMAIN s = DOMAIN call[c] /\ s.pc \in {"everyone", "roster"} /\ s.visible = visible
        /\ s.audiences = audiences /\ s.viewer = call[c].viewer /\ s.rows = call[c].rows /\ s.filters = filters
        /\ s.page = call[c].page /\ s.pageSize = call[c].pageSize
    BY <1>2, <2>2, <2>3 DEF ListState
  <2>7. filters \subseteq call[c].filters
    BY <1>4 DEF EffectiveFilters
  <2>8. \A i \in DOMAIN s.rows : RowIsOpen(c, s.viewer, s.filters, s.rows[i])
    BY <1>2, <2>6, <2>7, FewerFilters DEF ListState
  <2>9. \A f \in s.visible : FieldFits(f)
    BY <1>3, <2>6, VisibleFieldsFit
  <2>10. DOMAIN audiences \subseteq Employees
         /\ \A e \in DOMAIN audiences : \E o \in during[c] : audiences[e] = AudienceOf(o, call[c].viewer, e)
    BY <1>2, <2>1 DEF ListState, NoAudiences
  <2>11. s.page >= 1 /\ s.pageSize >= 1
    BY <1>2, <1>7, <2>6, ListAssumption DEF ValidQuery, ListState
  <2>12. ListState(c, s)
    BY <1>1, <1>2, <2>6, <2>8, <2>9, <2>10, <2>11 DEF ListState, ListStages
  <2> QED
    BY <1>1, <1>2, <2>5, <2>12, ListGoesOn
<1> QED
  BY <1>5, <1>6, <1>7

LEMMA ResolvingKeeps ==
  ASSUME ShowsInv, NEW c \in Calls, ResolveEveryone(c), Proceeds
  PROVE  ShowsInv'
<1>1. call[c].pc = "everyone" /\ Quiet
  BY DEF ResolveEveryone, At, Quiet
<1>2. ListState(c, call[c]) /\ Waiting(c) /\ org \in during[c]
  BY <1>1, ListServed DEF ListStages
<1>3. PICK audiences : audiences = [e \in {e \in Employees : Hired(e)} |-> AudienceOf(org, call[c].viewer, e)]
  OBVIOUS
<1>4. PICK s : s = [call[c] EXCEPT !.pc = IF call[c].visible = {} THEN "look" ELSE "roster", !.audiences = audiences]
  OBVIOUS
<1>5. Become(c, s)
  BY <1>3, <1>4 DEF ResolveEveryone
<1>6. /\ DOMAIN s = DOMAIN call[c] /\ s.pc = IF call[c].visible = {} THEN "look" ELSE "roster"
      /\ s.visible = call[c].visible
      /\ s.audiences = audiences /\ s.viewer = call[c].viewer /\ s.rows = call[c].rows /\ s.filters = call[c].filters
      /\ s.page = call[c].page /\ s.pageSize = call[c].pageSize
  BY <1>2, <1>4 DEF ListState
<1>7. DOMAIN audiences \subseteq Employees /\ \A e \in DOMAIN audiences : audiences[e] = AudienceOf(org, s.viewer, e)
  BY <1>3, <1>6
<1>8. ListState(c, s)
  BY <1>1, <1>2, <1>6, <1>7 DEF ListState, ListStages
<1> QED
  BY <1>1, <1>2, <1>5, <1>8, ListGoesOn

LEMMA LoadingKeeps ==
  ASSUME ShowsInv, NEW c \in Calls, LoadEmployeeSnapshots(c), Proceeds
  PROVE  ShowsInv'
<1>1. call[c].pc = "roster" /\ Quiet
  BY DEF LoadEmployeeSnapshots, At, Quiet
<1>2. ListState(c, call[c]) /\ Waiting(c)
  BY <1>1, ListServed DEF ListStages
<1>3. PICK among : among = IF UsesProvider(call[c].filters) THEN S12Visible(call[c].audiences) ELSE Employees
  OBVIOUS
<1>4. PICK found : found = [e \in {e \in among : Hired(e)} |-> roster[e]]
  OBVIOUS
<1>5. PICK s : s = [call[c] EXCEPT !.pc = "values", !.found = found]
  OBVIOUS
<1>6. Become(c, s)
  BY <1>3, <1>4, <1>5 DEF LoadEmployeeSnapshots
<1>7. /\ DOMAIN s = DOMAIN call[c] /\ s.pc = "values" /\ s.visible = call[c].visible
      /\ s.audiences = call[c].audiences /\ s.viewer = call[c].viewer /\ s.rows = call[c].rows
      /\ s.filters = call[c].filters /\ s.page = call[c].page /\ s.pageSize = call[c].pageSize /\ s.found = found
  BY <1>2, <1>5 DEF ListState
<1>8. among \subseteq Employees /\ (UsesProvider(s.filters) => among = S12Visible(s.audiences))
  BY <1>2, <1>3, <1>7 DEF ListState, S12Visible
<1>9. DOMAIN found \subseteq among
  BY <1>4
<1>10. ListState(c, s)
  BY <1>1, <1>2, <1>7, <1>8, <1>9 DEF ListState, ListStages
<1> QED
  BY <1>1, <1>2, <1>6, <1>10, ListGoesOn

LEMMA AskingKeeps ==
  ASSUME ShowsInv, NEW c \in Calls, QueryEmployees(c), Proceeds
  PROVE  ShowsInv'
<1>1. call[c].pc = "values" /\ Quiet
  BY DEF QueryEmployees, At, Quiet
<1>2. ListState(c, call[c]) /\ Waiting(c)
  BY <1>1, ListServed DEF ListStages
<1>3. CASE Goto(c, "refused")
  BY <1>1, <1>2, <1>3, RefusalKeeps
<1>4. CASE ~Goto(c, "refused")
  <2>1. PICK down \in {fault \cap Ids(call[c].visible) : fault \in Faults} :
          Become(c, [call[c] EXCEPT !.pc = "cache", !.found = NoAudiences,
                 !.total = Cardinality(Matching(call[c], down)), !.batch = BatchOf(call[c], down),
                 !.down = IF down = {} THEN @ ELSE down, !.failed = @ \cup down])
    BY <1>4 DEF QueryEmployees
  <2>2. PICK batch : batch = BatchOf(call[c], down)
    OBVIOUS
  <2>3. PICK s : s = [call[c] EXCEPT !.pc = "cache", !.found = NoAudiences,
                 !.total = Cardinality(Matching(call[c], down)), !.batch = batch,
                 !.down = IF down = {} THEN @ ELSE down, !.failed = @ \cup down]
    OBVIOUS
  <2>4. Become(c, s)
    BY <2>1, <2>2, <2>3
  <2>5. /\ DOMAIN s = DOMAIN call[c] /\ s.pc = "cache" /\ s.visible = call[c].visible
        /\ s.audiences = call[c].audiences /\ s.viewer = call[c].viewer /\ s.rows = call[c].rows
        /\ s.filters = call[c].filters /\ s.page = call[c].page /\ s.pageSize = call[c].pageSize /\ s.batch = batch
    BY <1>2, <2>3 DEF ListState
  <2>6. RowsFit(batch) /\ \A i \in DOMAIN batch :
           batch[i].employee \in DOMAIN call[c].found /\ DOMAIN batch[i].cells \subseteq Ids(call[c].visible)
    BY <1>1, <1>2, <2>2, BatchesFit
  <2>7. DOMAIN call[c].found \subseteq Employees
        /\ (UsesProvider(call[c].filters) => DOMAIN call[c].found \subseteq S12Visible(call[c].audiences))
    BY <1>1, <1>2 DEF ListState
  <2>8. ListState(c, s)
    BY <1>1, <1>2, <2>5, <2>6, <2>7 DEF ListState, ListStages
  <2> QED
    BY <1>1, <1>2, <2>4, <2>8, ListGoesOn
<1> QED
  BY <1>3, <1>4

LEMMA AudiencesOfThePageKeep ==
  ASSUME ShowsInv, NEW c \in Calls, PageAudiences(c), Proceeds
  PROVE  ShowsInv'
<1>1. call[c].pc = "cache" /\ Quiet
  BY DEF PageAudiences, At, Quiet
<1>2. ListState(c, call[c]) /\ Waiting(c) /\ org \in during[c]
  BY <1>1, ListServed DEF ListStages
<1>3. PICK people : people = {call[c].batch[i].employee : i \in DOMAIN call[c].batch}
  OBVIOUS
<1>4. PICK audiences : audiences = Over(call[c].audiences, [e \in people |-> AudienceOf(org, call[c].viewer, e)])
  OBVIOUS
<1>5. PICK s : s = [call[c] EXCEPT !.pc = "mask", !.audiences = audiences]
  OBVIOUS
<1>6. Become(c, s)
  <2>1. [call[c] EXCEPT !.pc = "mask", !.audiences = Over(@, [e \in people |-> AudienceOf(org, call[c].viewer, e)])] = s
    BY <1>4, <1>5
  <2> QED
    BY <2>1, <1>3 DEF PageAudiences
<1>7. /\ DOMAIN s = DOMAIN call[c] /\ s.pc = "mask" /\ s.visible = call[c].visible
      /\ s.audiences = audiences /\ s.viewer = call[c].viewer /\ s.rows = call[c].rows /\ s.batch = call[c].batch
      /\ s.filters = call[c].filters /\ s.page = call[c].page /\ s.pageSize = call[c].pageSize
  BY <1>2, <1>5 DEF ListState
<1>8. people \subseteq Employees
  BY <1>1, <1>2, <1>3 DEF ListState
<1>9. /\ DOMAIN audiences = DOMAIN call[c].audiences \cup people
      /\ \A e \in DOMAIN call[c].audiences : audiences[e] = call[c].audiences[e]
      /\ \A e \in people \ DOMAIN call[c].audiences : audiences[e] = AudienceOf(org, call[c].viewer, e)
  BY <1>4 DEF Over
<1>10. S12Visible(call[c].audiences) \subseteq S12Visible(audiences)
  BY <1>9 DEF S12Visible
<1>11. DOMAIN audiences \subseteq Employees
       /\ \A e \in DOMAIN audiences : \E o \in during[c] : audiences[e] = AudienceOf(o, call[c].viewer, e)
  BY <1>2, <1>8, <1>9 DEF ListState
<1>12. /\ RowsFit(s.batch)
       /\ \A i \in DOMAIN s.batch :
            /\ s.batch[i].employee \in Employees /\ DOMAIN s.batch[i].cells \subseteq Ids(s.visible)
            /\ UsesProvider(s.filters) => s.batch[i].employee \in S12Visible(s.audiences)
            /\ s.batch[i].employee \in DOMAIN s.audiences
  BY <1>1, <1>2, <1>3, <1>7, <1>9, <1>10 DEF ListState
<1>13. ListState(c, s)
  BY <1>1, <1>2, <1>7, <1>11, <1>12 DEF ListState, ListStages
<1> QED
  BY <1>1, <1>2, <1>6, <1>13, ListGoesOn

-----------------------------------------------------------------------------
(* What is masked in a row.                                                *)

LEMMA CellIsOpen ==
  ASSUME NEW c, NEW r, ListState(c, r), org \in during[c], NEW e \in DOMAIN r.audiences,
         NEW id \in Ids(r.visible), KeepsCell(r, e, Spec1(r.visible, id))
  PROVE  OpenAt(c, r.viewer, e, id)
<1>1. PICK f : f = Spec1(r.visible, id)
  OBVIOUS
<1>2. f \in r.visible /\ f.id = id
  BY <1>1, SpecOfVisible
<1>3. FieldFits(f)
  BY <1>2 DEF ListState
<1>4. CASE id \in FieldIds
  <2>1. f.source = "custom" /\ Defined(id) /\ f.visibility = definitions[id].visibility
    BY <1>2, <1>3, <1>4 DEF FieldFits
  <2>2. MaySee(org, r.viewer, e, id)
    BY <1>1, <1>4, <2>1 DEF KeepsCell, MaySee
  <2> QED
    BY <2>1, <2>2 DEF OpenAt
<1>5. CASE id \notin FieldIds
  <2>1. f.source # "custom" /\ f.section = Spec1(BuiltinFieldSpecs, id).section
    BY <1>2, <1>3, <1>5 DEF FieldFits
  <2>2. r.audiences[e].sections[f.section] # "none"
    BY <1>1, <2>1 DEF KeepsCell
  <2>3. PICK o \in during[c] : r.audiences[e] = AudienceOf(o, r.viewer, e)
    BY DEF ListState
  <2>4. MaySee(o, r.viewer, e, id)
    BY <1>5, <2>1, <2>2, <2>3 DEF MaySee
  <2> QED
    BY <1>5, <2>4 DEF OpenAt
<1> QED
  BY <1>4, <1>5

LEMMA MaskedRowIsOpen ==
  ASSUME NEW c, NEW r, ListState(c, r), r.pc = "mask", org \in during[c], NEW i \in DOMAIN r.batch,
         NEW row, row = MaskRow(r, r.batch[i])
  PROVE  RowIsOpen(c, r.viewer, r.filters, row)
<1>1. PICK e : e = r.batch[i].employee
  OBVIOUS
<1>2. /\ e \in DOMAIN r.audiences /\ DOMAIN r.batch[i].cells \subseteq Ids(r.visible)
      /\ UsesProvider(r.filters) => e \in S12Visible(r.audiences)
  BY <1>1 DEF ListState
<1>3. PICK o \in during[c] : r.audiences[e] = AudienceOf(o, r.viewer, e)
  BY <1>2 DEF ListState
<1>4. PICK kept : kept = {id \in DOMAIN r.batch[i].cells : KeepsCell(r, e, Spec1(r.visible, id))}
  OBVIOUS
<1>5. PICK named : named = {id \in {"project_names"} \cap Ids(r.visible) : r.audiences[e].sections["S11"] # "none"}
  OBVIOUS
<1>6. row.employee = e /\ DOMAIN row.cells = kept \cup named
  BY <1>1, <1>4, <1>5 DEF MaskRow
<1>7. \A id \in kept : OpenAt(c, r.viewer, e, id)
  BY <1>2, <1>4, CellIsOpen
<1>8. ASSUME NEW id \in named
      PROVE  OpenAt(c, r.viewer, e, id)
  <2>1. id = "project_names" /\ AudienceOf(o, r.viewer, e).sections["S11"] # "none"
    BY <1>3, <1>5, <1>8
  <2>2. id \notin FieldIds /\ Spec1(BuiltinFieldSpecs, id).section = "S11"
    BY <2>1, BuiltinSpecs
  <2>3. MaySee(o, r.viewer, e, id)
    BY <2>1, <2>2 DEF MaySee
  <2> QED
    BY <1>3, <2>2, <2>3 DEF OpenAt
<1>9. ASSUME NEW f \in r.filters, f.field \in ProviderBacked
      PROVE  OpenAt(c, r.viewer, e, f.field)
  <2>1. e \in S12Visible(r.audiences)
    BY <1>2, <1>9 DEF UsesProvider
  <2>2. AudienceOf(o, r.viewer, e).sections["S12"] # "none"
    BY <1>3, <2>1 DEF S12Visible
  <2>3. f.field \notin FieldIds /\ Spec1(BuiltinFieldSpecs, f.field).section = "S12"
    BY <1>9, BuiltinSpecs
  <2>4. MaySee(o, r.viewer, e, f.field)
    BY <2>2, <2>3 DEF MaySee
  <2> QED
    BY <1>3, <2>3, <2>4 DEF OpenAt
<1> QED
  BY <1>6, <1>7, <1>8, <1>9 DEF RowIsOpen

LEMMA ExportedRowIsOpen ==
  ASSUME NEW c, NEW r, NEW row, RowIsOpen(c, r.viewer, r.filters, row)
  PROVE  RowIsOpen(c, r.viewer, r.filters, ExportRow(r, row))
<1>1. PICK t : t = ExportRow(r, row)
  OBVIOUS
<1>2. t.employee = row.employee /\ DOMAIN t.cells = r.columns
      /\ \A id \in r.columns : t.cells[id] = ExportCell(r, row, id)
  BY <1>1 DEF ExportRow
<1>3. ASSUME NEW id \in r.columns, ~(t.cells[id] \in {Null, <<"unavailable">>})
      PROVE  OpenAt(c, r.viewer, row.employee, id)
  <2>1. id \in DOMAIN row.cells /\ t.cells[id] = row.cells[id]
    BY <1>2, <1>3 DEF ExportCell
  <2> QED
    BY <1>3, <2>1 DEF RowIsOpen
<1> QED
  BY <1>1, <1>2, <1>3 DEF RowIsOpen

LEMMA MaskingKeeps ==
  ASSUME ShowsInv, NEW c \in Calls, MaskRows(c), Proceeds
  PROVE  ShowsInv'
<1>1. call[c].pc = "mask" /\ Quiet
  BY DEF MaskRows, At, Quiet
<1>2. ListState(c, call[c]) /\ Waiting(c) /\ org \in during[c]
  BY <1>1, ListServed DEF ListStages
<1>3. PICK r : r = call[c]
  OBVIOUS
<1>4. PICK masked : masked = [i \in DOMAIN r.batch |-> MaskRow(r, r.batch[i])]
  OBVIOUS
<1>5. PICK rows : rows = r.rows \o masked
  OBVIOUS
<1>6. \A i \in DOMAIN masked : RowIsOpen(c, r.viewer, r.filters, masked[i])
  BY <1>1, <1>2, <1>3, <1>4, MaskedRowIsOpen
<1>7. DOMAIN masked = 1..Len(r.batch) /\ Len(r.batch) \in Nat
  <2>1. r.batch \in Seq({r.batch[i] : i \in DOMAIN r.batch})
    BY <1>1, <1>2, <1>3 DEF ListState, RowsFit
  <2> QED
    BY <1>4, <2>1
<1>8. masked \in Seq({masked[i] : i \in DOMAIN masked}) /\ Len(masked) = Len(r.batch)
  <2>1. masked \in [1..Len(r.batch) -> {masked[i] : i \in DOMAIN masked}]
    BY <1>4, <1>7
  <2>2. masked \in Seq({masked[i] : i \in DOMAIN masked})
    BY <1>7, <2>1, SeqDef
  <2> QED
    BY <1>7, <2>2
<1>9. r.rows \in Seq({r.rows[i] : i \in DOMAIN r.rows}) /\ \A i \in DOMAIN r.rows : RowIsOpen(c, r.viewer, r.filters, r.rows[i])
  BY <1>2, <1>3 DEF ListState, RowsFit
<1>10. RowsFit(rows) /\ \A i \in DOMAIN rows : RowIsOpen(c, r.viewer, r.filters, rows[i])
  <2>1. PICK both : both = {r.rows[i] : i \in DOMAIN r.rows} \cup {masked[i] : i \in DOMAIN masked}
    OBVIOUS
  <2>2. r.rows \in Seq(both) /\ masked \in Seq(both)
    BY <1>8, <1>9, <2>1
  <2>3. rows \in Seq(both)
    BY <1>5, <2>2
  <2>4. DOMAIN rows = 1..Len(rows) /\ Len(rows) \in Nat /\ \A i \in DOMAIN rows : rows[i] \in both
    BY <2>3
  <2>5. RowsFit(rows)
    <3>1. rows \in [1..Len(rows) -> {rows[i] : i \in DOMAIN rows}]
      BY <2>3, <2>4
    <3> QED
      BY <2>4, <3>1, SeqDef DEF RowsFit
  <2>6. \A row \in both : RowIsOpen(c, r.viewer, r.filters, row)
    BY <1>6, <1>9, <2>1
  <2> QED
    BY <2>4, <2>5, <2>6
<1>11. CASE r.kind = "list"
  <2>1. PICK shown : shown = [i \in DOMAIN masked |->
           [employee |-> masked[i].employee, cells |-> masked[i].cells, writable |-> WritableFields(r, masked[i].employee)]]
    OBVIOUS
  <2>2. Done(c, r, shown, r.total)
    BY <1>3, <1>4, <1>11, <2>1 DEF MaskRows
  <2>3. PICK s : s = [pc |-> "done", kind |-> r.kind, viewer |-> r.viewer, sort |-> r.sort, order |-> r.order,
             filters |-> r.filters, columns |-> r.columns, page |-> r.page, pageSize |-> r.pageSize,
             rows |-> shown, total |-> r.total, failed |-> r.failed]
    OBVIOUS
  <2>4. \A i \in DOMAIN shown : i \in DOMAIN masked /\ shown[i].employee = masked[i].employee /\ shown[i].cells = masked[i].cells
    BY <2>1
  <2>5. \A i \in DOMAIN shown : RowIsOpen(c, r.viewer, r.filters, shown[i])
    BY <1>6, <2>4 DEF RowIsOpen
  <2>6. ListedState(c, s)
    BY <2>3, <2>5 DEF ListedState
  <2>7. Become(c, s)
    BY <2>2, <2>3 DEF Done
  <2> QED
    BY <1>1, <1>2, <2>6, <2>7, ListGoesOn
<1>12. CASE r.kind # "list" /\ Len(rows) >= r.total
  <2>1. PICK shown : shown = [i \in DOMAIN rows |-> ExportRow(r, rows[i])]
    OBVIOUS
  <2>2. Done(c, r, shown, r.total)
    BY <1>3, <1>4, <1>5, <1>12, <2>1 DEF MaskRows
  <2>3. PICK s : s = [pc |-> "done", kind |-> r.kind, viewer |-> r.viewer, sort |-> r.sort, order |-> r.order,
             filters |-> r.filters, columns |-> r.columns, page |-> r.page, pageSize |-> r.pageSize,
             rows |-> shown, total |-> r.total, failed |-> r.failed]
    OBVIOUS
  <2>4. \A i \in DOMAIN shown : i \in DOMAIN rows /\ shown[i] = ExportRow(r, rows[i])
    BY <2>1
  <2>5. \A i \in DOMAIN shown : RowIsOpen(c, r.viewer, r.filters, shown[i])
    BY <1>10, <2>4, ExportedRowIsOpen
  <2>6. ListedState(c, s)
    BY <2>3, <2>5 DEF ListedState
  <2>7. Become(c, s)
    BY <2>2, <2>3 DEF Done
  <2> QED
    BY <1>1, <1>2, <2>6, <2>7, ListGoesOn
<1>13. CASE r.kind # "list" /\ ~(Len(rows) >= r.total)
  <2>1. PICK s : s = [r EXCEPT !.pc = "look", !.rows = rows, !.batch = <<>>, !.page = @ + 1]
    OBVIOUS
  <2>2. Become(c, s)
    BY <1>3, <1>4, <1>5, <1>13, <2>1 DEF MaskRows
  <2>3. /\ DOMAIN s = DOMAIN r /\ s.pc = "look" /\ s.visible = r.visible /\ s.audiences = r.audiences
        /\ s.viewer = r.viewer /\ s.rows = rows /\ s.filters = r.filters /\ s.page = r.page + 1 /\ s.pageSize = r.pageSize
    BY <1>2, <1>3, <2>1 DEF ListState
  <2>4. r.page \in Int /\ r.page >= 1 /\ r.pageSize >= 1
    BY <1>1, <1>2, <1>3 DEF ListState
  <2>5. s.page \in Int /\ s.page >= 1
    BY <2>3, <2>4
  <2>6. ListState(c, s)
    BY <1>2, <1>3, <1>10, <2>3, <2>4, <2>5 DEF ListState, ListStages
  <2> QED
    BY <1>1, <1>2, <2>2, <2>6, ListGoesOn
<1> QED
  BY <1>11, <1>12, <1>13

LEMMA ListsKeep ==
  ASSUME ShowsInv, NEW c \in Calls, ServeList(c), Proceeds
  PROVE  ShowsInv'
BY ChoosingColumnsKeeps, PreparingKeeps, LookingKeeps, ResolvingKeeps, LoadingKeeps, AskingKeeps,
   AudiencesOfThePageKeep, MaskingKeeps DEF ServeList

LEMMA RegistryKeeps ==
  ASSUME ShowsInv, NEW c \in Calls, ServeRegistry(c), Proceeds
  PROVE  ShowsInv'
BY ManagingKeeps, DefiningKeeps, SetMovesKeep, StoringKeeps, ReadingBackKeeps, AppendingKeeps, ChoosingKeeps,
   QueryingKeeps DEF ServeRegistry

-----------------------------------------------------------------------------
(* Whatever else happens.                                                  *)

\* Requests stay where they are, or are refused; organisations may follow each other.
LEMMA OthersMove ==
  ASSUME ShowsInv, DOMAIN call' = Calls, DOMAIN during' = Calls, DOMAIN steady' = Calls,
         definitions' = definitions, stored' = stored,
         \A d \in Calls : during[d] \subseteq during'[d] /\ (steady'[d] => steady[d]) /\ (Waiting(d) => org' \in during'[d]),
         \A d \in Calls : call'[d] = call[d] \/ (Waiting(d) /\ call'[d] = [call[d] EXCEPT !.pc = "refused"])
  PROVE  ShowsInv'
<1>1. TablesFit'
  BY DEF ShowsInv, TablesFit
<1>2. ValuesFit'
  BY ValuesStayFit DEF ShowsInv
<1>3. \A d \in Calls : Lasts(d)
  BY DEF Lasts, ShowsInv, TablesFit
<1>4. ASSUME NEW d \in Calls
      PROVE  Sees(d, call[d])' /\ (Waiting(d)' => Waiting(d))
  <2>1. Sees(d, call[d])
    BY DEF ShowsInv
  <2>2. CASE call'[d] = call[d]
    <3>1. PICK t : t = call[d]
      OBVIOUS
    <3>2. Sees(d, t)'
      BY <1>3, <2>1, <3>1, StillSees DEF At
    <3> QED
      BY <2>2, <3>1, <3>2 DEF Waiting
  <2>3. CASE Waiting(d) /\ call'[d] = [call[d] EXCEPT !.pc = "refused"]
    <3>1. PICK t : t = [call[d] EXCEPT !.pc = "refused"]
      OBVIOUS
    <3>2. Sees(d, t)
      BY <2>1, <2>3, <3>1, RefusedSees
    <3>3. t.pc = "refused"
      BY <2>1, <3>1, SeesByKind
    <3>4. Sees(d, t)'
      BY <1>3, <3>2, <3>3, StillSees
    <3> QED
      BY <2>3, <3>1, <3>4
  <2> QED
    BY <2>2, <2>3
<1>5. TimesFit'
  BY <1>4 DEF TimesFit
<1> QED
  BY <1>1, <1>2, <1>4, <1>5 DEF ShowsInv

LEMMA InterruptionsKeep ==
  ASSUME ShowsInv, \/ Surroundings \/ Crash \/ UNCHANGED directoryVars \/ \E c \in Calls : StatementFails(c)
  PROVE  ShowsInv'
<1>1. DOMAIN call = Calls /\ DOMAIN during = Calls /\ DOMAIN steady = Calls
      /\ \A d \in Calls : Waiting(d) => org \in during[d]
  BY DEF ShowsInv, TablesFit, TimesFit
<1>2. CASE RosterMoves
  <2>1. /\ call' = call /\ org' = org /\ during' = during /\ definitions' = definitions /\ stored' = stored
        /\ steady' = [c \in Calls |-> steady[c] /\ ~Waiting(c)]
    BY <1>2 DEF RosterMoves
  <2> QED
    BY <1>1, <2>1, OthersMove
<1>3. CASE OrgMoves /\ RelatesTheHired(org') /\ UNCHANGED <<call, registryVars, recordVars, work>>
  <2>1. /\ call' = call /\ definitions' = definitions /\ stored' = stored
        /\ during' = [c \in Calls |-> IF Waiting(c) THEN during[c] \cup {org'} ELSE during[c]]
        /\ steady' = [c \in Calls |-> steady[c] /\ ~Waiting(c)]
    BY <1>3 DEF OrgMoves, registryVars
  <2> QED
    BY <1>1, <2>1, OthersMove
<1>4. CASE Crash
  <2>1. /\ call' = [c \in Calls |-> IF Waiting(c) THEN [call[c] EXCEPT !.pc = "refused"] ELSE call[c]]
        /\ steady' = steady /\ org' = org /\ during' = during /\ definitions' = definitions /\ stored' = stored
    BY <1>4 DEF Crash, Reads, Proceeds, orgVars, registryVars
  <2> QED
    BY <1>1, <2>1, OthersMove
<1>5. CASE UNCHANGED directoryVars
  BY <1>1, <1>5, OthersMove DEF directoryVars, requestVars, orgVars, registryVars
<1>6. ASSUME NEW c \in Calls, StatementFails(c)
      PROVE  ShowsInv'
  BY <1>6, RefusalKeeps DEF StatementFails, Fail, Quiet
<1> QED
  BY <1>2, <1>3, <1>4, <1>5, <1>6 DEF Surroundings

\* A request that arrives has read nothing.
LEMMA ArrivalKeeps ==
  ASSUME ShowsInv, NEW c \in Calls, At(c, "idle"), Arrives(c), UNCHANGED <<steady, registryVars>>,
         NEW s, Become(c, s), Sees(c, s)'
  PROVE  ShowsInv'
<1>1. /\ DOMAIN call' = Calls /\ call'[c] = s /\ \A d \in Calls \ {c} : call'[d] = call[d]
      /\ DOMAIN during' = Calls /\ during'[c] = {org} /\ \A d \in Calls \ {c} : during'[d] = during[d]
      /\ org' = org /\ steady' = steady /\ definitions' = definitions /\ stored' = stored
  BY DEF ShowsInv, TablesFit, Become, Arrives, registryVars
<1>2. TablesFit'
  BY <1>1 DEF ShowsInv, TablesFit
<1>3. ValuesFit'
  BY <1>1, ValuesStayFit DEF ShowsInv
<1>4. TimesFit'
  BY <1>1 DEF ShowsInv, TimesFit, Waiting
<1>5. ASSUME NEW d \in Calls
      PROVE  Sees(d, call[d])'
  <2>1. CASE d = c
    BY <1>1, <2>1
  <2>2. CASE d # c
    <3>1. Lasts(d)
      BY <1>1, <2>2 DEF Lasts, ShowsInv, TablesFit
    <3>2. PICK t : t = call[d]
      OBVIOUS
    <3>3. Sees(d, t)'
      BY <3>1, <3>2, StillSees DEF ShowsInv, At
    <3> QED
      BY <1>1, <2>2, <3>2, <3>3
  <2> QED
    BY <2>1, <2>2
<1> QED
  BY <1>2, <1>3, <1>4, <1>5 DEF ShowsInv

LEMMA BeginningKeeps ==
  ASSUME ShowsInv, RecordsInv', NEW c \in Calls, Begin(c)
  PROVE  ShowsInv'
<1>1. CASE BeginRegistry(c)
  <2>1. At(c, "idle") /\ Arrives(c) /\ UNCHANGED <<steady, registryVars>>
    BY <1>1 DEF BeginRegistry
  <2>2. CASE BeginDefine(c)
    <3>1. PICK viewer \in Definers, d \in Drafts :
            Become(c, [pc |-> "permit", viewer |-> viewer, draft |-> d, field |-> Null])
      BY <2>2 DEF BeginDefine
    <3>2. PICK s : s = [pc |-> "permit", viewer |-> viewer, draft |-> d, field |-> Null]
      OBVIOUS
    <3>3. DefineState(s)'
      BY <3>2 DEF DefineState
    <3> QED
      BY <2>1, <3>1, <3>2, <3>3, ArrivalKeeps DEF Sees
  <2>3. CASE BeginSet(c)
    <3>1. PICK ask \in SetOrders :
            Become(c, [pc |-> IF ask.route = "fields" THEN "gate" ELSE "writable", viewer |-> ask.viewer,
                       subject |-> ask.subject, field |-> ask.field, value |-> ask.value, answer |-> Null])
      BY <2>3 DEF BeginSet
    <3>2. PICK s : s = [pc |-> IF ask.route = "fields" THEN "gate" ELSE "writable", viewer |-> ask.viewer,
                        subject |-> ask.subject, field |-> ask.field, value |-> ask.value, answer |-> Null]
      OBVIOUS
    <3>3. ask.subject \in Employees /\ (ask.field \in FieldIds \/ (ask.route # "fields" /\ ask.field \in Builtin))
      BY RegistryAssumption
    <3>4. SetState(c, s)'
      BY <3>2, <3>3 DEF SetState
    <3> QED
      BY <2>1, <3>1, <3>2, <3>4, ArrivalKeeps DEF Sees
  <2>4. CASE BeginValues(c)
    <3>1. PICK ask \in Readers :
            Become(c, [pc |-> "wanted", route |-> ask.route, viewer |-> ask.viewer, subject |-> ask.subject,
                       wanted |-> {}, answer |-> Null])
      BY <2>4 DEF BeginValues
    <3>2. PICK s : s = [pc |-> "wanted", route |-> ask.route, viewer |-> ask.viewer, subject |-> ask.subject,
                        wanted |-> {}, answer |-> Null]
      OBVIOUS
    <3>3. ValuesState(c, s)'
      BY <3>2 DEF ValuesState
    <3> QED
      BY <2>1, <3>1, <3>2, <3>3, ArrivalKeeps DEF Sees
  <2> QED
    BY <1>1, <2>2, <2>3, <2>4 DEF BeginRegistry
<1>2. CASE BeginList(c)
  <2>1. At(c, "idle") /\ Arrives(c) /\ UNCHANGED <<steady, registryVars>>
    BY <1>2 DEF BeginList
  <2>2. PICK q \in Queries :
          Become(c, [pc |-> IF q.kind = "export" THEN "columns" ELSE "look",
                  kind |-> q.kind, viewer |-> q.viewer, sort |-> q.sort, order |-> q.order,
                  filters |-> q.filters, columns |-> q.columns,
                  page |-> IF q.kind = "export" THEN 1 ELSE q.page,
                  pageSize |-> IF q.kind = "export" THEN MaxPageSize ELSE q.pageSize,
                  visible |-> {}, audiences |-> NoAudiences, kept |-> FALSE, found |-> NoAudiences,
                  batch |-> <<>>, rows |-> <<>>, total |-> 0, down |-> {}, failed |-> {}])
    BY <1>2 DEF BeginList
  <2>3. PICK s : s = [pc |-> IF q.kind = "export" THEN "columns" ELSE "look",
                  kind |-> q.kind, viewer |-> q.viewer, sort |-> q.sort, order |-> q.order,
                  filters |-> q.filters, columns |-> q.columns,
                  page |-> IF q.kind = "export" THEN 1 ELSE q.page,
                  pageSize |-> IF q.kind = "export" THEN MaxPageSize ELSE q.pageSize,
                  visible |-> {}, audiences |-> NoAudiences, kept |-> FALSE, found |-> NoAudiences,
                  batch |-> <<>>, rows |-> <<>>, total |-> 0, down |-> {}, failed |-> {}]
    OBVIOUS
  <2>4. /\ s.pc \in {"columns", "look"} /\ s.visible = {} /\ s.audiences = NoAudiences /\ s.rows = <<>>
        /\ s.page \in Int /\ s.pageSize \in Int
        /\ DOMAIN s = {"pc", "kind", "viewer", "sort", "order", "filters", "columns", "page", "pageSize", "visible",
                       "audiences", "kept", "found", "batch", "rows", "total", "down", "failed"}
    BY <2>3, ListAssumption
  <2>5. DOMAIN s.audiences = {} /\ DOMAIN s.rows = {} /\ RowsFit(s.rows)
    BY <2>4 DEF NoAudiences, RowsFit
  <2>6. ListState(c, s)'
    BY <2>4, <2>5 DEF ListState, ListStages, RowsFit
  <2>7. Sees(c, s)'
    BY <2>6 DEF Sees
  <2> QED
    BY <2>1, <2>2, <2>3, <2>7, ArrivalKeeps
<1>3. CASE BeginRecord(c) /\ UNCHANGED registryVars
  <2>1. At(c, "idle") /\ Arrives(c) /\ UNCHANGED <<steady, registryVars>>
    BY <1>3 DEF BeginRecord
  <2>2. PICK ask \in Asks :
          Become(c, [pc |-> IF ask.op = "risks" THEN "walk" ELSE "enter", op |-> ask.op, kind |-> ask.kind,
            viewer |-> ask.viewer, subject |-> ask.subject, id |-> ask.id, data |-> ask.data,
            audience |-> NoRecord, found |-> NoRecord, queue |-> <<ask.viewer>>, people |-> {}, answer |-> NoRecord])
    BY <1>3 DEF BeginRecord
  <2>3. PICK s : s = [pc |-> IF ask.op = "risks" THEN "walk" ELSE "enter", op |-> ask.op, kind |-> ask.kind,
            viewer |-> ask.viewer, subject |-> ask.subject, id |-> ask.id, data |-> ask.data,
            audience |-> NoRecord, found |-> NoRecord, queue |-> <<ask.viewer>>, people |-> {}, answer |-> NoRecord]
    OBVIOUS
  <2>4. call'[c] = s /\ "op" \in DOMAIN s /\ s.pc \in {"walk", "enter"}
    BY <2>2, <2>3 DEF Become, ShowsInv, TablesFit
  <2>5. RecordState(s)
    BY <2>4 DEF RecordsInv, CallsFit, Elsewhere
  <2>6. SectionState(c, s)'
    BY <2>4, <2>5 DEF SectionState, RecordState
  <2>7. Sees(c, s)'
    BY <2>6 DEF Sees
  <2> QED
    BY <2>1, <2>2, <2>3, <2>7, ArrivalKeeps
<1> QED
  BY <1>1, <1>2, <1>3 DEF Begin

LEMMA ShowsStepKeeps ==
  ASSUME RecordsInv, RecordsInv', ShowsInv, [Next]_directoryVars
  PROVE  ShowsInv'
<1>1. ASSUME NEW c \in Calls, Serve(c)
      PROVE  ShowsInv'
  BY <1>1, RegistryKeeps, ListsKeep, SectionsKeep DEF Serve
<1> QED
  BY <1>1, BeginningKeeps, InterruptionsKeep DEF Next

LEMMA ShowsBegins ==
  ASSUME Init
  PROVE  ShowsInv
<1>1. \A c \in Calls : call[c] = NotAsked /\ Sees(c, call[c]) /\ ~Waiting(c)
  BY DEF Init, RequestsInit, Sees, Waiting, NotAsked
<1>2. TablesFit
  BY RegistryAssumption DEF Init, RequestsInit, OrgInit, RegistryInit, TablesFit
<1>3. \A k \in Employees \X FieldIds : stored[k] = Null
  BY DEF Init, RegistryInit
<1> QED
  BY <1>1, <1>2, <1>3 DEF ShowsInv, ValuesFit, TimesFit

\* Always: every row a list has so far, every audience it goes on with, every
\* definition whose values are about to be read and every section that is read
\* was open to the viewer in an organisation of the request's own time, and every
\* stored value fits the definition it is read by (maskRowCells,
\* resolveCdsAudienceContext, validateValueForDefinition).
THEOREM ShowsHold == Spec => []ShowsInv
<1>1. Init => ShowsInv
  BY ShowsBegins
<1>2. RecordsInv /\ RecordsInv' /\ ShowsInv /\ [Next]_directoryVars => ShowsInv'
  BY ShowsStepKeeps
<1> QED
  BY <1>1, <1>2, RecordsHold, PTL DEF Spec

\* Neither a list, nor an export, nor the values or a section of an employee show
\* what was closed to the viewer from the beginning of the request to its end,
\* however old the audiences of an export have become and whatever moves in
\* between (maskRowCells, resolveCdsAudienceContext, getCustomFieldValues).
THEOREM NothingHiddenIsEverShown == Spec => []NothingHiddenIsShown
<1>1. ASSUME ShowsInv
      PROVE  NothingHiddenIsShown
  <2>1. \A c \in Calls : Sees(c, call[c])
    BY <1>1 DEF ShowsInv
  <2>2. ListsShowNothingHidden
    <3> SUFFICES ASSUME NEW c \in Calls, At(c, "done"), "rows" \in DOMAIN call[c], NEW i \in DOMAIN call[c].rows
                 PROVE  LET row == call[c].rows[i]
                            seen(id) == \E o \in during[c] : MaySee(o, call[c].viewer, row.employee, id)
                        IN  /\ \A id \in DOMAIN row.cells : row.cells[id] \in {Null, <<"unavailable">>} \/ seen(id)
                            /\ \A f \in call[c].filters : f.field \in ProviderBacked => seen(f.field)
      BY DEF ListsShowNothingHidden
    <3>1. RowIsOpen(c, call[c].viewer, call[c].filters, call[c].rows[i])
      BY <2>1, SeesByKind DEF ListState, ListedState
    <3> QED
      BY <3>1 DEF RowIsOpen, OpenAt
  <2>3. ValuesShowNothingHidden
    <3> SUFFICES ASSUME NEW c \in Calls, At(c, "done"), "wanted" \in DOMAIN call[c], NEW shown \in call[c].answer
                 PROVE  \E o \in during[c] : MaySeeValue(o, call[c].route, call[c].viewer, shown[1], shown[2])
      BY DEF ValuesShowNothingHidden
    <3>1. ValuesState(c, call[c])
      BY <2>1, SeesByKind
    <3> QED
      BY <3>1 DEF ValuesState, At
  <2>4. SectionsShowNothingHidden
    <3>1. ASSUME NEW c \in Calls, "op" \in DOMAIN call[c]
          PROVE  SectionState(c, call[c])
      BY <2>1, <3>1, SeesByKind
    <3> QED
      BY <3>1 DEF SectionsShowNothingHidden, SectionState, At
  <2> QED
    BY <2>2, <2>3, <2>4 DEF NothingHiddenIsShown
<1> QED
  BY <1>1, ShowsHold, PTL

\* Whatever row stands for a value is read as a value that fits the field's
\* definition, and a write that nothing has come between is answered with the
\* value it was given, unless that is a date no calendar has (toStorageColumns,
\* fromStorageRow, validateValueForDefinition).
THEOREM ValuesAreAlwaysKept == Spec => []ValuesAreKept
<1>1. ASSUME ShowsInv
      PROVE  ValuesAreKept
  <2>1. ASSUME NEW c \in Calls, At(c, "done"), "value" \in DOMAIN call[c], steady[c]
        PROVE  \/ call[c].answer = call[c].value
               \/ call[c].field \in FieldIds /\ IsNoDay(definitions[call[c].field], call[c].value)
    <3>1. SetState(c, call[c])
      BY <1>1, <2>1, SeesByKind DEF ShowsInv
    <3> QED
      BY <2>1, <3>1 DEF SetState, At
  <2> QED
    BY <1>1, <2>1 DEF ValuesAreKept, ShowsInv, ValuesFit
<1> QED
  BY <1>1, ShowsHold, PTL

-----------------------------------------------------------------------------
(* Natural numbers, and a line of an organisation step by step.            *)

LEMMA LeastNatural ==
  ASSUME NEW T \in SUBSET Nat, T # {}
  PROVE  \E n \in T : \A m \in T : n <= m
<1> SUFFICES ASSUME \A n \in T : \E m \in T : m < n
             PROVE  FALSE
  OBVIOUS
<1> DEFINE below == {k \in Nat : \A m \in T : k <= m}
           next == [k \in below |-> k + 1]
<1>1. 0 \in below
  OBVIOUS
<1>2. \A k \in below : k + 1 \in below \ {0}
  <2> SUFFICES ASSUME NEW k \in below, NEW m \in T
               PROVE  k < m
    OBVIOUS
  <2>1. PICK l \in T : l < m
    OBVIOUS
  <2> QED
    BY <2>1
<1>3. IsFiniteSet(below)
  <2>1. PICK t \in T : TRUE
    OBVIOUS
  <2>2. below \in SUBSET Nat /\ \A k \in below : k <= t
    OBVIOUS
  <2> QED
    BY <2>2, FS_BoundedSetOfNaturals
<1>4. next \in Injection(below, below \ {0})
  BY <1>2 DEF Injection, IsInjective
<1>5. IsFiniteSet(below \ {0}) /\ Cardinality(below \ {0}) = Cardinality(below) - 1
  BY <1>1, <1>3, FS_RemoveElement
<1>6. Cardinality(below) <= Cardinality(below \ {0})
  BY <1>4, <1>5, FS_Injection
<1>7. Cardinality(below) \in Nat
  BY <1>3, FS_CardinalityType
<1> QED
  BY <1>5, <1>6, <1>7

LEMMA Induction ==
  ASSUME NEW T \in SUBSET Nat, 0 \in T, \A n \in T : n + 1 \in T
  PROVE  T = Nat
<1> SUFFICES ASSUME Nat \ T # {}
             PROVE  FALSE
  OBVIOUS
<1>1. PICK n \in Nat \ T : \A m \in Nat \ T : n <= m
  BY LeastNatural
<1>2. n - 1 \in Nat /\ n - 1 \in T
  BY <1>1
<1> QED
  BY <1>1, <1>2

\* Up to the n-th manager above somebody.
IsLine(o, e, up, n) ==
  up = [k \in 0..n |-> IF k = 0 THEN e ELSE IF up[k - 1] = Nobody THEN Nobody ELSE o.manager[up[k - 1]]]
Managed(o) == o.manager \in [Employees -> Employees \cup {Nobody}]
Bounded == Nobody \notin Employees /\ IsFiniteSet(Employees) /\ Cardinality(Employees) \in Nat

LEMMA LineGoesUp ==
  ASSUME NEW o, NEW e, NEW n \in Nat
  PROVE  \E up : IsLine(o, e, up, n)
<1> DEFINE T == {k \in Nat : \E up : IsLine(o, e, up, k)}
<1>1. 0 \in T
  <2>1. IsLine(o, e, [k \in 0..0 |-> e], 0)
    BY DEF IsLine
  <2> QED
    BY <2>1
<1>2. ASSUME NEW k \in T
      PROVE  k + 1 \in T
  <2>1. PICK up : IsLine(o, e, up, k)
    BY <1>2
  <2>2. PICK above : above = [m \in 0..(k + 1) |-> IF m = k + 1 THEN IF up[k] = Nobody THEN Nobody ELSE o.manager[up[k]]
                                                   ELSE up[m]]
    OBVIOUS
  <2>3. \A m \in 0..(k + 1) :
          above[m] = IF m = 0 THEN e ELSE IF above[m - 1] = Nobody THEN Nobody ELSE o.manager[above[m - 1]]
    <3> SUFFICES ASSUME NEW m \in 0..(k + 1)
                 PROVE  above[m] = IF m = 0 THEN e ELSE IF above[m - 1] = Nobody THEN Nobody ELSE o.manager[above[m - 1]]
      OBVIOUS
    <3>1. CASE m = k + 1
      <4>1. above[m] = IF up[k] = Nobody THEN Nobody ELSE o.manager[up[k]]
        BY <2>2, <3>1
      <4>2. above[m - 1] = up[k] /\ m # 0
        BY <2>2, <3>1
      <4> QED
        BY <4>1, <4>2
    <3>2. CASE m \in 0..k
      <4>1. above[m] = up[m] /\ (m # 0 => above[m - 1] = up[m - 1])
        BY <2>2, <3>2
      <4>2. up[m] = IF m = 0 THEN e ELSE IF up[m - 1] = Nobody THEN Nobody ELSE o.manager[up[m - 1]]
        BY <2>1, <3>2 DEF IsLine
      <4> QED
        BY <4>1, <4>2
    <3> QED
      BY <3>1, <3>2
  <2>4. IsLine(o, e, above, k + 1)
    BY <2>2, <2>3 DEF IsLine
  <2> QED
    BY <2>4
<1>3. T = Nat
  BY <1>1, <1>2, Induction
<1> QED
  BY <1>3

LEMMA AboveIsALine ==
  ASSUME Bounded, NEW o, NEW e
  PROVE  \E up : IsLine(o, e, up, Cardinality(Employees))
                 /\ Above(o, e) = {up[n] : n \in 0..Cardinality(Employees)} \ {Nobody}
<1> DEFINE n == Cardinality(Employees)
           line == CHOOSE up : IsLine(o, e, up, n)
<1>1. IsLine(o, e, line, n)
  BY LineGoesUp DEF Bounded
<1>2. Above(o, e) = {line[k] : k \in 0..n} \ {Nobody}
  BY DEF Above, IsLine
<1> QED
  BY <1>1, <1>2

\* Nobody has no manager, and the managers are employees.
LEMMA LineOfEmployees ==
  ASSUME NEW o, Managed(o), NEW e \in Employees, NEW n \in Nat, NEW up, IsLine(o, e, up, n)
  PROVE  \A k \in 0..n : up[k] \in Employees \cup {Nobody}
<1> DEFINE T == {k \in Nat : k <= n => up[k] \in Employees \cup {Nobody}}
<1>1. 0 \in T
  BY DEF IsLine
<1>2. ASSUME NEW k \in T
      PROVE  k + 1 \in T
  <2>1. SUFFICES ASSUME k + 1 <= n
                 PROVE  up[k + 1] \in Employees \cup {Nobody}
    OBVIOUS
  <2>2. up[k] \in Employees \cup {Nobody}
    BY <1>2, <2>1
  <2>3. up[k + 1] = IF up[k] = Nobody THEN Nobody ELSE o.manager[up[k]]
    BY <2>1 DEF IsLine
  <2> QED
    BY <2>2, <2>3 DEF Managed
<1>3. T = Nat
  BY <1>1, <1>2, Induction
<1> QED
  BY <1>3

\* Who is above somebody, themself included.
LEMMA OneIsAboveOneself ==
  ASSUME Bounded, NEW o, NEW e \in Employees
  PROVE  e \in Above(o, e)
<1>1. PICK up : IsLine(o, e, up, Cardinality(Employees))
                /\ Above(o, e) = {up[n] : n \in 0..Cardinality(Employees)} \ {Nobody}
  BY AboveIsALine
<1>2. up[0] = e /\ 0 \in 0..Cardinality(Employees)
  BY <1>1 DEF IsLine, Bounded
<1> QED
  BY <1>1, <1>2 DEF Bounded

\* A line that goes past a node twice goes round: what is as many steps after the
\* second time is what was after the first.
LEMMA LinesGoRound ==
  ASSUME NEW o, NEW e, NEW n \in Nat, NEW up, IsLine(o, e, up, n),
         NEW i \in 0..n, NEW j \in 0..n, up[i] = up[j]
  PROVE  \A k \in Nat : i + k <= n /\ j + k <= n => up[i + k] = up[j + k]
<1> DEFINE T == {k \in Nat : i + k <= n /\ j + k <= n => up[i + k] = up[j + k]}
<1>1. 0 \in T
  OBVIOUS
<1>2. ASSUME NEW k \in T
      PROVE  k + 1 \in T
  <2>1. SUFFICES ASSUME i + k + 1 <= n, j + k + 1 <= n
                 PROVE  up[i + k + 1] = up[j + k + 1]
    OBVIOUS
  <2>2. up[i + k] = up[j + k]
    BY <1>2, <2>1
  <2>3. \A m \in 0..n : m # 0 => up[m] = IF up[m - 1] = Nobody THEN Nobody ELSE o.manager[up[m - 1]]
    BY DEF IsLine
  <2>4. /\ up[i + k + 1] = IF up[i + k] = Nobody THEN Nobody ELSE o.manager[up[i + k]]
        /\ up[j + k + 1] = IF up[j + k] = Nobody THEN Nobody ELSE o.manager[up[j + k]]
    BY <2>1, <2>3
  <2> QED
    BY <2>2, <2>4
<1>3. T = Nat
  BY <1>1, <1>2, Induction
<1> QED
  BY <1>3

\* Whoever is met on a line is met before its last step.
LEMMA MetBeforeTheEnd ==
  ASSUME Bounded, NEW o, Managed(o), NEW e \in Employees, NEW up, IsLine(o, e, up, Cardinality(Employees)),
         NEW v \in Employees, NEW m \in 0..Cardinality(Employees), up[m] = v
  PROVE  \E k \in 0..(Cardinality(Employees) - 1) : up[k] = v
<1> DEFINE n == Cardinality(Employees)
           T == {k \in 0..n : up[k] = v}
<1>0. n \in Nat /\ T \in SUBSET Nat /\ T # {}
  BY DEF Bounded
<1>1. PICK first \in T : \A k \in T : first <= k
  BY <1>0, LeastNatural
<1> SUFFICES ASSUME first = n
             PROVE  FALSE
  BY <1>1 DEF Bounded
<1>2. n \in Nat /\ up[n] = v /\ \A k \in 0..n : k < n => up[k] # v
  BY <1>1 DEF Bounded
<1>3. \A k \in 0..n : up[k] \in Employees
  <2> DEFINE S == {k \in Nat : k <= n => up[n - k] \in Employees}
  <2>1. 0 \in S
    BY <1>2
  <2>2. ASSUME NEW k \in S
        PROVE  k + 1 \in S
    <3>1. SUFFICES ASSUME k + 1 <= n
                   PROVE  up[n - (k + 1)] \in Employees
      OBVIOUS
    <3>2. up[n - k] \in Employees /\ n - k \in 0..n /\ n - k # 0 /\ (n - k) - 1 = n - (k + 1) /\ n - (k + 1) \in 0..n
      BY <1>2, <2>2, <3>1
    <3>3. up[n - k] = IF up[(n - k) - 1] = Nobody THEN Nobody ELSE o.manager[up[(n - k) - 1]]
      BY <3>2 DEF IsLine
    <3>4. up[n - (k + 1)] \in Employees \cup {Nobody}
      BY <1>2, <3>2, LineOfEmployees
    <3> QED
      BY <3>2, <3>3, <3>4 DEF Bounded
  <2>3. S = Nat
    BY <2>1, <2>2, Induction
  <2> SUFFICES ASSUME NEW k \in 0..n
               PROVE  up[k] \in Employees
    OBVIOUS
  <2>4. n - k \in S /\ n - (n - k) = k /\ n - k <= n
    BY <1>2, <2>3
  <2> QED
    BY <2>4
<1>4. PICK i \in 0..n, j \in 0..n : i < j /\ up[i] = up[j]
  <2>1. up \in [0..n -> Employees]
    BY <1>3 DEF IsLine
  <2>2. IsFiniteSet(0..n) /\ Cardinality(0..n) = n + 1
    BY <1>2, FS_Interval
  <2>3. PICK x \in 0..n, y \in 0..n : x # y /\ up[x] = up[y]
    BY <1>2, <2>1, <2>2, FS_PigeonHole DEF Bounded
  <2>4. x < y \/ y < x
    BY <1>2, <2>3
  <2> QED
    BY <2>3, <2>4
<1>5. n - j \in Nat /\ i + (n - j) <= n /\ j + (n - j) = n /\ i + (n - j) < n /\ i + (n - j) \in 0..n
  BY <1>2, <1>4
<1>6. up[i + (n - j)] = up[n]
  <2>1. \A k \in Nat : i + k <= n /\ j + k <= n => up[i + k] = up[j + k]
    BY <1>2, <1>4, LinesGoRound
  <2> QED
    BY <1>5, <2>1
<1> QED
  BY <1>2, <1>5, <1>6

-----------------------------------------------------------------------------
(* Going down the lines and going up them.                                 *)

\* Whoever is above a manager is above the manager's reports.
LEMMA ReportsAreBelow ==
  ASSUME Bounded, NEW o, Managed(o), NEW x \in Employees, NEW v \in Employees, v \in Above(o, x), NEW e \in Reports(o, x)
  PROVE  v \in Above(o, e)
<1> DEFINE n == Cardinality(Employees)
<1>1. e \in Employees /\ o.manager[e] = x /\ n \in Nat
  BY DEF Reports, Bounded
<1>2. PICK up : IsLine(o, x, up, n) /\ Above(o, x) = {up[k] : k \in 0..n} \ {Nobody}
  BY AboveIsALine
<1>3. PICK below : IsLine(o, e, below, n) /\ Above(o, e) = {below[k] : k \in 0..n} \ {Nobody}
  BY AboveIsALine
<1>4. PICK m \in 0..n : up[m] = v
  BY <1>2
<1>5. PICK k \in 0..(n - 1) : up[k] = v
  BY <1>2, <1>4, MetBeforeTheEnd
<1> DEFINE T == {i \in Nat : i + 1 <= n => below[i + 1] = up[i]}
<1>6. \A i \in 0..n : /\ up[i] = IF i = 0 THEN x ELSE IF up[i - 1] = Nobody THEN Nobody ELSE o.manager[up[i - 1]]
                      /\ below[i] = IF i = 0 THEN e ELSE IF below[i - 1] = Nobody THEN Nobody ELSE o.manager[below[i - 1]]
  BY <1>2, <1>3 DEF IsLine
<1>7. 0 \in T
  <2>1. SUFFICES ASSUME 1 <= n
                 PROVE  below[1] = up[0]
    OBVIOUS
  <2>2. up[0] = x /\ below[0] = e
    BY <1>1, <1>6
  <2>3. below[1] = IF below[0] = Nobody THEN Nobody ELSE o.manager[below[0]]
    BY <1>1, <1>6, <2>1
  <2> QED
    BY <1>1, <2>2, <2>3 DEF Bounded
<1>8. ASSUME NEW i \in T
      PROVE  i + 1 \in T
  <2>1. SUFFICES ASSUME i + 1 + 1 <= n
                 PROVE  below[i + 1 + 1] = up[i + 1]
    OBVIOUS
  <2>2. below[i + 1] = up[i] /\ i + 1 + 1 \in 0..n /\ i + 1 \in 0..n
    BY <1>1, <1>8, <2>1
  <2>3. /\ below[i + 1 + 1] = IF below[i + 1] = Nobody THEN Nobody ELSE o.manager[below[i + 1]]
        /\ up[i + 1] = IF up[i] = Nobody THEN Nobody ELSE o.manager[up[i]]
    BY <1>6, <2>2
  <2> QED
    BY <2>2, <2>3
<1>9. T = Nat
  BY <1>7, <1>8, Induction
<1>10. below[k + 1] = v /\ k + 1 \in 0..n
  BY <1>1, <1>5, <1>9
<1> QED
  BY <1>3, <1>10 DEF Bounded

\* Whoever is below somebody is in every set that has them and, with anybody, the
\* reports.
LEMMA ReportsAreAll ==
  ASSUME Bounded, NEW o, Managed(o), NEW v \in Employees, NEW people \in SUBSET Employees, v \in people,
         \A x \in people : Reports(o, x) \subseteq people, NEW e \in Employees, v \in Above(o, e)
  PROVE  e \in people
<1> DEFINE n == Cardinality(Employees)
<1>1. n \in Nat
  BY DEF Bounded
<1>2. PICK up : IsLine(o, e, up, n) /\ Above(o, e) = {up[k] : k \in 0..n} \ {Nobody}
  BY AboveIsALine
<1>3. PICK m \in 0..n : up[m] = v
  BY <1>2
<1> DEFINE T == {k \in Nat : k <= m => up[m - k] \in people}
<1>4. 0 \in T
  BY <1>1, <1>3
<1>5. ASSUME NEW k \in T
      PROVE  k + 1 \in T
  <2>1. SUFFICES ASSUME k + 1 <= m
                 PROVE  up[m - (k + 1)] \in people
    OBVIOUS
  <2>2. up[m - k] \in people /\ m - k \in 0..n /\ m - k # 0 /\ (m - k) - 1 = m - (k + 1) /\ m - (k + 1) \in 0..n
    BY <1>1, <1>5, <2>1
  <2>3. up[m - k] = IF up[(m - k) - 1] = Nobody THEN Nobody ELSE o.manager[up[(m - k) - 1]]
    BY <1>2, <2>2 DEF IsLine
  <2>4. up[m - (k + 1)] \in Employees \cup {Nobody}
    BY <1>1, <1>2, <2>2, LineOfEmployees
  <2>5. up[m - (k + 1)] \in Reports(o, up[m - k])
    BY <2>2, <2>3, <2>4 DEF Bounded, Reports
  <2> QED
    BY <2>2, <2>5
<1>6. T = Nat
  BY <1>4, <1>5, Induction
<1>7. m \in T /\ m - m = 0
  BY <1>1, <1>6
<1> QED
  BY <1>1, <1>2, <1>7 DEF IsLine

\* A set put into a sequence.
LEMMA InASequence ==
  ASSUME NEW S, IsFiniteSet(S)
  PROVE  /\ SetToSeq(S) \in Seq(S)
         /\ {SetToSeq(S)[i] : i \in DOMAIN SetToSeq(S)} = S
<1> DEFINE n == Cardinality(S)
<1>1. n \in Nat /\ ExistsBijection(1..n, S)
  BY FS_CardinalityType
<1>2. PICK f : f \in Bijection(1..n, S)
  BY <1>1 DEF ExistsBijection
<1>3. f \in [1..n -> S] /\ IsInjective(f)
  BY <1>2 DEF Bijection, Injection
<1>4. SetToSeq(S) = CHOOSE g \in [1..n -> S] : IsInjective(g)
  BY DEF SetToSeq
<1>5. SetToSeq(S) \in [1..n -> S] /\ IsInjective(SetToSeq(S))
  BY <1>3, <1>4
<1>6. PICK g : g = SetToSeq(S)
  OBVIOUS
<1>7. g \in Injection(1..n, S)
  BY <1>5, <1>6 DEF Injection
<1>8. Cardinality(1..n) = n
  BY <1>1, FS_Interval
<1>9. g \in Surjection(1..n, S)
  BY <1>7, <1>8, FS_Injection
<1>10. {g[i] : i \in 1..n} = S
  BY <1>9 DEF Surjection
<1> QED
  BY <1>1, <1>5, <1>6, <1>10, SeqDef

-----------------------------------------------------------------------------
(* What the levels of an audience are worth.                               *)

Levels == {"none", "R", "RW"}
Grants == {ReportingLineSections, PpSections, FullAccessSections, ProjectLineSections,
           [ProjectLineSections EXCEPT !["S7"] = "RW"]}

LEMMA GrantsFit ==
  ASSUME NEW m \in Grants
  PROVE  m \in [Sections -> Levels] /\ m["S6"] # "none"
BY DEF Grants, ReportingLineSections, PpSections, FullAccessSections, ProjectLineSections, Granting, Sections, Levels

\* The union of grants is, section by section, the highest of them.
LEMMA UnionIsHighest ==
  ASSUME NEW maps \in SUBSET Grants, NEW s \in Sections, NEW m \in maps
  PROVE  UnionOf(maps)[s] \in Levels /\ MaxLevel(UnionOf(maps)[s], m[s]) = UnionOf(maps)[s]
<1> DEFINE all == maps \cup {ColleagueSections}
           Highest(level) == \A k \in all : MaxLevel(level, k[s]) = level
<1>1. \A k \in all : k[s] \in Levels
  BY GrantsFit DEF ColleagueSections, Granting, Levels
<1>2. UnionOf(maps)[s] = CHOOSE level \in {k[s] : k \in all} : Highest(level)
  BY DEF UnionOf
<1>3. \E level \in {k[s] : k \in all} : Highest(level)
  <2>1. CASE \E k \in all : k[s] = "RW"
    <3>1. Highest("RW")
      BY <1>1 DEF MaxLevel, Rank, Levels
    <3> QED
      BY <2>1, <3>1
  <2>2. CASE (\A k \in all : k[s] # "RW") /\ \E k \in all : k[s] = "R"
    <3>1. Highest("R")
      BY <1>1, <2>2 DEF MaxLevel, Rank, Levels
    <3> QED
      BY <2>2, <3>1
  <2>3. CASE \A k \in all : k[s] = "none"
    <3>1. Highest("none")
      BY <2>3 DEF MaxLevel, Rank
    <3> QED
      BY <2>3, <3>1
  <2> QED
    BY <1>1, <2>1, <2>2, <2>3 DEF Levels
<1> HIDE DEF Highest
<1>4. UnionOf(maps)[s] \in {k[s] : k \in all} /\ Highest(UnionOf(maps)[s])
  BY <1>2, <1>3
<1> QED
  BY <1>1, <1>4 DEF Highest

LEMMA MatchesFit ==
  ASSUME NEW o, NEW v, NEW e, NEW m \in Matched(o, v, e)
  PROVE  /\ m.sections \in Grants
         /\ m.role \in {"ReportingLine", "PP", "FullAccess", "ProjectLine"}
         /\ m.role # "ProjectLine" => m.sections["S7"] = "RW"
<1>1. CASE m \in ProjectLine(o, v, e)
  BY <1>1 DEF ProjectLine, Grants
<1>2. CASE m \in {[role |-> "ReportingLine", sections |-> ReportingLineSections],
                  [role |-> "PP", sections |-> PpSections],
                  [role |-> "FullAccess", sections |-> FullAccessSections]}
  BY <1>2 DEF Grants, ReportingLineSections, PpSections, FullAccessSections, Granting, Sections
<1> QED
  BY <1>1, <1>2 DEF Matched

\* Up to the n-th manager above a people partner, as long as the department is HR.
IsHrLine(o, pp, up, n) ==
  up = [k \in 0..n |-> IF k = 0 THEN pp
                       ELSE IF up[k - 1] = Nobody \/ o.manager[up[k - 1]] \notin o.hr THEN Nobody
                       ELSE o.manager[up[k - 1]]]

LEMMA HrLineGoesUp ==
  ASSUME NEW o, NEW pp, NEW n \in Nat
  PROVE  \E up : IsHrLine(o, pp, up, n)
<1> DEFINE T == {k \in Nat : \E up : IsHrLine(o, pp, up, k)}
<1>1. 0 \in T
  <2>1. IsHrLine(o, pp, [k \in 0..0 |-> pp], 0)
    BY DEF IsHrLine
  <2> QED
    BY <2>1
<1>2. ASSUME NEW k \in T
      PROVE  k + 1 \in T
  <2>1. PICK up : IsHrLine(o, pp, up, k)
    BY <1>2
  <2>2. PICK next : next = IF up[k] = Nobody \/ o.manager[up[k]] \notin o.hr THEN Nobody ELSE o.manager[up[k]]
    OBVIOUS
  <2>3. PICK above : above = [m \in 0..(k + 1) |-> IF m = k + 1 THEN next ELSE up[m]]
    OBVIOUS
  <2>4. \A m \in 0..(k + 1) :
          above[m] = IF m = 0 THEN pp
                     ELSE IF above[m - 1] = Nobody \/ o.manager[above[m - 1]] \notin o.hr THEN Nobody
                     ELSE o.manager[above[m - 1]]
    <3> SUFFICES ASSUME NEW m \in 0..(k + 1)
                 PROVE  above[m] = IF m = 0 THEN pp
                                   ELSE IF above[m - 1] = Nobody \/ o.manager[above[m - 1]] \notin o.hr THEN Nobody
                                   ELSE o.manager[above[m - 1]]
      OBVIOUS
    <3>1. CASE m = k + 1
      <4>1. above[m] = next /\ above[m - 1] = up[k] /\ m # 0
        BY <2>3, <3>1
      <4> QED
        BY <2>2, <4>1
    <3>2. CASE m \in 0..k
      <4>1. above[m] = up[m] /\ (m # 0 => above[m - 1] = up[m - 1])
        BY <2>3, <3>2
      <4>2. up[m] = IF m = 0 THEN pp
                    ELSE IF up[m - 1] = Nobody \/ o.manager[up[m - 1]] \notin o.hr THEN Nobody ELSE o.manager[up[m - 1]]
        BY <2>1, <3>2 DEF IsHrLine
      <4> QED
        BY <4>1, <4>2
    <3> QED
      BY <3>1, <3>2
  <2>5. IsHrLine(o, pp, above, k + 1)
    BY <2>3, <2>4 DEF IsHrLine
  <2> QED
    BY <2>5
<1>3. T = Nat
  BY <1>1, <1>2, Induction
<1> QED
  BY <1>3

LEMMA PartnersAreInTheirLine ==
  ASSUME Bounded, NEW o, NEW v \in Employees
  PROVE  InHrLine(o, v, v)
<1> DEFINE n == Cardinality(Employees)
           line == CHOOSE up : IsHrLine(o, v, up, n)
<1>1. IsHrLine(o, v, line, n)
  BY HrLineGoesUp DEF Bounded
<1>2. line[0] = v /\ 0 \in 0..n
  <2>1. \A up : IsHrLine(o, v, up, n) => up[0] = v
    BY DEF IsHrLine, Bounded
  <2> HIDE DEF line
  <2> QED
    BY <1>1, <2>1 DEF Bounded
<1>3. InHrLine(o, v, v) <=> (v # Nobody /\ v \in {line[k] : k \in 0..n})
  BY DEF InHrLine, IsHrLine
<1> QED
  BY <1>2, <1>3 DEF Bounded

LEMMA AudienceOfMatches ==
  ASSUME NEW o, NEW v, NEW e, v # e, NEW s \in Sections, Matched(o, v, e) # {}
  PROVE  /\ AudienceOf(o, v, e).sections[s] \in Levels
         /\ \A m \in Matched(o, v, e) :
              MaxLevel(AudienceOf(o, v, e).sections[s], m.sections[s]) = AudienceOf(o, v, e).sections[s]
<1> DEFINE maps == {m.sections : m \in Matched(o, v, e)}
<1>1. maps \in SUBSET Grants
  BY MatchesFit
<1>2. AudienceOf(o, v, e).sections = UnionOf(maps)
  BY DEF AudienceOf
<1> HIDE DEF maps
<1>3. \A k \in maps : UnionOf(maps)[s] \in Levels /\ MaxLevel(UnionOf(maps)[s], k[s]) = UnionOf(maps)[s]
  BY <1>1, UnionIsHighest
<1> USE DEF maps
<1>4. PICK first \in Matched(o, v, e) : TRUE
  OBVIOUS
<1> QED
  BY <1>2, <1>3, <1>4

\* The gate opens the risks of those the viewer has by a line, as the partner or
\* on a project.
LEMMA RisksAreOpen ==
  ASSUME Bounded, NEW o, NEW v \in Employees, NEW e \in Employees, HasRisksOf(o, v, e)
  PROVE  AudienceOf(o, v, e).sections["S6"] # "none"
<1>1. PICK matched : matched = Matched(o, v, e)
  OBVIOUS
<1>2. matched # {}
  <2>1. CASE InReportingLine(o, v, e)
    <3>1. [role |-> "ReportingLine", sections |-> ReportingLineSections] \in Matched(o, v, e)
      BY <2>1 DEF Matched
    <3> QED
      BY <1>1, <3>1
  <2>2. CASE o.partner[e] = v
    <3>1. InHrLine(o, v, o.partner[e])
      BY <2>2, PartnersAreInTheirLine
    <3>2. [role |-> "PP", sections |-> PpSections] \in Matched(o, v, e)
      BY <3>1 DEF Matched
    <3> QED
      BY <1>1, <3>2
  <2>3. CASE ProjectLine(o, v, e) # {}
    BY <1>1, <2>3 DEF Matched
  <2> QED
    BY <2>1, <2>2, <2>3 DEF HasRisksOf
<1>3. PICK m \in Matched(o, v, e) : TRUE
  BY <1>1, <1>2
<1>4. m.sections["S6"] \in {"R", "RW"}
  <2>1. m.sections \in Grants
    BY MatchesFit
  <2> QED
    BY <2>1, GrantsFit DEF Levels, Sections
<1>5. AudienceOf(o, v, e).sections["S6"] \in Levels
      /\ MaxLevel(AudienceOf(o, v, e).sections["S6"], m.sections["S6"]) = AudienceOf(o, v, e).sections["S6"]
  BY <1>1, <1>2, AudienceOfMatches DEF HasRisksOf, Sections
<1> QED
  BY <1>4, <1>5 DEF MaxLevel, Rank

\* A reader whom the gate of the notes lets in finds a form made for them.
LEMMA NotesAreSupported ==
  ASSUME NEW o, NEW v, NEW e, AudienceOf(o, v, e).sections["S7"] # "none"
  PROVE  Supported(AudienceOf(o, v, e), "note")
<1>1. CASE v = e
  BY <1>1 DEF AudienceOf, Supported
<1>2. CASE v # e /\ Matched(o, v, e) = {}
  BY <1>2 DEF AudienceOf, ColleagueSections, Granting, Sections
<1>3. CASE v # e /\ Matched(o, v, e) # {}
  <2>1. CASE \E m \in Matched(o, v, e) : m.role # "ProjectLine"
    <3>1. PICK m \in Matched(o, v, e) : m.role # "ProjectLine"
      BY <2>1
    <3>2. m.sections["S7"] = "RW"
      BY <3>1, MatchesFit
    <3>3. AudienceOf(o, v, e).sections["S7"] \in Levels
          /\ MaxLevel(AudienceOf(o, v, e).sections["S7"], m.sections["S7"]) = AudienceOf(o, v, e).sections["S7"]
      BY <1>3, AudienceOfMatches DEF Sections
    <3> QED
      BY <3>2, <3>3 DEF MaxLevel, Rank, Levels, Supported
  <2>2. CASE \A m \in Matched(o, v, e) : m.role = "ProjectLine"
    <3> DEFINE Highest(m) == \A k \in Matched(o, v, e) : RoleRank(m.role) >= RoleRank(k.role)
    <3>1. \E m \in Matched(o, v, e) : Highest(m)
      BY <1>3, <2>2 DEF RoleRank
    <3>2. (CHOOSE m \in Matched(o, v, e) : Highest(m)) \in Matched(o, v, e)
      BY <3>1
    <3>3. AudienceOf(o, v, e).role = (CHOOSE m \in Matched(o, v, e) : Highest(m)).role
      BY <1>3 DEF AudienceOf
    <3> QED
      BY <2>2, <3>2, <3>3 DEF Supported
  <2> QED
    BY <2>1, <2>2
<1> QED
  BY <1>1, <1>2, <1>3

-----------------------------------------------------------------------------
(* What a request about records that nothing has come between has found.   *)

Looking == {"enter", "read", "portrait", "find", "write", "judge", "open", "walk", "partnered", "staffed", "latest"}

\* On the way down the lines everybody in the queue or among the people is below the
\* viewer, and whoever is in the queue no more has no report outside.
Follows(o, s) ==
  /\ s.queue \in Seq(Employees) /\ s.people \subseteq Employees \ {s.viewer}
  /\ \A i \in DOMAIN s.queue : s.viewer \in Above(o, s.queue[i])
  /\ \A x \in s.people : s.viewer \in Above(o, x)
  /\ \A x \in s.people \cup {s.viewer} :
       (\E i \in DOMAIN s.queue : s.queue[i] = x) \/ Reports(o, x) \subseteq s.people \cup {s.viewer}

Below(o, v) == {e \in Employees \ {v} : v \in Above(o, e)}
Partnered(o, v) == {e \in Employees \ {v} : o.partner[e] = v}

WalkIsExact(o, s) ==
  /\ s.pc = "walk" => Follows(o, s) /\ s.queue # <<>>
  /\ s.pc = "partnered" => s.people = Below(o, s.viewer)
  /\ s.pc = "staffed" => s.people = Below(o, s.viewer) \cup Partnered(o, s.viewer)
  /\ s.pc = "latest" => s.people = {e \in Employees : HasRisksOf(o, s.viewer, e)}

\* What a request has read is still so, as long as nothing has come between; the
\* notes' reader is known to be one there is a form for in any case.
Undisturbed(c, s) ==
  /\ s.pc \in Looking => s.viewer \in Employees
  /\ s.pc = "read" => Supported(s.audience, s.kind)
  /\ steady[c] =>
       /\ s.pc = "write" /\ s.kind = "contact" /\ Kept(s.id) => ContactFits(Over(s.data, records[s.id].data))
       /\ s.pc \in {"find", "judge", "open"} /\ s.op = "download" =>
            AudienceOf(org, s.viewer, s.subject).sections["S5"] # "none"
       /\ s.pc = "open" /\ s.op = "download" => DocumentVisible(AudienceOf(org, s.viewer, s.subject), s.found)
       /\ WalkIsExact(org, s)

\* The inductive invariant behind UndisturbedRecordIsExact.
ExactInv == org \in OrgTables /\ \A c \in Calls : Undisturbed(c, call[c])

LEMMA Sizes ==
  /\ Bounded
  /\ \A o \in OrgTables : Managed(o)
BY OrgAssumption, ListAssumption, FS_CardinalityType DEF Bounded, Managed

LEMMA WalksDown ==
  ASSUME Bounded, NEW o, Managed(o), NEW s, Follows(o, s), s.queue # <<>>, s.viewer \in Employees,
         NEW t, t.viewer = s.viewer, t.queue = Tail(s.queue) \o SetToSeq(Reports(o, Head(s.queue))),
         t.people = s.people \cup (Reports(o, Head(s.queue)) \ {s.viewer})
  PROVE  Follows(o, t) /\ (t.queue = <<>> => t.people = Below(o, s.viewer))
<1>1. PICK x : x = Head(s.queue)
  OBVIOUS
<1>2. PICK new : new = SetToSeq(Reports(o, x))
  OBVIOUS
<1>3. Reports(o, x) \in SUBSET Employees /\ IsFiniteSet(Reports(o, x))
  BY FS_Subset DEF Reports, Bounded
<1>4. new \in Seq(Reports(o, x)) /\ {new[i] : i \in DOMAIN new} = Reports(o, x)
  BY <1>2, <1>3, InASequence
<1>5. new \in Seq(Employees)
  BY <1>3, <1>4, SeqDef
<1>6. /\ s.queue \in Seq(Employees) /\ Len(s.queue) \in Nat /\ Len(s.queue) >= 1 /\ x = s.queue[1] /\ x \in Employees
      /\ Tail(s.queue) \in Seq(Employees) /\ Len(Tail(s.queue)) = Len(s.queue) - 1
      /\ \A i \in 1..(Len(s.queue) - 1) : Tail(s.queue)[i] = s.queue[i + 1]
  BY <1>1 DEF Follows
<1>7. PICK rest : rest = Tail(s.queue)
  OBVIOUS
<1>8. PICK k \in Nat, n \in Nat : k = Len(rest) /\ n = Len(new)
  BY <1>5, <1>6, <1>7, LenProperties
<1>9. /\ DOMAIN new = 1..n /\ DOMAIN s.queue = 1..(k + 1) /\ DOMAIN t.queue = 1..(k + n) /\ t.queue \in Seq(Employees)
      /\ \A i \in 1..(k + n) : t.queue[i] = IF i <= k THEN rest[i] ELSE new[i - k]
      /\ \A i \in 1..k : rest[i] = s.queue[i + 1]
  <2>1. PICK joined : joined = rest \o new
    OBVIOUS
  <2>2. rest \in Seq(Employees) /\ t.queue = joined
    BY <1>1, <1>2, <1>6, <1>7, <2>1
  <2>3. /\ joined \in Seq(Employees) /\ Len(joined) = k + n
        /\ \A i \in 1..(k + n) : joined[i] = IF i <= k THEN rest[i] ELSE new[i - k]
    BY <1>5, <1>8, <2>1, <2>2, ConcatProperties
  <2>4. DOMAIN joined = 1..(k + n) /\ DOMAIN new = 1..n /\ DOMAIN s.queue = 1..Len(s.queue)
    BY <1>5, <1>6, <1>8, <2>3, LenProperties
  <2>5. Len(s.queue) = k + 1 /\ \A i \in 1..k : rest[i] = s.queue[i + 1]
    BY <1>6, <1>7, <1>8
  <2> QED
    BY <2>2, <2>3, <2>4, <2>5
<1>10. \A y \in Reports(o, x) : s.viewer \in Above(o, y)
  <2>1. s.viewer \in Above(o, x)
    BY <1>6 DEF Follows
  <2> QED
    BY <1>6, <2>1, ReportsAreBelow
<1>11. \A i \in DOMAIN t.queue : s.viewer \in Above(o, t.queue[i])
  <2> SUFFICES ASSUME NEW i \in 1..(k + n)
               PROVE  s.viewer \in Above(o, t.queue[i])
    BY <1>9
  <2>1. CASE i <= k
    <3>1. i \in 1..k /\ i + 1 \in 1..(k + 1)
      BY <1>8, <2>1
    <3>2. t.queue[i] = rest[i] /\ rest[i] = s.queue[i + 1] /\ i + 1 \in DOMAIN s.queue
      <4>1. t.queue[i] = rest[i]
        BY <1>9, <2>1
      <4>2. rest[i] = s.queue[i + 1] /\ i + 1 \in DOMAIN s.queue
        BY <1>9, <3>1
      <4> QED
        BY <4>1, <4>2
    <3> QED
      BY <3>2 DEF Follows
  <2>2. CASE i > k
    <3>1. i - k \in 1..n /\ ~(i <= k)
      BY <1>8, <2>2
    <3>2. t.queue[i] = new[i - k]
      BY <1>9, <3>1
    <3>3. i - k \in DOMAIN new
      BY <1>9, <3>1
    <3> QED
      BY <1>4, <1>10, <3>2, <3>3
  <2>3. i <= k \/ i > k
    BY <1>8
  <2> QED
    BY <2>1, <2>2, <2>3
<1>12. t.people \subseteq Employees \ {s.viewer} /\ t.people \cup {s.viewer} = s.people \cup {s.viewer} \cup Reports(o, x)
  BY <1>1, <1>3 DEF Follows
<1>13. \A y \in t.people : s.viewer \in Above(o, y)
  BY <1>1, <1>10 DEF Follows
<1>14. ASSUME NEW y \in t.people \cup {s.viewer}
       PROVE  (\E i \in DOMAIN t.queue : t.queue[i] = y) \/ Reports(o, y) \subseteq t.people \cup {s.viewer}
  <2>1. CASE y \in Reports(o, x)
    <3>1. PICK i \in DOMAIN new : new[i] = y
      BY <1>4, <2>1
    <3>2. k + i \in 1..(k + n) /\ (k + i) - k = i /\ ~(k + i <= k)
      BY <1>8, <1>9
    <3>3. t.queue[k + i] = new[i] /\ k + i \in DOMAIN t.queue
      BY <1>9, <3>2
    <3> QED
      BY <3>1, <3>3
  <2>2. CASE y = x
    BY <1>12, <2>2
  <2>3. CASE y \notin Reports(o, x) /\ y # x
    <3>1. y \in s.people \cup {s.viewer}
      BY <1>12, <1>14, <2>3
    <3>2. CASE Reports(o, y) \subseteq s.people \cup {s.viewer}
      BY <1>12, <3>2
    <3>3. CASE \E i \in DOMAIN s.queue : s.queue[i] = y
      <4>1. PICK i \in DOMAIN s.queue : s.queue[i] = y
        BY <3>3
      <4>2. i # 1
        BY <1>6, <2>3, <4>1
      <4>3. i - 1 \in 1..k /\ i - 1 \in 1..(k + n) /\ (i - 1) + 1 = i /\ i - 1 <= k
        <5>1. i \in 1..(k + 1)
          BY <1>9, <4>1
        <5> QED
          BY <1>8, <4>2, <5>1
      <4>4. t.queue[i - 1] = rest[i - 1] /\ rest[i - 1] = s.queue[i] /\ i - 1 \in DOMAIN t.queue
        BY <1>9, <4>3
      <4> QED
        BY <4>1, <4>4
    <3> QED
      BY <3>1, <3>2, <3>3 DEF Follows
  <2> QED
    BY <2>1, <2>2, <2>3
<1>15. Follows(o, t)
  BY <1>9, <1>11, <1>12, <1>13, <1>14 DEF Follows
<1>16. ASSUME t.queue = <<>>
       PROVE  t.people = Below(o, s.viewer)
  <2>1. PICK all : all = t.people \cup {s.viewer}
    OBVIOUS
  <2>2. DOMAIN t.queue = {}
    <3>1. DOMAIN <<>> = {}
      OBVIOUS
    <3> QED
      BY <1>16, <3>1
  <2>3. all \in SUBSET Employees /\ s.viewer \in all /\ \A y \in all : Reports(o, y) \subseteq all
    BY <1>12, <1>14, <2>1, <2>2
  <2>4. \A e \in Below(o, s.viewer) : e \in all
    BY <2>3, ReportsAreAll DEF Below
  <2> QED
    BY <1>12, <1>13, <2>1, <2>4 DEF Below
<1> QED
  BY <1>15, <1>16

LEMMA StaffedAreTheRest ==
  ASSUME Bounded, NEW o, NEW v \in Employees
  PROVE  Below(o, v) \cup Partnered(o, v) \cup Staffed(o, v)
           = {e \in Employees : HasRisksOf(o, v, e)}
<1>1. \A e \in Employees : InReportingLine(o, v, e) <=> v \in Above(o, e)
  BY DEF InReportingLine, Bounded
<1>2. \A e \in Employees : ProjectLine(o, v, e) # {} <=>
        ~InReportingLine(o, v, e) /\ (PmLeg(o, v, e) \/ DmLeg(o, v, e))
  BY DEF ProjectLine
<1> QED
  BY <1>1, <1>2 DEF HasRisksOf, Below, Partnered, Staffed

\* Wherever a request is that has nothing to be exact about.
LEMMA NothingToDisturb ==
  ASSUME NEW c, NEW t, t.pc \notin Looking
  PROVE  Undisturbed(c, t) /\ Undisturbed(c, t)'
BY DEF Undisturbed, Looking, WalkIsExact

LEMMA StaysUndisturbed ==
  ASSUME NEW c, NEW t, Undisturbed(c, t),
         t.pc \in RecordPcs /\ steady'[c] => steady[c] /\ org' = org /\ records' = records
  PROVE  Undisturbed(c, t)'
<1>1. CASE t.pc \in RecordPcs
  BY <1>1 DEF Undisturbed, Kept
<1>2. CASE t.pc \notin RecordPcs
  BY <1>2, NothingToDisturb DEF RecordPcs, Looking
<1> QED
  BY <1>1, <1>2

LEMMA EnteringIsExact ==
  ASSUME RecordsInv, ExactInv, NEW c \in Calls, EnterSection(c)
  PROVE  Undisturbed(c, call'[c])
<1>1. call[c].pc = "enter" /\ RecordState(call[c]) /\ DOMAIN call = Calls /\ call[c].viewer \in Employees
  <2>1. call[c].pc = "enter" /\ RecordState(call[c]) /\ DOMAIN call = Calls /\ Undisturbed(c, call[c])
    BY OpsByPlace DEF RecordsInv, CallsFit, EnterSection, At, RecordPcs, ExactInv
  <2> QED
    BY <2>1 DEF Undisturbed, Looking
<1>2. PICK audience : audience = AudienceOf(org, call[c].viewer, call[c].subject)
  OBVIOUS
<1>3. PICK r : r = call[c]
  OBVIOUS
<1>4. CASE ~MayEnter(call[c], audience)
  <2>1. call'[c].pc = "refused"
    BY <1>1, <1>2, <1>4 DEF EnterSection, Goto, RecordState, RecordFields
  <2> QED
    BY <2>1, NothingToDisturb DEF Looking
<1>5. CASE MayEnter(call[c], audience)
  <2>1. PICK s : s = [call[c] EXCEPT !.pc = FirstStep(call[c]), !.audience = audience]
    OBVIOUS
  <2>2. call'[c] = s
    BY <1>1, <1>2, <1>5, <2>1 DEF EnterSection, Become
  <2>3. /\ s.pc = FirstStep(r) /\ s.op = r.op /\ s.kind = r.kind /\ s.subject = r.subject /\ s.viewer = r.viewer
        /\ s.audience = audience
    BY <1>1, <1>3, <2>1 DEF RecordState, RecordFields
  <2>4. /\ r.op \in {"list", "view", "upload", "create", "complete", "change", "remove", "download"}
        /\ MayBeAsked(r.op, r.kind)
    BY <1>1, <1>3 DEF RecordState, StagesOf, Answers
  <2>5. s.pc \in Looking =>
          \/ s.pc = "read" /\ r.op = "list"
          \/ s.pc = "portrait"
          \/ s.pc = "find" /\ r.op \in {"change", "remove", "download"}
    <3>1. CASE r.op = "change"
      <4>1. s.pc \in {"find", "peek", "update"}
        BY <2>3, <3>1 DEF FirstStep
      <4> QED
        BY <3>1, <4>1 DEF Looking
    <3>2. CASE r.op \in {"remove", "download"}
      BY <2>3, <3>2 DEF FirstStep
    <3>3. CASE r.op = "list"
      <4>1. s.pc = "read"
        BY <2>3, <3>3 DEF FirstStep
      <4> QED
        BY <3>3, <4>1
    <3>4. CASE r.op = "view"
      <4>1. s.pc = "portrait"
        BY <2>3, <3>4 DEF FirstStep
      <4> QED
        BY <4>1
    <3>5. CASE r.op \in {"upload", "create", "complete"}
      <4>1. s.pc \in {"save", "insert", "update"}
        BY <2>3, <3>5 DEF FirstStep
      <4> QED
        BY <4>1 DEF Looking
    <3> QED
      BY <2>4, <3>1, <3>2, <3>3, <3>4, <3>5
  <2>6. CASE s.pc = "read"
    <3>1. audience.sections[SectionOf(r.kind)] # "none"
      BY <1>3, <1>5, <2>5, <2>6 DEF MayEnter, Looking
    <3>2. r.kind = "note" => Supported(audience, r.kind)
      BY <1>2, <1>3, <3>1, NotesAreSupported DEF SectionOf
    <3>3. Supported(audience, r.kind)
      BY <3>2 DEF Supported
    <3> QED
      BY <1>1, <1>3, <2>2, <2>3, <2>6, <3>3 DEF Undisturbed, WalkIsExact
  <2>7. CASE s.pc = "find"
    <3>1. r.op = "download" => audience.sections["S5"] # "none"
      BY <1>3, <1>5, <2>4 DEF MayEnter, MayBeAsked, SectionOf
    <3> QED
      BY <1>1, <1>2, <1>3, <2>2, <2>3, <2>7, <3>1 DEF Undisturbed, WalkIsExact
  <2>8. CASE s.pc = "portrait"
    BY <1>1, <1>3, <2>2, <2>3, <2>8 DEF Undisturbed, WalkIsExact
  <2>9. CASE s.pc \notin Looking
    BY <2>2, <2>9, NothingToDisturb
  <2> QED
    BY <2>5, <2>6, <2>7, <2>8, <2>9
<1> QED
  BY <1>4, <1>5

LEMMA FindingIsExact ==
  ASSUME RecordsInv, ExactInv, NEW c \in Calls, FindRecord(c)
  PROVE  Undisturbed(c, call'[c])
<1>1. /\ call[c].pc = "find" /\ RecordState(call[c]) /\ DOMAIN call = Calls
      /\ call[c].op \in {"change", "remove", "download"} /\ Undisturbed(c, call[c])
  BY OpsByPlace DEF RecordsInv, CallsFit, FindRecord, At, RecordPcs, ExactInv
<1>2. PICK r : r = call[c]
  OBVIOUS
<1>3. CASE Goto(c, "refused")
  <2>1. call'[c].pc = "refused"
    BY <1>1, <1>3 DEF Goto, RecordState, RecordFields
  <2> QED
    BY <2>1, NothingToDisturb DEF Looking
<1>4. CASE ~Goto(c, "refused")
  <2>1. ~(r.op = "change" /\ ~FitsChanged(r.kind, records[r.id].data, r.data))
    BY <1>2, <1>4 DEF FindRecord, Denied
  <2>2. PICK s : s = [call[c] EXCEPT !.found = records[call[c].id].data,
           !.pc = CASE call[c].op = "change" -> "write" [] call[c].op = "remove" -> "delete"
                    [] call[c].op = "download" -> "judge"]
    OBVIOUS
  <2>3. call'[c] = s
    BY <1>1, <1>4, <2>2 DEF FindRecord, Become, Denied
  <2>4. /\ s.op = r.op /\ s.kind = r.kind /\ s.subject = r.subject /\ s.viewer = r.viewer /\ s.id = r.id /\ s.data = r.data
        /\ s.pc = CASE r.op = "change" -> "write" [] r.op = "remove" -> "delete" [] r.op = "download" -> "judge"
    BY <1>1, <1>2, <2>2 DEF RecordState, RecordFields
  <2>5. CASE r.op = "change"
    <3>1. s.pc = "write" /\ (s.kind = "contact" => ContactFits(Over(s.data, records[s.id].data)))
      BY <2>1, <2>4, <2>5 DEF FitsChanged
    <3> QED
      BY <1>1, <1>2, <2>3, <2>4, <3>1 DEF Undisturbed, WalkIsExact, Looking
  <2>6. CASE r.op = "remove"
    BY <2>3, <2>4, <2>6, NothingToDisturb DEF Looking
  <2>7. CASE r.op = "download"
    BY <1>1, <1>2, <2>3, <2>4, <2>7 DEF Undisturbed, WalkIsExact, Looking
  <2> QED
    BY <1>1, <1>2, <2>5, <2>6, <2>7
<1> QED
  BY <1>3, <1>4

LEMMA JudgingIsExact ==
  ASSUME RecordsInv, ExactInv, NEW c \in Calls, JudgeDownload(c) \/ FindPortrait(c)
  PROVE  Undisturbed(c, call'[c])
<1>1. RecordState(call[c]) /\ DOMAIN call = Calls /\ Undisturbed(c, call[c]) /\ call[c].pc \in {"judge", "portrait"}
  BY OpsByPlace DEF RecordsInv, CallsFit, JudgeDownload, FindPortrait, At, RecordPcs, ExactInv
<1>2. PICK r : r = call[c]
  OBVIOUS
<1>3. CASE Goto(c, "refused")
  <2>1. call'[c].pc = "refused"
    BY <1>1, <1>3 DEF Goto, RecordState, RecordFields
  <2> QED
    BY <2>1, NothingToDisturb DEF Looking
<1>4. CASE JudgeDownload(c) /\ ~Goto(c, "refused")
  <2>1. PICK s : s = [call[c] EXCEPT !.pc = "open"]
    OBVIOUS
  <2>2. call'[c] = s
    BY <1>1, <1>4, <2>1 DEF JudgeDownload, Goto
  <2>3. s.pc = "open" /\ s.op = r.op /\ s.subject = r.subject /\ s.viewer = r.viewer /\ s.found = r.found
    BY <1>1, <1>2, <2>1 DEF RecordState, RecordFields
  <2>4. r.pc = "judge" /\ DocumentVisible(AudienceOf(org, r.viewer, r.subject), r.found)
    BY <1>2, <1>4 DEF JudgeDownload, At
  <2> QED
    BY <1>1, <1>2, <2>2, <2>3, <2>4 DEF Undisturbed, WalkIsExact, Looking
<1>5. CASE FindPortrait(c) /\ ~Goto(c, "refused")
  <2>1. PICK s : s = [call[c] EXCEPT !.pc = "open", !.found = [file |-> photo[call[c].subject]]]
    OBVIOUS
  <2>2. call'[c] = s
    BY <1>1, <1>5, <2>1 DEF FindPortrait, Become
  <2>3. s.pc = "open" /\ s.op = "view" /\ s.viewer = r.viewer
    BY <1>1, <1>2, <1>5, <2>1, OpsByPlace DEF RecordState, RecordFields, FindPortrait, At
  <2>4. r.viewer \in Employees
    BY <1>1, <1>2 DEF Undisturbed, Looking
  <2> QED
    BY <2>2, <2>3, <2>4 DEF Undisturbed, WalkIsExact
<1> QED
  BY <1>3, <1>4, <1>5

LEMMA WalkingIsExact ==
  ASSUME RecordsInv, ExactInv, NEW c \in Calls, WalkReports(c)
  PROVE  Undisturbed(c, call'[c])
<1>1. RecordState(call[c]) /\ DOMAIN call = Calls /\ Undisturbed(c, call[c]) /\ call[c].pc = "walk"
  BY OpsByPlace DEF RecordsInv, CallsFit, WalkReports, At, RecordPcs, ExactInv
<1>2. PICK r : r = call[c]
  OBVIOUS
<1>3. PICK reports : reports = Reports(org, Head(r.queue))
  OBVIOUS
<1>4. PICK queue : queue = Tail(r.queue) \o SetToSeq(reports)
  OBVIOUS
<1>5. PICK s : s = [call[c] EXCEPT !.queue = queue, !.people = @ \cup (reports \ {call[c].viewer}),
                                   !.pc = IF queue = <<>> THEN "partnered" ELSE "walk"]
  OBVIOUS
<1>6. call'[c] = s
  BY <1>1, <1>2, <1>3, <1>4, <1>5 DEF WalkReports, Become
<1>7. /\ s.viewer = r.viewer /\ s.queue = queue /\ s.people = r.people \cup (reports \ {r.viewer})
      /\ s.pc = IF queue = <<>> THEN "partnered" ELSE "walk"
  BY <1>1, <1>2, <1>5 DEF RecordState, RecordFields
<1>8. r.viewer \in Employees
  BY <1>1, <1>2 DEF Undisturbed, Looking
<1>9. ASSUME steady[c]
      PROVE  WalkIsExact(org, s)
  <2>1. Follows(org, r) /\ r.queue # <<>>
    BY <1>1, <1>2, <1>9 DEF Undisturbed, WalkIsExact
  <2>2. Bounded /\ Managed(org)
    BY Sizes DEF ExactInv
  <2>3. Follows(org, s) /\ (s.queue = <<>> => s.people = Below(org, r.viewer))
    BY <1>3, <1>4, <1>7, <1>8, <2>1, <2>2, WalksDown
  <2> QED
    BY <1>7, <2>3 DEF WalkIsExact
<1>10. s.pc \in {"partnered", "walk"}
  BY <1>7
<1> QED
  BY <1>6, <1>7, <1>8, <1>9, <1>10 DEF Undisturbed

LEMMA OnesWay ==
  ASSUME NEW v \in Employees, Bounded, NEW o, Managed(o), NEW s, s.viewer = v, s.queue = <<v>>, s.people = {}
  PROVE  Follows(o, s) /\ s.queue # <<>>
<1>1. v \in Above(o, v)
  BY OneIsAboveOneself
<1>2. PICK queue : queue = <<v>>
  OBVIOUS
<1>3. queue \in Seq(Employees) /\ DOMAIN queue = {1} /\ queue[1] = v /\ queue # <<>>
  BY <1>2
<1> QED
  BY <1>1, <1>2, <1>3 DEF Follows

LEMMA AddingIsExact ==
  ASSUME RecordsInv, ExactInv, NEW c \in Calls, AddPartnered(c) \/ AddStaffed(c)
  PROVE  Undisturbed(c, call'[c])
<1>1. RecordState(call[c]) /\ DOMAIN call = Calls /\ Undisturbed(c, call[c]) /\ call[c].pc \in {"partnered", "staffed"}
  BY OpsByPlace DEF RecordsInv, CallsFit, AddPartnered, AddStaffed, At, RecordPcs, ExactInv
<1>2. PICK r : r = call[c]
  OBVIOUS
<1>3. r.viewer \in Employees
  BY <1>1, <1>2 DEF Undisturbed, Looking
<1>4. CASE AddPartnered(c)
  <2>1. PICK s : s = [call[c] EXCEPT !.pc = "staffed",
           !.people = @ \cup {e \in Employees \ {call[c].viewer} : org.partner[e] = call[c].viewer}]
    OBVIOUS
  <2>2. call'[c] = s /\ r.pc = "partnered"
    BY <1>1, <1>2, <1>4, <2>1 DEF AddPartnered, Become, At
  <2>3. s.viewer = r.viewer /\ s.pc = "staffed" /\ s.people = r.people \cup Partnered(org, r.viewer)
    BY <1>1, <1>2, <2>1 DEF RecordState, RecordFields, Partnered
  <2>4. steady[c] => r.people = Below(org, r.viewer)
    BY <1>1, <1>2, <2>2 DEF Undisturbed, WalkIsExact
  <2> QED
    BY <1>3, <2>2, <2>3, <2>4 DEF Undisturbed, WalkIsExact
<1>5. CASE AddStaffed(c) /\ r.found # NoRecord
  <2>1. PICK s : s = [call[c] EXCEPT !.pc = "latest",
           !.people = call[c].people \cup Staffed(org, call[c].viewer)]
    OBVIOUS
  <2>2. call'[c] = s /\ r.pc = "staffed"
    BY <1>1, <1>2, <1>5, <2>1 DEF AddStaffed, Become, At
  <2>3. s.viewer = r.viewer /\ s.pc = "latest"
        /\ s.people = r.people \cup Staffed(org, r.viewer)
    BY <1>1, <1>2, <2>1 DEF RecordState, RecordFields
  <2>4. steady[c] => r.people = Below(org, r.viewer) \cup Partnered(org, r.viewer)
    BY <1>1, <1>2, <2>2 DEF Undisturbed, WalkIsExact
  <2>5. steady[c] => s.people = {e \in Employees : HasRisksOf(org, s.viewer, e)}
    BY <1>3, <2>3, <2>4, Sizes, StaffedAreTheRest
  <2> QED
    BY <1>3, <2>2, <2>3, <2>5 DEF Undisturbed, WalkIsExact
<1>6. CASE Goto(c, "refused")
  <2>1. call'[c].pc = "refused"
    BY <1>1, <1>6 DEF Goto, RecordState, RecordFields
  <2> QED
    BY <2>1, NothingToDisturb DEF Looking
<1>7. CASE AddStaffed(c) /\ r.found = NoRecord /\ ~Goto(c, "refused")
  <2>1. PICK found : Become(c, [call[c] EXCEPT !.pc = "walk", !.queue = <<call[c].viewer>>, !.people = {}, !.found = found])
    BY <1>2, <1>7 DEF AddStaffed
  <2>2. PICK s : s = [call[c] EXCEPT !.pc = "walk", !.queue = <<call[c].viewer>>, !.people = {}, !.found = found]
    OBVIOUS
  <2>3. call'[c] = s
    BY <1>1, <2>1, <2>2 DEF Become
  <2>4. s.pc = "walk" /\ s.viewer = r.viewer /\ s.queue = <<r.viewer>> /\ s.people = {}
    BY <1>1, <1>2, <2>2 DEF RecordState, RecordFields
  <2>5. Follows(org, s) /\ s.queue # <<>>
    BY <1>3, <2>4, Sizes, OnesWay DEF ExactInv
  <2> QED
    BY <1>3, <2>3, <2>4, <2>5 DEF Undisturbed, WalkIsExact
<1> QED
  BY <1>4, <1>5, <1>6, <1>7

\* The other steps lead to nothing that has to be exact.
LEMMA OtherPlaces ==
  ASSUME RecordsInv, NEW c \in Calls,
         \/ InsertRecord(c) \/ WriteRecord(c) \/ DeleteRecord(c) \/ UpdateRecord(c) \/ AssertOpen(c) \/ ReadAgain(c)
         \/ PeekRecord(c) \/ ReadSection(c) \/ SaveFile(c) \/ AttachFile(c) \/ PreviousPhoto(c) \/ SwapPhoto(c)
         \/ UnlinkPrevious(c) \/ UndoSave(c) \/ OpenFile(c) \/ ShowRisks(c) \/ RowFails(c)
  PROVE  call'[c].pc \notin Looking
<1>1. DOMAIN call = Calls /\ "pc" \in DOMAIN call[c] /\ RecordState(call[c])
  BY RecordServed, OpsByPlace DEF RecordsInv, CallsFit, ServeRecord
<1>2. DOMAIN call[c] = RecordFields
  BY <1>1 DEF RecordState
<1>3. ASSUME NEW pc, Goto(c, pc), pc \in {"done", "refused", "reread", "why", "attach", "previous", "unlink", "undo"}
      PROVE  call'[c].pc \notin Looking
  BY <1>1, <1>3 DEF Goto, Looking
<1>4. ASSUME NEW answer, Said(c, answer)
      PROVE  call'[c].pc \notin Looking
  BY <1>1, <1>2, <1>4 DEF Said, Become, Looking, RecordFields
<1>5. CASE InsertRecord(c) \/ WriteRecord(c) \/ DeleteRecord(c) \/ UpdateRecord(c)
  BY <1>3, <1>4, <1>5 DEF InsertRecord, WriteRecord, DeleteRecord, UpdateRecord, Denied
<1>6. CASE AssertOpen(c) \/ ReadAgain(c) \/ PeekRecord(c) \/ ReadSection(c)
  BY <1>3, <1>4, <1>6 DEF AssertOpen, ReadAgain, PeekRecord, ReadSection
<1>7. CASE SaveFile(c) \/ AttachFile(c) \/ SwapPhoto(c) \/ UnlinkPrevious(c) \/ UndoSave(c)
  BY <1>3, <1>4, <1>7 DEF SaveFile, AttachFile, SwapPhoto, UnlinkPrevious, UndoSave, Denied
<1>8. CASE OpenFile(c) \/ ShowRisks(c) \/ RowFails(c)
  BY <1>3, <1>4, <1>8 DEF OpenFile, ShowRisks, RowFails
<1>9. CASE PreviousPhoto(c)
  <2>1. PICK s : s = [call[c] EXCEPT !.found = photo[call[c].subject], !.pc = "swap"]
    OBVIOUS
  <2>2. call'[c] = s /\ s.pc = "swap"
    BY <1>1, <1>2, <1>9, <2>1 DEF PreviousPhoto, Become, RecordFields
  <2> QED
    BY <2>2 DEF Looking
<1> QED
  BY <1>5, <1>6, <1>7, <1>8, <1>9

LEMMA CommitsOrReads ==
  ASSUME NEW c, ServeRecord(c) \/ RowFails(c)
  PROVE  Commits(c) \/ (Reads /\ records' = records)
<1>1. CASE EnterSection(c) \/ InsertRecord(c) \/ FindRecord(c) \/ WriteRecord(c) \/ DeleteRecord(c) \/ UpdateRecord(c)
           \/ AssertOpen(c) \/ ReadAgain(c) \/ PeekRecord(c) \/ ReadSection(c) \/ SaveFile(c) \/ AttachFile(c)
  BY <1>1 DEF EnterSection, InsertRecord, FindRecord, WriteRecord, DeleteRecord, UpdateRecord, Denied, recordVars,
     AssertOpen, ReadAgain, PeekRecord, ReadSection, SaveFile, AttachFile
<1>2. CASE PreviousPhoto(c) \/ SwapPhoto(c) \/ UnlinkPrevious(c) \/ UndoSave(c) \/ JudgeDownload(c) \/ FindPortrait(c)
           \/ OpenFile(c) \/ WalkReports(c) \/ AddPartnered(c) \/ AddStaffed(c) \/ ShowRisks(c) \/ RowFails(c)
  BY <1>2 DEF PreviousPhoto, SwapPhoto, UnlinkPrevious, UndoSave, JudgeDownload, FindPortrait, Unlinked, recordVars,
     OpenFile, WalkReports, AddPartnered, AddStaffed, ShowRisks, RowFails
<1> QED
  BY <1>1, <1>2 DEF ServeRecord

\* Of those who wait, only the one that is served stays undisturbed by a commit.
LEMMA ServingStaysExact ==
  ASSUME RecordsInv, ExactInv, DOMAIN steady = Calls, NEW c \in Calls, ServeRecord(c) \/ RowFails(c), Proceeds
  PROVE  ExactInv'
<1>1. DOMAIN call = Calls /\ MovesAlone(c) /\ org' = org
  BY RecordsServedAlone DEF RecordsInv, CallsFit, Proceeds, orgVars
<1>2. Commits(c) \/ (Reads /\ records' = records)
  BY CommitsOrReads
<1>3. \A d \in Calls : steady'[d] => steady[d]
  BY <1>2 DEF Commits, Reads
<1>4. ASSUME NEW d \in Calls \ {c}
      PROVE  Undisturbed(d, call[d])'
  <2>1. PICK t : t = call[d]
    OBVIOUS
  <2>2. t.pc \in RecordPcs => Waiting(d)
    BY <2>1 DEF Waiting, RecordPcs, Answers
  <2>3. t.pc \in RecordPcs /\ steady'[d] => records' = records
    BY <1>2, <1>4, <2>2 DEF Commits
  <2>4. Undisturbed(d, t)'
    BY <1>1, <1>3, <2>1, <2>3, StaysUndisturbed DEF ExactInv
  <2> QED
    BY <1>1, <2>1, <2>4 DEF MovesAlone
<1>5. Undisturbed(c, call[c])'
  <2>1. PICK t : t = call'[c]
    OBVIOUS
  <2>2. CASE \/ EnterSection(c) \/ FindRecord(c) \/ JudgeDownload(c) \/ FindPortrait(c)
             \/ WalkReports(c) \/ AddPartnered(c) \/ AddStaffed(c)
    <3>1. Undisturbed(c, call'[c])
      BY <2>2, EnteringIsExact, FindingIsExact, JudgingIsExact, WalkingIsExact, AddingIsExact
    <3>2. records' = records
      BY <2>2 DEF EnterSection, FindRecord, Denied, JudgeDownload, FindPortrait, WalkReports, AddPartnered, AddStaffed,
         recordVars
    <3>3. Undisturbed(c, t)'
      BY <1>1, <1>3, <2>1, <3>1, <3>2, StaysUndisturbed
    <3> QED
      BY <2>1, <3>3
  <2>3. CASE ~(\/ EnterSection(c) \/ FindRecord(c) \/ JudgeDownload(c) \/ FindPortrait(c)
               \/ WalkReports(c) \/ AddPartnered(c) \/ AddStaffed(c))
    <3>1. call'[c].pc \notin Looking
      BY <2>3, OtherPlaces DEF ServeRecord
    <3>2. Undisturbed(c, t)'
      BY <2>1, <3>1, NothingToDisturb
    <3> QED
      BY <2>1, <3>2
  <2> QED
    BY <2>2, <2>3
<1> QED
  BY <1>1, <1>4, <1>5 DEF ExactInv

\* What is on its way when others move: it stays undisturbed only if nothing has
\* come between.
LEMMA OthersLeaveExact ==
  ASSUME ExactInv, org' \in OrgTables,
         \A d \in Calls : \/ call'[d].pc \notin Looking
                          \/ /\ call'[d] = call[d]
                             /\ call[d].pc \in RecordPcs /\ steady'[d] => steady[d] /\ org' = org /\ records' = records
  PROVE  ExactInv'
<1>1. ASSUME NEW d \in Calls
      PROVE  Undisturbed(d, call[d])'
  <2>1. CASE call'[d].pc \notin Looking
    <3>1. PICK t : t = call'[d]
      OBVIOUS
    <3>2. Undisturbed(d, t)'
      BY <2>1, <3>1, NothingToDisturb
    <3> QED
      BY <3>1, <3>2
  <2>2. CASE /\ call'[d] = call[d]
             /\ call[d].pc \in RecordPcs /\ steady'[d] => steady[d] /\ org' = org /\ records' = records
    <3>1. PICK t : t = call[d]
      OBVIOUS
    <3>2. Undisturbed(d, t)'
      BY <2>2, <3>1, StaysUndisturbed DEF ExactInv
    <3> QED
      BY <2>2, <3>1, <3>2
  <2> QED
    BY <2>1, <2>2
<1> QED
  BY <1>1 DEF ExactInv

LEMMA BeginningIsExact ==
  ASSUME RecordsInv, ExactInv, NEW c \in Calls, Begin(c)
  PROVE  ExactInv'
<1>1. DOMAIN call = Calls /\ org' = org /\ steady' = steady /\ records' = records
  BY DEF RecordsInv, CallsFit, Begin, BeginRegistry, BeginList, BeginRecord, Arrives, recordVars
<1>2. \A d \in Calls \ {c} : call'[d] = call[d]
  BY <1>1 DEF Begin, BeginRegistry, BeginDefine, BeginSet, BeginValues, BeginList, BeginRecord, Become
<1>3. CASE call'[c].pc \notin Looking
  BY <1>1, <1>2, <1>3, OthersLeaveExact DEF ExactInv
<1>4. CASE BeginRecord(c)
  <2>1. PICK ask \in Asks :
          Become(c, [pc |-> IF ask.op = "risks" THEN "walk" ELSE "enter", op |-> ask.op, kind |-> ask.kind,
            viewer |-> ask.viewer, subject |-> ask.subject, id |-> ask.id, data |-> ask.data,
            audience |-> NoRecord, found |-> NoRecord, queue |-> <<ask.viewer>>, people |-> {}, answer |-> NoRecord])
    BY <1>4 DEF BeginRecord
  <2>2. PICK s : s = [pc |-> IF ask.op = "risks" THEN "walk" ELSE "enter", op |-> ask.op, kind |-> ask.kind,
            viewer |-> ask.viewer, subject |-> ask.subject, id |-> ask.id, data |-> ask.data,
            audience |-> NoRecord, found |-> NoRecord, queue |-> <<ask.viewer>>, people |-> {}, answer |-> NoRecord]
    OBVIOUS
  <2>3. call'[c] = s /\ s.pc \in {"walk", "enter"} /\ s.viewer = ask.viewer /\ s.queue = <<s.viewer>> /\ s.people = {}
    BY <1>1, <2>1, <2>2 DEF Become
  <2>4. s.viewer \in Employees
    BY <2>3, RecordsAssumption
  <2>5. Follows(org, s) /\ s.queue # <<>>
    BY <2>3, <2>4, Sizes, OnesWay DEF ExactInv
  <2>6. Undisturbed(c, s)
    BY <2>3, <2>4, <2>5 DEF Undisturbed, WalkIsExact
  <2>7. Undisturbed(c, s)'
    BY <1>1, <2>6, StaysUndisturbed
  <2>8. ASSUME NEW d \in Calls \ {c}
        PROVE  Undisturbed(d, call[d])'
    <3>1. PICK t : t = call[d]
      OBVIOUS
    <3>2. Undisturbed(d, t)'
      BY <1>1, <3>1, StaysUndisturbed DEF ExactInv
    <3> QED
      BY <1>2, <3>1, <3>2
  <2> QED
    BY <1>1, <2>3, <2>7, <2>8 DEF ExactInv
<1>5. CASE BeginRegistry(c) \/ BeginList(c)
  <2>1. call'[c].pc \in {"permit", "gate", "writable", "wanted", "columns", "look"}
    <3>1. CASE BeginDefine(c)
      BY <1>1, <3>1 DEF BeginDefine, Become
    <3>2. CASE BeginSet(c)
      BY <1>1, <3>2 DEF BeginSet, Become
    <3>3. CASE BeginValues(c)
      BY <1>1, <3>3 DEF BeginValues, Become
    <3>4. CASE BeginList(c)
      BY <1>1, <3>4 DEF BeginList, Become
    <3> QED
      BY <1>5, <3>1, <3>2, <3>3, <3>4 DEF BeginRegistry
  <2> QED
    BY <1>3, <2>1 DEF Looking
<1> QED
  BY <1>4, <1>5 DEF Begin

LEMMA OthersCommitOrRead ==
  ASSUME NEW c, ServeRegistry(c) \/ ServeList(c)
  PROVE  Reads \/ Commits(c)
<1>1. CASE ServeRegistry(c)
  BY <1>1 DEF ServeRegistry, MayManage, DefineField, WritableField, GateSet, MayWrite, SetValue, ReadBack,
     SetBuiltinFieldValue, ChooseDefinitions, QueryValues, Refuse
<1>2. CASE ServeList(c)
  BY <1>2 DEF ServeList, ChooseColumns, Prepare, Look, ResolveEveryone, LoadEmployeeSnapshots, QueryEmployees,
     PageAudiences, MaskRows
<1> QED
  BY <1>1, <1>2

\* A request about fields or a list is nowhere where a request about records is.
LEMMA OthersServedExact ==
  ASSUME RecordsInv, ExactInv, DOMAIN steady = Calls, NEW c \in Calls,
         ServeRegistry(c) \/ ServeList(c), Proceeds, UNCHANGED recordVars
  PROVE  ExactInv'
<1>1. /\ Elsewhere(call'[c]) /\ \A d \in Calls \ {c} : call'[d] = call[d]
      /\ org' = org /\ records' = records
  BY RegistryStaysElsewhere, ListStaysElsewhere DEF RecordsInv, Proceeds, orgVars, recordVars
<1>2. call'[c].pc \notin Looking
  BY <1>1 DEF Elsewhere, RecordPcs, Looking
<1>3. \A d \in Calls : steady'[d] => steady[d]
  <2>1. Reads \/ Commits(c)
    BY OthersCommitOrRead
  <2> QED
    BY <2>1 DEF Reads, Commits
<1> QED
  BY <1>1, <1>2, <1>3, OthersLeaveExact DEF ExactInv

LEMMA InterruptionsLeaveExact ==
  ASSUME RecordsInv, ExactInv, DOMAIN steady = Calls,
         \/ Surroundings \/ Crash \/ UNCHANGED directoryVars \/ \E c \in Calls : StatementFails(c)
  PROVE  ExactInv'
<1>1. DOMAIN call = Calls /\ org \in OrgTables /\ \A d \in Calls : "pc" \in DOMAIN call[d]
  BY DEF RecordsInv, CallsFit, ExactInv, RecordState, RecordFields, Elsewhere
<1>2. \A d \in Calls : call[d].pc \in RecordPcs => Waiting(d)
  BY DEF RecordPcs, Waiting, Answers
<1>3. CASE RosterMoves
  BY <1>1, <1>2, <1>3, OthersLeaveExact DEF RosterMoves, recordVars
<1>4. CASE OrgMoves /\ RelatesTheHired(org') /\ UNCHANGED <<call, registryVars, recordVars, work>>
  <2>1. call' = call /\ org' \in OrgTables /\ steady' = [d \in Calls |-> steady[d] /\ ~Waiting(d)]
    BY <1>4 DEF OrgMoves
  <2> QED
    BY <1>2, <2>1, OthersLeaveExact
<1>5. CASE Crash
  <2>1. /\ call' = [d \in Calls |-> IF Waiting(d) THEN [call[d] EXCEPT !.pc = "refused"] ELSE call[d]]
        /\ steady' = steady /\ org' = org /\ records' = records
    BY <1>5 DEF Crash, Reads, Proceeds, orgVars, recordVars
  <2>2. \A d \in Calls : call'[d] = call[d] \/ call'[d].pc \notin Looking
    BY <1>1, <2>1 DEF Looking
  <2> QED
    BY <1>1, <2>1, <2>2, OthersLeaveExact
<1>6. CASE UNCHANGED directoryVars
  BY <1>1, <1>6, OthersLeaveExact DEF directoryVars, requestVars, orgVars, recordVars
<1>7. ASSUME NEW c \in Calls, StatementFails(c)
      PROVE  ExactInv'
  <2>1. Goto(c, "refused") /\ steady' = steady /\ org' = org /\ records' = records
    BY <1>7 DEF StatementFails, Fail, Reads, Proceeds, orgVars, recordVars
  <2>2. \A d \in Calls : call'[d] = call[d] \/ call'[d].pc \notin Looking
    BY <1>1, <2>1 DEF Goto, Looking
  <2> QED
    BY <1>1, <2>1, <2>2, OthersLeaveExact
<1> QED
  BY <1>3, <1>4, <1>5, <1>6, <1>7 DEF Surroundings

LEMMA ExactStepKeeps ==
  ASSUME RecordsInv, ExactInv, DOMAIN steady = Calls, [Next]_directoryVars
  PROVE  ExactInv'
<1>1. ASSUME NEW c \in Calls, Serve(c)
      PROVE  ExactInv'
  BY <1>1, ServingStaysExact, OthersServedExact DEF Serve
<1> QED
  BY <1>1, BeginningIsExact, InterruptionsLeaveExact DEF Next

\* Always: whoever has asked for the dashboard of risks and has not been disturbed
\* has gone down to exactly those above whom one finds the viewer by going up, and
\* whatever else an undisturbed request has looked up is still so (listS6SubjectIds).
THEOREM ExactAlways == Spec => []ExactInv
<1>1. Init => ExactInv
  <2> SUFFICES ASSUME Init
               PROVE  ExactInv
    OBVIOUS
  <2>1. \A c \in Calls : call[c].pc = "idle"
    BY DEF Init, RequestsInit, NotAsked
  <2> QED
    BY <2>1, NothingToDisturb DEF ExactInv, Init, OrgInit, Looking
<1>2. ShowsInv => DOMAIN steady = Calls
  BY DEF ShowsInv, TablesFit
<1>3. RecordsInv /\ DOMAIN steady = Calls /\ ExactInv /\ [Next]_directoryVars => ExactInv'
  BY ExactStepKeeps
<1> QED
  BY <1>1, <1>2, <1>3, RecordsHold, ShowsHold, PTL DEF Spec

\* The step of a request that has been about to write, to open, or to show.
LEMMA ServedAtItsPlace ==
  ASSUME RecordsInv, [Next]_directoryVars, NEW c \in Calls,
         call[c].pc \in {"write", "open", "latest"}, call'[c].pc = "done"
  PROVE  /\ DOMAIN call = Calls /\ RecordState(call[c]) /\ org' = org
         /\ At(c, "write") => WriteRecord(c)
         /\ At(c, "open") => OpenFile(c)
         /\ At(c, "latest") => ShowRisks(c)
<1>1. RecordState(call[c]) /\ DOMAIN call = Calls /\ "pc" \in DOMAIN call[c]
  BY OpsByPlace DEF RecordsInv, CallsFit, RecordPcs
<1>2. call'[c] # call[c]
  OBVIOUS
<1>3. ~Begin(c)
  BY DEF Begin, BeginRegistry, BeginList, BeginRecord, At
<1>4. ~StatementFails(c) /\ ~Crash
  BY <1>1 DEF StatementFails, Fail, Goto, Crash, Waiting, Answers
<1>5. ~ServeRegistry(c) /\ ~ServeList(c)
  BY RegistryStaysElsewhere, ListStaysElsewhere DEF OtherPcs, RecordsInv
<1>6. (ServeRecord(c) \/ RowFails(c)) /\ Proceeds
  BY <1>2, <1>3, <1>4, <1>5, OneServedAtATime DEF RecordsInv, Serve
<1>7. WriteRecord(c) \/ OpenFile(c) \/ ShowRisks(c)
  BY <1>6 DEF ServeRecord, RowFails, EnterSection, InsertRecord, FindRecord, DeleteRecord, UpdateRecord,
     AssertOpen, PeekRecord, ReadAgain, ReadSection, SaveFile, AttachFile, AttachRow, PreviousPhoto, SwapPhoto, SwapRow,
     UnlinkPrevious, UndoSave, JudgeDownload, FindPortrait, WalkReports, AddPartnered, AddStaffed, At
<1> QED
  BY <1>1, <1>6, <1>7 DEF WriteRecord, OpenFile, ShowRisks, At, Proceeds, orgVars

\* A request about records that nothing has come between is exact: a contact it has
\* changed fits its type (updateContactMethod), a document it has opened is one the
\* viewer may see (downloadFile), and the dashboard of risks, which goes down the
\* lines, shows exactly those with a risk over whom the viewer stands by a line followed
\* upwards, as the partner or on a project, each with S6 opened by the gate
\* (listS6SubjectIds).  A reader of the notes has a form made for them at any time.
THEOREM RecordsAreExact == Spec => UndisturbedRecordIsExact
<1>1. ASSUME RecordsInv, ExactInv, [Next]_directoryVars, NEW c \in Calls
      PROVE  RecordIsExact(c)
  <2>1. PICK r : r = call[c]
    OBVIOUS
  <2>2. Undisturbed(c, r) /\ (r.pc \in Looking => r.viewer \in Employees)
    BY <1>1, <2>1 DEF ExactInv, Undisturbed
  <2>3. At(c, "read") => Supported(r.audience, r.kind)
    BY <2>1, <2>2 DEF Undisturbed, At
  <2>4. ASSUME steady[c], At(c, "write"), call'[c].pc = "done", r.kind = "contact"
        PROVE  ContactFits(records'[r.id].data)
    <3>1. WriteRecord(c) /\ DOMAIN call = Calls /\ RecordState(r)
      BY <1>1, <2>1, <2>4, ServedAtItsPlace DEF At
    <3>2. Kept(r.id)
      BY <2>1, <2>4, <3>1 DEF WriteRecord, Denied, Goto, RecordState, RecordFields
    <3>3. records' = [records EXCEPT ![r.id] = [records[r.id] EXCEPT !.data = Over(r.data, @)]]
      BY <2>1, <3>1, <3>2 DEF WriteRecord
    <3>4. r.op = "change" /\ r.id \in RecordIds
      <4>1. r.op = "change"
        BY <2>1, <2>4, <3>1, OpsByPlace DEF At
      <4> QED
        BY <3>1, <4>1 DEF RecordState
    <3>5. DOMAIN records = RecordIds /\ DOMAIN records[r.id] = {"kind", "subject", "data"}
      BY <1>1, <3>2, <3>4 DEF RecordsInv, RecordsFit
    <3>6. records'[r.id].data = Over(r.data, records[r.id].data)
      BY <3>3, <3>4, <3>5
    <3> QED
      BY <2>1, <2>2, <2>4, <3>2, <3>6 DEF Undisturbed, At
  <2>5. ASSUME steady[c], At(c, "open"), call'[c].pc = "done", r.op = "download"
        PROVE  MaySeeRecord(org, r.viewer, [kind |-> "document", subject |-> r.subject, data |-> r.found])
    <3>1. /\ AudienceOf(org, r.viewer, r.subject).sections["S5"] # "none"
          /\ DocumentVisible(AudienceOf(org, r.viewer, r.subject), r.found)
      BY <2>1, <2>2, <2>5 DEF Undisturbed, At
    <3>2. PICK audience : audience = AudienceOf(org, r.viewer, r.subject)
      OBVIOUS
    <3>3. PICK document : document = [kind |-> "document", subject |-> r.subject, data |-> r.found]
      OBVIOUS
    <3>4. document.kind = "document" /\ document.subject = r.subject /\ document.data = r.found
      BY <3>3
    <3>5. SectionOf("document") = "S5" /\ Visible(audience, document)
      BY <3>1, <3>2, <3>4 DEF SectionOf, Visible
    <3>6. MaySeeRecord(org, r.viewer, document)
      BY <3>1, <3>2, <3>4, <3>5 DEF MaySeeRecord
    <3> QED
      BY <3>3, <3>6
  <2>6. ASSUME steady[c], At(c, "latest"), call'[c].pc = "done"
        PROVE  /\ {row.employee : row \in call'[c].answer} =
                    {e \in Employees : RisksOf(e) # {} /\ HasRisksOf(org, r.viewer, e)}
               /\ \A row \in call'[c].answer : AudienceOf(org, r.viewer, row.employee).sections["S6"] # "none"
    <3>1. ShowRisks(c) /\ DOMAIN call = Calls /\ RecordState(r)
      BY <1>1, <2>1, <2>6, ServedAtItsPlace DEF At
    <3>2. r.people = {e \in Employees : HasRisksOf(org, r.viewer, e)} /\ r.viewer \in Employees
      BY <2>1, <2>2, <2>6 DEF Undisturbed, WalkIsExact, At, Looking
    <3>3. PICK shown : shown = {e \in Employees : RisksOf(e) # {} /\ HasRisksOf(org, r.viewer, e)}
      OBVIOUS
    <3>4. call'[c].answer = {RiskRow(e) : e \in shown}
      <4>1. PICK rows : rows = {RiskRow(e) : e \in {e \in r.people : RisksOf(e) # {}}}
        OBVIOUS
      <4>2. {e \in r.people : RisksOf(e) # {}} = shown
        BY <3>2, <3>3
      <4>3. Said(c, rows)
        BY <2>1, <3>1, <4>1 DEF ShowRisks
      <4>4. call'[c].answer = rows
        BY <2>1, <3>1, <4>3 DEF Said, Become, RecordState, RecordFields
      <4> QED
        BY <4>1, <4>2, <4>4
    <3>5. \A e \in shown : RiskRow(e).employee = e
      BY DEF RiskRow
    <3>6. {row.employee : row \in call'[c].answer} = shown
      BY <3>4, <3>5
    <3>7. \A e \in shown : AudienceOf(org, r.viewer, e).sections["S6"] # "none"
      BY <3>2, <3>3, Sizes, RisksAreOpen
    <3> QED
      BY <3>3, <3>4, <3>5, <3>6, <3>7
  <2> QED
    BY <2>1, <2>3, <2>4, <2>5, <2>6 DEF RecordIsExact
<1>2. RecordsInv /\ ExactInv /\ [Next]_directoryVars => [\A c \in Calls : RecordIsExact(c)]_directoryVars
  BY <1>1
<1> QED
  BY <1>2, RecordsHold, ExactAlways, PTL DEF Spec, UndisturbedRecordIsExact

-----------------------------------------------------------------------------
(* A finite set P in a strict total order R, and the place of a member.    *)

IsOrder(R, P) ==
  /\ \A d \in P : <<d, d>> \notin R
  /\ \A d, e \in P : d # e => <<d, e>> \in R \/ <<e, d>> \in R
  /\ \A d, e, f \in P : <<d, e>> \in R /\ <<e, f>> \in R => <<d, f>> \in R
Earlier(R, P, e) == {d \in P : <<d, e>> \in R}
Arranged(R, s) == \A i, j \in DOMAIN s : i < j => <<s[i], s[j]>> \in R

LEMMA EarlierGrows ==
  ASSUME NEW P, IsFiniteSet(P), NEW R, IsOrder(R, P), NEW d \in P, NEW e \in P, <<d, e>> \in R
  PROVE  /\ Cardinality(Earlier(R, P, d)) \in Nat /\ Cardinality(Earlier(R, P, e)) \in Nat
         /\ Cardinality(Earlier(R, P, d)) < Cardinality(Earlier(R, P, e))
<1>1. PICK A : A = Earlier(R, P, d)
  OBVIOUS
<1>2. PICK B : B = Earlier(R, P, e)
  OBVIOUS
<1>3. A \in SUBSET B /\ d \in B /\ d \notin A /\ B \in SUBSET P
  BY <1>1, <1>2 DEF Earlier, IsOrder
<1>4. IsFiniteSet(B) /\ Cardinality(B) \in Nat
  BY <1>3, FS_Subset, FS_CardinalityType
<1>5. IsFiniteSet(A) /\ Cardinality(A) \in Nat /\ Cardinality(A) <= Cardinality(B)
      /\ (Cardinality(B) = Cardinality(A) => B = A)
  BY <1>3, <1>4, FS_Subset, FS_CardinalityType
<1>6. Cardinality(A) # Cardinality(B)
  BY <1>3, <1>5
<1>7. Cardinality(A) < Cardinality(B)
  BY <1>4, <1>5, <1>6
<1> QED
  BY <1>1, <1>2, <1>4, <1>5, <1>7

\* No two have the same place, and every place is one of the first so many.
LEMMA PlacesDiffer ==
  ASSUME NEW P, IsFiniteSet(P), NEW R, IsOrder(R, P), NEW d \in P, NEW e \in P,
         Cardinality(Earlier(R, P, d)) = Cardinality(Earlier(R, P, e))
  PROVE  d = e
<1>1. SUFFICES ASSUME d # e
               PROVE  FALSE
  OBVIOUS
<1>2. <<d, e>> \in R \/ <<e, d>> \in R
  BY <1>1 DEF IsOrder
<1>3. PICK m : m = Cardinality(Earlier(R, P, d))
  OBVIOUS
<1>4. m \in Nat /\ m < m
  BY <1>2, <1>3, EarlierGrows
<1> QED
  BY <1>4

LEMMA PlacesAreWithin ==
  ASSUME NEW P, IsFiniteSet(P), NEW R, IsOrder(R, P), NEW e \in P
  PROVE  Cardinality(P) \in Nat /\ Cardinality(Earlier(R, P, e)) \in 0..(Cardinality(P) - 1)
<1>1. PICK B : B = Earlier(R, P, e)
  OBVIOUS
<1>2. B \in SUBSET P /\ e \in P /\ e \notin B
  BY <1>1 DEF Earlier, IsOrder
<1>3. IsFiniteSet(B) /\ Cardinality(B) <= Cardinality(P) /\ (Cardinality(P) = Cardinality(B) => P = B)
  BY <1>2, FS_Subset
<1>4. Cardinality(P) \in Nat /\ Cardinality(B) \in Nat
  BY <1>3, FS_CardinalityType
<1>5. Cardinality(P) # Cardinality(B)
  BY <1>2, <1>3
<1>6. Cardinality(B) \in 0..(Cardinality(P) - 1)
  BY <1>3, <1>4, <1>5
<1> QED
  BY <1>1, <1>4, <1>6

LEMMA ArrangementExists ==
  ASSUME NEW P, IsFiniteSet(P), NEW R, IsOrder(R, P)
  PROVE  \E s \in SetToSeqs(P) : Arranged(R, s)
<1>1. PICK n : n = Cardinality(P)
  OBVIOUS
<1>2. n \in Nat
  BY <1>1, FS_CardinalityType
<1>3. PICK rank : rank = [e \in P |-> Cardinality(Earlier(R, P, e))]
  OBVIOUS
<1>4. PICK T : T = 0..(n - 1)
  OBVIOUS
<1>5. IsFiniteSet(T) /\ Cardinality(T) = n
  <2>1. 0 \in Int /\ n - 1 \in Int
    BY <1>2
  <2>2. IsFiniteSet(T) /\ Cardinality(T) = IF 0 > n - 1 THEN 0 ELSE (n - 1) - 0 + 1
    BY <1>4, <2>1, FS_Interval
  <2> QED
    BY <1>2, <2>2
<1>6. rank \in Injection(P, T)
  <2>1. \A e \in P : rank[e] \in T
    BY <1>1, <1>3, <1>4, PlacesAreWithin
  <2>2. rank \in [P -> T]
    BY <1>3, <2>1
  <2>3. \A d, e \in P : rank[d] = rank[e] => d = e
    BY <1>3, PlacesDiffer
  <2> QED
    BY <2>2, <2>3 DEF Injection, IsInjective
<1>7. rank \in Surjection(P, T)
  BY <1>1, <1>5, <1>6, FS_Injection
<1>8. PICK s : s = [i \in 1..n |-> CHOOSE e \in P : rank[e] = i - 1]
  OBVIOUS
<1>9. ASSUME NEW i \in 1..n
      PROVE  s[i] \in P /\ rank[s[i]] = i - 1
  <2>1. i - 1 \in T
    BY <1>2, <1>4
  <2>2. \E e \in P : rank[e] = i - 1
    BY <1>7, <2>1 DEF Surjection
  <2> QED
    BY <1>8, <2>2
<1>10. s \in [1..n -> P]
  BY <1>8, <1>9
<1>11. \A i, j \in 1..n : i # j => s[i] # s[j]
  BY <1>2, <1>9
<1>12. s \in SetToSeqs(P)
  BY <1>1, <1>10, <1>11 DEF SetToSeqs
<1>13. ASSUME NEW i \in 1..n, NEW j \in 1..n, i < j
       PROVE  <<s[i], s[j]>> \in R
  <2>1. s[i] \in P /\ s[j] \in P /\ rank[s[i]] = i - 1 /\ rank[s[j]] = j - 1
    BY <1>9
  <2>2. s[i] # s[j]
    BY <1>2, <1>11, <1>13
  <2>3. SUFFICES ASSUME <<s[j], s[i]>> \in R
                 PROVE  FALSE
    BY <2>1, <2>2 DEF IsOrder
  <2>4. rank[s[j]] < rank[s[i]]
    BY <1>3, <2>1, <2>3, EarlierGrows
  <2> QED
    BY <1>2, <1>13, <2>1, <2>4
<1>14. Arranged(R, s)
  BY <1>10, <1>13 DEF Arranged
<1> QED
  BY <1>12, <1>14

\* In whatever arrangement, everybody stands at the place there is for them.
LEMMA PlacesInArrangement ==
  ASSUME NEW P, IsFiniteSet(P), NEW R, IsOrder(R, P), NEW s \in SetToSeqs(P), Arranged(R, s),
         NEW i \in DOMAIN s
  PROVE  s[i] \in P /\ Cardinality(Earlier(R, P, s[i])) = i - 1
<1>1. PICK n : n = Cardinality(P)
  OBVIOUS
<1>2. n \in Nat
  BY <1>1, FS_CardinalityType
<1>3. s \in [1..n -> P] /\ DOMAIN s = 1..n /\ \A j, k \in 1..n : j # k => s[j] # s[k]
  BY <1>1 DEF SetToSeqs
<1>4. s \in Injection(1..n, P)
  BY <1>3 DEF Injection, IsInjective
<1>5. Cardinality(1..n) = n
  <2>1. Cardinality(1..n) = IF 1 > n THEN 0 ELSE n - 1 + 1
    BY <1>2, FS_Interval
  <2> QED
    BY <1>2, <2>1
<1>6. s \in Surjection(1..n, P)
  BY <1>1, <1>4, <1>5, FS_Injection
<1>7. i \in 1..n /\ i - 1 \in Nat
  BY <1>2, <1>3
<1>8. PICK B : B = Earlier(R, P, s[i])
  OBVIOUS
<1>9. PICK first : first = [k \in 1..(i - 1) |-> s[k]]
  OBVIOUS
<1>10. ASSUME NEW k \in 1..(i - 1)
       PROVE  k \in 1..n /\ first[k] = s[k] /\ s[k] \in B
  <2>1. k \in 1..n /\ k < i
    BY <1>2, <1>7, <1>10
  <2>2. <<s[k], s[i]>> \in R
    BY <1>3, <1>7, <2>1 DEF Arranged
  <2> QED
    BY <1>3, <1>8, <1>9, <1>10, <2>1, <2>2 DEF Earlier
<1>11. ASSUME NEW d \in B
       PROVE  \E k \in 1..(i - 1) : first[k] = d
  <2>1. d \in P /\ <<d, s[i]>> \in R
    BY <1>8 DEF Earlier
  <2>2. PICK k \in 1..n : s[k] = d
    BY <1>6, <2>1 DEF Surjection
  <2>3. k # i
    BY <1>3, <1>7, <2>1, <2>2 DEF IsOrder
  <2>4. ~(i < k)
    <3>1. SUFFICES ASSUME i < k
                   PROVE  FALSE
      OBVIOUS
    <3>2. <<s[i], s[k]>> \in R
      BY <1>3, <1>7, <3>1 DEF Arranged
    <3>3. s[i] \in P /\ <<s[i], s[i]>> \in R
      BY <1>3, <1>7, <2>1, <2>2, <3>2 DEF IsOrder
    <3> QED
      BY <3>3 DEF IsOrder
  <2>5. k \in 1..(i - 1)
    BY <1>2, <1>7, <2>2, <2>3, <2>4
  <2> QED
    BY <1>10, <2>2, <2>5
<1>12. first \in Bijection(1..(i - 1), B)
  <2>1. first \in [1..(i - 1) -> B]
    BY <1>9, <1>10
  <2>2. \A j, k \in 1..(i - 1) : first[j] = first[k] => j = k
    BY <1>3, <1>10
  <2> QED
    BY <1>11, <2>1, <2>2 DEF Bijection, Injection, Surjection, IsInjective
<1>13. Cardinality(B) = i - 1
  BY <1>7, <1>12, FS_CountingElements DEF ExistsBijection
<1> QED
  BY <1>3, <1>7, <1>8, <1>13

-----------------------------------------------------------------------------
(* What a list or an export has that nothing has come between, while no    *)
(* provider has failed it.                                                 *)

ShownTo(s) == FilterVisibleFields(org, s.viewer)
HiredOnes == {e \in Employees : Hired(e)}
KnowsAll(s) == DOMAIN s.audiences = HiredOnes
AudiencesHold(s) ==
  \A e \in DOMAIN s.audiences : e \in HiredOnes /\ s.audiences[e] = AudienceOf(org, s.viewer, e)

IsAtPlace(s, e, n) == e \in ShouldList(s) /\ PlaceOf(s, e) = n
Offset(s) == (s.page - 1) * s.pageSize
LengthOf(n, offset, size) == IF n <= offset THEN 0 ELSE IF n >= offset + size THEN size ELSE n - offset

\* A row before and after the mask: what may be seen in it is what there is.
RowIsRead(s, row) ==
  /\ DOMAIN row.cells = Ids(ShownTo(s))
  /\ \A id \in Ids(ShownTo(s)) \ {"project_names"} :
       MaySee(org, s.viewer, row.employee, id) => row.cells[id] = CurrentValue(row.employee, id)
RowIsMasked(s, row) ==
  /\ DOMAIN row.cells = {id \in Ids(ShownTo(s)) : MaySee(org, s.viewer, row.employee, id)}
  /\ \A id \in DOMAIN row.cells : row.cells[id] = CurrentValue(row.employee, id)

\* The pages of an export so far, and the page at hand.
PagesAreExact(s) ==
  /\ Len(s.rows) = Offset(s) /\ Offset(s) <= Cardinality(ShouldList(s))
  /\ s.rows # <<>> => \A f \in s.filters : f.field \in Ids(ShownTo(s))
  /\ \A i \in 1..Len(s.rows) : IsAtPlace(s, s.rows[i].employee, i - 1) /\ RowIsMasked(s, s.rows[i])
BatchIsExact(s) ==
  /\ s.total = Cardinality(ShouldList(s)) /\ Len(s.batch) = LengthOf(s.total, Offset(s), s.pageSize)
  /\ \A i \in 1..Len(s.batch) : IsAtPlace(s, s.batch[i].employee, Offset(s) + i - 1) /\ RowIsRead(s, s.batch[i])

\* What was asked for; an export reads its pages from the first one on.
AskedFor(s) ==
  /\ s.kind \in {"list", "export"} /\ s.order \in {"asc", "desc"} /\ s.down = {}
  /\ s.kind = "list" => s.rows = <<>> /\ ~s.kept /\ s.pc \notin {"columns", "prepare"}
  /\ s.kind = "export" => s.pageSize = MaxPageSize /\ s.page >= 1
  /\ s.pc \in {"columns", "prepare"} => s.rows = <<>> /\ s.page = 1 /\ s.visible = {} /\ ~s.kept
  /\ s.visible \in {{}, ShownTo(s)}

Looked(s) == s.pc \in {"roster", "values", "cache", "mask"} \/ (s.pc = "everyone" /\ s.visible # {})
LookHolds(s) == s.visible = ShownTo(s) /\ ValidQuery(s, s.filters, s.visible)
ExportHolds(s) ==
  /\ s.pc # "columns" => s.columns \subseteq Ids(ShownTo(s))
  /\ s.kept /\ s.pc # "everyone" => KnowsAll(s)
  /\ PagesAreExact(s)

FoundIsExact(s) ==
  s.found = [e \in {e \in HiredOnes : UsesProvider(s.filters) => AudienceOf(org, s.viewer, e).sections["S12"] # "none"} |->
               roster[e]]

ListHolds(s) ==
  /\ AskedFor(s) /\ AudiencesHold(s)
  /\ Looked(s) => LookHolds(s)
  /\ s.kind = "export" => ExportHolds(s)
  /\ s.pc \in {"roster", "values"} /\ NeedsAudiences(s, s.filters, s.visible) => KnowsAll(s)
  /\ s.pc = "values" => FoundIsExact(s)
  /\ s.pc \in {"cache", "mask"} => BatchIsExact(s)
ListUndisturbed(c, s) == s.pc \in ListStages /\ steady[c] /\ s.failed = {} => ListHolds(s)

PlacesFit ==
  /\ DOMAIN roster = Employees /\ \A e \in Employees : Hired(e) => RowHasPlaces(roster[e])
  /\ \A k \in Employees \X FieldIds : stored[k] # Null => HasPlace(ValueOf(k[1], k[2]))
  /\ \A c \in Calls : At(c, "append") => RowHasPlaces(roster[call[c].subject])
ListsInv == PlacesFit /\ \A c \in Calls : ListUndisturbed(c, call[c])

-----------------------------------------------------------------------------
(* A request that nothing comes between has the tables it began with.      *)

SameTables == org' = org /\ definitions' = definitions /\ stored' = stored /\ roster' = roster

LEMMA FieldsStaySame ==
  ASSUME SameTables, NEW viewer
  PROVE  /\ \A e : Hired(e)' = Hired(e)
         /\ ListFields' = ListFields
         /\ FilterVisibleFields(org, viewer)' = FilterVisibleFields(org, viewer)
<1>1. /\ \A e : Hired(e)' = Hired(e)
      /\ \A f : Defined(f)' = Defined(f)
  BY DEF SameTables, Hired, Defined
<1>2. ListFields' = ListFields
  BY <1>1 DEF SameTables, ListFields
<1>3. /\ CatalogAccess(org, viewer)' = CatalogAccess(org, viewer)
      /\ \A visibility : CanViewFieldDefinition(org, viewer, visibility)' = CanViewFieldDefinition(org, viewer, visibility)
  <2>1. SampledAudiences(org, viewer)' = SampledAudiences(org, viewer)
    BY <1>1 DEF SameTables, SampledAudiences, FirstReport, FirstPartnered, FirstOnProject
  <2>2. Elevated(org, viewer)' = Elevated(org, viewer)
    BY DEF SameTables, Elevated, FirstReport, FirstPartnered, OnProjectOf
  <2>3. CatalogAudience(org, viewer)' = CatalogAudience(org, viewer)
    BY <1>1 DEF SameTables, CatalogAudience
  <2> QED
    BY <2>1, <2>2, <2>3 DEF SameTables, CatalogAccess, CanViewFieldDefinition
<1>4. FilterVisibleFields(org, viewer)' = FilterVisibleFields(org, viewer)
  BY <1>2, <1>3 DEF SameTables, FilterVisibleFields
<1> QED
  BY <1>1, <1>2, <1>4

LEMMA ValuesStaySame ==
  ASSUME SameTables, NEW viewer, NEW e, NEW id
  PROVE  MaySee(org, viewer, e, id)' = MaySee(org, viewer, e, id) /\ CurrentValue(e, id)' = CurrentValue(e, id)
<1>1. MaySee(org, viewer, e, id)' = MaySee(org, viewer, e, id)
  BY DEF SameTables, MaySee, CanViewFieldForSubject
<1>2. CurrentValue(e, id)' = CurrentValue(e, id)
  BY DEF SameTables, CurrentValue, ValueOf, ProjectNames, CellValue
<1> QED
  BY <1>1, <1>2

LEMMA PlacesStaySame ==
  ASSUME SameTables, NEW s
  PROVE  /\ ShouldList(s)' = ShouldList(s)
         /\ \A e : PlaceOf(s, e)' = PlaceOf(s, e)
<1>1. ShouldList(s)' = ShouldList(s)
  BY FieldsStaySame, ValuesStaySame DEF ShouldList
<1>2. \A d, e : StandsBefore(s, d, e)' = StandsBefore(s, d, e)
  BY ValuesStaySame DEF StandsBefore, UsedValue
<1> QED
  BY <1>1, <1>2 DEF PlaceOf

LEMMA ListStaysExact ==
  ASSUME SameTables, NEW s, ListHolds(s)
  PROVE  ListHolds(s)'
<1>1. ShownTo(s)' = ShownTo(s) /\ ListFields' = ListFields /\ HiredOnes' = HiredOnes
  BY FieldsStaySame DEF ShownTo, HiredOnes
<1>2. /\ \A e, id : MaySee(org, s.viewer, e, id)' = MaySee(org, s.viewer, e, id) /\ CurrentValue(e, id)' = CurrentValue(e, id)
      /\ ShouldList(s)' = ShouldList(s) /\ \A e : PlaceOf(s, e)' = PlaceOf(s, e)
  BY ValuesStaySame, PlacesStaySame
<1>3. \A row : RowIsRead(s, row)' = RowIsRead(s, row) /\ RowIsMasked(s, row)' = RowIsMasked(s, row)
  BY <1>1, <1>2 DEF RowIsRead, RowIsMasked
<1>4. PagesAreExact(s)' = PagesAreExact(s) /\ BatchIsExact(s)' = BatchIsExact(s)
  BY <1>1, <1>2, <1>3 DEF PagesAreExact, BatchIsExact, IsAtPlace
<1>5. AudiencesHold(s)' = AudiencesHold(s) /\ FoundIsExact(s)' = FoundIsExact(s) /\ KnowsAll(s)' = KnowsAll(s)
  BY <1>1 DEF SameTables, AudiencesHold, FoundIsExact, KnowsAll
<1> QED
  BY <1>1, <1>4, <1>5 DEF ListHolds, AskedFor, LookHolds, ExportHolds

-----------------------------------------------------------------------------
(* Where a request goes that is served.                                    *)

LEMMA RegistryGoes ==
  ASSUME ShowsInv, NEW c \in Calls, ServeRegistry(c)
  PROVE  /\ call'[c].pc \notin ListStages /\ \A d \in Calls \ {c} : call'[d] = call[d]
         /\ call'[c].pc = "append" => call'[c].subject \in Employees /\ Hired(call'[c].subject)
<1>1. DOMAIN call = Calls /\ "pc" \in DOMAIN call[c]
  BY SeesByKind DEF ShowsInv, TablesFit
<1>2. ASSUME NEW pc, Goto(c, pc), pc \notin ListStages \cup {"append"}
      PROVE  /\ call'[c].pc \notin ListStages /\ call'[c].pc # "append" /\ \A d \in Calls \ {c} : call'[d] = call[d]
  BY <1>1, <1>2 DEF Goto
<1>3. ASSUME NEW answer, Answer(c, answer)
      PROVE  /\ call'[c].pc \notin ListStages /\ call'[c].pc # "append" /\ \A d \in Calls \ {c} : call'[d] = call[d]
  BY <1>1, <1>3 DEF Answer, Become, ListStages
<1>4. CASE MayManage(c) \/ GateSet(c) \/ MayWrite(c) \/ SetValue(c)
  BY <1>2, <1>4 DEF MayManage, GateSet, MayWrite, SetValue, ListStages
<1>5. CASE DefineField(c)
  <2>1. CASE Refuse(c)
    BY <1>2, <2>1 DEF Refuse, ListStages
  <2>2. CASE ~Refuse(c)
    <3>1. PICK f : Become(c, [call[c] EXCEPT !.pc = "done", !.field = f])
      BY <1>5, <2>2 DEF DefineField
    <3> QED
      BY <1>1, <3>1 DEF Become, ListStages
  <2> QED
    BY <2>1, <2>2
<1>6. CASE WritableField(c)
  <2>1. CASE Goto(c, "append")
    <3>1. SetState(c, call[c])
      BY <1>6, SeesByPlace DEF WritableField, At, ShowsInv
    <3>2. Hired(call[c].subject)
      <4>1. ~Goto(c, "refused")
        BY <1>1, <2>1 DEF Goto
      <4> QED
        BY <1>6, <4>1 DEF WritableField
    <3>3. call'[c].pc = "append" /\ call'[c].subject = call[c].subject /\ \A d \in Calls \ {c} : call'[d] = call[d]
      BY <1>1, <2>1, <3>1 DEF Goto, SetState
    <3> QED
      BY <3>1, <3>2, <3>3 DEF ListStages, SetState
  <2>2. CASE Goto(c, "gate") \/ Goto(c, "refused")
    BY <1>2, <2>2 DEF ListStages
  <2> QED
    BY <1>6, <2>1, <2>2 DEF WritableField
<1>7. CASE ReadBack(c) \/ SetBuiltinFieldValue(c) \/ QueryValues(c)
  BY <1>2, <1>3, <1>7 DEF ReadBack, SetBuiltinFieldValue, QueryValues, Refuse, ListStages
<1>8. CASE ChooseDefinitions(c)
  <2>1. CASE Goto(c, "refused")
    BY <1>2, <2>1 DEF ListStages
  <2>2. CASE ~Goto(c, "refused")
    <3>1. PICK wanted : Become(c, [call[c] EXCEPT !.pc = "query", !.wanted = wanted])
      BY <1>8, <2>2 DEF ChooseDefinitions
    <3> QED
      BY <1>1, <3>1 DEF Become, ListStages
  <2> QED
    BY <2>1, <2>2
<1> QED
  BY <1>4, <1>5, <1>6, <1>7, <1>8 DEF ServeRegistry

LEMMA RecordGoes ==
  ASSUME RecordsInv, RecordsInv', NEW c \in Calls, ServeRecord(c) \/ RowFails(c)
  PROVE  call'[c].pc \notin ListStages \cup {"append"} /\ \A d \in Calls \ {c} : call'[d] = call[d]
<1>1. RecordState(call[c]) /\ DOMAIN call = Calls
  BY RecordServed, OpsByPlace DEF RecordsInv, CallsFit
<1>2. "op" \in DOMAIN call'[c]
  BY <1>1, FieldsStay DEF RecordState, RecordFields
<1>3. PICK t : t = call'[c]
  OBVIOUS
<1>4. RecordState(t)
  BY <1>2, <1>3 DEF RecordsInv, CallsFit, RecordState, Elsewhere
<1>5. t.pc \in RecordPcs \cup Answers
  BY <1>4, OpsByPlace
<1> QED
  BY <1>1, <1>3, <1>5, RecordsServedAlone DEF RecordPcs, Answers, ListStages, MovesAlone

-----------------------------------------------------------------------------
(* Whatever is shown in a cell has a place in the order of its kind.       *)

LEMMA StoredValuesHavePlaces ==
  ASSUME NEW d, NEW ask \in SetOrders, NEW value, value = ask.value, value # Null, Fits(d, value),
         NEW kept, kept = FromStorage(d.type, StorageColumns(d.type, value))
  PROVE  HasPlace(kept)
<1>1. kept = value \/ (d.type = "date" /\ kept # value)
  BY StoredValuesFit DEF IsNoDay
<1>2. HasPlace(value)
  BY OrderAssumption
<1>3. CASE d.type = "date"
  <2>1. value[1] = "string" /\ DayOf(value[2]) # Null
    BY <1>3 DEF Fits
  <2>2. kept = <<"string", IsoOf(DayOf(value[2]))>>
    BY <1>3, <2>1, RegistryAssumption DEF FromStorage, StorageColumns, NoColumns
  <2> QED
    BY <2>1, <2>2, OrderAssumption
<1> QED
  BY <1>1, <1>2, <1>3

\* Nothing is stored, every row has places, and nobody begins to append for
\* somebody who has none.
LEMMA PlacesStayFit ==
  ASSUME ShowsInv, PlacesFit, stored' = stored,
         \A f \in FieldIds : Defined(f) => definitions'[f] = definitions[f],
         DOMAIN roster' = Employees,
         \A e \in Employees : roster'[e] # Null \/ RowHasPlaces(roster[e]) => RowHasPlaces(roster'[e]),
         \A d \in Calls : call'[d].pc = "append" =>
           call'[d] = call[d] \/ (call'[d].subject \in Employees /\ Hired(call'[d].subject))
  PROVE  PlacesFit'
<1>1. \A e \in Employees : Hired(e)' => RowHasPlaces(roster[e])'
  BY DEF Hired, RowHasPlaces
<1>2. ASSUME NEW k \in Employees \X FieldIds, stored'[k] # Null
      PROVE  HasPlace(ValueOf(k[1], k[2]))'
  <2>1. PICK e \in Employees, f \in FieldIds : k = <<e, f>>
    OBVIOUS
  <2>2. stored[k] # Null /\ Defined(f)
    BY <1>2, <2>1 DEF ShowsInv, ValuesFit
  <2>3. ValueOf(e, f)' = ValueOf(e, f)
    BY <2>1, <2>2 DEF ValueOf
  <2>4. HasPlace(ValueOf(e, f))
    BY <2>1, <2>2 DEF PlacesFit
  <2> QED
    BY <2>1, <2>3, <2>4 DEF HasPlace
<1>3. ASSUME NEW d \in Calls, At(d, "append")'
      PROVE  RowHasPlaces(roster[call[d].subject])'
  <2>1. PICK e : e = call'[d].subject
    OBVIOUS
  <2>2. e \in Employees /\ RowHasPlaces(roster[e])
    <3>1. CASE call'[d] = call[d]
      <4>1. At(d, "append")
        BY <1>3, <3>1 DEF At
      <4> QED
        BY <2>1, <3>1, <4>1, SeesByPlace DEF PlacesFit, ShowsInv, SetState, At
    <3>2. CASE call'[d] # call[d]
      BY <1>3, <2>1, <3>2 DEF At, PlacesFit
    <3> QED
      BY <3>1, <3>2
  <2>3. RowHasPlaces(roster'[e])
    BY <2>2
  <2> QED
    BY <2>1, <2>3 DEF RowHasPlaces
<1> QED
  BY <1>1, <1>2, <1>3 DEF PlacesFit

LEMMA StoringFits ==
  ASSUME ShowsInv, PlacesFit, NEW c \in Calls, SetValue(c)
  PROVE  PlacesFit'
<1>1. SetState(c, call[c]) /\ call[c].pc = "store"
  BY SeesByPlace DEF SetValue, At, ShowsInv
<1>2. PICK s : s = call[c]
  OBVIOUS
<1>3. /\ s.subject \in Employees /\ s.field \in FieldIds /\ Defined(s.field) /\ Fits(definitions[s.field], s.value)
      /\ \E ask \in SetOrders : s.value = ask.value
  BY <1>1, <1>2 DEF SetState
<1>4. PICK key : key = <<s.subject, s.field>>
  OBVIOUS
<1>5. PICK row : row = AsStored(s)
  OBVIOUS
<1>6. stored' = [stored EXCEPT ![key] = row] /\ definitions' = definitions /\ roster' = roster
  BY <1>2, <1>4, <1>5 DEF SetValue, AsStored
<1>7. DOMAIN stored = Employees \X FieldIds
  BY DEF ShowsInv, TablesFit
<1>8. ASSUME row # Null
      PROVE  HasPlace(FromStorage(definitions[s.field].type, row))
  <2>1. s.value # Null /\ row = StorageColumns(definitions[s.field].type, s.value)
    BY <1>5, <1>8 DEF AsStored
  <2>2. PICK ask \in SetOrders : s.value = ask.value
    BY <1>3
  <2> QED
    BY <1>3, <2>1, <2>2, StoredValuesHavePlaces
<1>9. ASSUME NEW k \in Employees \X FieldIds, stored'[k] # Null
      PROVE  HasPlace(ValueOf(k[1], k[2]))'
  <2>1. PICK e \in Employees, f \in FieldIds : k = <<e, f>>
    OBVIOUS
  <2>2. CASE k = key
    <3>1. e = s.subject /\ f = s.field /\ stored'[<<e, f>>] = row /\ row # Null
      BY <1>3, <1>4, <1>6, <1>7, <1>9, <2>1, <2>2
    <3>2. ValueOf(e, f)' = FromStorage(definitions[s.field].type, row)
      BY <1>6, <3>1 DEF ValueOf
    <3> QED
      BY <1>8, <2>1, <3>1, <3>2 DEF HasPlace
  <2>3. CASE k # key
    <3>1. stored'[k] = stored[k]
      BY <1>6, <1>7, <2>3
    <3>2. ValueOf(e, f)' = ValueOf(e, f)
      BY <1>6, <2>1, <3>1 DEF ValueOf
    <3>3. HasPlace(ValueOf(e, f))
      BY <1>9, <2>1, <3>1 DEF PlacesFit
    <3> QED
      BY <2>1, <3>2, <3>3 DEF HasPlace
  <2> QED
    BY <2>2, <2>3
<1>10. \A d \in Calls : call'[d].pc = "append" => call'[d] = call[d]
  BY <1>1 DEF SetValue, Goto, ShowsInv, TablesFit, SetState
<1>11. \A d \in Calls : At(d, "append")' => RowHasPlaces(roster[call[d].subject])'
  BY <1>6, <1>10 DEF At, PlacesFit, RowHasPlaces
<1>12. \A e \in Employees : Hired(e)' => RowHasPlaces(roster[e])'
  BY <1>6 DEF PlacesFit, Hired, RowHasPlaces
<1> QED
  BY <1>6, <1>9, <1>11, <1>12 DEF PlacesFit

LEMMA AppendingFits ==
  ASSUME ShowsInv, PlacesFit, NEW c \in Calls, SetBuiltinFieldValue(c)
  PROVE  PlacesFit'
<1>1. SetState(c, call[c]) /\ call[c].pc = "append"
  BY SeesByPlace DEF SetBuiltinFieldValue, At, ShowsInv
<1>2. \A d \in Calls : call'[d].pc = "append" =>
        call'[d] = call[d] \/ (call'[d].subject \in Employees /\ Hired(call'[d].subject))
  BY RegistryGoes DEF ServeRegistry
<1>3. CASE Refuse(c) /\ UNCHANGED registryVars
  <2>1. roster' = roster /\ definitions' = definitions /\ stored' = stored
    BY <1>3 DEF registryVars
  <2> QED
    BY <1>2, <2>1, PlacesStayFit DEF PlacesFit, Hired
<1>4. CASE ~(Refuse(c) /\ UNCHANGED registryVars)
  <2>1. PICK s : s = call[c]
    OBVIOUS
  <2>2. /\ roster' = [roster EXCEPT ![s.subject][s.field] = s.value]
        /\ definitions' = definitions /\ stored' = stored
    BY <1>4, <2>1 DEF SetBuiltinFieldValue
  <2>3. /\ s.subject \in Employees /\ s.field \in Builtin /\ \E ask \in SetOrders : s.value = ask.value
        /\ RowHasPlaces(roster[s.subject])
    BY <1>1, <2>1 DEF SetState, PlacesFit, At
  <2>4. PICK row : row = roster[s.subject]
    OBVIOUS
  <2>5. PICK new : new = [row EXCEPT ![s.field] = s.value]
    OBVIOUS
  <2>6. RowHasPlaces(row) /\ HasPlace(s.value) /\ s.field \in SnapshotColumns
        /\ s.field \notin {"since", "open", "mentors", "assessed", "openIdp"}
    BY <2>3, <2>4, OrderAssumption DEF PlacesFit, Builtin, SnapshotColumns
  <2>7. DOMAIN new = DOMAIN row /\ new[s.field] = s.value /\ \A id \in DOMAIN row \ {s.field} : new[id] = row[id]
    BY <2>5, <2>6 DEF RowHasPlaces
  <2>8. RowHasPlaces(new)
    <3>1. new.since = row.since /\ new.open = row.open /\ new.mentors = row.mentors
          /\ new.assessed = row.assessed /\ new.openIdp = row.openIdp
      BY <2>6, <2>7 DEF RowHasPlaces
    <3>2. \A id \in SnapshotColumns : HasPlace(new[id])
      BY <2>6, <2>7 DEF RowHasPlaces
    <3> QED
      BY <2>6, <2>7, <3>1, <3>2 DEF RowHasPlaces, MentorStatus
  <2>9. DOMAIN roster' = Employees /\ roster'[s.subject] = new /\ \A e \in Employees \ {s.subject} : roster'[e] = roster[e]
    BY <2>2, <2>3, <2>4, <2>5 DEF PlacesFit
  <2> QED
    BY <1>2, <2>2, <2>8, <2>9, PlacesStayFit DEF PlacesFit, Hired
<1> QED
  BY <1>3, <1>4

\* The steps that neither store a value nor append a row.
LEMMA OthersFit ==
  ASSUME RecordsInv, RecordsInv', ShowsInv, PlacesFit, NEW c \in Calls,
         \/ ServeRegistry(c) /\ ~SetValue(c) /\ ~SetBuiltinFieldValue(c)
         \/ ServeList(c)
         \/ (ServeRecord(c) \/ RowFails(c)) /\ UNCHANGED registryVars
  PROVE  PlacesFit'
<1>1. /\ stored' = stored /\ roster' = roster
      /\ \A f \in FieldIds : Defined(f) => definitions'[f] = definitions[f]
  <2>1. CASE DefineField(c)
    BY <2>1 DEF DefineField, registryVars, ShowsInv, TablesFit
  <2>2. CASE ServeRegistry(c) /\ ~SetValue(c) /\ ~SetBuiltinFieldValue(c) /\ ~DefineField(c)
    BY <2>2 DEF ServeRegistry, MayManage, WritableField, GateSet, MayWrite, ReadBack, ChooseDefinitions, QueryValues,
       registryVars
  <2>3. CASE ServeList(c)
    BY <2>3 DEF ServeList, ChooseColumns, Prepare, Look, ResolveEveryone, LoadEmployeeSnapshots, QueryEmployees,
       PageAudiences, MaskRows, registryVars
  <2> QED
    BY <2>1, <2>2, <2>3 DEF registryVars
<1>2. \A d \in Calls : call'[d].pc = "append" =>
        call'[d] = call[d] \/ (call'[d].subject \in Employees /\ Hired(call'[d].subject))
  BY RegistryGoes, RecordGoes, ListStaysElsewhere DEF ListStages, Answers, RecordsInv
<1> QED
  BY <1>1, <1>2, PlacesStayFit DEF PlacesFit, Hired

\* Whatever else happens: an answer, an arrival, a move of another system.
LEMMA InterruptionsFit ==
  ASSUME ShowsInv, PlacesFit,
         \/ Surroundings \/ Crash \/ UNCHANGED directoryVars \/ \E c \in Calls : Begin(c) \/ StatementFails(c)
  PROVE  PlacesFit'
<1>1. DOMAIN call = Calls /\ \A d \in Calls : "pc" \in DOMAIN call[d]
  BY SeesByKind DEF ShowsInv, TablesFit
<1>2. ASSUME stored' = stored, definitions' = definitions, roster' = roster,
             \A d \in Calls : call'[d].pc = "append" => call'[d] = call[d]
      PROVE  PlacesFit'
  BY <1>2, PlacesStayFit DEF PlacesFit, Hired
<1>3. CASE RosterMoves
  <2>1. /\ call' = call /\ definitions' = definitions /\ stored' = stored
        /\ roster' \in {next \in RosterTables \ {roster} : \A e \in Employees : Hired(e) => next[e] # Null}
    BY <1>3 DEF RosterMoves
  <2>2. /\ DOMAIN roster' = Employees /\ \A e \in Employees : roster'[e] # Null => RowHasPlaces(roster'[e])
        /\ \A e \in Employees : Hired(e) => roster'[e] # Null
    BY <2>1, OrderAssumption
  <2>3. ASSUME NEW e \in Employees, RowHasPlaces(roster[e]), roster'[e] = Null
        PROVE  RowHasPlaces(roster'[e])
    <3>1. roster[e] = Null
      BY <2>2, <2>3 DEF Hired
    <3> QED
      BY <2>3, <3>1
  <2> QED
    BY <2>1, <2>2, <2>3, PlacesStayFit
<1>4. CASE OrgMoves /\ RelatesTheHired(org') /\ UNCHANGED <<call, registryVars, recordVars, work>>
  BY <1>2, <1>4 DEF registryVars
<1>5. CASE Crash
  BY <1>1, <1>2, <1>5 DEF Crash, registryVars
<1>6. CASE UNCHANGED directoryVars
  BY <1>2, <1>6 DEF directoryVars, requestVars, registryVars
<1>7. ASSUME NEW c \in Calls, StatementFails(c)
      PROVE  PlacesFit'
  BY <1>1, <1>2, <1>7 DEF StatementFails, Fail, Goto, registryVars
<1>8. ASSUME NEW c \in Calls, Begin(c)
      PROVE  PlacesFit'
  <2>1. definitions' = definitions /\ stored' = stored /\ roster' = roster
    BY <1>8 DEF Begin, BeginRegistry, BeginList, registryVars
  <2>2. PICK s : Become(c, s) /\ s.pc # "append"
    <3>1. CASE BeginRegistry(c)
      <4>1. CASE BeginDefine(c)
        <5>1. PICK viewer, d : Become(c, [pc |-> "permit", viewer |-> viewer, draft |-> d, field |-> Null])
          BY <4>1 DEF BeginDefine
        <5> QED
          BY <5>1
      <4>2. CASE BeginSet(c)
        <5>1. PICK ask : Become(c, [pc |-> IF ask.route = "fields" THEN "gate" ELSE "writable", viewer |-> ask.viewer,
                            subject |-> ask.subject, field |-> ask.field, value |-> ask.value, answer |-> Null])
          BY <4>2 DEF BeginSet
        <5> QED
          BY <5>1
      <4>3. CASE BeginValues(c)
        <5>1. PICK ask : Become(c, [pc |-> "wanted", route |-> ask.route, viewer |-> ask.viewer, subject |-> ask.subject,
                            wanted |-> {}, answer |-> Null])
          BY <4>3 DEF BeginValues
        <5> QED
          BY <5>1
      <4> QED
        BY <3>1, <4>1, <4>2, <4>3 DEF BeginRegistry
    <3>2. CASE BeginList(c)
      BY <3>2 DEF BeginList
    <3>3. CASE BeginRecord(c)
      BY <3>3 DEF BeginRecord
    <3> QED
      BY <1>8, <3>1, <3>2, <3>3 DEF Begin
  <2>3. \A d \in Calls : call'[d].pc = "append" => call'[d] = call[d]
    BY <1>1, <2>2 DEF Become
  <2> QED
    BY <1>2, <2>1, <2>3
<1> QED
  BY <1>3, <1>4, <1>5, <1>6, <1>7, <1>8 DEF Surroundings

LEMMA PlacesStepKeep ==
  ASSUME RecordsInv, RecordsInv', ShowsInv, PlacesFit, [Next]_directoryVars
  PROVE  PlacesFit'
BY StoringFits, AppendingFits, OthersFit, InterruptionsFit DEF Next, Serve

-----------------------------------------------------------------------------
(* What others leave of a list that is exact.                              *)

LEMMA ListLeftExact ==
  ASSUME ListsInv, NEW d \in Calls,
         \/ call'[d].pc \notin ListStages
         \/ /\ call'[d] = call[d]
            /\ call[d].pc \in ListStages /\ steady'[d] => steady[d] /\ SameTables
  PROVE  ListUndisturbed(d, call[d])'
<1>1. SUFFICES ASSUME call'[d].pc \in ListStages, steady'[d], call'[d].failed = {}
               PROVE  ListHolds(call[d])'
  BY DEF ListUndisturbed
<1>2. call'[d] = call[d] /\ steady[d] /\ SameTables
  BY <1>1
<1>3. PICK s : s = call[d]
  OBVIOUS
<1>4. ListHolds(s)
  BY <1>1, <1>2, <1>3 DEF ListsInv, ListUndisturbed
<1>5. ListHolds(s)'
  BY <1>2, <1>4, ListStaysExact
<1> QED
  BY <1>2, <1>3, <1>5

LEMMA RegistryCommitsOrReads ==
  ASSUME NEW c, ServeRegistry(c)
  PROVE  Commits(c) \/ (Reads /\ UNCHANGED registryVars)
BY DEF ServeRegistry, MayManage, DefineField, WritableField, GateSet, MayWrite, SetValue, ReadBack,
   SetBuiltinFieldValue, ChooseDefinitions, QueryValues, Refuse

\* A request that is served leaves the others exact, or disturbed.
LEMMA ServingLeavesLists ==
  ASSUME RecordsInv, RecordsInv', ShowsInv, ListsInv, NEW c \in Calls, Serve(c), NEW d \in Calls, d # c
  PROVE  ListUndisturbed(d, call[d])'
<1>1. call'[d] = call[d] /\ org' = org
  BY RegistryStaysElsewhere, ListStaysElsewhere, RecordGoes DEF Serve, RecordsInv, Proceeds, orgVars
<1>2. Commits(c) \/ UNCHANGED registryVars
  BY RegistryCommitsOrReads DEF Serve, ServeList, ChooseColumns, Prepare, Look, ResolveEveryone, LoadEmployeeSnapshots,
     QueryEmployees, PageAudiences, MaskRows
<1>3. (Reads \/ Commits(c)) /\ (ServeList(c) => Reads)
  BY OthersCommitOrRead, CommitsOrReads DEF Serve, ServeList, ChooseColumns, Prepare, Look, ResolveEveryone,
     LoadEmployeeSnapshots, QueryEmployees, PageAudiences, MaskRows
<1>4. steady'[d] => steady[d] /\ (Commits(c) => ~Waiting(d))
  BY <1>3 DEF Reads, Commits
<1>5. call[d].pc \in ListStages => Waiting(d)
  BY DEF ListStages, Waiting, Answers
<1> QED
  BY <1>1, <1>2, <1>4, <1>5, ListLeftExact DEF SameTables, registryVars

LEMMA ServedElsewhere ==
  ASSUME RecordsInv, RecordsInv', ShowsInv, ListsInv, NEW c \in Calls, ServeRegistry(c) \/ ServeRecord(c) \/ RowFails(c)
  PROVE  ListUndisturbed(c, call[c])'
BY RegistryGoes, RecordGoes, ListLeftExact

LEMMA InterruptionsLeaveLists ==
  ASSUME ShowsInv, ListsInv, NEW d \in Calls,
         \/ Surroundings \/ Crash \/ UNCHANGED directoryVars \/ \E c \in Calls : StatementFails(c)
         \/ \E c \in Calls : Begin(c) /\ ~(BeginList(c) /\ c = d)
  PROVE  ListUndisturbed(d, call[d])'
<1>1. DOMAIN call = Calls /\ \A c \in Calls : "pc" \in DOMAIN call[c]
  BY SeesByKind DEF ShowsInv, TablesFit
<1>2. call[d].pc \in ListStages => Waiting(d)
  BY DEF ListStages, Waiting, Answers
<1>3. CASE Surroundings
  <2>1. call' = call /\ steady' = [c \in Calls |-> steady[c] /\ ~Waiting(c)]
    BY <1>3 DEF Surroundings, RosterMoves, OrgMoves
  <2> QED
    BY <1>2, <2>1, ListLeftExact
<1>4. CASE Crash
  <2>1. call'[d] = IF Waiting(d) THEN [call[d] EXCEPT !.pc = "refused"] ELSE call[d]
    BY <1>4 DEF Crash
  <2>2. call'[d].pc \notin ListStages
    BY <1>1, <1>2, <2>1 DEF ListStages
  <2> QED
    BY <2>2, ListLeftExact
<1>5. CASE UNCHANGED directoryVars
  BY <1>5, ListLeftExact DEF directoryVars, requestVars, orgVars, registryVars, SameTables
<1>6. ASSUME NEW c \in Calls, StatementFails(c)
      PROVE  ListUndisturbed(d, call[d])'
  <2>1. Goto(c, "refused") /\ steady' = steady /\ SameTables
    BY <1>6 DEF StatementFails, Fail, Reads, Proceeds, orgVars, registryVars, SameTables
  <2>2. call'[d] = call[d] \/ call'[d].pc \notin ListStages
    BY <1>1, <2>1 DEF Goto, ListStages
  <2> QED
    BY <2>1, <2>2, ListLeftExact
<1>7. ASSUME NEW c \in Calls, Begin(c), ~(BeginList(c) /\ c = d)
      PROVE  ListUndisturbed(d, call[d])'
  <2>1. steady' = steady /\ SameTables
    BY <1>7 DEF Begin, BeginRegistry, BeginList, BeginRecord, Arrives, registryVars, SameTables
  <2>2. PICK s : Become(c, s) /\ (s.pc \in ListStages => BeginList(c))
    <3>1. CASE BeginRegistry(c)
      <4>1. CASE BeginDefine(c)
        BY <4>1 DEF BeginDefine, ListStages
      <4>2. CASE BeginSet(c)
        BY <4>2 DEF BeginSet, ListStages
      <4>3. CASE BeginValues(c)
        BY <4>3 DEF BeginValues, ListStages
      <4> QED
        BY <3>1, <4>1, <4>2, <4>3 DEF BeginRegistry
    <3>2. CASE BeginList(c)
      BY <3>2 DEF BeginList
    <3>3. CASE BeginRecord(c)
      BY <3>3 DEF BeginRecord, ListStages
    <3> QED
      BY <1>7, <3>1, <3>2, <3>3 DEF Begin
  <2>3. call'[d] = call[d] \/ call'[d].pc \notin ListStages
    BY <1>1, <1>7, <2>2 DEF Become
  <2> QED
    BY <2>1, <2>3, ListLeftExact
<1> QED
  BY <1>3, <1>4, <1>5, <1>6, <1>7

-----------------------------------------------------------------------------
(* The cells of a list: what is read for them, and what they are used for. *)

LEMMA CatalogIdsDiffer ==
  ASSUME NEW f \in ListFields, NEW g \in ListFields, f.id = g.id
  PROVE  f = g
<1>1. ASSUME NEW h \in ListFields
      PROVE  \/ h \in BuiltinFieldSpecs /\ h.id \notin FieldIds
             \/ /\ h.id \in FieldIds
                /\ h = [id |-> h.id, type |-> definitions[h.id].type, source |-> "custom", section |-> "S16",
                        sortable |-> TRUE, filterable |-> TRUE, editable |-> TRUE,
                        visibility |-> definitions[h.id].visibility]
  <2>1. CASE h \in BuiltinFieldSpecs
    BY <2>1, BuiltinSpecs
  <2>2. CASE h \notin BuiltinFieldSpecs
    BY <2>2 DEF ListFields
  <2> QED
    BY <2>1, <2>2
<1> QED
  BY <1>1, BuiltinSpecsDiffer

\* What is left to a viewer of a field: its kind, and whether it sorts and filters.
LEMMA VisibleFields ==
  ASSUME NEW o, NEW viewer, NEW f \in FilterVisibleFields(o, viewer)
  PROVE  /\ f.id \in Ids(ListFields) /\ f.type = Spec1(ListFields, f.id).type
         /\ f.sortable \/ f.filterable => f.id # "project_names"
         /\ \A g \in FilterVisibleFields(o, viewer) : g.id = f.id => g = f
<1>1. PICK catalog : catalog = CatalogAccess(o, viewer)
  OBVIOUS
<1>2. ASSUME NEW h \in FilterVisibleFields(o, viewer)
      PROVE  \E g \in ListFields :
               h = IF g.section = "S4" /\ ~catalog.elevated
                   THEN [g EXCEPT !.sortable = FALSE, !.filterable = FALSE] ELSE g
  BY <1>1 DEF FilterVisibleFields
<1>3. ASSUME NEW g \in ListFields
      PROVE  {"id", "type", "section", "sortable", "filterable"} \subseteq DOMAIN g
             /\ (g.id = "project_names" => g.sortable = FALSE /\ g.filterable = FALSE)
  <2>1. CASE g \in BuiltinFieldSpecs
    BY <2>1 DEF BuiltinFieldSpecs, Field
  <2>2. CASE g \notin BuiltinFieldSpecs
    <3>1. PICK i \in FieldIds :
            g = [id |-> i, type |-> definitions[i].type, source |-> "custom", section |-> "S16", sortable |-> TRUE,
                 filterable |-> TRUE, editable |-> TRUE, visibility |-> definitions[i].visibility]
      BY <2>2 DEF ListFields
    <3> QED
      BY <3>1, BuiltinSpecs
  <2> QED
    BY <2>1, <2>2
<1>4. PICK g \in ListFields :
        f = IF g.section = "S4" /\ ~catalog.elevated THEN [g EXCEPT !.sortable = FALSE, !.filterable = FALSE] ELSE g
  BY <1>2
<1>5. f.id = g.id /\ f.type = g.type /\ (f.sortable \/ f.filterable => g.sortable \/ g.filterable)
  BY <1>3, <1>4
<1>6. Spec1(ListFields, f.id) = g
  BY <1>5, CatalogIdsDiffer DEF Spec1
<1>7. ASSUME NEW h \in FilterVisibleFields(o, viewer), h.id = f.id
      PROVE  h = f
  <2>1. PICK k \in ListFields :
          h = IF k.section = "S4" /\ ~catalog.elevated THEN [k EXCEPT !.sortable = FALSE, !.filterable = FALSE] ELSE k
    BY <1>2
  <2>2. h.id = k.id
    BY <1>3, <2>1
  <2>3. k = g
    BY <1>5, <1>7, <2>2, CatalogIdsDiffer
  <2> QED
    BY <1>4, <2>1, <2>3
<1> QED
  BY <1>3, <1>5, <1>6, <1>7 DEF Ids

\* An undisturbed list whose snapshots have been read.
Loaded(s) ==
  /\ s.visible = ShownTo(s) /\ AudiencesHold(s) /\ FoundIsExact(s)
  /\ ValidQuery(s, s.filters, s.visible)
  /\ NeedsAudiences(s, s.filters, s.visible) => KnowsAll(s)

LEMMA ProvidedAreOnes ==
  ASSUME NEW e, NEW viewer, NEW id \in ProviderBacked
  PROVE  /\ id \notin FieldIds /\ id \notin SnapshotColumns \cup {"years_with_company", "mentor_status", "project_names"}
         /\ MaySee(org, viewer, e, id) <=> AudienceOf(org, viewer, e).sections["S12"] # "none"
         /\ CurrentValue(e, id) = IF id = "has_open_idp" THEN <<"boolean", roster[e].openIdp>> ELSE roster[e].assessed
<1>1. id \notin FieldIds /\ Spec1(BuiltinFieldSpecs, id).section = "S12"
  BY BuiltinSpecs
<1>2. id \in {"has_open_idp", "last_assessment_date"}
  BY DEF ProviderBacked
<1>3. MaySee(org, viewer, e, id) <=> AudienceOf(org, viewer, e).sections["S12"] # "none"
  BY <1>1 DEF MaySee
<1>4. CurrentValue(e, id) = IF id = "has_open_idp" THEN <<"boolean", roster[e].openIdp>> ELSE roster[e].assessed
  BY <1>1, <1>2 DEF CurrentValue
<1> QED
  BY <1>1, <1>2, <1>3, <1>4 DEF SnapshotColumns

LEMMA SuppressedAreHidden ==
  ASSUME NEW s, Loaded(s), NEW e \in Suppressed(s), NEW id \in ProviderBacked
  PROVE  ~MaySee(org, s.viewer, e, id)
<1>1. e \in DOMAIN s.audiences /\ s.audiences[e].sections["S12"] = "none"
  BY DEF Suppressed, S12Visible
<1>2. s.audiences[e] = AudienceOf(org, s.viewer, e)
  BY <1>1 DEF Loaded, AudiencesHold
<1> QED
  BY <1>1, <1>2, ProvidedAreOnes

LEMMA CustomIds ==
  ASSUME NEW s, Loaded(s), NEW id
  PROVE  id \in {f.id : f \in {f \in s.visible : f.source = "custom"}} <=> id \in Ids(s.visible) /\ id \in FieldIds
<1>1. \A f \in s.visible : FieldFits(f)
  BY VisibleFieldsFit DEF Loaded, ShownTo
<1>2. \A f \in s.visible : f.source = "custom" <=> f.id \in FieldIds
  BY <1>1 DEF FieldFits
<1> QED
  BY <1>2 DEF Ids

\* Where a cell of a field that is kept elsewhere comes from.
LEMMA ElsewhereIs ==
  ASSUME NEW s, Loaded(s), NEW x, x = ValuesElsewhere(s, {}), NEW e \in DOMAIN s.found, NEW id
  PROVE  /\ <<e, id>> \in DOMAIN x <=>
              /\ id \in Ids(s.visible)
              /\ id \in ProviderBacked \/ (id \in FieldIds /\ stored[<<e, id>>] # Null)
         /\ id \in Ids(s.visible) /\ id \in ProviderBacked =>
              x[<<e, id>>] = IF e \in Suppressed(s) THEN Null ELSE CurrentValue(e, id)
         /\ id \in Ids(s.visible) /\ id \in FieldIds /\ stored[<<e, id>>] # Null => x[<<e, id>>] = ValueOf(e, id)
<1>1. PICK asked : asked = Ids(s.visible) \cap ProviderBacked
  OBVIOUS
<1>2. PICK people : people = DOMAIN s.found
  OBVIOUS
<1>3. PICK custom : custom = {f.id : f \in {f \in s.visible : f.source = "custom"}}
  OBVIOUS
<1>4. PICK hidden : hidden = SuppressedMap(s, asked)
  OBVIOUS
<1>5. PICK given : given = ProviderValueMap(people, asked)
  OBVIOUS
<1>6. PICK own : own = CustomValueMap(people, s.visible)
  OBVIOUS
<1>7. x = Over(hidden, Over(given, own))
  <2>1. asked \ {} = asked
    OBVIOUS
  <2> QED
    BY <1>1, <1>2, <1>4, <1>5, <1>6, <2>1 DEF ValuesElsewhere
<1>8. id \in custom <=> id \in Ids(s.visible) /\ id \in FieldIds
  BY <1>3, CustomIds
<1>9. asked \cap FieldIds = {}
  BY <1>1, ProvidedAreOnes
<1>10. /\ <<e, id>> \in DOMAIN hidden <=> e \in Suppressed(s) /\ id \in asked
       /\ <<e, id>> \in DOMAIN hidden => hidden[<<e, id>>] = Null
  BY <1>4 DEF SuppressedMap
<1>11. /\ <<e, id>> \in DOMAIN given <=> id \in asked
       /\ id \in asked => given[<<e, id>>] = CurrentValue(e, id)
  <2>1. given = [k \in people \X asked |->
           IF k[2] = "has_open_idp" THEN <<"boolean", roster[k[1]].openIdp>> ELSE roster[k[1]].assessed]
    BY <1>5 DEF ProviderValueMap
  <2>2. <<e, id>> \in DOMAIN given <=> id \in asked
    BY <1>2, <2>1
  <2>3. id \in asked =>
          given[<<e, id>>] = IF id = "has_open_idp" THEN <<"boolean", roster[e].openIdp>> ELSE roster[e].assessed
    BY <1>2, <2>1
  <2> QED
    BY <1>1, <2>2, <2>3, ProvidedAreOnes
<1>12. /\ <<e, id>> \in DOMAIN own <=> id \in custom /\ stored[<<e, id>>] # Null
       /\ <<e, id>> \in DOMAIN own => own[<<e, id>>] = ValueOf(e, id)
  <2>1. own = [k \in {k \in people \X custom : stored[k] # Null} |-> ValueOf(k[1], k[2])]
    BY <1>3, <1>6 DEF CustomValueMap
  <2> QED
    BY <1>2, <2>1
<1>13. <<e, id>> \in DOMAIN x <=> <<e, id>> \in DOMAIN hidden \/ <<e, id>> \in DOMAIN given \/ <<e, id>> \in DOMAIN own
  BY <1>7 DEF Over
<1>14. /\ <<e, id>> \in DOMAIN hidden => x[<<e, id>>] = hidden[<<e, id>>]
       /\ <<e, id>> \notin DOMAIN hidden /\ <<e, id>> \in DOMAIN given => x[<<e, id>>] = given[<<e, id>>]
       /\ <<e, id>> \notin DOMAIN hidden /\ <<e, id>> \notin DOMAIN given /\ <<e, id>> \in DOMAIN own =>
            x[<<e, id>>] = own[<<e, id>>]
  BY <1>7 DEF Over
<1> QED
  BY <1>1, <1>8, <1>9, <1>10, <1>11, <1>12, <1>13, <1>14

\* What is read for a cell.
LEMMA CellsAreCurrent ==
  ASSUME NEW s, Loaded(s), NEW x, x = ValuesElsewhere(s, {}), NEW e \in DOMAIN s.found,
         NEW id \in Ids(s.visible) \cup {"name"}, id # "project_names"
  PROVE  CellValue(s.found[e], x, e, id) =
           IF id \in ProviderBacked /\ e \in Suppressed(s) THEN Null ELSE CurrentValue(e, id)
<1>1. s.found[e] = roster[e]
  BY DEF Loaded, FoundIsExact
<1>2. CASE id \in ProviderBacked
  <2>1. id \in Ids(s.visible)
    BY <1>2, ProvidedAreOnes DEF SnapshotColumns
  <2>2. <<e, id>> \in DOMAIN x /\ x[<<e, id>>] = IF e \in Suppressed(s) THEN Null ELSE CurrentValue(e, id)
    BY <1>2, <2>1, ElsewhereIs
  <2> QED
    BY <1>2, <2>2 DEF CellValue
<1>3. CASE id \in FieldIds
  <2>1. id \in Ids(s.visible) /\ id \notin ProviderBacked
        /\ id \notin SnapshotColumns \cup {"years_with_company", "mentor_status"}
    BY <1>3, ListAssumption, ProvidedAreOnes DEF SnapshotColumns, Ids, BuiltinFieldSpecs, Field
  <2>2. CurrentValue(e, id) = ValueOf(e, id)
    BY <1>3, <2>1 DEF CurrentValue, ProviderBacked
  <2>3. CASE stored[<<e, id>>] # Null
    <3>1. <<e, id>> \in DOMAIN x /\ x[<<e, id>>] = ValueOf(e, id)
      BY <1>3, <2>1, <2>3, ElsewhereIs
    <3> QED
      BY <2>1, <2>2, <3>1 DEF CellValue
  <2>4. CASE stored[<<e, id>>] = Null
    <3>1. <<e, id>> \notin DOMAIN x
      BY <1>3, <2>1, <2>4, ElsewhereIs
    <3>2. CellValue(s.found[e], x, e, id) = Null
      BY <2>1, <3>1 DEF CellValue, SnapshotColumns
    <3> QED
      BY <2>1, <2>2, <2>4, <3>2 DEF ValueOf
  <2> QED
    BY <2>3, <2>4
<1>4. CASE id \notin ProviderBacked /\ id \notin FieldIds
  <2>1. <<e, id>> \notin DOMAIN x
    BY <1>4, ElsewhereIs
  <2>2. CurrentValue(e, id) = CellValue(roster[e], NoAudiences, e, id)
    BY <1>4 DEF CurrentValue, ProviderBacked
  <2>3. CellValue(s.found[e], x, e, id) = CellValue(roster[e], NoAudiences, e, id)
    BY <1>1, <2>1 DEF CellValue, NoAudiences
  <2> QED
    BY <1>4, <2>2, <2>3
<1> QED
  BY <1>2, <1>3, <1>4

\* By what somebody is found, and where somebody stands.
LEMMA FoundAreListed ==
  ASSUME NEW s, Loaded(s)
  PROVE  Matching(s, {}) = ShouldList(s)
<1>1. PICK x : x = ValuesElsewhere(s, {})
  OBVIOUS
<1>2. /\ DOMAIN s.found \subseteq HiredOnes
      /\ \A e \in HiredOnes : e \in DOMAIN s.found <=>
           (UsesProvider(s.filters) => AudienceOf(org, s.viewer, e).sections["S12"] # "none")
  BY DEF Loaded, FoundIsExact
<1>3. Matching(s, {}) = {e \in DOMAIN s.found : \A f \in s.filters :
        Matches(CellValue(s.found[e], x, e, f.field), Spec1(s.visible, f.field).type, f)}
  BY <1>1 DEF Matching, Filtered
<1>4. ASSUME NEW f \in s.filters
      PROVE  /\ f.field \in Ids(s.visible) /\ f.field # "project_names"
             /\ Spec1(s.visible, f.field).type = Spec1(ListFields, f.field).type
  <2>1. ValidFilter(f, s.visible)
    BY DEF Loaded, ValidQuery
  <2>2. PICK g : g = Spec1(s.visible, f.field)
    OBVIOUS
  <2>3. f.field \in Ids(s.visible) /\ g \in s.visible /\ g.id = f.field /\ g.filterable
    BY <2>1, <2>2, SpecOfVisible DEF ValidFilter
  <2> QED
    BY <2>2, <2>3, VisibleFields DEF Loaded, ShownTo
<1>5. ASSUME NEW e \in DOMAIN s.found, NEW f \in s.filters
      PROVE  CellValue(s.found[e], x, e, f.field) = CurrentValue(e, f.field)
  <2>1. f.field \in ProviderBacked => Suppressed(s) = {}
    BY DEF Suppressed, UsesProvider
  <2> QED
    BY <1>1, <1>4, <2>1, CellsAreCurrent
<1>6. ASSUME NEW e \in HiredOnes
      PROVE  e \in DOMAIN s.found <=> \A f \in s.filters : f.field \in ProviderBacked => MaySee(org, s.viewer, e, f.field)
  BY <1>2, ProvidedAreOnes DEF UsesProvider
<1>7. ShouldList(s) = {e \in HiredOnes : \A f \in s.filters :
        /\ f.field \in ProviderBacked => MaySee(org, s.viewer, e, f.field)
        /\ Matches(CurrentValue(e, f.field), Spec1(ListFields, f.field).type, f)}
  BY DEF ShouldList, HiredOnes
<1>8. ASSUME NEW e
      PROVE  e \in Matching(s, {}) <=> e \in ShouldList(s)
  <2>1. CASE e \in DOMAIN s.found
    BY <1>2, <1>3, <1>4, <1>5, <1>6, <1>7, <2>1
  <2>2. CASE e \notin DOMAIN s.found
    BY <1>3, <1>6, <1>7, <2>2
  <2> QED
    BY <2>1, <2>2
<1> QED
  BY <1>8

\* What the people of a list are ordered by.
SortField(s) == IF s.sort = Null THEN "name" ELSE s.sort
SortOrder(s) == IF s.sort = Null THEN "asc" ELSE s.order

LEMMA SortFieldFits ==
  ASSUME NEW s, LookHolds(s)
  PROVE  SortField(s) \in Ids(s.visible) \cup {"name"} /\ SortField(s) # "project_names"
<1>1. CASE s.sort # Null
  <2>1. PICK f \in s.visible : f.id = s.sort /\ f.sortable
    BY <1>1 DEF LookHolds, ValidQuery
  <2> QED
    BY <1>1, <2>1, VisibleFields DEF SortField, LookHolds, ShownTo, Ids
<1> QED
  BY <1>1 DEF SortField

LEMMA SortedByTheirUse ==
  ASSUME NEW s, Loaded(s), NEW x, x = ValuesElsewhere(s, {}), NEW e \in DOMAIN s.found
  PROVE  CellValue(s.found[e], x, e, SortField(s)) = UsedValue(s, e, SortField(s))
<1>1. PICK id : id = SortField(s)
  OBVIOUS
<1>2. id \in Ids(s.visible) \cup {"name"} /\ id # "project_names"
  BY <1>1, SortFieldFits DEF Loaded, LookHolds
<1>3. CellValue(s.found[e], x, e, id) = IF id \in ProviderBacked /\ e \in Suppressed(s) THEN Null ELSE CurrentValue(e, id)
  BY <1>2, CellsAreCurrent
<1>4. ASSUME id \in ProviderBacked
      PROVE  e \in Suppressed(s) <=> ~MaySee(org, s.viewer, e, id)
  <2>1. s.sort \in ProviderBacked
    BY <1>1, <1>4, ProvidedAreOnes DEF SortField, SnapshotColumns
  <2>2. e \in HiredOnes /\ (UsesProvider(s.filters) => AudienceOf(org, s.viewer, e).sections["S12"] # "none")
    BY DEF Loaded, FoundIsExact
  <2>3. CASE UsesProvider(s.filters)
    BY <1>4, <2>2, <2>3, ProvidedAreOnes DEF Suppressed
  <2>4. CASE ~UsesProvider(s.filters)
    <3>1. KnowsAll(s)
      BY <2>1 DEF Loaded, NeedsAudiences
    <3>2. e \in DOMAIN s.audiences /\ s.audiences[e] = AudienceOf(org, s.viewer, e)
      BY <2>2, <3>1 DEF KnowsAll, Loaded, AudiencesHold
    <3>3. e \in Suppressed(s) <=> s.audiences[e].sections["S12"] = "none"
      BY <2>1, <2>4, <3>2 DEF Suppressed, S12Visible
    <3> QED
      BY <1>4, <3>2, <3>3, ProvidedAreOnes
  <2> QED
    BY <2>3, <2>4
<1> QED
  BY <1>1, <1>3, <1>4 DEF UsedValue

-----------------------------------------------------------------------------
(* The order of a list, and its page.                                      *)

LEMMA UsedHavePlaces ==
  ASSUME PlacesFit, NEW s, NEW e \in HiredOnes, NEW id, id # "project_names"
  PROVE  HasPlace(UsedValue(s, e, id))
<1>1. HasPlace(Null)
  BY DEF HasPlace
<1>2. RowHasPlaces(roster[e]) /\ e \in Employees
  BY DEF PlacesFit, HiredOnes
<1>3. HasPlace(CurrentValue(e, id))
  <2>1. CASE id \in ProviderBacked
    <3>1. CurrentValue(e, id) = IF id = "has_open_idp" THEN <<"boolean", roster[e].openIdp>> ELSE roster[e].assessed
      BY <2>1, ProvidedAreOnes
    <3> QED
      BY <1>2, <3>1 DEF RowHasPlaces
  <2>2. CASE id \in FieldIds
    <3>1. CurrentValue(e, id) = ValueOf(e, id)
      BY <2>2, ProvidedAreOnes DEF CurrentValue, ProviderBacked
    <3>2. stored[<<e, id>>] = Null => ValueOf(e, id) = Null
      BY DEF ValueOf
    <3>3. stored[<<e, id>>] # Null => HasPlace(ValueOf(e, id))
      BY <1>2, <2>2 DEF PlacesFit
    <3> QED
      BY <1>1, <3>1, <3>2, <3>3
  <2>3. CASE id \notin ProviderBacked /\ id \notin FieldIds
    <3>1. CurrentValue(e, id) = CellValue(roster[e], NoAudiences, e, id)
      BY <2>3 DEF CurrentValue, ProviderBacked
    <3>2. CellValue(roster[e], NoAudiences, e, id) =
            CASE id \in SnapshotColumns -> roster[e][id]
              [] id = "years_with_company" -> TenureYears(roster[e].since)
              [] id = "mentor_status" -> MentorStatus(roster[e])
              [] OTHER -> Null
      BY DEF CellValue, NoAudiences, SnapshotColumns
    <3>3. CASE id \in SnapshotColumns
      <4>1. CurrentValue(e, id) = roster[e][id]
        BY <3>1, <3>2, <3>3 DEF SnapshotColumns
      <4> QED
        BY <1>2, <3>3, <4>1 DEF RowHasPlaces
    <3>4. CASE id \notin SnapshotColumns
      BY <1>1, <1>2, <3>1, <3>2, <3>4 DEF RowHasPlaces
    <3> QED
      BY <3>3, <3>4
  <2> QED
    BY <2>1, <2>2, <2>3
<1> QED
  BY <1>1, <1>3 DEF UsedValue

\* Values in a strict order but for those that have the same place.
LEMMA LessIsWeak ==
  ASSUME NEW a, NEW b, NEW d, HasPlace(a), HasPlace(b), HasPlace(d)
  PROVE  ~Less(a, a) /\ (Less(a, b) => ~Less(b, a)) /\ (Less(a, d) => Less(a, b) \/ Less(b, d))
<1>1. /\ a # Null => Place(a) \in Int
      /\ b # Null => Place(b) \in Int
      /\ d # Null => Place(d) \in Int
  BY DEF HasPlace
<1> QED
  BY <1>1 DEF Less

\* In either direction, and the identifiers tell apart whom the values do not.
LEMMA BeforeIsOrder ==
  ASSUME NEW P \in SUBSET Employees, NEW v, \A e \in P : HasPlace(v[e]), NEW order \in {"asc", "desc"},
         NEW R, R = {p \in P \X P : Before(v[p[1]], v[p[2]], p[1], p[2], order)}
  PROVE  IsOrder(R, P)
<1>1. \A d, e \in P : <<d, e>> \in R <=> Before(v[d], v[e], d, e, order)
  OBVIOUS
<1>2. \A d, e \in P : Place(d) \in Int /\ (Place(d) = Place(e) => d = e)
  BY OrderAssumption
<1>3. PICK L : L = {p \in P \X P : Less(v[p[1]], v[p[2]])}
  OBVIOUS
<1>4. \A d, e \in P : <<d, e>> \in L <=> Less(v[d], v[e])
  BY <1>3
<1>5. \A d, e, f \in P : /\ <<d, d>> \notin L
                         /\ <<d, e>> \in L => <<e, d>> \notin L
                         /\ <<d, f>> \in L => <<d, e>> \in L \/ <<e, f>> \in L
  BY <1>4, LessIsWeak
<1>6. ASSUME NEW d \in P, NEW e \in P
      PROVE  <<d, e>> \in R <=>
               IF order = "asc" THEN <<d, e>> \in L \/ (<<e, d>> \notin L /\ Place(d) < Place(e))
               ELSE <<d, e>> \notin L /\ (<<e, d>> \in L \/ Place(e) < Place(d))
  BY <1>1, <1>4, <1>5 DEF Before
<1>7. CASE order = "asc"
  <2>1. \A d, e \in P : <<d, e>> \in R <=> <<d, e>> \in L \/ (<<e, d>> \notin L /\ Place(d) < Place(e))
    BY <1>6, <1>7
  <2>2. ASSUME NEW d \in P
        PROVE  <<d, d>> \notin R
    <3>1. <<d, d>> \notin L /\ Place(d) \in Int
      BY <1>2, <1>5
    <3>2. <<d, d>> \in R => Place(d) < Place(d)
      BY <2>1, <3>1
    <3> QED
      BY <3>1, <3>2
  <2>3. ASSUME NEW d \in P, NEW e \in P, d # e
        PROVE  <<d, e>> \in R \/ <<e, d>> \in R
    <3>1. Place(d) < Place(e) \/ Place(e) < Place(d)
      BY <1>2, <2>3
    <3>2. <<d, e>> \in L => <<e, d>> \notin L
      BY <1>5
    <3> QED
      BY <2>1, <3>1, <3>2
  <2>4. ASSUME NEW d \in P, NEW e \in P, NEW f \in P, <<d, e>> \in R, <<e, f>> \in R
        PROVE  <<d, f>> \in R
    <3>1. <<f, d>> \notin L
      BY <1>5, <2>1, <2>4
    <3>2. <<d, f>> \notin L => Place(d) < Place(e) /\ Place(e) < Place(f)
      BY <1>5, <2>1, <2>4
    <3> QED
      BY <1>2, <2>1, <3>1, <3>2
  <2> QED
    BY <2>2, <2>3, <2>4 DEF IsOrder
<1>8. CASE order = "desc"
  <2>1. \A d, e \in P : <<d, e>> \in R <=> <<d, e>> \notin L /\ (<<e, d>> \in L \/ Place(e) < Place(d))
    BY <1>6, <1>8
  <2>2. ASSUME NEW d \in P
        PROVE  <<d, d>> \notin R
    <3>1. <<d, d>> \notin L /\ Place(d) \in Int
      BY <1>2, <1>5
    <3>2. <<d, d>> \in R => Place(d) < Place(d)
      BY <2>1, <3>1
    <3> QED
      BY <3>1, <3>2
  <2>3. ASSUME NEW d \in P, NEW e \in P, d # e
        PROVE  <<d, e>> \in R \/ <<e, d>> \in R
    <3>1. Place(d) < Place(e) \/ Place(e) < Place(d)
      BY <1>2, <2>3
    <3>2. <<d, e>> \in L => <<e, d>> \notin L
      BY <1>5
    <3> QED
      BY <2>1, <3>1, <3>2
  <2>4. ASSUME NEW d \in P, NEW e \in P, NEW f \in P, <<d, e>> \in R, <<e, f>> \in R
        PROVE  <<d, f>> \in R
    <3>1. <<d, f>> \notin L
      BY <1>5, <2>1, <2>4
    <3>2. <<f, d>> \notin L => Place(e) < Place(d) /\ Place(f) < Place(e)
      BY <1>5, <2>1, <2>4
    <3> QED
      BY <1>2, <2>1, <3>1, <3>2
  <2> QED
    BY <2>2, <2>3, <2>4 DEF IsOrder
<1> QED
  BY <1>7, <1>8

LEMMA SortedIsArranged ==
  ASSUME NEW P \in SUBSET Employees, NEW rows, NEW x, NEW id, NEW order \in {"asc", "desc"},
         NEW v, v = [e \in P |-> CellValue(rows[e], x, e, id)], \A e \in P : HasPlace(v[e]),
         NEW R, R = {p \in P \X P : Before(v[p[1]], v[p[2]], p[1], p[2], order)}
  PROVE  /\ IsFiniteSet(P) /\ IsOrder(R, P)
         /\ SortedBy(P, rows, x, id, order) \in SetToSeqs(P) /\ Arranged(R, SortedBy(P, rows, x, id, order))
<1>1. IsFiniteSet(P) /\ IsOrder(R, P)
  BY ListAssumption, FS_Subset, BeforeIsOrder
<1>2. PICK ordered : ordered = {s \in SetToSeqs(P) : \A i, j \in DOMAIN s : i < j =>
        Before(CellValue(rows[s[i]], x, s[i], id), CellValue(rows[s[j]], x, s[j], id), s[i], s[j], order)}
  OBVIOUS
<1>3. ASSUME NEW s \in SetToSeqs(P)
      PROVE  s \in ordered <=> Arranged(R, s)
  <2>1. \A i \in DOMAIN s : s[i] \in P
    BY DEF SetToSeqs
  <2>2. \A i, j \in DOMAIN s : <<s[i], s[j]>> \in R <=>
          Before(CellValue(rows[s[i]], x, s[i], id), CellValue(rows[s[j]], x, s[j], id), s[i], s[j], order)
    BY <2>1
  <2> QED
    BY <1>2, <2>2 DEF Arranged
<1>4. PICK s \in SetToSeqs(P) : Arranged(R, s)
  BY <1>1, ArrangementExists
<1>5. SortedBy(P, rows, x, id, order) = CHOOSE t \in SetToSeqs(P) : ordered # {} => t \in ordered
  BY <1>2 DEF SortedBy
<1>6. SortedBy(P, rows, x, id, order) \in SetToSeqs(P) /\ SortedBy(P, rows, x, id, order) \in ordered
  BY <1>3, <1>4, <1>5
<1> QED
  BY <1>1, <1>3, <1>6

\* The page of an answer begins at its offset and has as many as there are left.
LEMMA PageHas ==
  ASSUME NEW people, NEW sorted \in Seq(people), NEW page \in Int, page >= 1, NEW size \in Int, size >= 1,
         NEW offset, offset = (page - 1) * size, NEW shown, shown = PageOf(sorted, page, size)
  PROVE  /\ offset \in Nat /\ Len(shown) = LengthOf(Len(sorted), offset, size)
         /\ DOMAIN shown = 1..Len(shown)
         /\ \A i \in 1..Len(shown) : offset + i \in 1..Len(sorted) /\ shown[i] = sorted[offset + i]
<1>1. PICK behind : behind = page * size
  OBVIOUS
<1>2. offset \in Nat /\ behind \in Int /\ behind = offset + size
  BY <1>1, SMTT(30)
<1>3. PICK n : n = Len(sorted)
  OBVIOUS
<1>4. n \in Nat
  BY <1>3
<1>5. PICK last : last = Min({behind, n})
  OBVIOUS
<1>6. last \in Int /\ last = IF behind <= n THEN behind ELSE n
  <2>1. last \in {behind, n} /\ last <= n /\ last <= behind
    <3>1. \E k \in {behind, n} : \A m \in {behind, n} : k =< m
      BY <1>2, <1>4
    <3> QED
      BY <1>2, <1>4, <1>5, <3>1 DEF Min
  <2> QED
    BY <1>2, <1>4, <2>1
<1>7. \A i \in (offset + 1)..last : sorted[i] \in people
  BY <1>2, <1>3, <1>4, <1>6
<1>8. shown = SubSeq(sorted, offset + 1, last)
  BY <1>1, <1>3, <1>5 DEF PageOf
<1>9. PICK length : length = IF offset + 1 <= last THEN last - (offset + 1) + 1 ELSE 0
  OBVIOUS
<1>10. /\ shown \in Seq(people) /\ Len(shown) = length
       /\ \A i \in 1..(last - (offset + 1) + 1) : shown[i] = sorted[offset + 1 + i - 1]
  <2>1. PICK first : first = offset + 1
    OBVIOUS
  <2>2. first \in Int /\ \A i \in first..last : sorted[i] \in people
    BY <1>2, <1>7, <2>1
  <2>3. /\ shown \in Seq(people) /\ Len(shown) = IF first <= last THEN last - first + 1 ELSE 0
        /\ \A i \in 1..(last - first + 1) : shown[i] = sorted[first + i - 1]
    <3>1. SubSeq(sorted, first, last) = shown
      BY <1>8, <2>1
    <3>2. /\ SubSeq(sorted, first, last) \in Seq(people)
          /\ Len(SubSeq(sorted, first, last)) = IF first <= last THEN last - first + 1 ELSE 0
          /\ \A i \in 1..(last - first + 1) : SubSeq(sorted, first, last)[i] = sorted[first + i - 1]
      BY <1>6, <2>2, SubSeqProperties
    <3> QED
      BY <3>1, <3>2
  <2> QED
    BY <1>9, <2>1, <2>3
<1>11. length = LengthOf(n, offset, size)
  BY <1>2, <1>4, <1>6, <1>9 DEF LengthOf
<1>12. ASSUME NEW i \in 1..length
       PROVE  offset + i \in 1..n /\ i \in 1..(last - (offset + 1) + 1) /\ offset + 1 + i - 1 = offset + i
  BY <1>2, <1>4, <1>6, <1>9
<1> QED
  BY <1>2, <1>3, <1>10, <1>11, <1>12

\* The page that is made of what has been read is the page there should be.
LEMMA BatchIsRead ==
  ASSUME PlacesFit, NEW s, Loaded(s), s.order \in {"asc", "desc"}, s.page \in Int, s.pageSize \in Int,
         NEW t, t.batch = BatchOf(s, {}), t.total = Cardinality(Matching(s, {})), t.page = s.page,
         t.pageSize = s.pageSize, t.viewer = s.viewer, t.sort = s.sort, t.order = s.order, t.filters = s.filters
  PROVE  BatchIsExact(t)
<1>1. PICK x : x = ValuesElsewhere(s, {})
  OBVIOUS
<1>2. PICK P : P = ShouldList(s)
  OBVIOUS
<1>3. P = Matching(s, {}) /\ P \subseteq DOMAIN s.found /\ P \in SUBSET Employees /\ P \subseteq HiredOnes
  BY <1>2, FoundAreListed DEF Matching, Filtered, ShouldList, HiredOnes
<1>4. PICK id : id = SortField(s)
  OBVIOUS
<1>5. PICK order \in {"asc", "desc"} : order = SortOrder(s)
  BY DEF SortOrder
<1>6. PICK v : v = [e \in P |-> CellValue(s.found[e], x, e, id)]
  OBVIOUS
<1>7. \A e \in P : v[e] = UsedValue(s, e, id)
  BY <1>1, <1>3, <1>4, <1>6, SortedByTheirUse
<1>8. \A e \in P : HasPlace(v[e])
  BY <1>3, <1>4, <1>7, SortFieldFits, UsedHavePlaces DEF Loaded, LookHolds
<1>9. PICK R : R = {p \in P \X P : Before(v[p[1]], v[p[2]], p[1], p[2], order)}
  OBVIOUS
<1>10. PICK sorted : sorted = SortedBy(P, s.found, x, id, order)
  OBVIOUS
<1>11. IsFiniteSet(P) /\ IsOrder(R, P) /\ sorted \in SetToSeqs(P) /\ Arranged(R, sorted)
  BY <1>3, <1>6, <1>8, <1>9, <1>10, SortedIsArranged
<1>12. PICK n : n = Cardinality(P)
  OBVIOUS
<1>13. n \in Nat /\ sorted \in [1..n -> P] /\ DOMAIN sorted = 1..n
  BY <1>11, <1>12, FS_CardinalityType DEF SetToSeqs
<1>14. sorted \in Seq(P) /\ Len(sorted) = n
  BY <1>13, SeqDef
<1>15. ASSUME NEW e \in P
       PROVE  PlaceOf(s, e) = Cardinality(Earlier(R, P, e))
  <2>1. \A d \in P : StandsBefore(s, d, e) <=> Before(v[d], v[e], d, e, order)
    BY <1>4, <1>5, <1>7, <1>15 DEF StandsBefore, SortField, SortOrder
  <2>2. {d \in ShouldList(s) : StandsBefore(s, d, e)} = Earlier(R, P, e)
    BY <1>2, <1>9, <1>15, <2>1 DEF Earlier
  <2> QED
    BY <2>2 DEF PlaceOf
<1>16. ASSUME NEW i \in 1..n
       PROVE  sorted[i] \in P /\ PlaceOf(s, sorted[i]) = i - 1
  BY <1>11, <1>13, <1>15, <1>16, PlacesInArrangement
<1>17. s.page >= 1 /\ s.pageSize >= 1
  BY ListAssumption DEF Loaded, ValidQuery
<1>18. PICK offset : offset = (s.page - 1) * s.pageSize
  OBVIOUS
<1>19. PICK shown : shown = PageOf(sorted, s.page, s.pageSize)
  OBVIOUS
<1>20. PICK length : length = Len(shown)
  OBVIOUS
<1>21. /\ offset \in Nat /\ length = LengthOf(n, offset, s.pageSize) /\ DOMAIN shown = 1..length
       /\ \A i \in 1..length : offset + i \in 1..n /\ shown[i] = sorted[offset + i]
  <2>1. /\ offset \in Nat /\ Len(shown) = LengthOf(Len(sorted), offset, s.pageSize) /\ DOMAIN shown = 1..Len(shown)
        /\ \A i \in 1..Len(shown) : offset + i \in 1..Len(sorted) /\ shown[i] = sorted[offset + i]
    <3>1. PICK page \in Int : page = s.page
      OBVIOUS
    <3>2. PICK size \in Int : size = s.pageSize
      OBVIOUS
    <3>3. page >= 1 /\ size >= 1 /\ offset = (page - 1) * size /\ shown = PageOf(sorted, page, size)
      BY <1>17, <1>18, <1>19, <3>1, <3>2
    <3>4. /\ offset \in Nat /\ Len(shown) = LengthOf(Len(sorted), offset, size) /\ DOMAIN shown = 1..Len(shown)
          /\ \A i \in 1..Len(shown) : offset + i \in 1..Len(sorted) /\ shown[i] = sorted[offset + i]
      BY <1>14, <3>3, PageHas
    <3> QED
      BY <3>2, <3>4
  <2> QED
    BY <1>14, <1>20, <2>1
<1>22. length \in Nat
  BY <1>13, <1>17, <1>21 DEF LengthOf
<1>23. t.batch = [i \in 1..length |->
         [employee |-> shown[i], cells |-> [id2 \in Ids(s.visible) |-> CellValue(s.found[shown[i]], x, shown[i], id2)]]]
  <2>1. Ids(s.visible) \ {} = Ids(s.visible)
    OBVIOUS
  <2> QED
    BY <1>1, <1>3, <1>4, <1>5, <1>10, <1>19, <1>21, <2>1 DEF BatchOf, SortField, SortOrder
<1>24. Len(t.batch) = length
  BY <1>22, <1>23
<1>25. ASSUME NEW i \in 1..length
       PROVE  IsAtPlace(t, t.batch[i].employee, offset + i - 1) /\ RowIsRead(t, t.batch[i])
  <2>1. PICK e \in P : e = shown[i] /\ PlaceOf(s, e) = offset + i - 1
    <3>1. PICK k \in 1..n : k = offset + i
      BY <1>21, <1>25
    <3>2. shown[i] = sorted[k]
      BY <1>21, <1>25, <3>1
    <3>3. sorted[k] \in P /\ PlaceOf(s, sorted[k]) = k - 1
      BY <1>16
    <3>4. k - 1 = offset + i - 1
      BY <1>13, <1>21, <1>22, <1>25, <3>1
    <3>5. shown[i] \in P /\ PlaceOf(s, shown[i]) = offset + i - 1
      BY <3>2, <3>3, <3>4
    <3> QED
      BY <3>5
  <2>2. PICK row : row = t.batch[i]
    OBVIOUS
  <2>3. row.employee = e /\ row.cells = [id2 \in Ids(s.visible) |-> CellValue(s.found[e], x, e, id2)]
    BY <1>23, <1>25, <2>1, <2>2
  <2>4. ShouldList(t) = ShouldList(s) /\ PlaceOf(t, e) = PlaceOf(s, e) /\ ShownTo(t) = ShownTo(s)
    BY DEF PlaceOf, ShouldList, StandsBefore, UsedValue, ShownTo
  <2>5. s.visible = ShownTo(s)
    BY DEF Loaded
  <2>6. ASSUME NEW id2 \in Ids(ShownTo(s)) \ {"project_names"}, MaySee(org, s.viewer, e, id2)
        PROVE  row.cells[id2] = CurrentValue(e, id2)
    <3>1. CellValue(s.found[e], x, e, id2) =
            IF id2 \in ProviderBacked /\ e \in Suppressed(s) THEN Null ELSE CurrentValue(e, id2)
      BY <1>1, <1>3, <2>5, <2>6, CellsAreCurrent
    <3>2. ~(id2 \in ProviderBacked /\ e \in Suppressed(s))
      BY <2>6, SuppressedAreHidden
    <3> QED
      BY <2>3, <2>5, <2>6, <3>1, <3>2
  <2>7. RowIsRead(t, row)
    BY <2>3, <2>4, <2>5, <2>6 DEF RowIsRead
  <2>8. IsAtPlace(t, e, offset + i - 1)
    BY <1>2, <2>1, <2>4 DEF IsAtPlace
  <2> QED
    BY <2>2, <2>3, <2>7, <2>8
<1>26. Offset(t) = offset /\ ShouldList(t) = ShouldList(s)
  BY <1>18 DEF Offset, ShouldList
<1>27. t.total = n /\ t.total = Cardinality(ShouldList(t))
  BY <1>2, <1>3, <1>12, <1>26
<1> QED
  BY <1>21, <1>24, <1>25, <1>26, <1>27 DEF BatchIsExact

-----------------------------------------------------------------------------
(* What a list or an export keeps from one step to the next.               *)

LEMMA ListedAreFinite ==
  ASSUME NEW s
  PROVE  IsFiniteSet(ShouldList(s)) /\ Cardinality(ShouldList(s)) \in Nat
<1>1. ShouldList(s) \in SUBSET Employees
  BY DEF ShouldList
<1> QED
  BY <1>1, ListAssumption, FS_Subset, FS_CardinalityType

\* What is asked for says who is listed, and where.
AsksTheSame(s, r) ==
  s.viewer = r.viewer /\ s.sort = r.sort /\ s.order = r.order /\ s.filters = r.filters

LEMMA SameAnswer ==
  ASSUME NEW s, NEW r, AsksTheSame(s, r)
  PROVE  /\ ShouldList(s) = ShouldList(r) /\ ShownTo(s) = ShownTo(r)
         /\ \A e, n : IsAtPlace(s, e, n) <=> IsAtPlace(r, e, n)
         /\ \A row : RowIsRead(s, row) <=> RowIsRead(r, row)
         /\ \A row : RowIsMasked(s, row) <=> RowIsMasked(r, row)
<1>1. ShouldList(s) = ShouldList(r) /\ ShownTo(s) = ShownTo(r)
  BY DEF AsksTheSame, ShouldList, ShownTo
<1>2. \A e : PlaceOf(s, e) = PlaceOf(r, e)
  BY <1>1 DEF AsksTheSame, PlaceOf, StandsBefore, UsedValue
<1>3. \A row : (RowIsRead(s, row) <=> RowIsRead(r, row)) /\ (RowIsMasked(s, row) <=> RowIsMasked(r, row))
  BY <1>1 DEF AsksTheSame, RowIsRead, RowIsMasked
<1> QED
  BY <1>1, <1>2, <1>3 DEF IsAtPlace

LEMMA SamePages ==
  ASSUME NEW s, NEW r, AsksTheSame(s, r), s.page = r.page, s.pageSize = r.pageSize, s.rows = r.rows, PagesAreExact(r)
  PROVE  PagesAreExact(s)
<1>1. Offset(s) = Offset(r)
  BY DEF Offset
<1> QED
  BY <1>1, SameAnswer DEF PagesAreExact, AsksTheSame

LEMMA NoPageYet ==
  ASSUME NEW s, s.rows = <<>>, Offset(s) = 0
  PROVE  PagesAreExact(s)
BY ListedAreFinite DEF PagesAreExact

LEMMA ListStepExact ==
  ASSUME ShowsInv, NEW c \in Calls, NEW s, Become(c, s), SameTables, steady' = steady,
         s.pc \in ListStages /\ steady[c] /\ s.failed = {} => ListHolds(s)
  PROVE  ListUndisturbed(c, call[c])'
<1>1. call'[c] = s
  BY DEF Become, ShowsInv, TablesFit
<1>2. SUFFICES ASSUME s.pc \in ListStages, steady[c], s.failed = {}
               PROVE  ListHolds(call[c])'
  BY <1>1 DEF ListUndisturbed
<1>3. ListHolds(s)'
  BY <1>2, ListStaysExact
<1> QED
  BY <1>1, <1>3

LEMMA ListRefusedExact ==
  ASSUME ShowsInv, ListsInv, NEW c \in Calls, Goto(c, "refused")
  PROVE  ListUndisturbed(c, call[c])'
<1>1. DOMAIN call = Calls /\ "pc" \in DOMAIN call[c]
  BY SeesByKind DEF ShowsInv, TablesFit
<1>2. call'[c].pc \notin ListStages
  BY <1>1 DEF Goto, ListStages
<1> QED
  BY <1>2, ListLeftExact

LEMMA ListServedSo ==
  ASSUME ShowsInv, ListsInv, NEW c \in Calls, ServeList(c), Proceeds
  PROVE  /\ call[c].pc \in ListStages /\ ListState(c, call[c]) /\ SameTables /\ steady' = steady
         /\ steady[c] /\ call[c].failed = {} => ListHolds(call[c])
<1>1. call[c].pc \in ListStages /\ Reads /\ UNCHANGED registryVars
  BY DEF ServeList, ChooseColumns, Prepare, Look, ResolveEveryone, LoadEmployeeSnapshots, QueryEmployees, PageAudiences,
     MaskRows, At, ListStages
<1>2. SameTables /\ steady' = steady
  BY <1>1 DEF Reads, Proceeds, orgVars, registryVars, SameTables
<1>3. steady[c] /\ call[c].failed = {} => ListHolds(call[c])
  BY <1>1 DEF ListsInv, ListUndisturbed
<1> QED
  BY <1>1, <1>2, <1>3, ListServed

LEMMA BeginningListExact ==
  ASSUME ShowsInv, NEW c \in Calls, BeginList(c)
  PROVE  ListUndisturbed(c, call[c])'
<1>1. SameTables /\ steady' = steady
  BY DEF BeginList, Arrives, registryVars, SameTables
<1>2. PICK q \in Queries :
        Become(c, [pc |-> IF q.kind = "export" THEN "columns" ELSE "look",
                  kind |-> q.kind, viewer |-> q.viewer, sort |-> q.sort, order |-> q.order,
                  filters |-> q.filters, columns |-> q.columns,
                  page |-> IF q.kind = "export" THEN 1 ELSE q.page,
                  pageSize |-> IF q.kind = "export" THEN MaxPageSize ELSE q.pageSize,
                  visible |-> {}, audiences |-> NoAudiences, kept |-> FALSE, found |-> NoAudiences,
                  batch |-> <<>>, rows |-> <<>>, total |-> 0, down |-> {}, failed |-> {}])
  BY DEF BeginList
<1>3. PICK s : s = [pc |-> IF q.kind = "export" THEN "columns" ELSE "look",
                  kind |-> q.kind, viewer |-> q.viewer, sort |-> q.sort, order |-> q.order,
                  filters |-> q.filters, columns |-> q.columns,
                  page |-> IF q.kind = "export" THEN 1 ELSE q.page,
                  pageSize |-> IF q.kind = "export" THEN MaxPageSize ELSE q.pageSize,
                  visible |-> {}, audiences |-> NoAudiences, kept |-> FALSE, found |-> NoAudiences,
                  batch |-> <<>>, rows |-> <<>>, total |-> 0, down |-> {}, failed |-> {}]
  OBVIOUS
<1>4. /\ s.pc = IF q.kind = "export" THEN "columns" ELSE "look"
      /\ s.kind = q.kind /\ s.order = q.order /\ s.visible = {} /\ s.audiences = <<>> /\ s.kept = FALSE
      /\ s.rows = <<>> /\ s.down = {} /\ (q.kind = "export" => s.page = 1 /\ s.pageSize = MaxPageSize)
  BY <1>3 DEF NoAudiences
<1>5. s.kind \in {"list", "export"} /\ s.order \in {"asc", "desc"} /\ MaxPageSize \in Nat
  BY <1>4, ListAssumption
<1>6. AskedFor(s)
  BY <1>4, <1>5 DEF AskedFor
<1>7. AudiencesHold(s)
  BY <1>4 DEF AudiencesHold
<1>8. s.kind = "export" => ExportHolds(s)
  <2>1. SUFFICES ASSUME s.kind = "export"
                 PROVE  ExportHolds(s)
    OBVIOUS
  <2>2. Offset(s) = 0
    <3>1. Offset(s) = (1 - 1) * MaxPageSize
      BY <1>4, <2>1 DEF Offset
    <3> QED
      BY <1>5, <3>1
  <2>3. PagesAreExact(s)
    BY <1>4, <2>2, NoPageYet
  <2> QED
    BY <1>4, <2>1, <2>3 DEF ExportHolds
<1>9. ListHolds(s)
  BY <1>4, <1>6, <1>7, <1>8 DEF ListHolds, Looked
<1>10. Become(c, s)
  BY <1>2, <1>3
<1> QED
  BY <1>1, <1>9, <1>10, ListStepExact

LEMMA ChoosingColumnsExact ==
  ASSUME ShowsInv, ListsInv, NEW c \in Calls, ChooseColumns(c), Proceeds
  PROVE  ListUndisturbed(c, call[c])'
<1>1. PICK r : r = call[c]
  OBVIOUS
<1>2. /\ ListState(c, r) /\ r.pc = "columns" /\ SameTables /\ steady' = steady
      /\ steady[c] /\ r.failed = {} => ListHolds(r)
  BY <1>1, ListServedSo DEF ServeList, ChooseColumns, At
<1>3. CASE Goto(c, "refused")
  BY <1>3, ListRefusedExact
<1>4. CASE ~Goto(c, "refused")
  <2>1. PICK columns : columns = r.columns \cap Ids(FilterVisibleFields(org, r.viewer))
    OBVIOUS
  <2>2. PICK s : s = [r EXCEPT !.pc = "prepare", !.columns = columns]
    OBVIOUS
  <2>3. Become(c, s)
    BY <1>1, <1>4, <2>1, <2>2 DEF ChooseColumns
  <2>4. /\ s.pc = "prepare" /\ s.columns = columns /\ s.kind = r.kind /\ s.viewer = r.viewer /\ s.sort = r.sort
        /\ s.order = r.order /\ s.filters = r.filters /\ s.page = r.page /\ s.pageSize = r.pageSize
        /\ s.visible = r.visible /\ s.audiences = r.audiences /\ s.kept = r.kept /\ s.rows = r.rows /\ s.down = r.down
        /\ s.failed = r.failed
    BY <1>2, <2>2 DEF ListState
  <2>5. ASSUME ListHolds(r)
        PROVE  ListHolds(s)
    <3>1. AskedFor(s) /\ s.kind = "export" /\ s.kept = FALSE /\ s.visible = {}
      BY <1>2, <2>4, <2>5 DEF ListHolds, AskedFor, ShownTo
    <3>2. AudiencesHold(s)
      BY <2>4, <2>5 DEF ListHolds, AudiencesHold
    <3>3. PagesAreExact(s)
      BY <2>4, <2>5, <3>1, SamePages DEF ListHolds, ExportHolds, AsksTheSame
    <3>4. s.columns \subseteq Ids(ShownTo(s))
      BY <2>1, <2>4 DEF ShownTo
    <3> QED
      BY <2>4, <3>1, <3>2, <3>3, <3>4 DEF ListHolds, ExportHolds, Looked
  <2> QED
    BY <1>2, <2>3, <2>4, <2>5, ListStepExact
<1> QED
  BY <1>3, <1>4

LEMMA PreparingExact ==
  ASSUME ShowsInv, ListsInv, NEW c \in Calls, Prepare(c), Proceeds
  PROVE  ListUndisturbed(c, call[c])'
<1>1. PICK r : r = call[c]
  OBVIOUS
<1>2. /\ ListState(c, r) /\ r.pc = "prepare" /\ SameTables /\ steady' = steady
      /\ steady[c] /\ r.failed = {} => ListHolds(r)
  BY <1>1, ListServedSo DEF ServeList, Prepare, At
<1>3. PICK filters : filters = EffectiveFilters(r.filters, FilterVisibleFields(org, r.viewer))
  OBVIOUS
<1>4. PICK needs \in BOOLEAN : needs = NeedsAudiences(r, filters, FilterVisibleFields(org, r.viewer))
  BY DEF NeedsAudiences
<1>5. PICK s : s = [r EXCEPT !.filters = filters, !.kept = needs, !.pc = IF needs THEN "everyone" ELSE "look"]
  OBVIOUS
<1>6. Become(c, s)
  BY <1>1, <1>3, <1>4, <1>5 DEF Prepare
<1>7. /\ s.pc = (IF needs THEN "everyone" ELSE "look") /\ s.columns = r.columns /\ s.kind = r.kind /\ s.viewer = r.viewer
      /\ s.order = r.order /\ s.page = r.page /\ s.pageSize = r.pageSize
      /\ s.visible = r.visible /\ s.audiences = r.audiences /\ s.kept = needs /\ s.rows = r.rows /\ s.down = r.down
      /\ s.failed = r.failed
  BY <1>2, <1>5 DEF ListState
<1>8. ASSUME ListHolds(r)
      PROVE  ListHolds(s)
  <2>1. /\ r.kind = "export" /\ r.rows = <<>> /\ r.page = 1 /\ r.visible = {} /\ r.pageSize = MaxPageSize
        /\ r.order \in {"asc", "desc"} /\ r.down = {}
    BY <1>2, <1>8 DEF ListHolds, AskedFor
  <2>2. AskedFor(s)
    BY <1>7, <2>1 DEF AskedFor
  <2>3. AudiencesHold(s)
    BY <1>7, <1>8 DEF ListHolds, AudiencesHold
  <2>4. Offset(s) = 0
    <3>1. Offset(s) = (1 - 1) * MaxPageSize
      BY <1>7, <2>1 DEF Offset
    <3> QED
      BY <3>1, ListAssumption
  <2>5. PagesAreExact(s)
    BY <1>7, <2>1, <2>4, NoPageYet
  <2>6. s.columns \subseteq Ids(ShownTo(s))
    BY <1>2, <1>7, <1>8, <2>1 DEF ListHolds, ExportHolds, ShownTo
  <2> QED
    BY <1>7, <2>1, <2>2, <2>3, <2>5, <2>6 DEF ListHolds, ExportHolds, Looked
<1> QED
  BY <1>2, <1>6, <1>7, <1>8, ListStepExact

\* A filter that may be used is kept.
LEMMA FiltersStay ==
  ASSUME NEW filters, NEW visible, \A f \in filters : f.field \in Ids(visible)
  PROVE  EffectiveFilters(filters, visible) = filters
<1>1. ~\E f \in filters : f.field \in Ids(ListFields) \ Ids(visible)
  OBVIOUS
<1> QED
  BY <1>1 DEF EffectiveFilters

LEMMA LookingExact ==
  ASSUME ShowsInv, ListsInv, NEW c \in Calls, Look(c), Proceeds
  PROVE  ListUndisturbed(c, call[c])'
<1>1. PICK r : r = call[c]
  OBVIOUS
<1>2. /\ ListState(c, r) /\ r.pc = "look" /\ SameTables /\ steady' = steady
      /\ steady[c] /\ r.failed = {} => ListHolds(r)
  BY <1>1, ListServedSo DEF ServeList, Look, At
<1>3. PICK visible : visible = FilterVisibleFields(org, r.viewer)
  OBVIOUS
<1>4. PICK filters : filters = EffectiveFilters(r.filters, visible)
  OBVIOUS
<1>5. CASE UsesProvider(r.filters \ filters)
  <2>1. PICK s : s = [pc |-> "done", kind |-> r.kind, viewer |-> r.viewer, sort |-> r.sort, order |-> r.order,
                      filters |-> r.filters, columns |-> r.columns, page |-> r.page, pageSize |-> r.pageSize,
                      rows |-> <<>>, total |-> 0, failed |-> r.failed]
    OBVIOUS
  <2>2. Become(c, s)
    BY <1>1, <1>3, <1>4, <1>5, <2>1 DEF Look, Done
  <2>3. s.pc \notin ListStages
    BY <2>1 DEF ListStages
  <2> QED
    BY <1>2, <2>2, <2>3, ListStepExact
<1>6. CASE ~UsesProvider(r.filters \ filters) /\ ~ValidQuery(r, filters, visible)
  <2>1. Goto(c, "refused")
    BY <1>1, <1>3, <1>4, <1>6 DEF Look
  <2> QED
    BY <2>1, ListRefusedExact
<1>7. CASE ~UsesProvider(r.filters \ filters) /\ ValidQuery(r, filters, visible)
  <2>1. PICK audiences : audiences = IF r.kept THEN r.audiences ELSE NoAudiences
    OBVIOUS
  <2>2. PICK pc : pc = IF NeedsAudiences(r, filters, visible) /\ ~r.kept THEN "everyone" ELSE "roster"
    OBVIOUS
  <2>3. PICK s : s = [r EXCEPT !.visible = visible, !.filters = filters, !.audiences = audiences, !.pc = pc]
    OBVIOUS
  <2>4. [r EXCEPT !.audiences = IF r.kept THEN @ ELSE NoAudiences] = [r EXCEPT !.audiences = audiences]
    BY <2>1
  <2>5. Become(c, s)
    BY <1>1, <1>3, <1>4, <1>7, <2>1, <2>2, <2>3, <2>4 DEF Look
  <2>6. /\ s.pc = pc /\ s.columns = r.columns /\ s.kind = r.kind /\ s.viewer = r.viewer /\ s.sort = r.sort
        /\ s.order = r.order /\ s.filters = filters /\ s.page = r.page /\ s.pageSize = r.pageSize
        /\ s.visible = visible /\ s.audiences = audiences /\ s.kept = r.kept /\ s.rows = r.rows /\ s.down = r.down
        /\ s.failed = r.failed /\ pc \in {"everyone", "roster"}
    BY <1>2, <2>2, <2>3 DEF ListState
  <2>7. ASSUME ListHolds(r)
        PROVE  ListHolds(s)
    <3>1. AskedFor(s) /\ s.visible = ShownTo(s) /\ ShownTo(s) = ShownTo(r)
      BY <1>2, <1>3, <2>6, <2>7 DEF ListHolds, AskedFor, ShownTo
    <3>2. AudiencesHold(s)
      BY <2>1, <2>6, <2>7 DEF ListHolds, AudiencesHold, NoAudiences
    <3>3. LookHolds(s)
      BY <1>7, <2>6, <3>1 DEF LookHolds, ValidQuery
    <3>4. r.kind \in {"list", "export"} /\ (r.kind = "list" => ~r.kept)
      BY <2>7 DEF ListHolds, AskedFor
    <3>5. r.kept => KnowsAll(s)
      BY <1>2, <2>1, <2>6, <2>7, <3>4 DEF ListHolds, ExportHolds, KnowsAll
    <3>6. pc = "roster" /\ NeedsAudiences(s, s.filters, s.visible) => KnowsAll(s)
      <4>1. NeedsAudiences(s, s.filters, s.visible) => NeedsAudiences(r, filters, visible)
        BY <2>6 DEF NeedsAudiences
      <4> QED
        BY <2>2, <3>5, <4>1
    <3>7. r.kind = "export" => PagesAreExact(s)
      <4>1. SUFFICES ASSUME r.kind = "export"
                     PROVE  PagesAreExact(s)
        OBVIOUS
      <4>2. PagesAreExact(r)
        BY <2>7, <4>1 DEF ListHolds, ExportHolds
      <4>3. CASE r.rows # <<>>
        <5>1. filters = r.filters
          BY <1>3, <1>4, <4>2, <4>3, FiltersStay DEF PagesAreExact, ShownTo
        <5> QED
          BY <2>6, <4>2, <5>1, SamePages DEF AsksTheSame
      <4>4. CASE r.rows = <<>>
        <5>1. Offset(s) = 0
          <6>1. Offset(s) = Offset(r)
            BY <2>6 DEF Offset
          <6> QED
            BY <4>2, <4>4, <6>1 DEF PagesAreExact
        <5> QED
          BY <2>6, <4>4, <5>1, NoPageYet
      <4> QED
        BY <4>3, <4>4
    <3>8. r.kind = "export" => ExportHolds(s)
      BY <1>2, <2>6, <2>7, <3>1, <3>5, <3>7 DEF ListHolds, ExportHolds
    <3> QED
      BY <2>6, <3>1, <3>2, <3>3, <3>6, <3>8 DEF ListHolds
  <2> QED
    BY <1>2, <2>5, <2>6, <2>7, ListStepExact
<1> QED
  BY <1>5, <1>6, <1>7

LEMMA ResolvingExact ==
  ASSUME ShowsInv, ListsInv, NEW c \in Calls, ResolveEveryone(c), Proceeds
  PROVE  ListUndisturbed(c, call[c])'
<1>1. PICK r : r = call[c]
  OBVIOUS
<1>2. /\ ListState(c, r) /\ r.pc = "everyone" /\ SameTables /\ steady' = steady
      /\ steady[c] /\ r.failed = {} => ListHolds(r)
  BY <1>1, ListServedSo DEF ServeList, ResolveEveryone, At
<1>3. PICK audiences : audiences = [e \in {e \in Employees : Hired(e)} |-> AudienceOf(org, r.viewer, e)]
  OBVIOUS
<1>4. PICK s : s = [r EXCEPT !.pc = IF r.visible = {} THEN "look" ELSE "roster", !.audiences = audiences]
  OBVIOUS
<1>5. Become(c, s)
  BY <1>1, <1>3, <1>4 DEF ResolveEveryone
<1>6. /\ s.pc = (IF r.visible = {} THEN "look" ELSE "roster") /\ s.columns = r.columns /\ s.kind = r.kind
      /\ s.viewer = r.viewer /\ s.sort = r.sort
      /\ s.order = r.order /\ s.filters = r.filters /\ s.page = r.page /\ s.pageSize = r.pageSize
      /\ s.visible = r.visible /\ s.audiences = audiences /\ s.kept = r.kept /\ s.rows = r.rows /\ s.down = r.down
      /\ s.failed = r.failed
  BY <1>2, <1>4 DEF ListState
<1>7. ASSUME ListHolds(r)
      PROVE  ListHolds(s)
  <2>1. AskedFor(s) /\ ShownTo(s) = ShownTo(r)
    BY <1>2, <1>6, <1>7 DEF ListHolds, AskedFor, ShownTo
  <2>2. AudiencesHold(s) /\ KnowsAll(s)
    BY <1>3, <1>6 DEF AudiencesHold, KnowsAll, HiredOnes
  <2>3. Looked(s) => LookHolds(s)
    <3>1. Looked(s) => Looked(r)
      BY <1>2, <1>6 DEF Looked
    <3>2. LookHolds(r) => LookHolds(s)
      BY <1>6, <2>1 DEF LookHolds, ValidQuery
    <3> QED
      BY <1>7, <3>1, <3>2 DEF ListHolds
  <2>4. r.kind = "export" => ExportHolds(s)
    BY <1>2, <1>6, <1>7, <2>1, <2>2, SamePages DEF ListHolds, ExportHolds, AsksTheSame
  <2> QED
    BY <1>6, <2>1, <2>2, <2>3, <2>4 DEF ListHolds
<1> QED
  BY <1>2, <1>5, <1>6, <1>7, ListStepExact

LEMMA LoadingExact ==
  ASSUME ShowsInv, ListsInv, NEW c \in Calls, LoadEmployeeSnapshots(c), Proceeds
  PROVE  ListUndisturbed(c, call[c])'
<1>1. PICK r : r = call[c]
  OBVIOUS
<1>2. /\ ListState(c, r) /\ r.pc = "roster" /\ SameTables /\ steady' = steady
      /\ steady[c] /\ r.failed = {} => ListHolds(r)
  BY <1>1, ListServedSo DEF ServeList, LoadEmployeeSnapshots, At
<1>3. PICK among : among = IF UsesProvider(r.filters) THEN S12Visible(r.audiences) ELSE Employees
  OBVIOUS
<1>4. PICK found : found = [e \in {e \in among : Hired(e)} |-> roster[e]]
  OBVIOUS
<1>5. PICK s : s = [r EXCEPT !.pc = "values", !.found = found]
  OBVIOUS
<1>6. Become(c, s)
  BY <1>1, <1>3, <1>4, <1>5 DEF LoadEmployeeSnapshots
<1>7. /\ s.pc = "values" /\ s.columns = r.columns /\ s.kind = r.kind /\ s.viewer = r.viewer /\ s.sort = r.sort
      /\ s.order = r.order /\ s.filters = r.filters /\ s.page = r.page /\ s.pageSize = r.pageSize
      /\ s.visible = r.visible /\ s.audiences = r.audiences /\ s.kept = r.kept /\ s.rows = r.rows /\ s.down = r.down
      /\ s.failed = r.failed /\ s.found = found
  BY <1>2, <1>5 DEF ListState
<1>8. ASSUME ListHolds(r)
      PROVE  ListHolds(s)
  <2>1. AskedFor(s) /\ ShownTo(s) = ShownTo(r)
    BY <1>2, <1>7, <1>8 DEF ListHolds, AskedFor, ShownTo
  <2>2. AudiencesHold(s) /\ (KnowsAll(r) <=> KnowsAll(s))
    BY <1>7, <1>8 DEF ListHolds, AudiencesHold, KnowsAll
  <2>3. LookHolds(s)
    BY <1>2, <1>7, <1>8, <2>1 DEF ListHolds, Looked, LookHolds, ValidQuery
  <2>4. NeedsAudiences(s, s.filters, s.visible) => KnowsAll(r)
    BY <1>2, <1>7, <1>8 DEF ListHolds, NeedsAudiences
  <2>5. r.kind = "export" => ExportHolds(s)
    BY <1>2, <1>7, <1>8, <2>1, <2>2, SamePages DEF ListHolds, ExportHolds, AsksTheSame
  <2>6. FoundIsExact(s)
    <3>1. UsesProvider(r.filters) => KnowsAll(r)
      BY <1>7, <2>4 DEF NeedsAudiences
    <3>2. {e \in among : Hired(e)} =
            {e \in HiredOnes : UsesProvider(r.filters) => AudienceOf(org, r.viewer, e).sections["S12"] # "none"}
      <4>1. CASE UsesProvider(r.filters)
        <5>1. among = {e \in HiredOnes : AudienceOf(org, r.viewer, e).sections["S12"] # "none"}
          BY <1>3, <1>8, <3>1, <4>1 DEF S12Visible, KnowsAll, ListHolds, AudiencesHold
        <5> QED
          BY <4>1, <5>1 DEF HiredOnes
      <4>2. CASE ~UsesProvider(r.filters)
        BY <1>3, <4>2 DEF HiredOnes
      <4> QED
        BY <4>1, <4>2
    <3> QED
      BY <1>4, <1>7, <3>2 DEF FoundIsExact
  <2> QED
    BY <1>7, <2>1, <2>2, <2>3, <2>4, <2>5, <2>6 DEF ListHolds
<1> QED
  BY <1>2, <1>6, <1>7, <1>8, ListStepExact

LEMMA AskingExact ==
  ASSUME ShowsInv, ListsInv, NEW c \in Calls, QueryEmployees(c), Proceeds
  PROVE  ListUndisturbed(c, call[c])'
<1>1. PICK r : r = call[c]
  OBVIOUS
<1>2. /\ ListState(c, r) /\ r.pc = "values" /\ SameTables /\ steady' = steady
      /\ steady[c] /\ r.failed = {} => ListHolds(r)
  BY <1>1, ListServedSo DEF ServeList, QueryEmployees, At
<1>3. CASE Goto(c, "refused")
  BY <1>3, ListRefusedExact
<1>4. CASE ~Goto(c, "refused")
  <2>1. PICK down \in {fault \cap Ids(r.visible) : fault \in Faults} :
          Become(c, [r EXCEPT !.pc = "cache", !.found = NoAudiences,
                 !.total = Cardinality(Matching(r, down)), !.batch = BatchOf(r, down),
                 !.down = IF down = {} THEN @ ELSE down, !.failed = @ \cup down])
    BY <1>1, <1>4 DEF QueryEmployees
  <2>2. PICK batch : batch = BatchOf(r, down)
    OBVIOUS
  <2>3. PICK total : total = Cardinality(Matching(r, down))
    OBVIOUS
  <2>4. PICK s : s = [r EXCEPT !.pc = "cache", !.found = NoAudiences, !.total = total, !.batch = batch,
                      !.down = IF down = {} THEN @ ELSE down, !.failed = @ \cup down]
    OBVIOUS
  <2>5. Become(c, s)
    BY <2>1, <2>2, <2>3, <2>4
  <2>6. /\ s.pc = "cache" /\ s.columns = r.columns /\ s.kind = r.kind /\ s.viewer = r.viewer /\ s.sort = r.sort
        /\ s.order = r.order /\ s.filters = r.filters /\ s.page = r.page /\ s.pageSize = r.pageSize
        /\ s.visible = r.visible /\ s.audiences = r.audiences /\ s.kept = r.kept /\ s.rows = r.rows
        /\ s.down = (IF down = {} THEN r.down ELSE down)
        /\ s.failed = r.failed \cup down /\ s.batch = batch /\ s.total = total
    BY <1>2, <2>4 DEF ListState
  <2>7. ASSUME steady[c], s.failed = {}
        PROVE  ListHolds(s)
    <3>1. down = {} /\ s.down = r.down /\ ListHolds(r)
      BY <1>2, <2>6, <2>7
    <3>2. AskedFor(s) /\ ShownTo(s) = ShownTo(r) /\ r.order \in {"asc", "desc"}
      BY <1>2, <2>6, <3>1 DEF ListHolds, AskedFor, ShownTo
    <3>3. AudiencesHold(s) /\ (KnowsAll(r) <=> KnowsAll(s))
      BY <2>6, <3>1 DEF ListHolds, AudiencesHold, KnowsAll
    <3>4. LookHolds(s)
      BY <1>2, <2>6, <3>1, <3>2 DEF ListHolds, Looked, LookHolds, ValidQuery
    <3>5. r.kind = "export" => ExportHolds(s)
      BY <1>2, <2>6, <3>1, <3>2, <3>3, SamePages DEF ListHolds, ExportHolds, AsksTheSame
    <3>6. Loaded(r)
      BY <1>2, <3>1 DEF Loaded, ListHolds, Looked, LookHolds
    <3>7. BatchIsExact(s)
      BY <1>2, <2>2, <2>3, <2>6, <3>1, <3>2, <3>6, BatchIsRead DEF ListsInv, ListState
    <3> QED
      BY <2>6, <3>2, <3>3, <3>4, <3>5, <3>7 DEF ListHolds
  <2> QED
    BY <1>2, <2>5, <2>7, ListStepExact
<1> QED
  BY <1>3, <1>4

LEMMA AudiencesOfThePageExact ==
  ASSUME ShowsInv, ListsInv, NEW c \in Calls, PageAudiences(c), Proceeds
  PROVE  ListUndisturbed(c, call[c])'
<1>1. PICK r : r = call[c]
  OBVIOUS
<1>2. /\ ListState(c, r) /\ r.pc = "cache" /\ SameTables /\ steady' = steady
      /\ steady[c] /\ r.failed = {} => ListHolds(r)
  BY <1>1, ListServedSo DEF ServeList, PageAudiences, At
<1>3. PICK people : people = {r.batch[i].employee : i \in DOMAIN r.batch}
  OBVIOUS
<1>4. PICK audiences : audiences = Over(r.audiences, [e \in people |-> AudienceOf(org, r.viewer, e)])
  OBVIOUS
<1>5. PICK s : s = [r EXCEPT !.pc = "mask", !.audiences = audiences]
  OBVIOUS
<1>6. Become(c, s)
  <2>1. [r EXCEPT !.pc = "mask", !.audiences = Over(@, [e \in people |-> AudienceOf(org, r.viewer, e)])] = s
    BY <1>4, <1>5
  <2> QED
    BY <1>1, <1>3, <2>1 DEF PageAudiences
<1>7. /\ s.pc = "mask" /\ s.columns = r.columns /\ s.kind = r.kind /\ s.viewer = r.viewer /\ s.sort = r.sort
      /\ s.order = r.order /\ s.filters = r.filters /\ s.page = r.page /\ s.pageSize = r.pageSize
      /\ s.visible = r.visible /\ s.audiences = audiences /\ s.kept = r.kept /\ s.rows = r.rows
      /\ s.down = r.down /\ s.failed = r.failed /\ s.batch = r.batch /\ s.total = r.total
  BY <1>2, <1>5 DEF ListState
<1>8. DOMAIN r.batch = 1..Len(r.batch)
  <2>1. r.batch \in Seq({r.batch[i] : i \in DOMAIN r.batch})
    BY <1>2 DEF ListState, RowsFit
  <2> QED
    BY <2>1
<1>9. ASSUME ListHolds(r)
      PROVE  ListHolds(s)
  <2>1. AskedFor(s) /\ ShownTo(s) = ShownTo(r)
    BY <1>2, <1>7, <1>9 DEF ListHolds, AskedFor, ShownTo
  <2>2. BatchIsExact(r)
    BY <1>2, <1>9 DEF ListHolds
  <2>3. people \subseteq HiredOnes
    BY <1>3, <1>8, <2>2 DEF BatchIsExact, IsAtPlace, ShouldList, HiredOnes
  <2>4. /\ DOMAIN audiences = DOMAIN r.audiences \cup people
        /\ \A e \in DOMAIN r.audiences : audiences[e] = r.audiences[e]
        /\ \A e \in people \ DOMAIN r.audiences : audiences[e] = AudienceOf(org, r.viewer, e)
    BY <1>4 DEF Over
  <2>5. AudiencesHold(s)
    BY <1>7, <1>9, <2>3, <2>4 DEF ListHolds, AudiencesHold
  <2>6. KnowsAll(r) => KnowsAll(s)
    BY <1>7, <2>3, <2>4 DEF KnowsAll
  <2>7. LookHolds(s)
    BY <1>2, <1>7, <1>9, <2>1 DEF ListHolds, Looked, LookHolds, ValidQuery
  <2>8. r.kind = "export" => ExportHolds(s)
    BY <1>2, <1>7, <1>9, <2>1, <2>6, SamePages DEF ListHolds, ExportHolds, AsksTheSame
  <2>9. BatchIsExact(s)
    <3>1. Offset(s) = Offset(r)
      BY <1>7 DEF Offset
    <3> QED
      BY <1>7, <2>2, <3>1, SameAnswer DEF BatchIsExact, AsksTheSame
  <2> QED
    BY <1>7, <2>1, <2>5, <2>7, <2>8, <2>9 DEF ListHolds
<1> QED
  BY <1>2, <1>6, <1>7, <1>9, ListStepExact

\* Once it is masked, a row has exactly what the viewer may see.
LEMMA MaskedRowIsExact ==
  ASSUME NEW r, r.visible = ShownTo(r), NEW row, NEW e \in DOMAIN r.audiences, row.employee = e,
         r.audiences[e] = AudienceOf(org, r.viewer, e), RowIsRead(r, row), NEW masked, masked = MaskRow(r, row)
  PROVE  masked.employee = e /\ RowIsMasked(r, masked)
<1>1. PICK kept : kept = {id \in DOMAIN row.cells : KeepsCell(r, e, Spec1(r.visible, id))}
  OBVIOUS
<1>2. PICK named : named = {id \in {"project_names"} \cap Ids(r.visible) : r.audiences[e].sections["S11"] # "none"}
  OBVIOUS
<1>3. masked = [employee |-> e,
        cells |-> [id \in kept \cup named |-> IF id \in named THEN ProjectNames(org, e) ELSE row.cells[id]]]
  BY <1>1, <1>2 DEF MaskRow
<1>4. masked.employee = e /\ DOMAIN masked.cells = kept \cup named
      /\ \A id \in kept \cup named : masked.cells[id] = IF id \in named THEN ProjectNames(org, e) ELSE row.cells[id]
  BY <1>3
<1>5. ASSUME NEW id \in Ids(r.visible)
      PROVE  KeepsCell(r, e, Spec1(r.visible, id)) <=> MaySee(org, r.viewer, e, id)
  <2>1. PICK f : f = Spec1(r.visible, id)
    OBVIOUS
  <2>2. f \in r.visible /\ f.id = id
    BY <2>1, SpecOfVisible
  <2>3. FieldFits(f)
    BY <2>2, VisibleFieldsFit DEF ShownTo
  <2>4. CASE id \in FieldIds
    <3>1. f.source = "custom" /\ f.visibility = definitions[id].visibility
      BY <2>2, <2>3, <2>4 DEF FieldFits
    <3> QED
      BY <2>1, <2>4, <3>1 DEF KeepsCell, MaySee
  <2>5. CASE id \notin FieldIds
    <3>1. f.source # "custom" /\ f.section = Spec1(BuiltinFieldSpecs, id).section
      BY <2>2, <2>3, <2>5 DEF FieldFits
    <3> QED
      BY <2>1, <2>5, <3>1 DEF KeepsCell, MaySee
  <2> QED
    BY <2>4, <2>5
<1>6. DOMAIN row.cells = Ids(r.visible)
  BY DEF RowIsRead
<1>7. "project_names" \notin FieldIds /\ (MaySee(org, r.viewer, e, "project_names") <=> r.audiences[e].sections["S11"] # "none")
  BY BuiltinSpecs DEF MaySee
<1>8. \A id : id \in kept \cup named <=> id \in Ids(r.visible) /\ MaySee(org, r.viewer, e, id)
  BY <1>1, <1>2, <1>5, <1>6, <1>7
<1>9. ASSUME NEW id \in kept \cup named
      PROVE  masked.cells[id] = CurrentValue(e, id)
  <2>1. id \in Ids(r.visible) /\ MaySee(org, r.viewer, e, id)
    BY <1>8
  <2>2. CASE id = "project_names"
    <3>1. id \in named
      BY <1>2, <1>7, <2>1, <2>2
    <3>2. CurrentValue(e, id) = ProjectNames(org, e)
      BY <1>7, <2>2 DEF CurrentValue
    <3> QED
      BY <1>4, <3>1, <3>2
  <2>3. CASE id # "project_names"
    <3>1. id \notin named /\ row.cells[id] = CurrentValue(e, id)
      BY <1>2, <2>1, <2>3 DEF RowIsRead
    <3> QED
      BY <1>4, <3>1
  <2> QED
    BY <2>2, <2>3
<1>10. DOMAIN masked.cells = {id \in Ids(ShownTo(r)) : MaySee(org, r.viewer, e, id)}
  BY <1>4, <1>8
<1> QED
  BY <1>4, <1>9, <1>10 DEF RowIsMasked

\* The pages so far and the page at hand, masked: the answer up to there.
LEMMA MaskedPagesAreExact ==
  ASSUME NEW c, NEW r, ListState(c, r), r.pc = "mask", ListHolds(r),
         NEW masked, masked = [i \in DOMAIN r.batch |-> MaskRow(r, r.batch[i])]
  PROVE  /\ Len(r.batch) \in Nat /\ DOMAIN masked = 1..Len(r.batch) /\ Len(masked) = Len(r.batch)
         /\ RowsFit(masked)
         /\ \A i \in 1..Len(r.batch) :
              IsAtPlace(r, masked[i].employee, Offset(r) + i - 1) /\ RowIsMasked(r, masked[i])
<1>1. r.batch \in Seq({r.batch[i] : i \in DOMAIN r.batch})
  BY DEF ListState, RowsFit
<1>2. DOMAIN r.batch = 1..Len(r.batch) /\ Len(r.batch) \in Nat
  BY <1>1
<1>3. masked \in Seq({masked[i] : i \in DOMAIN masked}) /\ DOMAIN masked = 1..Len(r.batch) /\ Len(masked) = Len(r.batch)
  <2>1. masked \in [1..Len(r.batch) -> {masked[i] : i \in DOMAIN masked}]
    BY <1>2
  <2>2. masked \in Seq({masked[i] : i \in DOMAIN masked})
    BY <1>2, <2>1, SeqDef
  <2> QED
    BY <1>2, <2>2
<1>4. BatchIsExact(r) /\ AudiencesHold(r) /\ r.visible = ShownTo(r)
  BY DEF ListHolds, Looked, LookHolds
<1>5. ASSUME NEW i \in 1..Len(r.batch)
      PROVE  IsAtPlace(r, masked[i].employee, Offset(r) + i - 1) /\ RowIsMasked(r, masked[i])
  <2>1. PICK row : row = r.batch[i]
    OBVIOUS
  <2>2. PICK e : e = row.employee
    OBVIOUS
  <2>3. IsAtPlace(r, e, Offset(r) + i - 1) /\ RowIsRead(r, row)
    BY <1>4, <1>5, <2>1, <2>2 DEF BatchIsExact
  <2>4. e \in DOMAIN r.audiences
    BY <1>2, <1>5, <2>1, <2>2 DEF ListState
  <2>5. r.audiences[e] = AudienceOf(org, r.viewer, e)
    BY <1>4, <2>4 DEF AudiencesHold
  <2>6. PICK out : out = MaskRow(r, row)
    OBVIOUS
  <2>7. out.employee = e /\ RowIsMasked(r, out)
    BY <1>4, <2>2, <2>3, <2>4, <2>5, <2>6, MaskedRowIsExact
  <2>8. masked[i] = out
    BY <1>2, <1>5, <2>1, <2>6
  <2> QED
    BY <2>3, <2>7, <2>8
<1> QED
  BY <1>2, <1>3, <1>5 DEF RowsFit

LEMMA ExportedPagesAreExact ==
  ASSUME NEW c, NEW r, ListState(c, r), r.pc = "mask", ListHolds(r), r.kind = "export",
         NEW masked, masked = [i \in DOMAIN r.batch |-> MaskRow(r, r.batch[i])],
         NEW rows, rows = r.rows \o masked
  PROVE  /\ Len(rows) = Offset(r) + Len(r.batch) /\ DOMAIN rows = 1..Len(rows) /\ Offset(r) \in Nat
         /\ \A i \in 1..Len(rows) : IsAtPlace(r, rows[i].employee, i - 1) /\ RowIsMasked(r, rows[i])
<1>1. /\ Len(r.batch) \in Nat /\ DOMAIN masked = 1..Len(r.batch) /\ Len(masked) = Len(r.batch)
      /\ RowsFit(masked)
      /\ \A i \in 1..Len(r.batch) :
           IsAtPlace(r, masked[i].employee, Offset(r) + i - 1) /\ RowIsMasked(r, masked[i])
  BY MaskedPagesAreExact
<1>2. PagesAreExact(r)
  BY DEF ListHolds, ExportHolds
<1>3. RowsFit(r.rows)
  BY DEF ListState
<1>4. PICK n : n = Len(r.rows)
  OBVIOUS
<1>5. PICK m : m = Len(r.batch)
  OBVIOUS
<1>6. m \in Nat /\ Len(masked) = m
  BY <1>1, <1>5
<1>7. PICK both : both = {r.rows[i] : i \in DOMAIN r.rows} \cup {masked[i] : i \in DOMAIN masked}
  OBVIOUS
<1>8. r.rows \in Seq(both) /\ masked \in Seq(both)
  <2>1. r.rows \in Seq({r.rows[i] : i \in DOMAIN r.rows}) /\ masked \in Seq({masked[i] : i \in DOMAIN masked})
    BY <1>1, <1>3 DEF RowsFit
  <2> QED
    BY <1>7, <2>1
<1>9. n \in Nat /\ Offset(r) = n
  BY <1>2, <1>4, <1>8 DEF PagesAreExact
<1>10. /\ Len(rows) = n + m /\ DOMAIN rows = 1..(n + m)
       /\ \A i \in 1..(n + m) : rows[i] = IF i <= n THEN r.rows[i] ELSE masked[i - n]
  <2>1. PICK front \in Seq(both) : front = r.rows
    BY <1>8
  <2>2. PICK back \in Seq(both) : back = masked
    BY <1>8
  <2>3. /\ front \o back \in Seq(both)
        /\ Len(front \o back) = Len(front) + Len(back)
        /\ \A i \in 1..(Len(front) + Len(back)) :
             (front \o back)[i] = IF i <= Len(front) THEN front[i] ELSE back[i - Len(front)]
    BY ConcatProperties
  <2>4. PICK all \in Seq(both) : all = front \o back
    BY <2>3
  <2>5. rows = all /\ Len(front) = n /\ Len(back) = m
    BY <1>4, <1>6, <2>1, <2>2, <2>4
  <2>6. Len(all) = n + m /\ \A i \in 1..(n + m) : all[i] = IF i <= n THEN front[i] ELSE back[i - n]
    BY <2>3, <2>4, <2>5
  <2>7. DOMAIN all = 1..Len(all)
    OBVIOUS
  <2>8. Len(rows) = n + m /\ DOMAIN rows = 1..(n + m)
    BY <2>5, <2>6, <2>7
  <2>9. \A i \in 1..(n + m) : rows[i] = IF i <= n THEN r.rows[i] ELSE masked[i - n]
    BY <2>1, <2>2, <2>5, <2>6
  <2> QED
    BY <2>8, <2>9
<1>11. ASSUME NEW i \in 1..(n + m)
       PROVE  IsAtPlace(r, rows[i].employee, i - 1) /\ RowIsMasked(r, rows[i])
  <2>1. CASE i <= n
    <3>1. i \in 1..n
      BY <1>6, <1>9, <1>11, <2>1
    <3>2. rows[i] = r.rows[i]
      BY <1>10, <1>11, <2>1
    <3> QED
      BY <1>2, <1>4, <3>1, <3>2 DEF PagesAreExact
  <2>2. CASE ~(i <= n)
    <3>1. PICK k \in 1..m : k = i - n
      BY <1>6, <1>9, <1>11, <2>2
    <3>2. rows[i] = masked[k]
      BY <1>10, <1>11, <2>2, <3>1
    <3>3. Offset(r) + k - 1 = i - 1
      BY <1>6, <1>9, <1>11, <3>1
    <3>4. IsAtPlace(r, masked[k].employee, Offset(r) + k - 1) /\ RowIsMasked(r, masked[k])
      BY <1>1, <1>5
    <3> QED
      BY <3>2, <3>3, <3>4
  <2> QED
    BY <2>1, <2>2
<1> QED
  BY <1>5, <1>6, <1>9, <1>10, <1>11

LEMMA MaskingExact ==
  ASSUME ShowsInv, ListsInv, NEW c \in Calls, MaskRows(c), Proceeds
  PROVE  ListUndisturbed(c, call[c])'
<1>1. PICK r : r = call[c]
  OBVIOUS
<1>2. /\ ListState(c, r) /\ r.pc = "mask" /\ SameTables /\ steady' = steady
      /\ steady[c] /\ r.failed = {} => ListHolds(r)
  BY <1>1, ListServedSo DEF ServeList, MaskRows, At
<1>3. PICK masked : masked = [i \in DOMAIN r.batch |-> MaskRow(r, r.batch[i])]
  OBVIOUS
<1>4. PICK rows : rows = r.rows \o masked
  OBVIOUS
<1>5. ASSUME NEW shown, Done(c, r, shown, r.total)
      PROVE  ListUndisturbed(c, call[c])'
  <2>1. PICK s : s = [pc |-> "done", kind |-> r.kind, viewer |-> r.viewer, sort |-> r.sort, order |-> r.order,
             filters |-> r.filters, columns |-> r.columns, page |-> r.page, pageSize |-> r.pageSize,
             rows |-> shown, total |-> r.total, failed |-> r.failed]
    OBVIOUS
  <2>2. Become(c, s) /\ s.pc \notin ListStages
    BY <1>5, <2>1 DEF Done, ListStages
  <2> QED
    BY <1>2, <2>2, ListStepExact
<1>6. CASE r.kind = "list" \/ Len(rows) >= r.total
  <2>1. \E shown : Done(c, r, shown, r.total)
    BY <1>1, <1>3, <1>4, <1>6 DEF MaskRows
  <2> QED
    BY <1>5, <2>1
<1>7. CASE r.kind # "list" /\ ~(Len(rows) >= r.total)
  <2>1. PICK s : s = [r EXCEPT !.pc = "look", !.rows = rows, !.batch = <<>>, !.page = @ + 1]
    OBVIOUS
  <2>2. Become(c, s)
    BY <1>1, <1>3, <1>4, <1>7, <2>1 DEF MaskRows
  <2>3. /\ s.pc = "look" /\ s.columns = r.columns /\ s.kind = r.kind /\ s.viewer = r.viewer /\ s.sort = r.sort
        /\ s.order = r.order /\ s.filters = r.filters /\ s.page = r.page + 1 /\ s.pageSize = r.pageSize
        /\ s.visible = r.visible /\ s.audiences = r.audiences /\ s.kept = r.kept /\ s.rows = rows
        /\ s.down = r.down /\ s.failed = r.failed
    BY <1>2, <2>1 DEF ListState
  <2>4. ASSUME ListHolds(r)
        PROVE  ListHolds(s)
    <3>1. r.kind = "export" /\ r.page \in Int /\ r.page >= 1 /\ r.pageSize \in Int /\ r.pageSize >= 1
      BY <1>2, <1>7, <2>4 DEF ListHolds, AskedFor, ListState
    <3>2. AskedFor(s)
      <4>1. r.page + 1 >= 1
        BY <3>1
      <4> QED
        BY <1>2, <2>3, <2>4, <3>1, <4>1 DEF ListHolds, AskedFor, ShownTo
    <3>3. AudiencesHold(s) /\ (KnowsAll(r) => KnowsAll(s)) /\ ShownTo(s) = ShownTo(r)
      BY <2>3, <2>4 DEF ListHolds, AudiencesHold, KnowsAll, ShownTo
    <3>4. /\ Len(rows) = Offset(r) + Len(r.batch) /\ Offset(r) \in Nat
          /\ \A i \in 1..Len(rows) : IsAtPlace(r, rows[i].employee, i - 1) /\ RowIsMasked(r, rows[i])
      BY <1>2, <1>3, <1>4, <2>4, <3>1, ExportedPagesAreExact
    <3>5. PICK total \in Nat : total = Cardinality(ShouldList(r))
      BY ListedAreFinite
    <3>6. r.total = total /\ Len(r.batch) = LengthOf(total, Offset(r), r.pageSize)
      BY <1>2, <2>4, <3>5 DEF ListHolds, BatchIsExact
    <3>7. Len(rows) = Offset(r) + r.pageSize /\ Len(rows) <= total
      <4>1. PICK offset \in Nat : offset = Offset(r)
        BY <3>4
      <4>2. PICK length : length = LengthOf(total, offset, r.pageSize)
        OBVIOUS
      <4>3. ~(offset + length >= total)
        BY <1>7, <3>4, <3>6, <4>1, <4>2
      <4>4. length = r.pageSize /\ offset + length <= total
        BY <3>1, <4>2, <4>3 DEF LengthOf
      <4> QED
        BY <3>4, <3>6, <4>1, <4>2, <4>4
    <3>8. Offset(s) = Offset(r) + r.pageSize
      <4>1. PICK page \in Int : page = r.page
        BY <3>1
      <4>2. PICK size \in Int : size = r.pageSize
        BY <3>1
      <4>3. (page + 1 - 1) * size = (page - 1) * size + size
        BY SMTT(30)
      <4> QED
        BY <2>3, <4>1, <4>2, <4>3 DEF Offset
    <3>9. AsksTheSame(s, r)
      BY <2>3 DEF AsksTheSame
    <3>10. \A f \in r.filters : f.field \in Ids(ShownTo(r))
      BY <1>2, <2>4 DEF ListHolds, Looked, LookHolds, ValidQuery, ValidFilter
    <3>11. PagesAreExact(s)
      BY <2>3, <3>3, <3>4, <3>5, <3>7, <3>8, <3>9, <3>10, SameAnswer DEF PagesAreExact
    <3>12. ExportHolds(s)
      BY <1>2, <2>3, <2>4, <3>1, <3>3, <3>11 DEF ListHolds, ExportHolds
    <3> QED
      BY <2>3, <3>2, <3>3, <3>12 DEF ListHolds, Looked
  <2> QED
    BY <1>2, <2>2, <2>3, <2>4, ListStepExact
<1> QED
  BY <1>6, <1>7

LEMMA ServedListExact ==
  ASSUME ShowsInv, ListsInv, NEW c \in Calls, ServeList(c), Proceeds
  PROVE  ListUndisturbed(c, call[c])'
BY ChoosingColumnsExact, PreparingExact, LookingExact, ResolvingExact, LoadingExact, AskingExact,
   AudiencesOfThePageExact, MaskingExact DEF ServeList

LEMMA ListsStepKeep ==
  ASSUME RecordsInv, RecordsInv', ShowsInv, ListsInv, [Next]_directoryVars
  PROVE  ListsInv'
<1>1. PlacesFit'
  BY PlacesStepKeep DEF ListsInv
<1>2. ASSUME NEW d \in Calls
      PROVE  ListUndisturbed(d, call[d])'
  <2>1. ASSUME NEW c \in Calls, Serve(c)
        PROVE  ListUndisturbed(d, call[d])'
    <3>1. CASE d = c
      BY <2>1, <3>1, ServedListExact, ServedElsewhere DEF Serve
    <3>2. CASE d # c
      BY <2>1, <3>2, ServingLeavesLists
    <3> QED
      BY <3>1, <3>2
  <2>2. ASSUME NEW c \in Calls, Begin(c)
        PROVE  ListUndisturbed(d, call[d])'
    <3>1. CASE BeginList(c) /\ c = d
      BY <3>1, BeginningListExact
    <3>2. CASE ~(BeginList(c) /\ c = d)
      BY <2>2, <3>2, InterruptionsLeaveLists
    <3> QED
      BY <3>1, <3>2
  <2> QED
    BY <2>1, <2>2, InterruptionsLeaveLists DEF Next
<1> QED
  BY <1>1, <1>2 DEF ListsInv

-----------------------------------------------------------------------------
(* Lists and exports are exact.                                            *)

\* Always: what an undisturbed list or export has read, chosen and masked is what
\* there is, and its pages so far are the first ones of the whole answer
\* (listAllEmployees, queryEmployees, loadEmployeeSnapshots, maskRowCells).
THEOREM ListsHold == Spec => []ListsInv
<1>1. Init => ListsInv
  <2> SUFFICES ASSUME Init
               PROVE  ListsInv
    OBVIOUS
  <2>1. \A c \in Calls : call[c].pc = "idle"
    BY DEF Init, RequestsInit, NotAsked
  <2>2. \A c \in Calls : ListUndisturbed(c, call[c]) /\ ~At(c, "append")
    BY <2>1 DEF ListUndisturbed, ListStages, At
  <2>3. roster \in RosterTables /\ stored = [k \in Employees \X FieldIds |-> Null]
    BY DEF Init, RegistryInit
  <2>4. PlacesFit
    BY <2>2, <2>3, OrderAssumption DEF PlacesFit, Hired
  <2> QED
    BY <2>2, <2>4 DEF ListsInv
<1>2. RecordsInv /\ RecordsInv' /\ ShowsInv /\ ListsInv /\ [Next]_directoryVars => ListsInv'
  BY ListsStepKeep
<1> QED
  BY <1>1, <1>2, RecordsHold, ShowsHold, PTL DEF Spec

\* The people that are listed have each a place of their own, from the first to the last.
LEMMA PlacesAreTaken ==
  ASSUME PlacesFit, NEW s, LookHolds(s), s.order \in {"asc", "desc"}
  PROVE  /\ \A e \in ShouldList(s) : PlaceOf(s, e) \in 0..(Cardinality(ShouldList(s)) - 1)
         /\ \A d, e \in ShouldList(s) : PlaceOf(s, d) = PlaceOf(s, e) => d = e
<1>1. PICK P : P = ShouldList(s)
  OBVIOUS
<1>2. PICK id : id = SortField(s)
  OBVIOUS
<1>3. PICK order \in {"asc", "desc"} : order = SortOrder(s)
  BY DEF SortOrder
<1>4. P \in SUBSET Employees /\ P \subseteq HiredOnes /\ IsFiniteSet(P)
  BY <1>1, ListedAreFinite DEF ShouldList, HiredOnes
<1>5. PICK v : v = [e \in P |-> UsedValue(s, e, id)]
  OBVIOUS
<1>6. \A e \in P : HasPlace(v[e])
  BY <1>2, <1>4, <1>5, SortFieldFits, UsedHavePlaces
<1>7. PICK R : R = {p \in P \X P : Before(v[p[1]], v[p[2]], p[1], p[2], order)}
  OBVIOUS
<1>8. IsOrder(R, P)
  BY <1>4, <1>6, <1>7, BeforeIsOrder
<1>9. ASSUME NEW e \in P
      PROVE  PlaceOf(s, e) = Cardinality(Earlier(R, P, e))
  <2>1. \A d \in P : StandsBefore(s, d, e) <=> Before(v[d], v[e], d, e, order)
    BY <1>2, <1>3, <1>5, <1>9 DEF StandsBefore, SortField, SortOrder
  <2>2. {d \in ShouldList(s) : StandsBefore(s, d, e)} = Earlier(R, P, e)
    BY <1>1, <1>7, <1>9, <2>1 DEF Earlier
  <2> QED
    BY <2>2 DEF PlaceOf
<1>10. \A e \in P : PlaceOf(s, e) \in 0..(Cardinality(P) - 1)
  BY <1>4, <1>8, <1>9, PlacesAreWithin
<1>11. \A d, e \in P : PlaceOf(s, d) = PlaceOf(s, e) => d = e
  BY <1>4, <1>8, <1>9, PlacesDiffer
<1> QED
  BY <1>1, <1>10, <1>11

\* Those whose places are so many from the first on.
Due(s, first, size) == {e \in ShouldList(s) : PlaceOf(s, e) - first \in 0..(size - 1)}
StandFrom(s, rows, first, length) ==
  DOMAIN rows = 1..length /\ \A i \in 1..length : IsAtPlace(s, rows[i].employee, first + i - 1)

\* Rows at their places, as many as there are from the first on, are those that are due.
LEMMA DueRows ==
  ASSUME PlacesFit, NEW s, LookHolds(s), s.order \in {"asc", "desc"},
         NEW total \in Nat, total = Cardinality(ShouldList(s)), NEW first \in Nat, NEW size \in Nat,
         NEW length, length = LengthOf(total, first, size), NEW rows, StandFrom(s, rows, first, length)
  PROVE  /\ length = Cardinality(Due(s, first, size))
         /\ \A e \in Due(s, first, size) : rows[PlaceOf(s, e) - first + 1].employee = e
<1> PICK due : due = {e \in ShouldList(s) : PlaceOf(s, e) - first \in 0..(size - 1)}
  OBVIOUS
<1> due = Due(s, first, size)
  BY DEF Due
<1> DOMAIN rows = 1..length /\ \A i \in 1..length : IsAtPlace(s, rows[i].employee, first + i - 1)
  BY DEF StandFrom
<1>1. length \in Nat /\ length <= size
  BY DEF LengthOf
<1>2. /\ \A e \in ShouldList(s) : PlaceOf(s, e) \in 0..(total - 1)
      /\ \A d, e \in ShouldList(s) : PlaceOf(s, d) = PlaceOf(s, e) => d = e
  BY PlacesAreTaken
<1>3. PICK who : who = [i \in 1..length |-> rows[i].employee]
  OBVIOUS
<1>4. ASSUME NEW i \in 1..length
      PROVE  who[i] \in due /\ PlaceOf(s, who[i]) = first + i - 1
  <2>1. who[i] \in ShouldList(s) /\ PlaceOf(s, who[i]) = first + i - 1
    BY <1>3, <1>4 DEF IsAtPlace
  <2>2. first + i - 1 - first \in 0..(size - 1)
    BY <1>1, <1>4
  <2> QED
    BY <2>1, <2>2
<1>5. ASSUME NEW e \in due
      PROVE  PlaceOf(s, e) - first + 1 \in 1..length /\ who[PlaceOf(s, e) - first + 1] = e
  <2>1. PICK p : p = PlaceOf(s, e)
    OBVIOUS
  <2>2. e \in ShouldList(s) /\ p \in 0..(total - 1) /\ p - first \in 0..(size - 1)
    BY <1>2, <1>5, <2>1
  <2>3. PICK i : i = p - first + 1
    OBVIOUS
  <2>4. i \in 1..length /\ first + i - 1 = p
    BY <2>2, <2>3 DEF LengthOf
  <2>5. who[i] \in ShouldList(s) /\ PlaceOf(s, who[i]) = p
    BY <1>4, <2>4
  <2>6. who[i] = e
    BY <1>2, <2>1, <2>2, <2>5
  <2> QED
    BY <2>1, <2>3, <2>4, <2>6
<1>6. who \in Bijection(1..length, due)
  <2>1. who \in [1..length -> due]
    BY <1>3, <1>4
  <2>2. ASSUME NEW i \in 1..length, NEW j \in 1..length, who[i] = who[j]
        PROVE  i = j
    <3>1. first + i - 1 = first + j - 1
      BY <1>4, <2>2
    <3> QED
      BY <1>1, <3>1
  <2>3. \A e \in due : \E i \in 1..length : who[i] = e
    BY <1>5
  <2> QED
    BY <2>1, <2>2, <2>3 DEF Bijection, Injection, Surjection, IsInjective
<1>7. length = Cardinality(due)
  BY <1>1, <1>6, FS_CountingElements DEF ExistsBijection
<1>8. \A e \in due : rows[PlaceOf(s, e) - first + 1].employee = e
  BY <1>3, <1>5
<1> QED
  BY <1>7, <1>8

\* The step of a list that has been about to be masked, and is answered.
LEMMA ListServedAtItsPlace ==
  ASSUME RecordsInv, ShowsInv, [Next]_directoryVars, NEW c \in Calls, At(c, "mask"), call'[c].pc = "done"
  PROVE  MaskRows(c)
<1>1. ListState(c, call[c])
  BY ListServed DEF At, ListStages
<1>2. call'[c] # call[c] /\ DOMAIN call = Calls /\ "pc" \in DOMAIN call[c] /\ "op" \notin DOMAIN call[c]
  BY <1>1 DEF At, ListState, ShowsInv, TablesFit
<1>3. ~Begin(c)
  BY DEF Begin, BeginRegistry, BeginList, BeginRecord, At
<1>4. ~StatementFails(c) /\ ~Crash
  BY <1>2 DEF StatementFails, Fail, Goto, Crash, Waiting, Answers, At
<1>5. ~ServeRegistry(c)
  BY DEF ServeRegistry, MayManage, DefineField, WritableField, GateSet, MayWrite, SetValue, ReadBack,
     SetBuiltinFieldValue, ChooseDefinitions, QueryValues, At
<1>6. ~(ServeRecord(c) \/ RowFails(c))
  BY <1>2, RecordServed, OpsByPlace DEF RecordsInv, CallsFit, RecordState, RecordFields
<1>7. ServeList(c)
  BY <1>2, <1>3, <1>4, <1>5, <1>6, OneServedAtATime DEF RecordsInv, Serve
<1> QED
  BY <1>7 DEF ServeList, ChooseColumns, Prepare, Look, ResolveEveryone, LoadEmployeeSnapshots, QueryEmployees,
     PageAudiences, At

\* An answer whose rows are at their places, as many as are due, has the rows it should have.
LEMMA AnswerHasItsRows ==
  ASSUME PlacesFit, NEW r, LookHolds(r), r.order \in {"asc", "desc"},
         NEW s, AsksTheSame(s, r), NEW first \in Nat, first = FirstPlace(s),
         NEW size \in Nat, size = IF s.kind = "export" THEN Cardinality(ShouldList(s)) ELSE s.pageSize,
         NEW total \in Nat, total = Cardinality(ShouldList(r)),
         NEW length \in Nat, length = LengthOf(total, first, size), NEW rows, rows = s.rows, RowsFit(rows),
         StandFrom(r, rows, first, length)
  PROVE  RowsAreExact(s)
<1>1. ShouldList(s) = ShouldList(r) /\ \A e : PlaceOf(s, e) = PlaceOf(r, e)
  <2>1. ShouldList(s) = ShouldList(r)
    BY SameAnswer
  <2> QED
    BY <2>1 DEF AsksTheSame, PlaceOf, StandsBefore, UsedValue
<1>2. PICK due : due = Due(r, first, size)
  OBVIOUS
<1>3. length = Cardinality(due) /\ \A e \in due : rows[PlaceOf(r, e) - first + 1].employee = e
  BY <1>2, DueRows
<1>4. Len(rows) = length
  <2>1. rows \in Seq({rows[i] : i \in DOMAIN rows})
    BY DEF RowsFit
  <2>2. Len(rows) \in Nat /\ DOMAIN rows = 1..Len(rows)
    BY <2>1
  <2> QED
    BY <2>2 DEF StandFrom
<1>5. due = {e \in ShouldList(s) : PlaceOf(s, e) - FirstPlace(s) \in 0..(size - 1)}
  BY <1>1, <1>2 DEF Due
<1>6. \A e \in due : rows[PlaceOf(s, e) - FirstPlace(s) + 1].employee = e
  BY <1>1, <1>3
<1>7. Len(s.rows) = Cardinality(due) /\ \A e \in due : s.rows[PlaceOf(s, e) - FirstPlace(s) + 1].employee = e
  BY <1>3, <1>4, <1>6
<1> QED
  BY <1>5, <1>7 DEF RowsAreExact

\* What is made of a page, and what is answered.
Masked(r) == [i \in DOMAIN r.batch |-> MaskRow(r, r.batch[i])]
ListShown(r) ==
  [i \in DOMAIN Masked(r) |->
     [employee |-> Masked(r)[i].employee, cells |-> Masked(r)[i].cells,
      writable |-> WritableFields(r, Masked(r)[i].employee)]]
PagesRead(r) == r.rows \o Masked(r)
ExportShown(r) == [i \in DOMAIN PagesRead(r) |-> ExportRow(r, PagesRead(r)[i])]
Answered(s, r) ==
  AsksTheSame(s, r) /\ s.kind = r.kind /\ s.columns = r.columns /\ s.page = r.page /\ s.pageSize = r.pageSize

LEMMA ShownRowsFit ==
  ASSUME NEW length \in Nat, NEW rows, rows = [i \in 1..length |-> rows[i]]
  PROVE  RowsFit(rows)
<1>1. rows \in [1..length -> {rows[i] : i \in DOMAIN rows}]
  OBVIOUS
<1> QED
  BY <1>1, SeqDef DEF RowsFit

\* The page of a list, answered: the rows it should have, and their cells.
LEMMA ListAnswerIsExact ==
  ASSUME PlacesFit, NEW c, NEW r, ListState(c, r), r.pc = "mask", ListHolds(r), r.kind = "list",
         NEW s, Answered(s, r), s.rows = ListShown(r)
  PROVE  RowsAreExact(s) /\ CellsAreExact(s)
<1>1. PICK masked : masked = [i \in DOMAIN r.batch |-> MaskRow(r, r.batch[i])]
  OBVIOUS
<1>2. PICK shown : shown = ListShown(r)
  OBVIOUS
<1>3. /\ Len(r.batch) \in Nat /\ DOMAIN masked = 1..Len(r.batch)
      /\ \A i \in 1..Len(r.batch) :
           IsAtPlace(r, masked[i].employee, Offset(r) + i - 1) /\ RowIsMasked(r, masked[i])
  BY <1>1, MaskedPagesAreExact
<1>4. LookHolds(r) /\ BatchIsExact(r) /\ r.order \in {"asc", "desc"}
  BY DEF ListHolds, Looked, AskedFor
<1>5. PICK length \in Nat : length = Len(r.batch)
  BY <1>3
<1>6. PICK total \in Nat : total = Cardinality(ShouldList(r))
  BY ListedAreFinite
<1>7. PICK size \in Nat : size = r.pageSize /\ size >= 1
  BY DEF ListState
<1>8. PICK first \in Nat : first = Offset(r)
  <2>1. PICK page \in Int : page = r.page /\ page >= 1
    BY DEF ListState
  <2>2. (page - 1) * size \in Nat
    BY <1>7, <2>1, SMTT(30)
  <2> QED
    BY <1>7, <2>1, <2>2 DEF Offset
<1>9. length = LengthOf(total, first, size)
  BY <1>4, <1>5, <1>6, <1>7, <1>8 DEF BatchIsExact
<1>10. /\ DOMAIN shown = DOMAIN masked
      /\ shown = [i \in DOMAIN masked |->
           [employee |-> masked[i].employee, cells |-> masked[i].cells, writable |-> WritableFields(r, masked[i].employee)]]
  BY <1>1, <1>2 DEF ListShown, Masked
<1>11. DOMAIN shown = 1..length /\ RowsFit(shown)
      /\ \A i \in 1..length : shown[i].employee = masked[i].employee /\ shown[i].cells = masked[i].cells
  <2>1. DOMAIN shown = 1..length /\ shown = [i \in 1..length |-> shown[i]]
    BY <1>3, <1>5, <1>10
  <2>2. RowsFit(shown)
    BY <2>1, ShownRowsFit
  <2>3. ASSUME NEW i \in 1..length
        PROVE  shown[i].employee = masked[i].employee /\ shown[i].cells = masked[i].cells
    <3>1. i \in DOMAIN masked
      BY <1>3, <1>5, <2>3
    <3>2. shown[i] = [employee |-> masked[i].employee, cells |-> masked[i].cells,
                      writable |-> WritableFields(r, masked[i].employee)]
      BY <1>10, <3>1
    <3>3. PICK writable : writable = WritableFields(r, masked[i].employee)
      OBVIOUS
    <3>4. shown[i] = [employee |-> masked[i].employee, cells |-> masked[i].cells, writable |-> writable]
      BY <3>2, <3>3
    <3>5. PICK row : row = shown[i]
      OBVIOUS
    <3>6. row.employee = masked[i].employee /\ row.cells = masked[i].cells
      BY <3>4, <3>5
    <3> QED
      BY <3>5, <3>6
  <2> QED
    BY <2>1, <2>2, <2>3
<1>12. first = FirstPlace(s) /\ size = IF s.kind = "export" THEN Cardinality(ShouldList(s)) ELSE s.pageSize
  BY <1>7, <1>8 DEF FirstPlace, Offset, Answered
<1>13. StandFrom(r, shown, first, length)
  BY <1>3, <1>5, <1>8, <1>11 DEF StandFrom
<1>14. RowsAreExact(s)
  BY <1>2, <1>4, <1>6, <1>9, <1>11, <1>12, <1>13, AnswerHasItsRows DEF Answered
<1>15. ASSUME NEW i \in DOMAIN s.rows
       PROVE  /\ DOMAIN s.rows[i].cells = {id \in Ids(FilterVisibleFields(org, s.viewer)) : MaySee(org, s.viewer, s.rows[i].employee, id)}
              /\ \A id \in DOMAIN s.rows[i].cells : s.rows[i].cells[id] = CurrentValue(s.rows[i].employee, id)
  <2>1. i \in 1..length /\ s.rows[i] = shown[i]
    BY <1>2, <1>11, <1>15
  <2>3. s.rows[i].cells = masked[i].cells /\ s.rows[i].employee = masked[i].employee
    BY <1>11, <2>1
  <2>2. RowIsMasked(r, masked[i]) /\ s.viewer = r.viewer
    BY <1>3, <1>5, <2>1 DEF AsksTheSame, Answered
  <2> QED
    BY <2>2, <2>3 DEF RowIsMasked, ShownTo
<1>16. s.kind = "list"
  BY DEF Answered
<1> QED
  BY <1>14, <1>15, <1>16 DEF CellsAreExact

\* An export that has read its last page has read everybody who should be in it.
LEMMA ExportEnds ==
  ASSUME NEW c, NEW r, ListState(c, r), r.pc = "mask", ListHolds(r), r.kind = "export",
         NEW rows, rows = PagesRead(r), Len(rows) >= r.total,
         NEW total \in Nat, total = Cardinality(ShouldList(r))
  PROVE  /\ DOMAIN rows = 1..total
         /\ \A i \in 1..total : IsAtPlace(r, rows[i].employee, i - 1) /\ RowIsMasked(r, rows[i])
<1>1. /\ Len(rows) = Offset(r) + Len(r.batch) /\ DOMAIN rows = 1..Len(rows) /\ Offset(r) \in Nat
      /\ \A i \in 1..Len(rows) : IsAtPlace(r, rows[i].employee, i - 1) /\ RowIsMasked(r, rows[i])
  <2>1. PICK masked : masked = [i \in DOMAIN r.batch |-> MaskRow(r, r.batch[i])]
    OBVIOUS
  <2>2. rows = r.rows \o masked
    BY <2>1 DEF PagesRead, Masked
  <2> QED
    BY <2>1, <2>2, ExportedPagesAreExact
<1>2. BatchIsExact(r) /\ PagesAreExact(r)
  BY DEF ListHolds, ExportHolds
<1>3. PICK offset \in Nat : offset = Offset(r)
  BY <1>1
<1>4. PICK size \in Int : size = r.pageSize /\ size >= 1
  BY DEF ListState
<1>5. Len(rows) = total
  <2>1. PICK length : length = LengthOf(total, offset, size)
    OBVIOUS
  <2>2. offset <= total /\ Len(rows) = offset + length /\ offset + length >= total
    BY <1>1, <1>2, <1>3, <1>4, <2>1 DEF BatchIsExact, PagesAreExact
  <2>3. length \in Int
    BY <1>3, <1>4, <2>1 DEF LengthOf
  <2>4. offset + length = total
    BY <1>3, <1>4, <2>1, <2>2, <2>3 DEF LengthOf
  <2> QED
    BY <2>2, <2>4
<1> QED
  BY <1>1, <1>5

\* Its answer: the rows it should have, and their cells.
LEMMA ExportAnswerIsExact ==
  ASSUME PlacesFit, NEW c, NEW r, ListState(c, r), r.pc = "mask", ListHolds(r), r.kind = "export",
         Len(PagesRead(r)) >= r.total, NEW s, Answered(s, r), s.rows = ExportShown(r)
  PROVE  RowsAreExact(s) /\ CellsAreExact(s)
<1>1. /\ LookHolds(r) /\ r.order \in {"asc", "desc"} /\ r.down = {} /\ r.columns \subseteq Ids(ShownTo(r))
  BY DEF ListHolds, Looked, AskedFor, ExportHolds
<1>2. PICK rows : rows = PagesRead(r)
  OBVIOUS
<1>3. PICK shown : shown = ExportShown(r)
  OBVIOUS
<1>4. PICK total \in Nat : total = Cardinality(ShouldList(r))
  BY ListedAreFinite
<1>5. /\ DOMAIN rows = 1..total
      /\ \A i \in 1..total : IsAtPlace(r, rows[i].employee, i - 1) /\ RowIsMasked(r, rows[i])
  BY <1>4, <1>2, ExportEnds
<1>6. total = LengthOf(total, 0, total)
  BY DEF LengthOf
<1>7. /\ DOMAIN shown = 1..total /\ RowsFit(shown)
      /\ \A i \in 1..total : shown[i] = ExportRow(r, rows[i]) /\ shown[i].employee = rows[i].employee
  <2>1. DOMAIN shown = 1..total /\ shown = [i \in 1..total |-> shown[i]]
    BY <1>2, <1>3, <1>5 DEF ExportShown
  <2>2. RowsFit(shown)
    BY <2>1, ShownRowsFit
  <2>3. \A i \in 1..total : shown[i] = ExportRow(r, rows[i])
    BY <1>2, <1>3, <1>5 DEF ExportShown
  <2>4. \A row : ExportRow(r, row).employee = row.employee
    BY DEF ExportRow
  <2> QED
    BY <2>1, <2>2, <2>3, <2>4
<1>8. 0 = FirstPlace(s) /\ total = IF s.kind = "export" THEN Cardinality(ShouldList(s)) ELSE s.pageSize
  BY <1>4, SameAnswer DEF FirstPlace, Answered
<1>9. \A i \in 1..total : IsAtPlace(r, shown[i].employee, 0 + i - 1)
  <2>1. ASSUME NEW i \in 1..total
        PROVE  IsAtPlace(r, shown[i].employee, 0 + i - 1)
    <3>1. IsAtPlace(r, rows[i].employee, i - 1) /\ shown[i].employee = rows[i].employee
      BY <1>5, <1>7
    <3>2. 0 + i - 1 = i - 1
      OBVIOUS
    <3> QED
      BY <3>1, <3>2
  <2> QED
    BY <2>1
<1>10. RowsAreExact(s)
  <2>1. PICK first \in Nat : first = 0
    OBVIOUS
  <2>2. /\ first = FirstPlace(s) /\ total = LengthOf(total, first, total)
        /\ StandFrom(r, shown, first, total)
    BY <1>6, <1>7, <1>8, <1>9, <2>1 DEF StandFrom
  <2> QED
    BY <1>1, <1>4, <1>3, <1>7, <1>8, <2>2, AnswerHasItsRows DEF Answered
<1>11. ASSUME NEW i \in DOMAIN s.rows, NEW id \in s.columns, MaySee(org, s.viewer, s.rows[i].employee, id)
       PROVE  s.rows[i].cells[id] = CurrentValue(s.rows[i].employee, id)
  <2>1. i \in 1..total /\ s.rows[i] = ExportRow(r, rows[i]) /\ s.rows[i].employee = rows[i].employee
    BY <1>3, <1>7, <1>11
  <2>2. RowIsMasked(r, rows[i]) /\ s.viewer = r.viewer
    BY <1>5, <2>1 DEF AsksTheSame, Answered
  <2>3. id \in DOMAIN rows[i].cells /\ rows[i].cells[id] = CurrentValue(rows[i].employee, id)
    BY <1>1, <1>11, <2>1, <2>2 DEF RowIsMasked, Answered
  <2>4. s.rows[i].cells[id] = rows[i].cells[id]
    <3>1. ExportRow(r, rows[i]).cells[id] = ExportCell(r, rows[i], id)
      BY <1>11 DEF ExportRow, Answered
    <3>2. ExportCell(r, rows[i], id) = rows[i].cells[id]
      BY <1>1, <2>3 DEF ExportCell
    <3> QED
      BY <2>1, <3>1, <3>2
  <2> QED
    BY <2>1, <2>3, <2>4
<1>12. s.kind = "export"
  BY DEF Answered
<1> QED
  BY <1>10, <1>11, <1>12 DEF CellsAreExact

\* A list or an export that nothing has come between has exactly the matching
\* people, each once, at their places, and exactly the cells the viewer may see
\* with the values they have (listAllEmployees, queryEmployees, maskRowCells).
THEOREM ListsAreExact == Spec => UndisturbedListIsExact
<1>1. ASSUME RecordsInv, ShowsInv, ListsInv, [Next]_directoryVars, NEW c \in Calls
      PROVE  ListIsExact(c)
  <2>1. SUFFICES ASSUME At(c, "mask"), call'[c].pc = "done", steady[c], call[c].failed = {}
                 PROVE  RowsAreExact(call'[c]) /\ CellsAreExact(call'[c])
    BY DEF ListIsExact
  <2>2. MaskRows(c) /\ DOMAIN call = Calls
    BY <1>1, <2>1, ListServedAtItsPlace DEF ShowsInv, TablesFit
  <2>3. PICK r : r = call[c]
    OBVIOUS
  <2>4. ListState(c, r) /\ r.pc = "mask" /\ ListHolds(r) /\ PlacesFit
    BY <1>1, <2>1, <2>3, ListServed DEF At, ListStages, ListsInv, ListUndisturbed
  <2>5. ASSUME NEW shown, Done(c, r, shown, r.total)
        PROVE  Answered(call'[c], r) /\ call'[c].rows = shown
    <3>1. PICK s : s = [pc |-> "done", kind |-> r.kind, viewer |-> r.viewer, sort |-> r.sort, order |-> r.order,
             filters |-> r.filters, columns |-> r.columns, page |-> r.page, pageSize |-> r.pageSize,
             rows |-> shown, total |-> r.total, failed |-> r.failed]
      OBVIOUS
    <3>2. call'[c] = s
      BY <2>2, <2>5, <3>1 DEF Done, Become
    <3> QED
      BY <3>1, <3>2 DEF Answered, AsksTheSame
  <2>6. CASE r.kind = "list"
    <3>1. Done(c, r, ListShown(r), r.total)
      BY <2>2, <2>3, <2>6 DEF MaskRows, ListShown, Masked
    <3> QED
      BY <2>4, <2>5, <2>6, <3>1, ListAnswerIsExact
  <2>7. CASE r.kind # "list" /\ Len(PagesRead(r)) >= r.total
    <3>1. Done(c, r, ExportShown(r), r.total)
      BY <2>2, <2>3, <2>7 DEF MaskRows, ExportShown, PagesRead, Masked
    <3>2. r.kind = "export"
      BY <2>4, <2>7 DEF ListHolds, AskedFor
    <3> QED
      BY <2>4, <2>5, <2>7, <3>1, <3>2, ExportAnswerIsExact
  <2>8. CASE r.kind # "list" /\ ~(Len(PagesRead(r)) >= r.total)
    <3>1. PICK s : s = [r EXCEPT !.pc = "look", !.rows = PagesRead(r), !.batch = <<>>, !.page = @ + 1]
      OBVIOUS
    <3>2. Become(c, s) /\ s.pc = "look"
      BY <2>2, <2>3, <2>4, <2>8, <3>1 DEF MaskRows, PagesRead, Masked, ListState
    <3> QED
      BY <2>1, <2>2, <3>2 DEF Become
  <2> QED
    BY <2>6, <2>7, <2>8
<1>2. RecordsInv /\ ShowsInv /\ ListsInv /\ [Next]_directoryVars => [\A c \in Calls : ListIsExact(c)]_directoryVars
  BY <1>1
<1> QED
  BY <1>2, RecordsHold, ShowsHold, ListsHold, PTL DEF Spec, UndisturbedListIsExact
=============================================================================

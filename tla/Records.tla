------------------------------ MODULE Records ------------------------------
(* What is written about an employee: notes, feedback, risks, contacts,    *)
(* documents, assessments and plans (IDP); uploaded files and photos; and  *)
(* the dashboard of risks.  Every request passes the gate of its section   *)
(* first, and then reads and writes by the identifier it was given.        *)
EXTENDS SequencesExt, Audience

CONSTANTS
  NoRecord,
  StoredIds,       \* records, and files, that are there to begin with
  RecordTables,    \* what the tables may hold at first
  Photos,          \* the photos there may be at first
  Asks,            \* what is asked for: op, kind, viewer, subject, id, data
  Permitted,       \* <<viewer, kind>>: a functional role lets them write such records
  Today            \* days are numbers; 0 is a day that no calendar has

\* A request that creates something creates the record, or the file, that
\* bears its name.
RecordIds == StoredIds \cup Calls

\* Contacts, notes and feedback may be removed, only plans be completed, and files
\* are uploaded, downloaded, and not changed (the routes of the controllers).
MayBeAsked(op, kind) ==
  CASE op = "upload" -> kind \in {"document", "photo"}
    [] op \in {"create", "change"} -> kind \notin {"document", "photo"}
    [] op = "remove" -> kind \in {"note", "feedback", "contact", "emergency"}
    [] op = "complete" -> kind = "plan"
    [] op = "download" -> kind = "document"
    [] op = "view" -> kind = "photo"
    [] op \in {"list", "risks"} -> TRUE
    [] OTHER -> FALSE

\* At first the file of a document bears its name, and of a photo the employee has to themself.
ASSUME RecordsAssumption ==
  /\ StoredIds \cap Calls = {} /\ NoRecord \notin RecordIds
  /\ \A table \in RecordTables :
       /\ DOMAIN table = RecordIds /\ \A c \in Calls : table[c] = NoRecord
       /\ \A i \in StoredIds : table[i] # NoRecord =>
            DOMAIN table[i] = {"kind", "subject", "data"} /\ (table[i].kind = "document" => table[i].data.file = i)
  /\ \A p \in Photos :
       /\ p \in [Employees -> StoredIds \cup {NoRecord}]
       /\ \A d, e \in Employees : d # e /\ p[d] # NoRecord => p[d] # p[e]
       /\ \A table \in RecordTables, e \in Employees :
            p[e] # NoRecord /\ table[p[e]] # NoRecord => table[p[e]].kind # "document"
  /\ \A ask \in Asks :
       /\ {ask.viewer, ask.subject} \subseteq Employees /\ MayBeAsked(ask.op, ask.kind)
       /\ ask.op \in {"change", "remove", "complete", "download"} => ask.id \in RecordIds

VARIABLES
  records,         \* records[r]: kind, subject and data of a record, or NoRecord
  files,           \* the uploaded files that exist
  photo            \* photo[e]: the file of somebody's photo, or NoRecord

recordVars == <<records, files, photo>>
Kept(r) == records[r] # NoRecord

RecordsInit ==
  /\ records \in RecordTables /\ photo \in Photos
  /\ files = {r \in StoredIds : (Kept(r) /\ records[r].kind = "document") \/ \E e \in Employees : photo[e] = r}

SectionOf(kind) ==
  CASE kind = "note" -> "S7" [] kind = "feedback" -> "S8" [] kind = "risk" -> "S6" [] kind \in {"contact", "address"} -> "S2"
    [] kind = "emergency" -> "S3" [] kind = "document" -> "S5" [] kind = "photo" -> "S1"
    [] kind \in {"assessment", "plan"} -> "S12"

-----------------------------------------------------------------------------
(* What a record may hold, and who sees it *)

ContactFits(data) ==
  CASE data.type = "email" -> data.value = "a@b.c" [] data.type = "phone" -> data.value = "+1"
    [] data.type = "other" -> TRUE

RecordedAtFits(day) == day \in 1..Today

\* The content of a file is one of those its kind of upload allows.
Fitting(kind, data) ==
  CASE kind = "contact" -> ContactFits(data)
    [] kind \in {"feedback", "risk"} -> RecordedAtFits(data.day)
    [] kind \in {"plan", "assessment"} -> data.day > 0
    [] kind \in {"document", "photo"} -> data.allowed
    [] kind \in {"note", "emergency", "address"} -> TRUE

\* A change is looked at by itself, a contact's as well.
FitsAlone(kind, found, patch) ==
  "day" \in DOMAIN patch => Fitting(IF kind = "plan" THEN kind ELSE "feedback", patch)

\* A contact's change is looked at together with what was found.
FitsChanged(kind, found, patch) ==
  IF kind = "contact" THEN ContactFits(Over(patch, found)) ELSE FitsAlone(kind, found, patch)

ProjectLineDocuments == {"CV", "CERTIFICATE"}

NoteVisible(audience, data) ==
  \/ audience.sections["S7"] = "RW"
  \/ audience.role = "Self" /\ data.forEmployee
  \/ audience.role = "ProjectLine" /\ audience.sections["S7"] = "R" /\ data.forPm

DocumentVisible(audience, data) == audience.role # "ProjectLine" \/ data.type \in ProjectLineDocuments

Visible(audience, record) ==
  CASE record.kind = "note" -> NoteVisible(audience, record.data)
    [] record.kind = "feedback" -> audience.sections["S8"] = "RW" \/ record.data.shared
    [] record.kind = "document" -> DocumentVisible(audience, record.data)
    [] OTHER -> TRUE

\* The notes' section knows who may read without writing.
Supported(audience, kind) ==
  kind = "note" => audience.sections["S7"] = "RW" \/ audience.role \in {"Self", "ProjectLine"}

-----------------------------------------------------------------------------
(* The gates *)

\* Identifiers are made up by the server: a record that a request has made is
\* known from its answer, or from the section once it is there, and not before.
BeginRecord(c) ==
  /\ At(c, "idle") /\ Arrives(c) /\ UNCHANGED <<steady, recordVars>>
  /\ \E ask \in Asks :
       /\ ask.id \in Calls => Kept(ask.id) \/ At(ask.id, "done")
       /\ Become(c, [pc |-> IF ask.op = "risks" THEN "walk" ELSE "enter", op |-> ask.op, kind |-> ask.kind,
            viewer |-> ask.viewer, subject |-> ask.subject, id |-> ask.id, data |-> ask.data,
            audience |-> NoRecord, found |-> NoRecord, queue |-> <<ask.viewer>>, people |-> {}, answer |-> NoRecord])

\* Plans, assessments and risks may also be written by a functional role of
\* somebody who sees the section; files are one's own.
MayEnter(r, audience) ==
  LET level == audience.sections[SectionOf(r.kind)]
  IN  CASE r.op \in {"list", "download", "view"} -> level # "none"
        [] r.op \in {"upload", "complete"} -> r.viewer = r.subject /\ level # "none"
        [] r.op \in {"create", "change", "remove"} ->
             \/ level = "RW"
             \/ r.kind \in {"risk", "plan", "assessment"} /\ <<r.viewer, r.kind>> \in Permitted /\ level # "none"

FirstStep(r) ==
  CASE r.op = "list" -> "read"
    [] r.op = "view" -> "portrait"
    [] r.op = "upload" -> "save"
    [] r.op = "create" -> "insert"
    [] r.op = "complete" -> "update"
    [] r.op = "change" -> IF r.kind \notin {"plan", "assessment", "address"} THEN "find"
                          ELSE IF DOMAIN r.data = {} THEN "peek" ELSE "update"
    [] r.op \in {"remove", "download"} -> "find"

EnterSection(c) ==
  /\ At(c, "enter") /\ Reads /\ UNCHANGED recordVars
  /\ LET audience == AudienceOf(org, call[c].viewer, call[c].subject)
     IN  IF MayEnter(call[c], audience)
         THEN Become(c, [call[c] EXCEPT !.pc = FirstStep(call[c]), !.audience = audience])
         ELSE Goto(c, "refused")

-----------------------------------------------------------------------------
(* Records *)

Said(c, answer) == Become(c, [call[c] EXCEPT !.pc = "done", !.answer = answer])
Denied(c) == Goto(c, "refused") /\ Reads /\ UNCHANGED recordVars
Stored(r) == Kept(r.id) /\ records[r.id].kind = r.kind /\ records[r.id].subject = r.subject

InsertRecord(c) ==
  /\ At(c, "insert")
  /\ LET r == call[c]
         new == [kind |-> r.kind, subject |-> r.subject, data |-> r.data]
     IN  IF ~Fitting(r.kind, r.data) THEN Denied(c)
         ELSE /\ records' = [records EXCEPT ![c] = new]
              /\ Said(c, new) /\ Commits(c) /\ UNCHANGED <<files, photo>>

FindRecord(c) ==
  /\ At(c, "find")
  /\ LET r == call[c] IN
     IF ~Stored(r) \/ (r.op = "change" /\ ~FitsChanged(r.kind, records[r.id].data, r.data)) THEN Denied(c)
     ELSE /\ Become(c, [r EXCEPT !.found = records[r.id].data,
               !.pc = CASE r.op = "change" -> "write" [] r.op = "remove" -> "delete" [] r.op = "download" -> "judge"])
          /\ Reads /\ UNCHANGED recordVars

\* By identifier: a record that has gone meanwhile is not found.
WriteRecord(c) ==
  /\ At(c, "write")
  /\ LET r == call[c]
         new == [records[r.id] EXCEPT !.data = Over(r.data, @)]
     IN  IF ~Kept(r.id) THEN Denied(c)
         ELSE /\ records' = [records EXCEPT ![r.id] = new]
              /\ Said(c, new) /\ Commits(c) /\ UNCHANGED <<files, photo>>

DeleteRecord(c) ==
  /\ At(c, "delete")
  /\ IF ~Kept(call[c].id) THEN Denied(c)
     ELSE /\ records' = [records EXCEPT ![call[c].id] = NoRecord]
          /\ Goto(c, "done") /\ Commits(c) /\ UNCHANGED <<files, photo>>

\* Any record of the subject, however far a plan has come.
AnyOf(r) == Stored(r)

\* The rows of an updateMany: a plan that has been completed is none of them.
OpenOnly(r) == Stored(r) /\ (r.kind = "plan" => records[r.id].data.completed = NoRecord)

UpdateRecord(c) ==
  /\ At(c, "update")
  /\ LET r == call[c]
         patch == IF r.op = "complete" THEN [completed |-> c] ELSE r.data
     IN  IF r.op = "change" /\ ~FitsChanged(r.kind, NoRecord, r.data) THEN Denied(c)
         ELSE IF OpenOnly(r)
         THEN /\ records' = [records EXCEPT ![r.id].data = Over(patch, @)]
              /\ Goto(c, "reread") /\ Commits(c) /\ UNCHANGED <<files, photo>>
         ELSE Goto(c, "why") /\ Reads /\ UNCHANGED recordVars

\* Nothing was updated: it is not there, or it is completed.
AssertOpen(c) ==
  /\ At(c, "why") /\ Reads /\ UNCHANGED recordVars
  /\ Goto(c, IF OpenOnly(call[c]) THEN "reread" ELSE "refused")

ReadAgain(c) ==
  /\ At(c, "reread") /\ Reads /\ UNCHANGED recordVars
  /\ IF Stored(call[c]) THEN Said(c, records[call[c].id]) ELSE Goto(c, "refused")

\* A change without fields answers with a plan that is open.
PeekRecord(c) ==
  /\ At(c, "peek") /\ Reads /\ UNCHANGED recordVars
  /\ IF OpenOnly(call[c]) THEN Said(c, records[call[c].id]) ELSE Goto(c, "refused")

ReadSection(c) ==
  /\ At(c, "read") /\ Reads /\ UNCHANGED recordVars
  /\ LET r == call[c] IN
     IF Supported(r.audience, r.kind)
     THEN Said(c, {records[i] : i \in {i \in RecordIds :
            Kept(i) /\ records[i].kind = r.kind /\ records[i].subject = r.subject /\ Visible(r.audience, records[i])}})
     ELSE Goto(c, "refused")

-----------------------------------------------------------------------------
(* Files *)

SaveFile(c) ==
  /\ At(c, "save")
  /\ IF ~Fitting(call[c].kind, call[c].data) THEN Denied(c)
     ELSE /\ files' = files \cup {c} /\ UNCHANGED <<records, photo>>
          /\ Goto(c, IF call[c].kind = "photo" THEN "previous" ELSE "attach") /\ Reads

\* The row of a certificate, which names its file.
Certificate(c) == [kind |-> "document", subject |-> call[c].subject, data |-> [type |-> "CERTIFICATE", file |-> c]]

\* The row of an upload is written: the certificate's, or the employee's.
AttachRow(c) == At(c, "attach") /\ records' = [records EXCEPT ![c] = Certificate(c)] /\ UNCHANGED <<files, photo>>
SwapRow(c) == At(c, "swap") /\ photo' = [photo EXCEPT ![call[c].subject] = c] /\ UNCHANGED <<records, files>>

AttachFile(c) == AttachRow(c) /\ Said(c, Certificate(c)) /\ Commits(c)

\* The previous file goes before the new one has taken its place.
PreviousFirst(c) ==
  /\ At(c, "previous") /\ Reads /\ UNCHANGED <<records, photo>>
  /\ files' = files \ {photo[call[c].subject]} /\ Goto(c, "swap")

PreviousPhoto(c) ==
  /\ At(c, "previous") /\ Reads /\ UNCHANGED recordVars
  /\ Become(c, [call[c] EXCEPT !.found = photo[call[c].subject], !.pc = "swap"])

SwapPhoto(c) ==
  /\ SwapRow(c) /\ Commits(c)
  /\ IF call[c].found = NoRecord THEN Said(c, c) ELSE Goto(c, "unlink")

\* Whether a file could be deleted is logged, not answered.
Unlinked(file) == files' \in {files, files \ {file}} /\ UNCHANGED <<records, photo>>
UnlinkPrevious(c) == At(c, "unlink") /\ Unlinked(call[c].found) /\ Said(c, c) /\ Reads
UndoSave(c) == At(c, "undo") /\ Unlinked(c) /\ Goto(c, "refused") /\ Reads

\* The download asks for the audience again.
JudgeDownload(c) ==
  /\ At(c, "judge") /\ Reads /\ UNCHANGED recordVars
  /\ IF DocumentVisible(AudienceOf(org, call[c].viewer, call[c].subject), call[c].found)
     THEN Goto(c, "open") ELSE Goto(c, "refused")

FindPortrait(c) ==
  /\ At(c, "portrait") /\ Reads /\ UNCHANGED recordVars
  /\ LET file == photo[call[c].subject] IN
     IF file = NoRecord THEN Goto(c, "refused")
     ELSE Become(c, [call[c] EXCEPT !.pc = "open", !.found = [file |-> file]])

OpenFile(c) ==
  /\ At(c, "open") /\ Reads /\ UNCHANGED recordVars
  /\ IF call[c].found.file \in files THEN Said(c, call[c].found) ELSE Goto(c, "refused")

-----------------------------------------------------------------------------
(* The dashboard of risks: the reports, theirs, and so on; those one is    *)
(* partner of; those on one's projects, and their latest records.          *)

Reports(o, manager) == {e \in Employees : o.manager[e] = manager}

WalkReports(c) ==
  /\ At(c, "walk") /\ Reads /\ UNCHANGED recordVars
  /\ LET r == call[c]
         reports == Reports(org, Head(r.queue))
         queue == Tail(r.queue) \o SetToSeq(reports)
     IN  Become(c, [r EXCEPT !.queue = queue, !.people = @ \cup (reports \ {r.viewer}),
                             !.pc = IF queue = <<>> THEN "partnered" ELSE "walk"])

AddPartnered(c) ==
  /\ At(c, "partnered") /\ Reads /\ UNCHANGED recordVars
  /\ Become(c, [call[c] EXCEPT !.pc = "staffed",
       !.people = @ \cup {e \in Employees \ {call[c].viewer} : org.partner[e] = call[c].viewer}])

Staffed(o, viewer) == {e \in Employees \ {viewer} : PmLeg(o, viewer, e) \/ DmLeg(o, viewer, e)}

\* The controller asks first whether there is anybody, and is told by a walk of
\* its own; the service walks again.
AddStaffed(c) ==
  /\ At(c, "staffed") /\ Reads /\ UNCHANGED recordVars
  /\ LET r == call[c]
         people == r.people \cup Staffed(org, r.viewer)
     IN  IF r.found # NoRecord THEN Become(c, [r EXCEPT !.pc = "latest", !.people = people])
         ELSE IF people = {} THEN Goto(c, "refused")
         ELSE Become(c, [r EXCEPT !.pc = "walk", !.queue = <<r.viewer>>, !.people = {}, !.found = people])

RiskLevels == <<"low", "need_attention", "medium", "high", "leaver">>
LevelPlace(level) == CHOOSE i \in DOMAIN RiskLevels : RiskLevels[i] = level

Trend(level, previous) ==
  IF LevelPlace(level) > LevelPlace(previous) THEN "up"
  ELSE IF LevelPlace(level) < LevelPlace(previous) THEN "down" ELSE "flat"

RisksOf(e) == {i \in RecordIds : Kept(i) /\ records[i].kind = "risk" /\ records[i].subject = e}

\* By day, and of one day the one that is there longer is the earlier.
Later(i, j) ==
  \/ records[i].data.day > records[j].data.day
  \/ records[i].data.day = records[j].data.day /\ i \notin StoredIds /\ j \in StoredIds
LatestOf(ids) == {i \in ids : \A j \in ids : ~Later(j, i)}

RiskRow(e) ==
  LET current == CHOOSE i \in LatestOf(RisksOf(e)) : TRUE
      earlier == LatestOf(RisksOf(e) \ {current})
  IN  [employee |-> e, level |-> records[current].data.level,
       trend |-> IF earlier = {} THEN "none"
                 ELSE Trend(records[current].data.level, records[CHOOSE i \in earlier : TRUE].data.level)]

ShowRisks(c) ==
  /\ At(c, "latest") /\ Reads /\ UNCHANGED recordVars
  /\ Said(c, {RiskRow(e) : e \in {e \in call[c].people : RisksOf(e) # {}}})

-----------------------------------------------------------------------------
ServeRecord(c) ==
  \/ EnterSection(c) \/ InsertRecord(c) \/ FindRecord(c) \/ WriteRecord(c) \/ DeleteRecord(c)
  \/ UpdateRecord(c) \/ AssertOpen(c) \/ ReadAgain(c) \/ PeekRecord(c) \/ ReadSection(c)
  \/ SaveFile(c) \/ AttachFile(c) \/ PreviousPhoto(c) \/ SwapPhoto(c) \/ UnlinkPrevious(c) \/ UndoSave(c)
  \/ JudgeDownload(c) \/ FindPortrait(c) \/ OpenFile(c)
  \/ WalkReports(c) \/ AddPartnered(c) \/ AddStaffed(c) \/ ShowRisks(c)

\* When the statement that writes the row of a file fails, the file goes again.
\* The row is not there then, or it is and only the answer to it was lost.
RowFails(c) ==
  /\ call[c].pc \in {"attach", "swap"} /\ Goto(c, "undo")
  /\ \/ Reads /\ UNCHANGED recordVars
     \/ (AttachRow(c) \/ SwapRow(c)) /\ Commits(c)
Compensates(c) == call[c].pc \in {"attach", "swap", "undo", "unlink"}

-----------------------------------------------------------------------------
(* Properties *)

\* What a viewer may see of a record, by the organisation o.
MaySeeRecord(o, viewer, record) ==
  LET audience == AudienceOf(o, viewer, record.subject)
  IN  audience.sections[SectionOf(record.kind)] # "none" /\ Visible(audience, record)

\* An invariant: a section shows records that were open to the viewer at some
\* moment of the request, by the flags they carried when they were read.
SectionsShowNothingHidden ==
  \A c \in Calls : At(c, "done") /\ "op" \in DOMAIN call[c] /\ call[c].op = "list" =>
    \A record \in call[c].answer : \E o \in during[c] : MaySeeRecord(o, call[c].viewer, record)

Names(file) ==
  \/ \E i \in RecordIds : Kept(i) /\ records[i].kind = "document" /\ records[i].data.file = file
  \/ \E e \in Employees : photo[e] = file

\* An invariant: the file a document or a photo names is there, unless the upload
\* of that very file was answered with an error.  Uploads of the same photo that
\* cross, statements of theirs that fail, with the row written or not, and a
\* process that stops anywhere cost nobody the file of an upload that succeeded
\* (uploadPhoto, createCertificate).  Files may be left over.
FilesAreThere ==
  \A file \in RecordIds : Names(file) => file \in files \/ (file \in Calls /\ At(file, "refused"))

IsPlan(i) == Kept(i) /\ records[i].kind = "plan"

\* A plan that has been completed stays as it is, whatever changes of it were on
\* their way, and exactly one request is told that it has completed it
\* (updateIdpRecord, completeIdpRecord).
CompletedPlansAreFinal ==
  [][/\ \A i \in RecordIds : IsPlan(i) /\ records[i].data.completed # NoRecord => records'[i] = records[i]
     /\ \A c \in Calls : At(c, "reread") /\ call'[c].pc = "done" /\ call[c].op = "complete" =>
          call'[c].answer.data.completed = c]_<<recordVars, requestVars>>

\* Over whom somebody has S6 by a reporting line, by being the partner, or on a
\* project: whom the dashboard is said to show (listS6SubjectIds).
HasRisksOf(o, viewer, e) ==
  e # viewer /\ (InReportingLine(o, viewer, e) \/ o.partner[e] = viewer \/ ProjectLine(o, viewer, e) # {})

\* A request that nothing has come between: a contact it has changed fits its
\* type (updateContactMethod), a document it has opened is one the viewer may
\* see (downloadFile), and the dashboard of risks, which goes down the lines,
\* shows exactly those with a risk over whom the viewer stands by a line that is
\* followed upwards, as the partner or on a project (HasRisksOf): for each of them
\* the gate opens S6, though it also opens it to others, by the HR chain and by
\* grants.  A reader whom the gate of the notes has let in finds a form made for
\* them (toSectionDto), at any time.
RecordIsExact(c) ==
  LET r == call[c] IN
  /\ At(c, "read") => Supported(r.audience, r.kind)
  /\ steady[c] /\ At(c, "write") /\ call'[c].pc = "done" /\ r.kind = "contact" => ContactFits(records'[r.id].data)
  /\ steady[c] /\ At(c, "open") /\ call'[c].pc = "done" /\ r.op = "download" =>
       MaySeeRecord(org, r.viewer, [kind |-> "document", subject |-> r.subject, data |-> r.found])
  /\ steady[c] /\ At(c, "latest") /\ call'[c].pc = "done" =>
       /\ {row.employee : row \in call'[c].answer} =
            {e \in Employees : RisksOf(e) # {} /\ HasRisksOf(org, r.viewer, e)}
       /\ \A row \in call'[c].answer : AudienceOf(org, r.viewer, row.employee).sections["S6"] # "none"
=============================================================================

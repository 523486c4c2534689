--------------------------- MODULE FieldRegistry ---------------------------
(* Fields of employees, built in and defined by administrators, with the   *)
(* values of the latter; and the roster that lists of employees are made   *)
(* from.  A value is tagged with its JavaScript type: <<"string", s>>,     *)
(* <<"number", n>>, <<"boolean", b>>, <<"list", sequence of strings>>, or  *)
(* Null.                                                                    *)
EXTENDS Sequences, Audience

CONSTANTS
  Null,
  FieldIds,          \* identifiers for definitions
  FieldManagers,     \* those who may manage custom fields
  DefinitionTables,  \* the definitions there may be to begin with
  RosterTables,      \* the rosters there may be; an employee not hired yet is Null
  Drafts, Definers,  \* the definitions that are asked for, and who asks
  SetOrders,         \* what writers of values ask for: route, viewer, subject, field, value
  Readers,           \* what readers of values ask for: route, viewer, subject
  Place(_),          \* the place of a value, or of an employee, in the order of its kind
  DayOf(_),          \* the day that Date.parse reads from a string, or Null
  IsoOf(_)           \* the string a day is written as

VARIABLES
  definitions,     \* definitions[f]: name, type, visibility and options
  stored,          \* stored[<<e, f>>]: the five columns of a value, or Null
  roster           \* roster[e]: what other tables say of an employee

registryVars == <<definitions, stored, roster>>
SelectTypes == {"select", "multi_select"}
Hired(e) == roster[e] # Null
Defined(f) == definitions[f] # Null

RegistryInit ==
  /\ definitions \in DefinitionTables
  /\ stored = [k \in Employees \X FieldIds |-> Null]
  /\ roster \in RosterTables

-----------------------------------------------------------------------------
(* Values of a definition *)

\* Options are trimmed beforehand; "" is an empty one.
OptionsFit(type, options) ==
  IF type \in SelectTypes
  THEN /\ Len(options) > 0
       /\ \A i, j \in DOMAIN options : options[i] # "" /\ (i # j => options[i] # options[j])
  ELSE options = <<>>

OptionsOf(d) == {d.options[i] : i \in DOMAIN d.options}

Fits(d, value) ==
  \/ value = Null
  \/ d.type = "text" /\ value[1] = "string"
  \/ d.type = "number" /\ value[1] = "number"
  \/ d.type = "date" /\ value[1] = "string" /\ DayOf(value[2]) # Null
  \/ d.type = "boolean" /\ value[1] = "boolean"
  \/ d.type = "select" /\ value[1] = "string" /\ value[2] \in OptionsOf(d)
  \/ /\ d.type = "multi_select" /\ value[1] = "list"
     /\ \A i, j \in DOMAIN value[2] :
          value[2][i] \in OptionsOf(d) /\ (i # j => value[2][i] # value[2][j])

NoColumns == [text |-> Null, number |-> Null, date |-> Null, boolean |-> Null, select |-> Null]

\* Options of a multiple choice kept where a single one is read from.
StorageAsWritten(type, value) ==
  [NoColumns EXCEPT ![IF type \in SelectTypes THEN "select" ELSE type] =
     IF type = "date" THEN DayOf(value[2]) ELSE value]

StorageColumns(type, value) ==
  CASE type = "text" -> [NoColumns EXCEPT !.text = value]
    [] type = "number" -> [NoColumns EXCEPT !.number = value]
    [] type = "date" -> [NoColumns EXCEPT !.date = DayOf(value[2])]
    [] type = "boolean" -> [NoColumns EXCEPT !.boolean = value]
    [] type = "select" -> [NoColumns EXCEPT !.select = value]
    [] type = "multi_select" -> [NoColumns EXCEPT !.text = <<"json", value[2]>>]

FromStorage(type, row) ==
  CASE type = "text" -> row.text
    [] type = "number" -> row.number
    [] type = "date" -> IF row.date = Null THEN Null ELSE <<"string", IsoOf(row.date)>>
    [] type = "boolean" -> row.boolean
    [] type = "select" -> row.select
    [] type = "multi_select" ->
         IF row.text = Null \/ row.text[1] # "json" THEN Null ELSE <<"list", row.text[2]>>

\* What a query for one field of one employee finds.
ValueOf(e, f) ==
  IF stored[<<e, f>>] = Null THEN Null ELSE FromStorage(definitions[f].type, stored[<<e, f>>])

-----------------------------------------------------------------------------
(* Who sees and who writes a custom field *)

HasManagementVisibility(role) == role \in {"ReportingLine", "ProjectLine", "PP", "FullAccess"}

IsVisibleToRole(role, visibility) ==
  CASE visibility = "management" -> HasManagementVisibility(role)
    [] visibility = "employee" -> HasManagementVisibility(role) \/ role = "Self"
    [] visibility = "colleague" -> TRUE

CanViewFieldForSubject(o, viewer, subject, visibility) ==
  /\ AudienceOf(o, viewer, subject).sections["S16"] # "none"
  /\ IsVisibleToRole(AudienceOf(o, viewer, subject).role, visibility)

CanWriteFieldForSubject(o, viewer, subject, visibility) ==
  /\ AudienceOf(o, viewer, subject).sections["S16"] = "RW"
  /\ IsVisibleToRole(AudienceOf(o, viewer, subject).role, visibility)

\* Somebody's first direct report, or else the first peer.
FirstOf(people) == CHOOSE e \in people : \A d \in people : Place(e) <= Place(d)

CatalogAudience(o, viewer) ==
  LET reports == {e \in Employees : Hired(e) /\ o.manager[e] = viewer}
      peers == {e \in Employees : Hired(e) /\ e # viewer}
  IN  IF reports # {} THEN AudienceOf(o, viewer, FirstOf(reports))
      ELSE IF peers # {} THEN AudienceOf(o, viewer, FirstOf(peers))
      ELSE [role |-> "Colleague", sections |-> ColleagueSections]

IsVisibleToRoleForDefinitionList(role, visibility) ==
  HasManagementVisibility(role) \/ (visibility = "colleague" /\ role = "Colleague")

CanViewFieldDefinition(o, viewer, visibility) ==
  LET audience == CatalogAudience(o, viewer)
  IN  /\ audience.sections["S16"] # "none"
      /\ IsVisibleToRoleForDefinitionList(audience.role, visibility)

-----------------------------------------------------------------------------
(* Requests about definitions and values *)

Refuse(c) == Goto(c, "refused") /\ Reads
Answer(c, value) == Become(c, [call[c] EXCEPT !.pc = "done", !.answer = value])

BeginDefine(c) ==
  \E viewer \in Definers, d \in Drafts :
    Become(c, [pc |-> "permit", viewer |-> viewer, draft |-> d, field |-> Null])

MayManage(c) ==
  /\ At(c, "permit") /\ Reads
  /\ IF call[c].viewer \in FieldManagers THEN Goto(c, "define") ELSE Goto(c, "refused")
  /\ UNCHANGED registryVars

\* A name that is taken already meets the unique index.
DefineField(c) ==
  /\ At(c, "define")
  /\ LET d == call[c].draft
     IN  IF OptionsFit(d.type, d.options) /\ \A f \in FieldIds : Defined(f) => definitions[f].name # d.name
         THEN \E f \in {f \in FieldIds : ~Defined(f)} :
                /\ definitions' = [definitions EXCEPT ![f] = d]
                /\ Become(c, [call[c] EXCEPT !.pc = "done", !.field = f])
                /\ Commits(c) /\ UNCHANGED <<stored, roster>>
         ELSE Refuse(c) /\ UNCHANGED registryVars

\* A value is set through the fields' own route or through the employee's.
BeginSet(c) ==
  \E ask \in SetOrders :
    Become(c, [pc |-> IF ask.route = "fields" THEN "gate" ELSE "writable", viewer |-> ask.viewer,
               subject |-> ask.subject, field |-> ask.field, value |-> ask.value, answer |-> Null])

Builtin == {"grade", "position", "employment_type"}

\* A field is named by its identifier, a builtin one by its name; a row of columns
\* is a row; and a day that is read from a string and written again is a day.
ASSUME RegistryAssumption ==
  /\ FieldIds \cap Builtin = {}
  /\ \A table \in DefinitionTables : DOMAIN table = FieldIds
  /\ \A ask \in SetOrders :
       /\ ask.subject \in Employees
       /\ ask.field \in FieldIds \/ (ask.route # "fields" /\ ask.field \in Builtin)
       /\ ask.value # Null =>
            /\ ask.value = <<ask.value[1], ask.value[2]>> /\ <<"json", ask.value[2]>> # Null
            /\ \A type \in {"text", "number", "boolean", "select", "multi_select"} : StorageColumns(type, ask.value) # Null
            /\ ask.value[1] = "string" => StorageColumns("date", ask.value) # Null
            /\ ask.value[1] = "string" /\ DayOf(ask.value[2]) # Null =>
                 LET written == IsoOf(DayOf(ask.value[2]))
                 IN  <<"string", written>> # Null /\ DayOf(written) # Null

WritableField(c) ==
  /\ At(c, "writable") /\ Reads
  /\ LET r == call[c]
         may == \/ /\ r.field \in FieldIds /\ Defined(r.field)
                   /\ CanWriteFieldForSubject(org, r.viewer, r.subject, definitions[r.field].visibility)
                \/ r.field \in Builtin /\ AudienceOf(org, r.viewer, r.subject).sections["S4"] = "RW"
     IN  IF Hired(r.subject) /\ may
         THEN Goto(c, IF r.field \in Builtin THEN "append" ELSE "gate") ELSE Goto(c, "refused")
  /\ UNCHANGED registryVars

GateSet(c) ==
  /\ At(c, "gate") /\ Reads
  /\ IF Hired(call[c].subject) /\ Allows(org, call[c].viewer, call[c].subject, "S16", "RW")
     THEN Goto(c, "may") ELSE Goto(c, "refused")
  /\ UNCHANGED registryVars

MayWrite(c) ==
  /\ At(c, "may") /\ Reads
  /\ IF /\ Defined(call[c].field)
        /\ \/ call[c].viewer \in FieldManagers
           \/ CanWriteFieldForSubject(org, call[c].viewer, call[c].subject,
                                      definitions[call[c].field].visibility)
        /\ Fits(definitions[call[c].field], call[c].value)
     THEN Goto(c, "store") ELSE Goto(c, "refused")
  /\ UNCHANGED registryVars

SetValue(c) ==
  /\ At(c, "store") /\ Goto(c, "readback") /\ Commits(c)
  /\ stored' = [stored EXCEPT ![<<call[c].subject, call[c].field>>] =
       IF call[c].value = Null THEN Null
       ELSE StorageColumns(definitions[call[c].field].type, call[c].value)]
  /\ UNCHANGED <<definitions, roster>>

ReadBack(c) ==
  /\ At(c, "readback") /\ Reads
  /\ Answer(c, ValueOf(call[c].subject, call[c].field))
  /\ UNCHANGED registryVars

\* A row of the field's history, in force from now on.
SetBuiltinFieldValue(c) ==
  /\ At(c, "append")
  /\ LET r == call[c] IN
     IF /\ r.value # Null /\ r.value[1] = "string" /\ r.value[2] # ""
        /\ r.field = "employment_type" => r.value[2] \in {"FTE", "Subcontractor"}
     THEN /\ roster' = [roster EXCEPT ![r.subject][r.field] = r.value]
          /\ Answer(c, r.value) /\ Commits(c) /\ UNCHANGED <<definitions, stored>>
     ELSE Refuse(c) /\ UNCHANGED registryVars

\* Values of one employee, through the fields' route or as a section of the profile.
BeginValues(c) ==
  \E ask \in Readers :
    Become(c, [pc |-> "wanted", route |-> ask.route, viewer |-> ask.viewer, subject |-> ask.subject,
               wanted |-> {}, answer |-> Null])

VisibleDefinitions(route, viewer, subject) ==
  {f \in FieldIds : Defined(f) /\
     \/ route = "fields" /\ viewer \in FieldManagers
     \/ CanViewFieldForSubject(org, viewer, subject, definitions[f].visibility)}

ChooseDefinitions(c) ==
  /\ At(c, "wanted") /\ Reads
  /\ LET r == call[c] IN
     IF Hired(r.subject) /\ Allows(org, r.viewer, r.subject, "S16", "R")
     THEN Become(c, [r EXCEPT !.pc = "query", !.wanted = VisibleDefinitions(r.route, r.viewer, r.subject)])
     ELSE Goto(c, "refused")
  /\ UNCHANGED registryVars

QueryValues(c) ==
  /\ At(c, "query") /\ Reads
  /\ LET r == call[c]
     IN  Answer(c, {<<r.subject, f, ValueOf(r.subject, f)>> :
                      f \in {f \in r.wanted : stored[<<r.subject, f>>] # Null}})
  /\ UNCHANGED registryVars

BeginRegistry(c) ==
  /\ At(c, "idle") /\ Arrives(c) /\ UNCHANGED <<steady, registryVars>>
  /\ BeginDefine(c) \/ BeginSet(c) \/ BeginValues(c)

ServeRegistry(c) ==
  \/ MayManage(c) \/ DefineField(c)
  \/ WritableField(c) \/ GateSet(c) \/ MayWrite(c) \/ SetValue(c) \/ ReadBack(c)
  \/ SetBuiltinFieldValue(c)
  \/ ChooseDefinitions(c) \/ QueryValues(c)

-----------------------------------------------------------------------------
(* Properties *)

\* Date.parse goes on from the thirtieth of February into March.
IsNoDay(d, value) == d.type = "date" /\ IsoOf(DayOf(value[2])) # value[2]

\* An invariant: whatever row stands for a value is read as a value that fits the
\* field's definition (toStorageColumns, fromStorageRow against
\* validateValueForDefinition), and a write that nothing has come between is
\* answered with the value it was given, unless that is a date no calendar has.
ValuesAreKept ==
  /\ \A k \in Employees \X FieldIds : stored[k] # Null =>
       ValueOf(k[1], k[2]) # Null /\ Fits(definitions[k[2]], ValueOf(k[1], k[2]))
  /\ \A c \in Calls : At(c, "done") /\ "value" \in DOMAIN call[c] /\ steady[c] =>
       \/ call[c].answer = call[c].value
       \/ call[c].field \in FieldIds /\ IsNoDay(definitions[call[c].field], call[c].value)

\* What a viewer may see of a custom field, through the fields' route or the profile's.
MaySeeValue(o, route, viewer, subject, f) ==
  \/ route = "fields" /\ viewer \in FieldManagers
  \/ CanViewFieldForSubject(o, viewer, subject, definitions[f].visibility)

\* An invariant: the values of an employee that are answered are those the viewer
\* might see at some moment of the request.
ValuesShowNothingHidden ==
  \A c \in Calls : At(c, "done") /\ "wanted" \in DOMAIN call[c] =>
    \A shown \in call[c].answer : \E o \in during[c] :
      MaySeeValue(o, call[c].route, call[c].viewer, shown[1], shown[2])
=============================================================================

---------------------------- MODULE EmployeeList ----------------------------
(* The list of employees and its export: which fields a viewer may have,   *)
(* filters, order and pages over the roster, and what is masked in a row.  *)
(* An export reads the list page by page, each page from the database as   *)
(* it is then.                                                              *)
EXTENDS FieldRegistry, SequencesExt

CONSTANTS
  Queries,           \* what is asked for: kind, viewer, sort, order, filters, page, pageSize
  MaxPageSize,       \* the page size of an export
  Faults,            \* the providers that may be unavailable together
  ThisYear,
  Lower(_),          \* the text of a value in lower case; Null has the empty one
  Within(_, _)       \* one text is part of another

-----------------------------------------------------------------------------
(* The catalog *)

Field(id, type, source, section, listable, editable) ==
  [id |-> id, type |-> type, source |-> source, section |-> section, sortable |-> listable,
   filterable |-> listable, editable |-> editable, visibility |-> Null]

BuiltinFieldSpecs ==
  {Field("name", "text", "builtin", "S1", TRUE, FALSE),
   Field("grade", "text", "builtin", "S4", TRUE, TRUE),
   Field("position", "text", "builtin", "S1", TRUE, TRUE),
   Field("department", "text", "builtin", "S1", TRUE, FALSE),
   Field("employment_type", "select", "builtin", "S4", TRUE, TRUE),
   Field("years_with_company", "number", "derived", "S4", TRUE, FALSE),
   Field("mentor_status", "select", "derived", "S13", TRUE, FALSE),
   Field("current_leave_dates", "text", "derived", "S10", FALSE, FALSE),
   Field("project_names", "text", "derived", "S11", FALSE, FALSE),
   Field("last_assessment_date", "date", "derived", "S12", TRUE, FALSE),
   Field("has_open_idp", "boolean", "derived", "S12", TRUE, FALSE)}
ProviderBacked == {"last_assessment_date", "has_open_idp"}

ListFields ==
  BuiltinFieldSpecs \cup
  {[id |-> f, type |-> definitions[f].type, source |-> "custom", section |-> "S16", sortable |-> TRUE,
    filterable |-> TRUE, editable |-> TRUE, visibility |-> definitions[f].visibility] :
     f \in {f \in FieldIds : Defined(f)}}

Ids(fields) == {f.id : f \in fields}
Spec1(fields, id) == CHOOSE f \in fields : f.id = id

ASSUME ListAssumption ==
  /\ IsFiniteSet(Employees) /\ FieldIds \cap Ids(BuiltinFieldSpecs) = {}
  /\ MaxPageSize \in Nat \ {0}
  /\ \A q \in Queries :
       /\ q.kind \in {"list", "export"} /\ q.order \in {"asc", "desc"}
       /\ q.page \in Int /\ q.pageSize \in Int

AllowedOperators(type) ==
  CASE type = "number" -> {"eq", "neq", "gt", "gte", "lt", "lte"}
    [] type = "boolean" -> {"eq", "neq"}
    [] type \in SelectTypes -> {"eq", "neq", "in"}
    [] type = "date" -> {"eq", "neq", "gt", "gte", "lt", "lte", "between", "is_empty"}
    [] type = "text" -> {"eq", "neq", "contains"}

-----------------------------------------------------------------------------
(* Which fields a viewer may have in the list at all *)

\* Those a viewer manages, is partner of, or has on a project, and the first peer.
FirstReport(o, viewer) == {e \in Employees : o.manager[e] = viewer}
FirstPartnered(o, viewer) == {e \in Employees : o.partner[e] = viewer}
OnProjectOf(o, viewer) == {row.employee : row \in {r \in o.staffing : viewer \in {r.pm, r.dm}}}
FirstOnProject(o, viewer) ==
  LET rows == {r \in o.staffing : viewer \in {r.pm, r.dm}}
  IN  {row.employee : row \in {r \in rows : \A s \in rows : r.id <= s.id}}

Elevated(o, viewer) ==
  FirstReport(o, viewer) \cup FirstPartnered(o, viewer) \cup OnProjectOf(o, viewer) # {}

SampledAudiences(o, viewer) ==
  {AudienceOf(o, viewer, FirstOf(people)) :
     people \in {{viewer}, FirstReport(o, viewer), FirstPartnered(o, viewer), FirstOnProject(o, viewer),
                 {e \in Employees : Hired(e) /\ e # viewer}} \ {{}}}

CatalogAccess(o, viewer) ==
  IF viewer \in o.granted THEN [sections |-> Sections, elevated |-> TRUE]
  ELSE IF Elevated(o, viewer)
       THEN [sections |-> UNION {GrantedSections(a) : a \in SampledAudiences(o, viewer)}, elevated |-> TRUE]
  ELSE [sections |-> {"S1", "S10", "S11", "S16"} \cup
          {s \in {"S4"} : AudienceOf(o, viewer, viewer).sections[s] # "none"}, elevated |-> FALSE]

\* Without reports, of S4 only the employment type is left, for display.
FilterVisibleFields(o, viewer) ==
  LET catalog == CatalogAccess(o, viewer)
      kept == {f \in ListFields :
        /\ f.section \in catalog.sections
        /\ f.source = "custom" =>
             viewer \in FieldManagers \/ CanViewFieldDefinition(o, viewer, f.visibility)
        /\ f.section = "S4" => catalog.elevated \/ f.id = "employment_type"}
  IN  {IF f.section = "S4" /\ ~catalog.elevated
       THEN [f EXCEPT !.sortable = FALSE, !.filterable = FALSE] ELSE f : f \in kept}

-----------------------------------------------------------------------------
(* Cells, filters and order.  x: the values of fields kept elsewhere.      *)

TenureYears(since) == IF since = Null \/ since > ThisYear THEN Null ELSE <<"number", ThisYear - since>>

MentorStatus(row) ==
  <<"string", IF row.mentors THEN "mentor" ELSE IF row.open THEN "openToMentoring" ELSE "none">>

CellValue(row, x, e, id) ==
  IF <<e, id>> \in DOMAIN x THEN x[<<e, id>>]
  ELSE CASE id \in {"name", "grade", "position", "department", "employment_type"} -> row[id]
         [] id = "years_with_company" -> TenureYears(row.since)
         [] id = "mentor_status" -> MentorStatus(row)
         [] OTHER -> Null

SnapshotColumns == {"name", "grade", "position", "department", "employment_type"}
HasPlace(v) == v = Null \/ Place(v) \in Int
RowHasPlaces(row) ==
  /\ SnapshotColumns \cup {"since", "open", "mentors", "assessed", "openIdp"} \subseteq DOMAIN row
  /\ \A id \in SnapshotColumns : HasPlace(row[id])
  /\ HasPlace(TenureYears(row.since)) /\ HasPlace(MentorStatus(row))
  /\ HasPlace(row.assessed) /\ HasPlace(<<"boolean", row.openIdp>>)

\* Whatever is shown in a cell has a place in the order of its kind; no two
\* identifiers have the same.
ASSUME OrderAssumption ==
  /\ \A e \in Employees : Place(e) \in Int /\ \A d \in Employees : Place(d) = Place(e) => d = e
  /\ \A table \in RosterTables :
       DOMAIN table = Employees /\ \A e \in Employees : table[e] # Null => RowHasPlaces(table[e])
  /\ \A ask \in SetOrders :
       /\ HasPlace(ask.value)
       /\ ask.value # Null /\ ask.value[1] = "string" /\ DayOf(ask.value[2]) # Null =>
            HasPlace(<<"string", IsoOf(DayOf(ask.value[2]))>>)

\* Null comes last, whatever the type.
Less(a, b) == a # Null /\ (b = Null \/ Place(a) < Place(b))

\* The direction turns the order of the identifiers as well.
Before(a, b, d, e, order) ==
  IF Less(a, b) THEN order = "asc" ELSE IF Less(b, a) THEN order = "desc"
  ELSE IF order = "asc" THEN Place(d) < Place(e) ELSE Place(e) < Place(d)

MatchesText(cell, op, v) ==
  \/ op = "eq" /\ Lower(cell) = Lower(v)
  \/ op = "neq" /\ Lower(cell) # Lower(v)
  \/ op = "contains" /\ Within(Lower(v), Lower(cell))

Compares(cell, op, v) ==
  \/ op = "eq" /\ cell = v
  \/ op = "neq" /\ cell # v
  \/ op \in {"gt", "gte"} /\ Place(cell) > Place(v)
  \/ op \in {"lt", "lte"} /\ Place(cell) < Place(v)
  \/ op \in {"gte", "lte"} /\ cell = v

OrElse(v, other) == IF v = Null THEN other ELSE v

\* No number is unequal to nothing, but a date is.  To look for nothing is to look
\* for zero, or for no.
MatchesNumber(cell, op, v) == cell # Null /\ Compares(cell, op, OrElse(v, <<"number", 0>>))
MatchesBoolean(cell, op, v) == cell # Null /\ (op = "eq") = (cell = OrElse(v, <<"boolean", FALSE>>))

MatchesDate(cell, op, v) ==
  \/ op = "is_empty" /\ cell = Null
  \/ op = "between" /\ cell # Null
     /\ Place(<<"string", v[2][1]>>) <= Place(cell) /\ Place(cell) <= Place(<<"string", v[2][2]>>)
  \/ op \notin {"is_empty", "between"} /\ IF cell = Null THEN op = "neq" ELSE Compares(cell, op, v)

MatchesSelect(cell, op, v) ==
  IF op # "in" THEN MatchesText(cell, op, v)
  ELSE IF cell # Null /\ cell[1] = "list"
       THEN \E i \in DOMAIN v[2], j \in DOMAIN cell[2] : v[2][i] = cell[2][j]
       ELSE \E i \in DOMAIN v[2] : OrElse(cell, <<"string", "">>) = <<"string", v[2][i]>>

Matches(cell, type, filter) ==
  CASE type = "number" -> MatchesNumber(cell, filter.op, filter.value)
    [] type = "boolean" -> MatchesBoolean(cell, filter.op, filter.value)
    [] type \in SelectTypes -> MatchesSelect(cell, filter.op, filter.value)
    [] type = "date" -> MatchesDate(cell, filter.op, filter.value)
    [] type = "text" -> MatchesText(cell, filter.op, filter.value)

Filtered(rows, x, fields, filters) ==
  {e \in DOMAIN rows : \A f \in filters : Matches(CellValue(rows[e], x, e, f.field), Spec1(fields, f.field).type, f)}

\* A sort arranges the rows it is given, in order if they have one.
SortedBy(people, rows, x, id, order) ==
  LET ordered == {s \in SetToSeqs(people) : \A i, j \in DOMAIN s : i < j =>
        Before(CellValue(rows[s[i]], x, s[i], id), CellValue(rows[s[j]], x, s[j], id), s[i], s[j], order)}
  IN  CHOOSE s \in SetToSeqs(people) : ordered # {} => s \in ordered

\* The page of an offset that is one page too far.
PageFromOne(sorted, page, size) == SubSeq(sorted, page * size + 1, Min({(page + 1) * size, Len(sorted)}))

PageOf(sorted, page, size) == SubSeq(sorted, (page - 1) * size + 1, Min({page * size, Len(sorted)}))

-----------------------------------------------------------------------------
(* Requests *)

NoAudiences == <<>>
UsesProvider(filters) == \E f \in filters : f.field \in ProviderBacked

\* A saved view may filter by a field this viewer has not: no filter is left then.
EffectiveFilters(filters, visible) ==
  IF \E f \in filters : f.field \in Ids(ListFields) \ Ids(visible) THEN {} ELSE filters

ValidFilter(f, visible) ==
  /\ f.field \in Ids(visible)
  /\ Spec1(visible, f.field).filterable
  /\ f.op \in AllowedOperators(Spec1(visible, f.field).type)
  /\ f.op = "between" => /\ f.value # Null /\ f.value[1] = "list" /\ Len(f.value[2]) = 2
                          /\ \A i \in {1, 2} : DayOf(f.value[2][i]) # Null
                          /\ Place(<<"string", f.value[2][1]>>) <= Place(<<"string", f.value[2][2]>>)
  /\ f.op = "is_empty" => f.value = Null

ValidQuery(r, filters, visible) ==
  /\ r.page >= 1 /\ r.pageSize \in 1..MaxPageSize
  /\ r.sort # Null => \E f \in visible : f.id = r.sort /\ f.sortable
  /\ \A f \in filters : ValidFilter(f, visible)

BeginList(c) ==
  /\ At(c, "idle") /\ Arrives(c) /\ UNCHANGED <<steady, registryVars>>
  /\ \E q \in Queries :
       Become(c, [pc |-> IF q.kind = "export" THEN "columns" ELSE "look",
                  kind |-> q.kind, viewer |-> q.viewer, sort |-> q.sort, order |-> q.order,
                  filters |-> q.filters, columns |-> q.columns,
                  page |-> IF q.kind = "export" THEN 1 ELSE q.page,
                  pageSize |-> IF q.kind = "export" THEN MaxPageSize ELSE q.pageSize,
                  visible |-> {}, audiences |-> NoAudiences, kept |-> FALSE, found |-> NoAudiences,
                  batch |-> <<>>, rows |-> <<>>, total |-> 0, down |-> {}, failed |-> {}])

\* An export has the columns it asks for that the viewer may have, at least one.
ChooseColumns(c) ==
  /\ At(c, "columns") /\ Reads
  /\ LET r == call[c]
         columns == r.columns \cap Ids(FilterVisibleFields(org, r.viewer))
     IN  IF r.columns \subseteq Ids(ListFields) /\ columns # {}
         THEN Become(c, [r EXCEPT !.pc = "prepare", !.columns = columns]) ELSE Goto(c, "refused")
  /\ UNCHANGED registryVars

\* Fields of other tables are asked for: whose S12 the viewer may see matters.
NeedsAudiences(r, filters, visible) ==
  UsesProvider(filters) \/ r.sort \in ProviderBacked \/ Ids(visible) \cap ProviderBacked # {}

\* It drops the filters the viewer may not use once, before its first page.
Prepare(c) ==
  /\ At(c, "prepare") /\ Reads
  /\ LET r == call[c]
         visible == FilterVisibleFields(org, r.viewer)
         filters == EffectiveFilters(r.filters, visible)
     IN  Become(c, [r EXCEPT !.filters = filters, !.kept = NeedsAudiences(r, filters, visible),
                             !.pc = IF NeedsAudiences(r, filters, visible) THEN "everyone" ELSE "look"])
  /\ UNCHANGED registryVars

Done(c, r, rows, total) ==
  Become(c, [pc |-> "done", kind |-> r.kind, viewer |-> r.viewer, sort |-> r.sort, order |-> r.order,
             filters |-> r.filters, columns |-> r.columns, page |-> r.page, pageSize |-> r.pageSize,
             rows |-> rows, total |-> total, failed |-> r.failed])

\* What the viewer may list.  A dropped filter on S12 leaves nothing to list.
Look(c) ==
  /\ At(c, "look") /\ Reads
  /\ LET r == call[c]
         visible == FilterVisibleFields(org, r.viewer)
         filters == EffectiveFilters(r.filters, visible)
     IN  IF UsesProvider(r.filters \ filters) THEN Done(c, r, <<>>, 0)
         ELSE IF ~ValidQuery(r, filters, visible) THEN Goto(c, "refused")
         ELSE Become(c, [r EXCEPT !.visible = visible, !.filters = filters,
                !.audiences = IF r.kept THEN @ ELSE NoAudiences,
                !.pc = IF NeedsAudiences(r, filters, visible) /\ ~r.kept THEN "everyone" ELSE "roster"])
  /\ UNCHANGED registryVars

\* An export that has not begun its first page has chosen no fields yet.
ResolveEveryone(c) ==
  /\ At(c, "everyone") /\ Reads
  /\ Become(c, [call[c] EXCEPT
       !.pc = IF call[c].visible = {} THEN "look" ELSE "roster",
       !.audiences = [e \in {e \in Employees : Hired(e)} |-> AudienceOf(org, call[c].viewer, e)]])
  /\ UNCHANGED registryVars

\* By S12 one may only find those whose S12 one may see.
S12Visible(audiences) == {e \in DOMAIN audiences : audiences[e].sections["S12"] # "none"}

LoadEmployeeSnapshots(c) ==
  /\ At(c, "roster") /\ Reads
  /\ LET r == call[c]
         among == IF UsesProvider(r.filters) THEN S12Visible(r.audiences) ELSE Employees
     IN  Become(c, [r EXCEPT !.pc = "values", !.found = [e \in {e \in among : Hired(e)} |-> roster[e]]])
  /\ UNCHANGED registryVars

CustomValueMap(people, fields) ==
  [k \in {k \in people \X {f.id : f \in {f \in fields : f.source = "custom"}} : stored[k] # Null} |->
     ValueOf(k[1], k[2])]

ProviderValueMap(people, fields) ==
  [k \in people \X fields |->
     IF k[2] = "has_open_idp" THEN <<"boolean", roster[k[1]].openIdp>> ELSE roster[k[1]].assessed]

\* In an order by S12, who is hidden there stands with those who have nothing.
Suppressed(r) ==
  IF r.sort \in ProviderBacked /\ ~UsesProvider(r.filters)
  THEN DOMAIN r.audiences \ S12Visible(r.audiences) ELSE {}

SuppressedMap(r, fields) == [k \in Suppressed(r) \X fields |-> Null]

\* The values of fields kept elsewhere, but for the providers that are down.
ValuesElsewhere(r, down) ==
  LET asked == Ids(r.visible) \cap ProviderBacked
      people == DOMAIN r.found
  IN  Over(SuppressedMap(r, asked), Over(ProviderValueMap(people, asked \ down), CustomValueMap(people, r.visible)))

Matching(r, down) == Filtered(r.found, ValuesElsewhere(r, down), r.visible, r.filters)

\* The page, with the cells of every visible field.
BatchOf(r, down) ==
  LET x == ValuesElsewhere(r, down)
      sort == IF r.sort = Null THEN "name" ELSE r.sort
      order == IF r.sort = Null THEN "asc" ELSE r.order
      page == PageOf(SortedBy(Matching(r, down), r.found, x, sort, order), r.page, r.pageSize)
  IN  [i \in DOMAIN page |->
         [employee |-> page[i],
          cells |-> [id \in Ids(r.visible) \ down |-> CellValue(r.found[page[i]], x, page[i], id)]]]

\* Providers fail one by one: a column is missing, or a filter cannot be used.
QueryEmployees(c) ==
  /\ At(c, "values") /\ Reads
  /\ \E down \in {fault \cap Ids(call[c].visible) : fault \in Faults} :
       /\ DOMAIN call[c].found = {} => down = {}
       /\ IF \E f \in call[c].filters : f.field \in down THEN Goto(c, "refused")
          ELSE Become(c, [call[c] EXCEPT !.pc = "cache", !.found = NoAudiences,
                 !.total = Cardinality(Matching(call[c], down)), !.batch = BatchOf(call[c], down),
                 !.down = IF down = {} THEN @ ELSE down, !.failed = @ \cup down])
  /\ UNCHANGED registryVars

\* The audiences of the rows that are not known yet; an export goes on with them.
PageAudiences(c) ==
  /\ At(c, "cache") /\ Reads
  /\ LET r == call[c]
         people == {r.batch[i].employee : i \in DOMAIN r.batch}
     IN  Become(c, [r EXCEPT !.pc = "mask",
           !.audiences = Over(@, [e \in people |-> AudienceOf(org, r.viewer, e)])])
  /\ UNCHANGED registryVars

\* A mask that goes by the fields the viewer may list, the same for every row.
KeepsListed(r, e, f) == f.source # "custom" \/ CanViewFieldDefinition(org, r.viewer, f.visibility)

\* What a row keeps: by field for custom fields, as things are now, and by section
\* for the others, as they were when the audience was resolved.
KeepsCell(r, e, f) ==
  IF f.source = "custom"
  THEN r.viewer \in FieldManagers \/ CanViewFieldForSubject(org, r.viewer, e, f.visibility)
  ELSE r.audiences[e].sections[f.section] # "none"

ProjectNames(o, e) == <<"list", SetToSeq({row.project : row \in {row \in o.staffing : row.employee = e}})>>

MaskRow(r, row) ==
  LET kept == {id \in DOMAIN row.cells : KeepsCell(r, row.employee, Spec1(r.visible, id))}
      named == {id \in {"project_names"} \cap Ids(r.visible) : r.audiences[row.employee].sections["S11"] # "none"}
  IN  [employee |-> row.employee,
       cells |-> [id \in kept \cup named |-> IF id \in named THEN ProjectNames(org, row.employee) ELSE row.cells[id]]]

WritableFields(r, e) ==
  {f.id : f \in {f \in r.visible : f.editable /\
     IF f.source = "custom" THEN CanWriteFieldForSubject(org, r.viewer, e, f.visibility)
     ELSE f.id \in Builtin /\ r.audiences[e].sections["S4"] = "RW"}}

\* A cell of an export: of a column that failed, nothing else is said.
ExportCell(r, row, id) ==
  IF id \in r.down THEN <<"unavailable">> ELSE IF id \in DOMAIN row.cells THEN row.cells[id] ELSE Null
ExportRow(r, row) == [employee |-> row.employee, cells |-> [id \in r.columns |-> ExportCell(r, row, id)]]

MaskRows(c) ==
  /\ At(c, "mask") /\ Reads
  /\ LET r == call[c]
         masked == [i \in DOMAIN r.batch |-> MaskRow(r, r.batch[i])]
         rows == r.rows \o masked
     IN  IF r.kind = "list"
         THEN Done(c, r, [i \in DOMAIN masked |->
                [employee |-> masked[i].employee, cells |-> masked[i].cells,
                 writable |-> WritableFields(r, masked[i].employee)]], r.total)
         ELSE IF Len(rows) >= r.total THEN Done(c, r, [i \in DOMAIN rows |-> ExportRow(r, rows[i])], r.total)
         ELSE Become(c, [r EXCEPT !.pc = "look", !.rows = rows, !.batch = <<>>, !.page = @ + 1])
  /\ UNCHANGED registryVars

ServeList(c) ==
  \/ ChooseColumns(c) \/ Prepare(c) \/ Look(c) \/ ResolveEveryone(c)
  \/ LoadEmployeeSnapshots(c) \/ QueryEmployees(c) \/ PageAudiences(c) \/ MaskRows(c)

-----------------------------------------------------------------------------
(* Properties *)

\* What a viewer may see of somebody's field, by the matrix of the organisation o.
MaySee(o, viewer, e, id) ==
  IF id \in FieldIds
  THEN viewer \in FieldManagers \/ CanViewFieldForSubject(o, viewer, e, definitions[id].visibility)
  ELSE AudienceOf(o, viewer, e).sections[Spec1(BuiltinFieldSpecs, id).section] # "none"

CurrentValue(e, id) ==
  CASE id \in FieldIds -> ValueOf(e, id)
    [] id = "has_open_idp" -> <<"boolean", roster[e].openIdp>>
    [] id = "last_assessment_date" -> roster[e].assessed
    [] id = "project_names" -> ProjectNames(org, e)
    [] OTHER -> CellValue(roster[e], NoAudiences, e, id)

\* By what somebody is filtered and ordered for a viewer.
UsedValue(r, e, id) ==
  IF id \in ProviderBacked /\ ~MaySee(org, r.viewer, e, id) THEN Null ELSE CurrentValue(e, id)

ShouldList(r) ==
  {e \in {e \in Employees : Hired(e)} : \A f \in r.filters :
     /\ f.field \in ProviderBacked => MaySee(org, r.viewer, e, f.field)
     /\ Matches(CurrentValue(e, f.field), Spec1(ListFields, f.field).type, f)}

StandsBefore(r, d, e) ==
  LET id == IF r.sort = Null THEN "name" ELSE r.sort
  IN  Before(UsedValue(r, d, id), UsedValue(r, e, id), d, e, IF r.sort = Null THEN "asc" ELSE r.order)

\* The place somebody has in the whole answer, from 0 on.
PlaceOf(r, e) == Cardinality({d \in ShouldList(r) : StandsBefore(r, d, e)})

FirstPlace(r) == IF r.kind = "export" THEN 0 ELSE (r.page - 1) * r.pageSize

RowsAreExact(r) ==
  LET size == IF r.kind = "export" THEN Cardinality(ShouldList(r)) ELSE r.pageSize
      due == {e \in ShouldList(r) : PlaceOf(r, e) - FirstPlace(r) \in 0..(size - 1)}
  IN  /\ Len(r.rows) = Cardinality(due)
      /\ \A e \in due : r.rows[PlaceOf(r, e) - FirstPlace(r) + 1].employee = e

CellsAreExact(r) ==
  \A i \in DOMAIN r.rows :
    LET row == r.rows[i]
        fields == Ids(FilterVisibleFields(org, r.viewer))
    IN  /\ r.kind = "export" => \A id \in r.columns : MaySee(org, r.viewer, row.employee, id) =>
                                   row.cells[id] = CurrentValue(row.employee, id)
        /\ r.kind = "list" =>
             /\ DOMAIN row.cells = {id \in fields : MaySee(org, r.viewer, row.employee, id)}
             /\ \A id \in DOMAIN row.cells : row.cells[id] = CurrentValue(row.employee, id)

Refers(r) == "filters" \in DOMAIN r /\ \A f \in r.filters : f.field \in Ids(FilterVisibleFields(org, r.viewer))

\* An invariant: no cell of a list or an export shows what the viewer might not
\* see at any moment of the request, and a filter on S12 finds nobody else
\* (maskRowCells, resolveCdsAudienceContext), however old the audiences of an
\* export have become.
ListsShowNothingHidden ==
  \A c \in Calls : At(c, "done") /\ "rows" \in DOMAIN call[c] =>
    \A i \in DOMAIN call[c].rows :
      LET row == call[c].rows[i]
          seen(id) == \E o \in during[c] : MaySee(o, call[c].viewer, row.employee, id)
      IN  /\ \A id \in DOMAIN row.cells : row.cells[id] \in {Null, <<"unavailable">>} \/ seen(id)
          /\ \A f \in call[c].filters : f.field \in ProviderBacked => seen(f.field)

\* A list or an export that no other request and no other system has come
\* between has exactly the matching people, each once, in their order, on the
\* page that is asked for, and exactly the cells the viewer may see with the
\* values they have (listAllEmployees, queryEmployees, maskRowCells); it is
\* about the answers no provider has failed.
ListIsExact(c) ==
  At(c, "mask") /\ call'[c].pc = "done" /\ steady[c] /\ call[c].failed = {} /\ Refers(call[c]) =>
    RowsAreExact(call'[c]) /\ CellsAreExact(call'[c])
=============================================================================

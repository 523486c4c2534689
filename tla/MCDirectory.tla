---------------------------- MODULE MCDirectory ----------------------------
(* Small instances of Directory: a viewer, two more employees, two pages.  *)
EXTENDS Directory

CONSTANTS e1, e2, e3, f1, f2, n1, k1, p1, d1, d2, x1, x2, b1, m1, a1, h1

Str(s) == <<"string", s>>

\* The order of names, of the calendar, of numbers and of employees.
MCPlace(v) ==
  CASE v = e1 -> 1 [] v = e2 -> 2 [] v = e3 -> 3
    [] v[1] = "string" -> (CASE v[2] = "a" -> 1 [] v[2] = "A" -> 1 [] v[2] = "b" -> 2 [] v[2] = "2024-02-29" -> 3
                             [] v[2] = "2024-02-30" -> 4 [] v[2] = "2024-03-01" -> 5 [] OTHER -> 9)
    [] v[1] = "boolean" -> IF v[2] THEN 1 ELSE 0
    [] v[1] = "list" -> Len(v[2])
    [] OTHER -> v[2]
MCLower(v) == IF v = Null THEN "" ELSE IF v[2] = "A" THEN "a" ELSE v[2]
MCWithin(s, t) == s = "" \/ s = t
MCDayOf(s) == CASE s = "2024-02-29" -> 60 [] s \in {"2024-02-30", "2024-03-01"} -> 61 [] OTHER -> Null
MCIsoOf(day) == IF day = 60 THEN "2024-02-29" ELSE "2024-03-01"

NoManager == [e \in Employees |-> Nobody]
Org(manager, partner, staffing, granted) ==
  [manager |-> manager, partner |-> partner, hr |-> {}, staffing |-> staffing, granted |-> granted]
Alone == Org(NoManager, NoManager, {}, {})
Manages == Org([NoManager EXCEPT ![e2] = e1], NoManager, {}, {})
Leads == Org([NoManager EXCEPT ![e2] = e1], [NoManager EXCEPT ![e3] = e1],
             {[id |-> 1, employee |-> e3, pm |-> e2, dm |-> e1, active |-> TRUE, project |-> "p"]}, {})
Runs == Org([NoManager EXCEPT ![e2] = e3], NoManager,
            {[id |-> 1, employee |-> e3, pm |-> e1, dm |-> e2, active |-> TRUE, project |-> "p"]}, {})
Orgs == {Alone, Manages, Leads, Runs}

Person(name, grade, idp) ==
  [name |-> Str(name), grade |-> grade, position |-> Null, department |-> Null, employment_type |-> Str("FTE"),
   since |-> 2020, open |-> FALSE, mentors |-> idp, assessed |-> IF idp THEN Null ELSE Str("2024-02-29"),
   openIdp |-> idp]
Roster(first, second, third) == [e \in Employees |-> CASE e = e1 -> first [] e = e2 -> second [] e = e3 -> third]
Before3 == Roster(Person("b", Str("a"), FALSE), Person("a", Str("b"), FALSE), Null)
Mixed == Roster(Person("b", Str("a"), FALSE), Person("a", Null, TRUE), Person("A", Str("b"), TRUE))
Tied == Roster(Person("b", Str("a"), FALSE), Person("A", Str("b"), FALSE), Person("a", Str("b"), TRUE))
Rosters == {Before3, Mixed, Tied}

Definition(type, visibility, options) == [name |-> type, type |-> type, visibility |-> visibility, options |-> options]
With(d) == [f \in FieldIds |-> IF f = f1 THEN d ELSE Null]
Dated == With(Definition("date", "employee", <<>>))
Chosen == With(Definition("multi_select", "management", <<"a", "b">>))
Definitions == {Dated, Chosen}
MCDrafts == {Definition("number", "colleague", <<>>), Definition("select", "management", <<"a", "a">>),
             Definition("date", "management", <<>>)}

SetOrder(route, subject, field, value) ==
  [route |-> route, viewer |-> e1, subject |-> subject, field |-> field, value |-> value]
MCSetOrders ==
  {SetOrder("fields", e2, f1, v) : v \in {Str("2024-02-30"), Null, <<"list", <<"a", "b">>>>}}
  \cup {SetOrder("employees", e2, f1, Str("2024-02-29")), SetOrder("employees", e2, f1, <<"list", <<"a", "a">>>>)}
  \cup {SetOrder("employees", e2, "grade", Str("b")), SetOrder("employees", e2, "employment_type", Str("a"))}
MCReaders == {[route |-> "fields", viewer |-> e1, subject |-> e2], [route |-> "profile", viewer |-> e1, subject |-> e1]}

Filter(field, op, value) == [field |-> field, op |-> op, value |-> value]
Asked(kind, sort, order, filters, page, size, columns) ==
  [kind |-> kind, viewer |-> e1, sort |-> sort, order |-> order, filters |-> filters, page |-> page,
   pageSize |-> size, columns |-> columns]
OpenIdp == {Filter("has_open_idp", "eq", <<"boolean", TRUE>>)}
ListOf(sort, order, filters, page) == Asked("list", sort, order, filters, page, 2, {})
ExportOf(sort, filters) == Asked("export", sort, "asc", filters, 1, 2, {"name", "grade", "has_open_idp", f1})
MCQueries ==
  {ListOf("has_open_idp", "desc", {}, 1), ListOf("grade", "desc", {}, 2), ListOf(Null, "asc", OpenIdp, 1),
   ExportOf(Null, {}), ExportOf("has_open_idp", {Filter("grade", "neq", Str("a"))})}

\* A note for the project manager, a contact, a plan, a contract, two risks, feedback
\* that is shared, an emergency contact, an assessment, an address; and a photo.
MCRecords ==
  {[i \in RecordIds |->
     CASE i = n1 -> [kind |-> "note", subject |-> e3, data |-> [forEmployee |-> FALSE, forPm |-> TRUE]]
       [] i = k1 -> [kind |-> "contact", subject |-> e1, data |-> [type |-> "other", value |-> "a@b.c"]]
       [] i = p1 -> [kind |-> "plan", subject |-> e3, data |-> [day |-> 1, completed |-> NoRecord]]
       [] i = d1 -> [kind |-> "document", subject |-> e3, data |-> [type |-> "CONTRACT", file |-> d1]]
       [] i = x1 -> [kind |-> "risk", subject |-> e3, data |-> [day |-> 1, level |-> "low"]]
       [] i = x2 -> [kind |-> "risk", subject |-> e2, data |-> [day |-> 1, level |-> "high"]]
       [] i = b1 -> [kind |-> "feedback", subject |-> e3, data |-> [day |-> 1, shared |-> TRUE]]
       [] i = m1 -> [kind |-> "emergency", subject |-> e1, data |-> [phone |-> "1"]]
       [] i = a1 -> [kind |-> "assessment", subject |-> e3, data |-> [day |-> 1, conclusion |-> "open"]]
       [] i = h1 -> [kind |-> "address", subject |-> e1, data |-> [stay |-> "here"]]
       [] OTHER -> NoRecord]}
MCPhotos == {[e \in Employees |-> IF e = e1 THEN d2 ELSE NoRecord]}

NoData == [none \in {} |-> none]
Ask(op, kind, viewer, subject, id, data) ==
  [op |-> op, kind |-> kind, viewer |-> viewer, subject |-> subject, id |-> id, data |-> data]
Reading ==
  {Ask("list", "note", e1, e3, NoRecord, NoData), Ask("list", "note", e3, e3, NoRecord, NoData),
   Ask("list", "feedback", e3, e3, NoRecord, NoData), Ask("download", "document", e1, e3, d1, NoData),
   Ask("view", "photo", e2, e1, NoRecord, NoData), Ask("risks", "risk", e1, e1, NoRecord, NoData)}
Writing ==
  {Ask("change", "note", e1, e3, n1, [forPm |-> FALSE]), Ask("remove", "note", e1, e3, n1, NoData),
   Ask("change", "contact", e1, e1, k1, [type |-> "phone"]),
   Ask("change", "contact", e1, e1, k1, [value |-> "+1"]),
   Ask("change", "plan", e1, e3, p1, [day |-> 2]), Ask("change", "plan", e1, e3, p1, NoData),
   Ask("complete", "plan", e3, e3, p1, NoData), Ask("create", "risk", e1, e3, NoRecord, [day |-> 2, level |-> "medium"]),
   Ask("create", "feedback", e1, e2, NoRecord, [day |-> 3, shared |-> TRUE]),
   Ask("change", "feedback", e1, e3, b1, [shared |-> FALSE]), Ask("remove", "feedback", e1, e3, b1, NoData),
   Ask("change", "emergency", e1, e1, m1, [phone |-> "2"]), Ask("remove", "emergency", e1, e1, m1, NoData),
   Ask("change", "assessment", e1, e3, a1, [conclusion |-> "ready"]),
   Ask("change", "address", e1, e1, h1, [stay |-> "there"]),
   Ask("upload", "document", e1, e1, NoRecord, [allowed |-> TRUE]), Ask("upload", "photo", e1, e1, NoRecord, [allowed |-> TRUE])}
MCAsks == Reading \cup Writing
MCPermitted == {<<e1, "risk">>}

All(kind) == [c \in Calls |-> {kind}]
OneKindOfWork == {[c \in Calls |-> IF c = lister THEN {"lists"} ELSE {"fields"}] : lister \in Calls} \cup {All("records")}
OneProvider == {{}, {"has_open_idp"}}
CallsAreAlike == Permutations(Calls)

\* A viewer with a report, a project and a partnered employee, and two pages;
\* with a report, while somebody is being hired; and, for records, a project
\* manager.  One move leads from these to the other organisations and rosters.
MCInit ==
  /\ Init
  /\ <<org, roster, definitions, work = All("records")>> \in
       {<<Leads, Mixed, Dated, FALSE>>, <<Manages, Before3, Chosen, FALSE>>,
        <<Leads, Tied, Dated, TRUE>>, <<Runs, Tied, Dated, TRUE>>}
MCSpec == MCInit /\ [][Next]_directoryVars
=============================================================================

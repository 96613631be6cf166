------------------------------- MODULE Builder -------------------------------
(***************************************************************************)
(* The builder of messages (adc/builder/impl/builder.ipp): a JSON object   *)
(* of fields, d, and sections, which are other builders kept by reference. *)
(* An application calls several builders that refer to each other; a       *)
(* message is what flatten makes of one of them.  The memory, host and MPI *)
(* sections are those of module RankSections.                              *)
(***************************************************************************)
EXTENDS ScalarTypes, FiniteSets

CONSTANTS
    Builders,
    Null,         \* a null pointer to a builder
    Names,        \* names given to fields and sections
    Fields,       \* what add and add_array store
    Apps,         \* names of applications
    EnvChildren,  \* the children that ADC_WFID_CHILDREN lists
    ChildLists,   \* arguments of add_workflow_children
    Paths,        \* paths looked up: sequences of names
    MaxCalls      \* bound: calls of the application

\* What add and add_array store has the members of Stored and StoredArray.
ASSUME BuilderAssumption ==
    /\ Null \notin Builders
    /\ IsFiniteSet(Builders)
    /\ \A f \in Fields :
          f.k = "object" /\ DOMAIN f.m \subseteq {"type", "container_type", "value"}
    /\ EnvChildren \in Seq(STRING) /\ ChildLists \subseteq Seq(STRING)
    /\ Paths \subseteq Seq(STRING)
    /\ MaxCalls \in Nat

VARIABLES
    d,         \* the fields of each builder
    sections,  \* its sections, which are builders
    attached,  \* history: <<b, s>> for each s that add_section attached to b
    called,    \* the builder of the last call
    calls

vars == <<d, sections, attached, called, calls>>

Init ==
    /\ d = [b \in Builders |-> <<>>]
    /\ sections = [b \in Builders |-> <<>>]
    /\ attached = {}
    /\ called = Null
    /\ calls = 0
-----------------------------------------------------------------------------
\* Mutant: the fields are looked at first.
KindOfField(b, name) ==
    IF name \in DOMAIN d[b] THEN "k_value"
    ELSE IF name \in DOMAIN sections[b] THEN "k_section" ELSE "k_none"

Kind(b, name) ==
    IF name \in DOMAIN sections[b] THEN "k_section"
    ELSE IF name \in DOMAIN d[b] THEN "k_value" ELSE "k_none"

GetSection(b, name) ==
    IF Kind(b, name) = "k_section" THEN sections[b][name] ELSE Null

\* The builders that b is attached to its sections, and they to theirs.
Reach(b) ==
    LET within[n \in 0..Cardinality(Builders)] ==
            IF n = 0 THEN {b}
            ELSE LET near == within[n - 1]
                 IN  near \cup {y \in Builders : \E x \in near : <<x, y>> \in attached}
    IN  within[Cardinality(Builders)]

Acyclic(b) ==
    \A x \in Reach(b) : \A y \in {z \in Builders : <<x, z>> \in attached} : x \notin Reach(y)

\* flatten, for a builder whose sections do not lead back to it.  It would not
\* return for one whose sections do.
Flatten(b) ==
    LET flat[n \in 0..Cardinality(Builders)] ==
            IF n = 0 THEN [c \in Builders |-> Empty]
            ELSE LET below == flat[n - 1]
                 IN  [c \in Builders |->
                         Obj([x \in DOMAIN d[c] \cup DOMAIN sections[c] |->
                                 IF x \in DOMAIN sections[c] THEN below[sections[c][x]]
                                 ELSE d[c][x]])]
    IN  flat[Cardinality(Builders)][b]

Snapshot(s) == IF s = Null THEN Empty ELSE Flatten(s)
-----------------------------------------------------------------------------
Call(b) == calls < MaxCalls /\ calls' = calls + 1 /\ called' = b

\* operator[] of an object or a map, assigned
With(f, name, y) == [x \in DOMAIN f \cup {name} |-> IF x = name THEN y ELSE f[x]]

Put(b, name, j) ==
    /\ Call(b)
    /\ d' = [d EXCEPT ![b] = With(@, name, j)]
    /\ UNCHANGED <<sections, attached>>

\* A field of the name of a section is kept, and hidden by the section.
AddField(b, name, f) == Put(b, name, f)

\* Mutant: a name in use is not refused.
AddSectionOver(b, name, s) ==
    /\ Call(b)
    /\ s # Null
    /\ sections' = [sections EXCEPT ![b] = With(@, name, s)]
    /\ attached' = attached \cup {<<b, s>>}
    /\ UNCHANGED d

AddSection(b, name, s) ==
    /\ Call(b)
    /\ IF s # Null /\ Kind(b, name) = "k_none"
       THEN /\ sections' = [sections EXCEPT ![b] = With(@, name, s)]
            /\ attached' = attached \cup {<<b, s>>}
       ELSE UNCHANGED <<sections, attached>>
    /\ UNCHANGED d

\* Mutant: the builder itself is kept, as add_section does.
AddSnapshotLive(b, name, s) ==
    /\ Call(b)
    /\ IF s # Null
       THEN sections' = [sections EXCEPT ![b] = With(@, name, s)]
       ELSE UNCHANGED sections
    /\ UNCHANGED <<d, attached>>

\* add_app_data_section, add_model_data_section, add_code_configuration_section
AddSnapshot(b, name, s) ==
    /\ s # Null => Acyclic(s)
    /\ Put(b, name, Snapshot(s))

AddExitData(b, status, s) ==
    /\ s # Null => Acyclic(s)
    /\ Put(b, "exit_data",
           Obj([return_code |-> Text("code"), status |-> Text(status),
                details |-> Snapshot(s)]))

\* Of the version, the fields are taken and not the sections.
AddCode(b, version, s) ==
    /\ s # Null => Acyclic(s)
    /\ Put(b, "code",
           Obj([name |-> Text("tag"), program |-> Text("program"), path |-> Text("path"),
                version |-> IF version = Null THEN Empty ELSE Obj(d[version]),
                libs |-> Array(<<>>), details |-> Snapshot(s)]))

AddHeader(b, app) ==
    Put(b, "header",
        Obj([adc_api_version |-> Empty, timestamp |-> Text("time"),
             datestamp |-> Text("time"), user |-> Text("user"), uid |-> Text("uid"),
             application |-> Text(app), uuid |-> Text("uuid")]))

\* add_slurm_section and add_gitlab_ci_section: a variable that is not set gives
\* an empty string.
AddEnvironment(b, name, variables) ==
    Put(b, name, Obj([v \in variables |-> Text("of the environment")]))

Texts(seq) == [i \in DOMAIN seq |-> Text(seq[i])]

AddWorkflow(b) ==
    Put(b, "adc_workflow",
        Obj([wfid |-> Text("wfid"), wfid_parent |-> Text("parent"), wfid_path |-> Text("path"),
             wfid_children |-> Array(Texts(EnvChildren))]))

IsWorkflow(j) ==
    /\ j.k = "object" /\ "wfid_children" \in DOMAIN j.m
    /\ j.m.wfid_children.k = "array"

\* Mutant: children that are listed are listed again.
ExtendAll(list, uuids) == list \o Texts(uuids)

\* The children not in the list yet, one after the other.
Extend(list, uuids) ==
    LET after[i \in 0..Len(uuids)] ==
            IF i = 0 THEN list
            ELSE LET l == after[i - 1]
                 IN  IF \E j \in DOMAIN l : l[j] = Text(uuids[i]) THEN l
                     ELSE Append(l, Text(uuids[i]))
    IN  after[Len(uuids)]

AddWorkflowChildren(b, uuids) ==
    IF "adc_workflow" \in DOMAIN d[b] /\ IsWorkflow(d[b]["adc_workflow"])
    THEN LET w == d[b]["adc_workflow"]
         IN  Put(b, "adc_workflow",
                 Obj([w.m EXCEPT !.wfid_children = Array(Extend(@.e, uuids))]))
    ELSE Call(b) /\ UNCHANGED <<d, sections, attached>>

CallOf(b) ==
    \/ \E name \in Names, f \in Fields : AddField(b, name, f)
    \/ \E name \in Names, s \in Builders \cup {Null} : AddSection(b, name, s)
    \/ \E name \in {"app_data", "model_data", "code_configuration"},
          s \in Builders \cup {Null} : AddSnapshot(b, name, s)
    \/ \E s \in Builders \cup {Null} : AddExitData(b, "done", s)
    \/ \E version, s \in Builders \cup {Null} : AddCode(b, version, s)
    \/ \E app \in Apps : AddHeader(b, app)
    \/ AddEnvironment(b, "slurm", {"cluster", "job_id", "num_nodes", "dependency"})
    \/ AddEnvironment(b, "gitlab_ci", {"ci_runner_id", "ci_job_id", "gitlab_user_login"})
    \/ AddWorkflow(b)
    \/ \E uuids \in ChildLists : AddWorkflowChildren(b, uuids)

Next == \E b \in Builders : CallOf(b)

Spec == Init /\ [][Next]_vars
-----------------------------------------------------------------------------
\* find_pointer of boost::json, for paths without array indices
Missing == [k |-> "missing"]

Find(j, p) ==
    LET at[i \in 0..Len(p)] ==
            IF i = 0 THEN j
            ELSE LET o == at[i - 1]
                 IN  IF o.k = "object" /\ p[i] \in DOMAIN o.m THEN o.m[p[i]] ELSE Missing
    IN  at[Len(p)]

FieldAt(j) == IF j = Missing THEN NoField ELSE AsField(j)

\* get_value.  With one name left it asks for the rest of the path past its end,
\* which throws, whatever the name is of.
GetValue(b, p) ==
    LET get[i \in 1..Len(p) + 1] ==
            IF i >= Len(p) THEN [c \in Builders |-> Throws]
            ELSE LET below == get[i + 1]
                 IN  [c \in Builders |->
                         CASE Kind(c, p[i]) = "k_section" -> below[sections[c][p[i]]]
                           [] Kind(c, p[i]) = "k_value" ->
                                 FieldAt(Find(d[c][p[i]], SubSeq(p, i + 1, Len(p))))
                           [] Kind(c, p[i]) = "k_none" -> NoField]
    IN  get[1][b]

NoString == "no string"
NoNumber == "the largest number"

GetString(b, p) ==
    LET f == GetValue(b, p)
    IN  IF f.kt = "k_value" /\ f.container = "" /\ f.st \in Strings THEN f.data
        ELSE NoString

GetInt64(b, p) ==
    LET f == GetValue(b, p)
    IN  IF f.kt = "k_value" /\ f.count = 1 /\ f.st \in {"bool"} \cup Characters \cup Signed
        THEN f.data ELSE NoNumber

\* Where the field is an uint64 of plain JSON, its bytes are read as digits.
GetUint64(b, p) ==
    LET f == GetValue(b, p)
        IsKind(types) == f.kt = "k_value" /\ f.count = 1 /\ f.st \in types
    IN  IF IsKind({"bool"} \cup Characters \cup (Unsigned \ {"uint64"})) THEN f.data
        ELSE IF IsKind({"uint64"}) THEN "some number, or an exception"
        ELSE NoNumber
-----------------------------------------------------------------------------
TypeOK ==
    /\ DOMAIN d = Builders /\ DOMAIN sections = Builders
    /\ \A b \in Builders :
          /\ DOMAIN sections[b] \subseteq Names
          /\ \A name \in DOMAIN sections[b] : <<b, sections[b][name]>> \in attached
          /\ \A name \in DOMAIN d[b] : d[b][name].k = "object"
    /\ attached \subseteq Builders \X Builders
    /\ called \in Builders \cup {Null}
    /\ calls \in 0..MaxCalls

\* Every name before the last leads from section to section.
ThroughSections(b, p) ==
    LET at[i \in 0..Len(p)] ==
            IF i = 0 THEN b
            ELSE LET c == at[i - 1] IN IF c = Null THEN Null ELSE GetSection(c, p[i])
    IN  Len(p) <= 1 \/ at[Len(p) - 1] # Null

\* get_value agrees with the message: where the path leaves the sections before
\* its last name, it returns the field that serialize writes at that path, and
\* none where nothing is written (builder.ipp 1163-1270 and 2443-2450 walk fields
\* and sections separately).  Elsewhere it throws.
LookupAgrees ==
    \A b \in Builders :
        Acyclic(b) =>
            LET message == Flatten(b)
            IN  \A p \in Paths :
                   GetValue(b, p) = IF ThroughSections(b, p) THEN Throws
                                    ELSE FieldAt(Find(message, p))

\* Whatever the builder called holds, a field added to it is read back as it was: each
\* overload of add, the table of names and a case of get_scalar, which uses what it
\* asks for unseen, agree on a kind (builder.ipp 738-915, 1670-1941), for every type
\* that add_from_pointer_type takes.
ScalarsRoundTrip ==
    \A b \in Builders \cap {called}, st \in PointerTypes, x \in Data :
        LET f == FieldAt(Find(Obj(With(d[b], "field", Stored(st, x))), <<"field">>))
        IN  f.st = st /\ f.count = 1 /\ f.data = x

\* The same for arrays, save those of char16_t, which are read as zeros though
\* "there should never be a mismatch" (builder.ipp 921, 2210, enums.ipp 58).
ArraysRoundTrip ==
    \A b \in Builders \cap {called}, st \in ArrayTypes \ {"char16"}, x, y \in Data :
        LET j == StoredArray(st, <<x, y>>, "vector")
            f == FieldAt(Find(Obj(With(d[b], "field", j)), <<"field">>))
        IN  f.st = st /\ f.container = "vector" /\ f.count = 2 /\ f.data = <<x, y>>

\* The children of a workflow are those that the environment listed, and then
\* others, each once (builder.ipp 1585-1600, 1634-1639).
ChildrenOnce ==
    \A b \in Builders :
        "adc_workflow" \in DOMAIN d[b] /\ IsWorkflow(d[b]["adc_workflow"]) =>
            LET list == d[b]["adc_workflow"].m.wfid_children.e
                env == Texts(EnvChildren)
            IN  /\ Len(list) >= Len(env) /\ SubSeq(list, 1, Len(env)) = env
                /\ \A i, j \in DOMAIN list : i < j /\ j > Len(env) => list[i] # list[j]

\* add_section only adds to messages: whatever stood at a path of a message still
\* stands there after it, in the builder and in all that refer to it (builder.ipp
\* 688-689).
SectionsHideNothing ==
    [][sections' # sections =>
          \A b \in Builders :
             Acyclic(b) /\ Acyclic(b)' =>
                LET before == Flatten(b)
                    after == Flatten(b)'
                IN  \A p \in Paths :
                       Find(before, p).k \notin {"missing", "object"} =>
                          Find(after, p) = Find(before, p)]_vars

\* A message changes only by calls of its builder and of builders attached to it
\* with add_section, directly or not, and never by a call of one that it took a
\* snapshot of, or that took one of it (builder.ipp 585, 620, 642, 653, 695, 2445).
EditsAreLocal ==
    [][\A b \in Builders :
          called' \notin Reach(b) /\ Acyclic(b) /\ Acyclic(b)' =>
             Flatten(b)' = Flatten(b)]_vars

\* "get the existing named nested field in the builder" (builder.hpp 212): a field
\* that add stored is found by its name.
AddedIsFound ==
    \A b \in Builders, name \in Names :
        Kind(b, name) = "k_value" => GetValue(b, <<name>>) = AsField(d[b][name])

\* "get the existing named scalar value that can be correctly cast as int64_t"
\* (builder.hpp 226, and 220 and 233 for strings and uint64_t), at a path that leads
\* to "a value added via one of the add* functions": a scalar that add stored is given
\* by the one of the three for its type, wherever get_value finds it.
ScalarsAreGiven ==
    \A b \in Builders :
        Acyclic(b) =>
            LET message == Flatten(b)
                IsStored(p, types, x) ==
                    /\ ~ThroughSections(b, p)
                    /\ \E st \in types : Find(message, p) = Stored(st, x)
            IN  \A p \in Paths, x \in Data :
                   /\ IsStored(p, Strings, x) => GetString(b, p) = x
                   /\ IsStored(p, Signed \cup {"bool"}, x) => GetInt64(b, p) = x
                   /\ IsStored(p, Unsigned, x) => GetUint64(b, p) = x
=============================================================================

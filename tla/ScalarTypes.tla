----------------------------- MODULE ScalarTypes -----------------------------
(***************************************************************************)
(* Scalar types (adc/types.hpp, adc/builder/impl/enums.ipp) and the JSON   *)
(* values in which the builder keeps scalars and arrays of them            *)
(* (adc/builder/impl/builder.ipp): how add and add_array write them, and   *)
(* how get_scalar and get_array read them back.  A datum is a string       *)
(* that stands for a value; what a value is turned into carries its name.  *)
(***************************************************************************)
EXTENDS Naturals, Sequences

CONSTANT Data    \* the values of scalars

Signed == {"int8", "int16", "int32", "int64"}
Unsigned == {"uint8", "uint16", "uint32", "uint64"}
Strings == {"cstr", "json_str", "yaml_str", "xml_str", "json", "path", "number_str"}
Complex == {"c_f32", "c_f64"}
Times == {"timespec", "timeval"}
Characters == {"char", "char16", "char32"}
\* extended, quad and GPU floats: nothing but their names is supported
Wide == {"f80", "f128", "f8_e4m3", "f8_e5m2", "f16_e5m10", "f16_e8m7", "c_f80", "c_f128"}

ScalarTypes ==
    {"none", "bool", "f32", "f64", "epoch", "mime", "char8", "last"}
        \cup Signed \cup Unsigned \cup Strings \cup Complex \cup Times
        \cup Characters \cup Wide

\* The rows of the table scalar_type_name.  There is none for mime and char8, for
\* which the lookup makes an empty name.
Named == ScalarTypes \ {"mime", "char8"}

NameOf(st) ==
    IF st \notin ScalarTypes THEN "UNKNOWN_scalar_type"
    ELSE IF st \in Named THEN st ELSE ""

ArrayName(st) == "array_" \o NameOf(st)

\* A fact about strings: no two rows of the table are taken for each other.
ASSUME NamesAssumption ==
    \A s, t \in Named :
        /\ ArrayName(s) # "" /\ ArrayName(s) # t
        /\ ArrayName(s) = ArrayName(t) => s = t

\* scalar_type_from_name, which takes off a prefix array_
FromName(name) ==
    IF \E st \in Named : name \in {st, ArrayName(st)}
    THEN CHOOSE st \in Named : name \in {st, ArrayName(st)}
    ELSE "none"

\* The rows of the table scalar_type_representation.
Representation(st) ==
    CASE st = "bool" -> "bool"
      [] st \in Strings \cup {"uint64"} -> "string"
      [] st \in {"char16", "char32", "uint8", "uint16", "uint32"} -> "uint64"
      [] st \in Signed \cup Times \cup {"char", "epoch"} -> "int64"
      [] st \in Complex \cup {"f32", "f64"} -> "double"
      [] OTHER -> "null"
-----------------------------------------------------------------------------
Leaf(kind, data) == [k |-> kind, v |-> data]
Array(elements) == [k |-> "array", e |-> elements]
Obj(members) == [k |-> "object", m |-> members]
Text(data) == Leaf("string", data)
Empty == Obj(<<>>)

\* The digits of an uint64_t; the parts of a complex number or of a time.
Decimal(x) == "digits of " \o x
Pair(x) == <<"first of " \o x, "second of " \o x>>

\* Different values have different digits, and differ in one part at least.
ASSUME DataAssumption ==
    \A x, y \in Data :
        /\ Decimal(x) = Decimal(y) => x = y
        /\ Pair(x) = Pair(y) => x = y

\* The JSON kind of the C++ type that an overload of add stores.
StoredKind(st) ==
    CASE st = "bool" -> "bool"
      [] st \in Signed \cup Times \cup {"char", "epoch"} -> "int64"
      [] st \in (Unsigned \ {"uint64"}) \cup {"char16", "char32"} -> "uint64"
      [] st \in Complex \cup {"f32", "f64"} -> "double"
      [] OTHER -> "string"

\* Mutant: an uint64_t is kept as a number, and the others in one piece.
StoredPlain(st, x) == Leaf(IF st = "uint64" THEN "uint64" ELSE StoredKind(st), x)

StoredValue(st, x) ==
    IF st = "uint64" THEN Text(Decimal(x))
    ELSE IF st \in Complex \cup Times
         THEN Array([i \in 1..2 |-> Leaf(StoredKind(st), Pair(x)[i])])
         ELSE Leaf(StoredKind(st), x)

\* add, for every type it has an overload for, and add_mime
Stored(st, x) ==
    Obj([type |-> Text(NameOf(st)), value |-> StoredValue(st, x)])

AddTypes ==
    {"bool", "f32", "f64", "epoch", "mime"} \cup Signed \cup Unsigned \cup Strings
        \cup Complex \cup Times \cup Characters

\* add_from_pointer_type has no case for json and mime
PointerTypes == AddTypes \ {"json", "mime"}

ArrayTypes ==
    {"bool", "f32", "f64", "cstr", "json_str"} \cup Signed \cup Unsigned \cup Characters

\* Mutant: a char32_t becomes an int as well.
PromotedKind(st) == IF st \in {"char16", "char32"} THEN "int64" ELSE StoredKind(st)

\* The JSON kind that boost::json::array gives an element: char16_t becomes an
\* int, where the scalar was converted to uint64_t first.
ElementKind(st) == IF st = "char16" THEN "int64" ELSE StoredKind(st)

StoredElement(st, x) ==
    IF st = "uint64" THEN Text(Decimal(x)) ELSE Leaf(ElementKind(st), x)

StoredArray(st, xs, container) ==
    Obj([type |-> Text(ArrayName(st)),
         container_type |-> Text(container),
         value |-> Array([i \in DOMAIN xs |-> StoredElement(st, xs[i])])])
-----------------------------------------------------------------------------
\* What get_value returns: the members kt, st, container, count and data of a
\* field.  In place of kt: it uses a null pointer, or throws.  The count of a string,
\* which is its length, is that of one character.
NoData == "no data"
Zero == "zero"
NoField ==
    [kt |-> "k_none", st |-> "none", container |-> "", count |-> 0, data |-> NoData]
Crash == [NoField EXCEPT !.kt = "crash"]
Throws == [NoField EXCEPT !.kt = "throws"]

Field(st, container, count, data) ==
    [kt |-> "k_none", st |-> st, container |-> container, count |-> count, data |-> data]

\* operator>> of a string; two numbers of the kind expected, in order
FromDecimal(v) ==
    IF \E x \in Data : v = Decimal(x) THEN CHOOSE x \in Data : v = Decimal(x) ELSE Zero

FromPair(kind, v) ==
    LET IsPair(x) == v.k = "array" /\ v.e = [i \in 1..2 |-> Leaf(kind, Pair(x)[i])]
    IN  IF \E x \in Data : IsPair(x) THEN CHOOSE x \in Data : IsPair(x) ELSE Zero

\* The kinds get_scalar asks for, without a look at what it gets.
AskedKind(st) ==
    CASE st = "bool" -> "bool"
      [] st \in {"char16", "char32", "uint8", "uint16", "uint32"} -> "uint64"
      [] st \in Signed \cup {"char", "epoch"} -> "int64"
      [] st \in {"f32", "f64"} -> "double"

GetScalar(st, v) ==
    CASE st = "uint64" /\ v.k = "string" ->
             Field(st, "", 1, FromDecimal(v.v))
      [] st \in Strings /\ v.k = "string" -> Field(st, "", 1, v.v)
      [] st \in Complex \cup Times ->
             Field(st, "", 1, FromPair(IF st \in Times THEN "int64" ELSE "double", v))
      [] st \in {"bool", "char", "char16", "char32", "uint8", "uint16", "uint32",
                 "epoch", "f32", "f64"} \cup Signed ->
             IF v.k = AskedKind(st) THEN Field(st, "", 1, v.v) ELSE Crash
      [] OTHER -> Field(st, "", 0, NoData)

\* fill_array and its like: an element of another kind is read as zero.
GetElement(st, e) ==
    CASE st = "uint64" -> IF e.k = "string" THEN FromDecimal(e.v) ELSE Zero
      [] st = "bool" -> IF e.k = "bool" THEN e.v ELSE Zero
      [] st \in Strings -> IF e.k = "string" THEN e.v ELSE Zero
      [] st \in Complex -> FromPair("double", e)
      [] OTHER -> IF e.k = Representation(st) THEN e.v ELSE Zero

GetArray(st, container, v) ==
    IF v.k # "array" \/ st \notin ArrayTypes \cup Strings \cup Complex
    THEN Field(st, container, 0, NoData)
    ELSE Field(st, container, Len(v.e), [i \in 1..Len(v.e) |-> GetElement(st, v.e[i])])
-----------------------------------------------------------------------------
\* The part of get_value that follows the search: what it makes of the value found.
IsTyped(j) ==
    /\ j.k = "object" /\ {"type", "value"} \subseteq DOMAIN j.m
    /\ j.m.type.k = "string" /\ j.m.type.v # ""

BareType(kind) ==
    CASE kind = "string" -> "cstr" [] kind = "bool" -> "bool" [] kind = "int64" -> "int64"
      [] kind = "uint64" -> "uint64" [] kind = "double" -> "f64"

AsField(j) ==
    IF j.k = "object" THEN
        IF "type" \in DOMAIN j.m /\ j.m.type.k # "string" THEN Crash
        ELSE IF ~IsTyped(j) THEN NoField
        ELSE LET st == FromName(j.m.type.v)
             IN  IF "container_type" \notin DOMAIN j.m THEN GetScalar(st, j.m.value)
                 ELSE IF j.m.container_type.k # "string" THEN Crash
                 ELSE GetArray(st, j.m.container_type.v, j.m.value)
    ELSE IF j.k \in {"array", "null"} THEN NoField
    ELSE [Field(BareType(j.k), "", 1, j.v) EXCEPT !.kt = "k_value"]
=============================================================================

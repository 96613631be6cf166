---------------------------- MODULE BuilderProofs ----------------------------
(***************************************************************************)
(* Proofs about Builder for any number of builders, any names and fields,  *)
(* and paths of any length.  The recursive functions of the model are      *)
(* given to the provers by their equations (the lemmas ...Unfolds), each   *)
(* from the existence of such a function; what follows for all arguments   *)
(* is by the inductions of SetInduction.                                   *)
(***************************************************************************)
EXTENDS Builder, SetInduction, FiniteSetTheorems

(***************************************************************************)
(* What is found along a path of a message.                                *)
(***************************************************************************)

Child(o, x) == IF o.k = "object" /\ x \in DOMAIN o.m THEN o.m[x] ELSE Missing

\* The values along a path.
Along(j, p) ==
    CHOOSE at : at = [i \in 0 .. Len(p) |->
        IF i = 0 THEN j
        ELSE LET o == at[i - 1]
             IN  IF o.k = "object" /\ p[i] \in DOMAIN o.m THEN o.m[p[i]] ELSE Missing]

\* The recursive function of Find exists: by induction on how far along the path.
LEMMA AlongUnfolds ==
    ASSUME NEW j, NEW p, Len(p) \in Nat
    PROVE  /\ Find(j, p) = Along(j, p)[Len(p)]
           /\ Along(j, p)[0] = j
           /\ \A i \in 1 .. Len(p) : Along(j, p)[i] = Child(Along(j, p)[i - 1], p[i])
<1>. DEFINE n == Len(p)
            Is(g) == g = [i \in 0 .. n |-> IF i = 0 THEN j ELSE Child(g[i - 1], p[i])]
            Upto(g, m) == g = [i \in 0 .. m |-> IF i = 0 THEN j ELSE Child(g[i - 1], p[i])]
            S == {m \in 0 .. n : \E g : Upto(g, m)}
<1>1. 0 \in S
  <2>1. Upto([i \in 0 .. 0 |-> j], 0)
    <3>. HIDE DEF Child
    <3>1. \A i \in 0 .. 0 : i = 0
      OBVIOUS
    <3>. QED
      BY <3>1
  <2>2. 0 \in 0 .. n
    OBVIOUS
  <2>. HIDE DEF Upto, n
  <2>. QED
    BY <2>1, <2>2
<1>2. ASSUME NEW m \in 1 .. n, m - 1 \in S PROVE m \in S
  <2>1. PICK g : Upto(g, m - 1)
    BY <1>2
  <2>. DEFINE h == [i \in 0 .. m |-> IF i < m THEN g[i] ELSE Child(g[m - 1], p[m])]
  <2>2. \A i \in 0 .. m : i # 0 => h[i] = Child(h[i - 1], p[i])
    <3>. SUFFICES ASSUME NEW i \in 0 .. m, i # 0 PROVE h[i] = Child(h[i - 1], p[i])
      OBVIOUS
    <3>1. i - 1 \in 0 .. m /\ i - 1 < m /\ i \in 1 .. m
      OBVIOUS
    <3>2. h[i - 1] = g[i - 1]
      BY <3>1
    <3>3. CASE i = m
      BY <3>2, <3>3
    <3>4. CASE i # m
      <4>1. i \in 0 .. (m - 1) /\ h[i] = g[i]
        BY <3>1, <3>4
      <4>2. g[i] = Child(g[i - 1], p[i])
        <5>. HIDE DEF Child
        <5>. QED
          BY <2>1, <3>1, <4>1
      <4>. QED
        BY <3>2, <4>1, <4>2
    <3>. QED
      BY <3>3, <3>4
  <2>3. h[0] = j
    BY <2>1
  <2>4. h = [i \in 0 .. m |-> IF i = 0 THEN j ELSE Child(h[i - 1], p[i])]
    <3>1. \A i \in 0 .. m : h[i] = IF i = 0 THEN j ELSE Child(h[i - 1], p[i])
      BY <2>2, <2>3
    <3>2. h = [i \in 0 .. m |-> h[i]]
      OBVIOUS
    <3>. HIDE DEF h
    <3>. QED
      BY <3>1, <3>2
  <2>5. m \in 0 .. n
    OBVIOUS
  <2>. HIDE DEF h
  <2>. QED
    BY <2>4, <2>5
<1>3. \E g : Is(g)
  <2>1. n \in S
    <3>. HIDE DEF S
    <3>1. 0 .. n \subseteq S
      BY <1>1, <1>2, UpToSetInduction
    <3>. QED
      BY <3>1
  <2>. QED
    BY <2>1
<1>4. Along(j, p) = CHOOSE g : Is(g)
  BY DEF Along, Child
<1>5. Is(Along(j, p))
  <2>. HIDE DEF Is
  <2>. QED
    BY <1>3, <1>4
<1>6. Find(j, p) = Along(j, p)[Len(p)]
  BY DEF Find, Along
<1>7. \A i \in 1 .. n : i \in 0 .. n /\ i # 0
  OBVIOUS
<1>. HIDE DEF Child
<1>. QED
  BY <1>5, <1>6, <1>7

\* The empty path leads to the whole.
LEMMA FindHere == ASSUME NEW j PROVE Find(j, <<>>) = j
  BY AlongUnfolds

\* The first name of a path leads to a child, and the others from there.
LEMMA FindBelow ==
    ASSUME NEW j, NEW S, NEW p \in Seq(S), p # <<>>
    PROVE  Find(j, p) = Find(Child(j, p[1]), Tail(p))
<1>. DEFINE o == Child(j, p[1])
            q == Tail(p)
            n == Len(p)
            Good == {i \in 0 .. n - 1 : Along(j, p)[i + 1] = Along(o, q)[i]}
<1>1. /\ n \in Nat \ {0} /\ Len(q) = n - 1 /\ Len(q) \in Nat
      /\ \A i \in 1 .. n - 1 : q[i] = p[i + 1]
  OBVIOUS
<1>2. /\ Find(j, p) = Along(j, p)[n] /\ Along(j, p)[0] = j
      /\ \A i \in 1 .. n : Along(j, p)[i] = Child(Along(j, p)[i - 1], p[i])
  BY <1>1, AlongUnfolds
<1>3. /\ Find(o, q) = Along(o, q)[n - 1] /\ Along(o, q)[0] = o
      /\ \A i \in 1 .. n - 1 : Along(o, q)[i] = Child(Along(o, q)[i - 1], q[i])
  <2>. HIDE DEF o, q
  <2>. QED
    BY <1>1, AlongUnfolds
<1>. HIDE DEF q, n
<1>4. 0 \in Good
  <2>1. 1 \in 1 .. n /\ 0 \in 0 .. n - 1
    BY <1>1
  <2>2. Along(j, p)[1] = Child(Along(j, p)[1 - 1], p[1])
    BY <1>2, <2>1
  <2>. QED
    BY <1>2, <1>3, <2>1, <2>2
<1>5. ASSUME NEW i \in 1 .. n - 1, i - 1 \in Good PROVE i \in Good
  <2>1. i + 1 \in 1 .. n /\ (i + 1) - 1 = i /\ (i - 1) + 1 = i /\ i \in 0 .. n - 1
    BY <1>1
  <2>2. Along(j, p)[i + 1] = Child(Along(j, p)[i], p[i + 1])
    BY <1>2, <2>1
  <2>3. Along(o, q)[i] = Child(Along(o, q)[i - 1], p[i + 1])
    BY <1>1, <1>3
  <2>4. Along(j, p)[i] = Along(o, q)[i - 1]
    BY <1>5, <2>1
  <2>. QED
    BY <2>1, <2>2, <2>3, <2>4
<1>6. n - 1 \in Good
  <2>. HIDE DEF Good
  <2>1. n - 1 \in Nat
    BY <1>1
  <2>2. 0 .. n - 1 \subseteq Good
    BY <1>4, <1>5, <2>1, UpToSetInduction
  <2>. QED
    BY <2>1, <2>2
<1>7. (n - 1) + 1 = n
  BY <1>1
<1>. HIDE DEF o
<1>8. Along(j, p)[n] = Along(o, q)[n - 1]
  BY <1>6, <1>7
<1>. QED
  BY <1>2, <1>3, <1>8 DEF o, q

\* What is left of a path after its first name.
LEMMA PathBelow ==
    ASSUME NEW S, NEW p \in Seq(S), p # <<>>
    PROVE  Tail(p) \in Seq(S) /\ Len(Tail(p)) = Len(p) - 1 /\ Len(p) \in Nat \ {0}
  OBVIOUS

\* Nothing is found below what is missing.
LEMMA FindMissing ==
    ASSUME NEW S, NEW p \in Seq(S)
    PROVE  Find(Missing, p) = Missing
<1>. DEFINE Good == {n \in Nat : \A q \in Seq(S) : Len(q) = n => Find(Missing, q) = Missing}
<1>1. 0 \in Good
  <2>1. \A q \in Seq(S) : Len(q) = 0 => q = <<>>
    OBVIOUS
  <2>. QED
    BY <2>1, FindHere
<1>2. ASSUME NEW n \in Nat, n \in Good PROVE n + 1 \in Good
  <2>1. ASSUME NEW q \in Seq(S), Len(q) = n + 1 PROVE Find(Missing, q) = Missing
    <3>1. q # <<>>
      BY <2>1
    <3>2. Tail(q) \in Seq(S) /\ Len(Tail(q)) = n
      BY <2>1, <3>1, PathBelow
    <3>3. Child(Missing, q[1]) = Missing
      BY DEF Child, Missing
    <3>4. Find(Missing, q) = Find(Missing, Tail(q))
      BY <3>1, <3>3, FindBelow
    <3>. QED
      BY <1>2, <3>2, <3>4
  <2>. QED
    BY <2>1
<1>3. Nat \subseteq Good
  <2>. HIDE DEF Good
  <2>. QED
    BY <1>1, <1>2, NatSetInduction
<1>4. Len(p) \in Nat
  OBVIOUS
<1>. QED
  BY <1>3, <1>4
-----------------------------------------------------------------------------
(***************************************************************************)
(* What flatten makes of the builders: N is the depth to which it goes,    *)
(* enough for all whose sections do not lead back to them.                 *)
(***************************************************************************)

N == Cardinality(Builders)

\* The depth is a number, as there are finitely many builders.
LEMMA NType == N \in Nat
  BY BuilderAssumption, FS_CardinalityType DEF N

\* What flatten makes of a builder with fields f and sections g, when it makes
\* below of the builders that are sections.
Merged(f, g, below) ==
    Obj([x \in DOMAIN f \cup DOMAIN g |-> IF x \in DOMAIN g THEN below[g[x]] ELSE f[x]])

\* What flatten makes of all builders, with their sections down to a depth.
FlatOf(dd, ss) ==
    CHOOSE flat : flat = [n \in 0 .. Cardinality(Builders) |->
        IF n = 0 THEN [c \in Builders |-> Empty]
        ELSE LET below == flat[n - 1]
             IN  [c \in Builders |->
                     Obj([x \in DOMAIN dd[c] \cup DOMAIN ss[c] |->
                             IF x \in DOMAIN ss[c] THEN below[ss[c][x]] ELSE dd[c][x]])]]

\* The recursive function of flatten exists: by induction on the depth.
LEMMA FlatUnfolds ==
    ASSUME NEW dd, NEW ss
    PROVE  /\ \A c \in Builders : FlatOf(dd, ss)[0][c] = Empty
           /\ \A n \in 1 .. N, c \in Builders :
                 FlatOf(dd, ss)[n][c] = Merged(dd[c], ss[c], FlatOf(dd, ss)[n - 1])
<1>. DEFINE Nothing == [c \in Builders |-> Empty]
            Onward(below) == [c \in Builders |-> Merged(dd[c], ss[c], below)]
            Upto(g, m) == g = [n \in 0 .. m |-> IF n = 0 THEN Nothing ELSE Onward(g[n - 1])]
            S == {m \in 0 .. N : \E g : Upto(g, m)}
<1>1. 0 \in S
  <2>1. Upto([n \in 0 .. 0 |-> Nothing], 0)
    <3>. HIDE DEF Nothing, Onward
    <3>1. \A n \in 0 .. 0 : n = 0
      OBVIOUS
    <3>. QED
      BY <3>1
  <2>2. 0 \in 0 .. N
    BY NType
  <2>. HIDE DEF Upto
  <2>. QED
    BY <2>1, <2>2
<1>2. ASSUME NEW m \in 1 .. N, m - 1 \in S PROVE m \in S
  <2>1. PICK g : Upto(g, m - 1)
    <3>. HIDE DEF Upto
    <3>. QED
      BY <1>2
  <2>. DEFINE h == [n \in 0 .. m |-> IF n < m THEN g[n] ELSE Onward(g[m - 1])]
  <2>. HIDE DEF Nothing, Onward
  <2>0. m \in Nat \ {0}
    BY NType
  <2>2. \A n \in 0 .. m : n # 0 => h[n] = Onward(h[n - 1])
    <3>. SUFFICES ASSUME NEW n \in 0 .. m, n # 0 PROVE h[n] = Onward(h[n - 1])
      OBVIOUS
    <3>1. n - 1 \in 0 .. m /\ n - 1 < m
      BY <2>0
    <3>2. h[n - 1] = g[n - 1]
      BY <3>1
    <3>3. CASE n = m
      BY <3>2, <3>3, <2>0
    <3>4. CASE n # m
      <4>1. n \in 0 .. (m - 1) /\ h[n] = g[n]
        BY <3>1, <3>4, <2>0
      <4>2. g[n] = Onward(g[n - 1])
        BY <2>1, <4>1
      <4>. QED
        BY <3>2, <4>1, <4>2
    <3>. QED
      BY <3>3, <3>4
  <2>3. h[0] = Nothing
    BY <2>1, <2>0
  <2>4. Upto(h, m)
    <3>1. \A n \in 0 .. m : h[n] = IF n = 0 THEN Nothing ELSE Onward(h[n - 1])
      <4>. HIDE DEF h
      <4>. QED
        BY <2>2, <2>3
    <3>2. h = [n \in 0 .. m |-> h[n]]
      OBVIOUS
    <3>. HIDE DEF h
    <3>. QED
      BY <3>1, <3>2
  <2>5. m \in 0 .. N
    BY <2>0
  <2>. HIDE DEF h, Upto
  <2>. QED
    BY <2>4, <2>5
<1>3. \E g : Upto(g, N)
  <2>1. N \in S
    <3>. HIDE DEF S
    <3>1. 0 .. N \subseteq S
      BY <1>1, <1>2, NType, UpToSetInduction
    <3>. QED
      BY <3>1, NType
  <2>. HIDE DEF Upto
  <2>. QED
    BY <2>1
<1>4. Upto(FlatOf(dd, ss), N)
  <2>. DEFINE Is(g) == Upto(g, N)
  <2>1. FlatOf(dd, ss) = CHOOSE g : Is(g)
    BY DEF FlatOf, Merged, N
  <2>. HIDE DEF Upto
  <2>2. \E g : Is(g)
    BY <1>3
  <2>3. Is(FlatOf(dd, ss))
    <3>. HIDE DEF Is
    <3>. QED
      BY <2>1, <2>2
  <2>. QED
    BY <2>3
<1>5. \A n \in 1 .. N : n \in 0 .. N /\ n # 0
  BY NType
<1>6. 0 \in 0 .. N
  BY NType
<1>7. /\ FlatOf(dd, ss)[0] = Nothing
      /\ \A n \in 1 .. N : FlatOf(dd, ss)[n] = Onward(FlatOf(dd, ss)[n - 1])
  <2>. HIDE DEF Onward, Nothing
  <2>. QED
    BY <1>4, <1>5, <1>6
<1>. QED
  BY <1>7

\* Flatten is that function at the depth N, before and after a step.
LEMMA FlattenIsFlat ==
    /\ \A b : Flatten(b) = FlatOf(d, sections)[N][b]
    /\ \A b : Flatten(b)' = FlatOf(d', sections')[N][b]
  BY DEF Flatten, FlatOf, N

\* A message is an object.
LEMMA FlattenIsObject ==
    ASSUME NEW b \in Builders
    PROVE  Flatten(b).k = "object"
<1>. DEFINE flat == FlatOf(d, sections)
<1>1. Flatten(b) = flat[N][b]
  BY FlattenIsFlat
<1>2. CASE N = 0
  <2>1. flat[N][b] = Empty
    BY <1>2, FlatUnfolds
  <2>. QED
    BY <1>1, <2>1 DEF Empty, Obj
<1>3. CASE N # 0
  <2>1. N \in 1 .. N
    BY <1>3, NType
  <2>2. flat[N][b] = Merged(d[b], sections[b], flat[N - 1])
    BY <2>1, FlatUnfolds
  <2>. QED
    BY <1>1, <2>2 DEF Merged, Obj
<1>. QED
  BY <1>2, <1>3

\* A snapshot is an object.
LEMMA SnapshotIsObject ==
    ASSUME NEW s \in Builders \cup {Null}
    PROVE  Snapshot(s).k = "object"
  BY FlattenIsObject DEF Snapshot, Empty, Obj
-----------------------------------------------------------------------------
(***************************************************************************)
(* Types.                                                                  *)
(***************************************************************************)

\* A call that stores something under a name of the builder called.
LEMMA PutType ==
    ASSUME TypeOK, NEW b \in Builders, NEW name, NEW j, j.k = "object", Put(b, name, j)
    PROVE  TypeOK'
<1>1. /\ calls < MaxCalls /\ calls' = calls + 1 /\ called' = b
      /\ d' = [d EXCEPT ![b] = With(@, name, j)]
      /\ sections' = sections /\ attached' = attached
  BY DEF Put, Call
<1>2. /\ DOMAIN d = Builders /\ calls \in 0 .. MaxCalls
  BY DEF TypeOK
<1>3. calls' \in 0 .. MaxCalls
  BY <1>1, <1>2, BuilderAssumption
<1>4. DOMAIN d' = Builders /\ d'[b] = With(d[b], name, j)
      /\ \A c \in Builders : c # b => d'[c] = d[c]
  BY <1>1, <1>2
<1>5. \A x \in DOMAIN d'[b] : d'[b][x].k = "object"
  BY <1>4 DEF With, TypeOK
<1>6. \A c \in Builders : \A x \in DOMAIN d'[c] : d'[c][x].k = "object"
  BY <1>4, <1>5 DEF TypeOK
<1>. QED
  BY <1>1, <1>3, <1>4, <1>6 DEF TypeOK

\* add_section keeps the types.
LEMMA AddSectionType ==
    ASSUME TypeOK, NEW b \in Builders, NEW name \in Names, NEW s \in Builders \cup {Null},
           AddSection(b, name, s)
    PROVE  TypeOK'
<1>1. /\ calls < MaxCalls /\ calls' = calls + 1 /\ called' = b /\ d' = d
  BY DEF AddSection, Call
<1>2. calls' \in 0 .. MaxCalls
  BY <1>1, BuilderAssumption DEF TypeOK
<1>3. CASE UNCHANGED <<sections, attached>>
  BY <1>1, <1>2, <1>3 DEF TypeOK
<1>4. CASE /\ s # Null
           /\ sections' = [sections EXCEPT ![b] = With(@, name, s)]
           /\ attached' = attached \cup {<<b, s>>}
  <2>1. /\ DOMAIN sections' = Builders /\ sections'[b] = With(sections[b], name, s)
        /\ \A c \in Builders : c # b => sections'[c] = sections[c]
    BY <1>4 DEF TypeOK
  <2>2. /\ DOMAIN sections'[b] \subseteq Names
        /\ \A x \in DOMAIN sections'[b] : <<b, sections'[b][x]>> \in attached'
    <3>1. DOMAIN sections'[b] = DOMAIN sections[b] \cup {name}
      BY <2>1 DEF With
    <3>2. \A x \in DOMAIN sections'[b] :
              sections'[b][x] = IF x = name THEN s ELSE sections[b][x]
      BY <2>1 DEF With
    <3>3. \A x \in DOMAIN sections[b] : <<b, sections[b][x]>> \in attached
      BY DEF TypeOK
    <3>4. DOMAIN sections[b] \subseteq Names
      BY DEF TypeOK
    <3>. QED
      BY <1>4, <3>1, <3>2, <3>3, <3>4
  <2>3. \A c \in Builders :
            /\ DOMAIN sections'[c] \subseteq Names
            /\ \A x \in DOMAIN sections'[c] : <<c, sections'[c][x]>> \in attached'
    BY <1>4, <2>1, <2>2 DEF TypeOK
  <2>4. attached' \subseteq Builders \X Builders
    BY <1>4 DEF TypeOK
  <2>. QED
    BY <1>1, <1>2, <2>1, <2>3, <2>4 DEF TypeOK
<1>. QED
  BY <1>3, <1>4 DEF AddSection

\* What a call stores in the builder called, and under which name.
Storing(b, name, j) == Put(b, name, j) /\ j.k = "object"

\* A call either stores an object under a name, or adds a section, or changes neither;
\* under adc_workflow it stores a field, a workflow or a workflow with more children.
LEMMA CallStores ==
    ASSUME NEW b \in Builders, CallOf(b)
    PROVE  \/ \E name \in Names, f \in Fields : Storing(b, name, f)
           \/ \E name \in {"app_data", "model_data", "code_configuration", "exit_data",
                           "code", "header", "slurm", "gitlab_ci"} :
                 \E j : Storing(b, name, j)
           \/ AddWorkflow(b)
           \/ \E uuids \in ChildLists : AddWorkflowChildren(b, uuids)
           \/ \E name \in Names, s \in Builders \cup {Null} : AddSection(b, name, s)
<1>1. CASE \E name \in Names, f \in Fields : AddField(b, name, f)
  BY <1>1, BuilderAssumption DEF AddField, Storing
<1>2. ASSUME NEW name \in {"app_data", "model_data", "code_configuration"},
             NEW s \in Builders \cup {Null}, AddSnapshot(b, name, s)
      PROVE  Storing(b, name, Snapshot(s))
  BY <1>2, SnapshotIsObject DEF AddSnapshot, Storing
<1>3. ASSUME NEW s \in Builders \cup {Null}, AddExitData(b, "done", s)
      PROVE  \E j : Storing(b, "exit_data", j)
  BY <1>3 DEF AddExitData, Storing, Obj
<1>4. ASSUME NEW s \in Builders \cup {Null}, NEW version \in Builders \cup {Null},
             AddCode(b, version, s)
      PROVE  \E j : Storing(b, "code", j)
  BY <1>4 DEF AddCode, Storing, Obj
<1>5. ASSUME NEW app \in Apps, AddHeader(b, app)
      PROVE  \E j : Storing(b, "header", j)
  BY <1>5 DEF AddHeader, Storing, Obj
<1>6. ASSUME NEW name, NEW variables, AddEnvironment(b, name, variables)
      PROVE  \E j : Storing(b, name, j)
  <2>. DEFINE j == Obj([v \in variables |-> Text("of the environment")])
  <2>1. j.k = "object"
    BY DEF Obj
  <2>2. Put(b, name, j)
    BY <1>6 DEF AddEnvironment
  <2>. HIDE DEF j
  <2>. QED
    BY <2>1, <2>2 DEF Storing
<1>. QED
  BY <1>1, <1>2, <1>3, <1>4, <1>5, <1>6 DEF CallOf

\* Every call keeps the types.
LEMMA StepTypeOK == TypeOK /\ [Next]_vars => TypeOK'
<1>. SUFFICES ASSUME TypeOK, [Next]_vars PROVE TypeOK'
  OBVIOUS
<1>1. CASE UNCHANGED vars
  BY <1>1 DEF vars, TypeOK
<1>2. ASSUME NEW b \in Builders, CallOf(b) PROVE TypeOK'
  <2>1. ASSUME NEW name, NEW j, Storing(b, name, j) PROVE TypeOK'
    BY <2>1, PutType DEF Storing
  <2>2. CASE AddWorkflow(b)
    BY <2>2, PutType DEF AddWorkflow, Obj
  <2>3. ASSUME NEW uuids \in ChildLists, AddWorkflowChildren(b, uuids) PROVE TypeOK'
    <3>1. CASE Call(b) /\ UNCHANGED <<d, sections, attached>>
      <4>1. calls' \in 0 .. MaxCalls /\ called' = b
        BY <3>1, BuilderAssumption DEF Call, TypeOK
      <4>. QED
        BY <3>1, <4>1 DEF TypeOK
    <3>2. ASSUME NEW j, Put(b, "adc_workflow", Obj(j)) PROVE TypeOK'
      BY <3>2, PutType DEF Obj
    <3>. QED
      BY <2>3, <3>1, <3>2 DEF AddWorkflowChildren
  <2>. QED
    BY <1>2, <2>1, <2>2, <2>3, CallStores, AddSectionType
<1>. QED
  BY <1>1, <1>2 DEF Next

\* The fields, the sections and what is attached keep their types.
THEOREM TypeCorrect == Spec => []TypeOK
<1>1. Init => TypeOK
  BY BuilderAssumption DEF Init, TypeOK
<1>. QED
  BY <1>1, StepTypeOK, PTL DEF Spec
-----------------------------------------------------------------------------
(***************************************************************************)
(* A message changes only by calls of its builder and of those attached to *)
(* it.                                                                     *)
(***************************************************************************)

\* The builders within a number of steps of b along att.
WithinOf(att, b) ==
    CHOOSE within : within = [n \in 0 .. Cardinality(Builders) |->
        IF n = 0 THEN {b}
        ELSE LET near == within[n - 1]
             IN  near \cup {y \in Builders : \E x \in near : <<x, y>> \in att}]

Wider(near, att) == near \cup {y \in Builders : \E x \in near : <<x, y>> \in att}

\* The recursive function of Reach, whose values are sets of builders.
LEMMA WithinUnfolds ==
    ASSUME NEW att, NEW b \in Builders
    PROVE  /\ WithinOf(att, b)[0] = {b}
           /\ \A n \in 1 .. N : WithinOf(att, b)[n] = Wider(WithinOf(att, b)[n - 1], att)
           /\ \A n \in 0 .. N : WithinOf(att, b)[n] \subseteq Builders
<1>. DEFINE U == SUBSET Builders
            Step == [p \in U \X (1 .. N) |-> Wider(p[1], att)]
            Is(g) == g = [n \in 0 .. N |-> IF n = 0 THEN {b} ELSE Wider(g[n - 1], att)]
<1>1. \A near \in U : Wider(near, att) \in U
  BY DEF Wider
<1>2. Step \in Steps(N, U)
  <2>. HIDE DEF U
  <2>. QED
    BY <1>1 DEF Steps
<1>3. PICK g : Unfolds(g, N, U, {b}, Step)
  <2>1. {b} \in U
    OBVIOUS
  <2>. HIDE DEF U, Step
  <2>. QED
    BY <1>2, <2>1, NType, RecursiveFunction
<1>4. /\ g \in [0 .. N -> U] /\ g[0] = {b}
      /\ \A n \in 1 .. N : g[n] = Wider(g[n - 1], att)
  <2>1. /\ g \in [0 .. N -> U] /\ g[0] = {b}
        /\ \A n \in 1 .. N : g[n] = Step[<<g[n - 1], n>>]
    BY <1>3 DEF Unfolds
  <2>2. \A n \in 1 .. N : n - 1 \in 0 .. N
    BY NType
  <2>. HIDE DEF U
  <2>. QED
    BY <2>1, <2>2
<1>5. Is(g)
  <2>1. \A n \in 0 .. N : n # 0 => n \in 1 .. N
    BY NType
  <2>. HIDE DEF U
  <2>. QED
    BY <1>4, <2>1
<1>6. Is(WithinOf(att, b))
  <2>1. WithinOf(att, b) = CHOOSE h : Is(h)
    BY DEF WithinOf, Wider, N
  <2>. HIDE DEF Is
  <2>. QED
    BY <1>5, <2>1
<1>. DEFINE W == WithinOf(att, b)
<1>7. W[0] = {b} /\ \A n \in 1 .. N : W[n] = Wider(W[n - 1], att)
  <2>1. 0 \in 0 .. N /\ \A n \in 1 .. N : n \in 0 .. N /\ n # 0
    BY NType
  <2>2. WithinOf(att, b) =
            [n \in 0 .. N |-> IF n = 0 THEN {b} ELSE Wider(WithinOf(att, b)[n - 1], att)]
    BY <1>6
  <2>. QED
    BY <2>1, <2>2
<1>. DEFINE S == {n \in 0 .. N : W[n] \subseteq Builders}
<1>8. 0 .. N \subseteq S
  <2>1. 0 \in S
    BY <1>7, NType
  <2>2. \A n \in 1 .. N : n - 1 \in S => n \in S
    BY <1>1, <1>7, NType
  <2>. HIDE DEF S
  <2>. QED
    BY <2>1, <2>2, NType, UpToSetInduction
<1>. QED
  BY <1>7, <1>8

\* Reach is the function of WithinOf at N steps.
LEMMA ReachIsWithin == \A b : Reach(b) = WithinOf(attached, b)[N]
  BY DEF Reach, WithinOf, N

\* The builders within fewer steps are among those within more.
LEMMA WithinGrows ==
    ASSUME NEW att, NEW b \in Builders, NEW n \in 0 .. N
    PROVE  WithinOf(att, b)[n] \subseteq WithinOf(att, b)[N]
<1>. DEFINE W == WithinOf(att, b)
            S == {m \in 0 .. N : m >= n => W[n] \subseteq W[m]}
<1>1. \A m \in 1 .. N : W[m] = Wider(W[m - 1], att)
  BY WithinUnfolds
<1>. HIDE DEF W
<1>2. 0 \in S
  BY NType
<1>3. ASSUME NEW m \in 1 .. N, m - 1 \in S PROVE m \in S
  <2>1. m \in 0 .. N /\ (m >= n => m = n \/ m - 1 >= n)
    BY NType
  <2>2. W[m - 1] \subseteq W[m]
    BY <1>1 DEF Wider
  <2>. QED
    BY <1>3, <2>1, <2>2
<1>4. 0 .. N \subseteq S
  <2>. HIDE DEF S
  <2>. QED
    BY <1>2, <1>3, NType, UpToSetInduction
<1>. QED
  BY <1>4, NType DEF W

\* What a call does to other builders than the one called: nothing.
LEMMA CallIsLocal ==
    ASSUME TypeOK, NEW b \in Builders, CallOf(b), NEW c \in Builders, c # b
    PROVE  called' = b /\ d'[c] = d[c] /\ sections'[c] = sections[c]
<1>1. ASSUME NEW name, NEW j, Put(b, name, j)
      PROVE  called' = b /\ d'[c] = d[c] /\ sections'[c] = sections[c]
  BY <1>1 DEF Put, Call, TypeOK
<1>2. ASSUME NEW name, NEW s, AddSection(b, name, s)
      PROVE  called' = b /\ d'[c] = d[c] /\ sections'[c] = sections[c]
  BY <1>2 DEF AddSection, Call, TypeOK
<1>3. CASE Call(b) /\ UNCHANGED <<d, sections, attached>>
  BY <1>3 DEF Call
<1>. QED
  BY <1>1, <1>2, <1>3, CallStores DEF Storing, AddWorkflow, AddWorkflowChildren

\* As long as neither b nor what is within it is called, it stands for the same
\* message: by induction on the depth, for the builders within fewer steps.
LEMMA UncalledIsSame ==
    ASSUME TypeOK, TypeOK', NEW x \in Builders, CallOf(x), NEW b \in Builders, x \notin Reach(b)
    PROVE  Flatten(b)' = Flatten(b)
<1>. DEFINE W == WithinOf(attached, b)
            F == FlatOf(d, sections)
            G == FlatOf(d', sections')
            S == {n \in 0 .. N : \A c \in W[N - n] : F[n][c] = G[n][c]}
<1>1. /\ W[0] = {b} /\ \A n \in 1 .. N : W[n] = Wider(W[n - 1], attached)
      /\ \A n \in 0 .. N : W[n] \subseteq Builders /\ W[n] \subseteq Reach(b)
  BY WithinUnfolds, WithinGrows, ReachIsWithin
<1>2. /\ \A c \in Builders : F[0][c] = Empty
      /\ \A n \in 1 .. N, c \in Builders : F[n][c] = Merged(d[c], sections[c], F[n - 1])
  BY FlatUnfolds
<1>3. /\ \A c \in Builders : G[0][c] = Empty
      /\ \A n \in 1 .. N, c \in Builders : G[n][c] = Merged(d'[c], sections'[c], G[n - 1])
  BY FlatUnfolds
<1>4. Flatten(b) = F[N][b] /\ Flatten(b)' = G[N][b]
  BY FlattenIsFlat
<1>. HIDE DEF W, F, G
<1>5. 0 \in S
  <2>1. 0 \in 0 .. N /\ N - 0 = N /\ N \in 0 .. N
    BY NType
  <2>. QED
    BY <1>1, <1>2, <1>3, <2>1
<1>6. ASSUME NEW n \in 1 .. N, n - 1 \in S PROVE n \in S
  <2>1. /\ N - n \in 0 .. N /\ N - (n - 1) \in 1 .. N /\ (N - (n - 1)) - 1 = N - n
        /\ n \in 0 .. N
    BY NType
  <2>2. W[N - (n - 1)] = Wider(W[N - n], attached)
    BY <1>1, <2>1
  <2>3. ASSUME NEW c \in W[N - n] PROVE F[n][c] = G[n][c]
    <3>1. c \in Builders /\ c # x
      BY <1>1, <2>1
    <3>2. d'[c] = d[c] /\ sections'[c] = sections[c]
      BY <3>1, CallIsLocal
    <3>3. ASSUME NEW y \in DOMAIN sections[c]
          PROVE  F[n - 1][sections[c][y]] = G[n - 1][sections[c][y]]
      <4>1. <<c, sections[c][y]>> \in attached /\ sections[c][y] \in Builders
        <5>1. <<c, sections[c][y]>> \in attached /\ attached \subseteq Builders \X Builders
          BY <3>1 DEF TypeOK
        <5>. QED
          BY <5>1
      <4>2. sections[c][y] \in W[N - (n - 1)]
        BY <2>2, <4>1 DEF Wider
      <4>. QED
        BY <1>6, <4>2
    <3>4. Merged(d[c], sections[c], F[n - 1]) = Merged(d[c], sections[c], G[n - 1])
      BY <3>3 DEF Merged
    <3>. QED
      BY <1>2, <1>3, <3>1, <3>2, <3>4
  <2>. QED
    BY <2>1, <2>3
<1>7. N \in S
  <2>. HIDE DEF S
  <2>1. 0 .. N \subseteq S
    BY <1>5, <1>6, NType, UpToSetInduction
  <2>. QED
    BY <2>1, NType
<1>8. b \in W[N - N]
  BY <1>1, NType
<1>. QED
  BY <1>4, <1>7, <1>8

\* A message changes only by calls of its builder and of those attached to it, whatever
\* the builders are called and however deep they are attached.
THEOREM MessagesChangeLocally == Spec => EditsAreLocal
<1>. DEFINE Local == \A b \in Builders :
                called' \notin Reach(b) /\ Acyclic(b) /\ Acyclic(b)' => Flatten(b)' = Flatten(b)
<1>1. TypeOK /\ TypeOK' /\ [Next]_vars => [Local]_vars
  <2>. SUFFICES ASSUME TypeOK, TypeOK', Next, NEW b \in Builders, called' \notin Reach(b)
                PROVE  Flatten(b)' = Flatten(b)
    OBVIOUS
  <2>1. PICK x \in Builders : CallOf(x)
    BY DEF Next
  <2>2. called' = x
    <3>1. ASSUME NEW name, NEW j, Put(x, name, j) PROVE called' = x
      BY <3>1 DEF Put, Call
    <3>2. ASSUME NEW name, NEW s, AddSection(x, name, s) PROVE called' = x
      BY <3>2 DEF AddSection, Call
    <3>. QED
      BY <2>1, <3>1, <3>2, CallStores
         DEF Storing, AddWorkflow, AddWorkflowChildren, Call
  <2>. QED
    BY <2>1, <2>2, UncalledIsSame
<1>. QED
  BY <1>1, TypeCorrect, PTL DEF Spec, EditsAreLocal
-----------------------------------------------------------------------------
(***************************************************************************)
(* A section that is added hides nothing.                                  *)
(***************************************************************************)

\* The call that changes the sections adds one, under a name that is not in use.
LEMMA OnlyAddSection ==
    ASSUME NEW b \in Builders, CallOf(b), sections' # sections
    PROVE  \E name \in Names, s \in Builders :
              /\ Kind(b, name) = "k_none" /\ d' = d
              /\ sections' = [sections EXCEPT ![b] = With(@, name, s)]
              /\ attached' = attached \cup {<<b, s>>}
<1>1. ASSUME NEW name, NEW j, Put(b, name, j) PROVE sections' = sections
  BY <1>1 DEF Put
<1>2. PICK name \in Names, s \in Builders \cup {Null} : AddSection(b, name, s)
  BY <1>1, CallStores DEF Storing, AddWorkflow, AddWorkflowChildren
<1>. QED
  BY <1>2 DEF AddSection

\* What stands below an object, at a path whose first name is x, is below its member.
LEMMA FindInMerged ==
    ASSUME NEW f, NEW g, NEW below, NEW S, NEW p \in Seq(S), p # <<>>
    PROVE  LET x == p[1]
               j == Merged(f, g, below)
           IN  /\ x \in DOMAIN g => Find(j, p) = Find(below[g[x]], Tail(p))
               /\ x \in DOMAIN f \ DOMAIN g => Find(j, p) = Find(f[x], Tail(p))
               /\ x \notin DOMAIN f \cup DOMAIN g => Find(j, p) = Missing
<1>. DEFINE x == p[1]
            j == Merged(f, g, below)
<1>1. j.k = "object" /\ DOMAIN j.m = DOMAIN f \cup DOMAIN g
  BY DEF Merged, Obj
<1>2. Find(j, p) = Find(Child(j, x), Tail(p)) /\ Tail(p) \in Seq(S)
  BY FindBelow, PathBelow
<1>3. CASE x \in DOMAIN g
  <2>1. Child(j, x) = below[g[x]]
    BY <1>1, <1>3 DEF Child, Merged, Obj
  <2>. QED
    BY <1>2, <1>3, <2>1
<1>4. CASE x \in DOMAIN f \ DOMAIN g
  <2>1. Child(j, x) = f[x]
    BY <1>1, <1>4 DEF Child, Merged, Obj
  <2>. QED
    BY <1>2, <1>4, <2>1
<1>5. CASE x \notin DOMAIN f \cup DOMAIN g
  <2>1. Child(j, x) = Missing
    BY <1>1, <1>5 DEF Child
  <2>. QED
    BY <1>2, <1>5, <2>1, FindMissing
<1>. QED
  BY <1>3, <1>4, <1>5

\* A value that stands in a message, by induction on the depth of the sections.
LEMMA ValuesStay ==
    ASSUME TypeOK, NEW x \in Builders, CallOf(x), sections' # sections,
           NEW b \in Builders, NEW p \in Seq(STRING),
           Find(Flatten(b), p).k \notin {"missing", "object"}
    PROVE  Find(Flatten(b)', p) = Find(Flatten(b), p)
<1>. DEFINE F == FlatOf(d, sections)
            G == FlatOf(d', sections')
            Stays(n, c, q) == Find(F[n][c], q).k \notin {"missing", "object"} =>
                                 Find(G[n][c], q) = Find(F[n][c], q)
            S == {n \in 0 .. N : \A c \in Builders, q \in Seq(STRING) : Stays(n, c, q)}
<1>1. /\ \A c \in Builders : F[0][c] = Empty
      /\ \A n \in 1 .. N, c \in Builders : F[n][c] = Merged(d[c], sections[c], F[n - 1])
  BY FlatUnfolds
<1>2. /\ \A c \in Builders : G[0][c] = Empty
      /\ \A n \in 1 .. N, c \in Builders : G[n][c] = Merged(d'[c], sections'[c], G[n - 1])
  BY FlatUnfolds
<1>3. Flatten(b) = F[N][b] /\ Flatten(b)' = G[N][b]
  BY FlattenIsFlat
<1>4. PICK name \in Names, s \in Builders :
          /\ Kind(x, name) = "k_none" /\ d' = d
          /\ sections' = [sections EXCEPT ![x] = With(@, name, s)]
  BY OnlyAddSection
<1>5. name \notin DOMAIN d[x] /\ name \notin DOMAIN sections[x]
  BY <1>4 DEF Kind
<1>6. ASSUME NEW c \in Builders
      PROVE  /\ DOMAIN sections[c] \subseteq DOMAIN sections'[c]
             /\ \A y \in DOMAIN sections[c] : sections'[c][y] = sections[c][y]
             /\ DOMAIN d[c] \cap DOMAIN sections'[c] \subseteq DOMAIN sections[c]
             /\ \A y \in DOMAIN sections[c] : sections[c][y] \in Builders
  <2>1. /\ DOMAIN sections = Builders
        /\ \A y \in DOMAIN sections[c] : <<c, sections[c][y]>> \in attached
        /\ attached \subseteq Builders \X Builders
    BY DEF TypeOK
  <2>2. \A y \in DOMAIN sections[c] : sections[c][y] \in Builders
    BY <2>1
  <2>3. CASE c = x
    <3>1. sections'[c] = With(sections[c], name, s)
      BY <1>4, <2>1, <2>3
    <3>. QED
      BY <1>5, <2>2, <2>3, <3>1 DEF With
  <2>4. CASE c # x
    <3>1. sections'[c] = sections[c]
      BY <1>4, <2>1, <2>4
    <3>. QED
      BY <2>2, <3>1
  <2>. QED
    BY <2>3, <2>4
<1>. HIDE DEF F, G
<1>7. 0 \in S
  BY <1>1, <1>2, NType
<1>8. ASSUME NEW n \in 1 .. N, n - 1 \in S PROVE n \in S
  <2>1. ASSUME NEW c \in Builders, NEW q \in Seq(STRING),
               Find(F[n][c], q).k \notin {"missing", "object"}
        PROVE  Find(G[n][c], q) = Find(F[n][c], q)
    <3>1. /\ F[n][c] = Merged(d[c], sections[c], F[n - 1])
          /\ G[n][c] = Merged(d[c], sections'[c], G[n - 1])
      BY <1>1, <1>2, <1>4
    <3>2. q # <<>>
      BY <2>1, <3>1, FindHere DEF Merged, Obj
    <3>3. Tail(q) \in Seq(STRING)
      BY <3>2, PathBelow
    <3>. DEFINE y == q[1]
    <3>4. CASE y \in DOMAIN sections[c]
      <4>1. /\ Find(F[n][c], q) = Find(F[n - 1][sections[c][y]], Tail(q))
            /\ Find(G[n][c], q) = Find(G[n - 1][sections[c][y]], Tail(q))
        <5>1. y \in DOMAIN sections'[c] /\ sections'[c][y] = sections[c][y]
          BY <1>6, <3>4
        <5>. QED
          BY <3>1, <3>2, <3>4, <5>1, FindInMerged
      <4>2. sections[c][y] \in Builders
        BY <1>6, <3>4
      <4>3. Stays(n - 1, sections[c][y], Tail(q))
        BY <1>8, <3>3, <4>2
      <4>. QED
        BY <2>1, <4>1, <4>3
    <3>5. CASE y \in DOMAIN d[c] \ DOMAIN sections[c]
      <4>1. y \in DOMAIN d[c] \ DOMAIN sections'[c]
        BY <1>6, <3>5
      <4>. QED
        BY <3>1, <3>2, <3>5, <4>1, FindInMerged
    <3>6. CASE y \notin DOMAIN d[c] \cup DOMAIN sections[c]
      <4>1. Find(F[n][c], q) = Missing
        BY <3>1, <3>2, <3>6, FindInMerged
      <4>. QED
        BY <2>1, <4>1 DEF Missing
    <3>. QED
      BY <3>4, <3>5, <3>6
  <2>2. n \in 0 .. N
    BY NType
  <2>. QED
    BY <2>1, <2>2
<1>9. N \in S
  <2>. HIDE DEF S
  <2>1. 0 .. N \subseteq S
    BY <1>7, <1>8, NType, UpToSetInduction
  <2>. QED
    BY <2>1, NType
<1>. QED
  BY <1>3, <1>9

\* A section that is added hides nothing in any message that the builder is part of.
THEOREM AddedSectionsHideNothing == Spec => SectionsHideNothing
<1>. DEFINE HidesNothing ==
        sections' # sections =>
          \A b \in Builders :
             Acyclic(b) /\ Acyclic(b)' =>
                LET before == Flatten(b)
                    after == Flatten(b)'
                IN  \A p \in Paths :
                       Find(before, p).k \notin {"missing", "object"} =>
                          Find(after, p) = Find(before, p)
<1>1. TypeOK /\ [Next]_vars => [HidesNothing]_vars
  <2>. SUFFICES ASSUME TypeOK, Next, sections' # sections, NEW b \in Builders,
                       NEW p \in Paths, Find(Flatten(b), p).k \notin {"missing", "object"}
                PROVE  Find(Flatten(b)', p) = Find(Flatten(b), p)
    OBVIOUS
  <2>1. PICK x \in Builders : CallOf(x)
    BY DEF Next
  <2>2. p \in Seq(STRING)
    BY BuilderAssumption
  <2>. QED
    BY <2>1, <2>2, ValuesStay
<1>. QED
  BY <1>1, TypeCorrect, PTL DEF Spec, SectionsHideNothing
-----------------------------------------------------------------------------
(***************************************************************************)
(* The children of a workflow.                                             *)
(***************************************************************************)

\* The list of the children of a workflow: first those of the environment, as they
\* were listed, and then others, each once.
Leaves == {Text(u) : u \in STRING}

Env == Texts(EnvChildren)

Listed(list) ==
    /\ list \in Seq(Leaves)
    /\ Len(list) >= Len(Env) /\ \A i \in 1 .. Len(Env) : list[i] = Env[i]
    /\ \A i, j \in 1 .. Len(list) : i < j /\ j > Len(Env) => list[i] # list[j]

\* The children of the environment are a list.
LEMMA EnvType == Env \in Seq(Leaves) /\ Len(Env) \in Nat
<1>1. EnvChildren \in [1 .. Len(EnvChildren) -> STRING] /\ Len(EnvChildren) \in Nat
  BY BuilderAssumption
<1>2. Env \in [1 .. Len(EnvChildren) -> Leaves]
  BY <1>1 DEF Env, Texts, Leaves
<1>3. Env \in Seq(Leaves)
  BY <1>1, <1>2
<1>. QED
  BY <1>3

\* A child that is not in the list yet is added to its end.
LEMMA AppendListed ==
    ASSUME NEW list, Listed(list), NEW x \in Leaves, \A j \in 1 .. Len(list) : list[j] # x
    PROVE  Listed(Append(list, x))
<1>. DEFINE l == Append(list, x)
<1>1. /\ list \in Seq(Leaves) /\ Len(list) \in Nat /\ Len(Env) \in Nat
      /\ Len(list) >= Len(Env)
  BY EnvType DEF Listed
<1>2. /\ l \in Seq(Leaves) /\ Len(l) = Len(list) + 1
      /\ \A i \in 1 .. Len(list) : l[i] = list[i]
      /\ l[Len(list) + 1] = x
  BY <1>1
<1>. HIDE DEF l
<1>3. Len(l) >= Len(Env) /\ \A i \in 1 .. Len(Env) : l[i] = Env[i]
  <2>1. \A i \in 1 .. Len(Env) : i \in 1 .. Len(list)
    BY <1>1
  <2>. QED
    BY <1>1, <1>2, <2>1 DEF Listed
<1>4. ASSUME NEW i \in 1 .. Len(l), NEW j \in 1 .. Len(l), i < j, j > Len(Env)
      PROVE  l[i] # l[j]
  <2>1. i \in 1 .. Len(list)
    BY <1>1, <1>2, <1>4
  <2>2. CASE j = Len(list) + 1
    BY <1>2, <2>1, <2>2
  <2>3. CASE j # Len(list) + 1
    <3>1. j \in 1 .. Len(list)
      BY <1>1, <1>2, <2>3
    <3>. QED
      BY <1>2, <1>4, <2>1, <3>1 DEF Listed
  <2>. QED
    BY <2>2, <2>3
<1>. QED
  BY <1>2, <1>3, <1>4 DEF Listed, l

\* Extend keeps the list so, as it takes the children one after the other.
LEMMA ExtendListed ==
    ASSUME NEW list, Listed(list), NEW uuids \in Seq(STRING)
    PROVE  Listed(Extend(list, uuids))
<1>. DEFINE n == Len(uuids)
            Longer(l, i) == IF \E j \in DOMAIN l : l[j] = Text(uuids[i]) THEN l
                            ELSE Append(l, Text(uuids[i]))
            U == Seq(Leaves)
            Step == [p \in U \X (1 .. n) |-> Longer(p[1], p[2])]
            Is(g) == g = [i \in 0 .. n |-> IF i = 0 THEN list ELSE Longer(g[i - 1], i)]
            after == CHOOSE after : after = [i \in 0 .. Len(uuids) |->
                        IF i = 0 THEN list
                        ELSE LET l == after[i - 1]
                             IN  IF \E j \in DOMAIN l : l[j] = Text(uuids[i]) THEN l
                                 ELSE Append(l, Text(uuids[i]))]
<1>1. n \in Nat /\ \A i \in 1 .. n : Text(uuids[i]) \in Leaves
  BY DEF Leaves
<1>2. list \in U
  BY DEF Listed
<1>3. Step \in Steps(n, U)
  <2>1. ASSUME NEW l \in U, NEW i \in 1 .. n PROVE Longer(l, i) \in U
    BY <1>1
  <2>. HIDE DEF Longer, n, U
  <2>. QED
    BY <2>1 DEF Steps
<1>4. PICK g : Unfolds(g, n, U, list, Step)
  <2>. HIDE DEF n, U, Step
  <2>. QED
    BY <1>1, <1>2, <1>3, RecursiveFunction
<1>5. Is(g)
  <2>1. /\ g \in [0 .. n -> U] /\ g[0] = list
        /\ \A i \in 1 .. n : g[i] = Step[<<g[i - 1], i>>]
    BY <1>4 DEF Unfolds
  <2>2. /\ \A i \in 1 .. n : i - 1 \in 0 .. n
        /\ \A i \in 0 .. n : i # 0 => i \in 1 .. n
    BY <1>1
  <2>. HIDE DEF Longer, n, U
  <2>3. \A i \in 1 .. n : g[i] = Longer(g[i - 1], i)
    BY <2>1, <2>2
  <2>. QED
    BY <2>1, <2>2, <2>3
<1>6. Is(after)
  <2>1. after = CHOOSE h : Is(h)
    OBVIOUS
  <2>. HIDE DEF Is, after
  <2>. QED
    BY <1>5, <2>1
<1>7. Extend(list, uuids) = after[n]
  BY DEF Extend
<1>. HIDE DEF after
<1>. DEFINE Good == {i \in 0 .. n : Listed(after[i])}
<1>8. 0 \in Good
  BY <1>1, <1>6
<1>9. ASSUME NEW i \in 1 .. n, i - 1 \in Good PROVE i \in Good
  <2>1. i \in 0 .. n /\ i # 0
    BY <1>1
  <2>2. after[i] = Longer(after[i - 1], i)
    <3>. HIDE DEF Longer
    <3>. QED
      BY <1>6, <2>1
  <2>3. Listed(after[i - 1]) /\ DOMAIN after[i - 1] = 1 .. Len(after[i - 1])
    BY <1>9 DEF Listed
  <2>4. CASE \E j \in DOMAIN after[i - 1] : after[i - 1][j] = Text(uuids[i])
    BY <2>1, <2>2, <2>3, <2>4
  <2>5. CASE ~ \E j \in DOMAIN after[i - 1] : after[i - 1][j] = Text(uuids[i])
    BY <1>1, <2>1, <2>2, <2>3, <2>5, AppendListed
  <2>. QED
    BY <2>4, <2>5
<1>10. n \in Good
  <2>. HIDE DEF Good
  <2>1. 0 .. n \subseteq Good
    BY <1>1, <1>8, <1>9, UpToSetInduction
  <2>. QED
    BY <1>1, <2>1
<1>. QED
  BY <1>7, <1>10

\* What is stored as a workflow has such a list.
WorkflowListed(f) ==
    "adc_workflow" \in DOMAIN f /\ IsWorkflow(f["adc_workflow"]) =>
        Listed(f["adc_workflow"].m.wfid_children.e)

WorkflowsListed == \A b \in Builders : WorkflowListed(d[b])

\* The workflows stay so when what is stored as one is so.
LEMMA StoringKeepsWorkflows ==
    ASSUME TypeOK, WorkflowsListed, NEW b \in Builders, NEW name, NEW j, Put(b, name, j),
           name = "adc_workflow" /\ IsWorkflow(j) => Listed(j.m.wfid_children.e)
    PROVE  WorkflowsListed'
<1>1. DOMAIN d = Builders /\ d' = [d EXCEPT ![b] = With(@, name, j)]
  BY DEF TypeOK, Put
<1>2. d'[b] = With(d[b], name, j) /\ \A c \in Builders : c # b => d'[c] = d[c]
  BY <1>1
<1>3. WorkflowListed(d[b])
  BY DEF WorkflowsListed
<1>4. WorkflowListed(With(d[b], name, j))
  <2>1. /\ DOMAIN With(d[b], name, j) = DOMAIN d[b] \cup {name}
        /\ With(d[b], name, j)[name] = j
        /\ \A x \in DOMAIN d[b] : x # name => With(d[b], name, j)[x] = d[b][x]
    BY DEF With
  <2>2. CASE name = "adc_workflow"
    BY <2>1, <2>2 DEF WorkflowListed
  <2>3. CASE name # "adc_workflow"
    BY <1>3, <2>1, <2>3 DEF WorkflowListed
  <2>. QED
    BY <2>2, <2>3
<1>5. \A c \in Builders : WorkflowListed(d'[c])
  BY <1>2, <1>4 DEF WorkflowsListed
<1>. QED
  BY <1>5 DEF WorkflowsListed, WorkflowListed, IsWorkflow

\* Every call keeps them so.
LEMMA StepWorkflowsListed ==
    ASSUME TypeOK, WorkflowsListed, [Next]_vars
    PROVE  WorkflowsListed'
<1>1. ASSUME UNCHANGED d PROVE WorkflowsListed'
  BY <1>1 DEF WorkflowsListed, WorkflowListed, IsWorkflow
<1>2. ASSUME NEW b \in Builders, CallOf(b) PROVE WorkflowsListed'
  <2>1. ASSUME NEW name, NEW f \in Fields, Storing(b, name, f) PROVE WorkflowsListed'
    <3>1. ~IsWorkflow(f)
      BY BuilderAssumption DEF IsWorkflow
    <3>. QED
      BY <2>1, <3>1, StoringKeepsWorkflows DEF Storing
  <2>2. ASSUME NEW name, name # "adc_workflow", NEW j, Storing(b, name, j)
        PROVE  WorkflowsListed'
    BY <2>2, StoringKeepsWorkflows DEF Storing
  <2>3. CASE AddWorkflow(b)
    <3>. DEFINE j == Obj([wfid |-> Text("wfid"), wfid_parent |-> Text("parent"),
                          wfid_path |-> Text("path"),
                          wfid_children |-> Array(Texts(EnvChildren))])
    <3>1. j.m.wfid_children.e = Env
      BY DEF Obj, Array, Env
    <3>2. Listed(Env)
      <4>1. \A i, k \in 1 .. Len(Env) : ~(i < k /\ k > Len(Env))
        BY EnvType
      <4>. QED
        BY <4>1, EnvType DEF Listed
    <3>3. Put(b, "adc_workflow", j)
      BY <2>3 DEF AddWorkflow
    <3>. HIDE DEF j
    <3>. QED
      BY <3>1, <3>2, <3>3, StoringKeepsWorkflows
  <2>4. ASSUME NEW uuids \in ChildLists, AddWorkflowChildren(b, uuids) PROVE WorkflowsListed'
    <3>1. CASE "adc_workflow" \in DOMAIN d[b] /\ IsWorkflow(d[b]["adc_workflow"])
      <4>. DEFINE w == d[b]["adc_workflow"]
                  j == Obj([w.m EXCEPT !.wfid_children = Array(Extend(@.e, uuids))])
      <4>1. Listed(w.m.wfid_children.e) /\ "wfid_children" \in DOMAIN w.m
        BY <3>1 DEF WorkflowsListed, WorkflowListed, IsWorkflow
      <4>2. uuids \in Seq(STRING)
        BY BuilderAssumption
      <4>3. Listed(Extend(w.m.wfid_children.e, uuids))
        BY <4>1, <4>2, ExtendListed
      <4>4. j.m.wfid_children.e = Extend(w.m.wfid_children.e, uuids)
        BY <4>1 DEF Obj, Array
      <4>5. Put(b, "adc_workflow", j)
        BY <2>4, <3>1 DEF AddWorkflowChildren
      <4>. HIDE DEF j
      <4>. QED
        BY <4>3, <4>4, <4>5, StoringKeepsWorkflows
    <3>2. CASE ~("adc_workflow" \in DOMAIN d[b] /\ IsWorkflow(d[b]["adc_workflow"]))
      BY <1>1, <2>4, <3>2 DEF AddWorkflowChildren
    <3>. QED
      BY <3>1, <3>2
  <2>5. ASSUME NEW name, NEW s, AddSection(b, name, s) PROVE WorkflowsListed'
    BY <1>1, <2>5 DEF AddSection
  <2>. QED
    BY <1>2, <2>1, <2>2, <2>3, <2>4, <2>5, CallStores
<1>3. CASE UNCHANGED vars
  BY <1>1, <1>3 DEF vars
<1>. QED
  BY <1>2, <1>3 DEF Next

\* The children of a workflow are those of the environment and then others, each once,
\* whatever is called.
THEOREM ChildrenListedOnce == Spec => []ChildrenOnce
<1>1. Init => WorkflowsListed
  BY DEF Init, WorkflowsListed, WorkflowListed
<1>2. TypeOK /\ WorkflowsListed /\ [Next]_vars => WorkflowsListed'
  BY StepWorkflowsListed
<1>3. WorkflowsListed => ChildrenOnce
  <2>. SUFFICES ASSUME WorkflowsListed, NEW b \in Builders, "adc_workflow" \in DOMAIN d[b],
                       IsWorkflow(d[b]["adc_workflow"])
                PROVE  LET list == d[b]["adc_workflow"].m.wfid_children.e
                       IN  /\ Len(list) >= Len(Env) /\ SubSeq(list, 1, Len(Env)) = Env
                           /\ \A i, j \in DOMAIN list :
                                 i < j /\ j > Len(Env) => list[i] # list[j]
    BY DEF ChildrenOnce, Env
  <2>. DEFINE list == d[b]["adc_workflow"].m.wfid_children.e
  <2>1. Listed(list)
    BY DEF WorkflowsListed, WorkflowListed
  <2>. HIDE DEF list
  <2>2. /\ list \in Seq(Leaves) /\ Len(list) \in Nat /\ DOMAIN list = 1 .. Len(list)
        /\ Len(list) >= Len(Env) /\ \A i \in 1 .. Len(Env) : list[i] = Env[i]
    BY <2>1 DEF Listed
  <2>3. SubSeq(list, 1, Len(Env)) = Env
    <3>1. SubSeq(list, 1, Len(Env)) = [i \in 1 .. Len(Env) |-> list[i]]
      BY <2>2, EnvType
    <3>2. Env = [i \in 1 .. Len(Env) |-> Env[i]]
      BY EnvType
    <3>. QED
      BY <2>2, <3>1, <3>2
  <2>4. \A i, j \in 1 .. Len(list) : i < j /\ j > Len(Env) => list[i] # list[j]
    BY <2>1 DEF Listed
  <2>. QED
    BY <2>2, <2>3, <2>4 DEF list
<1>. QED
  BY <1>1, <1>2, <1>3, TypeCorrect, PTL DEF Spec
-----------------------------------------------------------------------------
(***************************************************************************)
(* Builders that do not lead back to themselves: from section to section   *)
(* they lead to fewer and fewer builders, so that flatten and get_value    *)
(* come to an end.                                                         *)
(***************************************************************************)

\* A builder leads to itself and to builders.
LEMMA ReachType ==
    ASSUME NEW b \in Builders
    PROVE  Reach(b) \subseteq Builders /\ b \in Reach(b)
<1>1. 0 \in 0 .. N /\ N \in 0 .. N
  BY NType
<1>2. WithinOf(attached, b)[0] = {b} /\ WithinOf(attached, b)[N] \subseteq Builders
  BY <1>1, WithinUnfolds
<1>. QED
  BY <1>1, <1>2, WithinGrows, ReachIsWithin

\* Sets of builders that a step makes no wider.
Closed(near) == Wider(near, attached) = near

\* As many steps as there are builders lead to all: each step adds one, or none does.
LEMMA ReachClosed ==
    ASSUME NEW b \in Builders
    PROVE  Closed(Reach(b))
<1>. DEFINE W == WithinOf(attached, b)
            S == {n \in 0 .. N : Closed(W[n]) \/ Cardinality(W[n]) >= n + 1}
<1>1. /\ W[0] = {b} /\ \A n \in 1 .. N : W[n] = Wider(W[n - 1], attached)
      /\ \A n \in 0 .. N : W[n] \subseteq Builders
  BY WithinUnfolds
<1>2. Reach(b) = W[N]
  BY ReachIsWithin
<1>. HIDE DEF W
<1>3. \A n \in 0 .. N : /\ IsFiniteSet(W[n]) /\ Cardinality(W[n]) \in Nat
                        /\ Cardinality(W[n]) <= N
  BY <1>1, BuilderAssumption, FS_Subset, FS_CardinalityType DEF N
<1>4. 0 \in S
  <2>1. Cardinality({b}) = 1
    BY FS_Singleton
  <2>. QED
    BY <1>1, <2>1, NType
<1>5. ASSUME NEW n \in 1 .. N, n - 1 \in S PROVE n \in S
  <2>1. n \in 0 .. N /\ n - 1 \in 0 .. N /\ (n - 1) + 1 = n
    BY NType
  <2>2. W[n] = Wider(W[n - 1], attached)
    BY <1>1
  <2>3. CASE Closed(W[n - 1])
    BY <2>1, <2>2, <2>3 DEF Closed
  <2>4. CASE ~Closed(W[n - 1])
    <3>1. W[n - 1] \subseteq W[n] /\ W[n - 1] # W[n]
      BY <2>2, <2>4 DEF Closed, Wider
    <3>2. Cardinality(W[n - 1]) <= Cardinality(W[n])
          /\ Cardinality(W[n - 1]) # Cardinality(W[n])
      BY <1>3, <2>1, <3>1, FS_Subset
    <3>3. Cardinality(W[n - 1]) >= n
      BY <1>5, <2>1, <2>4
    <3>. QED
      BY <1>3, <2>1, <3>2, <3>3
  <2>. QED
    BY <2>3, <2>4
<1>6. N \in S
  <2>. HIDE DEF S
  <2>1. 0 .. N \subseteq S
    BY <1>4, <1>5, NType, UpToSetInduction
  <2>. QED
    BY <2>1, NType
<1>7. ~(Cardinality(W[N]) >= N + 1)
  BY <1>3, NType
<1>. QED
  BY <1>2, <1>6, <1>7

\* Whoever leads to y leads to all that y leads to.
LEMMA ReachTransitive ==
    ASSUME NEW b \in Builders, NEW y \in Reach(b)
    PROVE  Reach(y) \subseteq Reach(b)
<1>. DEFINE W == WithinOf(attached, y)
            S == {n \in 0 .. N : W[n] \subseteq Reach(b)}
<1>1. y \in Builders
  BY ReachType
<1>2. W[0] = {y} /\ \A n \in 1 .. N : W[n] = Wider(W[n - 1], attached)
  BY <1>1, WithinUnfolds
<1>3. Reach(y) = W[N]
  BY ReachIsWithin
<1>. HIDE DEF W
<1>4. 0 \in S
  BY <1>2, NType
<1>5. ASSUME NEW n \in 1 .. N, n - 1 \in S PROVE n \in S
  <2>1. n \in 0 .. N
    BY NType
  <2>. QED
    BY <1>2, <1>5, <2>1, ReachClosed DEF Closed, Wider
<1>6. N \in S
  <2>. HIDE DEF S
  <2>1. 0 .. N \subseteq S
    BY <1>4, <1>5, NType, UpToSetInduction
  <2>. QED
    BY <2>1, NType
<1>. QED
  BY <1>3, <1>6

\* What a builder that leads not back to itself is attached to leads to fewer.
LEMMA SectionReachesLess ==
    ASSUME TypeOK, NEW b \in Builders, Acyclic(b), NEW y \in Builders, <<b, y>> \in attached
    PROVE  /\ Acyclic(y)
           /\ Cardinality(Reach(y)) < Cardinality(Reach(b))
           /\ Cardinality(Reach(y)) \in Nat /\ Cardinality(Reach(b)) \in Nat
<1>1. b \in Reach(b) /\ Reach(b) \subseteq Builders
  BY ReachType
<1>2. y \in Reach(b)
  BY <1>1, ReachClosed DEF Closed, Wider
<1>3. Reach(y) \subseteq Reach(b)
  BY <1>2, ReachTransitive
<1>4. b \notin Reach(y)
  BY <1>1 DEF Acyclic
<1>5. IsFiniteSet(Reach(b))
  BY <1>1, BuilderAssumption, FS_Subset
<1>6. /\ IsFiniteSet(Reach(y)) /\ Cardinality(Reach(y)) <= Cardinality(Reach(b))
      /\ Cardinality(Reach(y)) # Cardinality(Reach(b))
  BY <1>1, <1>3, <1>4, <1>5, FS_Subset
<1>7. Cardinality(Reach(y)) \in Nat /\ Cardinality(Reach(b)) \in Nat
  BY <1>5, <1>6, FS_CardinalityType
<1>8. Acyclic(y)
  BY <1>3 DEF Acyclic
<1>. QED
  BY <1>6, <1>7, <1>8
-----------------------------------------------------------------------------
(***************************************************************************)
(* The search of get_value, from section to section.                       *)
(***************************************************************************)

\* The search of get_value from builder c on, when below is what it comes to in the
\* sections, and rest is the path after name.
Looked(c, name, rest, below) ==
    CASE Kind(c, name) = "k_section" -> below[sections[c][name]]
      [] Kind(c, name) = "k_value" -> FieldAt(Find(d[c][name], rest))
      [] Kind(c, name) = "k_none" -> NoField

LookedAll(p, i, below) ==
    [c \in Builders |-> Looked(c, p[i], SubSeq(p, i + 1, Len(p)), below)]

GetOf(p) ==
    CHOOSE get : get = [i \in 1 .. Len(p) + 1 |->
        IF i >= Len(p) THEN [c \in Builders |-> Throws]
        ELSE LET below == get[i + 1]
             IN  [c \in Builders |->
                     CASE Kind(c, p[i]) = "k_section" -> below[sections[c][p[i]]]
                       [] Kind(c, p[i]) = "k_value" ->
                             FieldAt(Find(d[c][p[i]], SubSeq(p, i + 1, Len(p))))
                       [] Kind(c, p[i]) = "k_none" -> NoField]]

\* The recursive function of get_value exists: by induction from the end of the path.
LEMMA GetUnfolds ==
    ASSUME NEW p, Len(p) \in Nat
    PROVE  /\ \A b : GetValue(b, p) = GetOf(p)[1][b]
           /\ \A i \in 1 .. Len(p) + 1 :
                 GetOf(p)[i] = IF i >= Len(p) THEN [c \in Builders |-> Throws]
                               ELSE LookedAll(p, i, GetOf(p)[i + 1])
<1>. DEFINE L == Len(p)
            End == [c \in Builders |-> Throws]
            Upto(g, m) == g = [i \in (L + 1) - m .. L + 1 |->
                                  IF i >= L THEN End ELSE LookedAll(p, i, g[i + 1])]
            S == {m \in 0 .. L : \E g : Upto(g, m)}
<1>1. 0 \in S
  <2>1. Upto([i \in (L + 1) - 0 .. L + 1 |-> End], 0)
    <3>. HIDE DEF End
    <3>1. \A i \in (L + 1) - 0 .. L + 1 : i >= L
      OBVIOUS
    <3>. QED
      BY <3>1
  <2>2. 0 \in 0 .. L
    OBVIOUS
  <2>. HIDE DEF Upto, L
  <2>. QED
    BY <2>1, <2>2
<1>2. ASSUME NEW m \in 1 .. L, m - 1 \in S PROVE m \in S
  <2>1. PICK g : Upto(g, m - 1)
    <3>. HIDE DEF Upto
    <3>. QED
      BY <1>2
  <2>2. L \in Nat /\ m \in Nat \ {0} /\ m <= L
    OBVIOUS
  <2>. DEFINE k == (L + 1) - m
              First == IF k >= L THEN End ELSE LookedAll(p, k, g[k + 1])
              h == [i \in k .. L + 1 |-> IF i = k THEN First ELSE g[i]]
  <2>3. /\ k \in Nat \ {0} /\ k < L + 1 /\ k + 1 = (L + 1) - (m - 1)
        /\ \A i \in k .. L + 1 : /\ i # k => i \in k + 1 .. L + 1
                                 /\ ~(i >= L) => i + 1 \in k + 1 .. L + 1 /\ i + 1 # k
    BY <2>2
  <2>. HIDE DEF L, End, k, First
  <2>4. g = [i \in k + 1 .. L + 1 |-> IF i >= L THEN End ELSE LookedAll(p, i, g[i + 1])]
    BY <2>1, <2>3 DEF k
  <2>5. /\ \A i \in k .. L + 1 : h[i] = IF i = k THEN First ELSE g[i]
        /\ h = [i \in k .. L + 1 |-> h[i]]
    OBVIOUS
  <2>. HIDE DEF h
  <2>6. ASSUME NEW i \in k .. L + 1
        PROVE  h[i] = IF i >= L THEN End ELSE LookedAll(p, i, h[i + 1])
    <3>1. ~(i >= L) => h[i + 1] = g[i + 1]
      <4>1. ~(i >= L) => i + 1 \in k .. L + 1 /\ i + 1 # k
        BY <2>2, <2>3
      <4>. QED
        BY <2>5, <4>1
    <3>2. CASE i = k
      BY <2>5, <3>1, <3>2 DEF First
    <3>3. CASE i # k
      BY <2>3, <2>4, <2>5, <3>1, <3>3
    <3>. QED
      BY <3>2, <3>3
  <2>7. h = [i \in k .. L + 1 |-> IF i >= L THEN End ELSE LookedAll(p, i, h[i + 1])]
    BY <2>5, <2>6
  <2>8. Upto(h, m) /\ m \in 0 .. L
    BY <2>2, <2>7 DEF k
  <2>. HIDE DEF Upto
  <2>. QED
    BY <2>8
<1>3. \E g : Upto(g, L)
  <2>1. L \in S
    <3>. HIDE DEF S
    <3>1. 0 .. L \subseteq S
      BY <1>1, <1>2, UpToSetInduction
    <3>. QED
      BY <3>1
  <2>. HIDE DEF Upto
  <2>. QED
    BY <2>1
<1>. DEFINE Is(g) == g = [i \in 1 .. L + 1 |-> IF i >= L THEN End ELSE LookedAll(p, i, g[i + 1])]
<1>4. \E g : Is(g)
  <2>1. (L + 1) - L = 1
    OBVIOUS
  <2>. HIDE DEF L, End
  <2>. QED
    BY <1>3, <2>1
<1>5. Is(GetOf(p))
  <2>1. GetOf(p) = CHOOSE g : Is(g)
    BY DEF GetOf, LookedAll, Looked
  <2>. HIDE DEF Is
  <2>. QED
    BY <1>4, <2>1
<1>6. \A b : GetValue(b, p) = GetOf(p)[1][b]
  BY DEF GetValue, GetOf
<1>7. \A i \in 1 .. Len(p) + 1 :
          GetOf(p)[i] = IF i >= Len(p) THEN End ELSE LookedAll(p, i, GetOf(p)[i + 1])
  <2>. HIDE DEF End
  <2>. QED
    BY <1>5
<1>. QED
  BY <1>6, <1>7

\* With one name or none it throws.
LEMMA GetShort ==
    ASSUME NEW p, Len(p) \in {0, 1}, NEW b \in Builders
    PROVE  GetValue(b, p) = Throws
<1>1. 1 \in 1 .. Len(p) + 1 /\ 1 >= Len(p)
  OBVIOUS
<1>2. Len(p) \in Nat
  OBVIOUS
<1>. QED
  BY <1>1, <1>2, GetUnfolds

\* The rest of a path.
LEMMA SubSeqBelow ==
    ASSUME NEW S, NEW p \in Seq(S), NEW i \in 1 .. Len(p) - 1
    PROVE  /\ p # <<>> /\ Tail(p)[i] = p[i + 1]
           /\ SubSeq(Tail(p), i + 1, Len(Tail(p))) = SubSeq(p, (i + 1) + 1, Len(p))
<1>. DEFINE q == Tail(p)
            n == Len(p)
<1>1. /\ n \in Nat /\ n > 1 /\ q \in Seq(S) /\ Len(q) = n - 1
      /\ \A k \in 1 .. n - 1 : q[k] = p[k + 1]
  OBVIOUS
<1>. HIDE DEF q, n
<1>2. SubSeq(q, i + 1, n - 1) = [k \in 1 .. (n - 1) - i |-> q[k + i]]
  BY <1>1
<1>3. SubSeq(p, (i + 1) + 1, n) = [k \in 1 .. (n - 1) - i |-> p[k + (i + 1)]]
  BY <1>1 DEF n
<1>4. \A k \in 1 .. (n - 1) - i : q[k + i] = p[k + (i + 1)]
  BY <1>1
<1>. QED
  BY <1>1, <1>2, <1>3, <1>4 DEF q, n

\* With more names, the first is looked up, and in a section the others from there.
LEMMA GetBelow ==
    ASSUME TypeOK, NEW S, NEW p \in Seq(S), Len(p) >= 2, NEW b \in Builders
    PROVE  LET x == p[1]
           IN  /\ Kind(b, x) = "k_section" => GetValue(b, p) = GetValue(sections[b][x], Tail(p))
               /\ Kind(b, x) = "k_value" => GetValue(b, p) = FieldAt(Find(d[b][x], Tail(p)))
               /\ Kind(b, x) = "k_none" => GetValue(b, p) = NoField
<1>. DEFINE x == p[1]
            q == Tail(p)
            n == Len(p)
            G == GetOf(p)
            H == GetOf(q)
            Same(i) == \A c \in Builders : G[i + 1][c] = H[i][c]
            Good == {m \in 0 .. n - 1 : Same(n - m)}
<1>1. n \in Nat /\ q \in Seq(S) /\ Len(q) = n - 1 /\ Len(q) \in Nat /\ n >= 2 /\ p # <<>>
  <2>1. p # <<>>
    OBVIOUS
  <2>. QED
    BY <2>1, PathBelow
<1>2. /\ \A c : GetValue(c, p) = G[1][c]
      /\ \A i \in 1 .. n + 1 : G[i] = IF i >= n THEN [c \in Builders |-> Throws]
                                      ELSE LookedAll(p, i, G[i + 1])
  BY <1>1, GetUnfolds
<1>3. /\ \A c : GetValue(c, q) = H[1][c]
      /\ \A i \in 1 .. Len(q) + 1 : H[i] = IF i >= Len(q) THEN [c \in Builders |-> Throws]
                                           ELSE LookedAll(q, i, H[i + 1])
  <2>. HIDE DEF q
  <2>. QED
    BY <1>1, GetUnfolds
<1>4. /\ \A i \in 1 .. n - 1 : q[i] = p[i + 1]
      /\ \A i \in 1 .. n - 1 :
            SubSeq(q, i + 1, Len(q)) = SubSeq(p, (i + 1) + 1, n)
  BY SubSeqBelow
<1>5. \A c \in Builders : \A y \in DOMAIN sections[c] : sections[c][y] \in Builders
  <2>1. \A c \in Builders : \A y \in DOMAIN sections[c] : <<c, sections[c][y]>> \in attached
    BY DEF TypeOK
  <2>2. attached \subseteq Builders \X Builders
    BY DEF TypeOK
  <2>. QED
    BY <2>1, <2>2
<1>6. \A c, y : Kind(c, y) = "k_section" => y \in DOMAIN sections[c]
  BY DEF Kind
<1>7. SubSeq(p, 1 + 1, n) = q
  BY <1>1
<1>. HIDE DEF q, n, G, H
<1>8. 0 \in Good
  <2>1. n + 1 \in 1 .. n + 1 /\ n \in 1 .. Len(q) + 1 /\ n + 1 >= n /\ n >= Len(q) /\ n - 0 = n
    BY <1>1
  <2>2. Same(n)
    BY <1>2, <1>3, <2>1
  <2>. QED
    BY <1>1, <2>1, <2>2
<1>9. ASSUME NEW m \in 1 .. n - 1, m - 1 \in Good PROVE m \in Good
  <2>. DEFINE i == n - m
  <2>1. /\ i \in 1 .. n - 1 /\ n - (m - 1) = i + 1 /\ m \in 0 .. n - 1
        /\ i + 1 \in 1 .. n + 1 /\ i \in 1 .. Len(q) + 1
        /\ (i + 1 >= n <=> i >= Len(q))
    BY <1>1
  <2>2. Same(i + 1)
    BY <1>9, <2>1
  <2>3. G[i + 1] = IF i + 1 >= n THEN [c \in Builders |-> Throws]
                   ELSE LookedAll(p, i + 1, G[(i + 1) + 1])
    BY <1>2, <2>1
  <2>4. H[i] = IF i >= Len(q) THEN [c \in Builders |-> Throws]
               ELSE LookedAll(q, i, H[i + 1])
    BY <1>3, <2>1
  <2>. HIDE DEF i
  <2>5. ASSUME NEW c \in Builders PROVE G[i + 1][c] = H[i][c]
    <3>1. CASE i >= Len(q)
      BY <2>1, <2>3, <2>4, <3>1
    <3>2. CASE ~(i >= Len(q))
      <4>1. G[i + 1][c] = Looked(c, p[i + 1], SubSeq(p, (i + 1) + 1, n), G[(i + 1) + 1])
        BY <2>1, <2>3, <3>2 DEF LookedAll, n
      <4>2. H[i][c] = Looked(c, p[i + 1], SubSeq(p, (i + 1) + 1, n), H[i + 1])
        BY <1>4, <2>1, <2>4, <3>2 DEF LookedAll
      <4>3. Looked(c, p[i + 1], SubSeq(p, (i + 1) + 1, n), G[(i + 1) + 1])
               = Looked(c, p[i + 1], SubSeq(p, (i + 1) + 1, n), H[i + 1])
        <5>1. CASE Kind(c, p[i + 1]) = "k_section"
          <6>1. sections[c][p[i + 1]] \in Builders
            BY <1>5, <1>6, <5>1
          <6>. QED
            BY <2>2, <5>1, <6>1 DEF Looked
        <5>2. CASE Kind(c, p[i + 1]) # "k_section"
          <6>1. Kind(c, p[i + 1]) \in {"k_value", "k_none"}
            BY <5>2 DEF Kind
          <6>. QED
            BY <6>1 DEF Looked
        <5>. QED
          BY <5>1, <5>2
      <4>. QED
        BY <4>1, <4>2, <4>3
    <3>. QED
      BY <3>1, <3>2
  <2>6. Same(n - m)
    BY <2>5 DEF i
  <2>. QED
    BY <2>1, <2>6
<1>10. Same(1)
  <2>. HIDE DEF Good
  <2>1. n - 1 \in Nat /\ n - (n - 1) = 1
    BY <1>1
  <2>2. 0 .. n - 1 \subseteq Good
    BY <1>8, <1>9, <2>1, UpToSetInduction
  <2>3. n - 1 \in Good
    BY <2>1, <2>2
  <2>. QED
    BY <2>1, <2>3 DEF Good
<1>11. GetValue(b, p) = Looked(b, x, q, G[2])
  <2>1. 1 \in 1 .. n + 1 /\ ~(1 >= n) /\ 1 + 1 = 2
    BY <1>1
  <2>2. G[1] = LookedAll(p, 1, G[2])
    BY <1>2, <2>1
  <2>. QED
    BY <1>2, <1>7, <2>2 DEF LookedAll, n
<1>12. CASE Kind(b, x) = "k_section"
  <2>1. sections[b][x] \in Builders
    BY <1>5, <1>6, <1>12
  <2>2. G[2][sections[b][x]] = H[1][sections[b][x]]
    BY <1>10, <2>1
  <2>3. GetValue(b, p) = G[2][sections[b][x]]
    BY <1>11, <1>12 DEF Looked
  <2>. QED
    BY <1>3, <1>12, <2>2, <2>3 DEF q
<1>13. CASE Kind(b, x) = "k_value"
  BY <1>11, <1>13 DEF Looked, q
<1>14. CASE Kind(b, x) = "k_none"
  BY <1>11, <1>14 DEF Looked, q
<1>. QED
  BY <1>12, <1>13, <1>14
-----------------------------------------------------------------------------
(***************************************************************************)
(* Paths that do not leave the sections.                                   *)
(***************************************************************************)

\* Where the sections lead from b along a path.
Leading(b, p) ==
    CHOOSE at : at = [i \in 0 .. Len(p) |->
        IF i = 0 THEN b
        ELSE LET c == at[i - 1] IN IF c = Null THEN Null ELSE GetSection(c, p[i])]

Led(c, x) == IF c = Null THEN Null ELSE GetSection(c, x)

\* One name leads to a builder, or nowhere.
LEMMA LedType ==
    ASSUME TypeOK, NEW c \in Builders \cup {Null}, NEW x
    PROVE  Led(c, x) \in Builders \cup {Null}
<1>1. CASE c # Null /\ Kind(c, x) = "k_section"
  <2>1. x \in DOMAIN sections[c]
    BY <1>1 DEF Kind
  <2>2. <<c, sections[c][x]>> \in attached /\ attached \subseteq Builders \X Builders
    BY <1>1, <2>1 DEF TypeOK
  <2>. QED
    BY <1>1, <2>2 DEF Led, GetSection
<1>. QED
  BY <1>1 DEF Led, GetSection

\* ThroughSections is about the last but one of these.
LEMMA ThroughLeading ==
    ASSUME NEW b, NEW p
    PROVE  ThroughSections(b, p) <=> (Len(p) <= 1 \/ Leading(b, p)[Len(p) - 1] # Null)
  BY DEF ThroughSections, Leading

\* The recursive function of ThroughSections, whose values are builders or Null.
LEMMA LeadingUnfolds ==
    ASSUME TypeOK, NEW b, NEW p, b \in Builders \cup {Null}, Len(p) \in Nat
    PROVE  /\ Leading(b, p)[0] = b
           /\ \A i \in 1 .. Len(p) : Leading(b, p)[i] = Led(Leading(b, p)[i - 1], p[i])
<1>. DEFINE n == Len(p)
            U == Builders \cup {Null}
            Step == [w \in U \X (1 .. n) |-> Led(w[1], p[w[2]])]
            Is(g) == g = [i \in 0 .. n |-> IF i = 0 THEN b ELSE Led(g[i - 1], p[i])]
<1>1. Step \in Steps(n, U)
  <2>1. \A c \in U, i \in 1 .. n : Led(c, p[i]) \in U
    BY LedType
  <2>. HIDE DEF U, n
  <2>. QED
    BY <2>1 DEF Steps
<1>2. PICK g : Unfolds(g, n, U, b, Step)
  <2>1. b \in U /\ n \in Nat
    OBVIOUS
  <2>. HIDE DEF U, n, Step
  <2>. QED
    BY <1>1, <2>1, RecursiveFunction
<1>3. Is(g)
  <2>1. /\ g \in [0 .. n -> U] /\ g[0] = b
        /\ \A i \in 1 .. n : g[i] = Step[<<g[i - 1], i>>]
    BY <1>2 DEF Unfolds
  <2>2. /\ \A i \in 1 .. n : i - 1 \in 0 .. n
        /\ \A i \in 0 .. n : i # 0 => i \in 1 .. n
    OBVIOUS
  <2>. HIDE DEF n, U
  <2>3. \A i \in 1 .. n : g[i] = Led(g[i - 1], p[i])
    BY <2>1, <2>2
  <2>. QED
    BY <2>1, <2>2, <2>3
<1>4. Is(Leading(b, p))
  <2>1. Leading(b, p) = CHOOSE h : Is(h)
    BY DEF Leading, Led
  <2>. HIDE DEF Is
  <2>. QED
    BY <1>3, <2>1
<1>5. 0 \in 0 .. n /\ \A i \in 1 .. n : i \in 0 .. n /\ i # 0
  OBVIOUS
<1>. QED
  BY <1>4, <1>5

\* Nothing leads on from where there is no section.
LEMMA LeadingNowhere ==
    ASSUME TypeOK, NEW p, Len(p) \in Nat, NEW i \in 0 .. Len(p)
    PROVE  Leading(Null, p)[i] = Null
<1>. DEFINE Good == {k \in 0 .. Len(p) : Leading(Null, p)[k] = Null}
<1>1. /\ Leading(Null, p)[0] = Null
      /\ \A k \in 1 .. Len(p) : Leading(Null, p)[k] = Led(Leading(Null, p)[k - 1], p[k])
  <2>1. Null \in Builders \cup {Null}
    OBVIOUS
  <2>. HIDE DEF Good
  <2>. QED
    BY <2>1, LeadingUnfolds
<1>2. 0 \in Good
  BY <1>1
<1>3. ASSUME NEW k \in 1 .. Len(p), k - 1 \in Good PROVE k \in Good
  BY <1>1, <1>3 DEF Led
<1>4. 0 .. Len(p) \subseteq Good
  <2>. HIDE DEF Good
  <2>. QED
    BY <1>2, <1>3, UpToSetInduction
<1>. QED
  BY <1>4

\* A path leads through sections if its first name leads to one, from where the others do.
LEMMA ThroughBelow ==
    ASSUME TypeOK, NEW S, NEW p \in Seq(S), Len(p) >= 2, NEW b \in Builders
    PROVE  LET c == GetSection(b, p[1])
           IN  ThroughSections(b, p) <=> c # Null /\ ThroughSections(c, Tail(p))
<1>. DEFINE c == GetSection(b, p[1])
            q == Tail(p)
            n == Len(p)
            G == Leading(b, p)
            H == Leading(c, q)
            Good == {i \in 0 .. n - 1 : G[i + 1] = H[i]}
<1>1. /\ n \in Nat /\ n >= 2 /\ Len(q) = n - 1 /\ Len(q) \in Nat
      /\ \A i \in 1 .. n - 1 : q[i] = p[i + 1]
  OBVIOUS
<1>2. b # Null /\ c = Led(b, p[1]) /\ c \in Builders \cup {Null}
  <2>1. b # Null
    BY BuilderAssumption
  <2>. QED
    BY <2>1, LedType DEF Led
<1>3. /\ ThroughSections(b, p) <=> (n <= 1 \/ G[n - 1] # Null)
      /\ G[0] = b /\ \A i \in 1 .. n : G[i] = Led(G[i - 1], p[i])
  BY <1>1, ThroughLeading, LeadingUnfolds
<1>4. /\ ThroughSections(c, q) <=> (Len(q) <= 1 \/ H[Len(q) - 1] # Null)
      /\ H[0] = c /\ \A i \in 1 .. Len(q) : H[i] = Led(H[i - 1], q[i])
  <2>1. c \in Builders \cup {Null} /\ Len(q) \in Nat
    BY <1>1, <1>2
  <2>. HIDE DEF c, q, n, G, H, Good
  <2>2. ThroughSections(c, q) <=> (Len(q) <= 1 \/ Leading(c, q)[Len(q) - 1] # Null)
    BY ThroughLeading
  <2>3. /\ Leading(c, q)[0] = c
        /\ \A i \in 1 .. Len(q) : Leading(c, q)[i] = Led(Leading(c, q)[i - 1], q[i])
    BY <2>1, LeadingUnfolds
  <2>. QED
    BY <2>2, <2>3 DEF H
<1>5. c = Null => \A i \in 0 .. Len(q) : H[i] = Null
  <2>. HIDE DEF c, q
  <2>. QED
    BY <1>1, LeadingNowhere
<1>. HIDE DEF c, q, n, G, H
<1>6. 0 \in Good
  <2>1. 1 \in 1 .. n /\ 0 \in 0 .. n - 1 /\ 0 + 1 = 1 /\ 1 - 1 = 0
    BY <1>1
  <2>2. G[1] = Led(G[1 - 1], p[1])
    BY <1>3, <2>1
  <2>. QED
    BY <1>2, <1>3, <1>4, <2>1, <2>2
<1>7. ASSUME NEW i \in 1 .. n - 1, i - 1 \in Good PROVE i \in Good
  <2>1. i + 1 \in 1 .. n /\ (i + 1) - 1 = i /\ (i - 1) + 1 = i /\ i \in 0 .. n - 1
    BY <1>1
  <2>2. G[i + 1] = Led(G[i], p[i + 1])
    BY <1>3, <2>1
  <2>3. H[i] = Led(H[i - 1], p[i + 1])
    BY <1>1, <1>4
  <2>4. G[i] = H[i - 1]
    BY <1>7, <2>1
  <2>. QED
    BY <2>1, <2>2, <2>3, <2>4
<1>8. 0 .. n - 1 \subseteq Good
  <2>. HIDE DEF Good
  <2>1. n - 1 \in Nat
    BY <1>1
  <2>. QED
    BY <1>6, <1>7, <2>1, UpToSetInduction
<1>9. G[n - 1] = H[n - 2]
  <2>1. n - 2 \in 0 .. n - 1 /\ (n - 2) + 1 = n - 1
    BY <1>1
  <2>. QED
    BY <1>8, <2>1
<1>10. Len(q) - 1 = n - 2 /\ n - 2 \in 0 .. Len(q) /\ (Len(q) <= 1 <=> n = 2)
  BY <1>1
<1>11. ThroughSections(b, p) <=> c # Null /\ ThroughSections(c, q)
  <2>1. CASE c = Null
    BY <1>1, <1>3, <1>5, <1>9, <1>10, <2>1
  <2>2. CASE c # Null /\ n = 2
    BY <1>1, <1>3, <1>4, <1>9, <1>10, <2>2
  <2>3. CASE c # Null /\ n # 2
    BY <1>1, <1>3, <1>4, <1>9, <1>10, <2>3
  <2>. QED
    BY <2>1, <2>2, <2>3
<1>. QED
  BY <1>11 DEF c, q
-----------------------------------------------------------------------------
(***************************************************************************)
(* The lookup agrees with the message.                                     *)
(***************************************************************************)

\* What get_value returns, when the message of b is j.
Agrees(b, p, j) ==
    GetValue(b, p) = IF ThroughSections(b, p) THEN Throws ELSE FieldAt(Find(j, p))

\* With one name less to look up and one level less to flatten, they agree in a
\* section if they do below it, and in a field in any case.
LEMMA AgreesBelow ==
    ASSUME TypeOK, NEW b \in Builders, NEW p \in Seq(STRING), NEW below,
           \A x \in DOMAIN sections[b], q \in Seq(STRING) :
              Agrees(sections[b][x], q, below[sections[b][x]])
    PROVE  Agrees(b, p, Merged(d[b], sections[b], below))
<1>. DEFINE x == p[1]
            j == Merged(d[b], sections[b], below)
<1>1. Len(p) \in Nat
  OBVIOUS
<1>2. CASE Len(p) <= 1
  <2>1. Len(p) \in {0, 1}
    <3>1. \A n \in Nat : n <= 1 => n \in {0, 1}
      OBVIOUS
    <3>. QED
      BY <1>1, <1>2, <3>1
  <2>2. GetValue(b, p) = Throws
    BY <2>1, GetShort
  <2>3. ThroughSections(b, p)
    BY <1>2 DEF ThroughSections
  <2>. QED
    BY <2>2, <2>3 DEF Agrees
<1>3. CASE Len(p) >= 2
  <2>1. p # <<>> /\ Tail(p) \in Seq(STRING)
    BY <1>3
  <2>2. GetSection(b, x) = IF Kind(b, x) = "k_section" THEN sections[b][x] ELSE Null
    BY DEF GetSection
  <2>3. ThroughSections(b, p) <=>
            GetSection(b, x) # Null /\ ThroughSections(GetSection(b, x), Tail(p))
    BY <1>3, ThroughBelow
  <2>4. CASE Kind(b, x) = "k_section"
    <3>1. x \in DOMAIN sections[b]
      BY <2>4 DEF Kind
    <3>2. sections[b][x] \in Builders /\ sections[b][x] # Null
      <4>1. <<b, sections[b][x]>> \in attached /\ attached \subseteq Builders \X Builders
        BY <3>1 DEF TypeOK
      <4>. QED
        BY <4>1, BuilderAssumption
    <3>3. Agrees(sections[b][x], Tail(p), below[sections[b][x]])
      BY <2>1, <3>1
    <3>4. GetValue(b, p) = GetValue(sections[b][x], Tail(p))
      BY <1>3, <2>4, GetBelow
    <3>5. Find(j, p) = Find(below[sections[b][x]], Tail(p))
      BY <2>1, <3>1, FindInMerged
    <3>6. ThroughSections(b, p) <=> ThroughSections(sections[b][x], Tail(p))
      BY <2>2, <2>3, <2>4, <3>2
    <3>. QED
      BY <3>3, <3>4, <3>5, <3>6 DEF Agrees
  <2>5. CASE Kind(b, x) = "k_value"
    <3>1. x \in DOMAIN d[b] \ DOMAIN sections[b]
      BY <2>5 DEF Kind
    <3>2. GetValue(b, p) = FieldAt(Find(d[b][x], Tail(p)))
      BY <1>3, <2>5, GetBelow
    <3>3. Find(j, p) = Find(d[b][x], Tail(p))
      BY <2>1, <3>1, FindInMerged
    <3>4. ~ThroughSections(b, p)
      BY <2>2, <2>3, <2>5
    <3>. QED
      BY <3>2, <3>3, <3>4 DEF Agrees
  <2>6. CASE Kind(b, x) = "k_none"
    <3>1. x \notin DOMAIN d[b] \cup DOMAIN sections[b]
      BY <2>6 DEF Kind
    <3>2. GetValue(b, p) = NoField
      BY <1>3, <2>6, GetBelow
    <3>3. Find(j, p) = Missing
      BY <2>1, <3>1, FindInMerged
    <3>4. ~ThroughSections(b, p)
      BY <2>2, <2>3, <2>6
    <3>. QED
      BY <3>2, <3>3, <3>4 DEF Agrees, FieldAt
  <2>. QED
    BY <2>4, <2>5, <2>6 DEF Kind
<1>. QED
  BY <1>1, <1>2, <1>3

\* By induction on the depth, for the builders that lead to no more builders than that.
LEMMA FlattenAgrees ==
    ASSUME TypeOK, NEW b \in Builders, Acyclic(b), NEW p \in Seq(STRING)
    PROVE  Agrees(b, p, Flatten(b))
<1>. DEFINE F == FlatOf(d, sections)
            Good == {n \in 0 .. N :
                       \A c \in Builders, q \in Seq(STRING) :
                          Acyclic(c) /\ Cardinality(Reach(c)) <= n => Agrees(c, q, F[n][c])}
<1>1. /\ \A n \in 1 .. N, c \in Builders : F[n][c] = Merged(d[c], sections[c], F[n - 1])
      /\ Flatten(b) = F[N][b]
  BY FlatUnfolds, FlattenIsFlat
<1>. HIDE DEF F
<1>2. \A c \in Builders : Cardinality(Reach(c)) \in 1 .. N
  <2>. SUFFICES ASSUME NEW c \in Builders PROVE Cardinality(Reach(c)) \in 1 .. N
    OBVIOUS
  <2>1. Reach(c) \subseteq Builders /\ c \in Reach(c)
    BY ReachType
  <2>2. /\ IsFiniteSet(Reach(c)) /\ Cardinality(Reach(c)) <= N
        /\ Cardinality(Reach(c)) \in Nat
    BY <2>1, BuilderAssumption, FS_Subset, FS_CardinalityType DEF N
  <2>3. Cardinality(Reach(c)) # 0
    BY <2>1, <2>2, FS_EmptySet
  <2>. QED
    BY <2>2, <2>3, NType
<1>3. 0 \in Good
  <2>1. \A c \in Builders : ~(Cardinality(Reach(c)) <= 0)
    BY <1>2
  <2>. QED
    BY <2>1, NType
<1>4. ASSUME NEW n \in 1 .. N, n - 1 \in Good PROVE n \in Good
  <2>1. ASSUME NEW c \in Builders, NEW q \in Seq(STRING), Acyclic(c),
               Cardinality(Reach(c)) <= n
        PROVE  Agrees(c, q, F[n][c])
    <3>1. ASSUME NEW x \in DOMAIN sections[c], NEW r \in Seq(STRING)
          PROVE  Agrees(sections[c][x], r, F[n - 1][sections[c][x]])
      <4>1. <<c, sections[c][x]>> \in attached /\ sections[c][x] \in Builders
        <5>1. <<c, sections[c][x]>> \in attached /\ attached \subseteq Builders \X Builders
          BY DEF TypeOK
        <5>. QED
          BY <5>1
      <4>2. /\ Acyclic(sections[c][x])
            /\ Cardinality(Reach(sections[c][x])) < Cardinality(Reach(c))
            /\ Cardinality(Reach(sections[c][x])) \in Nat /\ Cardinality(Reach(c)) \in Nat
        BY <2>1, <4>1, SectionReachesLess
      <4>3. Cardinality(Reach(sections[c][x])) <= n - 1
        BY <2>1, <4>2, NType
      <4>. QED
        BY <1>4, <4>1, <4>2, <4>3
    <3>2. Agrees(c, q, Merged(d[c], sections[c], F[n - 1]))
      BY <3>1, AgreesBelow
    <3>. QED
      BY <1>1, <3>2
  <2>2. n \in 0 .. N
    BY NType
  <2>. QED
    BY <2>1, <2>2
<1>5. N \in Good
  <2>. HIDE DEF Good
  <2>1. 0 .. N \subseteq Good
    BY <1>3, <1>4, NType, UpToSetInduction
  <2>. QED
    BY <2>1, NType
<1>. QED
  BY <1>1, <1>2, <1>5

\* The lookup agrees in every state of the right types.
LEMMA LookupCorrect == TypeOK => LookupAgrees
<1>. SUFFICES ASSUME TypeOK, NEW b \in Builders, Acyclic(b), NEW p \in Paths
              PROVE  GetValue(b, p) = IF ThroughSections(b, p) THEN Throws
                                      ELSE FieldAt(Find(Flatten(b), p))
  BY DEF LookupAgrees
<1>1. p \in Seq(STRING)
  BY BuilderAssumption
<1>. QED
  BY <1>1, FlattenAgrees DEF Agrees

\* get_value and serialize agree on every path, however the builders are attached to
\* each other, as long as none leads back to itself.
THEOREM LookupAgreesAlways == Spec => []LookupAgrees
  BY TypeCorrect, LookupCorrect, PTL
-----------------------------------------------------------------------------
(***************************************************************************)
(* Scalars and arrays, read back as they were stored.                      *)
(***************************************************************************)

\* The lookup of a name finds the type it was made of.
LEMMA FromNameOf ==
    ASSUME NEW st \in Named
    PROVE  FromName(st) = st /\ FromName(ArrayName(st)) = st
<1>1. \A s \in Named : st \in {s, ArrayName(s)} => s = st
  BY NamesAssumption
<1>2. \A s \in Named : ArrayName(st) \in {s, ArrayName(s)} => s = st
  BY NamesAssumption
<1>. QED
  BY <1>1, <1>2 DEF FromName

\* The digits of a number are read as that number.
LEMMA FromDecimalOf ==
    ASSUME NEW x \in Data
    PROVE  FromDecimal(Decimal(x)) = x
  BY DataAssumption DEF FromDecimal

\* The parts of a complex number or a time are put together again.
LEMMA FromPairOf ==
    ASSUME NEW x \in Data, NEW kind
    PROVE  FromPair(kind, Array([i \in 1 .. 2 |-> Leaf(kind, Pair(x)[i])])) = x
<1>. DEFINE a(y) == [i \in 1 .. 2 |-> Leaf(kind, Pair(y)[i])]
            v == Array(a(x))
            IsPair(y) == v.k = "array" /\ v.e = a(y)
<1>1. v.k = "array" /\ v.e = a(x)
  BY DEF Array
<1>2. ASSUME NEW y \in Data, a(x) = a(y) PROVE y = x
  <2>1. ASSUME NEW i \in 1 .. 2 PROVE Pair(x)[i] = Pair(y)[i]
    <3>1. a(x)[i] = a(y)[i]
      BY <1>2
    <3>2. Leaf(kind, Pair(x)[i]) = Leaf(kind, Pair(y)[i])
      BY <3>1
    <3>. QED
      BY <3>2 DEF Leaf
  <2>2. \A z : Pair(z) = <<Pair(z)[1], Pair(z)[2]>>
    BY DEF Pair
  <2>3. Pair(x)[1] = Pair(y)[1] /\ Pair(x)[2] = Pair(y)[2]
    BY <2>1
  <2>4. Pair(x) = Pair(y)
    BY <2>2, <2>3
  <2>. QED
    BY <2>4, DataAssumption
<1>3. \A y \in Data : IsPair(y) <=> y = x
  <2>. HIDE DEF a, v
  <2>. QED
    BY <1>1, <1>2
<1>4. FromPair(kind, v) = IF \E y \in Data : IsPair(y) THEN CHOOSE y \in Data : IsPair(y) ELSE Zero
  BY DEF FromPair
<1>. HIDE DEF IsPair
<1>. QED
  BY <1>3, <1>4

\* get_scalar gives back what add stores, by the groups of types.
LEMMA ScalarBack ==
    ASSUME NEW st \in PointerTypes, NEW x \in Data
    PROVE  GetScalar(st, StoredValue(st, x)) = Field(st, "", 1, x)
<1>. USE DEF Signed, Unsigned, Strings, Complex, Times, Characters
<1>1. CASE st = "uint64"
  <2>1. StoredValue(st, x) = Text(Decimal(x))
    BY <1>1 DEF StoredValue
  <2>2. Text(Decimal(x)).k = "string" /\ Text(Decimal(x)).v = Decimal(x)
    BY DEF Text, Leaf
  <2>. QED
    BY <1>1, <2>1, <2>2, FromDecimalOf DEF GetScalar
<1>2. CASE st \in Complex \cup Times
  <2>. DEFINE kind == IF st \in Times THEN "int64" ELSE "double"
  <2>1. StoredKind(st) = kind
    BY <1>2 DEF StoredKind
  <2>2. StoredValue(st, x) = Array([i \in 1 .. 2 |-> Leaf(kind, Pair(x)[i])])
    BY <1>2, <2>1 DEF StoredValue
  <2>3. FromPair(kind, StoredValue(st, x)) = x
    BY <2>2, FromPairOf
  <2>. HIDE DEF kind
  <2>4. GetScalar(st, StoredValue(st, x)) = Field(st, "", 1, FromPair(kind, StoredValue(st, x)))
    BY <1>2 DEF GetScalar, kind
  <2>. QED
    BY <2>3, <2>4
<1>3. CASE st \notin {"uint64"} \cup Complex \cup Times
  <2>1. StoredValue(st, x) = Leaf(StoredKind(st), x)
    BY <1>3 DEF StoredValue
  <2>2. StoredValue(st, x).k = StoredKind(st) /\ StoredValue(st, x).v = x
    BY <2>1 DEF Leaf
  <2>3. CASE st \in Strings
    <3>1. StoredKind(st) = "string"
      BY <2>3 DEF StoredKind
    <3>. QED
      BY <2>2, <2>3, <3>1 DEF GetScalar
  <2>4. CASE st \notin Strings
    <3>1. st \in {"bool", "char", "char16", "char32", "uint8", "uint16", "uint32",
                  "epoch", "f32", "f64"} \cup Signed
      BY <1>3, <2>4 DEF PointerTypes, AddTypes
    <3>2. AskedKind(st) = StoredKind(st)
      BY <3>1 DEF AskedKind, StoredKind
    <3>. QED
      BY <2>2, <3>1, <3>2 DEF GetScalar
  <2>. QED
    BY <2>3, <2>4
<1>. QED
  BY <1>1, <1>2, <1>3

\* A field is found in whatever it is added to.
LEMMA FindAdded ==
    ASSUME NEW f, NEW j
    PROVE  Find(Obj(With(f, "field", j)), <<"field">>) = j
<1>. DEFINE o == Obj(With(f, "field", j))
<1>1. Child(o, "field") = j
  BY DEF Child, Obj, With
<1>2. Len(<<"field">>) = 1 /\ <<"field">>[1] = "field" /\ 1 \in 1 .. 1 /\ 1 - 1 = 0
  OBVIOUS
<1>. HIDE DEF o
<1>3. Find(o, <<"field">>) = Child(o, "field")
  BY <1>2, AlongUnfolds
<1>. QED
  BY <1>1, <1>3 DEF o

\* Every type that is read back has a row in the table of names.
LEMMA PointerTypesNamed == PointerTypes \subseteq Named /\ ArrayTypes \subseteq Named
  BY DEF PointerTypes, AddTypes, ArrayTypes, Named, ScalarTypes, Signed, Unsigned, Strings,
         Complex, Times, Characters, Wide

\* No such name is empty.
LEMMA NamesNotEmpty ==
    ASSUME NEW st \in Named
    PROVE  NameOf(st) = st /\ st # "" /\ ArrayName(st) # ""
<1>1. st \in ScalarTypes
  BY DEF Named
<1>2. st # ""
  BY <1>1 DEF ScalarTypes, Signed, Unsigned, Strings, Complex, Times, Characters, Wide
<1>. QED
  BY <1>1, <1>2, NamesAssumption DEF NameOf

\* Every scalar that add stores is read back as it was, whatever else there is.
LEMMA ScalarReadBack ==
    ASSUME NEW f, NEW st \in PointerTypes, NEW x \in Data
    PROVE  FieldAt(Find(Obj(With(f, "field", Stored(st, x))), <<"field">>))
              = Field(st, "", 1, x)
<1>. DEFINE j == Stored(st, x)
<1>1. /\ j.k = "object" /\ DOMAIN j.m = {"type", "value"}
      /\ j.m.type = Text(NameOf(st)) /\ j.m.value = StoredValue(st, x)
  BY DEF Stored, Obj
<1>2. st \in Named /\ NameOf(st) = st /\ st # "" /\ FromName(st) = st
  BY PointerTypesNamed, NamesNotEmpty, FromNameOf
<1>3. Text(st).k = "string" /\ Text(st).v = st
  BY DEF Text, Leaf
<1>. HIDE DEF j
<1>4. AsField(j) = GetScalar(st, StoredValue(st, x))
  BY <1>1, <1>2, <1>3 DEF AsField, IsTyped
<1>5. FieldAt(j) = AsField(j)
  BY <1>1 DEF FieldAt, Missing
<1>. QED
  BY <1>4, <1>5, FindAdded, ScalarBack DEF j

\* Every scalar that add stores is read back as it was, in any builder.
THEOREM ScalarsRoundTripAlways == Spec => []ScalarsRoundTrip
<1>1. ScalarsRoundTrip
  <2>. SUFFICES ASSUME NEW b \in Builders, NEW st \in PointerTypes, NEW x \in Data
                PROVE  LET f == FieldAt(Find(Obj(With(d[b], "field", Stored(st, x))), <<"field">>))
                       IN  f.st = st /\ f.count = 1 /\ f.data = x
    BY DEF ScalarsRoundTrip
  <2>. DEFINE f == FieldAt(Find(Obj(With(d[b], "field", Stored(st, x))), <<"field">>))
  <2>1. f = Field(st, "", 1, x)
    BY ScalarReadBack
  <2>. HIDE DEF f
  <2>2. f.st = st /\ f.count = 1 /\ f.data = x
    BY <2>1 DEF Field
  <2>. QED
    BY <2>2 DEF f
<1>. QED
  BY <1>1, PTL

\* An element of an array is read back as it was, save a char16_t.
LEMMA ElementBack ==
    ASSUME NEW st \in ArrayTypes \ {"char16"}, NEW x \in Data
    PROVE  GetElement(st, StoredElement(st, x)) = x
<1>. USE DEF Signed, Unsigned, Strings, Complex, Times, Characters
<1>1. CASE st = "uint64"
  <2>1. StoredElement(st, x) = Text(Decimal(x))
    BY <1>1 DEF StoredElement
  <2>2. Text(Decimal(x)).k = "string" /\ Text(Decimal(x)).v = Decimal(x)
    BY DEF Text, Leaf
  <2>. QED
    BY <1>1, <2>1, <2>2, FromDecimalOf DEF GetElement
<1>2. CASE st # "uint64"
  <2>1. StoredElement(st, x) = Leaf(StoredKind(st), x)
    BY <1>2 DEF StoredElement, ElementKind
  <2>2. StoredElement(st, x).k = StoredKind(st) /\ StoredElement(st, x).v = x
    BY <2>1 DEF Leaf
  <2>3. CASE st = "bool"
    BY <2>2, <2>3 DEF GetElement, StoredKind
  <2>4. CASE st \in {"cstr", "json_str"}
    BY <2>2, <2>4 DEF GetElement, StoredKind
  <2>5. CASE st \notin {"bool", "cstr", "json_str"}
    <3>1. st \in {"f32", "f64", "char", "char32", "uint8", "uint16", "uint32"} \cup Signed
      BY <1>2, <2>5 DEF ArrayTypes
    <3>2. Representation(st) = StoredKind(st)
      BY <3>1 DEF Representation, StoredKind
    <3>3. GetElement(st, StoredElement(st, x)) =
              IF StoredElement(st, x).k = Representation(st) THEN StoredElement(st, x).v ELSE Zero
      BY <3>1 DEF GetElement
    <3>. QED
      BY <2>2, <3>2, <3>3
  <2>. QED
    BY <2>3, <2>4, <2>5
<1>. QED
  BY <1>1, <1>2

\* The same of arrays, of any length.
LEMMA ArrayReadBack ==
    ASSUME NEW f, NEW st \in ArrayTypes \ {"char16"}, NEW xs \in Seq(Data), NEW container
    PROVE  FieldAt(Find(Obj(With(f, "field", StoredArray(st, xs, container))), <<"field">>))
              = Field(st, container, Len(xs), xs)
<1>. DEFINE j == StoredArray(st, xs, container)
            e == [i \in DOMAIN xs |-> StoredElement(st, xs[i])]
<1>1. /\ j.k = "object" /\ DOMAIN j.m = {"type", "container_type", "value"}
      /\ j.m.type = Text(ArrayName(st)) /\ j.m.container_type = Text(container)
      /\ j.m.value = Array(e)
  BY DEF StoredArray, Obj
<1>2. st \in Named /\ ArrayName(st) # "" /\ FromName(ArrayName(st)) = st
  BY PointerTypesNamed, NamesNotEmpty, FromNameOf
<1>3. \A u : Text(u).k = "string" /\ Text(u).v = u
  BY DEF Text, Leaf
<1>4. Array(e).k = "array" /\ Array(e).e = e
  BY DEF Array
<1>5. /\ Len(xs) \in Nat /\ DOMAIN xs = 1 .. Len(xs) /\ \A i \in 1 .. Len(xs) : xs[i] \in Data
      /\ xs = [i \in 1 .. Len(xs) |-> xs[i]]
  OBVIOUS
<1>6. /\ Len(e) = Len(xs)
      /\ \A i \in 1 .. Len(xs) : e[i] = StoredElement(st, xs[i])
  BY <1>5
<1>. HIDE DEF j, e
<1>7. AsField(j) = GetArray(st, container, Array(e))
  <2>1. IsTyped(j) /\ j.m.type.k = "string" /\ j.m.type.v = ArrayName(st)
    BY <1>1, <1>2, <1>3 DEF IsTyped
  <2>2. /\ "container_type" \in DOMAIN j.m
        /\ j.m.container_type.k = "string" /\ j.m.container_type.v = container
    BY <1>1, <1>3
  <2>3. AsField(j) = GetArray(FromName(j.m.type.v), j.m.container_type.v, j.m.value)
    BY <1>1, <2>1, <2>2 DEF AsField
  <2>. QED
    BY <1>1, <1>2, <2>1, <2>2, <2>3
<1>8. GetArray(st, container, Array(e)) =
          Field(st, container, Len(e), [i \in 1 .. Len(e) |-> GetElement(st, e[i])])
  BY <1>4 DEF GetArray
<1>9. [i \in 1 .. Len(e) |-> GetElement(st, e[i])] = xs
  <2>1. \A i \in 1 .. Len(xs) : GetElement(st, e[i]) = xs[i]
    BY <1>5, <1>6, ElementBack
  <2>. QED
    BY <1>5, <1>6, <2>1
<1>10. FieldAt(j) = AsField(j)
  BY <1>1 DEF FieldAt, Missing
<1>. QED
  BY <1>6, <1>7, <1>8, <1>9, <1>10, FindAdded DEF j

\* Arrays of every type but char16_t are read back as they were, in any builder.
THEOREM ArraysRoundTripAlways == Spec => []ArraysRoundTrip
<1>1. ArraysRoundTrip
  <2>. SUFFICES ASSUME NEW b \in Builders, NEW st \in ArrayTypes \ {"char16"},
                       NEW x \in Data, NEW y \in Data
                PROVE  LET j == StoredArray(st, <<x, y>>, "vector")
                           f == FieldAt(Find(Obj(With(d[b], "field", j)), <<"field">>))
                       IN  f.st = st /\ f.container = "vector" /\ f.count = 2 /\ f.data = <<x, y>>
    BY DEF ArraysRoundTrip
  <2>1. <<x, y>> \in Seq(Data) /\ Len(<<x, y>>) = 2
    OBVIOUS
  <2>2. FieldAt(Find(Obj(With(d[b], "field", StoredArray(st, <<x, y>>, "vector"))), <<"field">>))
           = Field(st, "vector", 2, <<x, y>>)
    BY <2>1, ArrayReadBack
  <2>. QED
    BY <2>2 DEF Field
<1>. QED
  BY <1>1, PTL
=============================================================================

------------------------ MODULE MultiPublisherProofs ------------------------
(***************************************************************************)
(* Proofs about MultiPublisher for any number of objects, entries and      *)
(* names.                                                                  *)
(***************************************************************************)
EXTENDS MultiPublisher, FiniteSetTheorems, TLAPS

(***************************************************************************)
(* The inductive invariant.  What the factory made can be reached through  *)
(* one entry of one multi_publisher and by nobody else, so that only       *)
(* terminate, pause and resume of that one change it.                      *)
(***************************************************************************)

States == [kind : AllKinds \cup {"absent"}, phase : Phases, paused : BOOLEAN]
CallType == [op : {"idle", "make", "publish"}, mp : Multis \cup {NoMulti},
             names : NameLists \cup {<<>>}, next : Nat \ {0}, err : Nat]

Types ==
    /\ obj \in [Objects -> States]
    /\ handles \subseteq Objects
    /\ pvec \in [Multis -> Seq(Objects)]
    /\ call \in CallType
    /\ tag \in {"ADC", "program"}
    /\ heard \subseteq Nat
    /\ made \subseteq Objects /\ hushed \subseteq Multis
    /\ destroyed \in BOOLEAN /\ misnamed \in BOOLEAN

\* An object that does not exist is nowhere, and nobody holds one in vain.
ExistsIffHeld ==
    \A o \in Objects :
        obj[o].kind # "absent" <=>
            \/ o \in handles
            \/ \E x \in Multis : \E i \in DOMAIN pvec[x] : pvec[x][i] = o

\* A loop in progress has a multi_publisher to work on; the one that the factory
\* fills holds what the factory made and is not paused.
CallSound ==
    /\ call.op # "idle" => call.mp \in Multis
    /\ call.op = "make" => call.mp \notin hushed

MadeExist == \A o \in made : obj[o].kind # "absent"

\* The log is open under its name while a syslog publisher exists, until one is
\* destroyed.
LogOpen ==
    ~destroyed => /\ ~misnamed
                  /\ \A o \in Objects : obj[o].kind = "syslog" => tag = "ADC"

IInv ==
    /\ Types
    /\ ExistsIffHeld
    /\ CallSound
    /\ MadeExist
    /\ FactoryMembersRun
    /\ PauseHolds
    /\ LogOpen

LEMMA InitIInv == Init => IInv
<1>. SUFFICES ASSUME Init PROVE IInv
  OBVIOUS
<1>1. Absent \in States
  BY DEF Absent, States, Phases, AllKinds
<1>2. Idle \in CallType
  BY DEF Idle, CallType
<1>3. Types
  <2>1. <<>> \in Seq(Objects)
    OBVIOUS
  <2>2. obj \in [Objects -> States] /\ pvec \in [Multis -> Seq(Objects)]
    BY <1>1, <2>1 DEF Init
  <2>3. call \in CallType
    BY <1>2 DEF Init
  <2>4. heard \subseteq Nat
    BY DEF Init
  <2>. QED
    BY <2>2, <2>3, <2>4 DEF Init, Types
<1>4. ExistsIffHeld
  BY DEF Init, ExistsIffHeld, Absent
<1>5. CallSound /\ MadeExist /\ FactoryMembersRun /\ PauseHolds /\ LogOpen
  BY DEF Init, Idle, Absent, CallSound, MadeExist, FactoryMembersRun, PauseHolds, LogOpen
<1>. QED
  BY <1>3, <1>4, <1>5 DEF IInv

\* An answer keeps the kind of the object.
LEMMA Answers ==
    ASSUME NEW s \in States
    PROVE  /\ Configured(s) \in States /\ Configured(s).kind = s.kind
           /\ Finalized(s) \in States /\ Finalized(s).kind = s.kind
           /\ \A t \in Initialized(s) : t \in States /\ t.kind = s.kind
           /\ \A p \in BOOLEAN : Hushed(s, p) \in States /\ Hushed(s, p).kind = s.kind
  BY DEF Configured, Finalized, Initialized, Hushed, At, States, Phases

\* What a new object is when it is configured and initialized.
LEMMA NewObjects ==
    ASSUME NEW k \in AllKinds
    PROVE  /\ New(k) \in States /\ New(k).kind = k
           /\ Configured(New(k)) \in States /\ Configured(New(k)).kind = k
           /\ \A s \in Initialized(Configured(New(k))) :
                 /\ s \in States /\ s.kind = k
                 /\ k = "session" => s.phase \in {"running", "failed"}
<1>1. New(k) \in States /\ New(k).kind = k
  BY DEF New, States, Phases
<1>2. Configured(New(k)) \in States /\ Configured(New(k)).kind = k
  BY <1>1, Answers
<1>3. k = "session" => Configured(New(k)).phase = "configured"
  BY DEF New, Configured, At
<1>4. ASSUME NEW s \in Initialized(Configured(New(k))), k = "session"
      PROVE  s.phase \in {"running", "failed"}
  BY <1>2, <1>3, <1>4 DEF Initialized, At
<1>. QED
  BY <1>1, <1>2, <1>4, Answers

\* Held(h, v) spelled out.
LEMMA HeldIff ==
    ASSUME NEW h, NEW v, NEW o
    PROVE  o \in Held(h, v) <=>
             o \in h \/ \E x \in Multis : \E i \in DOMAIN v[x] : v[x][i] = o
  BY DEF Held, Range

\* Pointers go, and the objects in multi_publishers that are emptied may change:
\* all that is destroyed was unreachable for the rest.
LEMMA ReleaseStep ==
    ASSUME IInv,
           NEW h \in SUBSET handles, NEW v \in [Multis -> Seq(Objects)],
           NEW obs \in [Objects -> States],
           \A x \in Multis : v[x] = pvec[x] \/ v[x] = <<>>,
           \A o \in Objects : obs[o].kind = obj[o].kind,
           \A o \in Objects : obs[o] # obj[o] =>
              \E x \in Multis : v[x] = <<>> /\ \E i \in DOMAIN pvec[x] : pvec[x][i] = o,
           Release(h, v, obs, tag), hushed' \subseteq hushed,
           call' \in CallType, call'.op = "idle",
           UNCHANGED <<heard, misnamed>>
    PROVE  IInv'
<1>. DEFINE gone == {o \in Objects : obs[o].kind # "absent" /\ o \notin Held(h, v)}
            closes == \E o \in gone : obs[o].kind = "syslog"
<1>1. /\ handles' = h
      /\ pvec' = v
      /\ obj' = [o \in Objects |-> IF o \in gone THEN Absent ELSE obs[o]]
      /\ made' = made \ gone
      /\ tag' = IF closes THEN "program" ELSE tag
      /\ destroyed' = (destroyed \/ closes)
  BY DEF Release
<1>2. Absent \in States /\ Absent.kind = "absent"
  BY DEF Absent, States, Phases, AllKinds
<1>3. Types'
  <2>1. obj' \in [Objects -> States]
    BY <1>1, <1>2
  <2>2. tag' \in {"ADC", "program"} /\ destroyed' \in BOOLEAN
    BY <1>1 DEF IInv, Types
  <2>. QED
    BY <1>1, <2>1, <2>2 DEF IInv, Types, CallType
<1>4. ASSUME NEW o \in Objects, o \in Held(h, v)
      PROVE  obj[o].kind # "absent"
  <2>1. o \in handles \/ \E x \in Multis : \E i \in DOMAIN pvec[x] : pvec[x][i] = o
    BY <1>4, HeldIff
  <2>. QED
    BY <2>1 DEF IInv, ExistsIffHeld
<1>5. ExistsIffHeld'
  <2>. SUFFICES ASSUME NEW o \in Objects
                PROVE  obj'[o].kind # "absent" <=> o \in Held(h, v)
    BY <1>1, HeldIff DEF ExistsIffHeld
  <2>. QED
    BY <1>1, <1>2, <1>4
<1>6. CallSound'
  BY DEF CallSound
<1>7. ASSUME NEW o \in made'
      PROVE  o \in made /\ o \in Held(h, v) /\ o \in Objects /\ o \notin h
  BY <1>1, <1>7 DEF IInv, Types, MadeExist, FactoryMembersRun
<1>8. ASSUME NEW o \in made'
      PROVE  obj'[o] = obj[o]
  <2>1. PICK x \in Multis : \E i \in DOMAIN v[x] : v[x][i] = o
    BY <1>7, <1>8, HeldIff
  <2>2. v[x] = pvec[x] /\ v[x] # <<>>
    BY <2>1
  <2>3. ASSUME NEW y \in Multis, v[y] = <<>>, NEW j \in DOMAIN pvec[y], pvec[y][j] = o
        PROVE  FALSE
    BY <1>7, <1>8, <2>1, <2>2, <2>3 DEF IInv, FactoryMembersRun
  <2>4. obs[o] = obj[o]
    BY <1>7, <1>8, <2>3
  <2>. QED
    BY <1>1, <1>7, <1>8, <2>4
<1>9. MadeExist'
  BY <1>1, <1>7, <1>8 DEF IInv, MadeExist
<1>10. FactoryMembersRun'
  <2>1. ASSUME NEW o \in made'
        PROVE  (obj'[o].kind = "session" => obj'[o].phase = "running") /\ o \notin h
    BY <1>7, <1>8, <2>1 DEF IInv, FactoryMembersRun
  <2>2. ASSUME NEW o \in made', NEW x \in Multis, NEW y \in Multis,
               NEW i \in DOMAIN v[x], NEW j \in DOMAIN v[y],
               v[x][i] = o, v[y][j] = o
        PROVE  x = y /\ i = j
    <3>1. v[x] = pvec[x] /\ v[y] = pvec[y]
      BY <2>2
    <3>. QED
      BY <1>7, <2>2, <3>1 DEF IInv, FactoryMembersRun
  <2>. QED
    BY <1>1, <2>1, <2>2 DEF FactoryMembersRun
<1>11. PauseHolds'
  <2>. SUFFICES ASSUME NEW x \in hushed', NEW i \in DOMAIN v[x], v[x][i] \in made'
                PROVE  Quiet(obj'[v[x][i]])
    BY <1>1 DEF PauseHolds, Range
  <2>1. x \in Multis /\ x \in hushed
    BY DEF IInv, Types
  <2>2. v[x] = pvec[x]
    BY <2>1
  <2>3. v[x][i] \in Range(pvec[x]) \cap made
    BY <1>7, <2>2 DEF Range
  <2>. QED
    BY <1>8, <2>1, <2>3 DEF IInv, PauseHolds
<1>12. LogOpen'
  <2>. SUFFICES ASSUME ~destroyed'
                PROVE  ~misnamed' /\ \A o \in Objects : obj'[o].kind = "syslog" => tag' = "ADC"
    BY DEF LogOpen
  <2>1. ~destroyed /\ ~closes /\ tag' = tag
    BY <1>1
  <2>2. ASSUME NEW o \in Objects, obj'[o].kind = "syslog"
        PROVE  obj[o].kind = "syslog"
    BY <1>1, <1>2, <2>2
  <2>. QED
    BY <2>1, <2>2 DEF IInv, LogOpen
<1>. QED
  BY <1>3, <1>5, <1>6, <1>9, <1>10, <1>11, <1>12 DEF IInv

\* Objects answer calls; those the factory made keep their phase.
LEMMA AnswerStep ==
    ASSUME IInv, Free,
           obj' \in [Objects -> States],
           \A o \in Objects : obj'[o].kind = obj[o].kind,
           \A o \in made : obj'[o].phase = obj[o].phase,
           hushed' \subseteq Multis, PauseHolds',
           UNCHANGED <<handles, pvec, call, tag, heard, made, destroyed, misnamed>>
    PROVE  IInv'
<1>1. Types'
  BY DEF IInv, Types
<1>2. ExistsIffHeld' /\ LogOpen'
  BY DEF IInv, ExistsIffHeld, LogOpen
<1>3. CallSound'
  BY DEF IInv, CallSound, Free
<1>4. made \subseteq Objects
  BY DEF IInv, Types
<1>5. MadeExist' /\ FactoryMembersRun'
  BY <1>4 DEF IInv, MadeExist, FactoryMembersRun
<1>. QED
  BY <1>1, <1>2, <1>3, <1>5 DEF IInv

\* Objects, pointers and entries stay as they are.
LEMMA LoopStep ==
    ASSUME IInv,
           call' \in CallType, CallSound',
           heard' \subseteq Nat,
           hushed' \subseteq hushed,
           misnamed' \in BOOLEAN, ~destroyed => ~misnamed',
           UNCHANGED <<obj, handles, pvec, tag, made, destroyed>>
    PROVE  IInv'
<1>1. Types'
  BY DEF IInv, Types, CallType
<1>2. ExistsIffHeld' /\ MadeExist' /\ FactoryMembersRun' /\ PauseHolds'
  BY DEF IInv, ExistsIffHeld, MadeExist, FactoryMembersRun, PauseHolds
<1>3. LogOpen'
  BY DEF IInv, LogOpen
<1>. QED
  BY <1>1, <1>2, <1>3 DEF IInv

\* Going on with a loop.
LEMMA GoesOn ==
    ASSUME IInv, NEW e \in Nat, Goes(e)
    PROVE  call' \in CallType /\ (hushed' = hushed => CallSound')
  BY DEF IInv, Types, CallType, Goes, CallSound

LEMMA IdleSound ==
    ASSUME call' = Idle
    PROVE  call' \in CallType /\ CallSound'
  BY DEF Idle, CallType, CallSound

\* A message that is taken is logged under its name.
LEMMA TakenNamed ==
    ASSUME IInv, NEW o \in Objects, ~destroyed
    PROVE  ~(misnamed \/ (obj[o].kind = "syslog" /\ tag # "ADC"))
  BY DEF IInv, LogOpen

LEMMA PublishSteps ==
    ASSUME IInv,
           \/ \E x \in Multis : Publish(x) \/ \E names \in NameLists : GetMulti(x, names)
           \/ \E o \in Objects : PublishAlone(o)
           \/ MakeUnknown \/ MakeReturns
           \/ PublishQuiet \/ PublishTaken \/ PublishFailed \/ PublishThrows
           \/ PublishReturns
    PROVE  IInv'
<1>1. ASSUME NEW x \in Multis, Publish(x)
      PROVE  IInv'
  <2>1. call' \in CallType /\ CallSound'
    BY <1>1 DEF Publish, CallType, CallSound
  <2>. QED
    BY <1>1, <2>1, LoopStep DEF Publish, history, IInv, Types, LogOpen
<1>2. ASSUME NEW x \in Multis, NEW names \in NameLists, GetMulti(x, names)
      PROVE  IInv'
  <2>1. call' \in CallType /\ CallSound'
    BY <1>2 DEF GetMulti, CallType, CallSound
  <2>. QED
    BY <1>2, <2>1, LoopStep DEF GetMulti, IInv, Types, LogOpen
<1>3. ASSUME NEW o \in Objects, PublishAlone(o)
      PROVE  IInv'
  <2>1. call' \in CallType /\ CallSound'
    BY <1>3 DEF PublishAlone, IInv, Types, CallType, CallSound
  <2>2. ~destroyed => ~misnamed'
    BY <1>3, TakenNamed DEF PublishAlone
  <2>. QED
    BY <1>3, <2>1, <2>2, LoopStep DEF PublishAlone, IInv, Types
<1>4. CASE MakeUnknown
  <2>1. call' \in CallType /\ CallSound'
    BY <1>4, GoesOn DEF MakeUnknown, history
  <2>. QED
    BY <1>4, <2>1, LoopStep DEF MakeUnknown, history, IInv, Types, LogOpen
<1>5. CASE MakeReturns
  BY <1>5, IdleSound, LoopStep DEF MakeReturns, history, IInv, Types, LogOpen
<1>6. CASE PublishQuiet
  <2>1. call' \in CallType /\ CallSound'
    BY <1>6, GoesOn DEF PublishQuiet, history, IInv, Types, CallType
  <2>. QED
    BY <1>6, <2>1, LoopStep DEF PublishQuiet, history, IInv, Types, LogOpen
<1>7. CASE PublishTaken
  <2>1. call' \in CallType /\ CallSound'
    BY <1>7, GoesOn DEF PublishTaken, IInv, Types, CallType
  <2>2. Entry \in Objects
    BY <1>7 DEF PublishTaken, Publishing, Entry, IInv, Types, CallType, CallSound
  <2>3. heard' \subseteq Nat
    <3>1. call.next \in Nat /\ heard \subseteq Nat
      BY DEF IInv, Types, CallType
    <3>. QED
      BY <1>7, <3>1 DEF PublishTaken
  <2>4. ~destroyed => ~misnamed'
    BY <1>7, <2>2, TakenNamed DEF PublishTaken
  <2>. QED
    BY <1>7, <2>1, <2>3, <2>4, LoopStep DEF PublishTaken, IInv, Types
<1>8. CASE PublishFailed
  <2>1. call' \in CallType /\ CallSound'
    BY <1>8, GoesOn DEF PublishFailed, history, IInv, Types, CallType
  <2>. QED
    BY <1>8, <2>1, LoopStep DEF PublishFailed, history, IInv, Types, LogOpen
<1>9. CASE PublishThrows \/ PublishReturns
  <2>1. call' = Idle /\ heard' \subseteq Nat
    BY <1>9 DEF PublishThrows, PublishReturns
  <2>. QED
    BY <1>9, <2>1, IdleSound, LoopStep DEF PublishThrows, PublishReturns, IInv, Types, LogOpen
<1>. QED
  BY <1>1, <1>2, <1>3, <1>4, <1>5, <1>6, <1>7, <1>8, <1>9

LEMMA CallStep ==
    ASSUME IInv, NEW o \in Objects, CallPublisher(o)
    PROVE  IInv'
<1>1. PICK s \in Initialized(obj[o]) \cup {Configured(obj[o]), Finalized(obj[o])}
                 \cup {Hushed(obj[o], p) : p \in BOOLEAN} :
          obj' = [obj EXCEPT ![o] = s]
  BY DEF CallPublisher
<1>2. obj \in [Objects -> States]
  BY DEF IInv, Types
<1>3. s \in States /\ s.kind = obj[o].kind
  <2>1. obj[o] \in States
    BY <1>2
  <2>2. CASE s \in Initialized(obj[o])
    BY <2>1, <2>2, Answers
  <2>3. CASE s \in {Configured(obj[o]), Finalized(obj[o])}
    BY <2>1, <2>3, Answers
  <2>4. CASE \E p \in BOOLEAN : s = Hushed(obj[o], p)
    BY <2>1, <2>4, Answers
  <2>. QED
    BY <1>1, <2>2, <2>3, <2>4
<1>4. obj' \in [Objects -> States] /\ \A q \in Objects : obj'[q].kind = obj[q].kind
  BY <1>1, <1>2, <1>3
<1>5. o \notin made /\ made \subseteq Objects
  BY DEF CallPublisher, IInv, FactoryMembersRun, Types
<1>6. \A q \in made : obj'[q] = obj[q]
  BY <1>1, <1>2, <1>5
<1>7. PauseHolds'
  BY <1>6 DEF CallPublisher, history, IInv, PauseHolds
<1>. QED
  BY <1>4, <1>6, <1>7, AnswerStep DEF CallPublisher, history, IInv, Types

\* pause and resume reach the objects of x and no other.
LEMMA HushStep ==
    ASSUME IInv, NEW x \in Multis, Pause(x) \/ Resume(x)
    PROVE  IInv'
<1>1. PICK p \in BOOLEAN :
        /\ obj' = [o \in Objects |-> IF o \in Range(pvec[x])
                                     THEN Hushed(obj[o], p) ELSE obj[o]]
        /\ hushed' = IF p THEN hushed \cup {x} ELSE hushed \ {x}
  BY DEF Pause, Resume, ForAll
<1>2. obj \in [Objects -> States] /\ made \subseteq Objects /\ hushed \subseteq Multis
  BY DEF IInv, Types
<1>3. obj' \in [Objects -> States]
  BY <1>1, <1>2, Answers
<1>4. \A o \in Objects : obj'[o].kind = obj[o].kind /\ obj'[o].phase = obj[o].phase
  BY <1>1, <1>2 DEF Hushed, At
<1>5. UNCHANGED <<handles, pvec, call, tag, heard, made, destroyed, misnamed>>
  BY DEF Pause, Resume
<1>6. PauseHolds'
  <2>. SUFFICES ASSUME NEW y \in hushed', NEW o \in Range(pvec[y]), o \in made
                PROVE  Quiet(obj'[o])
    BY <1>5 DEF PauseHolds
  <2>1. y \in Multis /\ o \in Objects
    BY <1>1, <1>2
  <2>2. CASE o \in Range(pvec[x])
    <3>1. y = x
      BY <2>1, <2>2 DEF Range, IInv, FactoryMembersRun
    <3>2. p
      BY <1>1, <3>1
    <3>3. obj'[o] = Hushed(obj[o], TRUE)
      BY <1>1, <2>1, <2>2, <3>2
    <3>. QED
      BY <3>3 DEF Hushed, Quiet, At
  <2>3. CASE o \notin Range(pvec[x])
    <3>1. obj'[o] = obj[o] /\ y # x
      BY <1>1, <2>1, <2>3
    <3>2. y \in hushed
      BY <1>1, <3>1
    <3>. QED
      BY <3>1, <3>2 DEF IInv, PauseHolds
  <2>. QED
    BY <2>2, <2>3
<1>7. hushed' \subseteq Multis
  BY <1>1, <1>2
<1>. QED
  BY <1>2, <1>3, <1>4, <1>5, <1>6, <1>7, AnswerStep DEF Pause, Resume

\* What nobody may hold any more is given up.
LEMMA ReleaseSteps ==
    ASSUME IInv,
           \/ \E o \in Objects : DropPublisher(o)
           \/ \E x \in Multis : DropMulti(x) \/ Terminate(x)
           \/ MakeThrows
    PROVE  IInv'
<1>. /\ obj \in [Objects -> States]
     /\ pvec \in [Multis -> Seq(Objects)]
     /\ \A x \in Multis : [pvec EXCEPT ![x] = <<>>] \in [Multis -> Seq(Objects)]
  BY DEF IInv, Types
<1>1. ASSUME NEW o \in Objects, DropPublisher(o)
      PROVE  IInv'
  <2>1. Release(handles \ {o}, pvec, obj, tag)
    BY <1>1 DEF DropPublisher
  <2>2. call' \in CallType /\ call'.op = "idle"
    BY <1>1 DEF DropPublisher, Free, IInv, Types
  <2>. QED
    BY <1>1, <2>1, <2>2, ReleaseStep DEF DropPublisher
<1>2. ASSUME NEW x \in Multis, DropMulti(x)
      PROVE  IInv'
  <2>1. Release(handles, [pvec EXCEPT ![x] = <<>>], obj, tag)
    BY <1>2 DEF DropMulti
  <2>2. call' \in CallType /\ call'.op = "idle"
    BY <1>2 DEF DropMulti, Free, IInv, Types
  <2>. QED
    BY <1>2, <2>1, <2>2, ReleaseStep DEF DropMulti
<1>3. CASE MakeThrows
  <2>1. Release(handles, [pvec EXCEPT ![call.mp] = <<>>], obj, tag)
    BY <1>3 DEF MakeThrows
  <2>2. call.mp \in Multis
    BY <1>3 DEF MakeThrows, Making, IInv, CallSound
  <2>3. call' \in CallType /\ call'.op = "idle"
    BY <1>3 DEF MakeThrows, Idle, CallType
  <2>. QED
    BY <1>3, <2>1, <2>2, <2>3, ReleaseStep DEF MakeThrows
<1>4. ASSUME NEW x \in Multis, Terminate(x)
      PROVE  IInv'
  <2>. DEFINE v == [pvec EXCEPT ![x] = <<>>]
              obs == [o \in Objects |-> IF o \in Range(pvec[x])
                                        THEN Finalized(obj[o]) ELSE obj[o]]
  <2>1. Release(handles, v, obs, tag)
    BY <1>4 DEF Terminate, ForAll
  <2>2. call' \in CallType /\ call'.op = "idle"
    BY <1>4 DEF Terminate, Free, IInv, Types
  <2>3. obs \in [Objects -> States] /\ \A o \in Objects : obs[o].kind = obj[o].kind
    BY Answers
  <2>4. ASSUME NEW o \in Objects, obs[o] # obj[o]
        PROVE  \E y \in Multis : v[y] = <<>> /\ \E i \in DOMAIN pvec[y] : pvec[y][i] = o
    <3>1. o \in Range(pvec[x]) /\ v[x] = <<>>
      BY <2>4
    <3>. QED
      BY <3>1 DEF Range
  <2>5. \A y \in Multis : v[y] = pvec[y] \/ v[y] = <<>>
    OBVIOUS
  <2>6. hushed' \subseteq hushed /\ UNCHANGED <<heard, misnamed>>
    BY <1>4 DEF Terminate
  <2>7. v \in [Multis -> Seq(Objects)] /\ handles \in SUBSET handles
    OBVIOUS
  <2>8. \A o \in Objects : obs[o] # obj[o] =>
           \E y \in Multis : v[y] = <<>> /\ \E i \in DOMAIN pvec[y] : pvec[y][i] = o
    BY <2>4
  <2>. HIDE DEF v, obs
  <2>. QED
    BY ONLY IInv, <2>1, <2>2, <2>3, <2>5, <2>6, <2>7, <2>8, ReleaseStep, Zenon
<1>. QED
  BY <1>1, <1>2, <1>3, <1>4

\* An object that did not exist is in no set and has no entry.
LEMMA AbsentNowhere ==
    ASSUME IInv, NEW o \in Objects, obj[o].kind = "absent"
    PROVE  /\ o \notin handles /\ o \notin made
           /\ \A x \in Multis : \A i \in DOMAIN pvec[x] : pvec[x][i] # o
  BY DEF IInv, ExistsIffHeld, MadeExist

LEMMA GetStep ==
    ASSUME IInv, NEW o \in Objects, NEW k \in Kinds, GetPublisher(o, k)
    PROVE  IInv'
<1>1. PICK s \in {New(k), Configured(New(k))} : obj' = [obj EXCEPT ![o] = s]
  BY DEF GetPublisher
<1>2. /\ obj[o].kind = "absent"
      /\ handles' = handles \cup {o}
      /\ tag' = IF k = "syslog" THEN "ADC" ELSE tag
      /\ UNCHANGED <<pvec, call, heard, made, hushed, destroyed, misnamed>>
  BY DEF GetPublisher, Opened, history
<1>3. s \in States /\ s.kind = k /\ k # "absent"
  BY MultiAssumption, NewObjects DEF AllKinds
<1>4. obj \in [Objects -> States]
  BY DEF IInv, Types
<1>5. obj' \in [Objects -> States] /\ obj'[o] = s /\ \A q \in Objects : q # o => obj'[q] = obj[q]
  BY <1>1, <1>3, <1>4
<1>6. Types'
  BY <1>2, <1>5 DEF IInv, Types
<1>7. o \notin made /\ made \subseteq Objects /\ handles \subseteq Objects
  BY <1>2, AbsentNowhere DEF IInv, Types
<1>8. ExistsIffHeld'
  BY <1>2, <1>3, <1>5 DEF IInv, ExistsIffHeld
<1>9. CallSound' /\ MadeExist' /\ FactoryMembersRun'
  BY <1>2, <1>5, <1>7 DEF IInv, CallSound, MadeExist, FactoryMembersRun
<1>10. PauseHolds'
  BY <1>2, <1>5, <1>7 DEF IInv, PauseHolds
<1>11. LogOpen'
  BY <1>2, <1>3, <1>5 DEF IInv, LogOpen
<1>. QED
  BY <1>6, <1>8, <1>9, <1>10, <1>11 DEF IInv

\* The entries of x after o is added.
LEMMA Appended ==
    ASSUME NEW s \in Seq(Objects), NEW o \in Objects
    PROVE  /\ Append(s, o) \in Seq(Objects)
           /\ DOMAIN Append(s, o) = DOMAIN s \cup {Len(s) + 1}
           /\ Len(s) + 1 \notin DOMAIN s
           /\ Append(s, o)[Len(s) + 1] = o
           /\ \A i \in DOMAIN s : Append(s, o)[i] = s[i]
  OBVIOUS

LEMMA AddStep ==
    ASSUME IInv, NEW x \in Multis, NEW o \in Objects, Add(x, o)
    PROVE  IInv'
<1>1. /\ o \in handles /\ o \notin made
      /\ pvec' = [pvec EXCEPT ![x] = Append(pvec[x], o)]
      /\ hushed' = hushed \ {x}
      /\ UNCHANGED <<obj, handles, call, tag, heard, made, destroyed, misnamed>>
  BY DEF Add, IInv, FactoryMembersRun
<1>2. pvec \in [Multis -> Seq(Objects)]
  BY DEF IInv, Types
<1>3. Types'
  BY <1>1, <1>2, Appended DEF IInv, Types
<1>4. ASSUME NEW y \in Multis, NEW q \in Objects, q # o
      PROVE  \A i : i \in DOMAIN pvec'[y] /\ pvec'[y][i] = q <=>
                    i \in DOMAIN pvec[y] /\ pvec[y][i] = q
  BY <1>1, <1>2, <1>4, Appended
<1>5. ExistsIffHeld'
  <2>. SUFFICES ASSUME NEW q \in Objects
                PROVE  obj[q].kind # "absent" <=>
                         \/ q \in handles
                         \/ \E y \in Multis : \E i \in DOMAIN pvec'[y] : pvec'[y][i] = q
    BY <1>1 DEF ExistsIffHeld
  <2>1. CASE q = o
    BY <1>1, <2>1 DEF IInv, ExistsIffHeld
  <2>2. CASE q # o
    BY <1>1, <1>4, <2>2 DEF IInv, ExistsIffHeld
  <2>. QED
    BY <2>1, <2>2
<1>6. CallSound' /\ MadeExist' /\ LogOpen'
  BY <1>1 DEF IInv, CallSound, MadeExist, LogOpen
<1>7. made \subseteq Objects
  BY DEF IInv, Types
<1>8. FactoryMembersRun'
  <2>1. ASSUME NEW q \in made', NEW y \in Multis, NEW z \in Multis,
               NEW i \in DOMAIN pvec'[y], NEW j \in DOMAIN pvec'[z],
               pvec'[y][i] = q, pvec'[z][j] = q
        PROVE  y = z /\ i = j
    <3>1. q # o /\ q \in Objects /\ q \in made
      BY <1>1, <1>7
    <3>2. /\ i \in DOMAIN pvec[y] /\ pvec[y][i] = q
          /\ j \in DOMAIN pvec[z] /\ pvec[z][j] = q
      BY <1>4, <2>1, <3>1
    <3>. QED
      BY <3>1, <3>2 DEF IInv, FactoryMembersRun
  <2>2. ASSUME NEW q \in made'
        PROVE  (obj'[q].kind = "session" => obj'[q].phase = "running") /\ q \notin handles'
    BY <1>1 DEF IInv, FactoryMembersRun
  <2>. QED
    BY <2>1, <2>2 DEF FactoryMembersRun
<1>9. PauseHolds'
  BY <1>1, <1>2 DEF IInv, PauseHolds, Types
<1>. QED
  BY <1>3, <1>5, <1>6, <1>8, <1>9 DEF IInv

LEMMA MakeStep ==
    ASSUME IInv, NEW o \in Objects, MakePublisher(o)
    PROVE  IInv'
<1>. DEFINE x == call.mp
<1>1. PICK s \in Initialized(Configured(New(Name))) :
          \/ /\ s.phase # "failed"
             /\ obj' = [obj EXCEPT ![o] = s]
             /\ pvec' = [pvec EXCEPT ![x] = Append(pvec[x], o)]
             /\ made' = made \cup {o}
             /\ tag' = IF Name = "syslog" THEN "ADC" ELSE tag
          \/ s.phase = "failed" /\ UNCHANGED <<obj, pvec, made, tag>>
  BY DEF MakePublisher, Opened
<1>2. /\ obj[o].kind = "absent"
      /\ UNCHANGED <<handles, heard, hushed, destroyed, misnamed>>
      /\ Goes(0)
      /\ x \in Multis /\ x \notin hushed
  BY DEF MakePublisher, Making, IInv, CallSound
<1>3. call' \in CallType /\ CallSound'
  BY <1>2, GoesOn
<1>4. CASE s.phase = "failed" /\ UNCHANGED <<obj, pvec, made, tag>>
  BY <1>2, <1>3, <1>4, LoopStep DEF IInv, Types, LogOpen
<1>5. CASE /\ s.phase # "failed"
           /\ obj' = [obj EXCEPT ![o] = s]
           /\ pvec' = [pvec EXCEPT ![x] = Append(pvec[x], o)]
           /\ made' = made \cup {o}
           /\ tag' = IF Name = "syslog" THEN "ADC" ELSE tag
  <2>1. Name \in AllKinds
    <3>1. call.names \in Seq(AllKinds \cup {"unknown"}) /\ call.next \in 1..Len(call.names)
      BY MultiAssumption DEF MakePublisher, Making, IInv, Types, CallType
    <3>. QED
      BY <3>1 DEF MakePublisher, Name
  <2>2. s \in States /\ s.kind = Name /\ s.kind # "absent"
        /\ (s.kind = "session" => s.phase = "running")
    BY <1>5, <2>1, NewObjects DEF AllKinds
  <2>3. /\ obj \in [Objects -> States] /\ pvec \in [Multis -> Seq(Objects)]
        /\ made \subseteq Objects
    BY DEF IInv, Types
  <2>4. obj' \in [Objects -> States] /\ obj'[o] = s
        /\ \A q \in Objects : q # o => obj'[q] = obj[q]
    BY <1>5, <2>2, <2>3
  <2>5. Types'
    BY <1>2, <1>3, <1>5, <2>3, <2>4, Appended DEF IInv, Types
  <2>6. /\ o \notin handles /\ o \notin made
        /\ \A y \in Multis : \A i \in DOMAIN pvec[y] : pvec[y][i] # o
    BY <1>2, AbsentNowhere
  <2>7. ASSUME NEW y \in Multis, NEW q \in Objects, q # o
        PROVE  \A i : i \in DOMAIN pvec'[y] /\ pvec'[y][i] = q <=>
                      i \in DOMAIN pvec[y] /\ pvec[y][i] = q
    BY <1>5, <2>3, <2>7, Appended
  <2>8. ASSUME NEW y \in Multis
        PROVE  \A i : i \in DOMAIN pvec'[y] /\ pvec'[y][i] = o <=>
                      y = x /\ i = Len(pvec[x]) + 1
    BY <1>2, <1>5, <2>3, <2>6, Appended
  <2>9. ExistsIffHeld'
    <3>. SUFFICES ASSUME NEW q \in Objects
                  PROVE  obj'[q].kind # "absent" <=>
                           \/ q \in handles
                           \/ \E y \in Multis : \E i \in DOMAIN pvec'[y] : pvec'[y][i] = q
      BY <1>2 DEF ExistsIffHeld
    <3>1. CASE q = o
      BY <1>2, <2>2, <2>4, <2>8, <3>1
    <3>2. CASE q # o
      BY <2>4, <2>7, <3>2 DEF IInv, ExistsIffHeld
    <3>. QED
      BY <3>1, <3>2
  <2>10. MadeExist' /\ LogOpen'
    BY <1>2, <1>5, <2>2, <2>3, <2>4 DEF IInv, MadeExist, LogOpen
  <2>11. FactoryMembersRun'
    <3>1. ASSUME NEW q \in made', NEW y \in Multis, NEW z \in Multis,
                 NEW i \in DOMAIN pvec'[y], NEW j \in DOMAIN pvec'[z],
                 pvec'[y][i] = q, pvec'[z][j] = q
          PROVE  y = z /\ i = j
      <4>1. CASE q = o
        BY <2>8, <3>1, <4>1
      <4>2. CASE q # o
        <5>1. q \in made /\ q \in Objects
          BY <1>5, <2>3, <4>2
        <5>2. /\ i \in DOMAIN pvec[y] /\ pvec[y][i] = q
              /\ j \in DOMAIN pvec[z] /\ pvec[z][j] = q
          BY <2>7, <3>1, <4>2, <5>1
        <5>. QED
          BY <5>1, <5>2 DEF IInv, FactoryMembersRun
      <4>. QED
        BY <4>1, <4>2
    <3>2. ASSUME NEW q \in made'
          PROVE  (obj'[q].kind = "session" => obj'[q].phase = "running") /\ q \notin handles'
      BY <1>2, <1>5, <2>2, <2>3, <2>4, <2>6 DEF IInv, FactoryMembersRun
    <3>. QED
      BY <3>1, <3>2 DEF FactoryMembersRun
  <2>12. PauseHolds'
    <3>. SUFFICES ASSUME NEW y \in hushed, NEW q \in Range(pvec'[y]), q \in made'
                  PROVE  Quiet(obj'[q])
      BY <1>2 DEF PauseHolds
    <3>1. y # x /\ y \in Multis
      BY <1>2 DEF IInv, Types
    <3>2. pvec'[y] = pvec[y]
      BY <1>5, <2>3, <3>1
    <3>3. q \in Range(pvec[y]) /\ q # o
      BY <2>6, <3>1, <3>2 DEF Range
    <3>. QED
      BY <1>5, <2>3, <2>4, <3>3 DEF IInv, PauseHolds
  <2>. QED
    BY <1>3, <2>5, <2>9, <2>10, <2>11, <2>12 DEF IInv
<1>. QED
  BY <1>1, <1>4, <1>5

\* IInv is inductive.
LEMMA Inductive == IInv /\ [Next]_vars => IInv'
<1>. SUFFICES ASSUME IInv, [Next]_vars
              PROVE  IInv'
  OBVIOUS
<1>1. CASE Next
  BY <1>1, CallStep, HushStep, ReleaseSteps, PublishSteps, GetStep, AddStep, MakeStep
     DEF Next
<1>2. CASE UNCHANGED vars
  BY <1>2 DEF vars, history, IInv, Types, ExistsIffHeld, CallSound, MadeExist,
              FactoryMembersRun, PauseHolds, LogOpen
<1>. QED
  BY <1>1, <1>2

LEMMA Invariance == Spec => []IInv
  BY InitIInv, Inductive, PTL DEF Spec

\* Every variable has its type, and the objects that exist are those that
\* somebody holds (shared_ptr in factory.ipp and multi_publisher.ipp).
THEOREM TypeCorrect == Spec => []TypeOK
<1>1. IInv => TypeOK
  <2>1. ASSUME IInv
        PROVE  {o \in Objects : obj[o].kind # "absent"} = Held(handles, pvec)
    <3>1. ASSUME NEW o \in Held(handles, pvec)
          PROVE  o \in Objects
      BY <2>1, <3>1, HeldIff DEF IInv, Types
    <3>2. ASSUME NEW o \in Objects
          PROVE  obj[o].kind # "absent" <=> o \in Held(handles, pvec)
      BY <2>1, <3>2, HeldIff DEF IInv, ExistsIffHeld
    <3>. QED
      BY <3>1, <3>2
  <2>. QED
    BY <2>1 DEF IInv, Types, TypeOK, States, CallType
<1>. QED
  BY <1>1, Invariance, PTL

\* A publisher that the factory put in a multi_publisher can publish until it is
\* terminated, and serves that one alone.
THEOREM MembersRun == Spec => []FactoryMembersRun
<1>1. IInv => FactoryMembersRun
  BY DEF IInv
<1>. QED
  BY <1>1, Invariance, PTL

\* What the factory made keeps quiet from pause to resume.
THEOREM PausedQuiet == Spec => []PauseHolds
<1>1. IInv => PauseHolds
  BY DEF IInv
<1>. QED
  BY <1>1, Invariance, PTL

\* Until a syslog publisher is destroyed all messages are logged as ADC.
THEOREM Named == Spec => []NamedUntilDestroyed
<1>1. IInv => NamedUntilDestroyed
  BY DEF IInv, LogOpen, NamedUntilDestroyed
<1>. QED
  BY <1>1, Invariance, PTL
-----------------------------------------------------------------------------
(***************************************************************************)
(* What publish returns.  In the loop, the failures and the entries that   *)
(* took the message make up the entries before the next that do not keep   *)
(* quiet.                                                                  *)
(***************************************************************************)

\* The first n entries of x that do not keep quiet.
Loud(x, n) == {i \in 1..n : ~Quiet(obj[pvec[x][i]])}

Counted ==
    /\ call.op # "publish" => heard = {}
    /\ call.op = "publish" =>
          /\ call.next <= Len(pvec[call.mp]) + 1
          /\ heard \subseteq 1..call.next - 1
          /\ call.err + Cardinality(heard) = Cardinality(Loud(call.mp, call.next - 1))

\* One more entry adds to those that are loud if it does not keep quiet.
LEMMA OneMoreEntry ==
    ASSUME NEW x, NEW n \in Nat \ {0}
    PROVE  /\ IsFiniteSet(Loud(x, n - 1)) /\ Cardinality(Loud(x, n - 1)) \in Nat
           /\ Cardinality(Loud(x, n)) = IF Quiet(obj[pvec[x][n]]) THEN Cardinality(Loud(x, n - 1))
                                        ELSE Cardinality(Loud(x, n - 1)) + 1
<1>1. IsFiniteSet(1..n - 1) /\ Loud(x, n - 1) \subseteq 1..n - 1
  BY FS_Interval DEF Loud
<1>2. IsFiniteSet(Loud(x, n - 1)) /\ Cardinality(Loud(x, n - 1)) \in Nat
  BY <1>1, FS_Subset, FS_CardinalityType
<1>3. \A i : i \in 1..n <=> i \in 1..n - 1 \/ i = n
  OBVIOUS
<1>4. CASE Quiet(obj[pvec[x][n]])
  <2>1. Loud(x, n) = Loud(x, n - 1)
    BY <1>3, <1>4 DEF Loud
  <2>. QED
    BY <1>2, <1>4, <2>1
<1>5. CASE ~Quiet(obj[pvec[x][n]])
  <2>1. Loud(x, n) = Loud(x, n - 1) \cup {n} /\ n \notin Loud(x, n - 1)
    BY <1>3, <1>5 DEF Loud
  <2>. QED
    BY <1>2, <1>5, <2>1, FS_AddElement
<1>. QED
  BY <1>4, <1>5, <1>2

\* The loop of publish goes on to the next entry.
LEMMA EntryCounted ==
    ASSUME IInv, Counted, Publishing, UNCHANGED <<obj, pvec>>, NEW e \in Nat, Goes(e),
           \/ Quiet(obj[Entry]) /\ e = call.err /\ heard' = heard
           \/ ~Quiet(obj[Entry]) /\ e = call.err + 1 /\ heard' = heard
           \/ ~Quiet(obj[Entry]) /\ e = call.err /\ heard' = heard \cup {call.next}
    PROVE  Counted'
<1>. DEFINE x == call.mp
            n == call.next
<1>1. /\ n \in Nat \ {0} /\ call.err \in Nat /\ x \in Multis
      /\ Len(pvec[x]) \in Nat /\ n <= Len(pvec[x])
      /\ call.op = "publish" /\ heard \subseteq 1..n - 1
      /\ call.err + Cardinality(heard) = Cardinality(Loud(x, n - 1))
  <2>1. call \in CallType /\ pvec \in [Multis -> Seq(Objects)] /\ call.op = "publish"
        /\ call.mp \in Multis
    BY DEF IInv, Types, CallSound, Publishing
  <2>2. pvec[x] \in Seq(Objects)
    BY <2>1
  <2>3. n \in Nat \ {0} /\ call.err \in Nat
    BY <2>1 DEF CallType
  <2>. QED
    BY <2>1, <2>2, <2>3 DEF Counted, Publishing
<1>2. call'.op = "publish" /\ call'.mp = x /\ call'.next = n + 1 /\ call'.err = e
  BY <1>1 DEF Goes
<1>3. IsFiniteSet(heard) /\ Cardinality(heard) \in Nat
  <2>. HIDE DEF n, x
  <2>1. n - 1 \in Int
    BY <1>1
  <2>2. IsFiniteSet(1..n - 1)
    BY <2>1, FS_Interval
  <2>. QED
    BY <1>1, <2>2, FS_Subset, FS_CardinalityType
<1>4. /\ Cardinality(Loud(x, n - 1)) \in Nat
      /\ Cardinality(Loud(x, n)) = IF Quiet(obj[Entry]) THEN Cardinality(Loud(x, n - 1))
                                   ELSE Cardinality(Loud(x, n - 1)) + 1
  BY <1>1, OneMoreEntry DEF Entry
<1>5. Loud(call.mp, call.next - 1)' = Loud(x, n)
  <2>1. call'.next - 1 = n
    BY <1>1, <1>2
  <2>. QED
    BY <1>2, <2>1 DEF Loud, Quiet
<1>6. /\ heard' \subseteq 1..n
      /\ e + Cardinality(heard') = Cardinality(Loud(x, n))
  <2>. HIDE DEF x, n
  <2>1. 1..n - 1 \subseteq 1..n /\ n \in 1..n /\ n \notin 1..n - 1
    BY <1>1
  <2>2. CASE heard' = heard
    BY <1>1, <1>3, <1>4, <2>1, <2>2 DEF n
  <2>3. CASE ~Quiet(obj[Entry]) /\ e = call.err /\ heard' = heard \cup {n}
    <3>1. n \notin heard
      BY <1>1, <2>1
    <3>2. Cardinality(heard') = Cardinality(heard) + 1
      BY <1>3, <2>3, <3>1, FS_AddElement
    <3>3. heard' \subseteq 1..n
      BY <1>1, <2>1, <2>3
    <3>4. e + Cardinality(heard') = Cardinality(Loud(x, n))
      BY <1>1, <1>3, <1>4, <2>3, <3>2
    <3>. QED
      BY <3>3, <3>4
  <2>4. \/ heard' = heard
        \/ ~Quiet(obj[Entry]) /\ e = call.err /\ heard' = heard \cup {n}
    BY DEF n
  <2>. QED
    BY <2>2, <2>3, <2>4
<1>7. n + 1 <= Len(pvec'[x]) + 1 /\ call'.next - 1 = n
  BY <1>1, <1>2
<1>. HIDE DEF x, n
<1>. QED
  BY <1>2, <1>5, <1>6, <1>7 DEF Counted

\* The other steps begin or end a loop, or come between two.
LEMMA StepCounted ==
    ASSUME IInv, Counted, [Next]_vars
    PROVE  Counted'
<1>1. call.op # "publish" => heard = {}
  BY DEF Counted
<1>2. ASSUME call.op # "publish", call'.op # "publish", heard' = heard PROVE Counted'
  BY <1>1, <1>2 DEF Counted
<1>3. ASSUME Free, call' = call, heard' = heard PROVE Counted'
  BY <1>2, <1>3 DEF Free
<1>4. ASSUME NEW o \in Objects,
             \/ \E k \in Kinds : GetPublisher(o, k)
             \/ CallPublisher(o) \/ PublishAlone(o) \/ DropPublisher(o)
             \/ \E x \in Multis : Add(x, o)
      PROVE  Counted'
  BY <1>3, <1>4 DEF GetPublisher, CallPublisher, PublishAlone, DropPublisher, Add, history
<1>5. ASSUME NEW x \in Multis, DropMulti(x) \/ Terminate(x) \/ Pause(x) \/ Resume(x)
      PROVE  Counted'
  BY <1>3, <1>5 DEF DropMulti, Terminate, Pause, Resume
<1>6. ASSUME NEW x \in Multis, NEW names, GetMulti(x, names) PROVE Counted'
  <2>1. call'.op = "make" /\ call.op = "idle" /\ heard' = heard
    BY <1>6 DEF GetMulti, Free
  <2>. QED
    BY <1>2, <2>1
<1>7. ASSUME NEW x \in Multis, Publish(x) PROVE Counted'
  <2>1. /\ call'.op = "publish" /\ call'.mp = x /\ call'.next = 1 /\ call'.err = 0
        /\ heard' = {} /\ pvec' = pvec
    BY <1>1, <1>7 DEF Publish, Free, history
  <2>2. pvec[x] \in Seq(Objects)
    BY DEF IInv, Types
  <2>3. 1 <= Len(pvec'[x]) + 1 /\ 1 - 1 = 0
    BY <2>1, <2>2
  <2>4. Loud(call.mp, call.next - 1)' = {}
    BY <2>1, <2>3 DEF Loud
  <2>5. Cardinality({}) = 0
    BY FS_EmptySet
  <2>6. heard' \subseteq 1..call'.next - 1 /\ call'.next <= Len(pvec'[call'.mp]) + 1
    BY <2>1, <2>3
  <2>7. call'.err + Cardinality(heard') = Cardinality(Loud(call.mp, call.next - 1)')
    BY <2>1, <2>4, <2>5
  <2>. QED
    BY <2>1, <2>6, <2>7 DEF Counted
<1>8. ASSUME NEW o \in Objects, MakePublisher(o) PROVE Counted'
  <2>1. call.op = "make" /\ call'.op = "make" /\ heard' = heard
    BY <1>8 DEF MakePublisher, Making, Goes
  <2>. QED
    BY <1>2, <2>1
<1>9. CASE MakeUnknown \/ MakeThrows \/ MakeReturns
  <2>1. call.op = "make" /\ call'.op # "publish" /\ heard' = heard
    BY <1>9 DEF MakeUnknown, MakeThrows, MakeReturns, Making, Goes, Idle, history
  <2>. QED
    BY <1>2, <2>1
<1>10. CASE PublishThrows \/ PublishReturns
  <2>1. call'.op = "idle" /\ heard' = {}
    BY <1>10 DEF PublishThrows, PublishReturns, Idle
  <2>. QED
    BY <2>1 DEF Counted
<1>11. CASE PublishQuiet \/ PublishTaken \/ PublishFailed
  <2>1. call.err \in Nat /\ call.err + 1 \in Nat
    BY DEF IInv, Types, CallType
  <2>2. CASE PublishQuiet
    BY <2>1, <2>2, EntryCounted DEF PublishQuiet, history
  <2>3. CASE PublishTaken
    BY <2>1, <2>3, EntryCounted DEF PublishTaken, MayTake
  <2>4. CASE PublishFailed
    BY <2>1, <2>4, EntryCounted DEF PublishFailed, MayFail, history
  <2>. QED
    BY <1>11, <2>2, <2>3, <2>4
<1>12. CASE UNCHANGED vars
  BY <1>12 DEF vars, history, Counted, Loud, Quiet
<1>. QED
  BY <1>4, <1>5, <1>6, <1>7, <1>8, <1>9, <1>10, <1>11, <1>12 DEF Next

\* However many entries fail, all are tried, and the number returned is that of the
\* entries that neither took the message nor kept quiet.
THEOREM FailuresCounted == Spec => PublishCounted
<1>. DEFINE Returned ==
        PublishReturns =>
         LET entries == pvec[call.mp]
             loud == {i \in DOMAIN entries : ~Quiet(obj[entries[i]])}
         IN  call.err + Cardinality(heard) = Cardinality(loud)
<1>1. Init => Counted
  BY DEF Init, Idle, Counted
<1>2. IInv /\ Counted /\ [Next]_vars => Counted'
  BY StepCounted
<1>3. IInv /\ Counted /\ [Next]_vars => [Returned]_vars
  <2>. SUFFICES ASSUME IInv, Counted, PublishReturns
                PROVE  call.err + Cardinality(heard)
                          = Cardinality({i \in DOMAIN pvec[call.mp] :
                                            ~Quiet(obj[pvec[call.mp][i]])})
    OBVIOUS
  <2>1. /\ call.op = "publish" /\ call.next > Len(pvec[call.mp])
        /\ call.next \in Nat /\ pvec[call.mp] \in Seq(Objects)
    BY DEF PublishReturns, IInv, Types, CallType, CallSound
  <2>2. call.next <= Len(pvec[call.mp]) + 1
    BY <2>1 DEF Counted
  <2>3. 1..call.next - 1 = DOMAIN pvec[call.mp]
    <3>1. Len(pvec[call.mp]) \in Nat /\ DOMAIN pvec[call.mp] = 1..Len(pvec[call.mp])
      BY <2>1
    <3>2. call.next - 1 = Len(pvec[call.mp])
      BY <2>1, <2>2, <3>1
    <3>. QED
      BY <3>1, <3>2
  <2>. QED
    BY <2>1, <2>3 DEF Counted, Loud
<1>. QED
  BY <1>1, <1>2, <1>3, Invariance, PTL DEF Spec, PublishCounted
=============================================================================

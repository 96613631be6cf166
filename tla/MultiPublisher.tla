---------------------------- MODULE MultiPublisher ----------------------------
(***************************************************************************)
(* multi_publisher (adc/publisher/impl/multi_publisher.ipp) and the        *)
(* factory that fills it (adc/impl/factory.ipp), with the publishers they  *)
(* share with the program.  A publisher object lives as long as somebody   *)
(* holds a pointer to it: the program, or a multi_publisher.  Publishers   *)
(* that keep a life cycle answer as PublisherApi says; stdout, syslog and  *)
(* none (stdout.ipp, syslog.ipp, none.ipp) have none.  The syslog          *)
(* publishers of a process share one connection and its name.              *)
(***************************************************************************)
EXTENDS Naturals, Sequences, FiniteSets, Functions

CONSTANTS
    Objects,     \* addresses of publisher objects
    Multis,      \* multi_publisher objects
    NoMulti,
    Kinds,       \* what the program asks the factory for
    NameLists,   \* what it asks for together: a map of options by name, or
                 \* the names in a vector or in an environment variable
    MaxEntries   \* bound: entries of a multi_publisher

\* "session" stands for every plugin with modes: file, multifile, curl, ...
AllKinds == {"session", "stdout", "syslog", "none"}

ASSUME MultiAssumption ==
    /\ Kinds \subseteq AllKinds
    /\ NameLists \subseteq Seq(AllKinds \cup {"unknown"})
    /\ NoMulti \notin Multis
    /\ MaxEntries \in Nat

VARIABLES
    obj,        \* the publisher objects
    handles,    \* those the program holds a pointer to
    pvec,       \* the entries of each multi_publisher
    call,       \* the publish or the factory call in progress
    tag,        \* the name under which syslog logs
    heard,      \* history: the entries that took the message of the publish in progress
    made,       \* history: objects the factory put in a multi_publisher
    hushed,     \* history: multi_publishers paused since their last entry came
    destroyed,  \* history: a syslog publisher was destroyed
    misnamed    \* history: a message was logged under another name than "ADC"

history == <<heard, made, hushed, destroyed, misnamed>>
vars == <<obj, handles, pvec, call, tag, history>>

Phases == {"new", "configured", "running", "failed", "finalized"}
Absent == [kind |-> "absent", phase |-> "new", paused |-> FALSE]
New(k) == [kind |-> k, phase |-> "new", paused |-> FALSE]

Idle == [op |-> "idle", mp |-> NoMulti, names |-> <<>>, next |-> 1, err |-> 0]

Init ==
    /\ obj = [o \in Objects |-> Absent]
    /\ handles = {}
    /\ pvec = [x \in Multis |-> <<>>]
    /\ call = Idle
    /\ tag = "program"
    /\ heard = {}
    /\ made = {}
    /\ hushed = {}
    /\ destroyed = FALSE
    /\ misnamed = FALSE

Free == call.op = "idle"

\* The loop over names or entries goes on, after e failures.
Goes(e) ==
    call' = [op |-> call.op, mp |-> call.mp, names |-> call.names,
             next |-> call.next + 1, err |-> e]
-----------------------------------------------------------------------------
\* What the calls of publisher_api make of an object s.
At(s, phase, paused) == [kind |-> s.kind, phase |-> phase, paused |-> paused]

Configured(s) ==
    IF s.kind = "session" /\ s.phase \in {"new", "finalized"}
    THEN At(s, "configured", s.paused) ELSE s

\* A session may fail to start; the others answer 0.
Initialized(s) ==
    IF s.kind = "session" /\ s.phase \in {"new", "configured"}
    THEN {At(s, "running", s.paused), At(s, "failed", s.paused)} ELSE {s}

\* Only a running session is reset: stdout and syslog stay paused.
Finalized(s) ==
    IF s.kind = "session" /\ s.phase = "running"
    THEN At(s, "finalized", FALSE) ELSE s

Hushed(s, p) == IF s.kind = "none" THEN s ELSE At(s, s.phase, p)

\* The object is given a message and keeps quiet about it, answering 0.
Quiet(s) == s.kind = "none" \/ s.paused

\* The message is taken, and the answer is 0.
MayTake(s) == ~Quiet(s) /\ (s.kind = "session" => s.phase = "running")

\* The answer is an error: in the wrong mode or phase, or the delivery fails.
MayFail(s) == ~Quiet(s) /\ s.kind = "session"
-----------------------------------------------------------------------------
Held(h, v) == h \cup UNION {Range(v[x]) : x \in Multis}

\* The pointers that remain are h and v, the objects before that were obs, and
\* t was the name of the log: what nobody holds is destroyed, and each syslog
\* object closes the log when it is.
Release(h, v, obs, t) ==
    LET gone == {o \in Objects : obs[o].kind # "absent" /\ o \notin Held(h, v)}
        closes == \E o \in gone : obs[o].kind = "syslog"
    IN  /\ handles' = h
        /\ pvec' = v
        /\ obj' = [o \in Objects |-> IF o \in gone THEN Absent ELSE obs[o]]
        /\ made' = made \ gone
        /\ tag' = IF closes THEN "program" ELSE t
        /\ destroyed' = (destroyed \/ closes)

\* The constructor of a syslog object opens the log as "ADC".
Opened(k) == IF k = "syslog" THEN "ADC" ELSE tag

\* get_publisher, with or without options
GetPublisher(o, k) ==
    /\ Free
    /\ obj[o].kind = "absent"
    /\ \E s \in {New(k), Configured(New(k))} : obj' = [obj EXCEPT ![o] = s]
    /\ handles' = handles \cup {o}
    /\ tag' = Opened(k)
    /\ UNCHANGED <<pvec, call, history>>

\* The program calls an object it holds: config, initialize, finalize, pause or
\* resume.
CallPublisher(o) ==
    /\ Free
    /\ o \in handles
    /\ \E s \in Initialized(obj[o]) \cup {Configured(obj[o]), Finalized(obj[o])}
                \cup {Hushed(obj[o], p) : p \in BOOLEAN} :
          obj' = [obj EXCEPT ![o] = s]
    /\ UNCHANGED <<handles, pvec, call, tag, history>>

\* The program calls publish of an object it holds.
PublishAlone(o) ==
    /\ Free
    /\ o \in handles
    /\ MayTake(obj[o])
    /\ misnamed' = (misnamed \/ (obj[o].kind = "syslog" /\ tag # "ADC"))
    /\ UNCHANGED <<obj, handles, pvec, call, tag, heard, made, hushed, destroyed>>

DropPublisher(o) ==
    /\ Free
    /\ o \in handles
    /\ Release(handles \ {o}, pvec, obj, tag)
    /\ UNCHANGED <<call, heard, hushed, misnamed>>

\* The last pointer to the multi_publisher goes; another takes its place.
DropMulti(x) ==
    /\ Free
    /\ Release(handles, [pvec EXCEPT ![x] = <<>>], obj, tag)
    /\ hushed' = hushed \ {x}
    /\ UNCHANGED <<call, heard, misnamed>>
-----------------------------------------------------------------------------
\* get_multi_publisher for a map, and get_multi_publisher_from_env.
GetMulti(x, names) ==
    /\ Free
    /\ pvec[x] = <<>>
    /\ Cardinality({o \in Objects : obj[o].kind = "absent"}) >= Len(names)
    /\ call' = [op |-> "make", mp |-> x, names |-> names, next |-> 1, err |-> 0]
    /\ hushed' = hushed \ {x}
    /\ UNCHANGED <<obj, handles, pvec, tag, heard, made, destroyed, misnamed>>

Making == call.op = "make" /\ call.next <= Len(call.names)
Name == call.names[call.next]

MakeUnknown ==
    /\ Making
    /\ Name = "unknown"
    /\ Goes(0)
    /\ UNCHANGED <<obj, handles, pvec, tag, history>>

\* Mutant: a publisher whose initialize failed is added like any other.
MakeAnyPublisher(o) ==
    /\ Making
    /\ Name # "unknown"
    /\ obj[o].kind = "absent"
    /\ \E s \in Initialized(Configured(New(Name))) : obj' = [obj EXCEPT ![o] = s]
    /\ pvec' = [pvec EXCEPT ![call.mp] = Append(@, o)]
    /\ made' = made \cup {o}
    /\ tag' = Opened(Name)
    /\ Goes(0)
    /\ UNCHANGED <<handles, heard, hushed, destroyed, misnamed>>

\* Mutant: a publisher that cannot be initialized is not deleted.
MakePublisherLeaks(o) ==
    /\ Making
    /\ Name # "unknown"
    /\ obj[o].kind = "absent"
    /\ \E s \in Initialized(Configured(New(Name))) :
          /\ obj' = [obj EXCEPT ![o] = s]
          /\ pvec' = IF s.phase = "failed" THEN pvec
                     ELSE [pvec EXCEPT ![call.mp] = Append(@, o)]
    /\ Goes(0)
    /\ UNCHANGED <<handles, tag, history>>

\* A new publisher is configured, initialized and added, or, when it cannot be
\* initialized, dropped without a word.
MakePublisher(o) ==
    /\ Making
    /\ Name # "unknown"
    /\ obj[o].kind = "absent"
    /\ \E s \in Initialized(Configured(New(Name))) :
          \/ /\ s.phase # "failed"
             /\ obj' = [obj EXCEPT ![o] = s]
             /\ pvec' = [pvec EXCEPT ![call.mp] = Append(@, o)]
             /\ made' = made \cup {o}
             /\ tag' = Opened(Name)
          \/ s.phase = "failed" /\ UNCHANGED <<obj, pvec, made, tag>>
    /\ Goes(0)
    /\ UNCHANGED <<handles, heard, hushed, destroyed, misnamed>>

\* initialize throws: the program gets nothing, and what was made is destroyed.
MakeThrows ==
    /\ Making
    /\ Name = "session"
    /\ Release(handles, [pvec EXCEPT ![call.mp] = <<>>], obj, tag)
    /\ call' = Idle
    /\ UNCHANGED <<heard, hushed, misnamed>>

MakeReturns ==
    /\ call.op = "make" /\ call.next > Len(call.names)
    /\ call' = Idle
    /\ UNCHANGED <<obj, handles, pvec, tag, history>>
-----------------------------------------------------------------------------
\* Nothing keeps an object from being added twice, or to two of them.  A null
\* pointer is ignored.
Add(x, o) ==
    /\ Free
    /\ o \in handles
    /\ Len(pvec[x]) < MaxEntries
    /\ pvec' = [pvec EXCEPT ![x] = Append(@, o)]
    /\ hushed' = hushed \ {x}
    /\ UNCHANGED <<obj, handles, call, tag, heard, made, destroyed, misnamed>>

\* The loop starts.  A null builder is refused before it, with EINVAL.
Publish(x) ==
    /\ Free
    /\ call' = [op |-> "publish", mp |-> x, names |-> <<>>, next |-> 1, err |-> 0]
    /\ UNCHANGED <<obj, handles, pvec, tag, history>>

Publishing == call.op = "publish" /\ call.next <= Len(pvec[call.mp])
Entry == pvec[call.mp][call.next]

PublishQuiet ==
    /\ Publishing
    /\ Quiet(obj[Entry])
    /\ Goes(call.err)
    /\ UNCHANGED <<obj, handles, pvec, tag, history>>

\* syslog opens the log under the name of the program when it was closed.
PublishTaken ==
    /\ Publishing
    /\ MayTake(obj[Entry])
    /\ heard' = heard \cup {call.next}
    /\ misnamed' = (misnamed \/ (obj[Entry].kind = "syslog" /\ tag # "ADC"))
    /\ Goes(call.err)
    /\ UNCHANGED <<obj, handles, pvec, tag, made, hushed, destroyed>>

\* Mutant: the loop ends at the first member that fails.
PublishFailedStops ==
    /\ Publishing
    /\ MayFail(obj[Entry])
    /\ call' = [call EXCEPT !.next = Len(pvec[call.mp]) + 1, !.err = @ + 1]
    /\ UNCHANGED <<obj, handles, pvec, tag, history>>

PublishFailed ==
    /\ Publishing
    /\ MayFail(obj[Entry])
    /\ Goes(call.err + 1)
    /\ UNCHANGED <<obj, handles, pvec, tag, history>>

\* A member throws (multifile, create_stream): the rest get nothing.
PublishThrows ==
    /\ Publishing
    /\ obj[Entry].kind = "session" /\ MayTake(obj[Entry])
    /\ call' = Idle
    /\ heard' = {}
    /\ UNCHANGED <<obj, handles, pvec, tag, made, hushed, destroyed, misnamed>>

\* The number of failures is returned.
PublishReturns ==
    /\ call.op = "publish" /\ call.next > Len(pvec[call.mp])
    /\ call' = Idle
    /\ heard' = {}
    /\ UNCHANGED <<obj, handles, pvec, tag, made, hushed, destroyed, misnamed>>

\* What f makes of the members of x, each once for every entry.
ForAll(x, f(_)) == [o \in Objects |-> IF o \in Range(pvec[x]) THEN f(obj[o]) ELSE obj[o]]

\* Mutant: finalize of a syslog publisher closes the log.
TerminateCloses(x) ==
    /\ Free
    /\ Release(handles, [pvec EXCEPT ![x] = <<>>], ForAll(x, Finalized),
               IF \E o \in Range(pvec[x]) : obj[o].kind = "syslog" THEN "program" ELSE tag)
    /\ hushed' = hushed \ {x}
    /\ UNCHANGED <<call, heard, misnamed>>

Terminate(x) ==
    /\ Free
    /\ Release(handles, [pvec EXCEPT ![x] = <<>>], ForAll(x, Finalized), tag)
    /\ hushed' = hushed \ {x}
    /\ UNCHANGED <<call, heard, misnamed>>

\* Mutant: the loop leaves out the last entry.
PauseAllButLast(x) ==
    LET n == Len(pvec[x])
    IN  /\ Free
        /\ obj' = [o \in Objects |->
                      IF \E i \in 1 .. n : i < n /\ pvec[x][i] = o
                      THEN Hushed(obj[o], TRUE) ELSE obj[o]]
        /\ hushed' = hushed \cup {x}
        /\ UNCHANGED <<handles, pvec, call, tag, heard, made, destroyed, misnamed>>

Pause(x) ==
    /\ Free
    /\ obj' = ForAll(x, LAMBDA s : Hushed(s, TRUE))
    /\ hushed' = hushed \cup {x}
    /\ UNCHANGED <<handles, pvec, call, tag, heard, made, destroyed, misnamed>>

Resume(x) ==
    /\ Free
    /\ obj' = ForAll(x, LAMBDA s : Hushed(s, FALSE))
    /\ hushed' = hushed \ {x}
    /\ UNCHANGED <<handles, pvec, call, tag, heard, made, destroyed, misnamed>>

Next ==
    \/ \E o \in Objects : \/ \E k \in Kinds : GetPublisher(o, k)
                          \/ CallPublisher(o) \/ PublishAlone(o)
                          \/ DropPublisher(o) \/ MakePublisher(o)
                          \/ \E x \in Multis : Add(x, o)
    \/ \E x \in Multis : \/ \E names \in NameLists : GetMulti(x, names)
                         \/ DropMulti(x) \/ Publish(x) \/ Terminate(x)
                         \/ Pause(x) \/ Resume(x)
    \/ MakeUnknown \/ MakeThrows \/ MakeReturns
    \/ PublishQuiet \/ PublishTaken \/ PublishFailed \/ PublishThrows \/ PublishReturns

Spec == Init /\ [][Next]_vars
-----------------------------------------------------------------------------
\* A multi_publisher has entries that exist and no others.
TypeOK ==
    /\ obj \in [Objects -> [kind : AllKinds \cup {"absent"}, phase : Phases,
                            paused : BOOLEAN]]
    /\ handles \subseteq Objects
    /\ pvec \in [Multis -> Seq(Objects)]
    /\ {o \in Objects : obj[o].kind # "absent"} = Held(handles, pvec)
    /\ call \in [op : {"idle", "make", "publish"}, mp : Multis \cup {NoMulti},
                 names : NameLists \cup {<<>>}, next : Nat \ {0}, err : Nat]
    /\ tag \in {"ADC", "program"}
    /\ heard \subseteq Nat
    /\ made \subseteq Objects /\ hushed \subseteq Multis
    /\ destroyed \in BOOLEAN /\ misnamed \in BOOLEAN

\* However many members fail, every entry is tried, and the number that publish
\* returns is exactly that of the entries which neither took the message nor
\* kept quiet about it (multi_publisher.ipp 57-76), also when one object has
\* several entries.
PublishCounted ==
    [][PublishReturns =>
         LET entries == pvec[call.mp]
             loud == {i \in DOMAIN entries : ~Quiet(obj[entries[i]])}
         IN  call.err + Cardinality(heard) = Cardinality(loud)]_vars

\* Whatever failed while the factory made a multi_publisher, and whatever the
\* program does with other publishers, a publisher the factory put there can
\* publish until terminate and serves that one alone (factory.ipp 121-209).
FactoryMembersRun ==
    \A o \in made :
        /\ obj[o].kind = "session" => obj[o].phase = "running"
        /\ o \notin handles
        /\ \A x, y \in Multis : \A i \in DOMAIN pvec[x], j \in DOMAIN pvec[y] :
              pvec[x][i] = o /\ pvec[y][j] = o => x = y /\ i = j

\* "Pause all publishers" (multi_publisher.hpp): what the factory made stays
\* quiet from pause to resume, whatever is done to publishers of the program,
\* added to the same multi_publisher or to others.
PauseHolds == \A x \in hushed : \A o \in Range(pvec[x]) \cap made : Quiet(obj[o])

\* The log is one for the process: it is opened by each new syslog publisher and
\* closed when any is destroyed.  Until the first is, all messages are logged
\* under the name ADC, whatever the life cycles of the publishers (syslog.ipp 80).
NamedUntilDestroyed == ~destroyed => ~misnamed
===============================================================================

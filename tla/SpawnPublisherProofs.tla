----------------------- MODULE SpawnPublisherProofs -----------------------
(***************************************************************************)
(* Proofs about SpawnPublisher for any number of processes, plugins,       *)
(* messages and file names.                                                *)
(***************************************************************************)
EXTENDS SpawnPublisher, TLAPS

(***************************************************************************)
(* The inductive invariant.  A program reads its own message because every *)
(* file that a publish or a shell will still use exists, so that mkstemp   *)
(* cannot make up its name, and belongs to it alone, so that nobody else   *)
(* removes or writes it.                                                   *)
(***************************************************************************)
OwnersHoldTheirFiles ==
    /\ \A c \in shells : c.file \in exists
    /\ \A p \in Procs : ~Free(p) => call[p].file \in exists

WrittenIsMessage ==
    \A p \in Procs :
        /\ ~Free(p) => call[p].msg \in Messages
        /\ call[p].step = "written" => content[call[p].file] = call[p].msg

\* A publish in progress has passed the tests on the object.
BusyIsRunning ==
    \A p \in Procs :
        ~Free(p) => mode[p] = "pi_pub_or_final" /\ state[p] = "ok" /\ ~paused[p]

ModesAgree ==
    \A p \in Procs :
        /\ state[p] = "err" => mode[p] = "pi_init"
        /\ mode[p] # "pi_config" => fdir[p]

IInv ==
    /\ TypeOK
    /\ FilesExclusive
    /\ OwnersHoldTheirFiles
    /\ ShellsReadTheirMessage
    /\ WrittenIsMessage
    /\ BusyIsRunning
    /\ ModesAgree

USE DEF Free

LEMMA InitIInv == Init => IInv
  BY SpawnAssumption
     DEF Init, Idle, Ways, IInv, TypeOK, FilesExclusive, OwnersHoldTheirFiles,
         ShellsReadTheirMessage, WrittenIsMessage, BusyIsRunning, ModesAgree

\* The calls that leave files, shells and publishes alone.
LifeCycle(p) ==
    \/ \E d2 \in BOOLEAN : Config(p, d2) \/ Initialize(p, d2)
    \/ Pause(p) \/ Resume(p) \/ Finalize(p)
    \/ \E b \in Messages \cup {NoMessage} : Refuse(p, b)

LEMMA LifeCycleStep ==
    ASSUME IInv, NEW p \in Procs, LifeCycle(p)
    PROVE  IInv'
<1>1. Free(p) /\ UNCHANGED <<call, scratch>>
  BY DEF LifeCycle, Config, Initialize, Pause, Resume, Finalize, Refuse
<1>2. TypeOK' /\ ModesAgree'
  <2>1. UNCHANGED <<call, exists, content, shells, left>>
    BY <1>1 DEF LifeCycle, Config, Initialize, Pause, Resume, Finalize, Refuse, scratch
  <2>2. ASSUME NEW d2 \in BOOLEAN, Config(p, d2)
        PROVE  TypeOK' /\ ModesAgree'
    <3>1. CASE UNCHANGED <<mode, fdir, debug2>>
      BY <2>1, <2>2, <3>1 DEF Config, IInv, TypeOK, ModesAgree
    <3>2. CASE /\ mode' = [mode EXCEPT ![p] = "pi_init"]
               /\ fdir' = [fdir EXCEPT ![p] = TRUE]
               /\ debug2' = [debug2 EXCEPT ![p] = d2]
      <4>1. UNCHANGED <<state, paused, accepted>>
        BY <2>2 DEF Config
      <4>2. TypeOK'
        BY <2>1, <3>2, <4>1 DEF IInv, TypeOK
      <4>. QED
        BY <3>2, <4>1, <4>2 DEF IInv, TypeOK, ModesAgree
    <3>. QED
      BY <2>2, <3>1, <3>2 DEF Config
  <2>3. ASSUME NEW d2 \in BOOLEAN, Initialize(p, d2)
        PROVE  TypeOK' /\ ModesAgree'
    <3>. DEFINE d == Defaulted(p, d2)
    <3>1. d.debug2 \in BOOLEAN
      BY DEF Defaulted, IInv, TypeOK
    <3>2. /\ mode[p] = "pi_init" => d.mode = "pi_init"
          /\ d.mode # "pi_init" => d.mode = mode[p]
      BY DEF Defaulted
    <3>3. /\ paused' = paused
          /\ fdir' = [fdir EXCEPT ![p] = TRUE]
          /\ debug2' = [debug2 EXCEPT ![p] = d.debug2]
      BY <2>3 DEF Initialize
    <3>4. \/ UNCHANGED <<mode, state, accepted>>
          \/ /\ mode' = [mode EXCEPT ![p] = "pi_init"]
             /\ state' = [state EXCEPT ![p] = "err"]
             /\ UNCHANGED accepted
          \/ /\ mode' = [mode EXCEPT ![p] = "pi_pub_or_final"]
             /\ UNCHANGED state /\ state[p] = "ok"
             /\ accepted' = [accepted EXCEPT ![p] = <<>>]
      BY <2>3 DEF Initialize
    <3>5. accepted \in [Procs -> Seq(Messages)] /\ <<>> \in Seq(Messages)
      BY DEF IInv, TypeOK
    <3>6. /\ accepted' \in [Procs -> Seq(Messages)]
          /\ \/ UNCHANGED <<mode, state>>
             \/ /\ mode' = [mode EXCEPT ![p] = "pi_init"]
                /\ state' = [state EXCEPT ![p] = "err"]
             \/ /\ mode' = [mode EXCEPT ![p] = "pi_pub_or_final"]
                /\ UNCHANGED state /\ state[p] = "ok"
      BY <3>4, <3>5
    <3>7. TypeOK'
      BY <2>1, <3>1, <3>3, <3>6 DEF IInv, TypeOK
    <3>8. ModesAgree'
      BY <3>3, <3>6 DEF IInv, TypeOK, ModesAgree
    <3>. QED
      BY <3>7, <3>8
  <2>4. CASE Pause(p) \/ Resume(p)
    <3>1. /\ UNCHANGED <<mode, state, fdir, debug2, accepted>>
          /\ \E v \in BOOLEAN : paused' = [paused EXCEPT ![p] = v]
      BY <2>4 DEF Pause, Resume
    <3>. QED
      BY <2>1, <3>1 DEF IInv, TypeOK, ModesAgree
  <2>5. CASE Finalize(p)
    <3>1. UNCHANGED <<fdir, debug2, accepted>>
      BY <2>5 DEF Finalize
    <3>2. CASE UNCHANGED <<mode, state, paused>>
      BY <2>1, <3>1, <3>2 DEF IInv, TypeOK, ModesAgree
    <3>3. CASE /\ state' = [state EXCEPT ![p] = "ok"]
               /\ paused' = [paused EXCEPT ![p] = FALSE]
               /\ mode' = [mode EXCEPT ![p] = "pi_config"]
      <4>1. TypeOK'
        BY <2>1, <3>1, <3>3 DEF IInv, TypeOK
      <4>2. ModesAgree'
        BY <3>1, <3>3 DEF IInv, TypeOK, ModesAgree
      <4>. QED
        BY <4>1, <4>2
    <3>. QED
      BY <2>5, <3>2, <3>3 DEF Finalize
  <2>6. CASE \E b \in Messages \cup {NoMessage} : Refuse(p, b)
    BY <2>1, <2>6 DEF Refuse, object, IInv, TypeOK, ModesAgree
  <2>. QED
    BY <2>2, <2>3, <2>4, <2>5, <2>6 DEF LifeCycle
<1>3. /\ FilesExclusive' /\ OwnersHoldTheirFiles' /\ ShellsReadTheirMessage'
      /\ WrittenIsMessage'
  BY <1>1 DEF scratch, IInv, FilesExclusive, OwnersHoldTheirFiles,
              ShellsReadTheirMessage, WrittenIsMessage
<1>4. BusyIsRunning'
  BY <1>1 DEF LifeCycle, Config, Initialize, Pause, Resume, Finalize, Refuse,
              object, IInv, TypeOK, BusyIsRunning
<1>. QED
  BY <1>2, <1>3, <1>4 DEF IInv

LEMMA RecreateStep ==
    ASSUME IInv, NEW p \in Procs, Recreate(p)
    PROVE  IInv'
<1>1. call' = [call EXCEPT ![p] = Idle] /\ UNCHANGED scratch
  BY DEF Recreate
<1>2. TypeOK'
  BY DEF Recreate, Ways, Idle, scratch, IInv, TypeOK
<1>3. /\ FilesExclusive' /\ OwnersHoldTheirFiles' /\ ShellsReadTheirMessage'
      /\ WrittenIsMessage'
  BY <1>1 DEF scratch, Idle, IInv, TypeOK, FilesExclusive, OwnersHoldTheirFiles,
              ShellsReadTheirMessage, WrittenIsMessage
<1>4. BusyIsRunning' /\ ModesAgree'
  BY DEF Recreate, Idle, IInv, TypeOK, BusyIsRunning, ModesAgree
<1>. QED
  BY <1>2, <1>3, <1>4 DEF IInv

\* mkstemp makes up a name that no file has, hence that nobody owns.
LEMMA PublishNameStep ==
    ASSUME IInv, NEW p \in Procs, NEW b \in Messages \cup {NoMessage},
           PublishName(p, b)
    PROVE  IInv'
<1>1. PICK n \in Names \ exists :
        /\ exists' = exists \cup {n}
        /\ content' = [content EXCEPT ![n] = NoMessage]
        /\ call' = [call EXCEPT ![p] = [step |-> "named", msg |-> b, file |-> n]]
  BY DEF PublishName
<1>2. /\ b \in Messages /\ Free(p)
      /\ mode[p] = "pi_pub_or_final" /\ state[p] = "ok" /\ ~paused[p]
      /\ UNCHANGED <<object, shells, left, accepted>>
  BY DEF PublishName, Publishing
<1>3. TypeOK'
  BY <1>1, <1>2 DEF object, IInv, TypeOK
<1>4. \A c \in shells : c.file # n
  BY DEF IInv, OwnersHoldTheirFiles
<1>5. \A q \in Procs : ~Free(q) => call[q].file # n
  BY DEF IInv, OwnersHoldTheirFiles
<1>6. FilesExclusive'
  BY <1>1, <1>2, <1>4, <1>5 DEF IInv, TypeOK, FilesExclusive
<1>7. OwnersHoldTheirFiles'
  BY <1>1, <1>2 DEF IInv, TypeOK, OwnersHoldTheirFiles
<1>8. ShellsReadTheirMessage'
  BY <1>1, <1>2, <1>4 DEF IInv, TypeOK, ShellsReadTheirMessage
<1>9. WrittenIsMessage'
  BY <1>1, <1>2, <1>5 DEF IInv, TypeOK, WrittenIsMessage
<1>10. BusyIsRunning' /\ ModesAgree'
  BY <1>1, <1>2 DEF object, IInv, TypeOK, BusyIsRunning, ModesAgree
<1>. QED
  BY <1>3, <1>6, <1>7, <1>8, <1>9, <1>10 DEF IInv

LEMMA PublishWriteStep ==
    ASSUME IInv, NEW p \in Procs, PublishWrite(p)
    PROVE  IInv'
<1>. DEFINE n == call[p].file
            m == call[p].msg
<1>1. /\ call[p].step = "named" /\ n \in exists /\ n \in Names /\ m \in Messages
      /\ UNCHANGED <<object, shells, accepted>>
      /\ mode[p] = "pi_pub_or_final" /\ state[p] = "ok" /\ ~paused[p]
  BY DEF PublishWrite, IInv, TypeOK, OwnersHoldTheirFiles, WrittenIsMessage,
         BusyIsRunning
<1>2. \A c \in shells : c.file # n
  BY <1>1 DEF IInv, FilesExclusive
<1>3. \A q \in Procs \ {p} : ~Free(q) => call[q].file # n
  BY <1>1 DEF IInv, FilesExclusive
<1>4. BusyIsRunning' /\ ModesAgree'
  <2>1. \A q \in Procs : q # p => call'[q] = call[q]
    BY DEF PublishWrite, IInv, TypeOK
  <2>2. UNCHANGED <<mode, state, paused, fdir>>
    BY <1>1 DEF object
  <2>. QED
    BY <1>1, <2>1, <2>2 DEF IInv, BusyIsRunning, ModesAgree
<1>5. CASE /\ exists' = exists \cup {n} /\ UNCHANGED left
           /\ content' = [content EXCEPT ![n] = m]
           /\ call' = [call EXCEPT ![p] =
                          [step |-> "written", msg |-> @.msg, file |-> n]]
  <2>1. call' = [call EXCEPT ![p] = [step |-> "written", msg |-> m, file |-> n]]
    BY <1>5 DEF IInv, TypeOK
  <2>2. TypeOK'
    BY <1>1, <1>5, <2>1 DEF object, IInv, TypeOK
  <2>3. FilesExclusive' /\ OwnersHoldTheirFiles'
    BY <1>1, <1>2, <1>3, <1>5, <2>1
       DEF IInv, TypeOK, FilesExclusive, OwnersHoldTheirFiles
  <2>4. ShellsReadTheirMessage' /\ WrittenIsMessage'
    BY <1>1, <1>2, <1>3, <1>5, <2>1
       DEF IInv, TypeOK, ShellsReadTheirMessage, WrittenIsMessage
  <2>. QED
    BY <1>4, <2>2, <2>3, <2>4 DEF IInv
<1>6. CASE /\ call' = [call EXCEPT ![p] = Idle]
           /\ left' \in [Names -> Ways \cup {"no"}]
           /\ \/ exists' \in {exists, exists \ {n}} /\ UNCHANGED content
              \/ /\ exists' = exists \cup {n}
                 /\ content' = [content EXCEPT ![n] = NoMessage]
  <2>1. TypeOK'
    BY <1>1, <1>6 DEF object, Idle, IInv, TypeOK
  <2>2. FilesExclusive' /\ OwnersHoldTheirFiles'
    BY <1>1, <1>2, <1>3, <1>6
       DEF Idle, IInv, TypeOK, FilesExclusive, OwnersHoldTheirFiles
  <2>3. ASSUME NEW k \in Names, k # n
        PROVE  content'[k] = content[k] /\ (k \in exists => k \in exists')
    BY <1>6, <2>3 DEF IInv, TypeOK
  <2>4. ShellsReadTheirMessage'
    <3>. SUFFICES ASSUME NEW c \in shells', c.step = "started"
                  PROVE  c.file \in exists' /\ content'[c.file] = c.msg
      BY DEF ShellsReadTheirMessage
    <3>1. c \in shells /\ c.file \in Names /\ c.file # n
      BY <1>1, <1>2 DEF IInv, TypeOK
    <3>2. c.file \in exists /\ content[c.file] = c.msg
      BY <3>1 DEF IInv, ShellsReadTheirMessage
    <3>. QED
      BY <2>3, <3>1, <3>2
  <2>5. call'[p] = Idle /\ \A q \in Procs : q # p => call'[q] = call[q]
    BY <1>6 DEF IInv, TypeOK
  <2>6. WrittenIsMessage'
    <3>. SUFFICES ASSUME NEW q \in Procs
                  PROVE  /\ call'[q].step # "idle" => call'[q].msg \in Messages
                         /\ call'[q].step = "written" =>
                              content'[call'[q].file] = call'[q].msg
      BY DEF WrittenIsMessage
    <3>1. CASE q = p
      BY <2>5, <3>1 DEF Idle
    <3>2. CASE q # p
      <4>1. /\ call[q].step # "idle" => call[q].msg \in Messages
            /\ call[q].step = "written" => content[call[q].file] = call[q].msg
        BY DEF IInv, WrittenIsMessage
      <4>2. call[q].step = "written" => call[q].file \in Names /\ call[q].file # n
        BY <1>3, <3>2, SpawnAssumption DEF IInv, TypeOK, OwnersHoldTheirFiles
      <4>3. call[q].step = "written" =>
              content'[call[q].file] = content[call[q].file]
        BY <2>3, <4>2
      <4>4. call'[q] = call[q]
        BY <2>5, <3>2
      <4>. QED
        BY <4>1, <4>3, <4>4
    <3>. QED
      BY <3>1, <3>2
  <2>. QED
    BY <1>4, <2>1, <2>2, <2>4, <2>6 DEF IInv
<1>7. \/ UNCHANGED left
      \/ \E w \in Ways : left' = [left EXCEPT ![n] = w]
  BY DEF PublishWrite, Ways
<1>8. left' \in [Names -> Ways \cup {"no"}]
  BY <1>7 DEF IInv, TypeOK
<1>. QED
  BY <1>5, <1>6, <1>8 DEF PublishWrite

LEMMA PublishSendStep ==
    ASSUME IInv, NEW p \in Procs, PublishSend(p)
    PROVE  IInv'
<1>1. /\ call[p].step = "written" /\ call[p].msg \in Messages
      /\ call[p].file \in exists /\ call[p].file \in Names
      /\ content[call[p].file] = call[p].msg
      /\ UNCHANGED <<object, exists, content>>
      /\ call' = [call EXCEPT ![p] = Idle]
      /\ \/ UNCHANGED left
         \/ left' = [left EXCEPT ![call[p].file] = "fork"]
      /\ shells' \in {shells, shells \cup {Shell(p)}}
      /\ accepted' = [accepted EXCEPT ![p] = Append(@, call[p].msg)]
  BY DEF PublishSend, IInv, TypeOK, OwnersHoldTheirFiles, WrittenIsMessage
<1>2. /\ Shell(p) \in [step : {"started", "exited"}, msg : Messages,
                       file : Names, onFailure : BOOLEAN, script : BOOLEAN]
      /\ Shell(p).file = call[p].file /\ Shell(p).msg = call[p].msg
  <2>1. RemovesOnlyOnFailure(p) \in BOOLEAN
    BY DEF RemovesOnlyOnFailure, IInv, TypeOK
  <2>. QED
    BY <1>1, <2>1 DEF Shell
<1>3. \A c \in shells : c.file # call[p].file
  BY <1>1 DEF IInv, FilesExclusive
<1>4. accepted' \in [Procs -> Seq(Messages)]
  BY <1>1 DEF IInv, TypeOK
<1>5. TypeOK'
  BY <1>1, <1>2, <1>4 DEF object, Idle, Ways, IInv, TypeOK
<1>6. FilesExclusive'
  <2>1. call'[p].step = "idle" /\ \A q \in Procs : q # p => call'[q] = call[q]
    BY <1>1 DEF Idle, IInv, TypeOK
  <2>2. \A c, d \in shells' : c.file = d.file => c = d
    BY <1>1, <1>2, <1>3 DEF IInv, FilesExclusive
  <2>3. \A q, r \in Procs :
          call'[q].step # "idle" /\ call'[r].step # "idle"
            /\ call'[q].file = call'[r].file => q = r
    BY <2>1 DEF IInv, FilesExclusive
  <2>4. \A q \in Procs, c \in shells' :
          call'[q].step # "idle" => call'[q].file # c.file
    BY <1>1, <1>2, <2>1 DEF IInv, FilesExclusive
  <2>. QED
    BY <2>2, <2>3, <2>4 DEF FilesExclusive
<1>7. OwnersHoldTheirFiles'
  BY <1>1, <1>2 DEF Idle, IInv, TypeOK, OwnersHoldTheirFiles
<1>8. ShellsReadTheirMessage' /\ WrittenIsMessage'
  BY <1>1, <1>2 DEF Idle, IInv, TypeOK, ShellsReadTheirMessage, WrittenIsMessage
<1>9. BusyIsRunning' /\ ModesAgree'
  BY <1>1 DEF Idle, object, IInv, TypeOK, BusyIsRunning, ModesAgree
<1>. QED
  BY <1>5, <1>6, <1>7, <1>8, <1>9 DEF IInv

LEMMA ShellRunsStep ==
    ASSUME IInv, NEW c \in shells, ShellRuns(c)
    PROVE  IInv'
<1>1. UNCHANGED <<object, call, content, accepted>>
  BY DEF ShellRuns
<1>2. BusyIsRunning' /\ ModesAgree'
  BY <1>1 DEF object, IInv, BusyIsRunning, ModesAgree
<1>3. CASE shells' = (shells \ {c}) \cup {Exited(c)} /\ UNCHANGED <<exists, left>>
  <2>1. Exited(c).file = c.file /\ Exited(c).step = "exited"
    BY DEF Exited
  <2>2. TypeOK'
    BY <1>1, <1>3 DEF Exited, object, IInv, TypeOK
  <2>3. FilesExclusive'
    BY <1>1, <1>3, <2>1 DEF IInv, FilesExclusive
  <2>4. OwnersHoldTheirFiles' /\ ShellsReadTheirMessage' /\ WrittenIsMessage'
    BY <1>1, <1>3, <2>1
       DEF IInv, OwnersHoldTheirFiles, ShellsReadTheirMessage, WrittenIsMessage
  <2>. QED
    BY <1>2, <2>2, <2>3, <2>4 DEF IInv
<1>4. CASE /\ shells' = shells \ {c}
           /\ exists' \in {exists, exists \ {c.file}}
           /\ UNCHANGED left \/ left' = [left EXCEPT ![c.file] = "success"]
  <2>1. TypeOK'
    BY <1>1, <1>4 DEF object, Ways, IInv, TypeOK
  <2>2. FilesExclusive' /\ OwnersHoldTheirFiles'
    BY <1>1, <1>4 DEF IInv, FilesExclusive, OwnersHoldTheirFiles
  <2>3. ShellsReadTheirMessage' /\ WrittenIsMessage'
    BY <1>1, <1>4 DEF IInv, FilesExclusive, ShellsReadTheirMessage, WrittenIsMessage
  <2>. QED
    BY <1>2, <2>1, <2>2, <2>3 DEF IInv
<1>. QED
  BY <1>3, <1>4 DEF ShellRuns

\* rm takes the file of its own shell and of nobody else, and so does no rm.
LEMMA ShellEndsStep ==
    ASSUME IInv, NEW c \in shells, ShellRemoves(c) \/ ShellDies(c)
    PROVE  IInv'
<1>1. /\ UNCHANGED <<object, call, content, accepted>>
      /\ shells' = shells \ {c} /\ exists' \in {exists, exists \ {c.file}}
      /\ UNCHANGED left \/ \E w \in Ways : left' = [left EXCEPT ![c.file] = w]
  BY DEF ShellRemoves, ShellDies, Ways
<1>2. TypeOK'
  BY <1>1 DEF object, IInv, TypeOK
<1>3. FilesExclusive' /\ OwnersHoldTheirFiles'
  BY <1>1 DEF IInv, FilesExclusive, OwnersHoldTheirFiles
<1>4. ShellsReadTheirMessage' /\ WrittenIsMessage'
  BY <1>1 DEF IInv, FilesExclusive, ShellsReadTheirMessage, WrittenIsMessage
<1>5. BusyIsRunning' /\ ModesAgree'
  BY <1>1 DEF object, IInv, BusyIsRunning, ModesAgree
<1>. QED
  BY <1>2, <1>3, <1>4, <1>5 DEF IInv

\* DEBUG is 2 or not.
LEMMA CallsCases ==
    ASSUME NEW p \in Procs, Calls(p)
    PROVE  \/ LifeCycle(p) \/ Recreate(p)
           \/ \E b \in Messages \cup {NoMessage} : PublishName(p, b)
<1>1. DebugIs2(p) \subseteq BOOLEAN
  BY DEF DebugIs2
<1>. QED
  BY <1>1 DEF Calls, LifeCycle

LEMMA StepIInv == IInv /\ [Next]_vars => IInv'
<1>. SUFFICES ASSUME IInv, [Next]_vars PROVE IInv'
  OBVIOUS
<1>1. CASE UNCHANGED vars
  BY <1>1 DEF vars, object, scratch, IInv, TypeOK, FilesExclusive,
              OwnersHoldTheirFiles, ShellsReadTheirMessage, WrittenIsMessage,
              BusyIsRunning, ModesAgree
<1>2. ASSUME NEW p \in Procs, Calls(p) \/ Proceeds(p)
      PROVE  IInv'
  BY <1>2, LifeCycleStep, RecreateStep, PublishNameStep, PublishWriteStep,
     PublishSendStep, CallsCases DEF Proceeds
<1>3. ASSUME NEW c \in shells, ShellRuns(c) \/ ShellRemoves(c) \/ ShellDies(c)
      PROVE  IInv'
  BY <1>3, ShellRunsStep, ShellEndsStep
<1>. QED
  BY <1>1, <1>2, <1>3 DEF Next, ShellStep

THEOREM Inductive == Spec => []IInv
  BY InitIInv, StepIInv, PTL DEF Spec

\* Every variable keeps its type, whatever the processes and their plugins.
THEOREM TypeCorrect == Spec => []TypeOK
  BY Inductive, PTL DEF IInv

\* Every program that a publisher starts reads the message it was started for.
THEOREM ReadsOwnMessage == Spec => []ShellsReadTheirMessage
  BY Inductive, PTL DEF IInv

\* No two publishes or shells, of any processes, ever use the same file.
THEOREM Exclusive == Spec => []FilesExclusive
  BY Inductive, PTL DEF IInv
-----------------------------------------------------------------------------
\* Who else owns a file than the process p, or than the shell c.
OwnedByOther(p, n) == \/ \E c \in shells : c.file = n
                      \/ \E q \in Procs \ {p} : ~Free(q) /\ call[q].file = n

OwnedByOtherShell(c, n) == \/ \E d \in shells \ {c} : d.file = n
                           \/ \E p \in Procs : ~Free(p) /\ call[p].file = n

LEMMA OwnedSplit ==
    ASSUME NEW p \in Procs, NEW n
    PROVE  Owned(n) <=> OwnedByOther(p, n) \/ (~Free(p) /\ call[p].file = n)
  BY DEF Owned, OwnedByOther

LEMMA OwnedSplitShell ==
    ASSUME NEW c \in shells, NEW n
    PROVE  Owned(n) <=> OwnedByOtherShell(c, n) \/ c.file = n
  BY DEF Owned, OwnedByOtherShell

\* What p does with its call changes nothing for the other owners, and the file
\* of p is nobody else's.
LEMMA OthersOwn ==
    ASSUME IInv, NEW p \in Procs, UNCHANGED shells,
           \A q \in Procs \ {p} : call'[q] = call[q]
    PROVE  /\ \A n : Owned(n)' <=> \/ OwnedByOther(p, n)
                                   \/ call'[p].step # "idle" /\ call'[p].file = n
           /\ ~Free(p) => ~OwnedByOther(p, call[p].file)
<1>1. ASSUME NEW n
      PROVE  Owned(n)' <=> \/ OwnedByOther(p, n)
                           \/ call'[p].step # "idle" /\ call'[p].file = n
  BY DEF Owned, OwnedByOther
<1>2. ~Free(p) => ~OwnedByOther(p, call[p].file)
  BY DEF OwnedByOther, IInv, FilesExclusive
<1>. QED
  BY <1>1, <1>2

\* A file that was left behind is still there, so that no name of one is made up
\* again.
LeftRemain == \A n \in Names : left[n] # "no" => n \in exists

Traced(n) == /\ Owned(n) <=> n \in exists /\ left[n] = "no"
             /\ left[n] # "no" => n \in exists

LEMMA TracedIs == LeftOnlyByFaults /\ LeftRemain <=> \A n \in Names : Traced(n)
  BY DEF LeftOnlyByFaults, LeftRemain, Traced

LEMMA RecreateTraced ==
    ASSUME IInv, NEW p \in Procs, Recreate(p), NEW n \in Names, Traced(n)
    PROVE  Traced(n)'
<1>1. /\ UNCHANGED <<exists, shells>>
      /\ call' = [call EXCEPT ![p] = Idle]
      /\ IF Free(p) THEN UNCHANGED left
                    ELSE left' = [left EXCEPT ![call[p].file] = "crash"]
      /\ left \in [Names -> Ways \cup {"no"}]
  BY DEF Recreate, scratch, IInv, TypeOK
<1>2. call'[p].step = "idle" /\ \A q \in Procs \ {p} : call'[q] = call[q]
  BY <1>1 DEF Idle, IInv, TypeOK
<1>3. Owned(n)' <=> OwnedByOther(p, n)
  BY <1>1, <1>2, OthersOwn
<1>4. CASE Free(p) \/ call[p].file # n
  BY <1>1, <1>3, <1>4, OwnedSplit DEF Traced
<1>5. CASE ~Free(p) /\ call[p].file = n
  <2>1. ~OwnedByOther(p, n)
    BY <1>1, <1>2, <1>5, OthersOwn
  <2>2. n \in exists /\ left'[n] = "crash"
    BY <1>1, <1>5 DEF IInv, OwnersHoldTheirFiles
  <2>. QED
    BY <1>1, <1>3, <2>1, <2>2 DEF Traced
<1>. QED
  BY <1>4, <1>5

LEMMA PublishNameTraced ==
    ASSUME IInv, NEW p \in Procs, NEW b \in Messages \cup {NoMessage},
           PublishName(p, b), NEW n \in Names, Traced(n)
    PROVE  Traced(n)'
<1>1. PICK k \in Names \ exists :
        /\ exists' = exists \cup {k}
        /\ call' = [call EXCEPT ![p] = [step |-> "named", msg |-> b, file |-> k]]
  BY DEF PublishName
<1>2. Free(p) /\ UNCHANGED <<shells, left>>
  BY DEF PublishName, Publishing
<1>3. /\ call'[p].step = "named" /\ call'[p].file = k
      /\ \A q \in Procs \ {p} : call'[q] = call[q]
  BY <1>1 DEF IInv, TypeOK
<1>4. Owned(n)' <=> OwnedByOther(p, n) \/ n = k
  BY <1>2, <1>3, OthersOwn
<1>5. Owned(n) <=> OwnedByOther(p, n)
  BY <1>2, OwnedSplit
<1>. QED
  BY <1>1, <1>2, <1>4, <1>5 DEF Traced

LEMMA PublishWriteTraced ==
    ASSUME IInv, NEW p \in Procs, PublishWrite(p), NEW n \in Names, Traced(n)
    PROVE  Traced(n)'
<1>. DEFINE k == call[p].file
<1>1. /\ call[p].step = "named" /\ UNCHANGED shells /\ k \in exists /\ k \in Names
      /\ left \in [Names -> Ways \cup {"no"}]
  BY DEF PublishWrite, IInv, TypeOK, OwnersHoldTheirFiles
<1>2. \A q \in Procs \ {p} : call'[q] = call[q]
  BY DEF PublishWrite, IInv, TypeOK
<1>3. /\ Owned(n)' <=> \/ OwnedByOther(p, n)
                       \/ call'[p].step # "idle" /\ call'[p].file = n
      /\ ~OwnedByOther(p, k)
      /\ Owned(n) <=> OwnedByOther(p, n) \/ k = n
  BY <1>1, <1>2, OthersOwn, OwnedSplit
<1>4. CASE /\ UNCHANGED left /\ exists' = exists \cup {k}
           /\ call' = [call EXCEPT ![p] =
                          [step |-> "written", msg |-> @.msg, file |-> k]]
  <2>1. call'[p].step = "written" /\ call'[p].file = k
    BY <1>4 DEF IInv, TypeOK
  <2>. QED
    BY <1>1, <1>3, <1>4, <2>1 DEF Traced
<1>5. CASE /\ UNCHANGED left /\ exists' = exists \ {k}
           /\ call' = [call EXCEPT ![p] = Idle]
  <2>1. call'[p].step = "idle"
    BY <1>5 DEF Idle, IInv, TypeOK
  <2>. QED
    BY <1>1, <1>3, <1>5, <2>1 DEF Traced
<1>6. CASE /\ \E w \in {"remove", "write"} : left' = [left EXCEPT ![k] = w]
           /\ exists' \in {exists, exists \cup {k}}
           /\ call' = [call EXCEPT ![p] = Idle]
  <2>1. call'[p].step = "idle"
    BY <1>6 DEF Idle, IInv, TypeOK
  <2>2. left'[k] # "no" /\ (n # k => left'[n] = left[n])
    BY <1>1, <1>6
  <2>. QED
    BY <1>1, <1>3, <1>6, <2>1, <2>2 DEF Traced
<1>. QED
  BY <1>4, <1>5, <1>6 DEF PublishWrite

LEMMA PublishSendTraced ==
    ASSUME IInv, NEW p \in Procs, PublishSend(p), NEW n \in Names, Traced(n)
    PROVE  Traced(n)'
<1>. DEFINE k == call[p].file
<1>1. /\ call[p].step = "written" /\ UNCHANGED exists /\ k \in exists /\ k \in Names
      /\ left \in [Names -> Ways \cup {"no"}]
      /\ call'[p].step = "idle"
      /\ \A q \in Procs \ {p} : call'[q] = call[q]
  BY DEF PublishSend, Idle, IInv, TypeOK, OwnersHoldTheirFiles
<1>2. ~OwnedByOther(p, k) /\ (Owned(n) <=> OwnedByOther(p, n) \/ k = n)
  BY <1>1, OwnedSplit DEF OwnedByOther, IInv, FilesExclusive
<1>3. CASE shells' = shells \cup {Shell(p)} /\ UNCHANGED left
  <2>1. Owned(n)' <=> OwnedByOther(p, n) \/ Shell(p).file = n
    BY <1>1, <1>3 DEF Owned, OwnedByOther
  <2>2. Shell(p).file = k
    BY DEF Shell
  <2>. QED
    BY <1>1, <1>2, <1>3, <2>1, <2>2 DEF Traced
<1>4. CASE UNCHANGED shells /\ left' = [left EXCEPT ![k] = "fork"]
  <2>1. Owned(n)' <=> OwnedByOther(p, n)
    BY <1>1, <1>4 DEF Owned, OwnedByOther
  <2>2. left'[k] = "fork" /\ (n # k => left'[n] = left[n])
    BY <1>1, <1>4
  <2>. QED
    BY <1>1, <1>2, <2>1, <2>2 DEF Traced
<1>. QED
  BY <1>3, <1>4 DEF PublishSend

LEMMA ShellTraced ==
    ASSUME IInv, NEW c \in shells, ShellRuns(c) \/ ShellRemoves(c) \/ ShellDies(c),
           NEW n \in Names, Traced(n)
    PROVE  Traced(n)'
<1>. DEFINE k == c.file
<1>1. /\ UNCHANGED call /\ k \in exists /\ k \in Names
      /\ left \in [Names -> Ways \cup {"no"}]
  BY DEF ShellRuns, ShellRemoves, ShellDies, IInv, TypeOK, OwnersHoldTheirFiles
<1>2. ~OwnedByOtherShell(c, k) /\ (Owned(n) <=> OwnedByOtherShell(c, n) \/ k = n)
  BY OwnedSplitShell DEF OwnedByOtherShell, IInv, FilesExclusive
<1>3. CASE /\ shells' = (shells \ {c}) \cup {Exited(c)}
           /\ UNCHANGED <<exists, left>>
  <2>1. Owned(n)' <=> OwnedByOtherShell(c, n) \/ Exited(c).file = n
    BY <1>1, <1>3 DEF Owned, OwnedByOtherShell
  <2>2. Exited(c).file = k
    BY DEF Exited
  <2>. QED
    BY <1>2, <1>3, <2>1, <2>2 DEF Traced
<1>4. CASE shells' = shells \ {c} /\ exists' = exists \ {k} /\ UNCHANGED left
  <2>1. Owned(n)' <=> OwnedByOtherShell(c, n)
    BY <1>1, <1>4 DEF Owned, OwnedByOtherShell
  <2>. QED
    BY <1>1, <1>2, <1>4, <2>1 DEF Traced
<1>5. CASE /\ shells' = shells \ {c} /\ UNCHANGED exists
           /\ \E w \in {"success", "rm", "killed"} : left' = [left EXCEPT ![k] = w]
  <2>1. Owned(n)' <=> OwnedByOtherShell(c, n)
    BY <1>1, <1>5 DEF Owned, OwnedByOtherShell
  <2>2. left'[k] # "no" /\ (n # k => left'[n] = left[n])
    BY <1>1, <1>5
  <2>. QED
    BY <1>1, <1>2, <1>5, <2>1, <2>2 DEF Traced
<1>. QED
  BY <1>3, <1>4, <1>5 DEF ShellRuns, ShellRemoves, ShellDies

LEMMA StepTraced ==
    ASSUME IInv, [Next]_vars, NEW n \in Names, Traced(n)
    PROVE  Traced(n)'
<1>1. CASE UNCHANGED <<call, exists, shells, left>>
  BY <1>1 DEF Traced, Owned
<1>2. ASSUME NEW p \in Procs, LifeCycle(p)
      PROVE  UNCHANGED <<call, exists, shells, left>>
  BY <1>2 DEF LifeCycle, Config, Initialize, Pause, Resume, Finalize, Refuse, scratch
<1>3. ASSUME NEW p \in Procs, Calls(p) \/ Proceeds(p)
      PROVE  Traced(n)'
  BY <1>1, <1>2, <1>3, CallsCases, RecreateTraced, PublishNameTraced,
     PublishWriteTraced, PublishSendTraced DEF Proceeds
<1>4. ASSUME NEW c \in shells, ShellRuns(c) \/ ShellRemoves(c) \/ ShellDies(c)
      PROVE  Traced(n)'
  BY <1>4, ShellTraced
<1>5. CASE UNCHANGED vars
  BY <1>1, <1>5 DEF vars, scratch
<1>. QED
  BY <1>3, <1>4, <1>5 DEF Next, ShellStep

\* Whatever the interleaving, every file has an owner or was itself left by one
\* of the seven faults.
THEOREM LeftByFaults == Spec => []LeftOnlyByFaults
<1>1. Init => LeftOnlyByFaults /\ LeftRemain
  BY DEF Init, Idle, LeftOnlyByFaults, LeftRemain, Owned
<1>2. IInv /\ (LeftOnlyByFaults /\ LeftRemain) /\ [Next]_vars
        => (LeftOnlyByFaults /\ LeftRemain)'
  <2>. SUFFICES ASSUME IInv, LeftOnlyByFaults, LeftRemain, [Next]_vars
                PROVE  (LeftOnlyByFaults /\ LeftRemain)'
    OBVIOUS
  <2>1. \A n \in Names : Traced(n)
    BY TracedIs
  <2>2. \A n \in Names : Traced(n)'
    BY <2>1, StepTraced
  <2>. QED
    BY <2>2 DEF LeftOnlyByFaults, LeftRemain, Traced
<1>. QED
  BY <1>1, <1>2, Inductive, PTL DEF Spec
-----------------------------------------------------------------------------
(***************************************************************************)
(* Every process keeps the promises of publisher_api: the refinement, from *)
(* the inductive invariant and the shape of the replies.                   *)
(***************************************************************************)
LastShape == last = [p \in Procs |-> last[p]]

\* What a call replies, and that it replies to nobody else.
LEMMA Told ==
    ASSUME LastShape, NEW p \in Procs, NEW c, NEW code, Return(p, c, code)
    PROVE  /\ last'[p] = [call |-> c, code |-> code] /\ LastShape'
           /\ \A q \in Procs \ {p} : last'[q] = last[q]
  BY DEF LastShape, Return

\* Each step replies to its caller, or to nobody.
LEMMA Replies ==
    ASSUME NEW p \in Procs, Calls(p) \/ Proceeds(p)
    PROVE  last' = last \/ \E c, code : Return(p, c, code)
<1>1. ASSUME NEW d2 \in BOOLEAN, Config(p, d2) \/ Initialize(p, d2)
      PROVE  \E c, code : Return(p, c, code)
  BY <1>1 DEF Config, Initialize
<1>2. ASSUME Pause(p) \/ Resume(p) \/ Finalize(p) \/ Recreate(p)
      PROVE  \E c, code : Return(p, c, code)
  BY <1>2 DEF Pause, Resume, Finalize, Recreate
<1>3. ASSUME NEW b \in Messages \cup {NoMessage}, Refuse(p, b) \/ PublishName(p, b)
      PROVE  last' = last \/ \E c, code : Return(p, c, code)
  BY <1>3 DEF Refuse, PublishName
<1>4. ASSUME Proceeds(p)
      PROVE  last' = last \/ \E c, code : Return(p, c, code)
  BY <1>4 DEF Proceeds, PublishWrite, PublishSend
<1>. QED
  BY <1>1, <1>2, <1>3, <1>4, CallsCases DEF LifeCycle

LEMMA ShellsReplyNothing ==
    ASSUME NEW c \in shells, ShellRuns(c) \/ ShellRemoves(c) \/ ShellDies(c)
    PROVE  UNCHANGED <<object, accepted, last>>
  BY DEF ShellRuns, ShellRemoves, ShellDies

LEMMA LastShapeKept == Spec => []LastShape
<1>1. Init => LastShape
  BY DEF Init, LastShape
<1>2. LastShape /\ [Next]_vars => LastShape'
  <2>. SUFFICES ASSUME LastShape, [Next]_vars PROVE LastShape'
    OBVIOUS
  <2>1. last' = last => LastShape'
    BY DEF LastShape
  <2>2. ASSUME NEW p \in Procs, Calls(p) \/ Proceeds(p) PROVE LastShape'
    BY <2>1, <2>2, Replies, Told
  <2>3. ASSUME NEW c \in shells, ShellRuns(c) \/ ShellRemoves(c) \/ ShellDies(c)
        PROVE  LastShape'
    BY <2>1, <2>3, ShellsReplyNothing
  <2>. QED
    BY <2>1, <2>2, <2>3 DEF Next, ShellStep, vars
<1>. QED
  BY <1>1, <1>2, PTL DEF Spec

Keeps(p) == Api(p)!Next \/ UNCHANGED Api(p)!vars

LEMMA Invisible ==
    ASSUME NEW p \in Procs,
           /\ mode'[p] = mode[p] /\ state'[p] = state[p] /\ fdir'[p] = fdir[p]
           /\ paused'[p] = paused[p] /\ accepted'[p] = accepted[p] /\ last'[p] = last[p]
    PROVE  Keeps(p)
<1>1. Phase(p)' = Phase(p)
  BY DEF Phase
<1>. QED
  BY <1>1 DEF Keeps, Api!vars

LEMMA OthersKeep ==
    ASSUME TypeOK, LastShape, NEW q \in Procs, Calls(q) \/ Proceeds(q),
           NEW p \in Procs \ {q}
    PROVE  Keeps(p)
<1>1. last'[p] = last[p]
  BY Replies, Told
<1>2. /\ mode'[p] = mode[p] /\ state'[p] = state[p] /\ fdir'[p] = fdir[p]
      /\ paused'[p] = paused[p] /\ accepted'[p] = accepted[p]
  <2>1. ASSUME NEW d2 \in BOOLEAN, Config(q, d2) \/ Initialize(q, d2)
        PROVE  /\ mode'[p] = mode[p] /\ state'[p] = state[p] /\ fdir'[p] = fdir[p]
               /\ paused'[p] = paused[p] /\ accepted'[p] = accepted[p]
    BY <2>1 DEF Config, Initialize, TypeOK
  <2>2. ASSUME Pause(q) \/ Resume(q) \/ Finalize(q) \/ Recreate(q)
        PROVE  /\ mode'[p] = mode[p] /\ state'[p] = state[p] /\ fdir'[p] = fdir[p]
               /\ paused'[p] = paused[p] /\ accepted'[p] = accepted[p]
    BY <2>2 DEF Pause, Resume, Finalize, Recreate, TypeOK
  <2>3. ASSUME NEW b \in Messages \cup {NoMessage}, Refuse(q, b) \/ PublishName(q, b)
        PROVE  UNCHANGED <<mode, state, fdir, paused, accepted>>
    BY <2>3 DEF Refuse, PublishName, object
  <2>4. ASSUME Proceeds(q)
        PROVE  /\ UNCHANGED <<mode, state, fdir, paused>>
               /\ accepted'[p] = accepted[p]
    BY <2>4 DEF Proceeds, PublishWrite, PublishSend, object, TypeOK
  <2>. QED
    BY <2>1, <2>2, <2>3, <2>4, CallsCases DEF LifeCycle
<1>. QED
  BY <1>1, <1>2, Invisible

LEMMA ConfigKeeps ==
    ASSUME IInv, LastShape, NEW p \in Procs, NEW d2 \in BOOLEAN, Config(p, d2)
    PROVE  Keeps(p)
<1>1. /\ UNCHANGED <<state, paused, accepted>> /\ TypeOK
      /\ state[p] = "err" => mode[p] = "pi_init"
  BY DEF Config, IInv, ModesAgree
<1>2. CASE /\ mode[p] # "pi_config" /\ Return(p, "config", "wrong_mode")
           /\ UNCHANGED <<mode, fdir>>
  <2>1. last'[p] = [call |-> "config", code |-> "wrong_mode"]
    BY <1>2, Told
  <2>2. Phase(p)' = Phase(p) /\ Phase(p) \notin {"new", "finalized"}
    BY <1>1, <1>2 DEF Phase, TypeOK
  <2>3. Api(p)!Config
    BY <1>1, <2>1, <2>2 DEF Api!Config, Api!Return
  <2>. QED
    BY <2>3 DEF Keeps, Api!Next
<1>3. CASE /\ mode[p] = "pi_config" /\ mode' = [mode EXCEPT ![p] = "pi_init"]
           /\ Return(p, "config", "ok")
  <2>1. last'[p] = [call |-> "config", code |-> "ok"]
    BY <1>3, Told
  <2>2. Phase(p) \in {"new", "finalized"} /\ Phase(p)' = "configured"
    BY <1>1, <1>3 DEF Phase, TypeOK
  <2>3. Api(p)!Config
    BY <1>1, <2>1, <2>2 DEF Api!Config, Api!Return
  <2>. QED
    BY <2>3 DEF Keeps, Api!Next
<1>. QED
  BY <1>2, <1>3 DEF Config

LEMMA InitializeKeeps ==
    ASSUME IInv, LastShape, NEW p \in Procs, NEW d2 \in BOOLEAN, Initialize(p, d2)
    PROVE  Keeps(p)
<1>. DEFINE m == Defaulted(p, d2).mode
<1>1. /\ UNCHANGED paused /\ TypeOK
      /\ fdir' = [fdir EXCEPT ![p] = TRUE]
      /\ state[p] = "err" => mode[p] = "pi_init"
      /\ mode[p] # "pi_config" => fdir[p]
  BY DEF Initialize, IInv, ModesAgree
<1>2. /\ fdir'[p] = TRUE
      /\ m = IF ~fdir[p] /\ mode[p] = "pi_config" THEN "pi_init" ELSE mode[p]
      /\ mode[p] \in {"pi_config", "pi_init", "pi_pub_or_final"}
      /\ state[p] \in {"ok", "err"}
  BY <1>1 DEF Defaulted, TypeOK
<1>3. CASE /\ m # "pi_init" /\ Return(p, "initialize", "wrong_mode")
           /\ UNCHANGED <<mode, state, accepted>>
  <2>1. last'[p] = [call |-> "initialize", code |-> "wrong_mode"]
    BY <1>3, Told
  <2>2. Phase(p)' = Phase(p) /\ Phase(p) \in {"running", "finalized"}
    BY <1>1, <1>2, <1>3 DEF Phase
  <2>3. Api(p)!Initialize
    BY <1>1, <1>3, <2>1, <2>2 DEF Api!Initialize, Api!Return
  <2>. QED
    BY <2>3 DEF Keeps, Api!Next
<1>4. CASE /\ m = "pi_init" /\ state[p] = "err"
           /\ Return(p, "initialize", "prior_error")
           /\ UNCHANGED <<mode, state, accepted>>
  <2>1. last'[p] = [call |-> "initialize", code |-> "prior_error"]
    BY <1>4, Told
  <2>2. Phase(p)' = Phase(p) /\ Phase(p) = "failed"
    BY <1>4 DEF Phase
  <2>3. Api(p)!Initialize
    BY <1>1, <1>4, <2>1, <2>2 DEF Api!Initialize, Api!Return
  <2>. QED
    BY <2>3 DEF Keeps, Api!Next
<1>5. CASE /\ m = "pi_init" /\ state[p] = "ok"
           /\ state' = [state EXCEPT ![p] = "err"]
           /\ Return(p, "initialize", "os_error") /\ UNCHANGED accepted
  <2>1. last'[p] = [call |-> "initialize", code |-> "os_error"]
    BY <1>5, Told
  <2>2. Phase(p) \in {"new", "configured"} /\ Phase(p)' = "failed"
    BY <1>1, <1>2, <1>5 DEF Phase, TypeOK
  <2>3. Api(p)!Initialize
    BY <1>1, <1>5, <2>1, <2>2 DEF Api!Initialize, Api!Return
  <2>. QED
    BY <2>3 DEF Keeps, Api!Next
<1>6. CASE /\ m = "pi_init" /\ state[p] = "ok" /\ UNCHANGED state
           /\ mode' = [mode EXCEPT ![p] = "pi_pub_or_final"]
           /\ accepted' = [accepted EXCEPT ![p] = <<>>]
           /\ Return(p, "initialize", "ok")
  <2>1. last'[p] = [call |-> "initialize", code |-> "ok"] /\ accepted'[p] = <<>>
    BY <1>1, <1>6, Told DEF TypeOK
  <2>2. Phase(p) \in {"new", "configured"} /\ Phase(p)' = "running"
    BY <1>1, <1>2, <1>6 DEF Phase, TypeOK
  <2>3. Api(p)!Initialize
    BY <1>1, <2>1, <2>2 DEF Api!Initialize, Api!Return
  <2>. QED
    BY <2>3 DEF Keeps, Api!Next
<1>. QED
  BY <1>3, <1>4, <1>5, <1>6 DEF Initialize

LEMMA PauseResumeKeeps ==
    ASSUME IInv, LastShape, NEW p \in Procs, Pause(p) \/ Resume(p)
    PROVE  Keeps(p)
<1>1. TypeOK /\ UNCHANGED <<mode, state, fdir, accepted>>
  BY DEF Pause, Resume, IInv
<1>2. Phase(p)' = Phase(p)
  BY <1>1 DEF Phase
<1>3. CASE Pause(p)
  <2>1. last'[p] = [call |-> "pause", code |-> "ok"] /\ paused'[p] = TRUE
    BY <1>1, <1>3, Told DEF Pause, TypeOK
  <2>2. Api(p)!Pause
    BY <1>1, <1>2, <2>1 DEF Api!Pause, Api!Return
  <2>. QED
    BY <2>2 DEF Keeps, Api!Next
<1>4. CASE Resume(p)
  <2>1. last'[p] = [call |-> "resume", code |-> "ok"] /\ paused'[p] = FALSE
    BY <1>1, <1>4, Told DEF Resume, TypeOK
  <2>2. Api(p)!Resume
    BY <1>1, <1>2, <2>1 DEF Api!Resume, Api!Return
  <2>. QED
    BY <2>2 DEF Keeps, Api!Next
<1>. QED
  BY <1>3, <1>4

LEMMA FinalizeKeeps ==
    ASSUME IInv, LastShape, NEW p \in Procs, Finalize(p)
    PROVE  Keeps(p)
<1>1. /\ TypeOK /\ UNCHANGED <<fdir, accepted>>
      /\ state[p] = "err" => mode[p] = "pi_init"
      /\ mode[p] # "pi_config" => fdir[p]
  BY DEF Finalize, IInv, ModesAgree
<1>2. last'[p] = [call |-> "finalize", code |-> "ok"]
  BY Told DEF Finalize
<1>3. CASE /\ mode[p] = "pi_pub_or_final"
           /\ state' = [state EXCEPT ![p] = "ok"]
           /\ paused' = [paused EXCEPT ![p] = FALSE]
           /\ mode' = [mode EXCEPT ![p] = "pi_config"]
  <2>1. Phase(p) = "running" /\ Phase(p)' = "finalized" /\ paused'[p] = FALSE
    BY <1>1, <1>3 DEF Phase, TypeOK
  <2>2. Api(p)!Finalize
    BY <1>1, <1>2, <2>1 DEF Api!Finalize, Api!Return
  <2>. QED
    BY <2>2 DEF Keeps, Api!Next
<1>4. CASE mode[p] # "pi_pub_or_final" /\ UNCHANGED <<mode, state, paused>>
  <2>1. Phase(p) # "running" /\ Phase(p)' = Phase(p)
    BY <1>1, <1>4 DEF Phase
  <2>2. Api(p)!Finalize
    BY <1>1, <1>2, <1>4, <2>1 DEF Api!Finalize, Api!Return
  <2>. QED
    BY <2>2 DEF Keeps, Api!Next
<1>. QED
  BY <1>3, <1>4 DEF Finalize

LEMMA RecreateKeeps ==
    ASSUME IInv, LastShape, NEW p \in Procs, Recreate(p)
    PROVE  Keeps(p)
<1>1. last'[p] = [call |-> "create", code |-> "ok"]
  BY Told DEF Recreate
<1>2. Phase(p)' = "new" /\ paused'[p] = FALSE /\ accepted' = accepted
  BY DEF Recreate, Phase, IInv, TypeOK
<1>3. Api(p)!Create
  BY <1>1, <1>2 DEF Api!Create, Api!Return
<1>. QED
  BY <1>3 DEF Keeps, Api!Next

LEMMA RefuseKeeps ==
    ASSUME IInv, LastShape, NEW p \in Procs, NEW b \in Messages \cup {NoMessage},
           Refuse(p, b)
    PROVE  Keeps(p)
<1>1. /\ TypeOK /\ UNCHANGED <<mode, state, paused, fdir, accepted>>
      /\ state[p] = "err" => mode[p] = "pi_init"
  BY DEF Refuse, object, IInv, ModesAgree
<1>2. Phase(p)' = Phase(p) /\ paused[p] \in BOOLEAN /\ state[p] \in {"ok", "err"}
  BY <1>1 DEF Phase, TypeOK
<1>3. Api(p)!Refuse(b)
  <2>1. CASE b = NoMessage /\ Return(p, "publish", "EINVAL")
    <3>1. last'[p] = [call |-> "publish", code |-> "EINVAL"]
      BY <2>1, Told
    <3>. QED
      BY <1>1, <1>2, <2>1, <3>1 DEF Api!Refuse, Api!Return
  <2>2. CASE b # NoMessage /\ paused[p] /\ Return(p, "publish", "ok")
    <3>1. last'[p] = [call |-> "publish", code |-> "ok"]
      BY <2>2, Told
    <3>. QED
      BY <1>1, <1>2, <2>2, <3>1 DEF Api!Refuse, Api!Return
  <2>3. CASE /\ b # NoMessage /\ ~paused[p]
             /\ state[p] # "ok" \/ mode[p] = "pi_pub_or_final"
             /\ Return(p, "publish", "failed")
    <3>1. last'[p] = [call |-> "publish", code |-> "failed"]
      BY <2>3, Told
    <3>2. Phase(p) \in {"failed", "running"}
      BY <1>2, <2>3 DEF Phase
    <3>. QED
      BY <1>1, <1>2, <2>3, <3>1, <3>2 DEF Api!Refuse, Api!Return
  <2>4. CASE /\ b # NoMessage /\ ~paused[p] /\ state[p] = "ok"
             /\ mode[p] # "pi_pub_or_final" /\ Return(p, "publish", "wrong_mode")
    <3>1. last'[p] = [call |-> "publish", code |-> "wrong_mode"]
      BY <2>4, Told
    <3>2. Phase(p) \notin {"failed", "running"}
      BY <2>4 DEF Phase
    <3>. QED
      BY <1>1, <1>2, <2>4, <3>1, <3>2 DEF Api!Refuse, Api!Return
  <2>. QED
    BY <2>1, <2>2, <2>3, <2>4 DEF Refuse, Publishing
<1>. QED
  BY <1>3 DEF Keeps, Api!Next, Api!Publish

\* Of the steps of a publish only the last is seen: it refuses or accepts.
LEMMA PublishKeeps ==
    ASSUME IInv, LastShape, NEW p \in Procs,
           Proceeds(p) \/ \E b \in Messages \cup {NoMessage} : PublishName(p, b)
    PROVE  Keeps(p)
<1>1. TypeOK /\ UNCHANGED <<mode, state, paused, fdir>>
  BY DEF Proceeds, PublishWrite, PublishSend, PublishName, object, IInv
<1>2. CASE UNCHANGED <<accepted, last>>
  BY <1>1, <1>2, Invisible
<1>3. ASSUME Proceeds(p)
      PROVE  /\ call[p].msg \in Messages /\ call[p].msg # NoMessage
             /\ Phase(p) = "running" /\ Phase(p)' = "running" /\ ~paused[p]
  <2>1. ~Free(p)
    BY <1>3 DEF Proceeds, PublishWrite, PublishSend
  <2>2. call[p].msg \in Messages /\ mode[p] = "pi_pub_or_final" /\ state[p] = "ok"
        /\ ~paused[p]
    BY <2>1 DEF IInv, WrittenIsMessage, BusyIsRunning
  <2>. QED
    BY <1>1, <2>2, SpawnAssumption DEF Phase
<1>4. CASE PublishWrite(p) /\ Return(p, "publish", "failed")
  <2>1. last'[p] = [call |-> "publish", code |-> "failed"] /\ accepted' = accepted
    BY <1>4, Told DEF PublishWrite
  <2>2. \E b \in Messages \cup {NoMessage} : Api(p)!Refuse(b)
    <3>1. Api(p)!Refuse(call[p].msg)
      BY <1>1, <1>3, <1>4, <2>1 DEF Proceeds, Api!Refuse, Api!Return
    <3>. QED
      BY <1>3, <1>4, <3>1 DEF Proceeds
  <2>. QED
    BY <2>2 DEF Keeps, Api!Next, Api!Publish
<1>5. CASE PublishSend(p)
  <2>1. /\ last'[p] = [call |-> "publish", code |-> "ok"]
        /\ accepted'[p] = Append(accepted[p], call[p].msg)
    BY <1>1, <1>5, Told DEF PublishSend, TypeOK
  <2>2. Api(p)!Accept(call[p].msg)
    BY <1>1, <1>3, <1>5, <2>1 DEF Proceeds, Api!Accept, Api!Return
  <2>. QED
    BY <1>3, <1>5, <2>2 DEF Proceeds, Keeps, Api!Next, Api!Publish
<1>. QED
  BY <1>2, <1>4, <1>5 DEF Proceeds, PublishWrite, PublishName

\* Each of the plugins implements the publisher interface, for any number of
\* processes and shells.
THEOREM Refinement == Spec => ImplementsApi
<1>1. Init => \A p \in Procs : Api(p)!Init
  <2>. SUFFICES ASSUME Init, NEW p \in Procs PROVE Api(p)!Init
    OBVIOUS
  <2>1. Phase(p) = "new"
    BY DEF Init, Phase
  <2>. QED
    BY <2>1 DEF Init, Api!Init
<1>2. IInv /\ LastShape /\ [Next]_vars =>
        \A p \in Procs : UNCHANGED Api(p)!vars \/ Api(p)!Next
  <2>. SUFFICES ASSUME IInv, LastShape, [Next]_vars, NEW p \in Procs PROVE Keeps(p)
    BY DEF Keeps
  <2>1. CASE Calls(p) \/ Proceeds(p)
    BY <2>1, ConfigKeeps, InitializeKeeps, PauseResumeKeeps, FinalizeKeeps,
       RecreateKeeps, RefuseKeeps, PublishKeeps, CallsCases DEF LifeCycle
  <2>2. ASSUME NEW q \in Procs \ {p}, Calls(q) \/ Proceeds(q) PROVE Keeps(p)
    BY <2>2, OthersKeep DEF IInv
  <2>3. ASSUME NEW c \in shells, ShellRuns(c) \/ ShellRemoves(c) \/ ShellDies(c)
        PROVE  Keeps(p)
    BY <2>3, ShellsReplyNothing, Invisible DEF object
  <2>4. CASE UNCHANGED vars
    BY <2>4, Invisible DEF vars, object
  <2>. QED
    BY <2>1, <2>2, <2>3, <2>4 DEF Next, ShellStep
<1>. QED
  BY <1>1, <1>2, Inductive, LastShapeKept, PTL DEF Spec, ImplementsApi
=============================================================================

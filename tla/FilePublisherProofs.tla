------------------------ MODULE FilePublisherProofs ------------------------
(***************************************************************************)
(* Proofs about FilePublisher for any messages, options, environments and  *)
(* file lengths.                                                           *)
(***************************************************************************)
EXTENDS FilePublisher, TLAPS

(***************************************************************************)
(* The inductive invariant.  SettledOnDisk is not inductive: that a record *)
(* lands at the index of its message needs StreamAligned, which speaks of  *)
(* a stream all of whose writes succeeded; a failed write keeps            *)
(* SettledOnDisk because the stream is then bad and takes no other.        *)
(***************************************************************************)
ModesAgree ==
    /\ state = "err" => mode = "pi_init"
    /\ mode = "pi_pub_or_final" => conf.FILE # NoName

StreamAligned ==
    /\ out = "good" => /\ ~session.failed
                       /\ Len(disk[session.path]) = session.base + Len(accepted)
    /\ out = "bad" => session.failed /\ pending \in Messages
    /\ session.failed => Len(accepted) > 0

IInv ==
    /\ TypeOK
    /\ StreamOpenIffRunning
    /\ ModesAgree
    /\ StreamAligned
    /\ SettledOnDisk

\* Looking an option up gives a well-formed configuration.
LEMMA LookupType ==
    ASSUME NEW m \in OptionMaps \cup {<<>>}, NEW env \in Environments
    PROVE  Lookup(m, env) \in Confs
<1>1. ASSUME NEW k \in DOMAIN Values
      PROVE  Get(m, env, k) \in Values[k]
  <2>1. DefaultConf[k] \in Values[k]
    BY FileAssumption DEF Values, Confs
  <2>2. CASE m \in OptionMaps
    BY <2>1, <2>2, FileAssumption DEF Get
  <2>3. CASE m = <<>>
    <3>1. k \notin DOMAIN m
      BY <2>3
    <3>. QED
      BY <2>1, <3>1, FileAssumption DEF Get
  <2>. QED
    BY <2>2, <2>3
<1>. QED
  BY <1>1 DEF Lookup, Values, Confs

\* A new file name always differs from the empty one, so paths exist.
LEMMA PathsExist == (CHOOSE p \in Paths : TRUE) \in Paths
<1>1. <<DefaultConf.DIRECTORY, DefaultConf.FILE>> \in Paths
  BY FileAssumption DEF Confs, Paths
<1>. QED
  BY <1>1

LEMMA InitIInv == Init => IInv
<1>. SUFFICES ASSUME Init PROVE IInv
  OBVIOUS
<1>1. conf \in Confs
  BY FileAssumption DEF Init, Constructed, Confs
<1>2. session.path \in Paths /\ session.base = 0 /\ session.failed = FALSE
  BY PathsExist DEF Init
<1>3. TypeOK
  BY <1>1, PathsExist DEF Init, TypeOK, Constructed
<1>4. StreamOpenIffRunning /\ ModesAgree
  BY DEF Init, Constructed, StreamOpenIffRunning, ModesAgree
<1>5. StreamAligned /\ SettledOnDisk
  BY <1>2 DEF Init, Constructed, StreamAligned, SettledOnDisk, Settled
<1>. QED
  BY <1>3, <1>4, <1>5 DEF IInv

\* Growing the file of the session, as a write, a close and a crash do, keeps
\* what is settled in it.
LEMMA GrowKeepsSettled ==
    ASSUME TypeOK, SettledOnDisk, NEW r \in Records,
           disk' = [disk EXCEPT ![session.path] = Append(@, r)],
           UNCHANGED <<session, accepted>>
    PROVE  SettledOnDisk' /\ disk' \in [Paths -> Seq(Records)]
<1>. DEFINE p == session.path
<1>1. p \in Paths /\ session' = session /\ accepted' = accepted
  BY DEF TypeOK
<1>2. disk[p] \in Seq(Records) /\ disk'[p] = Append(disk[p], r)
  BY <1>1 DEF TypeOK
<1>3. disk' \in [Paths -> Seq(Records)]
  BY <1>1, <1>2 DEF TypeOK
<1>4. Settled' = Settled /\ Settled \in Int
  BY <1>1 DEF Settled, TypeOK
<1>5. ASSUME NEW i \in 1 .. Settled
      PROVE  /\ session.base + i <= Len(disk'[p])
             /\ disk'[p][session.base + i] = Whole(accepted[i])
  <2>1. session.base + i \in 1 .. Len(disk[p])
    BY <1>1, <1>2, <1>4 DEF SettledOnDisk, TypeOK
  <2>2. Len(disk'[p]) = Len(disk[p]) + 1
    BY <1>2
  <2>3. disk'[p][session.base + i] = disk[p][session.base + i]
    BY <1>2, <2>1
  <2>. QED
    BY <2>1, <2>2, <2>3 DEF SettledOnDisk
<1>. QED
  BY <1>1, <1>3, <1>4, <1>5 DEF SettledOnDisk

\* An error on a write of m leaves the file as it was or longer by one record.
LEMMA ExtensionsGrow ==
    ASSUME TypeOK, SettledOnDisk, NEW m \in Messages,
           NEW s \in Extensions(disk[session.path], m),
           disk' = [disk EXCEPT ![session.path] = s],
           UNCHANGED <<session, accepted>>
    PROVE  SettledOnDisk' /\ disk' \in [Paths -> Seq(Records)]
<1>1. Torn(m) \in Records /\ Whole(m) \in Records
  BY DEF Torn, Whole, Records
<1>2. CASE s = disk[session.path]
  <2>1. disk' = disk
    BY <1>2 DEF TypeOK
  <2>. QED
    BY <2>1 DEF SettledOnDisk, Settled, TypeOK
<1>3. CASE s = Append(disk[session.path], Torn(m))
  BY <1>1, <1>3, GrowKeepsSettled
<1>4. CASE s = Append(disk[session.path], Whole(m))
  BY <1>1, <1>4, GrowKeepsSettled
<1>. QED
  BY <1>2, <1>3, <1>4 DEF Extensions

LEMMA ConfigStep ==
    ASSUME IInv, NEW m \in OptionMaps, NEW env \in Environments, Config(m, env)
    PROVE  IInv'
<1>1. conf' \in Confs
  BY LookupType DEF Config, IInv, TypeOK
<1>2. TypeOK'
  BY <1>1 DEF Config, IInv, TypeOK, history
<1>3. StreamOpenIffRunning' /\ ModesAgree'
  BY DEF Config, IInv, StreamOpenIffRunning, ModesAgree
<1>4. StreamAligned' /\ SettledOnDisk'
  BY DEF Config, IInv, StreamAligned, SettledOnDisk, Settled, history
<1>. QED
  BY <1>2, <1>3, <1>4 DEF IInv

LEMMA InitializeStep ==
    ASSUME IInv, NEW env \in Environments, Initialize(env)
    PROVE  IInv'
<1>. DEFINE d == Defaulted(env)
<1>1. /\ d.conf \in Confs /\ conf' = d.conf
      /\ d.mode \in {"pi_config", "pi_init", "pi_pub_or_final"}
  BY LookupType DEF Initialize, Defaulted, IInv, TypeOK
<1>2. d.mode = "pi_pub_or_final" <=> mode = "pi_pub_or_final"
  BY DEF Defaulted, IInv, TypeOK
<1>3. d.mode = "pi_pub_or_final" => d.conf = conf
  BY DEF Defaulted
<1>4. mode = "pi_init" => d.mode = "pi_init"
  BY DEF Defaulted
<1>5. CASE mode' = d.mode /\ UNCHANGED <<out, disk, history>> /\ state' \in {"ok", "err"}
           /\ (state' = "err" => d.mode = "pi_init")
  <2>1. TypeOK'
    BY <1>1, <1>5 DEF Initialize, IInv, TypeOK, history
  <2>2. StreamOpenIffRunning' /\ ModesAgree'
    BY <1>1, <1>2, <1>3, <1>5 DEF IInv, StreamOpenIffRunning, ModesAgree
  <2>3. StreamAligned' /\ SettledOnDisk'
    BY <1>5 DEF Initialize, IInv, StreamAligned, SettledOnDisk, Settled, history
  <2>. QED
    BY <2>1, <2>2, <2>3 DEF IInv
<1>6. CASE /\ mode' = "pi_pub_or_final" /\ d.mode = "pi_init" /\ state = "ok"
           /\ InitializeOpens(d.conf)
  <2>. DEFINE path == <<d.conf.DIRECTORY, d.conf.FILE>>
              kept == IF d.conf.APPEND THEN disk[path] ELSE <<>>
  <2>1. path \in Paths
    BY <1>1, <1>6 DEF InitializeOpens, Paths, Confs
  <2>2. kept \in Seq(Records) /\ Len(kept) \in Nat
    BY <2>1 DEF IInv, TypeOK
  <2>3. /\ out' = "good" /\ accepted' = <<>> /\ state' = state
        /\ disk' = [disk EXCEPT ![path] = kept]
        /\ session' = [path |-> path, base |-> Len(kept), failed |-> FALSE]
    BY <1>6 DEF InitializeOpens
  <2>4. TypeOK'
    BY <1>1, <1>6, <2>1, <2>2, <2>3 DEF Initialize, IInv, TypeOK
  <2>5. StreamOpenIffRunning' /\ ModesAgree'
    BY <1>1, <1>6, <2>3 DEF StreamOpenIffRunning, ModesAgree, InitializeOpens
  <2>6. StreamAligned'
    BY <2>1, <2>2, <2>3 DEF StreamAligned, IInv, TypeOK
  <2>7. SettledOnDisk'
    BY <2>3 DEF SettledOnDisk, Settled
  <2>. QED
    BY <2>4, <2>5, <2>6, <2>7 DEF IInv
<1>. QED
  BY <1>4, <1>5, <1>6 DEF Initialize, InitializeFails, IInv, TypeOK, ModesAgree

LEMMA WriteStep ==
    ASSUME IInv, NEW b \in Messages \cup {NoMessage}, Write(b)
    PROVE  IInv'
<1>. DEFINE p == session.path
<1>1. /\ b \in Messages /\ out = "good" /\ accepted' = Append(accepted, b)
      /\ session'.path = p /\ session'.base = session.base
      /\ UNCHANGED <<mode, state, paused, conf>>
      /\ out' \in {"good", "bad"}
  BY DEF Write, IInv, TypeOK, Failing
<1>2. /\ p \in Paths /\ disk[p] \in Seq(Records) /\ accepted \in Seq(Messages)
      /\ Whole(b) \in Records /\ Torn(b) \in Records
  BY <1>1 DEF IInv, TypeOK, Whole, Torn, Records
<1>3. /\ ~session.failed /\ Len(disk[p]) = session.base + Len(accepted)
      /\ session.base \in Nat
  BY <1>1 DEF IInv, StreamAligned, TypeOK
<1>4. PICK s \in Extensions(disk[p], b) : disk' = [disk EXCEPT ![p] = s]
  BY DEF Write, Extensions
<1>5. s \in Seq(Records) /\ disk' \in [Paths -> Seq(Records)] /\ disk'[p] = s
  <2>1. /\ Append(disk[p], Whole(b)) \in Seq(Records)
        /\ Append(disk[p], Torn(b)) \in Seq(Records)
    BY <1>2
  <2>2. s \in Seq(Records)
    BY <1>2, <2>1, <1>4 DEF Extensions
  <2>3. disk \in [Paths -> Seq(Records)]
    BY DEF IInv, TypeOK
  <2>. QED
    BY <1>2, <1>4, <2>2, <2>3
<1>6. Len(accepted') = Len(accepted) + 1
  BY <1>1, <1>2
<1>7. ASSUME NEW i \in 1 .. Len(accepted)
      PROVE  /\ session.base + i <= Len(s)
             /\ s[session.base + i] = Whole(accepted'[i])
  <2>1. /\ session.base + i \in 1 .. Len(disk[p])
        /\ disk[p][session.base + i] = Whole(accepted[i])
    BY <1>2, <1>3 DEF IInv, SettledOnDisk, Settled
  <2>2. accepted'[i] = accepted[i]
    BY <1>1, <1>2
  <2>3. s[session.base + i] = disk[p][session.base + i] /\ Len(s) >= Len(disk[p])
    BY <1>2, <2>1 DEF Extensions
  <2>. QED
    BY <1>2, <1>5, <2>1, <2>2, <2>3
<1>8. CASE /\ disk' = [disk EXCEPT ![p] = Append(@, Whole(b))]
           /\ UNCHANGED <<out, pending, session>>
  <2>1. TypeOK'
    BY <1>1, <1>2, <1>5, <1>8 DEF IInv, TypeOK
  <2>2. StreamOpenIffRunning' /\ ModesAgree'
    BY <1>1, <1>8 DEF IInv, StreamOpenIffRunning, ModesAgree
  <2>3. disk'[p] = Append(disk[p], Whole(b))
    BY <1>2, <1>8 DEF IInv, TypeOK
  <2>4. /\ accepted'[Len(accepted')] = b
        /\ disk'[p][session.base + Len(accepted')] = Whole(b)
        /\ Len(disk'[p]) = session.base + Len(accepted')
    <3>1. Len(accepted) \in Nat /\ accepted'[Len(accepted) + 1] = b
      BY <1>1, <1>2
    <3>2. Len(disk[p]) + 1 = session.base + Len(accepted')
      BY <1>3, <1>6, <3>1
    <3>3. /\ Len(disk'[p]) = Len(disk[p]) + 1
          /\ disk'[p][Len(disk[p]) + 1] = Whole(b)
      BY <1>2, <2>3
    <3>. QED
      BY <1>6, <3>1, <3>2, <3>3
  <2>5. StreamAligned'
    BY <1>1, <1>3, <1>8, <2>4 DEF StreamAligned
  <2>6. ASSUME NEW i \in 1 .. Len(accepted')
        PROVE  /\ session.base + i <= Len(disk'[p])
               /\ disk'[p][session.base + i] = Whole(accepted'[i])
    <3>1. CASE i = Len(accepted')
      BY <1>2, <1>3, <1>6, <2>4, <3>1
    <3>2. CASE i \in 1 .. Len(accepted)
      BY <1>5, <1>7, <3>2
    <3>. QED
      BY <1>2, <1>6, <3>1, <3>2
  <2>7. SettledOnDisk'
    BY <1>3, <1>8, <2>6 DEF SettledOnDisk, Settled
  <2>. QED
    BY <2>1, <2>2, <2>5, <2>7 DEF IInv
<1>9. CASE /\ out' = "bad" /\ pending' = b
           /\ session' = Failing(session)
  <2>1. TypeOK'
    BY <1>1, <1>2, <1>5, <1>9 DEF IInv, TypeOK, Failing
  <2>2. StreamOpenIffRunning' /\ ModesAgree'
    BY <1>1, <1>9 DEF IInv, StreamOpenIffRunning, ModesAgree
  <2>3. session'.failed = TRUE
    BY <1>9 DEF Failing
  <2>4. StreamAligned'
    BY <1>1, <1>2, <1>6, <1>9, <2>3 DEF StreamAligned
  <2>5. Settled' = Len(accepted)
    BY <1>2, <1>6, <2>3 DEF Settled
  <2>6. SettledOnDisk'
    BY <1>1, <1>5, <1>7, <2>5 DEF SettledOnDisk
  <2>. QED
    BY <2>1, <2>2, <2>4, <2>6 DEF IInv
<1>. QED
  BY <1>8, <1>9 DEF Write

LEMMA PublishStep ==
    ASSUME IInv, NEW b \in Messages \cup {NoMessage}, Publish(b)
    PROVE  IInv'
<1>1. CASE Refuse(b)
  BY <1>1 DEF Refuse, object, history, IInv, TypeOK, StreamOpenIffRunning,
              ModesAgree, StreamAligned, SettledOnDisk, Settled
<1>2. CASE Write(b)
  BY <1>2, WriteStep
<1>. QED
  BY <1>1, <1>2 DEF Publish

LEMMA PauseResumeStep ==
    ASSUME IInv, Pause \/ Resume
    PROVE  IInv'
  BY DEF Pause, Resume, history, IInv, TypeOK, StreamOpenIffRunning,
         ModesAgree, StreamAligned, SettledOnDisk, Settled

\* Closing the stream, whether or not it retries a record, keeps the types and
\* what is settled.
LEMMA CloseEffect ==
    ASSUME IInv, Close, UNCHANGED history
    PROVE  /\ out' = "closed" /\ pending' = NoMessage
           /\ disk' \in [Paths -> Seq(Records)]
           /\ SettledOnDisk' /\ StreamAligned'
<1>1. out' = "closed" /\ pending' = NoMessage
  BY DEF Close
<1>2. CASE out = "bad"
  <2>1. pending \in Messages
    BY <1>2 DEF IInv, StreamAligned
  <2>. QED
    BY <1>1, <1>2, <2>1, ExtensionsGrow
       DEF Close, history, IInv, StreamAligned
<1>3. CASE UNCHANGED disk
  BY <1>1, <1>3 DEF history, IInv, TypeOK, StreamAligned, SettledOnDisk, Settled
<1>. QED
  BY <1>2, <1>3 DEF Close

LEMMA FinalizeStep ==
    ASSUME IInv, Finalize
    PROVE  IInv'
<1>1. CASE mode = "pi_pub_or_final"
  <2>1. Close /\ UNCHANGED history
    BY <1>1 DEF Finalize, history
  <2>2. TypeOK'
    BY <1>1, <2>1, CloseEffect DEF Finalize, IInv, TypeOK, history
  <2>3. StreamOpenIffRunning' /\ ModesAgree'
    BY <1>1, <2>1, CloseEffect DEF Finalize, StreamOpenIffRunning, ModesAgree
  <2>. QED
    BY <2>1, <2>2, <2>3, CloseEffect DEF IInv
<1>2. CASE mode # "pi_pub_or_final"
  BY <1>2 DEF Finalize, history, IInv, TypeOK, StreamOpenIffRunning,
              ModesAgree, StreamAligned, SettledOnDisk, Settled
<1>. QED
  BY <1>1, <1>2

LEMMA ConstructedConf == Constructed.conf \in Confs
  BY FileAssumption DEF Constructed, Confs

LEMMA DestroyStep ==
    ASSUME IInv, Destroy
    PROVE  IInv'
<1>1. Close /\ Reconstruct /\ UNCHANGED history
  BY DEF Destroy, Reconstruct, history
<1>2. TypeOK'
  BY <1>1, CloseEffect, ConstructedConf
     DEF Reconstruct, Constructed, IInv, TypeOK, history
<1>3. StreamOpenIffRunning' /\ ModesAgree'
  BY <1>1, CloseEffect DEF Reconstruct, Constructed, StreamOpenIffRunning, ModesAgree
<1>. QED
  BY <1>1, <1>2, <1>3, CloseEffect DEF IInv

LEMMA CrashStep ==
    ASSUME IInv, Crash
    PROVE  IInv'
<1>1. UNCHANGED history /\ out' = "closed" /\ pending' = NoMessage
  BY DEF Crash, Reconstruct, Constructed, history
<1>2. SettledOnDisk' /\ disk' \in [Paths -> Seq(Records)]
  <2>1. CASE UNCHANGED disk
    BY <1>1, <2>1 DEF history, IInv, TypeOK, SettledOnDisk, Settled
  <2>2. CASE \E m \in Messages :
                disk' = [disk EXCEPT ![session.path] = Append(@, Torn(m))]
    <3>1. PICK m \in Messages :
                disk' = [disk EXCEPT ![session.path] = Append(@, Torn(m))]
      BY <2>2
    <3>2. Torn(m) \in Records
      BY DEF Torn, Records
    <3>. QED
      BY <1>1, <3>1, <3>2, GrowKeepsSettled DEF IInv, history
  <2>. QED
    BY <2>1, <2>2 DEF Crash
<1>3. TypeOK'
  BY <1>1, <1>2, ConstructedConf
     DEF Crash, Reconstruct, Constructed, IInv, TypeOK, history
<1>4. StreamOpenIffRunning' /\ ModesAgree' /\ StreamAligned'
  BY <1>1 DEF Crash, Reconstruct, Constructed, history, IInv,
              StreamOpenIffRunning, ModesAgree, StreamAligned
<1>. QED
  BY <1>2, <1>3, <1>4 DEF IInv

LEMMA StepIInv == IInv /\ [Next]_vars => IInv'
<1>. SUFFICES ASSUME IInv, [Next]_vars PROVE IInv'
  OBVIOUS
<1>1. CASE UNCHANGED vars
  BY <1>1 DEF vars, object, history, IInv, TypeOK, StreamOpenIffRunning,
              ModesAgree, StreamAligned, SettledOnDisk, Settled
<1>2. CASE Next
  BY <1>2, ConfigStep, InitializeStep, PublishStep, PauseResumeStep,
     FinalizeStep, DestroyStep, CrashStep DEF Next
<1>. QED
  BY <1>1, <1>2

\* The strengthening holds in every state of every behaviour.
THEOREM Inductive == Spec => []IInv
  BY InitIInv, StepIInv, PTL DEF Spec

\* Every variable keeps its type, whatever the options and the file lengths.
THEOREM TypeCorrect == Spec => []TypeOK
  BY Inductive, PTL DEF IInv

\* The stream is open exactly while the object is in publication mode.
THEOREM StreamCorrect == Spec => []StreamOpenIffRunning
  BY Inductive, PTL DEF IInv

\* Although publish does not look at the result of its write, only the last
\* message it answered 0 for in a session can be missing from the file.
THEOREM AtMostOneLoss == Spec => []SettledOnDisk
  BY Inductive, PTL DEF IInv

\* A failed object stays failed, writes nothing and accepts nothing until it is
\* destroyed, whatever is called on it.
THEOREM FailurePermanent == Spec => FailureIsPermanent
<1>. DEFINE A == state = "err" =>
                   \/ last'.call = "create"
                   \/ state' = "err" /\ UNCHANGED <<mode, out, disk, accepted>>
<1>1. IInv /\ [Next]_vars => [A]_vars
  <2>. SUFFICES ASSUME IInv, Next, state = "err"
                PROVE  \/ last'.call = "create"
                       \/ state' = "err" /\ UNCHANGED <<mode, out, disk, accepted>>
    OBVIOUS
  <2>1. mode = "pi_init"
    BY DEF IInv, ModesAgree
  <2>2. CASE \E m \in OptionMaps, env \in Environments : Config(m, env)
    BY <2>1, <2>2 DEF Config, history
  <2>3. CASE \E env \in Environments : Initialize(env)
    BY <2>1, <2>3 DEF Initialize, Defaulted, history
  <2>4. CASE \E b \in Messages \cup {NoMessage} : Publish(b)
    BY <2>1, <2>4 DEF Publish, Refuse, Write, object, history
  <2>5. CASE Pause \/ Resume \/ Finalize
    BY <2>1, <2>5 DEF Pause, Resume, Finalize, history
  <2>6. CASE Destroy \/ Crash
    BY <2>6 DEF Destroy, Crash, Reconstruct, Return
  <2>. QED
    BY <2>2, <2>3, <2>4, <2>5, <2>6 DEF Next
<1>. QED
  BY Inductive, <1>1, PTL DEF Spec, FailureIsPermanent

\* Every file keeps its records and may have gained some at the end.
Kept ==
    \A p \in Paths :
        /\ Len(disk'[p]) >= Len(disk[p])
        /\ \A i \in 1 .. Len(disk[p]) : disk'[p][i] = disk[p][i]

LEMMA UnchangedKept ==
    ASSUME TypeOK, UNCHANGED disk
    PROVE  Kept
  BY DEF Kept, TypeOK

LEMMA AppendKept ==
    ASSUME TypeOK, NEW r \in Records,
           disk' = [disk EXCEPT ![session.path] = Append(@, r)]
    PROVE  Kept
<1>. SUFFICES ASSUME NEW p \in Paths
              PROVE  /\ Len(disk'[p]) >= Len(disk[p])
                     /\ \A i \in 1 .. Len(disk[p]) : disk'[p][i] = disk[p][i]
  BY DEF Kept
<1>1. disk[p] \in Seq(Records)
  BY DEF TypeOK
<1>2. disk'[p] = disk[p] \/ disk'[p] = Append(disk[p], r)
  BY DEF TypeOK
<1>. QED
  BY <1>1, <1>2

LEMMA ExtensionsKept ==
    ASSUME TypeOK, NEW m \in Messages, NEW s \in Extensions(disk[session.path], m),
           disk' = [disk EXCEPT ![session.path] = s]
    PROVE  Kept
<1>1. Torn(m) \in Records /\ Whole(m) \in Records
  BY DEF Torn, Whole, Records
<1>2. CASE s = disk[session.path]
  BY <1>2, UnchangedKept DEF TypeOK
<1>3. CASE s # disk[session.path]
  BY <1>1, <1>3, AppendKept DEF Extensions
<1>. QED
  BY <1>2, <1>3

LEMMA CloseKept ==
    ASSUME IInv, Close
    PROVE  Kept
  BY UnchangedKept, ExtensionsKept DEF Close, IInv, StreamAligned

\* No record of any file, of this session or an earlier one, is removed or
\* changed, except by an initialize that truncates its own file.
THEOREM RecordsKept == Spec => EarlierRecordsKept
<1>. DEFINE Truncated(p) ==
              /\ last' = [call |-> "initialize", code |-> "ok"]
              /\ ~conf'.APPEND
              /\ p = <<conf'.DIRECTORY, conf'.FILE>>
            A == \A p \in Paths :
                   \/ /\ Len(disk'[p]) >= Len(disk[p])
                      /\ \A i \in 1 .. Len(disk[p]) : disk'[p][i] = disk[p][i]
                   \/ Truncated(p)
<1>1. ASSUME IInv, Next
      PROVE  A
  <2>1. TypeOK
    BY <1>1 DEF IInv
  <2>2. Kept => A
    BY DEF Kept
  <2>3. CASE \E m \in OptionMaps, env \in Environments : Config(m, env)
    BY <2>1, <2>2, <2>3, UnchangedKept DEF Config
  <2>4. ASSUME NEW env \in Environments, Initialize(env)
        PROVE  A
    <3>1. CASE UNCHANGED disk
      BY <2>1, <2>2, <3>1, UnchangedKept
    <3>2. CASE InitializeOpens(Defaulted(env).conf)
      <4>. DEFINE c == Defaulted(env).conf
                  path == <<c.DIRECTORY, c.FILE>>
                  kept == IF c.APPEND THEN disk[path] ELSE <<>>
      <4>1. conf' = c /\ disk' = [disk EXCEPT ![path] = kept]
        BY <2>4, <3>2 DEF Initialize, InitializeOpens
      <4>2. last' = [call |-> "initialize", code |-> "ok"]
        BY <3>2 DEF InitializeOpens, Return
      <4>3. CASE c.APPEND
        <5>1. UNCHANGED disk
          BY <2>1, <4>1, <4>3 DEF TypeOK
        <5>. QED
          BY <2>1, <2>2, <5>1, UnchangedKept
      <4>4. CASE ~c.APPEND
        <5>. SUFFICES ASSUME NEW p \in Paths, p # path
                      PROVE  /\ Len(disk'[p]) >= Len(disk[p])
                             /\ \A i \in 1 .. Len(disk[p]) : disk'[p][i] = disk[p][i]
          BY <4>1, <4>2, <4>4
        <5>1. disk'[p] = disk[p] /\ Len(disk[p]) \in Nat
          BY <2>1, <4>1 DEF TypeOK
        <5>. QED
          BY <5>1
      <4>. QED
        BY <4>3, <4>4
    <3>. QED
      BY <2>4, <3>1, <3>2 DEF Initialize, InitializeFails
  <2>5. ASSUME NEW b \in Messages \cup {NoMessage}, Publish(b)
        PROVE  A
    <3>1. CASE Refuse(b)
      BY <2>1, <2>2, <3>1, UnchangedKept DEF Refuse
    <3>2. CASE Write(b)
      <4>1. b \in Messages /\ Whole(b) \in Records
        BY <3>2 DEF Write, Whole, Records
      <4>. QED
        BY <2>1, <2>2, <3>2, <4>1, AppendKept, ExtensionsKept DEF Write
    <3>. QED
      BY <2>5, <3>1, <3>2 DEF Publish
  <2>6. CASE Pause \/ Resume
    BY <2>1, <2>2, <2>6, UnchangedKept DEF Pause, Resume
  <2>7. CASE Finalize \/ Destroy
    BY <1>1, <2>1, <2>2, <2>7, CloseKept, UnchangedKept DEF Finalize, Destroy
  <2>8. CASE Crash
    <3>1. CASE UNCHANGED disk
      BY <2>1, <2>2, <3>1, UnchangedKept
    <3>2. ASSUME NEW m \in Messages,
                 disk' = [disk EXCEPT ![session.path] = Append(@, Torn(m))]
          PROVE  A
      <4>1. Torn(m) \in Records
        BY DEF Torn, Records
      <4>. QED
        BY <2>1, <2>2, <3>2, <4>1, AppendKept
    <3>. QED
      BY <2>8, <3>1, <3>2 DEF Crash
  <2>. QED
    BY <1>1, <2>3, <2>4, <2>5, <2>6, <2>7, <2>8 DEF Next
<1>2. IInv /\ [Next]_vars => [A]_vars
  BY <1>1
<1>. QED
  BY Inductive, <1>2, PTL DEF Spec, EarlierRecordsKept

-----------------------------------------------------------------------------
(***************************************************************************)
(* Refinement: the object keeps the promises of PublisherApi.              *)
(***************************************************************************)
LEMMA InitRefines == Init => Api!Init
  BY FileAssumption DEF Init, Constructed, Api!Init, Phase

\* The phase that an object of each mode and state is in.
LEMMA PhaseOf ==
    ASSUME IInv
    PROVE  /\ Phase = "failed" <=> state = "err"
           /\ Phase = "running" <=> state = "ok" /\ mode = "pi_pub_or_final"
           /\ Phase = "configured" <=> state = "ok" /\ mode = "pi_init"
           /\ Phase = "new" <=> mode = "pi_config" /\ conf.FILE = NoName
           /\ Phase = "finalized" <=> mode = "pi_config" /\ conf.FILE # NoName
  BY DEF IInv, TypeOK, ModesAgree, Phase

LEMMA ConfigRefines ==
    ASSUME IInv, NEW m \in OptionMaps, NEW env \in Environments, Config(m, env)
    PROVE  Api!Config
<1>1. CASE mode # "pi_config"
  BY <1>1, PhaseOf DEF Config, Return, history, Api!Config, Api!Return, Phase
<1>2. CASE mode = "pi_config"
  BY <1>2, PhaseOf DEF Config, Return, history, Api!Config, Api!Return, Phase
<1>. QED
  BY <1>1, <1>2

LEMMA InitializeRefines ==
    ASSUME IInv, NEW env \in Environments, Initialize(env)
    PROVE  Api!Initialize
<1>. DEFINE d == Defaulted(env)
<1>1. \/ mode = "pi_config" /\ conf.FILE = NoName /\ d.mode = "pi_init"
      \/ /\ d = [mode |-> mode, conf |-> conf]
         /\ mode # "pi_config" \/ conf.FILE # NoName
  BY DEF Defaulted
<1>2. CASE d.mode # "pi_init"
  <2>1. mode' = mode /\ conf' = conf /\ UNCHANGED <<state, accepted, paused>>
    BY <1>1, <1>2 DEF Initialize, history
  <2>2. state = "ok" /\ mode \in {"pi_config", "pi_pub_or_final"}
    BY <1>1, <1>2 DEF IInv, TypeOK, ModesAgree
  <2>3. Phase \in {"running", "finalized"} /\ Phase' = Phase
    BY <1>1, <1>2, <2>1, <2>2 DEF Phase
  <2>4. Api!Return("initialize", "wrong_mode")
    BY <1>2 DEF Initialize, Return, Api!Return
  <2>. QED
    BY <2>1, <2>3, <2>4 DEF Api!Initialize
<1>3. CASE d.mode = "pi_init" /\ state = "err"
  BY <1>1, <1>3, PhaseOf
     DEF Initialize, Return, history, Phase, Api!Initialize, Api!Return
<1>4. CASE d.mode = "pi_init" /\ state = "ok" /\ InitializeFails
  BY <1>1, <1>4, PhaseOf
     DEF Initialize, InitializeFails, Return, history, Phase, Api!Initialize, Api!Return
<1>5. CASE /\ d.mode = "pi_init" /\ state = "ok" /\ InitializeOpens(d.conf)
           /\ mode' = "pi_pub_or_final"
  BY <1>1, <1>5, PhaseOf
     DEF Initialize, InitializeOpens, Return, Phase, Api!Initialize, Api!Return
<1>. QED
  BY <1>2, <1>3, <1>4, <1>5 DEF Initialize, IInv, TypeOK

LEMMA PublishRefines ==
    ASSUME IInv, NEW b \in Messages \cup {NoMessage}, Publish(b)
    PROVE  Api!Publish(b)
<1>1. CASE Refuse(b)
  BY <1>1, PhaseOf DEF Refuse, Return, object, history, Phase, Api!Publish,
                       Api!Refuse, Api!Return, IInv, TypeOK
<1>2. CASE Write(b)
  BY <1>2, PhaseOf DEF Write, Return, Phase, Api!Publish, Api!Accept, Api!Return
<1>. QED
  BY <1>1, <1>2 DEF Publish

LEMMA PauseRefines ==
    ASSUME IInv
    PROVE  (Pause => Api!Pause) /\ (Resume => Api!Resume)
  BY DEF Pause, Resume, Return, history, Phase, Api!Pause, Api!Resume, Api!Return

LEMMA FinalizeRefines ==
    ASSUME IInv, Finalize
    PROVE  Api!Finalize
<1>1. CASE mode = "pi_pub_or_final"
  BY <1>1, PhaseOf DEF Finalize, Return, history, Phase, Api!Finalize,
                       Api!Return, IInv, ModesAgree
<1>2. CASE mode # "pi_pub_or_final"
  BY <1>2, PhaseOf DEF Finalize, Return, history, Phase, Api!Finalize, Api!Return
<1>. QED
  BY <1>1, <1>2

LEMMA CreateRefines ==
    ASSUME Destroy \/ Crash
    PROVE  Api!Create
<1>1. Reconstruct
  BY DEF Destroy, Crash
<1>2. /\ mode' = "pi_config" /\ state' = "ok" /\ paused' = FALSE
      /\ conf'.FILE = NoName
  BY <1>1 DEF Reconstruct, Constructed
<1>3. Phase' = "new"
  BY <1>2 DEF Phase
<1>. QED
  BY <1>1, <1>2, <1>3 DEF Reconstruct, Return, history, Api!Create, Api!Return

LEMMA StepRefines == IInv /\ [Next]_vars => [Api!Next]_(Api!vars)
<1>. SUFFICES ASSUME IInv, [Next]_vars PROVE [Api!Next]_(Api!vars)
  OBVIOUS
<1>1. CASE UNCHANGED vars
  BY <1>1 DEF vars, object, history, Phase, Api!vars
<1>2. CASE Next
  BY <1>2, ConfigRefines, InitializeRefines, PublishRefines, PauseRefines,
     FinalizeRefines, CreateRefines DEF Next, Api!Next
<1>. QED
  BY <1>1, <1>2

\* file_plugin implements publisher_api: every call, in every phase, answers
\* and changes the object as the abstract publisher may.
THEOREM Refinement == Spec => ImplementsApi
  BY Inductive, InitRefines, StepRefines, PTL DEF Spec, Api!Spec, ImplementsApi
====

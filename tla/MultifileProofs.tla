-------------------------- MODULE MultifileProofs --------------------------
(***************************************************************************)
(* Proofs about Multifile for any number of processes, applications and    *)
(* messages.                                                               *)
(***************************************************************************)
EXTENDS Multifile, FiniteSetTheorems, TLAPS

Replies == [call : {"create", "config", "initialize", "publish", "pause",
                    "resume", "finalize"},
            code : {"ok", "failed", "wrong_mode", "prior_error", "EINVAL",
                    "ENOTDIR", "os_error"}]

ControlTypes ==
    /\ mode \in [Procs -> {"pi_config", "pi_init", "pi_pub_or_final"}]
    /\ state \in [Procs -> {"ok", "err"}]
    /\ paused \in [Procs -> BOOLEAN]
    /\ fdir \in [Procs -> BOOLEAN]
    /\ pc \in [Procs -> {"idle", "stat_fdir", "stat_base", "stat_user", "stat_dir",
                         "mkdir_dir", "mkdir_user", "mkdir_fdir", "test"}]
    /\ base \in [Procs -> Kinds]
    /\ node \in [{"dir", "user"} -> Kinds]
    /\ leaf \in [Procs -> BOOLEAN]
    /\ last \in [Procs -> Replies]

(***************************************************************************)
(* The part of the inductive invariant about the directories.  An object   *)
(* has a directory of its own only in a user directory, which is only in   *)
(* DIRECTORY, and what is a directory stays one.                           *)
(***************************************************************************)
NodesNest == node["user"] # "none" => node["dir"] = "directory"

LeafInUser == \A p \in Procs : leaf[p] => node["user"] = "directory"

\* A directory is made in another only when that one is there.
MkdirInDirectory == \A p \in Procs : pc[p] = "mkdir_user" => node["dir"] = "directory"

ModesAgree ==
    \A p \in Procs :
        /\ state[p] = "err" => mode[p] = "pi_init"
        /\ pc[p] # "idle" => mode[p] = "pi_init" /\ state[p] = "ok"
        /\ mode[p] # "pi_config" => fdir[p]
        /\ mode[p] = "pi_pub_or_final" => leaf[p]

ControlInv ==
    /\ ControlTypes
    /\ NodesNest
    /\ LeafInUser
    /\ MkdirInDirectory
    /\ ModesAgree

\* The data of the objects: what they wrote and what they answered for.
data == <<stream, disk, accepted, failed>>

LEMMA InitControl == Init => ControlInv
  BY DEF Init, ControlInv, ControlTypes, NodesNest, LeafInUser, MkdirInDirectory,
         ModesAgree, Replies, Kinds

\* A reply is one of those an object gives.
LEMMA ReturnType ==
    ASSUME ControlTypes, NEW p \in Procs, NEW c, NEW code,
           [call |-> c, code |-> code] \in Replies, Return(p, c, code)
    PROVE  last' \in [Procs -> Replies]
<1>1. last \in [Procs -> Replies]
  BY DEF ControlTypes
<1>2. last' = [last EXCEPT ![p] = [call |-> c, code |-> code]]
  BY DEF Return
<1>. QED
  BY <1>1, <1>2

\* The calls that do not touch the file system.
LEMMA CallControl ==
    ASSUME ControlInv, NEW p \in Procs,
           \/ Config(p) \/ Initialize(p) \/ Pause(p) \/ Resume(p) \/ Finalize(p)
           \/ Recreate(p) \/ \E b \in Messages \cup {NoMessage} : Refuse(p, b)
           \/ \E b \in Messages :
                 PublishDead(p, b) \/ PublishThrows(p, b) \/ PublishWrite(p, b)
    PROVE  ControlInv'
<1>1. CASE Config(p)
  <2>1. last' \in [Procs -> Replies]
    BY <1>1, ReturnType DEF Config, ControlInv, Replies
  <2>2. ControlTypes'
    BY <1>1, <2>1 DEF Config, local, ControlInv, ControlTypes
  <2>. QED
    BY <1>1, <2>2 DEF Config, local, ControlInv, ControlTypes, NodesNest,
       LeafInUser, MkdirInDirectory, ModesAgree, Free
<1>2. CASE Initialize(p)
  <2>1. last' \in [Procs -> Replies]
    BY <1>2, ReturnType DEF Initialize, ControlInv, ControlTypes, Replies
  <2>2. ControlTypes'
    BY <1>2, <2>1 DEF Initialize, Defaulted, ControlInv, ControlTypes
  <2>. QED
    BY <1>2, <2>2 DEF Initialize, Defaulted, ControlInv, ControlTypes, NodesNest,
       LeafInUser, MkdirInDirectory, ModesAgree, Free
<1>3. CASE Pause(p) \/ Resume(p)
  <2>1. last' \in [Procs -> Replies]
    BY <1>3, ReturnType DEF Pause, Resume, ControlInv, Replies
  <2>2. ControlTypes'
    BY <1>3, <2>1 DEF Pause, Resume, local, ControlInv, ControlTypes
  <2>. QED
    BY <1>3, <2>2 DEF Pause, Resume, local, ControlInv, ControlTypes, NodesNest,
       LeafInUser, MkdirInDirectory, ModesAgree
<1>4. CASE Finalize(p)
  <2>1. last' \in [Procs -> Replies]
    BY <1>4, ReturnType DEF Finalize, ControlInv, Replies
  <2>2. ControlTypes'
    BY <1>4, <2>1 DEF Finalize, local, ControlInv, ControlTypes
  <2>. QED
    BY <1>4, <2>2 DEF Finalize, local, ControlInv, ControlTypes, NodesNest,
       LeafInUser, MkdirInDirectory, ModesAgree, Free
<1>5. CASE Recreate(p)
  <2>1. last' \in [Procs -> Replies]
    BY <1>5, ReturnType DEF Recreate, ControlInv, Replies
  <2>2. ControlTypes'
    BY <1>5, <2>1 DEF Recreate, ControlInv, ControlTypes, Kinds
  <2>3. /\ mode' = [mode EXCEPT ![p] = "pi_config"]
        /\ state' = [state EXCEPT ![p] = "ok"]
        /\ fdir' = [fdir EXCEPT ![p] = FALSE] /\ pc' = [pc EXCEPT ![p] = "idle"]
        /\ leaf' = [leaf EXCEPT ![p] = FALSE] /\ node' = node
    BY <1>5 DEF Recreate
  <2>4. NodesNest' /\ LeafInUser' /\ MkdirInDirectory'
    BY <2>3 DEF ControlInv, ControlTypes, NodesNest, LeafInUser, MkdirInDirectory
  <2>5. ModesAgree'
    BY <2>3 DEF ControlInv, ControlTypes, ModesAgree
  <2>. QED
    BY <2>2, <2>4, <2>5 DEF ControlInv
<1>6. ASSUME UNCHANGED <<mode, state, paused, fdir, pc, base, node, leaf>>,
             last' \in [Procs -> Replies]
      PROVE  ControlInv'
  BY <1>6 DEF ControlInv, ControlTypes, NodesNest, LeafInUser, MkdirInDirectory,
     ModesAgree
<1>7. ASSUME NEW b \in Messages \cup {NoMessage}, Refuse(p, b)
      PROVE  ControlInv'
  <2>1. \E code \in {"EINVAL", "ok", "failed", "wrong_mode"} : Return(p, "publish", code)
    BY <1>7 DEF Refuse
  <2>2. last' \in [Procs -> Replies]
    BY <2>1, ReturnType DEF ControlInv, Replies
  <2>. QED
    BY <1>6, <1>7, <2>2 DEF Refuse, object, local
<1>8. ASSUME NEW b \in Messages,
             PublishDead(p, b) \/ PublishThrows(p, b) \/ PublishWrite(p, b)
      PROVE  ControlInv'
  <2>1. \/ last' = last
        \/ \E code \in {"ok", "failed"} : Return(p, "publish", code)
    BY <1>8 DEF PublishDead, PublishThrows, PublishWrite, history
  <2>2. last' \in [Procs -> Replies]
    BY <2>1, ReturnType DEF ControlInv, ControlTypes, Replies
  <2>. QED
    BY <1>6, <1>8, <2>2 DEF PublishDead, PublishThrows, PublishWrite, local
<1>. QED
  BY <1>1, <1>2, <1>3, <1>4, <1>5, <1>7, <1>8

\* A step of create_directories that ends it or goes on: the object is as it was,
\* or in error.
Stepped(p) ==
    /\ \/ state' = state /\ last' = last
       \/ state' = [state EXCEPT ![p] = "err"] /\ last' \in [Procs -> Replies]
    /\ \E step \in {"idle", "stat_base", "stat_user", "stat_dir", "mkdir_dir",
                    "mkdir_user", "mkdir_fdir", "test"} :
          /\ pc' = [pc EXCEPT ![p] = step]
          /\ state' # state => step = "idle"
          /\ step = "mkdir_user" => node'["dir"] = "directory"
    /\ UNCHANGED <<mode, paused, fdir>>

LEMMA SteppedControl ==
    ASSUME ControlInv, NEW p \in Procs, pc[p] # "idle", Stepped(p),
           base' \in [Procs -> Kinds], node' \in [{"dir", "user"} -> Kinds],
           NodesNest',
           \A d \in {"dir", "user"} : node[d] = "directory" => node'[d] = "directory",
           \/ leaf' = leaf
           \/ leaf' = [leaf EXCEPT ![p] = TRUE] /\ node'["user"] = "directory"
    PROVE  ControlInv'
<1>1. PICK step \in {"idle", "stat_base", "stat_user", "stat_dir", "mkdir_dir",
                     "mkdir_user", "mkdir_fdir", "test"} :
          /\ pc' = [pc EXCEPT ![p] = step]
          /\ state' # state => step = "idle"
          /\ step = "mkdir_user" => node'["dir"] = "directory"
  BY DEF Stepped
<1>2. ControlTypes'
  <2>1. state' \in [Procs -> {"ok", "err"}] /\ last' \in [Procs -> Replies]
    BY DEF Stepped, ControlInv, ControlTypes
  <2>. QED
    BY <1>1, <2>1 DEF Stepped, ControlInv, ControlTypes
<1>3. LeafInUser'
  BY DEF ControlInv, LeafInUser, ControlTypes
<1>4. MkdirInDirectory'
  BY <1>1 DEF ControlInv, MkdirInDirectory, ControlTypes
<1>5. ASSUME NEW q \in Procs
      PROVE  /\ state'[q] = "err" => mode'[q] = "pi_init"
             /\ pc'[q] # "idle" => mode'[q] = "pi_init" /\ state'[q] = "ok"
             /\ mode'[q] # "pi_config" => fdir'[q]
             /\ mode'[q] = "pi_pub_or_final" => leaf'[q]
  <2>1. mode' = mode /\ fdir' = fdir
    BY DEF Stepped
  <2>2. mode[p] = "pi_init" /\ state[p] = "ok"
    BY DEF ControlInv, ModesAgree
  <2>3. CASE q = p
    BY <1>1, <2>1, <2>2, <2>3 DEF Stepped, ControlInv, ModesAgree, ControlTypes
  <2>4. CASE q # p
    <3>1. state'[q] = state[q] /\ pc'[q] = pc[q] /\ leaf'[q] = leaf[q]
      BY <1>1, <2>4 DEF Stepped, ControlInv, ControlTypes
    <3>. QED
      BY <2>1, <3>1 DEF ControlInv, ModesAgree
  <2>. QED
    BY <2>3, <2>4
<1>6. ModesAgree'
  BY <1>5 DEF ModesAgree
<1>. QED
  BY <1>2, <1>3, <1>4, <1>6 DEF ControlInv

\* Each way in which a step of create_directories can end.
LEMMA GotoSteps ==
    ASSUME NEW p \in Procs, UNCHANGED <<mode, paused, fdir>>,
           NEW step \in {"stat_base", "stat_user", "stat_dir", "mkdir_dir",
                         "mkdir_user", "mkdir_fdir", "test"},
           step = "mkdir_user" => node'["dir"] = "directory", Goto(p, step)
    PROVE  Stepped(p)
  BY DEF Goto, Stepped

LEMMA FailsSteps ==
    ASSUME ControlInv, NEW p \in Procs, UNCHANGED <<mode, paused, fdir>>,
           NEW code \in {"ENOTDIR", "os_error"}, Fails(p, code)
    PROVE  Stepped(p)
<1>1. last' \in [Procs -> Replies]
  BY ReturnType DEF Fails, ControlInv, Replies
<1>. QED
  BY <1>1 DEF Fails, Stepped

LEMMA ThrowsSteps ==
    ASSUME NEW p \in Procs, UNCHANGED <<mode, paused, fdir>>, Throws(p)
    PROVE  Stepped(p)
  BY DEF Throws, Stepped

LEMMA StatControl ==
    ASSUME ControlInv, NEW p \in Procs,
           StatFdir(p) \/ StatBase(p) \/ StatUser(p) \/ StatDir(p)
    PROVE  ControlInv'
<1>1. pc[p] # "idle" /\ UNCHANGED <<mode, paused, fdir, node, leaf>>
  BY DEF StatFdir, StatBase, StatUser, StatDir, At
<1>2. base' \in [Procs -> Kinds]
  BY DEF StatFdir, StatBase, StatUser, StatDir, ControlInv, ControlTypes
<1>3. Stepped(p)
  <2>1. CASE StatFdir(p)
    BY <1>1, <2>1, GotoSteps DEF StatFdir
  <2>2. CASE StatBase(p)
    BY <1>1, <2>2, GotoSteps, FailsSteps, ThrowsSteps DEF StatBase
  <2>3. CASE StatUser(p)
    BY <1>1, <2>3, GotoSteps, FailsSteps, ThrowsSteps DEF StatUser
  <2>4. CASE StatDir(p)
    BY <1>1, <2>4, GotoSteps, FailsSteps, ThrowsSteps DEF StatDir
  <2>. QED
    BY <2>1, <2>2, <2>3, <2>4
<1>4. NodesNest' /\ node' \in [{"dir", "user"} -> Kinds]
  BY <1>1 DEF ControlInv, NodesNest, ControlTypes
<1>. QED
  BY <1>1, <1>2, <1>3, <1>4, SteppedControl

LEMMA MkdirControl ==
    ASSUME ControlInv, NEW p \in Procs,
           MkdirDir(p) \/ MkdirUser(p) \/ MkdirFdir(p)
    PROVE  ControlInv'
<1>1. pc[p] # "idle" /\ UNCHANGED <<mode, paused, fdir, base>>
  BY DEF MkdirDir, MkdirUser, MkdirFdir, At
<1>2. base' \in [Procs -> Kinds] /\ node \in [{"dir", "user"} -> Kinds] /\ NodesNest
  BY <1>1 DEF ControlInv, ControlTypes
<1>3. CASE MkdirDir(p)
  <2>1. \/ node' = node
        \/ node["dir"] # "file" /\ node' = [node EXCEPT !["dir"] = "directory"]
    BY <1>3 DEF MkdirDir, Mkdir
  <2>2. /\ node' \in [{"dir", "user"} -> Kinds] /\ NodesNest'
        /\ \A d \in {"dir", "user"} : node[d] = "directory" => node'[d] = "directory"
    BY <1>2, <2>1 DEF NodesNest, Kinds
  <2>3. Stepped(p)
    BY <1>1, <1>2, <1>3, GotoSteps, FailsSteps DEF MkdirDir, Mkdir
  <2>. QED
    BY <1>1, <1>2, <1>3, <2>2, <2>3, SteppedControl DEF MkdirDir
<1>4. CASE MkdirUser(p)
  <2>1. \/ node' = node
        \/ node["user"] # "file" /\ node' = [node EXCEPT !["user"] = "directory"]
    BY <1>4 DEF MkdirUser, Mkdir
  <2>2. node["dir"] = "directory"
    BY <1>4 DEF MkdirUser, At, ControlInv, MkdirInDirectory
  <2>3. /\ node' \in [{"dir", "user"} -> Kinds] /\ NodesNest'
        /\ \A d \in {"dir", "user"} : node[d] = "directory" => node'[d] = "directory"
    BY <1>2, <2>1, <2>2 DEF NodesNest, Kinds
  <2>4. Stepped(p)
    BY <1>1, <1>2, <1>4, GotoSteps, FailsSteps DEF MkdirUser, Mkdir
  <2>. QED
    BY <1>1, <1>2, <1>4, <2>3, <2>4, SteppedControl DEF MkdirUser
<1>5. CASE MkdirFdir(p)
  <2>1. /\ node' = node
        /\ \/ leaf' = leaf
           \/ leaf' = [leaf EXCEPT ![p] = TRUE] /\ node["user"] = "directory"
    BY <1>5 DEF MkdirFdir
  <2>2. Stepped(p)
    BY <1>1, <1>5, GotoSteps, FailsSteps DEF MkdirFdir
  <2>3. NodesNest'
    BY <1>2, <2>1 DEF NodesNest
  <2>. QED
    BY <1>1, <1>2, <2>1, <2>2, <2>3, SteppedControl
<1>. QED
  BY <1>3, <1>4, <1>5

LEMMA TestFileControl ==
    ASSUME ControlInv, NEW p \in Procs, TestFile(p)
    PROVE  ControlInv'
<1>1. last' \in [Procs -> Replies]
  BY ReturnType DEF TestFile, Fails, ControlInv, Replies
<1>2. ControlTypes'
  BY <1>1 DEF TestFile, Fails, ControlInv, ControlTypes
<1>3. NodesNest' /\ LeafInUser' /\ MkdirInDirectory'
  BY DEF TestFile, Fails, ControlInv, ControlTypes, NodesNest, LeafInUser,
         MkdirInDirectory
<1>4. ModesAgree'
  BY DEF TestFile, Fails, At, ControlInv, ControlTypes, ModesAgree
<1>. QED
  BY <1>2, <1>3, <1>4 DEF ControlInv

LEMMA AppearsControl ==
    ASSUME ControlInv, NEW d \in {"dir", "user"}, NEW kind \in {"directory", "file"},
           Appears(d, kind)
    PROVE  ControlInv'
<1>1. /\ node' = [node EXCEPT ![d] = kind] /\ node[d] = "none"
      /\ d = "user" => node["dir"] = "directory"
      /\ UNCHANGED <<mode, state, paused, fdir, pc, base, leaf, last>>
  BY DEF Appears, object, local, history
<1>2. node \in [{"dir", "user"} -> Kinds]
  BY DEF ControlInv, ControlTypes
<1>3. ControlTypes'
  BY <1>1, <1>2 DEF ControlInv, ControlTypes, Kinds
<1>4. NodesNest' /\ LeafInUser' /\ MkdirInDirectory'
  BY <1>1, <1>2 DEF ControlInv, NodesNest, LeafInUser, MkdirInDirectory
<1>5. ModesAgree'
  BY <1>1 DEF ControlInv, ModesAgree
<1>. QED
  BY <1>3, <1>4, <1>5 DEF ControlInv

LEMMA ControlStep == ControlInv /\ [Next]_vars => ControlInv'
<1>. SUFFICES ASSUME ControlInv, [Next]_vars PROVE ControlInv'
  OBVIOUS
<1>1. ASSUME NEW p \in Procs, Calls(p) PROVE ControlInv'
  BY <1>1, CallControl, StatControl, MkdirControl, TestFileControl
     DEF Calls, CreateDirectories
<1>2. ASSUME NEW d \in {"dir", "user"}, NEW kind \in {"directory", "file"},
             Appears(d, kind)
      PROVE  ControlInv'
  BY <1>2, AppearsControl
<1>3. CASE UNCHANGED vars
  BY <1>3 DEF vars, object, local, history, ControlInv, ControlTypes, NodesNest,
     LeafInUser, MkdirInDirectory, ModesAgree
<1>. QED
  BY <1>1, <1>2, <1>3 DEF Next
-----------------------------------------------------------------------------
(***************************************************************************)
(* The part of the inductive invariant about the data.  While a session    *)
(* runs, a good stream has written as many records as messages of its      *)
(* application were accepted, so that the next record lands at the rank of *)
(* its message.                                                            *)
(***************************************************************************)
Taken == {m \in Messages : AppOf[m] \in Apps}
AnyRecord == [msg : Messages, whole : BOOLEAN]
Files == {d \in [Apps -> Seq(AnyRecord)] : \A a \in Apps : d[a] \in Seq(Records(a))}
Stream == [is : {"absent", "closed", "good", "bad"}, pending : Messages \cup {NoMessage}]
Streams == {s \in [Apps -> Stream] :
               \A a \in Apps : s[a].is = "bad" =>
                  s[a].pending \in Taken /\ AppOf[s[a].pending] = a}

DataTypes ==
    /\ stream \in [Procs -> Streams]
    /\ disk \in [Procs -> Files]
    /\ accepted \in [Procs -> Seq(Taken)]
    /\ failed \in [Procs -> SUBSET Apps]

Count(acc, a) == Cardinality({j \in DOMAIN acc : AppOf[acc[j]] = a})

Aligned(acc, d, s, f) ==
    \A a \in Apps :
        /\ s[a].is = "good" => Len(d[a]) = Count(acc, a) /\ a \notin f
        /\ s[a].is = "absent" => /\ d[a] = <<>> /\ a \notin f
                                 /\ \A i \in DOMAIN acc : AppOf[acc[i]] # a

InFiles(acc, d, f) ==
    \A i \in DOMAIN acc :
        LET a == AppOf[acc[i]]
            n == Rank(acc, i)
        IN  \/ n \in DOMAIN d[a] /\ d[a][n] = Whole(acc[i])
            \/ IsLast(acc, i) /\ a \in f

ObjectData(p) ==
    /\ mode[p] # "pi_pub_or_final" => stream[p] = NoStreams
    /\ mode[p] = "pi_pub_or_final" =>
          Aligned(accepted[p], disk[p], stream[p], failed[p])
    /\ InFiles(accepted[p], disk[p], failed[p])

DataInv == DataTypes /\ \A p \in Procs : ObjectData(p)

\* The file d2[a] of each application begins with what is in d[a].
Extended(d, d2) ==
    \A a \in Apps : \A n \in DOMAIN d[a] : n \in DOMAIN d2[a] /\ d2[a][n] = d[a][n]

\* An accepted message counts for its own application.
LEMMA CountAppend ==
    ASSUME NEW acc \in Seq(Taken), NEW m \in Taken, NEW a \in Apps
    PROVE  /\ Count(acc, a) \in Nat
           /\ Count(Append(acc, m), a) = Count(acc, a) + (IF AppOf[m] = a THEN 1 ELSE 0)
<1>. DEFINE J == {j \in DOMAIN acc : AppOf[acc[j]] = a}
            K == {j \in DOMAIN Append(acc, m) : AppOf[Append(acc, m)[j]] = a}
            n == Len(acc) + 1
<1>1. DOMAIN acc = 1 .. Len(acc) /\ Len(acc) \in Nat
  OBVIOUS
<1>2. IsFiniteSet(J)
  <2>1. IsFiniteSet(1 .. Len(acc))
    BY <1>1, FS_Interval
  <2>2. J \in SUBSET (1 .. Len(acc))
    BY <1>1
  <2>. QED
    BY <2>1, <2>2, FS_Subset
<1>3. Cardinality(J) \in Nat
  BY <1>2, FS_CardinalityType
<1>4. DOMAIN Append(acc, m) = 1 .. n /\ Append(acc, m)[n] = m
      /\ \A j \in 1 .. Len(acc) : Append(acc, m)[j] = acc[j]
  OBVIOUS
<1>5. CASE AppOf[m] = a
  <2>1. K = J \cup {n}
    BY <1>1, <1>4, <1>5
  <2>2. n \notin J
    BY <1>1
  <2>3. Cardinality(J \cup {n}) = Cardinality(J) + 1
    BY <1>2, <2>2, FS_AddElement
  <2>. QED
    BY <1>3, <1>5, <2>1, <2>3 DEF Count
<1>6. CASE AppOf[m] # a
  <2>1. K = J
    BY <1>1, <1>4, <1>6
  <2>2. Count(acc, a) = Cardinality(J) /\ Count(Append(acc, m), a) = Cardinality(K)
    BY DEF Count
  <2>3. Count(Append(acc, m), a) = Count(acc, a)
    BY <2>1, <2>2
  <2>4. Count(acc, a) \in Nat
    BY <1>3, <2>2
  <2>. QED
    BY <1>6, <2>3, <2>4
<1>. QED
  BY <1>5, <1>6

\* Messages keep their rank, and a new one takes the next of its application.
LEMMA RankAppend ==
    ASSUME NEW acc \in Seq(Taken), NEW m \in Taken
    PROVE  /\ \A i \in DOMAIN acc : Rank(Append(acc, m), i) = Rank(acc, i)
           /\ Rank(Append(acc, m), Len(acc) + 1) = Count(acc, AppOf[m]) + 1
<1>. DEFINE new == Append(acc, m)
            n == Len(acc) + 1
            a == AppOf[m]
<1>1. DOMAIN acc = 1 .. Len(acc) /\ Len(acc) \in Nat
  OBVIOUS
<1>2. new[n] = m /\ \A j \in 1 .. Len(acc) : new[j] = acc[j]
  OBVIOUS
<1>3. ASSUME NEW i \in DOMAIN acc
      PROVE  Rank(new, i) = Rank(acc, i)
  <2>1. {j \in 1 .. i : AppOf[new[j]] = AppOf[new[i]]}
          = {j \in 1 .. i : AppOf[acc[j]] = AppOf[acc[i]]}
    BY <1>1, <1>2
  <2>. QED
    BY <2>1 DEF Rank
<1>4. Rank(new, n) = Count(new, a)
  <2>1. DOMAIN new = 1 .. n
    OBVIOUS
  <2>. QED
    BY <1>2, <2>1 DEF Rank, Count
<1>5. Count(new, a) = Count(acc, a) + 1
  BY CountAppend DEF Taken
<1>. QED
  BY <1>3, <1>4, <1>5

\* Files that only grow hold what they held.
LEMMA GrowthKeeps ==
    ASSUME NEW acc \in Seq(Taken), NEW d \in Files, NEW d2 \in Files,
           NEW f, Extended(d, d2), InFiles(acc, d, f)
    PROVE  InFiles(acc, d2, f)
<1>. SUFFICES ASSUME NEW i \in DOMAIN acc
              PROVE  LET a == AppOf[acc[i]]
                         n == Rank(acc, i)
                     IN  \/ n \in DOMAIN d2[a] /\ d2[a][n] = Whole(acc[i])
                         \/ IsLast(acc, i) /\ a \in f
  BY DEF InFiles
<1>1. AppOf[acc[i]] \in Apps
  BY DEF Taken
<1>. QED
  BY <1>1 DEF InFiles, Extended

\* Writing a message m for an application without a failed write, of which the
\* record is at its rank or the write is the first to fail.
LEMMA WriteKeeps ==
    ASSUME NEW acc \in Seq(Taken), NEW m \in Taken, NEW d \in Files, NEW d2 \in Files,
           NEW f, NEW f2, f \subseteq f2, AppOf[m] \notin f,
           InFiles(acc, d, f), Extended(d, d2),
           LET n == Count(acc, AppOf[m]) + 1
           IN  \/ n \in DOMAIN d2[AppOf[m]] /\ d2[AppOf[m]][n] = Whole(m)
               \/ AppOf[m] \in f2
    PROVE  InFiles(Append(acc, m), d2, f2)
<1>. DEFINE new == Append(acc, m)
            l == Len(acc) + 1
<1>1. /\ DOMAIN acc = 1 .. Len(acc) /\ Len(acc) \in Nat /\ DOMAIN new = 1 .. l
      /\ new[l] = m /\ \A j \in 1 .. Len(acc) : new[j] = acc[j]
  OBVIOUS
<1>2. ASSUME NEW i \in 1 .. Len(acc)
      PROVE  LET a == AppOf[new[i]]
                 n == Rank(new, i)
             IN  \/ n \in DOMAIN d2[a] /\ d2[a][n] = Whole(new[i])
                 \/ IsLast(new, i) /\ a \in f2
  <2>. DEFINE a == AppOf[acc[i]]
              n == Rank(acc, i)
  <2>1. new[i] = acc[i] /\ Rank(new, i) = n /\ a \in Apps
    BY <1>1, RankAppend DEF Taken
  <2>2. \/ n \in DOMAIN d[a] /\ d[a][n] = Whole(acc[i])
        \/ IsLast(acc, i) /\ a \in f
    BY <1>1 DEF InFiles
  <2>3. CASE n \in DOMAIN d[a] /\ d[a][n] = Whole(acc[i])
    BY <2>1, <2>3 DEF Extended
  <2>4. CASE IsLast(acc, i) /\ a \in f
    <3>1. a # AppOf[m] /\ a \in f2
      BY <2>4
    <3>2. IsLast(new, i)
      BY <1>1, <2>4, <3>1 DEF IsLast
    <3>. QED
      BY <2>1, <3>1, <3>2
  <2>. QED
    BY <2>2, <2>3, <2>4
<1>3. LET a == AppOf[new[l]]
          n == Rank(new, l)
      IN  \/ n \in DOMAIN d2[a] /\ d2[a][n] = Whole(new[l])
          \/ IsLast(new, l) /\ a \in f2
  <2>1. Rank(new, l) = Count(acc, AppOf[m]) + 1
    BY RankAppend
  <2>2. IsLast(new, l)
    BY <1>1 DEF IsLast
  <2>. QED
    BY <1>1, <2>1, <2>2
<1>. QED
  <2>1. \A i \in DOMAIN new : i \in 1 .. Len(acc) \/ i = l
    BY <1>1
  <2>. QED
    BY <1>2, <1>3, <2>1 DEF InFiles

\* What a write that meets an error leaves begins with what was there.
LEMMA ExtensionsGrow ==
    ASSUME NEW d \in Files, NEW m \in Taken, NEW f \in Extensions(d[AppOf[m]], m)
    PROVE  /\ f \in Seq(AnyRecord) /\ f \in Seq(Records(AppOf[m]))
           /\ \A n \in DOMAIN d[AppOf[m]] : n \in DOMAIN f /\ f[n] = d[AppOf[m]][n]
<1>. DEFINE a == AppOf[m]
<1>1. a \in Apps /\ d[a] \in Seq(AnyRecord) /\ d[a] \in Seq(Records(a))
  BY DEF Taken, Files
<1>2. /\ Whole(m) \in AnyRecord /\ Torn(m) \in AnyRecord
      /\ Whole(m) \in Records(a) /\ Torn(m) \in Records(a)
  BY DEF Whole, Torn, AnyRecord, Records, Taken
<1>3. \/ f = d[a]
      \/ \E r \in {Whole(m), Torn(m)} : f = Append(d[a], r)
  BY DEF Extensions
<1>4. CASE f = d[a]
  BY <1>1, <1>4
<1>5. ASSUME NEW r \in {Whole(m), Torn(m)}, f = Append(d[a], r)
      PROVE  /\ f \in Seq(AnyRecord) /\ f \in Seq(Records(a))
             /\ \A n \in DOMAIN d[a] : n \in DOMAIN f /\ f[n] = d[a][n]
  <2>1. r \in AnyRecord /\ r \in Records(a)
    BY <1>2
  <2>2. f \in Seq(AnyRecord) /\ f \in Seq(Records(a))
    BY <1>1, <1>5, <2>1
  <2>3. \A n \in DOMAIN d[a] : n \in DOMAIN f /\ f[n] = d[a][n]
    BY <1>1, <1>5
  <2>. QED
    BY <2>2, <2>3
<1>. QED
  BY <1>3, <1>4, <1>5

\* One file extended.
LEMMA FileGrows ==
    ASSUME NEW d \in Files, NEW m \in Taken, NEW f \in Extensions(d[AppOf[m]], m)
    PROVE  LET d2 == [d EXCEPT ![AppOf[m]] = f]
           IN  d2 \in Files /\ Extended(d, d2)
<1>. DEFINE a == AppOf[m]
            d2 == [d EXCEPT ![a] = f]
<1>1. /\ f \in Seq(AnyRecord) /\ f \in Seq(Records(a)) /\ a \in Apps
      /\ \A n \in DOMAIN d[a] : n \in DOMAIN f /\ f[n] = d[a][n]
  BY ExtensionsGrow DEF Taken
<1>2. d \in [Apps -> Seq(AnyRecord)] /\ \A b \in Apps : d[b] \in Seq(Records(b))
  BY DEF Files
<1>3. d2[a] = f /\ \A b \in Apps \ {a} : d2[b] = d[b]
  BY <1>1, <1>2
<1>4. d2 \in [Apps -> Seq(AnyRecord)]
  BY <1>1, <1>2
<1>5. \A b \in Apps : d2[b] \in Seq(Records(b))
  BY <1>1, <1>2, <1>3
<1>6. Extended(d, d2)
  BY <1>1, <1>3 DEF Extended
<1>. QED
  BY <1>4, <1>5, <1>6 DEF Files

\* The stream of one application replaced.
LEMMA StreamsType ==
    ASSUME NEW s \in Streams, NEW a \in Apps, NEW t \in Stream,
           t.is = "bad" => t.pending \in Taken /\ AppOf[t.pending] = a
    PROVE  /\ [s EXCEPT ![a] = t] \in Streams
           /\ [s EXCEPT ![a] = t][a] = t
           /\ \A b \in Apps \ {a} : [s EXCEPT ![a] = t][b] = s[b]
<1>1. s \in [Apps -> Stream]
  BY DEF Streams
<1>2. [s EXCEPT ![a] = t] \in [Apps -> Stream]
  BY <1>1
<1>. QED
  BY <1>1, <1>2 DEF Streams

LEMMA StreamKinds ==
    /\ NoStreams \in Streams /\ Good \in Stream /\ Closed \in Stream
    /\ \A m \in Messages : Bad(m) \in Stream
  BY DEF NoStreams, Streams, Absent, Stream, Good, Closed, Bad

\* create_stream makes the stream of an application that has no message yet.
LEMMA NewStream ==
    ASSUME NEW acc \in Seq(Taken), NEW d \in Files, NEW s \in Streams, NEW a \in Apps,
           NEW f, s[a].is = "absent", Aligned(acc, d, s, f),
           NEW t \in {Good, Closed}
    PROVE  LET s2 == [s EXCEPT ![a] = t]
           IN  s2 \in Streams /\ Aligned(acc, d, s2, f)
<1>. DEFINE s2 == [s EXCEPT ![a] = t]
<1>1. t \in Stream /\ t.is \in {"good", "closed"}
  BY StreamKinds DEF Good, Closed
<1>2. s2 \in Streams /\ s2[a] = t /\ \A b \in Apps \ {a} : s2[b] = s[b]
  BY <1>1, StreamsType
<1>3. d[a] = <<>> /\ a \notin f /\ \A i \in DOMAIN acc : AppOf[acc[i]] # a
  BY DEF Aligned
<1>4. Count(acc, a) = 0
  <2>1. {j \in DOMAIN acc : AppOf[acc[j]] = a} = {}
    BY <1>3
  <2>. QED
    BY <2>1, FS_EmptySet DEF Count
<1>5. Aligned(acc, d, s2, f)
  <2>1. Len(d[a]) = 0
    BY <1>3
  <2>. QED
    BY <1>1, <1>2, <1>3, <1>4, <2>1 DEF Aligned
<1>. QED
  BY <1>2, <1>5

\* A write that succeeds.
LEMMA GoodWrite ==
    ASSUME NEW acc \in Seq(Taken), NEW m \in Taken, NEW d \in Files,
           NEW s \in Streams, s[AppOf[m]].is \in {"good", "absent"},
           NEW failures \in SUBSET Apps,
           Aligned(acc, d, s, failures), InFiles(acc, d, failures)
    PROVE  LET a == AppOf[m]
               d2 == [d EXCEPT ![a] = Append(d[a], Whole(m))]
               s2 == [s EXCEPT ![a] = Good]
           IN  /\ d2 \in Files /\ s2 \in Streams
               /\ Aligned(Append(acc, m), d2, s2, failures)
               /\ InFiles(Append(acc, m), d2, failures)
<1>. DEFINE a == AppOf[m]
            f == Append(d[a], Whole(m))
            d2 == [d EXCEPT ![a] = f]
            s2 == [s EXCEPT ![a] = Good]
            new == Append(acc, m)
<1>1. a \in Apps /\ d[a] \in Seq(AnyRecord) /\ Len(d[a]) \in Nat
  BY DEF Taken, Files
<1>2. d2 \in Files /\ Extended(d, d2)
  <2>1. f \in Extensions(d[a], m)
    BY DEF Extensions
  <2>. QED
    BY <2>1, FileGrows
<1>3. s2 \in Streams /\ s2[a] = Good /\ \A b \in Apps \ {a} : s2[b] = s[b]
  BY <1>1, StreamKinds, StreamsType DEF Good
<1>4. d2[a] = f /\ \A b \in Apps \ {a} : d2[b] = d[b]
  BY <1>1 DEF Files
<1>5. Len(f) = Len(d[a]) + 1 /\ DOMAIN f = 1 .. (Len(d[a]) + 1)
      /\ f[Len(d[a]) + 1] = Whole(m)
  BY <1>1
<1>6. Count(acc, a) = Len(d[a]) /\ a \notin failures
  <2>1. CASE s[a].is = "good"
    BY <1>1, <2>1 DEF Aligned
  <2>2. CASE s[a].is = "absent"
    <3>1. {j \in DOMAIN acc : AppOf[acc[j]] = a} = {} /\ d[a] = <<>> /\ a \notin failures
      BY <1>1, <2>2 DEF Aligned
    <3>2. Count(acc, a) = 0
      BY <3>1, FS_EmptySet DEF Count
    <3>. QED
      BY <3>1, <3>2
  <2>. QED
    BY <2>1, <2>2
<1>7. Count(acc, a) + 1 \in DOMAIN d2[a] /\ d2[a][Count(acc, a) + 1] = Whole(m)
  BY <1>1, <1>4, <1>5, <1>6
<1>8. InFiles(new, d2, failures)
  BY <1>2, <1>6, <1>7, WriteKeeps
<1>9. ASSUME NEW b \in Apps
      PROVE  /\ s2[b].is = "good" => Len(d2[b]) = Count(new, b) /\ b \notin failures
             /\ s2[b].is = "absent" =>
                   /\ d2[b] = <<>> /\ b \notin failures
                   /\ \A i \in DOMAIN new : AppOf[new[i]] # b
  <2>1. CASE b = a
    <3>1. Count(new, a) = Count(acc, a) + 1
      BY <1>1, CountAppend
    <3>2. s2[a].is = "good"
      BY <1>3 DEF Good
    <3>. QED
      BY <1>1, <1>4, <1>5, <1>6, <2>1, <3>1, <3>2
  <2>2. CASE b # a
    <3>1. s2[b] = s[b] /\ d2[b] = d[b]
      BY <1>3, <1>4, <2>2
    <3>2. Count(new, b) = Count(acc, b)
      BY <2>2, CountAppend
    <3>3. \A i \in DOMAIN new : new[i] = m \/ \E j \in DOMAIN acc : new[i] = acc[j]
      OBVIOUS
    <3>4. \A i \in DOMAIN acc : s[b].is = "absent" => AppOf[acc[i]] # b
      BY DEF Aligned
    <3>5. \A i \in DOMAIN new : s[b].is = "absent" => AppOf[new[i]] # b
      BY <2>2, <3>3, <3>4
    <3>. QED
      BY <3>1, <3>2, <3>5 DEF Aligned
  <2>. QED
    BY <2>1, <2>2
<1>10. Aligned(new, d2, s2, failures)
  BY <1>9 DEF Aligned
<1>. QED
  BY <1>2, <1>3, <1>8, <1>10

\* A write that meets an error.
LEMMA BadWrite ==
    ASSUME NEW acc \in Seq(Taken), NEW m \in Taken, NEW d \in Files,
           NEW s \in Streams, s[AppOf[m]].is \in {"good", "absent"},
           NEW failures \in SUBSET Apps,
           Aligned(acc, d, s, failures), InFiles(acc, d, failures),
           NEW f \in Extensions(d[AppOf[m]], m)
    PROVE  LET a == AppOf[m]
               d2 == [d EXCEPT ![a] = f]
               s2 == [s EXCEPT ![a] = Bad(m)]
               failures2 == failures \cup {a}
           IN  /\ d2 \in Files /\ s2 \in Streams
               /\ Aligned(Append(acc, m), d2, s2, failures2)
               /\ InFiles(Append(acc, m), d2, failures2)
<1>. DEFINE a == AppOf[m]
            d2 == [d EXCEPT ![a] = f]
            s2 == [s EXCEPT ![a] = Bad(m)]
            failures2 == failures \cup {a}
            new == Append(acc, m)
<1>1. a \in Apps /\ d2 \in Files /\ Extended(d, d2)
  BY FileGrows DEF Taken
<1>2. Bad(m) \in Stream /\ Bad(m).is = "bad" /\ Bad(m).pending = m
  BY StreamKinds DEF Bad, Taken
<1>3. s2 \in Streams /\ s2[a] = Bad(m) /\ \A b \in Apps \ {a} : s2[b] = s[b]
  BY <1>1, <1>2, StreamsType
<1>4. \A b \in Apps \ {a} : d2[b] = d[b]
  BY <1>1 DEF Files
<1>5. InFiles(new, d2, failures2)
  <2>1. a \notin failures
    BY <1>1 DEF Aligned
  <2>. QED
    BY <1>1, <2>1, WriteKeeps
<1>6. ASSUME NEW b \in Apps \ {a}
      PROVE  /\ s2[b].is = "good" => Len(d2[b]) = Count(new, b) /\ b \notin failures2
             /\ s2[b].is = "absent" =>
                   /\ d2[b] = <<>> /\ b \notin failures2
                   /\ \A i \in DOMAIN new : AppOf[new[i]] # b
  <2>1. s2[b] = s[b] /\ d2[b] = d[b]
    BY <1>3, <1>4
  <2>2. Count(new, b) = Count(acc, b)
    BY CountAppend
  <2>3. \A i \in DOMAIN new : new[i] = m \/ \E j \in DOMAIN acc : new[i] = acc[j]
    OBVIOUS
  <2>4. \A i \in DOMAIN acc : s[b].is = "absent" => AppOf[acc[i]] # b
    BY DEF Aligned
  <2>5. \A i \in DOMAIN new : s[b].is = "absent" => AppOf[new[i]] # b
    BY <2>3, <2>4
  <2>. QED
    BY <2>1, <2>2, <2>5 DEF Aligned
<1>7. Aligned(new, d2, s2, failures2)
  BY <1>2, <1>3, <1>6 DEF Aligned
<1>. QED
  BY <1>1, <1>3, <1>5, <1>7

\* A new directory has no file.
LEMMA NoFiles == [a \in Apps |-> <<>>] \in Files
<1>. DEFINE none == [a \in Apps |-> <<>>]
<1>1. <<>> \in Seq(AnyRecord) /\ \A a \in Apps : <<>> \in Seq(Records(a))
  OBVIOUS
<1>2. none \in [Apps -> Seq(AnyRecord)] /\ \A a \in Apps : none[a] = <<>>
  BY <1>1
<1>3. \A a \in Apps : none[a] \in Seq(Records(a))
  BY <1>1, <1>2
<1>. QED
  BY <1>2, <1>3 DEF Files

LEMMA InitData == Init => DataInv
<1>. SUFFICES ASSUME Init PROVE DataInv
  OBVIOUS
<1>1. DataTypes
  BY NoFiles, StreamKinds DEF Init, DataTypes
<1>2. ASSUME NEW p \in Procs PROVE ObjectData(p)
  BY DEF Init, ObjectData, InFiles
<1>. QED
  BY <1>1, <1>2 DEF DataInv

\* What an action of one object has to keep.
LEMMA OneObject ==
    ASSUME DataInv, NEW p \in Procs, DataTypes', ObjectData(p)',
           \A q \in Procs \ {p} :
              /\ mode'[q] = mode[q] /\ stream'[q] = stream[q]
              /\ disk'[q] = disk[q] /\ accepted'[q] = accepted[q] /\ failed'[q] = failed[q]
    PROVE  DataInv'
<1>1. ASSUME NEW q \in Procs \ {p} PROVE ObjectData(q)'
  BY <1>1 DEF DataInv, ObjectData
<1>. QED
  BY <1>1 DEF DataInv

\* Actions that leave the data alone and neither begin nor end a session.
LEMMA DataKept ==
    ASSUME DataInv, UNCHANGED data,
           \A q \in Procs : mode'[q] = "pi_pub_or_final" <=> mode[q] = "pi_pub_or_final"
    PROVE  DataInv'
<1>1. DataTypes'
  BY DEF DataInv, DataTypes, data
<1>2. ASSUME NEW q \in Procs PROVE ObjectData(q)'
  BY DEF DataInv, ObjectData, data
<1>. QED
  BY <1>1, <1>2 DEF DataInv

LEMMA LifeCycleData ==
    ASSUME ControlInv, DataInv, NEW p \in Procs,
           \/ Config(p) \/ Initialize(p) \/ CreateDirectories(p)
           \/ Pause(p) \/ Resume(p)
           \/ \E b \in Messages \cup {NoMessage} : Refuse(p, b)
    PROVE  DataInv'
<1>. DEFINE SameSession == \A q \in Procs :
              mode'[q] = "pi_pub_or_final" <=> mode[q] = "pi_pub_or_final"
<1>1. mode \in [Procs -> {"pi_config", "pi_init", "pi_pub_or_final"}]
  BY DEF ControlInv, ControlTypes
<1>2. CASE Config(p)
  BY <1>1, <1>2, DataKept DEF Config, data
<1>3. CASE Initialize(p)
  <2>1. SameSession
    BY <1>1, <1>3 DEF Initialize, Defaulted
  <2>. QED
    BY <1>3, <2>1, DataKept DEF Initialize, data
<1>4. CASE CreateDirectories(p)
  BY <1>4, DataKept DEF CreateDirectories, StatFdir, StatBase, StatUser, StatDir,
     MkdirDir, MkdirUser, MkdirFdir, data
<1>5. CASE Pause(p) \/ Resume(p)
  BY <1>5, DataKept DEF Pause, Resume, data
<1>6. ASSUME NEW b \in Messages \cup {NoMessage}, Refuse(p, b) PROVE DataInv'
  BY <1>6, DataKept DEF Refuse, object, data
<1>. QED
  BY <1>2, <1>3, <1>4, <1>5, <1>6

LEMMA TestFileData ==
    ASSUME ControlInv, DataInv, NEW p \in Procs, TestFile(p)
    PROVE  DataInv'
<1>. DEFINE none == [a \in Apps |-> <<>>]
<1>1. mode \in [Procs -> {"pi_config", "pi_init", "pi_pub_or_final"}]
  BY DEF ControlInv, ControlTypes
<1>2. CASE UNCHANGED <<mode, disk, accepted, failed>>
  BY <1>2, DataKept DEF TestFile, data
<1>3. CASE /\ mode' = [mode EXCEPT ![p] = "pi_pub_or_final"]
           /\ disk' = [disk EXCEPT ![p] = none]
           /\ accepted' = [accepted EXCEPT ![p] = <<>>]
           /\ failed' = [failed EXCEPT ![p] = {}]
  <2>1. stream' = stream
    BY DEF TestFile
  <2>2. mode[p] = "pi_init"
    BY DEF TestFile, At, ControlInv, ModesAgree
  <2>3. stream'[p] = NoStreams
    BY <2>1, <2>2 DEF DataInv, ObjectData
  <2>4. none \in Files
    BY NoFiles
  <2>5. DataTypes'
    BY <1>3, <2>1, <2>4 DEF DataInv, DataTypes
  <2>6. mode'[p] = "pi_pub_or_final" /\ disk'[p] = none /\ accepted'[p] = <<>>
        /\ failed'[p] = {}
    BY <1>1, <1>3 DEF DataInv, DataTypes
  <2>7. Aligned(accepted'[p], disk'[p], stream'[p], failed'[p])
    BY <2>3, <2>6 DEF Aligned, NoStreams, Absent
  <2>8. InFiles(accepted'[p], disk'[p], failed'[p])
    BY <2>6 DEF InFiles
  <2>9. ObjectData(p)'
    BY <2>6, <2>7, <2>8 DEF ObjectData
  <2>. QED
    BY <1>1, <1>3, <2>1, <2>5, <2>9, OneObject DEF DataInv, DataTypes
<1>. QED
  BY <1>2, <1>3 DEF TestFile

\* The stream a publish uses belongs to an application.
LEMMA PublishTypes ==
    ASSUME DataInv, NEW p \in Procs, NEW b \in Messages, Publishing(p, b),
           Application(b) # NoApp
    PROVE  /\ b \in Taken
           /\ stream[p] \in Streams /\ disk[p] \in Files /\ accepted[p] \in Seq(Taken)
           /\ failed[p] \in SUBSET Apps
           /\ Aligned(accepted[p], disk[p], stream[p], failed[p])
           /\ InFiles(accepted[p], disk[p], failed[p])
<1>1. b \in Taken
  BY MultifileAssumption DEF Application, Taken
<1>2. mode[p] = "pi_pub_or_final"
  BY DEF Publishing
<1>. QED
  BY <1>1, <1>2 DEF DataInv, DataTypes, ObjectData

LEMMA NestedStream ==
    ASSUME DataTypes, NEW p \in Procs, NEW a \in Apps, NEW t,
           stream' = [stream EXCEPT ![p][a] = t]
    PROVE  stream' = [stream EXCEPT ![p] = [stream[p] EXCEPT ![a] = t]]
  OBVIOUS

\* A publish that only makes a stream, or finds one that is not good.
LEMMA PublishNothingData ==
    ASSUME ControlInv, DataInv, NEW p \in Procs, NEW b \in Messages,
           PublishDead(p, b) \/ PublishThrows(p, b)
    PROVE  DataInv'
<1>. DEFINE a == Application(b)
            s == stream[p]
<1>1. Publishing(p, b) /\ a # NoApp /\ UNCHANGED <<mode, disk, accepted, failed>>
  BY DEF PublishDead, PublishThrows, history
<1>2. /\ b \in Taken /\ a \in Apps /\ s \in Streams /\ disk[p] \in Files
      /\ accepted[p] \in Seq(Taken)
      /\ Aligned(accepted[p], disk[p], s, failed[p])
      /\ InFiles(accepted[p], disk[p], failed[p])
  BY <1>1, PublishTypes DEF Application, Taken
<1>3. \E t : /\ t = s[a] \/ (s[a].is = "absent" /\ t \in {Good, Closed})
             /\ stream' = [stream EXCEPT ![p][a] = t]
  BY DEF PublishDead, PublishThrows, CreatedStreams
<1>4. PICK t : /\ t = s[a] \/ (s[a].is = "absent" /\ t \in {Good, Closed})
               /\ stream' = [stream EXCEPT ![p] = [s EXCEPT ![a] = t]]
  BY <1>3, <1>2, NestedStream DEF DataInv
<1>5. CASE t = s[a]
  <2>1. [s EXCEPT ![a] = s[a]] = s
    BY <1>2 DEF Streams
  <2>2. [stream EXCEPT ![p] = s] = stream
    BY DEF DataInv, DataTypes
  <2>3. stream' = stream
    BY <1>4, <1>5, <2>1, <2>2
  <2>. QED
    BY <1>1, <2>3, DataKept DEF data
<1>6. CASE s[a].is = "absent" /\ t \in {Good, Closed}
  <2>. DEFINE s2 == [s EXCEPT ![a] = t]
  <2>1. s2 \in Streams /\ Aligned(accepted[p], disk[p], s2, failed[p])
    BY <1>2, <1>6, NewStream
  <2>2. stream'[p] = s2 /\ \A q \in Procs \ {p} : stream'[q] = stream[q]
    BY <1>4 DEF DataInv, DataTypes
  <2>3. DataTypes'
    BY <1>1, <1>4, <2>1 DEF DataInv, DataTypes
  <2>4. ObjectData(p)'
    BY <1>1, <1>2, <2>1, <2>2 DEF ObjectData, Publishing
  <2>. QED
    BY <1>1, <2>2, <2>3, <2>4, OneObject
<1>. QED
  BY <1>4, <1>5, <1>6

LEMMA NestedDisk ==
    ASSUME DataTypes, NEW p \in Procs, NEW a \in Apps, NEW f,
           disk' = [disk EXCEPT ![p][a] = f]
    PROVE  disk' = [disk EXCEPT ![p] = [disk[p] EXCEPT ![a] = f]]
  OBVIOUS

LEMMA PublishWriteData ==
    ASSUME ControlInv, DataInv, NEW p \in Procs, NEW b \in Messages, PublishWrite(p, b)
    PROVE  DataInv'
<1>. DEFINE a == Application(b)
            acc == accepted[p]
            d == disk[p]
            s == stream[p]
            f == failed[p]
<1>1. /\ Publishing(p, b) /\ a # NoApp /\ mode' = mode
      /\ Good \in CreatedStreams(p, a)
      /\ accepted' = [accepted EXCEPT ![p] = Append(acc, b)]
  BY DEF PublishWrite
<1>2. /\ b \in Taken /\ a \in Apps /\ s \in Streams /\ d \in Files
      /\ acc \in Seq(Taken) /\ f \in SUBSET Apps
      /\ Aligned(acc, d, s, f) /\ InFiles(acc, d, f)
  BY <1>1, PublishTypes DEF Application, Taken
<1>3. s[a].is \in {"good", "absent"}
  BY <1>1 DEF CreatedStreams, Good
<1>4. PICK g, t, f2 :
         /\ stream' = [stream EXCEPT ![p] = [s EXCEPT ![a] = t]]
         /\ disk' = [disk EXCEPT ![p] = [d EXCEPT ![a] = g]]
         /\ failed' = [failed EXCEPT ![p] = f2]
         /\ \/ t = Good /\ g = Append(d[a], Whole(b)) /\ f2 = f
            \/ t = Bad(b) /\ g \in Extensions(d[a], b) /\ f2 = f \cup {a}
  <2>1. CASE /\ stream' = [stream EXCEPT ![p][a] = Good]
             /\ disk' = [disk EXCEPT ![p][a] = Append(@, Whole(b))]
             /\ UNCHANGED failed
    <3>1. disk' = [disk EXCEPT ![p][a] = Append(d[a], Whole(b))]
      BY <1>2, <2>1 DEF DataInv, DataTypes
    <3>2. failed' = [failed EXCEPT ![p] = f]
      BY <2>1 DEF DataInv, DataTypes
    <3>. QED
      BY <1>2, <2>1, <3>1, <3>2, NestedStream, NestedDisk DEF DataInv
  <2>2. CASE /\ stream' = [stream EXCEPT ![p][a] = Bad(b)]
             /\ failed' = [failed EXCEPT ![p] = f \cup {a}]
             /\ \E g \in Extensions(d[a], b) : disk' = [disk EXCEPT ![p][a] = g]
    BY <1>2, <2>2, NestedStream, NestedDisk DEF DataInv
  <2>. QED
    BY <2>1, <2>2 DEF PublishWrite
<1>. DEFINE d2 == [d EXCEPT ![a] = g]
            s2 == [s EXCEPT ![a] = t]
<1>5. /\ d2 \in Files /\ s2 \in Streams /\ f2 \in SUBSET Apps
      /\ Aligned(Append(acc, b), d2, s2, f2) /\ InFiles(Append(acc, b), d2, f2)
  <2>1. a = AppOf[b]
    BY DEF Application
  <2>2. CASE t = Good /\ g = Append(d[a], Whole(b)) /\ f2 = f
    BY <1>2, <1>3, <2>1, <2>2, GoodWrite
  <2>3. CASE t = Bad(b) /\ g \in Extensions(d[a], b) /\ f2 = f \cup {a}
    BY <1>2, <1>3, <2>1, <2>3, BadWrite
  <2>. QED
    BY <1>4, <2>2, <2>3
<1>6. /\ stream'[p] = s2 /\ disk'[p] = d2 /\ accepted'[p] = Append(acc, b)
      /\ failed'[p] = f2
  BY <1>1, <1>4 DEF DataInv, DataTypes
<1>7. \A q \in Procs \ {p} :
         /\ stream'[q] = stream[q] /\ disk'[q] = disk[q]
         /\ accepted'[q] = accepted[q] /\ failed'[q] = failed[q]
  BY <1>1, <1>4 DEF DataInv, DataTypes
<1>8. DataTypes'
  <2>1. Append(acc, b) \in Seq(Taken)
    BY <1>2
  <2>. QED
    BY <1>1, <1>4, <1>5, <2>1 DEF DataInv, DataTypes
<1>9. ObjectData(p)'
  BY <1>1, <1>5, <1>6 DEF ObjectData, Publishing
<1>. QED
  BY <1>1, <1>7, <1>8, <1>9, OneObject

\* A session ends, with files that are as they were or longer.
LEMMA EndKeeps ==
    ASSUME ControlInv, DataInv, NEW p \in Procs,
           mode' = [mode EXCEPT ![p] = "pi_config"], UNCHANGED <<accepted, failed>>,
           stream' = [stream EXCEPT ![p] = NoStreams],
           NEW d2 \in Files, Extended(disk[p], d2), disk' = [disk EXCEPT ![p] = d2]
    PROVE  DataInv'
<1>1. /\ mode'[p] = "pi_config" /\ stream'[p] = NoStreams /\ disk'[p] = d2
      /\ accepted'[p] = accepted[p] /\ failed'[p] = failed[p]
  BY DEF ControlInv, ControlTypes, DataInv, DataTypes
<1>2. \A q \in Procs \ {p} :
         /\ mode'[q] = mode[q] /\ stream'[q] = stream[q]
         /\ disk'[q] = disk[q] /\ accepted'[q] = accepted[q] /\ failed'[q] = failed[q]
  BY DEF ControlInv, ControlTypes, DataInv, DataTypes
<1>3. DataTypes'
  BY StreamKinds DEF DataInv, DataTypes
<1>4. InFiles(accepted[p], d2, failed[p])
  <2>1. /\ accepted[p] \in Seq(Taken) /\ disk[p] \in Files
        /\ InFiles(accepted[p], disk[p], failed[p])
    BY DEF DataInv, DataTypes, ObjectData
  <2>. QED
    BY <2>1, GrowthKeeps
<1>5. ObjectData(p)'
  BY <1>1, <1>4 DEF ObjectData
<1>. QED
  BY <1>2, <1>3, <1>5, OneObject

\* Closing the streams makes the files longer at most.
LEMMA ClearExtends ==
    ASSUME DataInv, NEW p \in Procs, Clear(p)
    PROVE  /\ stream' = [stream EXCEPT ![p] = NoStreams]
           /\ \E d2 \in Files : Extended(disk[p], d2) /\ disk' = [disk EXCEPT ![p] = d2]
<1>. DEFINE d == disk[p]
            s == stream[p]
<1>1. d \in Files /\ s \in Streams
  BY DEF DataInv, DataTypes
<1>2. PICK d2 \in [Apps -> UNION {Extensions(d[a], s[a].pending) : a \in Apps}] :
         /\ \A a \in Apps : d2[a] \in IF s[a].is = "bad"
                                      THEN Extensions(d[a], s[a].pending) ELSE {d[a]}
         /\ disk' = [disk EXCEPT ![p] = d2]
  BY DEF Clear
<1>3. ASSUME NEW a \in Apps
      PROVE  /\ d2[a] \in Seq(AnyRecord) /\ d2[a] \in Seq(Records(a))
             /\ \A n \in DOMAIN d[a] : n \in DOMAIN d2[a] /\ d2[a][n] = d[a][n]
  <2>1. CASE s[a].is = "bad"
    <3>1. PICK m \in Taken : m = s[a].pending /\ AppOf[m] = a
      BY <1>1, <2>1 DEF Streams
    <3>2. d2[a] \in Extensions(d[AppOf[m]], m)
      BY <1>2, <2>1, <3>1
    <3>3. /\ d2[a] \in Seq(AnyRecord) /\ d2[a] \in Seq(Records(AppOf[m]))
          /\ \A n \in DOMAIN d[AppOf[m]] :
                n \in DOMAIN d2[a] /\ d2[a][n] = d[AppOf[m]][n]
      BY <1>1, <3>2, ExtensionsGrow
    <3>. QED
      BY <3>1, <3>3
  <2>2. CASE s[a].is # "bad"
    <3>1. d2[a] = d[a]
      BY <1>2, <2>2
    <3>. QED
      BY <1>1, <3>1 DEF Files
  <2>. QED
    BY <2>1, <2>2
<1>4. d2 \in [Apps -> Seq(AnyRecord)]
  BY <1>2, <1>3
<1>5. d2 \in Files
  BY <1>3, <1>4 DEF Files
<1>6. Extended(d, d2)
  BY <1>3 DEF Extended
<1>. QED
  BY <1>2, <1>5, <1>6 DEF Clear

LEMMA FinalizeData ==
    ASSUME ControlInv, DataInv, NEW p \in Procs, Finalize(p)
    PROVE  DataInv'
<1>1. CASE UNCHANGED <<mode, stream, disk>>
  BY <1>1, DataKept DEF Finalize, data
<1>2. CASE mode' = [mode EXCEPT ![p] = "pi_config"] /\ Clear(p)
  BY <1>2, ClearExtends, EndKeeps DEF Finalize
<1>. QED
  BY <1>1, <1>2 DEF Finalize

LEMMA RecreateData ==
    ASSUME ControlInv, DataInv, NEW p \in Procs, Recreate(p)
    PROVE  DataInv'
<1>1. mode' = [mode EXCEPT ![p] = "pi_config"] /\ UNCHANGED <<accepted, failed>>
  BY DEF Recreate
<1>2. disk[p] \in Files
  BY DEF DataInv, DataTypes
<1>3. CASE Clear(p)
  BY <1>1, <1>3, ClearExtends, EndKeeps
<1>4. CASE stream' = [stream EXCEPT ![p] = NoStreams] /\ disk' = disk
  <2>1. Extended(disk[p], disk[p])
    BY DEF Extended
  <2>2. disk' = [disk EXCEPT ![p] = disk[p]]
    BY <1>4 DEF DataInv, DataTypes
  <2>. QED
    BY <1>1, <1>2, <1>4, <2>1, <2>2, EndKeeps
<1>5. ASSUME NEW m \in Messages, AppOf[m] # NoApp,
             stream' = [stream EXCEPT ![p] = NoStreams],
             disk' = [disk EXCEPT ![p][AppOf[m]] = Append(@, Torn(m))]
      PROVE  DataInv'
  <2>. DEFINE a == AppOf[m]
              f == Append(disk[p][a], Torn(m))
              d2 == [disk[p] EXCEPT ![a] = f]
  <2>1. m \in Taken /\ a \in Apps
    BY <1>5, MultifileAssumption DEF Taken
  <2>2. f \in Extensions(disk[p][a], m)
    BY DEF Extensions
  <2>3. d2 \in Files /\ Extended(disk[p], d2)
    BY <1>2, <2>1, <2>2, FileGrows
  <2>4. disk' = [disk EXCEPT ![p][a] = f]
    BY <1>5, <2>1 DEF DataInv, DataTypes
  <2>5. disk' = [disk EXCEPT ![p] = d2]
    BY <2>1, <2>4, NestedDisk DEF DataInv
  <2>. QED
    BY <1>1, <1>5, <2>3, <2>5, EndKeeps
<1>. QED
  BY <1>3, <1>4, <1>5 DEF Recreate

(***************************************************************************)
(* The inductive invariant and what follows from it.                       *)
(***************************************************************************)
IInv == ControlInv /\ DataInv

LEMMA DataStep == IInv /\ [Next]_vars => DataInv'
<1>. SUFFICES ASSUME IInv, [Next]_vars PROVE DataInv'
  OBVIOUS
<1>1. ASSUME NEW p \in Procs, Calls(p) PROVE DataInv'
  BY <1>1, LifeCycleData, TestFileData, PublishNothingData, PublishWriteData,
     FinalizeData, RecreateData DEF Calls, IInv
<1>2. ASSUME NEW d \in {"dir", "user"}, NEW kind \in {"directory", "file"},
             Appears(d, kind)
      PROVE  DataInv'
  BY <1>2, DataKept DEF Appears, object, history, data, IInv
<1>3. CASE UNCHANGED vars
  BY <1>3, DataKept DEF vars, object, history, data, IInv
<1>. QED
  BY <1>1, <1>2, <1>3 DEF Next

THEOREM Invariance == Spec => []IInv
<1>1. Init => IInv
  BY InitControl, InitData DEF IInv
<1>2. IInv /\ [Next]_vars => IInv'
  BY ControlStep, DataStep DEF IInv
<1>. QED
  BY <1>1, <1>2, PTL DEF Spec

\* The variables have their types, and each file only records of its application.
THEOREM TypeCorrect == Spec => []TypeOK
<1>1. IInv => TypeOK
  <2>. SUFFICES ASSUME IInv PROVE TypeOK
    OBVIOUS
  <2>1. ControlTypes /\ DataTypes
    BY DEF IInv, ControlInv, DataInv
  <2>2. stream \in [Procs -> [Apps -> Stream]]
    BY <2>1 DEF DataTypes, Streams
  <2>3. \A p \in Procs, a \in Apps : disk[p][a] \in Seq(Records(a))
    BY <2>1 DEF DataTypes, Files
  <2>4. accepted \in [Procs -> Seq(Messages)]
    <3>1. Seq(Taken) \subseteq Seq(Messages)
      BY DEF Taken
    <3>. QED
      BY <2>1, <3>1 DEF DataTypes
  <2>5. failed \in [Procs -> SUBSET Apps]
    BY <2>1 DEF DataTypes
  <2>. QED
    BY <2>1, <2>2, <2>3, <2>4, <2>5 DEF TypeOK, ControlTypes, Stream
<1>. QED
  BY <1>1, Invariance, PTL

\* An object that publishes has its directory, under directories, whatever others
\* made at the same time and whatever errors initialize passed over.
THEOREM HasDirectory == Spec => []RunningHasDirectory
<1>1. IInv => RunningHasDirectory
  BY DEF IInv, ControlInv, ModesAgree, LeafInUser, NodesNest, RunningHasDirectory
<1>. QED
  BY <1>1, Invariance, PTL

\* The file of an application holds the messages accepted for it, whole and in
\* order, save at most the last, if a write failed for it in that session.
THEOREM InOrder == Spec => []AcceptedInFiles
<1>1. IInv => AcceptedInFiles
  BY DEF IInv, DataInv, ObjectData, InFiles, AcceptedInFiles
<1>. QED
  BY <1>1, Invariance, PTL

\* A stream that is closed or bad stays so until its session ends, and no message
\* of its application is accepted.
THEOREM StayDead == Spec => DeadStreamsStayDead
<1>. DEFINE Dead(p, a) ==
       stream[p][a].is \in {"closed", "bad"} =>
             \/ stream'[p] = NoStreams
             \/ /\ stream'[p][a] = stream[p][a]
                /\ \/ accepted'[p] = accepted[p]
                   \/ \E m \in Messages :
                         AppOf[m] # a /\ accepted'[p] = Append(accepted[p], m)
<1>1. IInv /\ [Next]_vars => \A p \in Procs, a \in Apps : Dead(p, a)
  <2>. SUFFICES ASSUME IInv, [Next]_vars, NEW p \in Procs, NEW a \in Apps,
                       stream[p][a].is \in {"closed", "bad"}
                PROVE  \/ stream'[p] = NoStreams
                       \/ /\ stream'[p][a] = stream[p][a]
                          /\ \/ accepted'[p] = accepted[p]
                             \/ \E m \in Messages :
                                   AppOf[m] # a /\ accepted'[p] = Append(accepted[p], m)
    OBVIOUS
  <2>1. stream \in [Procs -> [Apps -> Stream]] /\ accepted \in [Procs -> Seq(Taken)]
    BY DEF IInv, DataInv, DataTypes, Streams
  <2>2. CASE stream' = stream /\ accepted' = accepted
    BY <2>2
  <2>3. ASSUME NEW q \in Procs, TestFile(q) PROVE Dead(p, a)
    <3>1. CASE q # p
      BY <2>1, <2>3, <3>1 DEF TestFile
    <3>2. CASE q = p
      <4>1. stream[p] = NoStreams
        BY <2>3, <3>2 DEF TestFile, At, IInv, ControlInv, ModesAgree, DataInv, ObjectData
      <4>. QED
        BY <4>1 DEF NoStreams, Absent
    <3>. QED
      BY <3>1, <3>2
  <2>4. ASSUME NEW q \in Procs, Finalize(q) \/ Recreate(q) PROVE Dead(p, a)
    <3>1. accepted' = accepted
      BY <2>4 DEF Finalize, Recreate
    <3>2. stream' = stream \/ stream' = [stream EXCEPT ![q] = NoStreams]
      BY <2>4 DEF Finalize, Recreate, Clear
    <3>. QED
      BY <2>1, <3>1, <3>2
  <2>5. ASSUME NEW q \in Procs, NEW b \in Messages,
               PublishDead(q, b) \/ PublishThrows(q, b)
        PROVE  Dead(p, a)
    <3>1. accepted' = accepted
      BY <2>5 DEF PublishDead, PublishThrows, history
    <3>2. \E t : /\ t = stream[q][Application(b)] \/ stream[q][Application(b)].is = "absent"
                 /\ stream' = [stream EXCEPT ![q][Application(b)] = t]
      BY <2>5 DEF PublishDead, PublishThrows, CreatedStreams
    <3>. QED
      BY <2>1, <3>1, <3>2
  <2>6. ASSUME NEW q \in Procs, NEW b \in Messages, PublishWrite(q, b)
        PROVE  Dead(p, a)
    <3>1. /\ \E t : stream' = [stream EXCEPT ![q][AppOf[b]] = t]
          /\ accepted' = [accepted EXCEPT ![q] = Append(@, b)]
          /\ Good \in CreatedStreams(q, AppOf[b])
      BY <2>6 DEF PublishWrite, Application
    <3>2. stream[q][AppOf[b]].is \in {"good", "absent"}
      BY <3>1 DEF CreatedStreams, Good
    <3>3. CASE q # p
      BY <2>1, <3>1, <3>3
    <3>4. CASE q = p
      <4>1. AppOf[b] # a
        BY <3>2, <3>4
      <4>2. stream'[p][a] = stream[p][a] /\ accepted'[p] = Append(accepted[p], b)
        BY <2>1, <3>1, <3>4, <4>1
      <4>. QED
        BY <4>1, <4>2
    <3>. QED
      BY <3>3, <3>4
  <2>7. ASSUME NEW q \in Procs, Calls(q) PROVE Dead(p, a)
    <3>1. CASE stream' = stream /\ accepted' = accepted
      BY <3>1
    <3>2. ASSUME \/ Config(q) \/ Initialize(q) \/ CreateDirectories(q)
                 \/ Pause(q) \/ Resume(q)
                 \/ \E b \in Messages \cup {NoMessage} : Refuse(q, b)
          PROVE  stream' = stream /\ accepted' = accepted
      BY <3>2 DEF Config, Initialize, CreateDirectories, StatFdir, StatBase, StatUser,
         StatDir, MkdirDir, MkdirUser, MkdirFdir, Pause, Resume, Refuse, object
    <3>. QED
      BY <2>3, <2>4, <2>5, <2>6, <2>7, <3>1, <3>2 DEF Calls
  <2>8. ASSUME NEW d \in {"dir", "user"}, NEW kind \in {"directory", "file"},
               Appears(d, kind)
        PROVE  stream' = stream /\ accepted' = accepted
    BY <2>8 DEF Appears, object, history
  <2>9. UNCHANGED vars => stream' = stream /\ accepted' = accepted
    BY DEF vars, object, history
  <2>. QED
    BY <2>2, <2>7, <2>8, <2>9 DEF Next
<1>. QED
  BY <1>1, Invariance, PTL DEF Spec, DeadStreamsStayDead
-----------------------------------------------------------------------------
(***************************************************************************)
(* Every process keeps the promises of publisher_api.                      *)
(***************************************************************************)
Keeps(p) == Api(p)!Next \/ UNCHANGED Api(p)!vars

\* Another process's call is invisible.
LEMMA OthersStutter ==
    ASSUME NEW p \in Procs,
           /\ mode'[p] = mode[p] /\ state'[p] = state[p] /\ fdir'[p] = fdir[p]
           /\ paused'[p] = paused[p] /\ accepted'[p] = accepted[p] /\ last'[p] = last[p]
    PROVE  Keeps(p)
<1>1. Phase(p)' = Phase(p) /\ LastReturn(p)' = LastReturn(p)
  BY DEF Phase, LastReturn
<1>. QED
  BY <1>1 DEF Keeps, Api!vars

LEMMA OneProcess ==
    ASSUME IInv, NEW q \in Procs, Calls(q), NEW p \in Procs \ {q}
    PROVE  Keeps(p)
<1>1. ControlTypes /\ accepted \in [Procs -> Seq(Taken)]
  BY DEF IInv, ControlInv, DataInv, DataTypes
<1>2. \/ UNCHANGED <<mode, fdir, paused>>
      \/ Config(q) \/ Initialize(q) \/ TestFile(q) \/ Pause(q) \/ Resume(q)
      \/ Finalize(q) \/ Recreate(q)
  BY DEF Calls, CreateDirectories, StatFdir, StatBase, StatUser, StatDir, MkdirDir,
     MkdirUser, MkdirFdir, Refuse, PublishDead, PublishThrows, PublishWrite, object
<1>3. mode'[p] = mode[p] /\ fdir'[p] = fdir[p] /\ paused'[p] = paused[p]
  BY <1>1, <1>2 DEF Config, Initialize, TestFile, Pause, Resume, Finalize, Recreate,
     ControlTypes
<1>4. /\ state' = state \/ \E v : state' = [state EXCEPT ![q] = v]
      /\ last' = last \/ \E v : last' = [last EXCEPT ![q] = v]
  <2>1. CASE CreateDirectories(q)
    BY <2>1 DEF CreateDirectories, StatFdir, StatBase, StatUser, StatDir, MkdirDir,
       MkdirUser, MkdirFdir, Mkdir, Goto, Fails, Throws, Return
  <2>2. CASE TestFile(q)
    BY <2>2 DEF TestFile, Fails, Return
  <2>3. CASE Config(q) \/ Initialize(q) \/ Pause(q) \/ Resume(q) \/ Finalize(q)
             \/ Recreate(q)
    BY <2>3 DEF Config, Initialize, Pause, Resume, Finalize, Recreate, Return
  <2>4. ASSUME NEW b \in Messages \cup {NoMessage}, Refuse(q, b)
        PROVE  state' = state /\ \E v : last' = [last EXCEPT ![q] = v]
    BY <2>4 DEF Refuse, Return, object
  <2>5. ASSUME NEW b \in Messages,
               PublishDead(q, b) \/ PublishThrows(q, b) \/ PublishWrite(q, b)
        PROVE  /\ state' = state
               /\ last' = last \/ \E v : last' = [last EXCEPT ![q] = v]
    BY <2>5 DEF PublishDead, PublishThrows, PublishWrite, Return, history
  <2>. QED
    BY <2>1, <2>2, <2>3, <2>4, <2>5 DEF Calls
<1>5. accepted' = accepted \/ \E v : accepted' = [accepted EXCEPT ![q] = v]
  <2>1. CASE CreateDirectories(q)
    BY <2>1 DEF CreateDirectories, StatFdir, StatBase, StatUser, StatDir, MkdirDir,
       MkdirUser, MkdirFdir
  <2>2. CASE TestFile(q)
    BY <2>2 DEF TestFile
  <2>3. CASE Config(q) \/ Initialize(q) \/ Pause(q) \/ Resume(q) \/ Finalize(q)
             \/ Recreate(q)
    BY <2>3 DEF Config, Initialize, Pause, Resume, Finalize, Recreate
  <2>4. ASSUME NEW b \in Messages \cup {NoMessage}, Refuse(q, b)
        PROVE  accepted' = accepted
    BY <2>4 DEF Refuse
  <2>5. ASSUME NEW b \in Messages,
               PublishDead(q, b) \/ PublishThrows(q, b) \/ PublishWrite(q, b)
        PROVE  accepted' = accepted \/ \E v : accepted' = [accepted EXCEPT ![q] = v]
    BY <2>5 DEF PublishDead, PublishThrows, PublishWrite, history
  <2>. QED
    BY <2>1, <2>2, <2>3, <2>4, <2>5 DEF Calls
<1>. QED
  BY <1>1, <1>3, <1>4, <1>5, OthersStutter DEF ControlTypes

\* What the caller is told.
LEMMA Told ==
    ASSUME ControlTypes, NEW p \in Procs, NEW c, NEW code, Return(p, c, code)
    PROVE  LastReturn(p)' = [call |-> c,
                             code |-> IF code = "ENOTDIR" THEN "os_error" ELSE code]
<1>1. last'[p] = [call |-> c, code |-> code]
  BY DEF Return, ControlTypes
<1>. QED
  BY <1>1 DEF LastReturn

\* A step of initialize that fails is an initialize that fails; one that goes on
\* or throws is invisible.
LEMMA StepKeeps ==
    ASSUME IInv, NEW p \in Procs, pc[p] # "idle",
           UNCHANGED <<mode, paused, fdir, accepted>>,
           \/ UNCHANGED <<state, last>>
           \/ Fails(p, "os_error") \/ Fails(p, "ENOTDIR")
    PROVE  Keeps(p)
<1>1. mode[p] = "pi_init" /\ state[p] = "ok" /\ ControlTypes
  BY DEF IInv, ControlInv, ModesAgree
<1>2. CASE UNCHANGED <<state, last>>
  BY <1>2, OthersStutter
<1>3. CASE Fails(p, "os_error") \/ Fails(p, "ENOTDIR")
  <2>1. LastReturn(p)' = [call |-> "initialize", code |-> "os_error"]
    BY <1>1, <1>3, Told DEF Fails
  <2>2. Phase(p) = "configured" /\ Phase(p)' = "failed"
    BY <1>1, <1>3 DEF Fails, Phase, ControlTypes
  <2>3. Api(p)!Initialize
    BY <2>1, <2>2 DEF Api!Initialize, Api!Return
  <2>. QED
    BY <2>3 DEF Keeps, Api!Next
<1>. QED
  BY <1>2, <1>3

LEMMA CreateDirectoriesKeeps ==
    ASSUME IInv, NEW p \in Procs, CreateDirectories(p)
    PROVE  Keeps(p)
<1>1. pc[p] # "idle" /\ UNCHANGED <<mode, paused, fdir, accepted>>
  BY DEF CreateDirectories, StatFdir, StatBase, StatUser, StatDir, MkdirDir,
     MkdirUser, MkdirFdir, At
<1>2. \/ UNCHANGED <<state, last>>
      \/ Fails(p, "os_error") \/ Fails(p, "ENOTDIR")
  BY DEF CreateDirectories, StatFdir, StatBase, StatUser, StatDir, MkdirDir,
     MkdirUser, MkdirFdir, Mkdir, Goto, Throws
<1>. QED
  BY <1>1, <1>2, StepKeeps

LEMMA TestFileKeeps ==
    ASSUME IInv, NEW p \in Procs, TestFile(p)
    PROVE  Keeps(p)
<1>1. /\ pc[p] # "idle" /\ UNCHANGED <<paused, fdir>>
      /\ mode[p] = "pi_init" /\ state[p] = "ok" /\ ControlTypes
      /\ accepted \in [Procs -> Seq(Taken)]
  BY DEF TestFile, At, IInv, ControlInv, ModesAgree, DataInv, DataTypes
<1>2. CASE Fails(p, "os_error") /\ UNCHANGED <<mode, accepted>>
  BY <1>1, <1>2, StepKeeps
<1>3. CASE /\ mode' = [mode EXCEPT ![p] = "pi_pub_or_final"]
           /\ accepted' = [accepted EXCEPT ![p] = <<>>]
           /\ Return(p, "initialize", "ok") /\ state' = state
  <2>1. LastReturn(p)' = [call |-> "initialize", code |-> "ok"]
    BY <1>1, <1>3, Told
  <2>2. Phase(p) = "configured" /\ Phase(p)' = "running" /\ accepted'[p] = <<>>
    BY <1>1, <1>3 DEF Phase, ControlTypes
  <2>3. Api(p)!Initialize
    BY <1>1, <2>1, <2>2 DEF Api!Initialize, Api!Return
  <2>. QED
    BY <2>3 DEF Keeps, Api!Next
<1>. QED
  BY <1>2, <1>3 DEF TestFile

LEMMA ConfigKeeps ==
    ASSUME IInv, NEW p \in Procs, Config(p)
    PROVE  Keeps(p)
<1>1. ControlTypes /\ UNCHANGED <<state, paused, accepted>>
      /\ (state[p] = "err" => mode[p] = "pi_init")
  BY DEF Config, IInv, ControlInv, ModesAgree
<1>2. CASE /\ mode[p] # "pi_config" /\ Return(p, "config", "wrong_mode")
           /\ UNCHANGED <<mode, fdir>>
  <2>1. LastReturn(p)' = [call |-> "config", code |-> "wrong_mode"]
    BY <1>1, <1>2, Told
  <2>2. Phase(p)' = Phase(p) /\ Phase(p) \notin {"new", "finalized"}
    BY <1>1, <1>2 DEF Phase, ControlTypes
  <2>3. Api(p)!Config
    BY <1>1, <2>1, <2>2 DEF Api!Config, Api!Return
  <2>. QED
    BY <2>3 DEF Keeps, Api!Next
<1>3. CASE /\ mode[p] = "pi_config" /\ mode' = [mode EXCEPT ![p] = "pi_init"]
           /\ Return(p, "config", "ok")
  <2>1. LastReturn(p)' = [call |-> "config", code |-> "ok"]
    BY <1>1, <1>3, Told
  <2>2. Phase(p) \in {"new", "finalized"} /\ Phase(p)' = "configured"
    BY <1>1, <1>3 DEF Phase, ControlTypes
  <2>3. Api(p)!Config
    BY <1>1, <2>1, <2>2 DEF Api!Config, Api!Return
  <2>. QED
    BY <2>3 DEF Keeps, Api!Next
<1>. QED
  BY <1>2, <1>3 DEF Config

LEMMA InitializeKeeps ==
    ASSUME IInv, NEW p \in Procs, Initialize(p)
    PROVE  Keeps(p)
<1>1. /\ ControlTypes /\ UNCHANGED <<state, paused, accepted>>
      /\ mode' = [mode EXCEPT ![p] = Defaulted(p)] /\ fdir' = [fdir EXCEPT ![p] = TRUE]
      /\ state[p] = "err" => mode[p] = "pi_init"
      /\ mode[p] # "pi_config" => fdir[p]
  BY DEF Initialize, IInv, ControlInv, ModesAgree
<1>2. /\ mode'[p] = Defaulted(p) /\ fdir'[p] = TRUE /\ mode[p] \in {"pi_config",
                                                    "pi_init", "pi_pub_or_final"}
  BY <1>1 DEF ControlTypes
<1>3. CASE Defaulted(p) # "pi_init" /\ Return(p, "initialize", "wrong_mode")
  <2>1. LastReturn(p)' = [call |-> "initialize", code |-> "wrong_mode"]
    BY <1>1, <1>3, Told
  <2>2. Phase(p)' = Phase(p) /\ Phase(p) \in {"running", "finalized"}
    BY <1>1, <1>2, <1>3 DEF Phase, Defaulted
  <2>3. Api(p)!Initialize
    BY <1>1, <2>1, <2>2 DEF Api!Initialize, Api!Return
  <2>. QED
    BY <2>3 DEF Keeps, Api!Next
<1>4. CASE /\ Defaulted(p) = "pi_init" /\ state[p] = "err"
           /\ Return(p, "initialize", "prior_error")
  <2>1. LastReturn(p)' = [call |-> "initialize", code |-> "prior_error"]
    BY <1>1, <1>4, Told
  <2>2. Phase(p)' = Phase(p) /\ Phase(p) = "failed"
    BY <1>1, <1>4 DEF Phase
  <2>3. Api(p)!Initialize
    BY <1>1, <2>1, <2>2 DEF Api!Initialize, Api!Return
  <2>. QED
    BY <2>3 DEF Keeps, Api!Next
<1>5. CASE Defaulted(p) = "pi_init" /\ state[p] = "ok" /\ last' = last
  <2>1. LastReturn(p)' = LastReturn(p)
    BY <1>5 DEF LastReturn
  <2>2. Phase(p)' = "configured"
    BY <1>1, <1>2, <1>5 DEF Phase
  <2>3. Phase(p) \in {"new", "configured"}
    BY <1>2, <1>5 DEF Phase, Defaulted
  <2>4. CASE Phase(p) = "new"
    <3>1. Api(p)!ConfigByDefault
      BY <1>1, <2>1, <2>2, <2>4 DEF Api!ConfigByDefault
    <3>. QED
      BY <3>1 DEF Keeps, Api!Next
  <2>5. CASE Phase(p) = "configured"
    BY <1>1, <2>1, <2>2, <2>5 DEF Keeps, Api!vars
  <2>. QED
    BY <2>3, <2>4, <2>5
<1>. QED
  BY <1>3, <1>4, <1>5 DEF Initialize

LEMMA PauseResumeKeeps ==
    ASSUME IInv, NEW p \in Procs, Pause(p) \/ Resume(p)
    PROVE  Keeps(p)
<1>1. ControlTypes /\ UNCHANGED <<mode, state, fdir, accepted>>
  BY DEF Pause, Resume, IInv, ControlInv
<1>2. Phase(p)' = Phase(p)
  BY <1>1 DEF Phase
<1>3. CASE Pause(p)
  <2>1. LastReturn(p)' = [call |-> "pause", code |-> "ok"] /\ paused'[p] = TRUE
    BY <1>1, <1>3, Told DEF Pause, ControlTypes
  <2>2. Api(p)!Pause
    BY <1>1, <1>2, <2>1 DEF Api!Pause, Api!Return
  <2>. QED
    BY <2>2 DEF Keeps, Api!Next
<1>4. CASE Resume(p)
  <2>1. LastReturn(p)' = [call |-> "resume", code |-> "ok"] /\ paused'[p] = FALSE
    BY <1>1, <1>4, Told DEF Resume, ControlTypes
  <2>2. Api(p)!Resume
    BY <1>1, <1>2, <2>1 DEF Api!Resume, Api!Return
  <2>. QED
    BY <2>2 DEF Keeps, Api!Next
<1>. QED
  BY <1>3, <1>4

LEMMA FinalizeKeeps ==
    ASSUME IInv, NEW p \in Procs, Finalize(p)
    PROVE  Keeps(p)
<1>1. /\ ControlTypes /\ UNCHANGED <<fdir, accepted>>
      /\ state[p] = "err" => mode[p] = "pi_init"
      /\ mode[p] # "pi_config" => fdir[p]
  BY DEF Finalize, IInv, ControlInv, ModesAgree
<1>2. LastReturn(p)' = [call |-> "finalize", code |-> "ok"]
  BY <1>1, Told DEF Finalize
<1>3. CASE /\ mode[p] = "pi_pub_or_final"
           /\ state' = [state EXCEPT ![p] = "ok"]
           /\ paused' = [paused EXCEPT ![p] = FALSE]
           /\ mode' = [mode EXCEPT ![p] = "pi_config"]
  <2>1. Phase(p) = "running" /\ Phase(p)' = "finalized" /\ paused'[p] = FALSE
    BY <1>1, <1>3 DEF Phase, ControlTypes
  <2>2. Api(p)!Finalize
    BY <1>1, <1>2, <2>1 DEF Api!Finalize, Api!Return
  <2>. QED
    BY <2>2 DEF Keeps, Api!Next
<1>4. CASE mode[p] # "pi_pub_or_final" /\ UNCHANGED <<mode, state, paused>>
  <2>1. Phase(p) # "running" /\ Phase(p)' = Phase(p)
    BY <1>1, <1>4 DEF Phase
  <2>2. Api(p)!Finalize
    BY <1>1, <1>2, <1>4, <2>1 DEF Api!Finalize, Api!Return
  <2>. QED
    BY <2>2 DEF Keeps, Api!Next
<1>. QED
  BY <1>3, <1>4 DEF Finalize

LEMMA RecreateKeeps ==
    ASSUME IInv, NEW p \in Procs, Recreate(p)
    PROVE  Keeps(p)
<1>1. ControlTypes
  BY DEF IInv, ControlInv
<1>2. LastReturn(p)' = [call |-> "create", code |-> "ok"]
  BY <1>1, Told DEF Recreate
<1>3. Phase(p)' = "new" /\ paused'[p] = FALSE /\ accepted' = accepted
  BY <1>1 DEF Recreate, Phase, ControlTypes
<1>4. Api(p)!Create
  BY <1>2, <1>3 DEF Api!Create, Api!Return
<1>. QED
  BY <1>4 DEF Keeps, Api!Next

LEMMA RefuseKeeps ==
    ASSUME IInv, NEW p \in Procs, NEW b \in Messages \cup {NoMessage}, Refuse(p, b)
    PROVE  Keeps(p)
<1>1. /\ ControlTypes /\ UNCHANGED <<mode, state, paused, fdir, accepted>>
      /\ state[p] = "err" => mode[p] = "pi_init"
  BY DEF Refuse, object, IInv, ControlInv, ModesAgree
<1>2. Phase(p)' = Phase(p) /\ paused[p] \in BOOLEAN /\ state[p] \in {"ok", "err"}
  BY <1>1 DEF Phase, ControlTypes
<1>3. Api(p)!Refuse(b)
  <2>1. CASE b = NoMessage /\ Return(p, "publish", "EINVAL")
    <3>1. LastReturn(p)' = [call |-> "publish", code |-> "EINVAL"]
      BY <1>1, <2>1, Told
    <3>. QED
      BY <1>1, <1>2, <2>1, <3>1 DEF Api!Refuse, Api!Return
  <2>2. CASE b # NoMessage /\ paused[p] /\ Return(p, "publish", "ok")
    <3>1. LastReturn(p)' = [call |-> "publish", code |-> "ok"]
      BY <1>1, <2>2, Told
    <3>. QED
      BY <1>1, <1>2, <2>2, <3>1 DEF Api!Refuse, Api!Return
  <2>3. CASE /\ b # NoMessage /\ ~paused[p]
             /\ state[p] # "ok" \/ mode[p] = "pi_pub_or_final"
             /\ Return(p, "publish", "failed")
    <3>1. LastReturn(p)' = [call |-> "publish", code |-> "failed"]
      BY <1>1, <2>3, Told
    <3>2. Phase(p) \in {"failed", "running"}
      BY <1>2, <2>3 DEF Phase
    <3>. QED
      BY <1>1, <1>2, <2>3, <3>1, <3>2 DEF Api!Refuse, Api!Return
  <2>4. CASE /\ b # NoMessage /\ ~paused[p] /\ state[p] = "ok"
             /\ mode[p] # "pi_pub_or_final" /\ Return(p, "publish", "wrong_mode")
    <3>1. LastReturn(p)' = [call |-> "publish", code |-> "wrong_mode"]
      BY <1>1, <2>4, Told
    <3>2. Phase(p) \notin {"failed", "running"}
      BY <2>4 DEF Phase
    <3>. QED
      BY <1>1, <1>2, <2>4, <3>1, <3>2 DEF Api!Refuse, Api!Return
  <2>. QED
    BY <2>1, <2>2, <2>3, <2>4 DEF Refuse, Publishing
<1>. QED
  BY <1>3 DEF Keeps, Api!Next, Api!Publish

LEMMA PublishKeeps ==
    ASSUME IInv, NEW p \in Procs, NEW b \in Messages,
           PublishDead(p, b) \/ PublishThrows(p, b) \/ PublishWrite(p, b)
    PROVE  Keeps(p)
<1>1. /\ ControlTypes /\ UNCHANGED <<mode, state, paused, fdir>>
      /\ b # NoMessage /\ ~paused[p] /\ state[p] = "ok" /\ mode[p] = "pi_pub_or_final"
      /\ accepted \in [Procs -> Seq(Taken)]
  BY DEF PublishDead, PublishThrows, PublishWrite, Publishing, IInv, ControlInv,
     DataInv, DataTypes
<1>2. Phase(p) = "running" /\ Phase(p)' = "running"
  BY <1>1 DEF Phase
<1>3. CASE PublishThrows(p, b)
  BY <1>1, <1>3, OthersStutter DEF PublishThrows, history
<1>4. CASE PublishDead(p, b)
  <2>1. LastReturn(p)' = [call |-> "publish", code |-> "failed"] /\ accepted' = accepted
    BY <1>1, <1>4, Told DEF PublishDead
  <2>2. Api(p)!Refuse(b)
    BY <1>1, <1>2, <2>1 DEF Api!Refuse, Api!Return
  <2>. QED
    BY <2>2 DEF Keeps, Api!Next, Api!Publish
<1>5. CASE PublishWrite(p, b)
  <2>1. LastReturn(p)' = [call |-> "publish", code |-> "ok"]
    BY <1>1, <1>5, Told DEF PublishWrite
  <2>2. accepted'[p] = Append(accepted[p], b)
    BY <1>1, <1>5 DEF PublishWrite
  <2>3. Api(p)!Accept(b)
    BY <1>1, <1>2, <2>1, <2>2 DEF Api!Accept, Api!Return
  <2>. QED
    BY <2>3 DEF Keeps, Api!Next, Api!Publish
<1>. QED
  BY <1>3, <1>4, <1>5

\* Each object, with its steps of initialize and whatever other processes do,
\* implements the publisher interface.
THEOREM Refinement == Spec => ImplementsApi
<1>1. Init => \A p \in Procs : Api(p)!Init
  <2>. SUFFICES ASSUME Init, NEW p \in Procs PROVE Api(p)!Init
    OBVIOUS
  <2>1. Phase(p) = "new" /\ LastReturn(p) = [call |-> "create", code |-> "ok"]
    BY DEF Init, Phase, LastReturn
  <2>. QED
    BY <2>1 DEF Init, Api!Init
<1>2. IInv /\ [Next]_vars => \A p \in Procs : Api(p)!Next \/ UNCHANGED Api(p)!vars
  <2>. SUFFICES ASSUME IInv, [Next]_vars, NEW p \in Procs PROVE Keeps(p)
    BY DEF Keeps
  <2>1. CASE Calls(p)
    BY <2>1, CreateDirectoriesKeeps, TestFileKeeps, ConfigKeeps, InitializeKeeps,
       PauseResumeKeeps, FinalizeKeeps, RecreateKeeps, RefuseKeeps, PublishKeeps
       DEF Calls
  <2>2. ASSUME NEW q \in Procs \ {p}, Calls(q) PROVE Keeps(p)
    BY <2>2, OneProcess
  <2>3. ASSUME NEW d \in {"dir", "user"}, NEW kind \in {"directory", "file"},
               Appears(d, kind)
        PROVE  Keeps(p)
    BY <2>3, OthersStutter DEF Appears, object, history
  <2>4. CASE UNCHANGED vars
    BY <2>4, OthersStutter DEF vars, object, history
  <2>. QED
    BY <2>1, <2>2, <2>3, <2>4 DEF Next
<1>. QED
  BY <1>1, <1>2, Invariance, PTL DEF Spec, ImplementsApi
=============================================================================

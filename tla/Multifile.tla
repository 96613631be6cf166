------------------------------ MODULE Multifile ------------------------------
(***************************************************************************)
(* The multifile plugin (adc/publisher/impl/multifile.ipp).  Each process  *)
(* has one object; config makes up a directory of its own,                 *)
(*     DIRECTORY/user/[wfid.]H_host.Ppid.Tstart.pointer                    *)
(* and initialize creates it, with its missing parents, while the other    *)
(* processes of the job do the same in the same DIRECTORY.  publish keeps  *)
(* one stream for each application named in the messages.                  *)
(***************************************************************************)
EXTENDS Naturals, Sequences, FiniteSets

CONSTANTS
    Procs,       \* processes, each with one publisher object
    Messages,    \* what a builder_api object serializes to
    NoMessage,   \* a null builder pointer; what a sound stream has pending
    Apps,        \* values of /header/application
    NoApp,       \* the message has no such field
    AppOf,       \* the application of each message
    MaxPublish   \* bound: messages an object accepts in a session

ASSUME MultifileAssumption ==
    /\ NoMessage \notin Messages
    /\ NoApp \notin Apps
    /\ AppOf \in [Messages -> Apps \cup {NoApp}]
    /\ MaxPublish \in Nat

VARIABLES
    mode,      \* the next mode needed for correct operation
    state,     \* "ok" or "err"
    paused,
    fdir,      \* config has made up the directory name
    stream,    \* app_out: the stream of each application and what it has pending
    pc,        \* the next file system call of an initialize in progress
    base,      \* its variable status_bdir
    node,      \* the shared DIRECTORY and DIRECTORY/user
    leaf,      \* the object's own directory exists
    disk,      \* the records in the files of its current or last session
    accepted,  \* history: messages publish answered 0 for in that session
    failed,    \* history: the applications a write failed for in that session
    last       \* the last call that returned and its return code

object == <<mode, state, paused, fdir, stream>>
local == <<pc, base>>
history == <<accepted, failed, last>>
vars == <<object, local, node, leaf, disk, history>>

Kinds == {"none", "directory", "file"}
Records(a) == [msg : {m \in Messages : AppOf[m] = a}, whole : BOOLEAN]
Whole(m) == [msg |-> m, whole |-> TRUE]
Torn(m) == [msg |-> m, whole |-> FALSE]

\* is_open() and good(); in the map but not open; open with badbit set.
Good == [is |-> "good", pending |-> NoMessage]
Closed == [is |-> "closed", pending |-> NoMessage]
Bad(m) == [is |-> "bad", pending |-> m]
Absent == [is |-> "absent", pending |-> NoMessage]
NoStreams == [a \in Apps |-> Absent]

Return(p, c, code) == last' = [last EXCEPT ![p] = [call |-> c, code |-> code]]

Init ==
    /\ mode = [p \in Procs |-> "pi_config"]
    /\ state = [p \in Procs |-> "ok"]
    /\ paused = [p \in Procs |-> FALSE]
    /\ fdir = [p \in Procs |-> FALSE]
    /\ stream = [p \in Procs |-> NoStreams]
    /\ pc = [p \in Procs |-> "idle"]
    /\ base = [p \in Procs |-> "none"]
    /\ node \in [{"dir", "user"} -> Kinds]
    /\ node["user"] # "none" => node["dir"] = "directory"
    /\ leaf = [p \in Procs |-> FALSE]
    /\ disk = [p \in Procs |-> [a \in Apps |-> <<>>]]
    /\ accepted = [p \in Procs |-> <<>>]
    /\ failed = [p \in Procs |-> {}]
    /\ last = [p \in Procs |-> [call |-> "create", code |-> "ok"]]
-----------------------------------------------------------------------------
\* An object is not thread-safe: its process makes one call at a time.
Free(p) == pc[p] = "idle"

\* Every successful config makes up a new directory name.  The host, the pid,
\* the time and the object in it make it the object's own, provided DIRECTORY,
\* the user name and ADC_WFID have no blank: `ss >> fdir` cuts the path at the
\* first one, and what is left may be common to many objects.  The model is of
\* settings without blanks.
Config(p) ==
    /\ Free(p)
    /\ \/ /\ mode[p] # "pi_config"
          /\ Return(p, "config", "wrong_mode")
          /\ UNCHANGED <<mode, fdir, leaf>>
       \/ /\ mode[p] = "pi_config"
          /\ mode' = [mode EXCEPT ![p] = "pi_init"]
          /\ fdir' = [fdir EXCEPT ![p] = TRUE]
          /\ leaf' = [leaf EXCEPT ![p] = FALSE]
          /\ Return(p, "config", "ok")
    /\ UNCHANGED <<state, paused, stream, local, node, disk, accepted, failed>>

\* initialize configures by default when no directory was ever made up.
Defaulted(p) == IF fdir[p] THEN mode[p]
                ELSE IF mode[p] = "pi_config" THEN "pi_init" ELSE mode[p]

Initialize(p) ==
    /\ Free(p)
    /\ mode' = [mode EXCEPT ![p] = Defaulted(p)]
    /\ fdir' = [fdir EXCEPT ![p] = TRUE]
    /\ \/ /\ Defaulted(p) # "pi_init"
          /\ Return(p, "initialize", "wrong_mode")
          /\ UNCHANGED pc
       \/ /\ Defaulted(p) = "pi_init" /\ state[p] = "err"
          /\ Return(p, "initialize", "prior_error")
          /\ UNCHANGED pc
       \/ /\ Defaulted(p) = "pi_init" /\ state[p] = "ok"
          /\ pc' = [pc EXCEPT ![p] = "stat_fdir"]
          /\ UNCHANGED last
    /\ UNCHANGED <<state, paused, stream, base, node, leaf, disk, accepted,
                   failed>>

At(p, step) == pc[p] = step
Goto(p, step) ==
    /\ pc' = [pc EXCEPT ![p] = step]
    /\ UNCHANGED <<state, last>>

\* create_directories reports an error, which initialize returns.
Fails(p, code) ==
    /\ state' = [state EXCEPT ![p] = "err"]
    /\ pc' = [pc EXCEPT ![p] = "idle"]
    /\ Return(p, "initialize", code)

\* fs::status without an error_code throws, out of initialize, for a path that
\* cannot be searched.  The object is as it was and nothing is returned.
Throws(p) ==
    /\ pc' = [pc EXCEPT ![p] = "idle"]
    /\ UNCHANGED <<state, last>>

StatFdir(p) ==
    /\ At(p, "stat_fdir")
    /\ Goto(p, IF leaf[p] THEN "test" ELSE "stat_base")
    /\ UNCHANGED <<mode, paused, fdir, stream, base, node, leaf, disk, accepted,
                   failed>>

\* dirname(fdir), which is DIRECTORY/user
StatBase(p) ==
    /\ At(p, "stat_base")
    /\ base' = [base EXCEPT ![p] = node["user"]]
    /\ \/ node["user"] = "none" /\ Goto(p, "stat_user")
       \/ node["user"] = "directory" /\ Goto(p, "mkdir_fdir")
       \/ node["user"] = "file" /\ Fails(p, "ENOTDIR")
       \/ Throws(p)
    /\ UNCHANGED <<mode, paused, fdir, stream, node, leaf, disk, accepted,
                   failed>>

\* DIRECTORY/user once more.  The status tested is that of the step before.
StatUser(p) ==
    /\ At(p, "stat_user")
    /\ \/ node["user"] = "none" /\ Goto(p, "stat_dir")
       \/ /\ node["user"] # "none"
          /\ IF base[p] = "directory" THEN Goto(p, "mkdir_fdir")
             ELSE Fails(p, "ENOTDIR")
       \/ Throws(p)
    /\ UNCHANGED <<mode, paused, fdir, stream, base, node, leaf, disk, accepted,
                   failed>>

StatDir(p) ==
    /\ At(p, "stat_dir")
    /\ \/ node["dir"] = "none" /\ Goto(p, "mkdir_dir")
       \/ node["dir"] = "directory" /\ Goto(p, "mkdir_user")
       \/ node["dir"] = "file" /\ Fails(p, "ENOTDIR")
       \/ Throws(p)
    /\ UNCHANGED <<mode, paused, fdir, stream, base, node, leaf, disk, accepted,
                   failed>>

\* create_directory: a directory that is there is no error; for a file the error
\* is EEXIST, which create_directories returns at once and initialize passes over.
Mkdir(p, d, next) ==
    \/ /\ node[d] # "file"
       /\ node' = [node EXCEPT ![d] = "directory"]
       /\ Goto(p, next)
    \/ node[d] = "file" /\ Goto(p, "test") /\ UNCHANGED node
    \/ Fails(p, "os_error") /\ UNCHANGED node

\* The error of the permissions call that follows is overwritten.
MkdirDir(p) ==
    /\ At(p, "mkdir_dir")
    /\ Mkdir(p, "dir", "mkdir_user")
    /\ UNCHANGED <<mode, paused, fdir, stream, base, leaf, disk, accepted,
                   failed>>

MkdirUser(p) ==
    /\ At(p, "mkdir_user")
    /\ Mkdir(p, "user", "mkdir_fdir")
    /\ UNCHANGED <<mode, paused, fdir, stream, base, leaf, disk, accepted,
                   failed>>

\* Nobody else makes this directory.  It may exist though its permissions
\* could not be set.
MkdirFdir(p) ==
    /\ At(p, "mkdir_fdir")
    /\ \/ /\ node["user"] = "directory"
          /\ leaf' = [leaf EXCEPT ![p] = TRUE]
          /\ Goto(p, "test") \/ Fails(p, "os_error")
       \/ Fails(p, "os_error") /\ UNCHANGED leaf
    /\ UNCHANGED <<mode, paused, fdir, stream, base, node, disk, accepted,
                   failed>>

\* Mutant: no test file is made.
NoTestFile(p) ==
    /\ At(p, "test")
    /\ mode' = [mode EXCEPT ![p] = "pi_pub_or_final"]
    /\ pc' = [pc EXCEPT ![p] = "idle"]
    /\ disk' = [disk EXCEPT ![p] = [a \in Apps |-> <<>>]]
    /\ accepted' = [accepted EXCEPT ![p] = <<>>]
    /\ failed' = [failed EXCEPT ![p] = {}]
    /\ Return(p, "initialize", "ok")
    /\ UNCHANGED <<state, paused, fdir, stream, base, node, leaf>>

\* A file is made in the directory and removed, to see that it can be.
TestFile(p) ==
    /\ At(p, "test")
    /\ \/ /\ leaf[p]
          /\ mode' = [mode EXCEPT ![p] = "pi_pub_or_final"]
          /\ pc' = [pc EXCEPT ![p] = "idle"]
          /\ disk' = [disk EXCEPT ![p] = [a \in Apps |-> <<>>]]
          /\ accepted' = [accepted EXCEPT ![p] = <<>>]
          /\ failed' = [failed EXCEPT ![p] = {}]
          /\ Return(p, "initialize", "ok")
          /\ UNCHANGED state
       \/ Fails(p, "os_error") /\ UNCHANGED <<mode, disk, accepted, failed>>
    /\ UNCHANGED <<paused, fdir, stream, base, node, leaf>>
-----------------------------------------------------------------------------
Publishing(p, b) ==
    /\ Free(p)
    /\ b # NoMessage /\ ~paused[p] /\ state[p] = "ok"
    /\ mode[p] = "pi_pub_or_final"

\* Mutant: a message without an application goes to the stream of another.
ApplicationOrAny(b) == IF AppOf[b] = NoApp THEN CHOOSE a \in Apps : TRUE ELSE AppOf[b]

Application(b) == AppOf[b]

\* Mutant: a stream that is not open is made again.
RetriedStreams(p, a) ==
    IF stream[p][a].is \in {"good", "bad"} THEN {stream[p][a]} ELSE {Good, Closed}

\* create_stream: what the stream of a may be after it.  A failed mkstemp or
\* open leaves in the map a stream that is not open.
CreatedStreams(p, a) ==
    IF stream[p][a].is # "absent" THEN {stream[p][a]} ELSE {Good, Closed}

\* The calls of publish that change nothing.
Refuse(p, b) ==
    /\ Free(p)
    /\ \/ b = NoMessage /\ Return(p, "publish", "EINVAL")
       \/ b # NoMessage /\ paused[p] /\ Return(p, "publish", "ok")
       \/ /\ b # NoMessage /\ ~paused[p] /\ state[p] # "ok"
          /\ Return(p, "publish", "failed")
       \/ /\ b # NoMessage /\ ~paused[p] /\ state[p] = "ok"
          /\ mode[p] # "pi_pub_or_final"
          /\ Return(p, "publish", "wrong_mode")
       \/ /\ Publishing(p, b) /\ Application(b) = NoApp
          /\ Return(p, "publish", "failed")
    /\ UNCHANGED <<object, local, node, leaf, disk, accepted, failed>>

\* The stream is not open or not good: 1 is returned.
PublishDead(p, b) ==
    /\ Publishing(p, b)
    /\ Application(b) # NoApp
    /\ \E s \in CreatedStreams(p, Application(b)) :
          /\ s.is # "good"
          /\ stream' = [stream EXCEPT ![p][Application(b)] = s]
    /\ Return(p, "publish", "failed")
    /\ UNCHANGED <<mode, state, paused, fdir, local, node, leaf, disk, accepted,
                   failed>>

\* permissions throws, out of publish; the new stream is in the map.
PublishThrows(p, b) ==
    /\ Publishing(p, b)
    /\ Application(b) # NoApp
    /\ stream[p][Application(b)].is = "absent"
    /\ \E s \in {Good, Closed} : stream' = [stream EXCEPT ![p][Application(b)] = s]
    /\ UNCHANGED <<mode, state, paused, fdir, local, node, leaf, disk, history>>

\* What a write of m that meets an error can leave at the end of a file f.
\* The stream keeps the record in its buffer and tries again at close.
Extensions(f, m) == {f, Append(f, Torn(m)), Append(f, Whole(m))}

\* Mutant: is_open() and good() are not tested.
WriteAnyStream(p, b) ==
    LET a == Application(b)
    IN  /\ Publishing(p, b) /\ a # NoApp
        /\ Len(accepted[p]) < MaxPublish
        /\ \/ /\ Good \in CreatedStreams(p, a)
              /\ stream' = [stream EXCEPT ![p][a] = Good]
              /\ disk' = [disk EXCEPT ![p][a] = Append(@, Whole(b))]
              /\ UNCHANGED failed
           \/ /\ stream' = [stream EXCEPT ![p][a] = Bad(b)]
              /\ failed' = [failed EXCEPT ![p] = @ \cup {a}]
              /\ UNCHANGED disk
        /\ accepted' = [accepted EXCEPT ![p] = Append(@, b)]
        /\ Return(p, "publish", "ok")
        /\ UNCHANGED <<mode, state, paused, fdir, local, node, leaf>>

\* The write is attempted and 0 is returned, whether or not it succeeded.
PublishWrite(p, b) ==
    LET a == Application(b)
    IN  /\ Publishing(p, b) /\ a # NoApp
        /\ Len(accepted[p]) < MaxPublish
        /\ Good \in CreatedStreams(p, a)
        /\ \/ /\ stream' = [stream EXCEPT ![p][a] = Good]
              /\ disk' = [disk EXCEPT ![p][a] = Append(@, Whole(b))]
              /\ UNCHANGED failed
           \/ /\ stream' = [stream EXCEPT ![p][a] = Bad(b)]
              /\ failed' = [failed EXCEPT ![p] = @ \cup {a}]
              /\ \E f \in Extensions(disk[p][a], b) : disk' = [disk EXCEPT ![p][a] = f]
        /\ accepted' = [accepted EXCEPT ![p] = Append(@, b)]
        /\ Return(p, "publish", "ok")
        /\ UNCHANGED <<mode, state, paused, fdir, local, node, leaf>>
-----------------------------------------------------------------------------
Pause(p) ==
    /\ Free(p)
    /\ paused' = [paused EXCEPT ![p] = TRUE]
    /\ Return(p, "pause", "ok")
    /\ UNCHANGED <<mode, state, fdir, stream, local, node, leaf, disk, accepted,
                   failed>>

Resume(p) ==
    /\ Free(p)
    /\ paused' = [paused EXCEPT ![p] = FALSE]
    /\ Return(p, "resume", "ok")
    /\ UNCHANGED <<mode, state, fdir, stream, local, node, leaf, disk, accepted,
                   failed>>

\* app_out.clear() closes every stream; a bad one tries its record once more.
Clear(p) ==
    /\ stream' = [stream EXCEPT ![p] = NoStreams]
    /\ \E closed \in [Apps -> UNION {Extensions(disk[p][a], stream[p][a].pending) :
                                       a \in Apps}] :
          /\ \A a \in Apps :
                closed[a] \in IF stream[p][a].is = "bad"
                              THEN Extensions(disk[p][a], stream[p][a].pending)
                              ELSE {disk[p][a]}
          /\ disk' = [disk EXCEPT ![p] = closed]

\* Mutant: finalize does not end a pause.
FinalizeKeepsPaused(p) ==
    /\ Free(p)
    /\ \/ /\ mode[p] = "pi_pub_or_final"
          /\ state' = [state EXCEPT ![p] = "ok"]
          /\ mode' = [mode EXCEPT ![p] = "pi_config"]
          /\ Clear(p)
       \/ /\ mode[p] # "pi_pub_or_final"
          /\ UNCHANGED <<mode, state, stream, disk>>
    /\ Return(p, "finalize", "ok")
    /\ UNCHANGED <<paused, fdir, local, node, leaf, accepted, failed>>

Finalize(p) ==
    /\ Free(p)
    /\ \/ /\ mode[p] = "pi_pub_or_final"
          /\ state' = [state EXCEPT ![p] = "ok"]
          /\ paused' = [paused EXCEPT ![p] = FALSE]
          /\ mode' = [mode EXCEPT ![p] = "pi_config"]
          /\ Clear(p)
       \/ /\ mode[p] # "pi_pub_or_final"
          /\ UNCHANGED <<mode, state, paused, stream, disk>>
    /\ Return(p, "finalize", "ok")
    /\ UNCHANGED <<fdir, local, node, leaf, accepted, failed>>

\* A new object takes the place of one that was destroyed, which closes its
\* streams, or whose process died, perhaps within an initialize or a write.
Recreate(p) ==
    /\ mode' = [mode EXCEPT ![p] = "pi_config"]
    /\ state' = [state EXCEPT ![p] = "ok"]
    /\ paused' = [paused EXCEPT ![p] = FALSE]
    /\ fdir' = [fdir EXCEPT ![p] = FALSE]
    /\ pc' = [pc EXCEPT ![p] = "idle"]
    /\ base' = [base EXCEPT ![p] = "none"]
    /\ leaf' = [leaf EXCEPT ![p] = FALSE]
    /\ \/ Clear(p)
       \/ /\ stream' = [stream EXCEPT ![p] = NoStreams]
          /\ \/ UNCHANGED disk
             \/ \E m \in Messages :
                   /\ AppOf[m] # NoApp /\ stream[p][AppOf[m]].is = "good"
                   /\ Len(disk[p][AppOf[m]]) < MaxPublish
                   /\ disk' = [disk EXCEPT ![p][AppOf[m]] = Append(@, Torn(m))]
    /\ Return(p, "create", "ok")
    /\ UNCHANGED <<node, accepted, failed>>

CreateDirectories(p) ==
    \/ StatFdir(p) \/ StatBase(p) \/ StatUser(p) \/ StatDir(p)
    \/ MkdirDir(p) \/ MkdirUser(p) \/ MkdirFdir(p)

\* Some other program makes a directory that is wanted, as a process outside Procs
\* does, or a regular file in its place.
Appears(d, kind) ==
    /\ node[d] = "none"
    /\ d = "user" => node["dir"] = "directory"
    /\ node' = [node EXCEPT ![d] = kind]
    /\ UNCHANGED <<object, local, leaf, disk, history>>

Calls(p) ==
    \/ Config(p) \/ Initialize(p) \/ CreateDirectories(p) \/ TestFile(p)
    \/ Pause(p) \/ Resume(p) \/ Finalize(p) \/ Recreate(p)
    \/ \E b \in Messages \cup {NoMessage} : Refuse(p, b)
    \/ \E b \in Messages :
          PublishDead(p, b) \/ PublishThrows(p, b) \/ PublishWrite(p, b)

Next ==
    \/ \E p \in Procs : Calls(p)
    \/ \E d \in {"dir", "user"}, kind \in {"directory", "file"} : Appears(d, kind)

Spec == Init /\ [][Next]_vars
-----------------------------------------------------------------------------
TypeOK ==
    /\ mode \in [Procs -> {"pi_config", "pi_init", "pi_pub_or_final"}]
    /\ state \in [Procs -> {"ok", "err"}]
    /\ paused \in [Procs -> BOOLEAN]
    /\ fdir \in [Procs -> BOOLEAN]
    /\ stream \in [Procs -> [Apps ->
                      [is : {"absent", "closed", "good", "bad"},
                       pending : Messages \cup {NoMessage}]]]
    /\ pc \in [Procs -> {"idle", "stat_fdir", "stat_base", "stat_user", "stat_dir",
                         "mkdir_dir", "mkdir_user", "mkdir_fdir", "test"}]
    /\ base \in [Procs -> Kinds]
    /\ node \in [{"dir", "user"} -> Kinds]
    /\ leaf \in [Procs -> BOOLEAN]
    /\ \A p \in Procs, a \in Apps : disk[p][a] \in Seq(Records(a))
    /\ accepted \in [Procs -> Seq(Messages)]
    /\ failed \in [Procs -> SUBSET Apps]

\* An object that publishes has its directory, and the directories above it:
\* initialize passes over EEXIST, which a regular file in the way gives too
\* (multifile.ipp 361), and relies on the test file to notice.
RunningHasDirectory ==
    \A p \in Procs : mode[p] = "pi_pub_or_final" =>
        leaf[p] /\ node["user"] = "directory" /\ node["dir"] = "directory"

\* The i-th message among those of its application, and the last of them.
Rank(acc, i) == Cardinality({j \in 1..i : AppOf[acc[j]] = AppOf[acc[i]]})
IsLast(acc, i) == \A j \in DOMAIN acc : AppOf[acc[j]] = AppOf[acc[i]] => j <= i

\* The file of each application holds, whole and in order, the messages that
\* publish answered 0 for, while the session lasts and after it, save at most the
\* last of that application, if a write of this session failed for it
\* (multifile.ipp 316-321).  A failure of one application loses no message of
\* another, and neither the end of a session nor a crash loses what was written.
AcceptedInFiles ==
    \A p \in Procs : \A i \in DOMAIN accepted[p] :
        LET a == AppOf[accepted[p][i]]
            n == Rank(accepted[p], i)
        IN  \/ n \in DOMAIN disk[p][a] /\ disk[p][a][n] = Whole(accepted[p][i])
            \/ IsLast(accepted[p], i) /\ a \in failed[p]

\* A stream that is not good is never used or made again until finalize, even
\* when mkstemp failed only once: its application publishes no more.
DeadStreamsStayDead ==
    [][\A p \in Procs, a \in Apps :
          stream[p][a].is \in {"closed", "bad"} =>
             \/ stream'[p] = NoStreams
             \/ /\ stream'[p][a] = stream[p][a]
                /\ \/ accepted'[p] = accepted[p]
                   \/ \E m \in Messages :
                         AppOf[m] # a /\ accepted'[p] = Append(accepted[p], m)]_vars

\* "if dir/user exists, create rest w/perm, sticky from user/" (multifile.ipp
\* 175): initialize reports that a path is not a directory only if one is not.
NotADirectoryMeansAFile ==
    \A p \in Procs : last[p].code = "ENOTDIR" => \E d \in {"dir", "user"} : node[d] = "file"

Phase(p) ==
    IF state[p] = "err" THEN "failed"
    ELSE IF mode[p] = "pi_pub_or_final" THEN "running"
    ELSE IF mode[p] = "pi_init" THEN "configured"
    ELSE IF fdir[p] THEN "finalized" ELSE "new"

LastReturn(p) ==
    IF last[p].code = "ENOTDIR" THEN [call |-> last[p].call, code |-> "os_error"]
    ELSE last[p]

Api(p) == INSTANCE PublisherApi WITH
              phase <- Phase(p), paused <- paused[p],
              accepted <- accepted[p], last <- LastReturn(p)

\* The multifile plugin keeps to the life cycle of publisher_api and to its
\* return codes (not to its precedence of options); a call that throws returns
\* nothing and is invisible.
ImplementsApi ==
    /\ \A p \in Procs : Api(p)!Init
    /\ [][\A p \in Procs : Api(p)!Next \/ UNCHANGED Api(p)!vars]_vars
=============================================================================

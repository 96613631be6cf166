--------------------------- MODULE SpawnPublisher ---------------------------
(***************************************************************************)
(* The plugins that hand each message to a program of their own: curl      *)
(* (curl.ipp), script (script.ipp), ldmsd_stream_publish and               *)
(* ldms_message_publish.  publish makes a file with mkstemp, writes the    *)
(* message in it and starts, with system("(prog file ... rm file) &"), a   *)
(* background shell that runs the program and then removes the file.  All  *)
(* processes of a user share one scratch directory; the shells run         *)
(* concurrently with every process and outlive the one that started them.  *)
(***************************************************************************)
EXTENDS Naturals, Sequences

CONSTANTS
    Procs,       \* processes, each with one publisher object
    Kind,        \* the plugin each of them uses
    Messages,    \* what a builder_api object serializes to
    NoMessage,   \* a null builder pointer; also the content of an unwritten file
    Names,       \* names mkstemp can make up
    NoName,      \* the file of a call that has none
    MaxPublish   \* bound: messages a process publishes in a session

Kinds == {"curl", "script", "ldms"}

\* In which a file can lose its owner and stay.
Ways == {"crash", "remove", "write", "fork", "killed", "rm", "success"}

ASSUME SpawnAssumption ==
    /\ NoMessage \notin Messages
    /\ NoName \notin Names
    /\ Kind \in [Procs -> Kinds]
    /\ MaxPublish \in Nat

VARIABLES
    mode,      \* the next mode needed for correct operation
    state,     \* "ok" or "err"
    paused,
    fdir,      \* config has set the scratch directory
    debug2,    \* the option DEBUG was 2 in the last config
    call,      \* the publish in progress: its step, message and file
    exists,    \* names present in the scratch directory
    content,   \* what the file of each name holds
    shells,    \* background shells that have not ended
    left,      \* history: how each file lost its owner, "no" if it did not
    accepted,  \* history: messages publish answered 0 for since initialize
    last       \* the last call that returned and its return code

object == <<mode, state, paused, fdir, debug2>>
scratch == <<exists, content, shells>>
vars == <<object, call, scratch, left, accepted, last>>

Idle == [step |-> "idle", msg |-> NoMessage, file |-> NoName]

Return(p, c, code) == last' = [last EXCEPT ![p] = [call |-> c, code |-> code]]

Init ==
    /\ mode = [p \in Procs |-> "pi_config"]
    /\ state = [p \in Procs |-> "ok"]
    /\ paused = [p \in Procs |-> FALSE]
    /\ fdir = [p \in Procs |-> FALSE]
    /\ debug2 = [p \in Procs |-> FALSE]
    /\ call = [p \in Procs |-> Idle]
    /\ exists = {}
    /\ content = [n \in Names |-> NoMessage]
    /\ shells = {}
    /\ left = [n \in Names |-> "no"]
    /\ accepted = [p \in Procs |-> <<>>]
    /\ last = [p \in Procs |-> [call |-> "create", code |-> "ok"]]
-----------------------------------------------------------------------------
\* What DEBUG may say: only curl does anything but print by it.
DebugIs2(p) == IF Kind[p] = "curl" THEN BOOLEAN ELSE {FALSE}

\* An object is not thread-safe: its process makes one call at a time.
Free(p) == call[p].step = "idle"

Config(p, d2) ==
    /\ Free(p)
    /\ \/ /\ mode[p] # "pi_config"
          /\ Return(p, "config", "wrong_mode")
          /\ UNCHANGED <<mode, fdir, debug2>>
       \/ /\ mode[p] = "pi_config"
          /\ mode' = [mode EXCEPT ![p] = "pi_init"]
          /\ fdir' = [fdir EXCEPT ![p] = TRUE]
          /\ debug2' = [debug2 EXCEPT ![p] = d2]
          /\ Return(p, "config", "ok")
    /\ UNCHANGED <<state, paused, call, scratch, left, accepted>>

\* initialize configures by default when no directory was ever set; d2 is what
\* the environment then says of DEBUG.
Defaulted(p, d2) ==
    IF ~fdir[p] /\ mode[p] = "pi_config"
    THEN [mode |-> "pi_init", debug2 |-> d2]
    ELSE [mode |-> mode[p], debug2 |-> debug2[p]]

Initialize(p, d2) ==
    LET d == Defaulted(p, d2)
    IN  /\ Free(p)
        /\ fdir' = [fdir EXCEPT ![p] = TRUE]
        /\ debug2' = [debug2 EXCEPT ![p] = d.debug2]
        /\ UNCHANGED <<paused, call, scratch, left>>
        /\ \/ /\ d.mode # "pi_init"
              /\ Return(p, "initialize", "wrong_mode")
              /\ UNCHANGED <<mode, state, accepted>>
           \/ /\ d.mode = "pi_init" /\ state[p] = "err"
              /\ Return(p, "initialize", "prior_error")
              /\ UNCHANGED <<mode, state, accepted>>
           \/ \* create_directories fails
              /\ d.mode = "pi_init" /\ state[p] = "ok"
              /\ mode' = [mode EXCEPT ![p] = "pi_init"]
              /\ state' = [state EXCEPT ![p] = "err"]
              /\ Return(p, "initialize", "os_error")
              /\ UNCHANGED accepted
           \/ /\ d.mode = "pi_init" /\ state[p] = "ok"
              /\ mode' = [mode EXCEPT ![p] = "pi_pub_or_final"]
              /\ accepted' = [accepted EXCEPT ![p] = <<>>]
              /\ Return(p, "initialize", "ok")
              /\ UNCHANGED state

Pause(p) ==
    /\ Free(p)
    /\ paused' = [paused EXCEPT ![p] = TRUE]
    /\ Return(p, "pause", "ok")
    /\ UNCHANGED <<mode, state, fdir, debug2, call, scratch, left, accepted>>

Resume(p) ==
    /\ Free(p)
    /\ paused' = [paused EXCEPT ![p] = FALSE]
    /\ Return(p, "resume", "ok")
    /\ UNCHANGED <<mode, state, fdir, debug2, call, scratch, left, accepted>>

\* finalize waits for no shell.
Finalize(p) ==
    /\ Free(p)
    /\ \/ /\ mode[p] = "pi_pub_or_final"
          /\ state' = [state EXCEPT ![p] = "ok"]
          /\ paused' = [paused EXCEPT ![p] = FALSE]
          /\ mode' = [mode EXCEPT ![p] = "pi_config"]
       \/ /\ mode[p] # "pi_pub_or_final"
          /\ UNCHANGED <<mode, state, paused>>
    /\ Return(p, "finalize", "ok")
    /\ UNCHANGED <<fdir, debug2, call, scratch, left, accepted>>

\* The object is destroyed, or its process dies, perhaps within a publish,
\* and another takes its place.  Files and shells stay.
Recreate(p) ==
    /\ mode' = [mode EXCEPT ![p] = "pi_config"]
    /\ state' = [state EXCEPT ![p] = "ok"]
    /\ paused' = [paused EXCEPT ![p] = FALSE]
    /\ fdir' = [fdir EXCEPT ![p] = FALSE]
    /\ debug2' = [debug2 EXCEPT ![p] = FALSE]
    /\ call' = [call EXCEPT ![p] = Idle]
    /\ left' = IF Free(p) THEN left ELSE [left EXCEPT ![call[p].file] = "crash"]
    /\ Return(p, "create", "ok")
    /\ UNCHANGED <<scratch, accepted>>
-----------------------------------------------------------------------------
Publishing(p, b) ==
    /\ Free(p)
    /\ b # NoMessage /\ ~paused[p] /\ state[p] = "ok"
    /\ mode[p] = "pi_pub_or_final"

\* Mutant: the state is looked at before the pause.
RefuseStateFirst(p, b) ==
    /\ Free(p)
    /\ \/ b = NoMessage /\ Return(p, "publish", "EINVAL")
       \/ b # NoMessage /\ state[p] # "ok" /\ Return(p, "publish", "failed")
       \/ /\ b # NoMessage /\ state[p] = "ok" /\ paused[p]
          /\ Return(p, "publish", "ok")
    /\ UNCHANGED <<object, call, scratch, left, accepted>>

Refuse(p, b) ==
    /\ Free(p)
    /\ \/ b = NoMessage /\ Return(p, "publish", "EINVAL")
       \/ b # NoMessage /\ paused[p] /\ Return(p, "publish", "ok")
       \/ /\ b # NoMessage /\ ~paused[p] /\ state[p] # "ok"
          /\ Return(p, "publish", "failed")
       \/ /\ b # NoMessage /\ ~paused[p] /\ state[p] = "ok"
          /\ mode[p] # "pi_pub_or_final"
          /\ Return(p, "publish", "wrong_mode")
       \/ \* mkstemp fails: the empty name cannot be opened
          Publishing(p, b) /\ Return(p, "publish", "failed")
    /\ UNCHANGED <<object, call, scratch, left, accepted>>

\* Mutant: a name is made up without O_EXCL and may be in use.
PublishNameInUse(p, b) ==
    /\ Publishing(p, b)
    /\ Len(accepted[p]) < MaxPublish
    /\ \E n \in Names :
          /\ exists' = exists \cup {n}
          /\ content' = [content EXCEPT ![n] = NoMessage]
          /\ call' = [call EXCEPT ![p] = [step |-> "named", msg |-> b, file |-> n]]
    /\ UNCHANGED <<object, shells, left, accepted, last>>

\* Mutant: when mkstemp fails its template is used as it stands.
PublishNameTemplate(p, b) ==
    /\ Publishing(p, b)
    /\ Len(accepted[p]) < MaxPublish
    /\ exists' = exists \cup {NoName}
    /\ call' = [call EXCEPT ![p] = [step |-> "named", msg |-> b, file |-> NoName]]
    /\ UNCHANGED <<object, content, shells, left, accepted, last>>

\* get_temp_file_name: mkstemp makes a file that did not exist.
PublishName(p, b) ==
    /\ Publishing(p, b)
    /\ Len(accepted[p]) < MaxPublish
    /\ \E n \in Names \ exists :
          /\ exists' = exists \cup {n}
          /\ content' = [content EXCEPT ![n] = NoMessage]
          /\ call' = [call EXCEPT ![p] = [step |-> "named", msg |-> b, file |-> n]]
    /\ UNCHANGED <<object, shells, left, accepted, last>>

\* Mutant: after a failed open the file is removed but publish goes on.
PublishWriteNoReturn(p) ==
    /\ call[p].step = "named"
    /\ exists' = exists \ {call[p].file}
    /\ call' = [call EXCEPT ![p].step = "written"]
    /\ UNCHANGED <<object, content, shells, left, accepted, last>>

\* Mutant: after a failed open the file is not removed.
PublishWriteNoRemove(p) ==
    /\ call[p].step = "named"
    /\ call' = [call EXCEPT ![p] = Idle]
    /\ Return(p, "publish", "failed")
    /\ UNCHANGED <<object, scratch, left, accepted>>

\* The file is opened by its name and written: all goes well; the open fails and
\* the file is removed, or std::filesystem::remove throws out of publish, which
\* then answers nothing; or the write fails and the file stays.
PublishWrite(p) ==
    LET n == call[p].file
    IN  /\ call[p].step = "named"
        /\ \/ /\ exists' = exists \cup {n}
              /\ content' = [content EXCEPT ![n] = call[p].msg]
              /\ call' = [call EXCEPT ![p] =
                             [step |-> "written", msg |-> @.msg, file |-> n]]
              /\ UNCHANGED <<left, last>>
           \/ /\ exists' = exists \ {n}
              /\ call' = [call EXCEPT ![p] = Idle]
              /\ Return(p, "publish", "failed")
              /\ UNCHANGED <<content, left>>
           \/ /\ left' = [left EXCEPT ![n] = "remove"]
              /\ call' = [call EXCEPT ![p] = Idle]
              /\ UNCHANGED <<exists, content, last>>
           \/ /\ exists' = exists \cup {n}
              /\ content' = [content EXCEPT ![n] = NoMessage]
              /\ call' = [call EXCEPT ![p] = Idle]
              /\ left' = [left EXCEPT ![n] = "write"]
              /\ Return(p, "publish", "failed")
        /\ UNCHANGED <<object, shells, accepted>>

\* script, and curl while it debugs, join prog and rm by "||", the rest by ";".
RemovesOnlyOnFailure(p) == Kind[p] = "script" \/ (Kind[p] = "curl" /\ debug2[p])

Shell(p) ==
    [step |-> "started", msg |-> call[p].msg, file |-> call[p].file,
     onFailure |-> RemovesOnlyOnFailure(p), script |-> Kind[p] = "script"]

\* *_send: system() starts the shell, or fails and nobody looks.
PublishSend(p) ==
    /\ call[p].step = "written"
    /\ \/ /\ shells' = shells \cup {Shell(p)}
          /\ UNCHANGED left
       \/ /\ left' = [left EXCEPT ![call[p].file] = "fork"]
          /\ UNCHANGED shells
    /\ call' = [call EXCEPT ![p] = Idle]
    /\ accepted' = [accepted EXCEPT ![p] = Append(@, call[p].msg)]
    /\ Return(p, "publish", "ok")
    /\ UNCHANGED <<object, exists, content>>
-----------------------------------------------------------------------------
\* The shell c once its program has ended and rm is next.
Exited(c) == [step |-> "exited", msg |-> c.msg, file |-> c.file,
              onFailure |-> c.onFailure, script |-> c.script]

\* Mutant: curl does not look at its option DEBUG, the ldms plugins join by "||".
ShellRunsEither(c) ==
    /\ c \in shells
    /\ c.step = "started"
    /\ \/ /\ shells' = (shells \ {c}) \cup {Exited(c)}
          /\ UNCHANGED left
       \/ /\ shells' = shells \ {c}
          /\ left' = [left EXCEPT ![c.file] = "success"]
    /\ UNCHANGED <<object, call, exists, content, accepted, last>>

\* The program reads the file and ends.  A script that succeeds may have
\* removed its file, as examples/plugin_script.sh does.
ShellRuns(c) ==
    /\ c \in shells
    /\ c.step = "started"
    /\ \/ \* rm comes next: after any end for ";", after a failure for "||"
          /\ shells' = (shells \ {c}) \cup {Exited(c)}
          /\ UNCHANGED <<exists, left>>
       \/ /\ c.onFailure
          /\ shells' = shells \ {c}
          /\ \/ c.script /\ exists' = exists \ {c.file} /\ UNCHANGED left
             \/ left' = [left EXCEPT ![c.file] = "success"] /\ UNCHANGED exists
    /\ UNCHANGED <<object, call, content, accepted, last>>

\* /bin/rm removes the file, or fails and nobody looks.
ShellRemoves(c) ==
    /\ c \in shells
    /\ c.step = "exited"
    /\ shells' = shells \ {c}
    /\ \/ exists' = exists \ {c.file} /\ UNCHANGED left
       \/ left' = [left EXCEPT ![c.file] = "rm"] /\ UNCHANGED exists
    /\ UNCHANGED <<object, call, content, accepted, last>>

\* A background shell is killed before its rm.
ShellDies(c) ==
    /\ c \in shells
    /\ shells' = shells \ {c}
    /\ left' = [left EXCEPT ![c.file] = "killed"]
    /\ UNCHANGED <<object, call, exists, content, accepted, last>>

Calls(p) ==
    \/ \E d2 \in DebugIs2(p) : Config(p, d2) \/ Initialize(p, d2)
    \/ Pause(p) \/ Resume(p) \/ Finalize(p) \/ Recreate(p)
    \/ \E b \in Messages \cup {NoMessage} : Refuse(p, b) \/ PublishName(p, b)

Proceeds(p) == PublishWrite(p) \/ PublishSend(p)

ShellStep(n) == \E c \in shells : c.file = n /\ (ShellRuns(c) \/ ShellRemoves(c))

Next ==
    \/ \E p \in Procs : Calls(p) \/ Proceeds(p)
    \/ \E n \in Names : ShellStep(n)
    \/ \E c \in shells : ShellDies(c)

Spec == Init /\ [][Next]_vars

\* The system schedules every background shell, and every program it runs ends.
\* Nothing forces a shell to die.
FairSpec == Spec /\ \A n \in Names : WF_vars(ShellStep(n))
-----------------------------------------------------------------------------
TypeOK ==
    /\ mode \in [Procs -> {"pi_config", "pi_init", "pi_pub_or_final"}]
    /\ state \in [Procs -> {"ok", "err"}]
    /\ paused \in [Procs -> BOOLEAN]
    /\ fdir \in [Procs -> BOOLEAN]
    /\ debug2 \in [Procs -> BOOLEAN]
    /\ call \in [Procs -> [step : {"idle", "named", "written"},
                           msg : Messages \cup {NoMessage},
                           file : Names \cup {NoName}]]
    /\ exists \subseteq Names
    /\ content \in [Names -> Messages \cup {NoMessage}]
    /\ shells \subseteq [step : {"started", "exited"}, msg : Messages,
                         file : Names, onFailure : BOOLEAN, script : BOOLEAN]
    /\ left \in [Names -> Ways \cup {"no"}]
    /\ accepted \in [Procs -> Seq(Messages)]

\* Whatever other processes and shells do in the shared directory, the program
\* of a shell reads, whole, the message it was started for (curl.ipp 125-140,
\* 195-203): its name is reused by nobody before its own rm.
ShellsReadTheirMessage ==
    \A c \in shells :
        c.step = "started" => c.file \in exists /\ content[c.file] = c.msg

\* Two publishes, two shells or a publish and a shell never share a file, so
\* that no rm takes the file of another (curl.ipp 148-161, script.ipp 128).
FilesExclusive ==
    /\ \A c, d \in shells : c.file = d.file => c = d
    /\ \A p, q \in Procs :
          ~Free(p) /\ ~Free(q) /\ call[p].file = call[q].file => p = q
    /\ \A p \in Procs, c \in shells : ~Free(p) => call[p].file # c.file

Owned(n) == \/ \E c \in shells : c.file = n
            \/ \E p \in Procs : ~Free(p) /\ call[p].file = n

\* Every file in the scratch directory belongs to a publish in progress or to a
\* shell, which will remove it, or was itself left behind in one of seven ways:
\* its publish died, could neither open nor remove it, could not write it or
\* could not start a shell; its shell was killed, its rm failed, or its program,
\* joined by "||", succeeded without removing it.  Who lost a file has it no more
\* (curl.ipp 195-213, script.ipp 126-176).
LeftOnlyByFaults ==
    \A n \in Names : Owned(n) <=> n \in exists /\ left[n] = "no"

\* "send also removes file" (curl.ipp 203, script.ipp 166): the file of every
\* message that was handed to a shell is removed in the end, unless the shell is
\* killed or its rm fails.
SentFilesRemoved ==
    \A n \in Names :
        (\E c \in shells : c.file = n)
            ~> n \notin exists \/ left[n] \in {"killed", "rm"}

\* The same of the shells that join program and rm by ";": that of the ldms
\* plugins and of curl where it does not debug, whatever the program does
\* (curl.ipp 157-161, ldmsd_stream_publish.ipp 166-183).
RemovedAfterProgram ==
    \A n \in Names :
        (\E c \in shells : c.file = n /\ ~c.onFailure)
            ~> n \notin exists \/ left[n] \in {"killed", "rm"}

Phase(p) ==
    IF state[p] = "err" THEN "failed"
    ELSE IF mode[p] = "pi_pub_or_final" THEN "running"
    ELSE IF mode[p] = "pi_init" THEN "configured"
    ELSE IF fdir[p] THEN "finalized" ELSE "new"

Api(p) == INSTANCE PublisherApi WITH
              phase <- Phase(p), paused <- paused[p],
              accepted <- accepted[p], last <- last[p]

\* Each of the four plugins keeps to the life cycle of publisher_api and to its
\* return codes (not to its precedence of options): the steps of a publish and
\* those of the shells are invisible, save the one that answers.
\* That is \A p \in Procs : Api(p)!Spec, with the box outside.
ImplementsApi ==
    /\ \A p \in Procs : Api(p)!Init
    /\ [][\A p \in Procs : UNCHANGED Api(p)!vars \/ Api(p)!Next]_vars
=============================================================================

---------------------------- MODULE FilePublisher ----------------------------
(***************************************************************************)
(* The file plugin (adc/publisher/impl/file.ipp): one object, the output   *)
(* stream it keeps open between initialize and finalize, and the files it  *)
(* leaves on disk over any number of sessions, objects and process         *)
(* crashes.  A session is what follows one successful initialize.          *)
(***************************************************************************)
EXTENDS Integers, Sequences

CONSTANTS
    Messages,      \* what a builder_api object serializes to
    NoMessage,     \* a null builder pointer
    Dirs,          \* values of the option DIRECTORY
    Names,         \* values of the option FILE, the empty string apart
    NoName,        \* the empty string
    DefaultConf,   \* plugin_file_config_defaults
    OptionMaps,    \* argument m of config: a partial function on the keys
    Environments,  \* what getenv finds under the prefix, in the same form
    MaxRecords     \* bound: records a file holds before publish is disabled

Values == [DIRECTORY |-> Dirs, FILE |-> Names \cup {NoName}, APPEND |-> BOOLEAN]
Confs == [DIRECTORY : Dirs, FILE : Names \cup {NoName}, APPEND : BOOLEAN]

ASSUME FileAssumption ==
    /\ NoMessage \notin Messages
    /\ NoName \notin Names
    /\ DefaultConf \in Confs
    /\ DefaultConf.FILE # NoName
    /\ MaxRecords \in Nat
    /\ \A m \in OptionMaps \cup Environments :
          /\ DOMAIN m \subseteq DOMAIN Values
          /\ \A k \in DOMAIN m : m[k] \in Values[k]

Paths == Dirs \X Names
Records == [msg : Messages, whole : BOOLEAN]
Whole(m) == [msg |-> m, whole |-> TRUE]
Torn(m) == [msg |-> m, whole |-> FALSE]

VARIABLES
    mode,      \* the next mode needed for correct operation
    state,     \* "ok" or "err"
    paused,
    conf,      \* fdir, fname and fappend
    out,       \* the ofstream: "closed", "good", or "bad" (badbit is set)
    pending,   \* the message a bad stream still holds in its buffer
    disk,      \* the records in each file
    session,   \* history: path of the last session, the records it found
               \* there, and whether one of its writes failed
    accepted,  \* history: messages publish answered 0 for in that session
    last       \* the last call and its return code

object == <<mode, state, paused, conf, out, pending>>
history == <<session, accepted>>
vars == <<object, disk, history, last>>

Return(call, code) == last' = [call |-> call, code |-> code]

\* A new object. It has no file name, so initialize will configure it.
Constructed ==
    [mode |-> "pi_config", state |-> "ok", paused |-> FALSE, out |-> "closed",
     conf |-> [DIRECTORY |-> DefaultConf.DIRECTORY, FILE |-> NoName,
               APPEND |-> FALSE]]

Init ==
    /\ mode = Constructed.mode
    /\ state = Constructed.state
    /\ paused = Constructed.paused
    /\ out = Constructed.out
    /\ conf = Constructed.conf
    /\ pending = NoMessage
    /\ disk = [p \in Paths |-> <<>>]
    /\ session = [path |-> CHOOSE p \in Paths : TRUE, base |-> 0,
                  failed |-> FALSE]
    /\ accepted = <<>>
    /\ last = [call |-> "create", code |-> "ok"]
-----------------------------------------------------------------------------
\* Mutant: a key that nobody sets reads as the empty string.
GetWithoutDefault(m, env, k) ==
    IF k \in DOMAIN m THEN m[k]
    ELSE IF k \in DOMAIN env THEN env[k] ELSE NoName

\* get: first the map, then the environment, then the default.  publisher.hpp
\* 73-77 has the environment named by env_prefix override the map.
Get(m, env, k) ==
    IF k \in DOMAIN m THEN m[k]
    ELSE IF k \in DOMAIN env THEN env[k] ELSE DefaultConf[k]

Lookup(m, env) ==
    [DIRECTORY |-> Get(m, env, "DIRECTORY"), FILE |-> Get(m, env, "FILE"),
     APPEND |-> Get(m, env, "APPEND")]

Config(m, env) ==
    /\ \/ /\ mode # "pi_config"
          /\ Return("config", "wrong_mode")
          /\ UNCHANGED <<mode, conf>>
       \/ /\ mode = "pi_config"
          /\ conf' = Lookup(m, env)
          /\ mode' = "pi_init"
          /\ Return("config", "ok")
    /\ UNCHANGED <<state, paused, out, pending, disk, history>>

\* initialize configures by default when there is no file name; that call has
\* no effect unless the object waits for config.
Defaulted(env) ==
    IF conf.FILE = NoName /\ mode = "pi_config"
    THEN [mode |-> "pi_init", conf |-> Lookup(<<>>, env)]
    ELSE [mode |-> mode, conf |-> conf]

\* create_directories or open fails: an empty name opens the directory.
InitializeFails ==
    /\ state' = "err"
    /\ Return("initialize", "os_error")
    /\ UNCHANGED <<out, disk, history>>

\* Mutant: fappend is ignored.
InitializeTruncates(c) ==
    LET path == <<c.DIRECTORY, c.FILE>>
    IN  /\ c.FILE # NoName
        /\ out' = "good"
        /\ disk' = [disk EXCEPT ![path] = <<>>]
        /\ session' = [path |-> path, base |-> 0, failed |-> FALSE]
        /\ accepted' = <<>>
        /\ Return("initialize", "ok")
        /\ UNCHANGED state

InitializeOpens(c) ==
    LET path == <<c.DIRECTORY, c.FILE>>
        kept == IF c.APPEND THEN disk[path] ELSE <<>>
    IN  /\ c.FILE # NoName
        /\ out' = "good"
        /\ disk' = [disk EXCEPT ![path] = kept]
        /\ session' = [path |-> path, base |-> Len(kept), failed |-> FALSE]
        /\ accepted' = <<>>
        /\ Return("initialize", "ok")
        /\ UNCHANGED state

Initialize(env) ==
    LET d == Defaulted(env)
    IN  /\ conf' = d.conf
        /\ UNCHANGED <<paused, pending>>
        /\ \/ /\ d.mode # "pi_init"
              /\ mode' = d.mode
              /\ Return("initialize", "wrong_mode")
              /\ UNCHANGED <<state, out, disk, history>>
           \/ /\ d.mode = "pi_init" /\ state = "err"
              /\ mode' = d.mode
              /\ Return("initialize", "prior_error")
              /\ UNCHANGED <<state, out, disk, history>>
           \/ /\ d.mode = "pi_init" /\ state = "ok"
              /\ mode' = d.mode
              /\ InitializeFails
           \/ /\ d.mode = "pi_init" /\ state = "ok"
              /\ mode' = "pi_pub_or_final"
              /\ InitializeOpens(d.conf)
-----------------------------------------------------------------------------
\* What a write of m that meets an error can leave at the end of a file s.
\* The stream keeps the record in its buffer and tries again at close.
Extensions(s, m) == {s, Append(s, Torn(m)), Append(s, Whole(m))}

Refuse(b) ==
    /\ \/ b = NoMessage /\ Return("publish", "EINVAL")
       \/ b # NoMessage /\ paused /\ Return("publish", "ok")
       \/ b # NoMessage /\ ~paused /\ state # "ok" /\ Return("publish", "failed")
       \/ /\ b # NoMessage /\ ~paused /\ state = "ok"
          /\ mode # "pi_pub_or_final"
          /\ Return("publish", "wrong_mode")
       \/ /\ b # NoMessage /\ ~paused /\ state = "ok"
          /\ mode = "pi_pub_or_final"
          /\ out # "good"
          /\ Return("publish", "failed")
    /\ UNCHANGED <<object, disk, history>>

\* The session s once one of its writes has failed.
Failing(s) == [path |-> s.path, base |-> s.base, failed |-> TRUE]

\* Mutant: publish does not test out.good() and answers 0 for a dead stream.
WriteAnyStream(b) ==
    /\ b # NoMessage /\ ~paused /\ state = "ok"
    /\ mode = "pi_pub_or_final"
    /\ Len(accepted) < MaxRecords
    /\ \/ /\ out = "good"
          /\ disk' = [disk EXCEPT ![session.path] = Append(@, Whole(b))]
          /\ UNCHANGED <<out, pending, session>>
       \/ /\ out' = "bad"
          /\ pending' = b
          /\ session' = Failing(session)
          /\ UNCHANGED disk
    /\ accepted' = Append(accepted, b)
    /\ Return("publish", "ok")
    /\ UNCHANGED <<mode, state, paused, conf>>

\* The write is attempted and 0 is returned, whether or not it succeeded.
Write(b) ==
    /\ b # NoMessage /\ ~paused /\ state = "ok"
    /\ mode = "pi_pub_or_final"
    /\ out = "good"
    /\ Len(disk[session.path]) < MaxRecords
    /\ \/ /\ disk' = [disk EXCEPT ![session.path] = Append(@, Whole(b))]
          /\ UNCHANGED <<out, pending, session>>
       \/ /\ \E s \in Extensions(disk[session.path], b) :
                disk' = [disk EXCEPT ![session.path] = s]
          /\ out' = "bad"
          /\ pending' = b
          /\ session' = Failing(session)
    /\ accepted' = Append(accepted, b)
    /\ Return("publish", "ok")
    /\ UNCHANGED <<mode, state, paused, conf>>

Publish(b) == Refuse(b) \/ Write(b)

Pause ==
    /\ paused' = TRUE
    /\ Return("pause", "ok")
    /\ UNCHANGED <<mode, state, conf, out, pending, disk, history>>

Resume ==
    /\ paused' = FALSE
    /\ Return("resume", "ok")
    /\ UNCHANGED <<mode, state, conf, out, pending, disk, history>>

\* out.close(): closing a bad stream retries the record in its buffer.
Close ==
    /\ out' = "closed"
    /\ pending' = NoMessage
    /\ \/ out = "bad" /\ \E s \in Extensions(disk[session.path], pending) :
                            disk' = [disk EXCEPT ![session.path] = s]
       \/ out # "bad" /\ UNCHANGED disk

\* Mutant: finalize forgets out.close().
FinalizeLeavesOpen ==
    /\ mode = "pi_pub_or_final"
    /\ state' = "ok"
    /\ paused' = FALSE
    /\ mode' = "pi_config"
    /\ Return("finalize", "ok")
    /\ UNCHANGED <<out, pending, disk, conf, history>>

\* Mutant: finalize resets an object that is not running.
FinalizeAnyMode ==
    /\ state' = "ok"
    /\ paused' = FALSE
    /\ mode' = "pi_config"
    /\ Close
    /\ Return("finalize", "ok")
    /\ UNCHANGED <<conf, history>>

\* Mutant: finalize leaves the pause of the session behind.
FinalizeKeepsPaused ==
    /\ mode = "pi_pub_or_final"
    /\ state' = "ok"
    /\ mode' = "pi_config"
    /\ Close
    /\ Return("finalize", "ok")
    /\ UNCHANGED <<paused, conf, history>>

Finalize ==
    /\ \/ /\ mode = "pi_pub_or_final"
          /\ state' = "ok"
          /\ paused' = FALSE
          /\ mode' = "pi_config"
          /\ Close
       \/ /\ mode # "pi_pub_or_final"
          /\ UNCHANGED <<mode, state, paused, out, pending, disk>>
    /\ Return("finalize", "ok")
    /\ UNCHANGED <<conf, history>>
-----------------------------------------------------------------------------
Reconstruct ==
    /\ mode' = Constructed.mode
    /\ state' = Constructed.state
    /\ paused' = Constructed.paused
    /\ conf' = Constructed.conf
    /\ Return("create", "ok")
    /\ UNCHANGED history

\* ~file_plugin: the ofstream member closes; the factory makes a new object.
Destroy == Reconstruct /\ Close

\* The process dies, perhaps in the middle of a write: what publish flushed
\* stays in the file, what the stream holds is lost.
Crash ==
    /\ Reconstruct
    /\ out' = Constructed.out
    /\ pending' = NoMessage
    /\ \/ UNCHANGED disk
       \/ /\ out = "good" /\ ~paused
          /\ Len(disk[session.path]) < MaxRecords
          /\ \E m \in Messages :
                disk' = [disk EXCEPT ![session.path] = Append(@, Torn(m))]

Next ==
    \/ \E m \in OptionMaps, env \in Environments : Config(m, env)
    \/ \E env \in Environments : Initialize(env)
    \/ \E b \in Messages \cup {NoMessage} : Publish(b)
    \/ Pause \/ Resume \/ Finalize
    \/ Destroy \/ Crash

Spec == Init /\ [][Next]_vars
-----------------------------------------------------------------------------
TypeOK ==
    /\ mode \in {"pi_config", "pi_init", "pi_pub_or_final"}
    /\ state \in {"ok", "err"}
    /\ paused \in BOOLEAN
    /\ conf \in Confs
    /\ out \in {"closed", "good", "bad"}
    /\ pending \in Messages \cup {NoMessage}
    /\ disk \in [Paths -> Seq(Records)]
    /\ session \in [path : Paths, base : Nat, failed : BOOLEAN]
    /\ accepted \in Seq(Messages)

\* The stream is open exactly while the object is in publication mode: no
\* publish meets a closed stream (it would answer 1 for ever) and finalize
\* leaves no descriptor behind (file.ipp 112-125, 166-181).
StreamOpenIffRunning == (mode = "pi_pub_or_final") <=> (out # "closed")

\* publish answers 0 without looking at the result of the write, yet at most
\* one answered message of a session can be missing, the last one: the failed
\* write poisons the stream and the next publish sees it (file.ipp 115-125).
\* All earlier ones are in the file, whole, in order and without a gap, also
\* after finalize, destruction or a crash of the process.
Settled == IF session.failed THEN Len(accepted) - 1 ELSE Len(accepted)

SettledOnDisk ==
    \A i \in 1 .. Settled :
        /\ session.base + i <= Len(disk[session.path])
        /\ disk[session.path][session.base + i] = Whole(accepted[i])

\* An object whose initialize failed never publishes again, whatever is called
\* on it: config answers 2, initialize 3 and finalize does not reset it
\* (file.ipp 66, 152, 177).
FailureIsPermanent ==
    [][state = "err" =>
         \/ last'.call = "create"
         \/ state' = "err" /\ UNCHANGED <<mode, out, disk, accepted>>]_vars

\* Nothing but an initialize that truncates the file it was configured for
\* removes or changes a record of any file (file.ipp 166-167).
EarlierRecordsKept ==
    [][\A p \in Paths :
         \/ /\ Len(disk'[p]) >= Len(disk[p])
            /\ \A i \in 1 .. Len(disk[p]) : disk'[p][i] = disk[p][i]
         \/ /\ last' = [call |-> "initialize", code |-> "ok"]
            /\ ~conf'.APPEND
            /\ p = <<conf'.DIRECTORY, conf'.FILE>>]_vars

\* The abstract publisher: its phase is read off the object.
Phase ==
    IF state = "err" THEN "failed"
    ELSE IF mode = "pi_pub_or_final" THEN "running"
    ELSE IF mode = "pi_init" THEN "configured"
    ELSE IF conf.FILE = NoName THEN "new" ELSE "finalized"

Api == INSTANCE PublisherApi WITH phase <- Phase

\* file_plugin keeps to the life cycle of publisher_api: every call returns the
\* code of its phase, and the object takes responsibility for what it answers
\* "ok".  Where the options' values come from is not claimed.
ImplementsApi == Api!Spec
=============================================================================

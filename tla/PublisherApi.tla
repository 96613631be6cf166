---------------------------- MODULE PublisherApi ----------------------------
(***************************************************************************)
(* What one publisher_api object promises its caller                       *)
(* (adc/publisher/publisher.hpp), whatever way it delivers messages: the   *)
(* life cycle config, initialize, publish, pause / resume, finalize, the   *)
(* return code of every call in every phase, and which messages the object *)
(* has taken responsibility for.  FilePublisher, SpawnPublisher and        *)
(* Multifile are shown to implement it.                                    *)
(*                                                                         *)
(* It promises nothing of the options: which of config's map, the          *)
(* environment and the defaults a value comes from is not part of it.      *)
(* There the header and the plugins disagree: publisher.hpp 73-77 lets the *)
(* environment override the map, every plugin's get takes the map first.   *)
(***************************************************************************)
EXTENDS Sequences

CONSTANTS
    Messages,   \* what a builder_api object serializes to
    NoMessage   \* a null builder pointer

VARIABLES
    phase,      \* where the object is in its life cycle
    paused,     \* set by pause, cleared by resume and by a working finalize
    accepted,   \* messages answered "ok" and not suppressed, since initialize
    last        \* the last call and its return code

vars == <<phase, paused, accepted, last>>

\* "finalized" differs from "new": the options of the earlier session are
\* still there, so initialize does not configure by default again.
Phases == {"new", "configured", "running", "failed", "finalized"}

\* ok = 0, failed = 1, wrong_mode = 2, prior_error = 3, os_error = errno.
Codes == {"ok", "failed", "wrong_mode", "prior_error", "EINVAL", "os_error"}
Calls == {"create", "config", "initialize", "publish",
          "pause", "resume", "finalize"}

Return(call, code) == last' = [call |-> call, code |-> code]

Init ==
    /\ phase = "new"
    /\ paused = FALSE
    /\ accepted = <<>>
    /\ last = [call |-> "create", code |-> "ok"]

\* The object is destroyed, or dies with its process, and is made anew.
Create ==
    /\ phase' = "new"
    /\ paused' = FALSE
    /\ Return("create", "ok")
    /\ UNCHANGED accepted

\* Options are configured once, before initialize or after finalize; their
\* values are left to the plugin.
Config ==
    /\ \/ /\ phase \in {"new", "finalized"}
          /\ phase' = "configured"
          /\ Return("config", "ok")
       \/ /\ phase \notin {"new", "finalized"}
          /\ UNCHANGED phase
          /\ Return("config", "wrong_mode")
    /\ UNCHANGED <<paused, accepted>>

\* The first thing initialize does to an object nobody configured.  It is seen
\* by itself when initialize goes on step by step, or throws.
ConfigByDefault ==
    /\ phase = "new"
    /\ phase' = "configured"
    /\ UNCHANGED <<paused, accepted, last>>

Initialize ==
    /\ \/ /\ phase \in {"new", "configured"}
          /\ phase' = "running"
          /\ accepted' = <<>>
          /\ Return("initialize", "ok")
       \/ /\ phase \in {"new", "configured"}
          /\ phase' = "failed"
          /\ Return("initialize", "os_error")
          /\ UNCHANGED accepted
       \/ /\ phase = "failed"
          /\ Return("initialize", "prior_error")
          /\ UNCHANGED <<phase, accepted>>
       \/ /\ phase \in {"running", "finalized"}
          /\ Return("initialize", "wrong_mode")
          /\ UNCHANGED <<phase, accepted>>
    /\ UNCHANGED paused

\* A publish that does nothing but answer: a null builder, a paused, failed
\* or not initialized object, or a running one that cannot take the message.
Refuse(b) ==
    /\ \/ b = NoMessage /\ Return("publish", "EINVAL")
       \/ b # NoMessage /\ paused /\ Return("publish", "ok")
       \/ /\ b # NoMessage /\ ~paused
          /\ phase \in {"failed", "running"}
          /\ Return("publish", "failed")
       \/ /\ b # NoMessage /\ ~paused
          /\ phase \notin {"failed", "running"}
          /\ Return("publish", "wrong_mode")
    /\ UNCHANGED <<phase, paused, accepted>>

Accept(b) ==
    /\ b # NoMessage
    /\ phase = "running"
    /\ ~paused
    /\ accepted' = Append(accepted, b)
    /\ Return("publish", "ok")
    /\ UNCHANGED <<phase, paused>>

Publish(b) == Refuse(b) \/ Accept(b)

Finalize ==
    /\ \/ phase = "running" /\ phase' = "finalized" /\ paused' = FALSE
       \/ phase # "running" /\ UNCHANGED <<phase, paused>>
    /\ Return("finalize", "ok")
    /\ UNCHANGED accepted

Pause ==
    /\ paused' = TRUE
    /\ Return("pause", "ok")
    /\ UNCHANGED <<phase, accepted>>

Resume ==
    /\ paused' = FALSE
    /\ Return("resume", "ok")
    /\ UNCHANGED <<phase, accepted>>

Next ==
    \/ Create \/ Config \/ ConfigByDefault \/ Initialize
    \/ \E b \in Messages \cup {NoMessage} : Publish(b)
    \/ Finalize \/ Pause \/ Resume

Spec == Init /\ [][Next]_vars
=============================================================================

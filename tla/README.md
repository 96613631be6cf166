# TLA+ models of ADC (adct-cxx)

The ADC library lets a program describe itself and its run as one JSON object
and publish that object to a site's data collectors. This directory holds TLA+
modules translated from its source, TLC configurations that check them on small
instances, and TLAPS proofs of theorems about them for every instance.

`src/` below is the repository. Line numbers are those of the source files.

## 1. The system

A program makes a `builder_api` object, fills it section by section, and gives
it to a publisher, or to a `multi_publisher` that passes it to several. The
publishers are *plugins*, made by a factory from a name and options or
from environment variables. Each plugin serializes the builder and takes the
text to a file, to the standard output, to syslog, or to a program it starts.
After a parallel job, a utility function joins the files that its ranks left.

| component | state it keeps | operations | how it meets the others |
|---|---|---|---|
| publisher interface, `publisher/publisher.hpp` | life-cycle mode, error state, `paused` | `config`, `initialize`, `publish`, `pause`, `resume`, `finalize` | implemented by every plugin, called by the program or by `multi_publisher` |
| file, `publisher/impl/file.ipp` | options, one open stream | as above | files that later sessions and processes open again |
| curl, script, ldmsd_stream_publish, ldms_message_publish | options; none between publishes | as above; `get_temp_file_name`, `*_send` | one scratch directory for all processes of a user; background shells that outlive the call and the process |
| multifile, `publisher/impl/multifile.ipp` | own directory name, a stream for each application | as above | all ranks create `DIRECTORY/user` at once; its files are read by the consolidation |
| consolidation, `consolidate_multifile_logs` (multifile.ipp), `glob_sendfile_join` (utility.ipp) | none; the file system | one call | files written by the publishers of several jobs; a caller that deletes what was merged |
| stdout, none, syslog | `paused` | as above | syslog's connection and name are one per process |
| multi_publisher | a list of shared publishers | `add`, `publish`, `pause`, `resume`, `terminate` | calls every member in turn |
| factory, `impl/factory.ipp` | the table of plugins | `get_publisher`, `get_multi_publisher`, `..._from_env` | configures and initializes what it makes |
| builder, `builder/impl/builder.ipp` | a JSON object `d`, `sections`; process-wide: `midata` and the data of gpus and numa nodes | `add*`, `get_*`, `serialize` | sections are other builders, kept by reference; the MPI section makes collective calls |
| scalar types, `types.hpp`, `builder/impl/enums.ipp` | two constant tables | names and types into each other | the builder tags what it stores with them |
| base64, pipes | none | conversions | used by the builder and its callers |

### What is hard about it

* **Interleaving.** Nothing locks. Ranks of one job create the same directories
  call by call, processes and background shells share a scratch directory, and
  a consolidation reads files that another job may be writing.
* **Failure.** `publish` ignores the outcome of the write, of `system` and of
  some `std::filesystem` calls, and it can throw. A stream whose write failed
  keeps the record and tries once more when it is closed.
* **Crashes.** Files and shells outlive the process. What the next process may
  rely on is decided by O_EXCL, O_TRUNC and append.
* **Protocol.** Six calls in any order, with sticky errors, defaults configured
  behind the caller's back, and a pause that survives a call of `finalize`. Builders
  that refer to each other, where some calls take a snapshot and one keeps a
  reference.
* **Collective calls.** Ranks that ask for different things in one
  `add_mpi_section` meet in `MPI_Allgather`, or wait for ever.
* **Memory of a process.** What `/proc/meminfo`, `lspci` and `numactl` said, or
  failed to say, is kept in static variables and shown by later builders.

The hazards are listed one by one, with their lines and the properties that
watch over them, in `PROJECT.json`.

### What makes each component correct

* *Every publisher*: the return code of each call in each phase of the life cycle; an
  error is permanent; a pause suppresses and nothing else does.
* *File*: accepted records are on disk, whole and in order, save the one that met the
  failure; append destroys nothing; the stream is open exactly while it can be written
  to.
* *Subprocess plugins*: each program reads the message it was started for, nobody
  removes the file of another, and every file is removed in the end, but for the
  faults that can be named.
* *Multifile*: an object that publishes has its directory, however the ranks race; one
  application's failures do not touch another's records.
* *Consolidation*: a result consists of the whole files reported with it; no record is
  lost by consolidating and deleting, with failures and deaths at any step.
* *Multi-publisher and factory*: each entry gets each message and each failure is
  counted; what the factory put in can publish, and obeys `pause`, whatever else
  shares the process.
* *Builder*: what is looked up is what is serialized; a scalar or an array is read
  back as the value and type that was added, by the general lookup and by those for
  one type; a message changes only by calls of the builders it consists of.
* *Host, memory and MPI sections*: figures that are shown together come from one
  reading; every rank that gathers returns, with the names of one call.

## 2. The modules

| module | models | lines of code it stands for |
|---|---|---|
| `PublisherApi` | the life cycle and return codes of any publisher (abstract) | publisher.hpp 46-66, 86-98 |
| `FilePublisher` | the file plugin | file.ipp |
| `SpawnPublisher` | the four subprocess plugins | curl.ipp, script.ipp, ldmsd_stream_publish.ipp, ldms_message_publish.ipp |
| `Multifile` | the multifile plugin | multifile.ipp 70-423 |
| `Consolidation` | consolidation, with jobs and callers | multifile.ipp 425-580 |
| `MultiPublisher` | multi_publisher, the factory, stdout, none and syslog | multi_publisher.ipp, factory.ipp 121-325, stdout.ipp, none.ipp, syslog.ipp |
| `ScalarTypes` | scalar types and the JSON values that stand for scalars and arrays | types.hpp, enums.ipp 12-130, builder.ipp 728-1270 and 1670-2437 |
| `Builder` (extends `ScalarTypes`) | builders that refer to each other, serialization and lookup | builder.ipp 430-726, 1163-1349, 1532-1677, 2439-2466 |
| `RankSections` | MPI, host and memory sections of the processes of a job | builder.ipp 164-421, 509-611, 1351-1530 |
| `*MC` | constants, symmetry and views for TLC | - |
| `FilePublisherProofs`, `SpawnPublisherProofs`, `MultifileProofs`, `ConsolidationProofs`, `MultiPublisherProofs`, `RankSectionsProofs`, `BuilderProofs` | inductive invariants and theorems | - |
| `SetInduction` | induction over the natural numbers, and recursive functions, stated about sets (proved) | - |

Every definition that stands for code is in the `map` of `PROJECT.json`, with
its lines. Variables keep the names of the members they model (`mode`, `state`,
`paused`, `fdir`, `out` ...); a variable marked *history* in its comment is in no
object of the program and is read by properties only (`accepted`, for example,
lists the messages that `publish` answered 0 for without suppressing them).
`last` is the last call that returned, with its code. Operators that begin with
the comment *Mutant* are plausible bugs; they are used by no specification, and
each was put in place of the definition after it to see that the property named
in `PROJECT.json` fails.

**PublisherApi.** The phases `new`, `configured`, `running`, `failed` and
`finalized` are what a caller can tell apart by the answers. `finalized` is not
`new`: the old options are still there, so `initialize` answers `wrong_mode`
where a new object would configure itself. Acceptance of a message may
be refused by a running object at any time (`Refuse`), and is never undone. The module
says nothing of where the values of options come from (publisher.hpp 67-79): the header
and the plugins disagree there, see below.

**FilePublisher.** One action for each call; `Config` and `Initialize` take the
environment as a parameter because `getenv` is read each time. Three keys are
looked up in the options, the environment and the defaults, in that order, as the code
does. A
failing write leaves one of three things at the end of the file (`Extensions`):
nothing, a part of the record, or all of it; the stream is bad from then on and
its destructor or `close` tries the same record again. `Crash` may leave a part
of one more record. The constants are arbitrary sets of directories, names,
options and environments.

**SpawnPublisher.** A `publish` is three steps, since others act in between:
`PublishName` (mkstemp), `PublishWrite` (open by name, write, close) and
`PublishSend` (`system`). The shell it starts is an element of `shells` and takes
two steps of its own: its program ends, then `rm` runs. `"(prog f; rm f) &"` and
`"(prog f || rm f) &"` differ in when the second happens; `rm` may fail, and a shell may
be killed at any time (`ShellDies`). A `publish` that cannot open its file removes it,
by the `std::filesystem::remove` that throws: it ends with a return code and without
the file, or with neither. `Recreate` is a
destruction or, within a publish, the death of the process: files and shells
stay. `left` is the history of how a file lost its owner.

**Multifile.** `initialize` is followed system call by system call, `pc` naming
the next one, since the directories are shared; `base` is the local
`status_bdir`. `node` is what `DIRECTORY` and `DIRECTORY/user` are: nothing, a
directory or a file, at the start in every combination that can be, and
`Appears` lets somebody else make a directory that is wanted, or put a file in the
way, between any two calls; this is also what any number of other ranks can do to
it, since they share nothing else. `create_stream`, the write
and `finalize` touch only what belongs to one object and are single actions. A
call that throws is an action that returns nothing. `failed` is the history of the
applications for which a write of the session failed; `finalize` and destruction do
not clear it, as they do not clear `accepted`, so that what is said of the files holds
after the session too.

**Consolidation.** One pattern matches the files of all jobs of a user (that is
what `get_multifile_log_path` gives when they share `DIRECTORY` and
`ADC_WFID`). A call is `Glob`, `OpenDest`, a `Copy` for every file in any order,
and `Finish`; publishers write and callers delete between these steps. A `Glob` that
matches nothing is the whole call and answers, as the code does, with the name it made
up and no merged file. `results` is the history of what was answered: name, merged
files, and whether anything matched; opening a consolidated file ends what earlier
answers say of it. `Die`
ends a call or a series of deletions anywhere. `breach` records the two ways to
misuse the function that the model finds: consolidating while a matching file is
still being written, and using the name of a consolidated file again.

**MultiPublisher.** A publisher object exists as long as the program (`handles`)
or a multi_publisher (`pvec`) holds a pointer to it; `Release` destroys what nobody
holds any more. Its kind is `session` for every plugin with a life cycle, of which
the phase of `PublisherApi` is kept, or `stdout`, `syslog` or `none`, which publish
in any phase (publisher.hpp 60-62 promises 2 before `initialize`; these three have no
mode to tell). The loops of the factory (`MakePublisher`, `MakeUnknown`) and of
`publish` (`PublishTaken`, `PublishFailed`, `PublishQuiet`) take one step for an
entry, with `call` for their local variables, because a member may throw in the
middle (`PublishThrows`, `MakeThrows`). `pause`, `resume` and `terminate` cannot be
left early and are one step. `tag` is the name syslog logs under: `openlog` and
`closelog` act on the process, and after a `closelog` syslog uses the name of
the program.

**ScalarTypes.** A JSON value is a record of its kind and its content; a datum is a
string that stands for a value, and what it is turned into (digits, a pair) carries
its name. `Stored` and `StoredArray` are what the overloads of `add` and `add_array`
make, `StoredKind` and `ElementKind` the kind that the C++ type they store gets in
JSON. `GetScalar` and `GetArray` read back: `Crash` is the use of a null pointer
where another kind is found, `Zero` what an array element of another kind is read as.
The tables are kept as sets and cases. They lack `mime` and `char8`, so that a
MIME object is tagged with an empty type and cannot be read back.

**Builder.** `d` and `sections` are the members of each builder. `add_section` keeps
its argument itself, and so a builder may reach itself; every other call with a
builder (`AddSnapshot`, `AddExitData`, `AddCode`) puts what `flatten` makes of it
into `d`, for `AddCode` the version's own fields without its sections. `Flatten` and
`Find` are compared with `GetValue`, which walks sections and fields by itself.
Three builders, each call with each of them or with a null pointer, `attached` being
the history of what refers to what. `flatten` of a builder in a circle never returns;
the guards `Acyclic` leave these calls out, and nothing else.

**RankSections.** `plan` is the program of each rank, a sequence of flags given to
`add_mpi_section`. The documented precondition (builder.hpp 103, 108) is in
`RankAssumption`: the n-th calls of all ranks gather, or none does; *what* they ask
for may differ. `EnterGather` and `LeaveGather` are the two sides of
`MPI_Allgather`; `SkipGather` is a rank that an MPI error kept from sending its name, by
the `goto mpi_out` or within `MPI_Allgather`, and `GatherFails` one that sent it and got
an error. The results of `MPI_Get_processor_name` and `MPI_Allgather` are ignored, so
these ranks list `NoName`, which stands for all that is in the buffer and is no name
of a host; so does a `gethostname` that fails without MPI.
Each rank is a process, with `midata` and `probed` for its static variables. A
reading of `/proc/meminfo` finds any subset of the values, each of which is marked
by the number of its reading; two of the nine stand for all.

**Interfaces.** Each of the plugin modules `FilePublisher`, `SpawnPublisher` and
`Multifile` has `Api == INSTANCE PublisherApi WITH ...`, which
reads the abstract phase off the object, and `ImplementsApi`, which says that all
its steps are steps of the interface or stutter. A call that throws returns nothing and
is a stutter, also where a return code is promised.

## 3. The abstractions

* A message is a model value; so is a directory, a file name or an application.
  For publishers, `AppOf` gives the one field that a publisher reads,
  `/header/application`; what serialization writes is the matter of `Builder`.
* The texts that builders get from the system (time, user, paths, libraries,
  environment) are constants, since no property tells them apart; `os`, `env` and
  `cpu` of the host section, which are read anew each time, are left out. A string
  is one character long where its length is returned as a count.
* A file is the sequence of its records, each whole or torn.
* File system calls succeed or fail at any time, for any reason; which `errno` is
  returned is `os_error`, except that `Multifile` keeps `ENOTDIR` apart.
* Names that the code makes unique are unique: mkstemp's by O_EXCL (an action
  takes a name that does not exist), the directory of a multifile object by
  host, pid, time and address. The latter needs `DIRECTORY`, the user name and
  `ADC_WFID` to have no blank: `ss >> fdir` (multifile.ipp 116) cuts the path at the first
  one. The plugins' `gethostname` and `cuserid` do not fail.
* A call on one object is not interrupted by another call on the same object:
  the library has no locks and says nothing of threads. What another *process*
  or *shell* may interleave with is split in steps.
* The file plugin is alone with its file while a session lasts (two processes
  that append to one file are outside of the model).
* Calls of `consolidate_multifile_logs` do not overlap, and publishers do not die
  before they are terminated (a torn last record would be copied like any other).

## 4. The runs

Every run explores all reachable states of its instance. Deadlock is checked for
publishers and consolidation, which never stop; builders and ranks run programs of
bounded length, and their runs say `CHECK_DEADLOCK FALSE`. That no rank is stuck in
a gather is `EveryGatherReturns`.

| run | instance | what it shows |
|---|---|---|
| `file` | two messages, one directory, one file name; options: none, APPEND, an empty name; environment: nothing, APPEND; 3 records | see below |
| `spawn` | a curl and a script publisher, two names, one message each, fair shells | see below |
| `spawn_script` | a script publisher | *violated*: its files are not always removed |
| `multifile` | one process, two applications and a message of neither, 3 messages | see below |
| `multifile_enotdir` | two processes, one application | *violated*: "not a directory" where everything is one |
| `consolidation` | two jobs with a file each, two consolidated names, 2 and 1 records | see below |
| `multi` | two multi_publishers, two objects, session and syslog, at most 2 entries added by hand | see below |
| `builder` | three builders, two names, three fields, 19 paths, 3 calls | see below |
| `builder_lookup` | the same | *violated*: a field is found by its name |
| `builder_kinds` | the same | *violated*: the getter for its type gives a scalar that was added |
| `ranks` | three ranks on two hosts, three programs, with and without MPI, host sections on rank 0 | see below |
| `ranks_hosts` | the same | *violated*: the list of hosts names all hosts |

### Properties of the passing runs

`TypeOK` of each module is its type invariant.

* `StreamOpenIffRunning` (file): no publish meets a closed stream and no
  descriptor is left by `finalize`.
* `SettledOnDisk` (file): `publish` answers 0 without looking at the outcome of
  the write, yet at most one answered message of a session is missing, the last.
* `FailureIsPermanent` (file): no sequence of calls gets an object whose
  `initialize` failed to publish.
* `EarlierRecordsKept` (file): only an `initialize` that truncates removes or
  changes a record.
* `ShellsReadTheirMessage`, `FilesExclusive` (spawn): no interleaving of
  processes, shells, failures and deaths makes a program read, or an `rm` remove,
  the file of another message.
* `LeftOnlyByFaults` (spawn): a file in the scratch directory has an owner, a publish
  or a shell, or was left there in one of seven ways: the process died within `publish`,
  the file could neither be opened nor removed, its write failed, no shell could be
  started, the shell was killed, its `rm` failed, or its program succeeded in front of
  `|| rm`.
* `RemovedAfterProgram` (spawn): with `;` between program and `rm`, as in curl without
  debugging and in the ldms plugins, each file is removed in the end, unless the shell
  is killed or its `rm` fails. Curl with `DEBUG` 2 and script have `||`.
* `AcceptedInFiles` (multifile): each application's file holds its messages, during a
  session and after it, save at most the last one if a write failed for this
  application. What was written is not lost by `finalize`, destruction or a crash.
* `DeadStreamsStayDead` (multifile): a stream that failed, or could not be made,
  is not used again before `finalize`.
* `RunningHasDirectory` (multifile): `initialize` passes over EEXIST, which a file
  in the way also gives, and relies on a test file to notice.
* `ResultsAreWhole` (consolidation): a file that is returned consists of the whole
  source files that are reported as merged, each once, and of nothing else, until a call
  opens it again. The exception is stated with it: a call that matches nothing returns
  its name with no merged file, and under a name that an earlier call has opened there
  may be that call's records, also half of a file.
* `ConservedUnlessMisused` (consolidation): without one of the two misuses every
  record that was written is in a source file or in a consolidated file.
* `PublishCounted` (multi): every entry is tried however many fail, and the number
  `publish` returns is that of the entries that got nothing, also when one object is
  entered twice.
* `FactoryMembersRun` (multi): a publisher that the factory put in can publish
  until `terminate`, and no other pointer leads to it.
* `PauseHolds` (multi): what the factory made is quiet from `pause` to `resume`, even
  if publishers of the program that are in the same multi_publisher are resumed
  through another. For those that are added by hand it does not hold, which is
  why the property speaks of the others.
* `NamedUntilDestroyed` (multi): until the first syslog publisher is destroyed all
  messages are logged as ADC. Afterwards they need not be: although several instances
  may be used simultaneously (syslog.ipp 36), the destructor of one closes the
  log of all.
* `LookupAgrees` (builder): `get_value` and `serialize` agree on which of a field and
  a section of one name is seen, through any chain of sections and snapshots.
* `ScalarsRoundTrip`, `ArraysRoundTrip` (builder): writer, table and reader agree for
  every type and never use a null pointer. Arrays of `char16_t` are excluded: their
  elements become `int`, so that each is read as zero, although
  "there should never be a mismatch" (builder.ipp 937).
* `ChildrenOnce` (builder): children of a workflow are listed once, in order, after
  those of the environment.
* `SectionsHideNothing` (builder): `add_section` never changes what a message says at
  a path, in any of the messages its builder belongs to.
* `EditsAreLocal` (builder): a snapshot stays as it was, whatever becomes of the
  builder it was taken from, and a reference does not.
* `SameCallGathered` (ranks): names of hosts are never put together across different
  calls, unless an MPI error kept a rank out of an earlier gather.
* `EveryGatherReturns` (ranks): with the same exception, no rank waits for ever.
* `HostsOnce` (ranks): no list of hosts has a name twice, with names that were gathered
  and without. It does not say that the names are those of the ranks, which they are
  not (`ranks_hosts`).
* `MemoryOfOneReading` (ranks): figures shown together are of one complete reading,
  although a failed reading leaves values of two readings side by side.
* `HardwareConstant` (ranks): two host sections of one process never disagree on gpus
  or numa nodes; after a failure, or an exception, all show none.
* `ImplementsApi` (file, spawn, multifile): in each phase of the life cycle each call
  that returns gives the code of `PublisherApi` and leads to its phase; what was answered
  0 and not suppressed is accepted, in order, and nothing else is.

### Bounds, and why they are enough

* *file*: three records let an accepted prefix, a failed write and what a later
  session appends meet in one file. One path is enough for sessions to collide; two
  would only multiply the state. Two messages tell a swapped record from a
  right one.
* *spawn*: two names for two publishers that share them, so that a name comes free
  and is made up again while the other publisher is at any step.
  One message in each session; the scratch directory couples publishes whatever
  their session. A curl publisher that does not debug has the shells of the ldms plugins,
  and one that does those of script, but for the script that removes its file itself.
  The VIEW leaves out `last`, which no action reads, and of the properties only
  `ImplementsApi` mentions, in what it says of a single step. There is no symmetry set,
  since the run checks liveness. That a program reads its own message and not
  another one that was written is left, for several messages, to the theorem
  `ReadsOwnMessage`; here the other content is an empty or torn file.
* *multifile*: two applications, since streams are independent of one another
  but for the object's mode; three messages, so that one application can
  accept after another failed. Other ranks are `Appears`; the counterexample has
  two of them in full.
* *consolidation*: two jobs give the two sides of every race; a file of two records
  can be sent in part; a second consolidated name can be the fresh one or
  the reused one. Two calls with a failure or a deletion between them are enough for a
  result without a match under a name in use.
* *multi*: two objects and two multi_publishers are what sharing takes: an object
  in both, an object twice in one, a failing member before and after another. The
  name lists have a publisher that fails to start before one that cannot,
  and an unknown name before one that may fail. `stdout` and `none` differ from
  `syslog` only by having no name, and are left to the proofs, which hold for all
  kinds.
* *builder*: three builders are a chain of two references, or a snapshot of a builder
  that refers to another; three calls reach each pair of calls after any first. The
  paths lead through no, one and two sections, into and past snapshots and fields.
  `ScalarsRoundTrip` and `ArraysRoundTrip` go through all types.
* *ranks*: three ranks on two hosts are the least where some of the hosts are equal
  and some differ. The program of three calls has two gathers with a call between
  them where one rank asks for nothing, so that ranks may be at any distance; the
  shorter ones leave time for three host sections: a complete reading, a partial
  one and another complete one.

### Fairness

`FairSpec` of `SpawnPublisher` is `WF_vars(ShellStep(n))`. The operating system runs
every background shell, and every program it starts ends. The second half is an
assumption about curl and the site's script: no plugin sets a time limit. Nothing
makes a shell die (`ShellDies` is not fair). Nothing is assumed of the publishers,
which may stop calling for ever. Weak fairness for each name is enough, since a
shell's next step stays enabled until it is taken.

`Spec` of `RankSections` has `WF_vars(AddMpiSection(r))` and
`WF_vars(LeaveGather(r))` for each rank: ranks run, and come to the calls that their
program makes, which is what "must be collective" (builder.hpp 103) asks of them; and
MPI completes a gather that all ranks have come to. Nothing is assumed of host
sections, and errors (`GatherFails`) are never forced.

### Disagreements between code and comments

The five violated runs each show one, with the quoted line, in `PROJECT.json`
under `findings`. In short: script's file is removed only if the script fails
(script.ipp 129); `initialize` of multifile tests a stale status and reports
`not_a_directory` when another rank makes `DIRECTORY/user` between two looks
(multifile.ipp 180); `get_value` throws for every path that ends at the name of a
field (builder.ipp 1182); a field it does find, by its type, has the kind `k_none`, and
the getters for strings and integers therefore give nothing that was added
(builder.ipp 1214); the list of hosts of a communicator repeats the caller's own
(builder.ipp 1468).

What the models contain besides, without a run of its own:

* `publish` of file and multifile answers 0 for the record whose write failed
  (file.ipp 116; publisher.hpp 60); `SettledOnDisk` and `AcceptedInFiles` say how much
  that can lose.
* `config` with an `env_prefix` uses environment variables "overriding elements of m"
  (publisher.hpp 73-77). Every plugin looks into `m` first and asks the environment for
  the keys that `m` lacks: file.ipp 84-98, curl.ipp 109-123, script.ipp 91-105,
  ldmsd_stream_publish.ipp and ldms_message_publish.ipp 131-145, multifile.ipp 127-142,
  syslog.ipp 63-77. `Get` of `FilePublisher` is the code's order, and no property
  speaks of it.
* A `publish` of the subprocess plugins whose file cannot be opened may throw (curl.ipp
  210, script.ipp 173, ldmsd_stream_publish.ipp and ldms_message_publish.ipp 221), where
  publisher.hpp 60-62 promises a code; `initialize` and `publish` of multifile
  throw too (multifile.ipp 164, 269).
* A multifile directory is cut at the first blank of `DIRECTORY` or `ADC_WFID`
  (multifile.ipp 116), so that many objects may share what is left.
* Consolidation "returns the list of new consolidated logs" (utility.hpp 35); with no
  match it returns a name that it made up and no file (multifile.ipp 531-533, 478).
* Errors of `MPI_Get_processor_name` and `MPI_Allgather` are ignored (builder.ipp
  1446-1453): if the error handler returns, "" may be listed as a host.
* A second consolidation with the same ADC_WFID truncates the only copy of what was
  deleted after the first (multifile.ipp 536); `ConservedUnlessMisused` has it as one
  of two misuses.
* The header calls `add_section` a copy (builder/impl/builder.hpp 40) and it is a
  reference; `get_section` gives null for what the other calls added; the sections of
  the version are lost in the code section (builder.ipp 640).
* `get_value_uint64` reads the bytes of an untyped `uint64` as digits (1343), and `vp` of
  a returned field may point into a copy that is gone.
* A null communicator gives no section, where builder.hpp 247 promises rank 0 of 1.
* A publisher looks up `/header/application` in a builder: if somebody attached a
  *section* named `header`, the lookup throws out of `publish` (multifile.ipp 291), as
  every path does that ends at the name of a field.

## 5. The proofs

The seven proof modules and `SetInduction` are checked by TLAPS for any constants that
satisfy the assumption named in the component's module (`FileAssumption`,
`SpawnAssumption`, `MultiAssumption`, `MultifileAssumption`, `ConsolidationAssumption`,
`RankAssumption`, `BuilderAssumption`), so for any number of messages, names,
processes, ranks, builders and records. The assumptions say which constants are
functions into which sets, that the values that stand for nothing are no members, for
`RankSections` the documented precondition on the programs of the ranks, and for
`Builder` that what is added has the members that `Stored` and `StoredArray` make.
`ScalarTypes` assumes two facts about concatenated strings that the provers do not
know: no two rows of the table of names are taken for each other
(`NamesAssumption`), and different data have different digits and pairs
(`DataAssumption`). TLC evaluates both on the tables as they are.

**SetInduction.** The library states induction for an operator that is a
parameter, which Z3 and Zenon cannot instantiate. Here it is stated about a *set*
of numbers, from the fact that `<` is well founded: `NatSetInduction`,
`UpToSetInduction`, and `RecursiveFunction`, which says that a function given by a
first value and a step on a set exists. A recursive function of a model is a
`CHOOSE` to the prover; each of the lemmas named `...Unfolds` shows that what is
chosen exists, and that it satisfies its equations. From there on it is used by these
equations only.

**FilePublisher.** `IInv` is `TypeOK`, `StreamOpenIffRunning` and
`SettledOnDisk`, with two conjuncts that make them inductive. `StreamAligned`
says that the length of the file is that of its base plus the accepted
messages as long as the stream is good: without it a record might land at another
index than that of its message. It also says that a bad stream belongs
to a session that has failed, so that what `close` adds is
beyond the settled part. `ModesAgree` says that an object in error waits in
`pi_init`, and that a running one has a file name. From `IInv`, by one step for
each action: `TypeCorrect`, `StreamCorrect`, `AtMostOneLoss` ([]SettledOnDisk),
`FailurePermanent`, `RecordsKept` and `Refinement` (Spec => Api!Spec).

**SpawnPublisher.** `IInv` is `TypeOK`, `FilesExclusive` and `ShellsReadTheirMessage`
with `OwnersHoldTheirFiles` (each file that a publish or a shell will still use
exists, so mkstemp cannot make up its name), `WrittenIsMessage` (between write and
`system` the content is the message), `BusyIsRunning` and `ModesAgree`. The argument
is that ownership passes from the publish to its shell and is given up by one `rm`:
since no two own the same file, nobody's `rm` or write meets the file of another. From
it: `TypeCorrect`, `ReadsOwnMessage`, `Exclusive` and, by a second invariant on top of
it, `LeftByFaults`, which says both ways that a file has an owner just if it exists
and was left by none of the seven faults. `Refinement` (Spec => Api!Spec) needs
besides that the replies are a function on the processes (`LastShape`), so that a call
of one process is seen as a stutter by the interface of each other.

**Multifile.** `IInv` is `ControlInv`, about the life cycle and the directories, and
`DataInv`, about streams and files. That `RunningHasDirectory` is inductive needs a
history of the system calls: `DIRECTORY/user` exists only in a directory
(`NodesNest`), an object's own directory only in `DIRECTORY/user` (`LeafInUser`), and
the second `mkdir` is made only where the first has one (`MkdirInDirectory`); nobody
removes a directory, and the test file is what tells a directory from a file in
the way. `DataInv` has for each running object `Aligned` (the file of an application
whose stream is good has exactly as many records as were accepted for it, and
where there is no stream nothing was accepted) and `InFiles`; without the first a
record could land at another place than that of its message. Two lemmas
about one more message, `CountAppend` and `RankAppend`, speak of sets of indices and
their cardinality and take the place of the induction that a filtered sequence would
need. When a session ends, by `finalize`, destruction or a crash, nothing moves in the
settled part of the files, and `failed` keeps which applications may lack their last
message. From `IInv`: `TypeCorrect`, `HasDirectory`, `InOrder` ([]AcceptedInFiles),
`StayDead` and `Refinement`.

**Consolidation.** `Basic` has the types, what a call in progress holds, `WrittenOnly`
and `UnusedEmpty` (a consolidated file that no call has opened is empty, so that
truncating it loses nothing). On top of it, `AccountedUnlessMisused`: as long as
`breach` is empty, each file whose name is gone, each that a caller may delete and
each that the call in progress has merged is `Safe`: its publisher has ended, and
all its records are in consolidated files. The argument is that a file is read
only when it can no longer grow, and that no consolidated file is opened twice. From
it, `Conserved`. `JoinInv` says that the file being joined consists of whole files as
long as none was left out (`Joined`), and that no merged file is still to do; its
lemma `JoinedMore` adds one file at the end. `JoinInv` also says that every earlier result
is `Good`, that is whole or of a call without a match under a used name, for which
`UnusedEmpty` is needed: under a fresh name there is nothing. From it, `Whole`
([]ResultsAreWhole).
`TypeCorrect` follows from `Basic`.

**RankSections.** `IInv` is `TypeOK` and `MemoryOfOneReading` with `ValidIsComplete`
(what counts as valid in `midata` is of one complete reading), `ShownIsRemembered` (the
hardware that host sections show is that which the process remembers), `InGather`
(a rank in a gather belongs to a program that gathers at that call) and
`ArrivalsCounted` (a rank that was never kept out by an error has arrived at as many
gathers as its calls so far ask for). The last makes `SameCallGathered` follow from
the precondition on programs. From it: `TypeCorrect`, `OneReading`,
`SameHardware`, `SameCall`. `HostsListedOnce` ([]HostsOnce) is an invariant of its own:
by induction over the ranks, what the loop of the MPI section lists so far holds no
name twice (`ListsOnce`), for any number of ranks, whatever index is read and whatever
the names are. That they are names of hosts of the communicator is not claimed.

**MultiPublisher.** `IInv` has the types (`Types`), `ExistsIffHeld` (an object exists
exactly while a pointer leads to it, so a new object is in no list),
`CallSound` (the multi_publisher a factory call fills is not a paused one),
`MadeExist`, `LogOpen` (before the first destruction a syslog object implies that
the log is open as ADC), `FactoryMembersRun` and `PauseHolds`. The last two need each
other's company: that `resume` of one multi_publisher leaves a paused one
quiet follows from the fact that what the factory made is in one entry only.
From it: `TypeCorrect`, `MembersRun`, `PausedQuiet` and `Named`.
`FailuresCounted` (Spec => PublishCounted) needs a loop invariant besides, `Counted`:
when the loop is at an entry, the failures so far and the entries that took the
message add up to the earlier entries that do not keep quiet. It is preserved because
`heard` has the entries, not the objects: one object may be entered twice.

**Builder.** `TypeOK` is inductive as it stands (`TypeCorrect`): fields are objects and
`attached` holds every reference. The difficulty is in `Flatten`, `Find`, `GetValue`,
`Reach` and `Extend`, recursive over the nesting of builders, over a path or over a
list, whose equations are proved first.

* `MessagesChangeLocally` (Spec => EditsAreLocal): what a builder
  stands for at the depth i is the same before and after a call of a builder that
  is not within i steps of it (`UncalledIsSame`, by induction on i).
* `AddedSectionsHideNothing` (Spec => SectionsHideNothing): by induction on the depth,
  a message after `add_section` has at each path what it had before it, because a
  section only comes under a name that is in use neither as a field nor as a
  section.
* `LookupAgreesAlways` ([]LookupAgrees): a builder reaches all it can in as many
  steps as there are builders (`ReachClosed`, by cardinality), and each of its sections
  reaches fewer than it does if it is in no circle (`SectionReachesLess`), so that
  `Flatten` is deep enough. By induction on the depth, a walk through the builders and
  one through the message then end at the same value (`FlattenAgrees`).
* `ChildrenListedOnce` ([]ChildrenOnce): the inductive invariant is
  `WorkflowsListed`, which adds that the lists have strings as elements. `Extend`, by
  induction over the argument of `add_workflow_children`, keeps it (`ExtendListed`).
* `ScalarsRoundTripAlways` and `ArraysRoundTripAlways` hold for any data, by the groups of
  types in the table, and for arrays of any length (`ArrayReadBack`).

## 6. Only model-checked, or not modelled

* Liveness (`RemovedAfterProgram`, `EveryGatherReturns`) stays with TLC: the prover does
  not reason about fairness and ENABLED.
* Every other property of a passing run is a theorem. The builder's theorems, like its
  runs, say nothing of a `flatten` of builders in a circle.
* Not modelled in `Builder` and `ScalarTypes`: the text that a number, a complex
  number or a variant is formatted to, the pointer `vp` of a returned field,
  `get_section_names` and `get_field_names`, and a `flatten` of builders in a
  circle, which never returns. `to_string(scalar_type)` inserts into a global
  map without a lock when it does not know a type (enums.ipp 362); threads are
  outside of the model, since the library says nothing of them.
* Not modelled in `MultiPublisher`: the priority of a syslog message, the order in
  which the factory goes through a map, and what a caller does with an exception.
* Not modelled: libcurl, libldms and adiak publishers and `mergefiles.ipp` (not
  built, or not implemented), base64 and pipe helpers (pure conversions and I/O),
  `validate_multifile_log` (declared, not implemented).
* Delivery order of the subprocess plugins: the source promises none, and
  `SpawnPublisher` lets shells run in any order.

## 7. Plan

In order of importance:

1. *(done)* publisher interface, file, subprocess and multifile publishers,
   consolidation; proofs about file and subprocess publishers.
2. *(done)* multi_publisher, factory, stdout, none and syslog, with proofs.
3. *(done)* `ScalarTypes` and `Builder`: what a serialization shows of later changes,
   and whether lookup finds what serialization writes.
4. *(done)* `RankSections`: the collective calls of the MPI section, and what the
   processes remember between host sections.
5. *(done)* proofs of `Multifile`, `Consolidation` and `RankSections`, and the
   refinement of `SpawnPublisher`.
6. *(done)* induction for recursive functions; proofs of `Builder` and `ScalarTypes`, of
   `PublishCounted` and of `HostsOnce`.

Left: two file publishers that append to one file at a time (the order in which the
operating system lets buffers through is not in the source), several threads on one
object, and theorems about publishers and builders together.

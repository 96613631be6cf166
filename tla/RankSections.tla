---------------------------- MODULE RankSections -----------------------------
(***************************************************************************)
(* The sections that builders fill in from the system, in each process of  *)
(* a job (adc/builder/impl/builder.ipp): add_mpi_section, where the        *)
(* processes of a communicator gather the names of their hosts, and        *)
(* add_host_section and add_memory_usage_section, with what a process      *)
(* remembers between calls in static variables.  MPI, /proc/meminfo, lspci *)
(* and numactl are outside.                                                *)
(***************************************************************************)
EXTENDS Naturals, Sequences, FiniteSets

CONSTANTS
    Size,         \* of the communicator
    Hosts,
    HostOf,       \* the host of each rank
    NoName,       \* in its place when the name cannot be had: zeros, bytes that
                  \* nobody has set, or "name_unavailable"
    Plans,        \* the programs: bit flags of the add_mpi_section calls of each rank
    HostRanks,    \* bound: the ranks that add host and memory sections
    MaxCalls      \* bound: calls of a rank, those of its program and of these sections

Ranks == 0..Size - 1
Fields == {"mpi_rank", "mpi_size", "mpi_name", "mpi_version", "mpi_library_version"}
Lists == {"mpi_rank_host", "mpi_hostlist"}

\* "If this value is included, then the call to add_mpi must be collective"
\* (builder.hpp 103, 108): otherwise ranks may ask for different things.
ASSUME RankAssumption ==
    /\ Size \in Nat \ {0}
    /\ HostOf \in [Ranks -> Hosts]
    /\ NoName \notin Hosts
    /\ Plans \subseteq [Ranks -> Seq(SUBSET (Fields \cup Lists))]
    /\ \A p \in Plans : \A q, r \in Ranks :
          /\ Len(p[q]) = Len(p[r])
          /\ \A i \in DOMAIN p[r] : (p[q][i] \cap Lists = {}) = (p[r][i] \cap Lists = {})
    /\ HostRanks \subseteq Ranks
    /\ MaxCalls \in Nat

VARIABLES
    haveMpi,    \* the build has ADC_HAVE_MPI
    plan,       \* the program that the ranks run
    made,       \* the calls of add_mpi_section that each rank has begun
    pc,         \* "ready", or "gather" within MPI_Allgather
    arrived,    \* the calls of MPI_Allgather that each rank has begun
    jv,         \* the section that each rank is making
    section,    \* the last section mpi_comm_<name> of each
    skipped,    \* history: the ranks that an error kept out of an MPI_Allgather
    midata,     \* static: values of /proc/meminfo, each the number of its reading
    readings,   \* the number of readings of it
    complete,   \* history: the readings that found all values
    memory,     \* mem_total of the host section; total and free of memory_usage
    probed,     \* static: the data of the gpus and numa nodes
    shown,      \* history: those of all host sections
    hostCalls

mpi == <<made, pc, arrived, jv, section, skipped>>
host == <<midata, readings, complete, memory, probed, shown, hostCalls>>
vars == <<haveMpi, plan, mpi, host>>

Names == Hosts \cup {NoName}
Devices == {"gpu", "numa_hardware"}

Init ==
    /\ haveMpi \in BOOLEAN
    /\ plan \in Plans
    /\ made = [r \in Ranks |-> 0]
    /\ pc = [r \in Ranks |-> "ready"]
    /\ arrived = [r \in Ranks |-> 0]
    /\ jv = [r \in Ranks |-> {}]
    /\ section = [r \in Ranks |-> [fields |-> {}, rank_host |-> <<>>, hostlist |-> <<>>]]
    /\ skipped = {}
    /\ midata = [r \in Ranks |-> [total |-> 0, free |-> 0, valid |-> FALSE]]
    /\ readings = [r \in Ranks |-> 0]
    /\ complete = [r \in Ranks |-> {}]
    /\ memory = [r \in Ranks |-> [mem_total |-> {}, usage |-> {}]]
    /\ probed = [r \in Ranks |-> [x \in Devices |-> "not yet"]]
    /\ shown = [r \in Ranks |-> [x \in Devices |-> {}]]
    /\ hostCalls = [r \in Ranks |-> 0]
-----------------------------------------------------------------------------
\* Mutant: the call is collective for the list of the hosts of ranks alone.
GathersRankHost(flags) == "mpi_rank_host" \in flags

Gathers(flags) == flags \cap Lists # {}

Flags(r) == plan[r][made[r]]

Begin(r) ==
    /\ pc[r] = "ready" /\ made[r] < Len(plan[r])
    /\ made' = [made EXCEPT ![r] = @ + 1]
    /\ UNCHANGED <<haveMpi, plan, host>>

\* d["mpi_comm_<name>"] = jv, with the lists that were asked for.
Sets(r, fields, flags, rankHost, hostlist) ==
    section' = [section EXCEPT ![r] =
        [fields |-> fields,
         rank_host |-> IF "mpi_rank_host" \in flags THEN rankHost ELSE <<>>,
         hostlist |-> IF "mpi_hostlist" \in flags THEN hostlist ELSE <<>>]]

\* No communicator, MPI_COMM_NULL or no flags: there is no section.
NoSection(r) ==
    /\ Begin(r)
    /\ Flags(r)' = {}
    /\ UNCHANGED <<pc, arrived, jv, section, skipped>>

\* Without MPI the section is that of rank 0 of 1, on this host; gethostname may
\* fail.
FakeSection(r) ==
    /\ ~haveMpi
    /\ Begin(r)
    /\ Flags(r)' # {}
    /\ \E name \in {HostOf[r], NoName} :
          Sets(r, Flags(r)' \cap Fields, Flags(r)', <<name>>, <<name>>)
    /\ UNCHANGED <<pc, arrived, jv, skipped>>

\* A field is left out when MPI reports an error for it.
LocalSection(r) ==
    /\ haveMpi
    /\ Begin(r)
    /\ Flags(r)' # {} /\ ~Gathers(Flags(r)')
    /\ \E got \in SUBSET (Flags(r)' \cap Fields) : Sets(r, got, {}, <<>>, <<>>)
    /\ UNCHANGED <<pc, arrived, jv, skipped>>

\* The rank and the size are asked for again if they were not had.
EnterGather(r) ==
    /\ haveMpi
    /\ Begin(r)
    /\ Gathers(Flags(r)')
    /\ pc' = [pc EXCEPT ![r] = "gather"]
    /\ arrived' = [arrived EXCEPT ![r] = @ + 1]
    /\ \E got \in SUBSET (Flags(r)' \cap Fields) : jv' = [jv EXCEPT ![r] = got]
    /\ UNCHANGED <<section, skipped>>

\* Mutant: rank 0 is not in the list.
RankHostsFromOne(name) == [i \in 1..Size - 1 |-> name]

\* The hosts of the ranks: each is read at hostnames + rank * ..., where rank is
\* that of the caller, so that it is the caller's own name as it was gathered.
RankHosts(name) == [i \in 1..Size |-> name]

\* Mutant: a host is listed once for each rank.
EachHost(hosts) == hosts

\* The different hosts, in the order in which they come first.
HostList(hosts) ==
    LET list[i \in 0..Len(hosts)] ==
            IF i = 0 THEN <<>>
            ELSE LET l == list[i - 1]
                 IN  IF \E j \in DOMAIN l : l[j] = hosts[i] THEN l ELSE Append(l, hosts[i])
    IN  list[Len(hosts)]

\* An error keeps r out of the gather: one for the rank or the size, goto mpi_out
\* past MPI_Allgather; or one of MPI_Allgather before it sends, which goes unseen.
SkipGather(r) ==
    /\ haveMpi
    /\ Begin(r)
    /\ Gathers(Flags(r)')
    /\ \E got \in SUBSET (Flags(r)' \cap Fields) :
          \/ /\ ~({"mpi_rank", "mpi_size"} \subseteq got)
             /\ Sets(r, got, {}, <<>>, <<>>)
          \/ Sets(r, got, Flags(r)', RankHosts(NoName), HostList(RankHosts(NoName)))
    /\ skipped' = skipped \cup {r}
    /\ UNCHANGED <<pc, arrived, jv>>

Returns(r, name) ==
    /\ pc' = [pc EXCEPT ![r] = "ready"]
    /\ Sets(r, jv[r], Flags(r), RankHosts(name), HostList(RankHosts(name)))
    /\ UNCHANGED <<haveMpi, plan, made, arrived, jv, skipped, host>>

\* MPI_Allgather returns when every rank has come to it.
LeaveGather(r) ==
    /\ pc[r] = "gather"
    /\ \A q \in Ranks : arrived[q] >= arrived[r]
    /\ Returns(r, HostOf[r])

\* The results of MPI_Get_processor_name and of MPI_Allgather are not looked at: the
\* lists are made of myname as it was, or of the zeros of calloc.
GatherFails(r) ==
    /\ pc[r] = "gather"
    /\ Returns(r, NoName)
-----------------------------------------------------------------------------
\* Mutant: a reading that misses values leaves valid as it was.
StillValid(r, got) ==
    LET n == readings[r] + 1
    IN  [total |-> IF "MemTotal" \in got THEN n ELSE midata[r].total,
         free |-> IF "MemFree" \in got THEN n ELSE midata[r].free,
         valid |-> midata[r].valid \/ got = {"MemTotal", "MemFree"}]

\* update_meminfo, of which two of the nine values are kept: the values found are
\* replaced, and valid tells whether all were.
Updated(r, got) ==
    LET n == readings[r] + 1
    IN  [total |-> IF "MemTotal" \in got THEN n ELSE midata[r].total,
         free |-> IF "MemFree" \in got THEN n ELSE midata[r].free,
         valid |-> got = {"MemTotal", "MemFree"}]

UpdateMeminfo(r, got) ==
    /\ readings' = [readings EXCEPT ![r] = @ + 1]
    /\ midata' = [midata EXCEPT ![r] = Updated(r, got)]
    /\ complete' = [complete EXCEPT ![r] =
                      IF got = {"MemTotal", "MemFree"} THEN @ \cup {readings[r] + 1} ELSE @]

HostCall(r) ==
    /\ pc[r] = "ready" /\ r \in HostRanks
    /\ Len(plan[r]) + hostCalls[r] < MaxCalls
    /\ hostCalls' = [hostCalls EXCEPT ![r] = @ + 1]
    /\ UNCHANGED <<haveMpi, plan, mpi>>

\* Bad flags, or uname fails.
NoHostSection(r) ==
    /\ HostCall(r)
    /\ UNCHANGED <<midata, readings, complete, memory, probed, shown>>

\* Mutant: a failure is tried again.
RememberedData(data) == IF data = "nothing" THEN "not yet" ELSE data

\* shell_done is set before the command is run: whatever came of it is kept, also
\* when it failed or its output was inconsistent.
Remembered(data) == data

\* get_gpu_data and get_numa_hardware, for those of the devices asked for
Probe(r, devices) ==
    \E data \in [Devices -> {"nothing", "data"}] :
        LET found == [x \in Devices |-> IF probed[r][x] = "not yet" THEN data[x]
                                        ELSE probed[r][x]]
        IN  /\ probed' = [probed EXCEPT ![r] =
                  [x \in Devices |-> IF x \in devices THEN Remembered(found[x]) ELSE @[x]]]
            /\ shown' = [shown EXCEPT ![r] =
                  [x \in Devices |-> IF x \in devices THEN @[x] \cup {found[x]} ELSE @[x]]]

ShowTotal(r, total) == memory' = [memory EXCEPT ![r] = [mem_total |-> total, usage |-> @.usage]]

\* The subsections that are always read anew (os, env, cpu) are left out.
AddHostSection(r) ==
    /\ HostCall(r)
    /\ \E devices \in SUBSET Devices : Probe(r, devices)
    /\ \/ ShowTotal(r, {}) /\ UNCHANGED <<midata, readings, complete>>
       \/ /\ midata[r].valid
          /\ ShowTotal(r, {midata[r].total})
          /\ UNCHANGED <<midata, readings, complete>>
       \/ /\ ~midata[r].valid
          /\ \E got \in SUBSET {"MemTotal", "MemFree"} : UpdateMeminfo(r, got)
          /\ ShowTotal(r, {IF midata[r].valid THEN midata[r].total ELSE 0}')

\* get_numa_hardware throws when a line of numactl is too short for it: there is no
\* section, but what was read before is kept, and the nodes will not be asked for again.
HostSectionThrows(r) ==
    /\ HostCall(r)
    /\ probed[r]["numa_hardware"] = "not yet"
    /\ \E gpu \in {"not yet", "nothing", "data"} :
          /\ gpu = probed[r]["gpu"] \/ probed[r]["gpu"] = "not yet"
          /\ probed' = [probed EXCEPT ![r] =
                [x \in Devices |-> IF x = "gpu" THEN gpu ELSE "nothing"]]
    /\ \/ UNCHANGED <<midata, readings, complete>>
       \/ /\ ~midata[r].valid
          /\ \E got \in SUBSET {"MemTotal", "MemFree"} : UpdateMeminfo(r, got)
    /\ UNCHANGED <<memory, shown>>

AddMemoryUsage(r) ==
    /\ HostCall(r)
    /\ \E got \in SUBSET {"MemTotal", "MemFree"} : UpdateMeminfo(r, got)
    /\ memory' = [memory EXCEPT ![r] =
          [mem_total |-> @.mem_total,
           usage |-> IF midata'[r].valid THEN {<<midata'[r].total, midata'[r].free>>} ELSE {}]]
    /\ UNCHANGED <<probed, shown>>
-----------------------------------------------------------------------------
AddMpiSection(r) ==
    NoSection(r) \/ FakeSection(r) \/ LocalSection(r) \/ EnterGather(r) \/ SkipGather(r)

Next ==
    \E r \in Ranks :
        \/ AddMpiSection(r) \/ LeaveGather(r) \/ GatherFails(r)
        \/ NoHostSection(r) \/ AddHostSection(r) \/ HostSectionThrows(r)
        \/ AddMemoryUsage(r)

\* A rank comes to its next planned call and returns from a gather that is done.
Fairness == \A r \in Ranks : WF_vars(AddMpiSection(r)) /\ WF_vars(LeaveGather(r))

Spec == Init /\ [][Next]_vars /\ Fairness
-----------------------------------------------------------------------------
Readings == [total : Nat, free : Nat, valid : BOOLEAN]
Memories == [mem_total : SUBSET Nat, usage : SUBSET (Nat \X Nat)]

TypeOK ==
    /\ haveMpi \in BOOLEAN
    /\ plan \in Plans
    /\ made \in [Ranks -> Nat] /\ \A r \in Ranks : made[r] <= Len(plan[r])
    /\ pc \in [Ranks -> {"ready", "gather"}]
    /\ arrived \in [Ranks -> Nat] /\ \A r \in Ranks : arrived[r] <= made[r]
    /\ jv \in [Ranks -> SUBSET Fields]
    /\ DOMAIN section = Ranks
    /\ \A r \in Ranks :
          /\ section[r].fields \subseteq Fields
          /\ section[r].rank_host \in Seq(Names)
          /\ Len(section[r].rank_host) \in {0, IF haveMpi THEN Size ELSE 1}
    /\ skipped \subseteq Ranks
    /\ midata \in [Ranks -> Readings]
    /\ readings \in [Ranks -> Nat]
    /\ complete \in [Ranks -> SUBSET Nat]
    /\ memory \in [Ranks -> Memories]
    /\ probed \in [Ranks -> [Devices -> {"not yet", "nothing", "data"}]]
    /\ shown \in [Ranks -> [Devices -> SUBSET {"nothing", "data"}]]
    /\ hostCalls \in [Ranks -> Nat]

\* No list of hosts has a name twice, in whatever order the ranks of a host are, and
\* also when names could not be gathered (builder.ipp 1465-1474).
HostsOnce ==
    \A r \in Ranks :
        LET list == section[r].hostlist
        IN  \A i, j \in DOMAIN list : list[i] = list[j] => i = j

\* The ranks within one gather are within the same add_mpi_section call, though
\* they may have asked for different lists, unless an error kept one out of an
\* earlier gather (builder.ipp 1432-1442): then the names of hosts of different
\* calls are put together.
SameCallGathered ==
    \A q, r \in Ranks :
        pc[q] = "gather" /\ pc[r] = "gather" /\ arrived[q] = arrived[r] =>
            made[q] = made[r] \/ skipped # {}

\* The values that a process shows of its memory are of one complete reading of
\* /proc/meminfo, although a reading that misses values leaves others of earlier
\* ones beside them (builder.ipp 375-413, 544-553, 591-597).
MemoryOfOneReading ==
    \A r \in Ranks :
        /\ \A u \in memory[r].usage : u[1] = u[2] /\ u[1] \in complete[r]
        /\ memory[r].mem_total \subseteq complete[r] \cup {0}

\* All host sections of a process show the same gpus and numa nodes, or none, also
\* after a failure (builder.ipp 167-171, 226-232): "constant" (builder.hpp 42).
HardwareConstant ==
    \A r \in Ranks, x \in Devices : \A u, v \in shown[r][x] : u = v

\* A rank that gathers returns, unless MPI reported an error to another, which then
\* does not come (builder.ipp 1432-1447): no rank waits for one that asked for
\* other fields or lists.
EveryGatherReturns ==
    \A r \in Ranks : pc[r] = "gather" ~> (pc[r] = "ready" \/ skipped # {})

\* "include "mpi_hostlist" subsection from the communicator" (builder.hpp 101): it
\* lists the host of every rank, unless MPI could not gather the names.
HostsListed ==
    \A r \in Ranks :
        LET list == section[r].hostlist
            listed == {list[i] : i \in DOMAIN list}
        IN  haveMpi /\ list # <<>> /\ NoName \notin listed =>
                listed = {HostOf[q] : q \in Ranks}
=============================================================================

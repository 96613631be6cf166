------------------------- MODULE RankSectionsProofs --------------------------
(***************************************************************************)
(* Proofs about RankSections for any number of ranks and any programs.     *)
(***************************************************************************)
EXTENDS RankSections, SetInduction, FiniteSetTheorems, TLAPS

(***************************************************************************)
(* The inductive invariant.  The values of a valid midata are of one       *)
(* reading; what a process has shown of a device is what it remembers; and *)
(* a rank that no error kept out has come to as many gathers as there are  *)
(* collective calls among those it has begun.                              *)
(***************************************************************************)

ValidIsComplete ==
    \A r \in Ranks :
        midata[r].valid => /\ midata[r].total = midata[r].free
                           /\ midata[r].total \in complete[r]

ShownIsRemembered ==
    \A r \in Ranks, x \in Devices : shown[r][x] \subseteq {probed[r][x]}

\* The collective calls among the first n of a rank.
Collective(r, n) == {i \in 1..n : Gathers(plan[r][i])}

InGather ==
    \A r \in Ranks :
        pc[r] = "gather" => haveMpi /\ made[r] # 0 /\ Gathers(plan[r][made[r]])

ArrivalsCounted ==
    haveMpi /\ skipped = {} =>
        \A r \in Ranks : arrived[r] = Cardinality(Collective(r, made[r]))

IInv ==
    /\ TypeOK
    /\ MemoryOfOneReading
    /\ ValidIsComplete
    /\ ShownIsRemembered
    /\ InGather
    /\ ArrivalsCounted

-----------------------------------------------------------------------------
LEMMA PlanType ==
    ASSUME TypeOK, NEW r \in Ranks
    PROVE  plan[r] \in Seq(SUBSET (Fields \cup Lists))
  BY RankAssumption DEF TypeOK

LEMMA InitIInv == Init => IInv
<1>. SUFFICES ASSUME Init PROVE IInv
  OBVIOUS
<1>1. /\ haveMpi \in BOOLEAN /\ plan \in Plans /\ skipped = {}
      /\ made = [r \in Ranks |-> 0] /\ arrived = [r \in Ranks |-> 0]
      /\ pc = [r \in Ranks |-> "ready"] /\ jv = [r \in Ranks |-> {}]
  BY DEF Init
<1>2. section = [r \in Ranks |-> [fields |-> {}, rank_host |-> <<>>, hostlist |-> <<>>]]
  BY DEF Init
<1>3. /\ midata = [r \in Ranks |-> [total |-> 0, free |-> 0, valid |-> FALSE]]
      /\ readings = [r \in Ranks |-> 0] /\ complete = [r \in Ranks |-> {}]
      /\ memory = [r \in Ranks |-> [mem_total |-> {}, usage |-> {}]]
      /\ hostCalls = [r \in Ranks |-> 0]
  BY DEF Init
<1>4. /\ probed = [r \in Ranks |-> [x \in Devices |-> "not yet"]]
      /\ shown = [r \in Ranks |-> [x \in Devices |-> {}]]
  BY DEF Init
<1>5. TypeOK
  <2>1. /\ made \in [Ranks -> Nat] /\ arrived \in [Ranks -> Nat]
        /\ \A r \in Ranks : arrived[r] <= made[r]
        /\ pc \in [Ranks -> {"ready", "gather"}] /\ jv \in [Ranks -> SUBSET Fields]
        /\ skipped \subseteq Ranks
    BY <1>1
  <2>2. ASSUME NEW r \in Ranks PROVE made[r] <= Len(plan[r])
    <3>1. plan[r] \in Seq(SUBSET (Fields \cup Lists))
      BY <1>1, RankAssumption
    <3>2. Len(plan[r]) \in Nat
      BY <3>1
    <3>. QED BY <1>1, <3>2
  <2>3. DOMAIN section = Ranks
    BY <1>2
  <2>4. ASSUME NEW r \in Ranks
        PROVE  /\ section[r].fields \subseteq Fields
               /\ section[r].rank_host \in Seq(Names)
               /\ Len(section[r].rank_host) = 0
    <3>1. section[r].fields = {} /\ section[r].rank_host = <<>>
      BY <1>2
    <3>2. <<>> \in Seq(Names) /\ Len(<<>>) = 0
      OBVIOUS
    <3>. QED BY <3>1, <3>2
  <2>5. /\ midata \in [Ranks -> Readings] /\ readings \in [Ranks -> Nat]
        /\ complete \in [Ranks -> SUBSET Nat] /\ memory \in [Ranks -> Memories]
        /\ hostCalls \in [Ranks -> Nat]
    BY <1>3 DEF Readings, Memories
  <2>6. /\ probed \in [Ranks -> [Devices -> {"not yet", "nothing", "data"}]]
        /\ shown \in [Ranks -> [Devices -> SUBSET {"nothing", "data"}]]
    BY <1>4
  <2>. QED BY <1>1, <2>1, <2>2, <2>3, <2>4, <2>5, <2>6 DEF TypeOK
<1>6. MemoryOfOneReading /\ ValidIsComplete
  BY <1>3 DEF MemoryOfOneReading, ValidIsComplete
<1>7. ShownIsRemembered
  BY <1>4 DEF ShownIsRemembered
<1>8. InGather
  BY <1>1 DEF InGather
<1>9. ArrivalsCounted
  <2>1. ASSUME NEW r \in Ranks PROVE arrived[r] = Cardinality(Collective(r, made[r]))
    <3>1. made[r] = 0 /\ arrived[r] = 0
      BY <1>1
    <3>2. Collective(r, made[r]) = {}
      BY <3>1 DEF Collective
    <3>. QED BY <3>1, <3>2, FS_EmptySet
  <2>. QED BY <2>1 DEF ArrivalsCounted
<1>. QED BY <1>5, <1>6, <1>7, <1>8, <1>9 DEF IInv

-----------------------------------------------------------------------------
(***************************************************************************)
(* The calls of MPI.                                                       *)
(***************************************************************************)

\* What one more call adds to the collective calls of a rank.
LEMMA OneMoreCall ==
    ASSUME TypeOK, NEW r \in Ranks, NEW n \in Nat
    PROVE  /\ IsFiniteSet(Collective(r, n))
           /\ Cardinality(Collective(r, n)) \in Nat
           /\ Cardinality(Collective(r, n + 1)) =
                 IF Gathers(plan[r][n + 1]) THEN Cardinality(Collective(r, n)) + 1
                 ELSE Cardinality(Collective(r, n))
<1>1. IsFiniteSet(1..n)
  BY FS_Interval
<1>2. Collective(r, n) \subseteq 1..n
  BY DEF Collective
<1>3. IsFiniteSet(Collective(r, n))
  BY <1>1, <1>2, FS_Subset
<1>4. Cardinality(Collective(r, n)) \in Nat
  BY <1>3, FS_CardinalityType
<1>5. CASE Gathers(plan[r][n + 1])
  <2>1. Collective(r, n + 1) = Collective(r, n) \cup {n + 1}
    BY <1>5 DEF Collective
  <2>2. n + 1 \notin Collective(r, n)
    BY DEF Collective
  <2>. QED BY <1>3, <1>4, <1>5, <2>1, <2>2, FS_AddElement
<1>6. CASE ~Gathers(plan[r][n + 1])
  <2>1. Collective(r, n + 1) = Collective(r, n)
    BY <1>6 DEF Collective
  <2>. QED BY <1>3, <1>4, <1>6, <2>1
<1>. QED BY <1>5, <1>6

\* An MPI call leaves the host sections alone.
LEMMA HostUnchanged ==
    ASSUME UNCHANGED host, MemoryOfOneReading, ValidIsComplete, ShownIsRemembered
    PROVE  MemoryOfOneReading' /\ ValidIsComplete' /\ ShownIsRemembered'
  BY DEF host, MemoryOfOneReading, ValidIsComplete, ShownIsRemembered

\* The types that a call of add_mpi_section keeps, whatever it does to the section.
LEMMA BeginTypes ==
    ASSUME TypeOK, NEW r \in Ranks, Begin(r)
    PROVE  /\ UNCHANGED <<haveMpi, plan, host>>
           /\ made[r] \in Nat /\ made'[r] = made[r] + 1
           /\ \A q \in Ranks : q # r => made'[q] = made[q]
           /\ made' \in [Ranks -> Nat]
           /\ \A q \in Ranks : made'[q] <= Len(plan[q])
           /\ made'[r] \in DOMAIN plan[r]
           /\ Flags(r)' = plan[r][made[r] + 1]
           /\ Flags(r)' \subseteq Fields \cup Lists
           /\ pc[r] = "ready"
<1>1. plan[r] \in Seq(SUBSET (Fields \cup Lists))
  BY PlanType
<1>2. /\ UNCHANGED <<haveMpi, plan, host>>
      /\ pc[r] = "ready" /\ made[r] < Len(plan[r])
      /\ made' = [made EXCEPT ![r] = @ + 1]
  BY DEF Begin
<1>3. made \in [Ranks -> Nat] /\ \A q \in Ranks : made[q] <= Len(plan[q])
  BY DEF TypeOK
<1>4. /\ made[r] \in Nat /\ made'[r] = made[r] + 1
      /\ \A q \in Ranks : q # r => made'[q] = made[q]
      /\ made' \in [Ranks -> Nat]
  BY <1>2, <1>3
<1>5. Len(plan[r]) \in Nat
  BY <1>1
<1>6. \A q \in Ranks : made'[q] <= Len(plan[q])
  BY <1>2, <1>3, <1>4, <1>5
<1>7. made'[r] \in DOMAIN plan[r]
  BY <1>1, <1>2, <1>4, <1>5
<1>8. Flags(r)' = plan[r][made[r] + 1]
  BY <1>2, <1>4 DEF Flags
<1>9. Flags(r)' \subseteq Fields \cup Lists
  BY <1>1, <1>4, <1>7, <1>8
<1>. QED BY <1>2, <1>4, <1>6, <1>7, <1>8, <1>9

\* A section with the host of the caller once for each rank, or once without MPI.
LEMMA SetsType ==
    ASSUME TypeOK, NEW r \in Ranks, NEW fields \in SUBSET Fields, NEW flags,
           NEW rankHost \in Seq(Names), NEW hostlist,
           Sets(r, fields, flags, rankHost, hostlist), haveMpi' = haveMpi,
           Len(rankHost) \in {0, IF haveMpi THEN Size ELSE 1}
    PROVE  /\ DOMAIN section' = Ranks
           /\ \A q \in Ranks :
                 /\ section'[q].fields \subseteq Fields
                 /\ section'[q].rank_host \in Seq(Names)
                 /\ Len(section'[q].rank_host) \in {0, IF haveMpi' THEN Size ELSE 1}
<1>1. DOMAIN section = Ranks
  BY DEF TypeOK
<1>2. DOMAIN section' = Ranks
  BY <1>1 DEF Sets
<1>3. ASSUME NEW q \in Ranks, q # r
      PROVE  section'[q] = section[q]
  BY <1>1, <1>3 DEF Sets
<1>4. /\ section'[r].fields = fields
      /\ section'[r].rank_host = IF "mpi_rank_host" \in flags THEN rankHost ELSE <<>>
  BY <1>1 DEF Sets
<1>5. <<>> \in Seq(Names) /\ Len(<<>>) = 0
  OBVIOUS
<1>6. /\ section'[r].fields \subseteq Fields
      /\ section'[r].rank_host \in Seq(Names)
      /\ Len(section'[r].rank_host) \in {0, IF haveMpi' THEN Size ELSE 1}
  BY <1>4, <1>5
<1>7. ASSUME NEW q \in Ranks
      PROVE  /\ section'[q].fields \subseteq Fields
             /\ section'[q].rank_host \in Seq(Names)
             /\ Len(section'[q].rank_host) \in {0, IF haveMpi' THEN Size ELSE 1}
  <2>1. CASE q = r
    BY <1>6, <2>1
  <2>2. CASE q # r
    BY <1>3, <2>2 DEF TypeOK
  <2>. QED BY <2>1, <2>2
<1>. QED BY <1>2, <1>7

LEMMA NamesType ==
    ASSUME NEW name \in Names
    PROVE  /\ Size \in Nat \ {0}
           /\ <<name>> \in Seq(Names) /\ Len(<<name>>) = 1
           /\ RankHosts(name) \in Seq(Names) /\ Len(RankHosts(name)) = Size
<1>1. Size \in Nat \ {0}
  BY RankAssumption
<1>2. <<name>> \in Seq(Names) /\ Len(<<name>>) = 1
  OBVIOUS
<1>3. RankHosts(name) \in [1..Size -> Names]
  BY <1>1 DEF RankHosts
<1>4. RankHosts(name) \in Seq(Names)
  BY <1>1, <1>3
<1>5. Len(RankHosts(name)) = Size
  BY <1>1, <1>3, <1>4
<1>. QED BY <1>1, <1>2, <1>4, <1>5

\* The names that a rank may find for its host.
LEMMA OwnNames ==
    ASSUME NEW r \in Ranks
    PROVE  HostOf[r] \in Names /\ NoName \in Names
  BY RankAssumption DEF Names

\* The types of a step of MPI, from those of the variables it may change.
LEMMA MpiTypes ==
    ASSUME TypeOK, UNCHANGED <<haveMpi, plan, host>>,
           made' \in [Ranks -> Nat], \A q \in Ranks : made'[q] <= Len(plan[q]),
           pc' \in [Ranks -> {"ready", "gather"}], arrived' \in [Ranks -> Nat],
           \A q \in Ranks : arrived'[q] <= made'[q],
           jv' \in [Ranks -> SUBSET Fields], skipped' \subseteq Ranks,
           DOMAIN section' = Ranks,
           \A q \in Ranks :
              /\ section'[q].fields \subseteq Fields
              /\ section'[q].rank_host \in Seq(Names)
              /\ Len(section'[q].rank_host) \in {0, IF haveMpi' THEN Size ELSE 1}
    PROVE  TypeOK'
<1>1. /\ midata \in [Ranks -> Readings] /\ readings \in [Ranks -> Nat]
      /\ complete \in [Ranks -> SUBSET Nat] /\ memory \in [Ranks -> Memories]
      /\ probed \in [Ranks -> [Devices -> {"not yet", "nothing", "data"}]]
      /\ shown \in [Ranks -> [Devices -> SUBSET {"nothing", "data"}]]
      /\ hostCalls \in [Ranks -> Nat] /\ haveMpi \in BOOLEAN /\ plan \in Plans
  BY DEF TypeOK
<1>2. /\ midata' \in [Ranks -> Readings] /\ readings' \in [Ranks -> Nat]
      /\ complete' \in [Ranks -> SUBSET Nat] /\ memory' \in [Ranks -> Memories]
      /\ probed' \in [Ranks -> [Devices -> {"not yet", "nothing", "data"}]]
      /\ shown' \in [Ranks -> [Devices -> SUBSET {"nothing", "data"}]]
      /\ hostCalls' \in [Ranks -> Nat] /\ haveMpi' \in BOOLEAN /\ plan' \in Plans
      /\ plan' = plan
  BY <1>1 DEF host
<1>. QED BY <1>2 DEF TypeOK

\* The section of a rank that calls without MPI_Allgather, or is kept out of it.
LEMMA LeftAlone ==
    ASSUME TypeOK, UNCHANGED section, haveMpi' = haveMpi
    PROVE  /\ DOMAIN section' = Ranks
           /\ \A q \in Ranks :
                 /\ section'[q].fields \subseteq Fields
                 /\ section'[q].rank_host \in Seq(Names)
                 /\ Len(section'[q].rank_host) \in {0, IF haveMpi' THEN Size ELSE 1}
  BY DEF TypeOK

\* A call that comes to no gather leaves the counts right: it is not collective, or
\* there is no MPI, or an error kept the rank out.
LEMMA NotArriving ==
    ASSUME TypeOK, ArrivalsCounted, NEW r \in Ranks, Begin(r), UNCHANGED arrived,
           skipped \subseteq skipped',
           Gathers(Flags(r)') => ~haveMpi \/ skipped' # {}
    PROVE  ArrivalsCounted' /\ \A q \in Ranks : arrived'[q] <= made'[q]
<1>1. /\ UNCHANGED <<haveMpi, plan>> /\ made[r] \in Nat /\ made'[r] = made[r] + 1
      /\ \A q \in Ranks : q # r => made'[q] = made[q]
      /\ Flags(r)' = plan[r][made[r] + 1]
  BY BeginTypes
<1>2. \A q \in Ranks : arrived[q] \in Nat /\ arrived[q] <= made[q]
  BY DEF TypeOK
<1>3. \A q \in Ranks : arrived'[q] <= made'[q]
  BY <1>1, <1>2
<1>4. ASSUME haveMpi', skipped' = {}, NEW q \in Ranks
      PROVE  arrived'[q] = Cardinality(Collective(q, made[q])')
  <2>1. haveMpi /\ skipped = {}
    BY <1>1, <1>4
  <2>2. arrived[q] = Cardinality(Collective(q, made[q]))
    BY <2>1 DEF ArrivalsCounted
  <2>3. Collective(q, made[q])' = Collective(q, made'[q])
    BY <1>1 DEF Collective, Gathers
  <2>4. CASE q = r
    <3>1. ~Gathers(plan[r][made[r] + 1])
      BY <1>1, <1>4, <2>1
    <3>2. Cardinality(Collective(r, made[r] + 1)) = Cardinality(Collective(r, made[r]))
      BY <1>1, <3>1, OneMoreCall
    <3>. QED BY <1>1, <2>2, <2>3, <2>4, <3>2
  <2>5. CASE q # r
    BY <1>1, <2>2, <2>3, <2>5
  <2>. QED BY <2>4, <2>5
<1>. QED BY <1>3, <1>4 DEF ArrivalsCounted

\* A rank that begins a call was in no gather.
LEMMA BeginNotInGather ==
    ASSUME TypeOK, InGather, NEW r \in Ranks, Begin(r), UNCHANGED pc
    PROVE  InGather'
<1>1. /\ UNCHANGED <<haveMpi, plan>> /\ pc[r] = "ready"
      /\ \A q \in Ranks : q # r => made'[q] = made[q]
  BY BeginTypes
<1>2. ASSUME NEW q \in Ranks, pc'[q] = "gather"
      PROVE  haveMpi' /\ made'[q] # 0 /\ Gathers(plan'[q][made'[q]])
  <2>1. q # r /\ pc[q] = "gather"
    BY <1>1, <1>2
  <2>2. haveMpi /\ made[q] # 0 /\ Gathers(plan[q][made[q]])
    BY <2>1 DEF InGather
  <2>. QED BY <1>1, <2>1, <2>2
<1>. QED BY <1>2 DEF InGather, Gathers

LEMMA NoSectionStep ==
    ASSUME IInv, NEW r \in Ranks, NoSection(r)
    PROVE  IInv'
<1>1. /\ Begin(r) /\ Flags(r)' = {} /\ UNCHANGED <<pc, arrived, jv, section, skipped>>
  BY DEF NoSection
<1>2. /\ TypeOK /\ MemoryOfOneReading /\ ValidIsComplete /\ ShownIsRemembered
      /\ InGather /\ ArrivalsCounted
  BY DEF IInv
<1>3. /\ UNCHANGED <<haveMpi, plan, host>> /\ made' \in [Ranks -> Nat]
      /\ \A q \in Ranks : made'[q] <= Len(plan[q])
  BY <1>1, <1>2, BeginTypes
<1>4. ~Gathers(Flags(r)')
  BY <1>1 DEF Gathers
<1>5. ArrivalsCounted' /\ \A q \in Ranks : arrived'[q] <= made'[q]
  BY <1>1, <1>2, <1>4, NotArriving
<1>6. InGather'
  BY <1>1, <1>2, BeginNotInGather
<1>7. MemoryOfOneReading' /\ ValidIsComplete' /\ ShownIsRemembered'
  BY <1>2, <1>3, HostUnchanged
<1>8. /\ pc' \in [Ranks -> {"ready", "gather"}] /\ arrived' \in [Ranks -> Nat]
      /\ jv' \in [Ranks -> SUBSET Fields] /\ skipped' \subseteq Ranks
  BY <1>1, <1>2 DEF TypeOK
<1>9. TypeOK'
  BY <1>1, <1>2, <1>3, <1>5, <1>8, LeftAlone, MpiTypes
<1>. QED BY <1>5, <1>6, <1>7, <1>9 DEF IInv

LEMMA FakeSectionStep ==
    ASSUME IInv, NEW r \in Ranks, FakeSection(r)
    PROVE  IInv'
<1>1. /\ Begin(r) /\ ~haveMpi /\ UNCHANGED <<pc, arrived, jv, skipped>>
      /\ \E name \in Names :
            Sets(r, Flags(r)' \cap Fields, Flags(r)', <<name>>, <<name>>)
  BY OwnNames DEF FakeSection
<1>2. /\ TypeOK /\ MemoryOfOneReading /\ ValidIsComplete /\ ShownIsRemembered
      /\ InGather /\ ArrivalsCounted
  BY DEF IInv
<1>3. /\ UNCHANGED <<haveMpi, plan, host>> /\ made' \in [Ranks -> Nat]
      /\ \A q \in Ranks : made'[q] <= Len(plan[q])
  BY <1>1, <1>2, BeginTypes
<1>4. ArrivalsCounted' /\ \A q \in Ranks : arrived'[q] <= made'[q]
  BY <1>1, <1>2, NotArriving
<1>5. InGather'
  BY <1>1, <1>2, BeginNotInGather
<1>6. MemoryOfOneReading' /\ ValidIsComplete' /\ ShownIsRemembered'
  BY <1>2, <1>3, HostUnchanged
<1>7. /\ pc' \in [Ranks -> {"ready", "gather"}] /\ arrived' \in [Ranks -> Nat]
      /\ jv' \in [Ranks -> SUBSET Fields] /\ skipped' \subseteq Ranks
  BY <1>1, <1>2 DEF TypeOK
<1>8. PICK name \in Names :
            Sets(r, Flags(r)' \cap Fields, Flags(r)', <<name>>, <<name>>)
  BY <1>1
<1>12. <<name>> \in Seq(Names) /\ Len(<<name>>) \in {0, IF haveMpi THEN Size ELSE 1}
  BY <1>1, NamesType
<1>9. Flags(r)' \cap Fields \in SUBSET Fields
  OBVIOUS
<1>10. /\ DOMAIN section' = Ranks
       /\ \A q \in Ranks :
             /\ section'[q].fields \subseteq Fields
             /\ section'[q].rank_host \in Seq(Names)
             /\ Len(section'[q].rank_host) \in {0, IF haveMpi' THEN Size ELSE 1}
  BY <1>2, <1>3, <1>8, <1>9, <1>12, SetsType
<1>11. TypeOK'
  BY <1>2, <1>3, <1>4, <1>7, <1>10, MpiTypes
<1>. QED BY <1>4, <1>5, <1>6, <1>11 DEF IInv

\* A section of what a rank got itself, without lists.
LEMMA OwnSectionType ==
    ASSUME TypeOK, NEW r \in Ranks, NEW got \in SUBSET Fields,
           Sets(r, got, {}, <<>>, <<>>), haveMpi' = haveMpi
    PROVE  /\ DOMAIN section' = Ranks
           /\ \A q \in Ranks :
                 /\ section'[q].fields \subseteq Fields
                 /\ section'[q].rank_host \in Seq(Names)
                 /\ Len(section'[q].rank_host) \in {0, IF haveMpi' THEN Size ELSE 1}
<1>1. <<>> \in Seq(Names) /\ Len(<<>>) \in {0, IF haveMpi THEN Size ELSE 1}
  OBVIOUS
<1>. QED BY <1>1, SetsType

LEMMA LocalSectionStep ==
    ASSUME IInv, NEW r \in Ranks, LocalSection(r)
    PROVE  IInv'
<1>1. /\ Begin(r) /\ ~Gathers(Flags(r)') /\ UNCHANGED <<pc, arrived, jv, skipped>>
      /\ \E got \in SUBSET (Flags(r)' \cap Fields) : Sets(r, got, {}, <<>>, <<>>)
  BY DEF LocalSection
<1>2. /\ TypeOK /\ MemoryOfOneReading /\ ValidIsComplete /\ ShownIsRemembered
      /\ InGather /\ ArrivalsCounted
  BY DEF IInv
<1>3. /\ UNCHANGED <<haveMpi, plan, host>> /\ made' \in [Ranks -> Nat]
      /\ \A q \in Ranks : made'[q] <= Len(plan[q])
  BY <1>1, <1>2, BeginTypes
<1>4. ArrivalsCounted' /\ \A q \in Ranks : arrived'[q] <= made'[q]
  BY <1>1, <1>2, NotArriving
<1>5. InGather'
  BY <1>1, <1>2, BeginNotInGather
<1>6. MemoryOfOneReading' /\ ValidIsComplete' /\ ShownIsRemembered'
  BY <1>2, <1>3, HostUnchanged
<1>7. /\ pc' \in [Ranks -> {"ready", "gather"}] /\ arrived' \in [Ranks -> Nat]
      /\ jv' \in [Ranks -> SUBSET Fields] /\ skipped' \subseteq Ranks
  BY <1>1, <1>2 DEF TypeOK
<1>8. PICK got \in SUBSET Fields : Sets(r, got, {}, <<>>, <<>>)
  BY <1>1
<1>9. TypeOK'
  BY <1>2, <1>3, <1>4, <1>7, <1>8, OwnSectionType, MpiTypes
<1>. QED BY <1>4, <1>5, <1>6, <1>9 DEF IInv

LEMMA SkipGatherStep ==
    ASSUME IInv, NEW r \in Ranks, SkipGather(r)
    PROVE  IInv'
<1>1. /\ haveMpi /\ Begin(r) /\ skipped' = skipped \cup {r}
      /\ UNCHANGED <<pc, arrived, jv>>
      /\ \E got \in SUBSET (Flags(r)' \cap Fields) :
            \/ Sets(r, got, {}, <<>>, <<>>)
            \/ Sets(r, got, Flags(r)', RankHosts(NoName), HostList(RankHosts(NoName)))
  BY DEF SkipGather
<1>2. /\ TypeOK /\ MemoryOfOneReading /\ ValidIsComplete /\ ShownIsRemembered
      /\ InGather /\ ArrivalsCounted
  BY DEF IInv
<1>3. /\ UNCHANGED <<haveMpi, plan, host>> /\ made' \in [Ranks -> Nat]
      /\ \A q \in Ranks : made'[q] <= Len(plan[q])
  BY <1>1, <1>2, BeginTypes
<1>4. ArrivalsCounted' /\ \A q \in Ranks : arrived'[q] <= made'[q]
  BY <1>1, <1>2, NotArriving
<1>5. InGather'
  BY <1>1, <1>2, BeginNotInGather
<1>6. MemoryOfOneReading' /\ ValidIsComplete' /\ ShownIsRemembered'
  BY <1>2, <1>3, HostUnchanged
<1>7. /\ pc' \in [Ranks -> {"ready", "gather"}] /\ arrived' \in [Ranks -> Nat]
      /\ jv' \in [Ranks -> SUBSET Fields] /\ skipped' \subseteq Ranks
  BY <1>1, <1>2 DEF TypeOK
<1>8. PICK got \in SUBSET Fields :
            \/ Sets(r, got, {}, <<>>, <<>>)
            \/ Sets(r, got, Flags(r)', RankHosts(NoName), HostList(RankHosts(NoName)))
  BY <1>1
<1>9. CASE Sets(r, got, {}, <<>>, <<>>)
  BY <1>2, <1>3, <1>4, <1>5, <1>6, <1>7, <1>9, OwnSectionType, MpiTypes DEF IInv
<1>10. CASE Sets(r, got, Flags(r)', RankHosts(NoName), HostList(RankHosts(NoName)))
  <2>1. /\ RankHosts(NoName) \in Seq(Names)
        /\ Len(RankHosts(NoName)) \in {0, IF haveMpi THEN Size ELSE 1}
    BY <1>1, OwnNames, NamesType
  <2>2. /\ DOMAIN section' = Ranks
        /\ \A q \in Ranks :
              /\ section'[q].fields \subseteq Fields
              /\ section'[q].rank_host \in Seq(Names)
              /\ Len(section'[q].rank_host) \in {0, IF haveMpi' THEN Size ELSE 1}
    BY <1>2, <1>3, <1>10, <2>1, SetsType
  <2>3. TypeOK'
    BY <1>2, <1>3, <1>4, <1>7, <2>2, MpiTypes
  <2>. QED
    BY <1>4, <1>5, <1>6, <2>3 DEF IInv
<1>. QED BY <1>8, <1>9, <1>10

LEMMA EnterGatherStep ==
    ASSUME IInv, NEW r \in Ranks, EnterGather(r)
    PROVE  IInv'
<1>1. /\ haveMpi /\ Begin(r) /\ Gathers(Flags(r)')
      /\ pc' = [pc EXCEPT ![r] = "gather"]
      /\ arrived' = [arrived EXCEPT ![r] = @ + 1]
      /\ \E got \in SUBSET (Flags(r)' \cap Fields) : jv' = [jv EXCEPT ![r] = got]
      /\ UNCHANGED <<section, skipped>>
  BY DEF EnterGather
<1>2. /\ TypeOK /\ MemoryOfOneReading /\ ValidIsComplete /\ ShownIsRemembered
      /\ InGather /\ ArrivalsCounted
  BY DEF IInv
<1>3. /\ UNCHANGED <<haveMpi, plan, host>> /\ made' \in [Ranks -> Nat]
      /\ \A q \in Ranks : made'[q] <= Len(plan[q])
  BY <1>1, <1>2, BeginTypes
<1>4. /\ made[r] \in Nat /\ made'[r] = made[r] + 1
      /\ \A q \in Ranks : q # r => made'[q] = made[q]
      /\ Flags(r)' = plan[r][made[r] + 1]
  BY <1>1, <1>2, BeginTypes
<1>5. /\ arrived \in [Ranks -> Nat] /\ pc \in [Ranks -> {"ready", "gather"}]
      /\ jv \in [Ranks -> SUBSET Fields] /\ skipped \subseteq Ranks
      /\ \A q \in Ranks : made[q] \in Nat /\ arrived[q] <= made[q]
  BY <1>2 DEF TypeOK
<1>6. /\ arrived' \in [Ranks -> Nat] /\ pc' \in [Ranks -> {"ready", "gather"}]
      /\ skipped' \subseteq Ranks /\ arrived'[r] = arrived[r] + 1
      /\ \A q \in Ranks : q # r => arrived'[q] = arrived[q] /\ pc'[q] = pc[q]
  BY <1>1, <1>5
<1>7. jv' \in [Ranks -> SUBSET Fields]
  BY <1>1, <1>5
<1>8. \A q \in Ranks : arrived'[q] <= made'[q]
  BY <1>4, <1>5, <1>6
<1>9. TypeOK'
  BY <1>1, <1>2, <1>3, <1>6, <1>7, <1>8, LeftAlone, MpiTypes
<1>10. MemoryOfOneReading' /\ ValidIsComplete' /\ ShownIsRemembered'
  BY <1>2, <1>3, HostUnchanged
<1>11. InGather'
  <2>1. ASSUME NEW q \in Ranks, pc'[q] = "gather"
        PROVE  haveMpi' /\ made'[q] # 0 /\ Gathers(plan'[q][made'[q]])
    <3>1. CASE q = r
      BY <1>1, <1>3, <1>4, <3>1
    <3>2. CASE q # r
      <4>1. pc[q] = "gather"
        BY <1>6, <2>1, <3>2
      <4>2. made[q] # 0 /\ Gathers(plan[q][made[q]])
        BY <1>2, <4>1 DEF InGather
      <4>. QED BY <1>1, <1>3, <1>4, <3>2, <4>2
    <3>. QED BY <3>1, <3>2
  <2>. QED BY <2>1 DEF InGather, Gathers
<1>12. ArrivalsCounted'
  <2>1. ASSUME skipped' = {}, NEW q \in Ranks
        PROVE  arrived'[q] = Cardinality(Collective(q, made[q])')
    <3>1. arrived[q] = Cardinality(Collective(q, made[q]))
      BY <1>1, <1>2, <2>1 DEF ArrivalsCounted
    <3>2. Collective(q, made[q])' = Collective(q, made'[q])
      BY <1>3 DEF Collective, Gathers
    <3>3. CASE q = r
      <4>1. Cardinality(Collective(r, made[r] + 1)) = Cardinality(Collective(r, made[r])) + 1
        BY <1>1, <1>2, <1>4, OneMoreCall
      <4>. QED BY <1>4, <1>6, <3>1, <3>2, <3>3, <4>1
    <3>4. CASE q # r
      BY <1>4, <1>6, <3>1, <3>2, <3>4
    <3>. QED BY <3>3, <3>4
  <2>. QED BY <2>1 DEF ArrivalsCounted
<1>. QED BY <1>9, <1>10, <1>11, <1>12 DEF IInv

\* A gather that a rank returns from, with its own name or with none.
LEMMA ReturnsStep ==
    ASSUME IInv, NEW r \in Ranks, pc[r] = "gather", NEW name \in Names, Returns(r, name)
    PROVE  IInv'
<1>1. /\ pc[r] = "gather" /\ pc' = [pc EXCEPT ![r] = "ready"]
      /\ Sets(r, jv[r], Flags(r), RankHosts(name), HostList(RankHosts(name)))
      /\ UNCHANGED <<haveMpi, plan, made, arrived, jv, skipped, host>>
  BY DEF Returns
<1>2. /\ TypeOK /\ MemoryOfOneReading /\ ValidIsComplete /\ ShownIsRemembered
      /\ InGather /\ ArrivalsCounted
  BY DEF IInv
<1>3. /\ made \in [Ranks -> Nat] /\ \A q \in Ranks : made[q] <= Len(plan[q])
      /\ pc \in [Ranks -> {"ready", "gather"}] /\ arrived \in [Ranks -> Nat]
      /\ \A q \in Ranks : arrived[q] <= made[q]
      /\ jv \in [Ranks -> SUBSET Fields] /\ skipped \subseteq Ranks
  BY <1>2 DEF TypeOK
<1>4. haveMpi
  BY <1>1, <1>2 DEF InGather
<1>5. /\ RankHosts(name) \in Seq(Names)
      /\ Len(RankHosts(name)) \in {0, IF haveMpi THEN Size ELSE 1}
  BY <1>4, NamesType
<1>6. jv[r] \in SUBSET Fields
  BY <1>3
<1>7. /\ DOMAIN section' = Ranks
      /\ \A q \in Ranks :
            /\ section'[q].fields \subseteq Fields
            /\ section'[q].rank_host \in Seq(Names)
            /\ Len(section'[q].rank_host) \in {0, IF haveMpi' THEN Size ELSE 1}
  BY <1>1, <1>2, <1>5, <1>6, SetsType
<1>8. /\ made' \in [Ranks -> Nat] /\ \A q \in Ranks : made'[q] <= Len(plan[q])
      /\ pc' \in [Ranks -> {"ready", "gather"}] /\ arrived' \in [Ranks -> Nat]
      /\ \A q \in Ranks : arrived'[q] <= made'[q]
      /\ jv' \in [Ranks -> SUBSET Fields] /\ skipped' \subseteq Ranks
  BY <1>1, <1>3
<1>9. TypeOK'
  BY <1>1, <1>2, <1>7, <1>8, MpiTypes
<1>10. MemoryOfOneReading' /\ ValidIsComplete' /\ ShownIsRemembered'
  BY <1>1, <1>2, HostUnchanged
<1>11. \A q \in Ranks : pc'[q] = "gather" => pc[q] = "gather"
  BY <1>1, <1>3
<1>12. InGather'
  BY <1>1, <1>2, <1>11 DEF InGather, Gathers
<1>13. \A q \in Ranks : Collective(q, made[q])' = Collective(q, made[q])
  BY <1>1 DEF Collective, Gathers
<1>14. ArrivalsCounted'
  BY <1>1, <1>2, <1>13 DEF ArrivalsCounted
<1>. QED BY <1>9, <1>10, <1>12, <1>14 DEF IInv

-----------------------------------------------------------------------------
(***************************************************************************)
(* The host and memory sections.                                           *)
(***************************************************************************)

LEMMA HostCallKeeps ==
    ASSUME TypeOK, InGather, ArrivalsCounted, NEW r \in Ranks, HostCall(r)
    PROVE  /\ InGather' /\ ArrivalsCounted' /\ UNCHANGED <<haveMpi, plan, mpi>>
           /\ hostCalls' \in [Ranks -> Nat]
<1>1. UNCHANGED <<haveMpi, plan, mpi>> /\ hostCalls' = [hostCalls EXCEPT ![r] = @ + 1]
  BY DEF HostCall
<1>2. UNCHANGED <<haveMpi, plan, made, pc, arrived, skipped>>
  BY <1>1 DEF mpi
<1>3. hostCalls' \in [Ranks -> Nat]
  <2>1. hostCalls \in [Ranks -> Nat]
    BY DEF TypeOK
  <2>. QED BY <1>1, <2>1
<1>4. InGather'
  BY <1>2 DEF InGather, Gathers
<1>5. \A q \in Ranks : Collective(q, made[q])' = Collective(q, made[q])
  BY <1>2 DEF Collective, Gathers
<1>6. ArrivalsCounted'
  BY <1>2, <1>5 DEF ArrivalsCounted
<1>. QED BY <1>1, <1>3, <1>4, <1>6

LEMMA HostTypes ==
    ASSUME TypeOK, UNCHANGED <<haveMpi, plan, mpi>>,
           midata' \in [Ranks -> Readings], readings' \in [Ranks -> Nat],
           complete' \in [Ranks -> SUBSET Nat], memory' \in [Ranks -> Memories],
           probed' \in [Ranks -> [Devices -> {"not yet", "nothing", "data"}]],
           shown' \in [Ranks -> [Devices -> SUBSET {"nothing", "data"}]],
           hostCalls' \in [Ranks -> Nat]
    PROVE  TypeOK'
<1>1. UNCHANGED <<haveMpi, plan, made, pc, arrived, jv, section, skipped>>
  BY DEF mpi
<1>2. /\ haveMpi \in BOOLEAN /\ plan \in Plans
      /\ made \in [Ranks -> Nat] /\ \A q \in Ranks : made[q] <= Len(plan[q])
      /\ pc \in [Ranks -> {"ready", "gather"}]
      /\ arrived \in [Ranks -> Nat] /\ \A q \in Ranks : arrived[q] <= made[q]
      /\ jv \in [Ranks -> SUBSET Fields] /\ skipped \subseteq Ranks
      /\ DOMAIN section = Ranks
      /\ \A q \in Ranks :
            /\ section[q].fields \subseteq Fields
            /\ section[q].rank_host \in Seq(Names)
            /\ Len(section[q].rank_host) \in {0, IF haveMpi THEN Size ELSE 1}
  BY DEF TypeOK
<1>3. /\ haveMpi' \in BOOLEAN /\ plan' \in Plans
      /\ made' \in [Ranks -> Nat] /\ \A q \in Ranks : made'[q] <= Len(plan'[q])
      /\ pc' \in [Ranks -> {"ready", "gather"}]
      /\ arrived' \in [Ranks -> Nat] /\ \A q \in Ranks : arrived'[q] <= made'[q]
      /\ jv' \in [Ranks -> SUBSET Fields] /\ skipped' \subseteq Ranks
  BY <1>1, <1>2
<1>4. /\ DOMAIN section' = Ranks
      /\ \A q \in Ranks :
            /\ section'[q].fields \subseteq Fields
            /\ section'[q].rank_host \in Seq(Names)
            /\ Len(section'[q].rank_host) \in {0, IF haveMpi' THEN Size ELSE 1}
  BY <1>1, LeftAlone
<1>. QED BY <1>3, <1>4, Zenon DEF TypeOK

LEMMA NoHostSectionStep ==
    ASSUME IInv, NEW r \in Ranks, NoHostSection(r)
    PROVE  IInv'
<1>1. HostCall(r) /\ UNCHANGED <<midata, readings, complete, memory, probed, shown>>
  BY DEF NoHostSection
<1>2. /\ TypeOK /\ MemoryOfOneReading /\ ValidIsComplete /\ ShownIsRemembered
      /\ InGather /\ ArrivalsCounted
  BY DEF IInv
<1>3. InGather' /\ ArrivalsCounted' /\ UNCHANGED <<haveMpi, plan, mpi>> /\ hostCalls' \in [Ranks -> Nat]
  BY <1>1, <1>2, HostCallKeeps
<1>4. /\ midata \in [Ranks -> Readings] /\ readings \in [Ranks -> Nat]
      /\ complete \in [Ranks -> SUBSET Nat] /\ memory \in [Ranks -> Memories]
      /\ probed \in [Ranks -> [Devices -> {"not yet", "nothing", "data"}]]
      /\ shown \in [Ranks -> [Devices -> SUBSET {"nothing", "data"}]]
  BY <1>2 DEF TypeOK
<1>5. TypeOK'
  BY <1>1, <1>2, <1>3, <1>4, HostTypes
<1>6. MemoryOfOneReading' /\ ValidIsComplete' /\ ShownIsRemembered'
  BY <1>1, <1>2 DEF MemoryOfOneReading, ValidIsComplete, ShownIsRemembered
<1>. QED BY <1>3, <1>5, <1>6 DEF IInv

\* A reading of /proc/meminfo: valid afterwards means that it was complete.
LEMMA UpdateMeminfoKeeps ==
    ASSUME TypeOK, ValidIsComplete, NEW r \in Ranks,
           NEW got \in SUBSET {"MemTotal", "MemFree"}, UpdateMeminfo(r, got)
    PROVE  /\ midata' \in [Ranks -> Readings] /\ readings' \in [Ranks -> Nat]
           /\ complete' \in [Ranks -> SUBSET Nat]
           /\ ValidIsComplete'
           /\ \A q \in Ranks : complete[q] \subseteq complete'[q]
<1>1. /\ midata \in [Ranks -> Readings] /\ readings \in [Ranks -> Nat]
      /\ complete \in [Ranks -> SUBSET Nat]
  BY DEF TypeOK
<1>2. /\ readings' = [readings EXCEPT ![r] = @ + 1]
      /\ midata' = [midata EXCEPT ![r] = Updated(r, got)]
      /\ complete' = [complete EXCEPT ![r] =
                        IF got = {"MemTotal", "MemFree"} THEN @ \cup {readings[r] + 1} ELSE @]
  BY DEF UpdateMeminfo
<1>3. /\ midata[r].total \in Nat /\ midata[r].free \in Nat /\ readings[r] \in Nat
      /\ midata[r] \in Readings
  BY <1>1 DEF Readings
<1>4. Updated(r, got) \in Readings
  BY <1>3 DEF Updated, Readings
<1>5. readings' \in [Ranks -> Nat] /\ midata' \in [Ranks -> Readings]
  BY <1>1, <1>2, <1>4
<1>6. complete' \in [Ranks -> SUBSET Nat] /\ \A q \in Ranks : complete[q] \subseteq complete'[q]
  BY <1>1, <1>2, <1>3
<1>7. ASSUME NEW q \in Ranks, midata'[q].valid
      PROVE  midata'[q].total = midata'[q].free /\ midata'[q].total \in complete'[q]
  <2>1. CASE q = r
    <3>1. midata'[r] = Updated(r, got)
      BY <1>1, <1>2
    <3>2. got = {"MemTotal", "MemFree"}
      <4>1. Updated(r, got).valid = (got = {"MemTotal", "MemFree"})
        BY DEF Updated
      <4>. QED BY <1>7, <2>1, <3>1, <4>1
    <3>3. Updated(r, got).total = readings[r] + 1 /\ Updated(r, got).free = readings[r] + 1
      BY <3>2 DEF Updated
    <3>4. readings[r] + 1 \in complete'[r]
      BY <1>1, <1>2, <3>2
    <3>. QED BY <2>1, <3>1, <3>3, <3>4
  <2>2. CASE q # r
    <3>1. midata'[q] = midata[q]
      BY <1>1, <1>2, <2>2
    <3>2. midata[q].total = midata[q].free /\ midata[q].total \in complete[q]
      BY <1>7, <3>1 DEF ValidIsComplete
    <3>. QED BY <1>6, <3>1, <3>2
  <2>. QED BY <2>1, <2>2
<1>8. ValidIsComplete'
  BY <1>7 DEF ValidIsComplete
<1>. QED BY <1>5, <1>6, <1>8

\* What a host section shows of the devices is what the process remembers of them.
LEMMA ProbeKeeps ==
    ASSUME TypeOK, ShownIsRemembered, NEW r \in Ranks,
           NEW devices \in SUBSET Devices, Probe(r, devices)
    PROVE  /\ probed' \in [Ranks -> [Devices -> {"not yet", "nothing", "data"}]]
           /\ shown' \in [Ranks -> [Devices -> SUBSET {"nothing", "data"}]]
           /\ ShownIsRemembered'
<1>1. /\ probed \in [Ranks -> [Devices -> {"not yet", "nothing", "data"}]]
      /\ shown \in [Ranks -> [Devices -> SUBSET {"nothing", "data"}]]
  BY DEF TypeOK
<1>2. PICK data \in [Devices -> {"nothing", "data"}] :
        LET found == [x \in Devices |-> IF probed[r][x] = "not yet" THEN data[x]
                                        ELSE probed[r][x]]
        IN  /\ probed' = [probed EXCEPT ![r] =
                  [x \in Devices |-> IF x \in devices THEN Remembered(found[x]) ELSE @[x]]]
            /\ shown' = [shown EXCEPT ![r] =
                  [x \in Devices |-> IF x \in devices THEN @[x] \cup {found[x]} ELSE @[x]]]
  BY DEF Probe
<1> DEFINE found == [x \in Devices |-> IF probed[r][x] = "not yet" THEN data[x]
                                       ELSE probed[r][x]]
           newProbed == [x \in Devices |-> IF x \in devices THEN found[x] ELSE probed[r][x]]
           newShown == [x \in Devices |-> IF x \in devices THEN shown[r][x] \cup {found[x]}
                                          ELSE shown[r][x]]
<1>3. probed' = [probed EXCEPT ![r] = newProbed] /\ shown' = [shown EXCEPT ![r] = newShown]
  BY <1>1, <1>2 DEF Remembered
<1>4. ASSUME NEW x \in Devices
      PROVE  /\ found[x] \in {"nothing", "data"}
             /\ probed[r][x] # "not yet" => found[x] = probed[r][x]
  <2>1. probed[r][x] \in {"not yet", "nothing", "data"} /\ data[x] \in {"nothing", "data"}
    BY <1>1, <1>2
  <2>2. found[x] = IF probed[r][x] = "not yet" THEN data[x] ELSE probed[r][x]
    OBVIOUS
  <2>. QED BY <2>1, <2>2
<1>5. newProbed \in [Devices -> {"not yet", "nothing", "data"}]
  BY <1>1, <1>4
<1>6. newShown \in [Devices -> SUBSET {"nothing", "data"}]
  <2>1. shown[r] \in [Devices -> SUBSET {"nothing", "data"}]
    BY <1>1
  <2>. HIDE DEF found
  <2>. QED BY <1>4, <2>1
<1>7. \A x \in Devices : newShown[x] \subseteq {newProbed[x]}
  <2>1. TAKE x \in Devices
  <2>2. shown[r][x] \subseteq {probed[r][x]}
    BY DEF ShownIsRemembered
  <2>3. shown[r][x] \subseteq {"nothing", "data"}
    BY <1>1
  <2>4. shown[r][x] \subseteq {found[x]}
    BY <1>4, <2>2, <2>3
  <2>. QED BY <2>2, <2>4
<1>. HIDE DEF newProbed, newShown
<1>8. /\ probed' \in [Ranks -> [Devices -> {"not yet", "nothing", "data"}]]
      /\ shown' \in [Ranks -> [Devices -> SUBSET {"nothing", "data"}]]
  BY <1>1, <1>3, <1>5, <1>6
<1>9. ASSUME NEW q \in Ranks, NEW x \in Devices
      PROVE  shown'[q][x] \subseteq {probed'[q][x]}
  <2>1. CASE q = r
    <3>1. shown'[r] = newShown /\ probed'[r] = newProbed
      BY <1>1, <1>3
    <3>. QED BY <1>7, <2>1, <3>1
  <2>2. CASE q # r
    <3>1. shown'[q] = shown[q] /\ probed'[q] = probed[q]
      BY <1>1, <1>3, <2>2
    <3>. QED BY <3>1 DEF ShownIsRemembered
  <2>. QED BY <2>1, <2>2
<1>. QED BY <1>8, <1>9 DEF ShownIsRemembered

\* The total that a host section shows, if any, is of a complete reading, or 0.
LEMMA ShowTotalKeeps ==
    ASSUME TypeOK, MemoryOfOneReading, NEW r \in Ranks, NEW total \in SUBSET Nat,
           ShowTotal(r, total), \A q \in Ranks : complete[q] \subseteq complete'[q],
           total \subseteq complete'[r] \cup {0}
    PROVE  memory' \in [Ranks -> Memories] /\ MemoryOfOneReading'
<1>1. memory \in [Ranks -> Memories]
  BY DEF TypeOK
<1>2. memory' = [memory EXCEPT ![r] = [mem_total |-> total, usage |-> memory[r].usage]]
  BY <1>1 DEF ShowTotal
<1>3. memory[r].usage \in SUBSET (Nat \X Nat)
  BY <1>1 DEF Memories
<1>4. memory' \in [Ranks -> Memories]
  BY <1>1, <1>2, <1>3 DEF Memories
<1>5. ASSUME NEW q \in Ranks
      PROVE  /\ \A u \in memory'[q].usage : u[1] = u[2] /\ u[1] \in complete'[q]
             /\ memory'[q].mem_total \subseteq complete'[q] \cup {0}
  <2>1. /\ \A u \in memory[q].usage : u[1] = u[2] /\ u[1] \in complete[q]
        /\ memory[q].mem_total \subseteq complete[q] \cup {0}
    BY DEF MemoryOfOneReading
  <2>2. complete[q] \subseteq complete'[q]
    OBVIOUS
  <2>3. CASE q = r
    <3>1. memory'[r].usage = memory[r].usage /\ memory'[r].mem_total = total
      BY <1>1, <1>2
    <3>. QED BY <2>1, <2>2, <2>3, <3>1
  <2>4. CASE q # r
    <3>1. memory'[q] = memory[q]
      BY <1>1, <1>2, <2>4
    <3>. QED BY <2>1, <2>2, <3>1
  <2>. QED BY <2>3, <2>4
<1>. QED BY <1>4, <1>5 DEF MemoryOfOneReading

LEMMA AddHostSectionStep ==
    ASSUME IInv, NEW r \in Ranks, AddHostSection(r)
    PROVE  IInv'
<1>1. HostCall(r) /\ \E devices \in SUBSET Devices : Probe(r, devices)
  BY DEF AddHostSection
<1>2. /\ TypeOK /\ MemoryOfOneReading /\ ValidIsComplete /\ ShownIsRemembered
      /\ InGather /\ ArrivalsCounted
  BY DEF IInv
<1>3. InGather' /\ ArrivalsCounted' /\ UNCHANGED <<haveMpi, plan, mpi>> /\ hostCalls' \in [Ranks -> Nat]
  BY <1>1, <1>2, HostCallKeeps
<1>4. /\ midata \in [Ranks -> Readings] /\ readings \in [Ranks -> Nat]
      /\ complete \in [Ranks -> SUBSET Nat] /\ memory \in [Ranks -> Memories]
      /\ probed \in [Ranks -> [Devices -> {"not yet", "nothing", "data"}]]
      /\ shown \in [Ranks -> [Devices -> SUBSET {"nothing", "data"}]]
  BY <1>2 DEF TypeOK
<1>5. /\ probed' \in [Ranks -> [Devices -> {"not yet", "nothing", "data"}]]
      /\ shown' \in [Ranks -> [Devices -> SUBSET {"nothing", "data"}]]
      /\ ShownIsRemembered'
  <2>1. PICK devices \in SUBSET Devices : Probe(r, devices)
    BY <1>1
  <2>. QED BY <1>2, <2>1, ProbeKeeps
<1>6. /\ midata' \in [Ranks -> Readings] /\ readings' \in [Ranks -> Nat]
      /\ complete' \in [Ranks -> SUBSET Nat] /\ memory' \in [Ranks -> Memories]
      /\ MemoryOfOneReading' /\ ValidIsComplete'
  <2>1. CASE ShowTotal(r, {}) /\ UNCHANGED <<midata, readings, complete>>
    <3>1. memory' \in [Ranks -> Memories] /\ MemoryOfOneReading'
      BY <1>2, <2>1, ShowTotalKeeps
    <3>2. ValidIsComplete'
      BY <1>2, <2>1 DEF ValidIsComplete
    <3>. QED BY <1>4, <2>1, <3>1, <3>2
  <2>2. CASE /\ midata[r].valid /\ ShowTotal(r, {midata[r].total})
             /\ UNCHANGED <<midata, readings, complete>>
    <3>1. {midata[r].total} \subseteq complete[r]
      BY <1>2, <2>2 DEF ValidIsComplete
    <3>2. complete[r] \subseteq Nat
      BY <1>4
    <3>3. {midata[r].total} \in SUBSET Nat /\ {midata[r].total} \subseteq complete'[r] \cup {0}
      BY <2>2, <3>1, <3>2
    <3>4. memory' \in [Ranks -> Memories] /\ MemoryOfOneReading'
      BY <1>2, <2>2, <3>3, ShowTotalKeeps
    <3>5. ValidIsComplete'
      BY <1>2, <2>2 DEF ValidIsComplete
    <3>. QED BY <1>4, <2>2, <3>4, <3>5
  <2>3. CASE /\ \E got \in SUBSET {"MemTotal", "MemFree"} : UpdateMeminfo(r, got)
             /\ ShowTotal(r, {IF midata[r].valid THEN midata[r].total ELSE 0}')
    <3> DEFINE total == IF midata'[r].valid THEN midata'[r].total ELSE 0
    <3>1. PICK got \in SUBSET {"MemTotal", "MemFree"} : UpdateMeminfo(r, got)
      BY <2>3
    <3>2. /\ midata' \in [Ranks -> Readings] /\ readings' \in [Ranks -> Nat]
          /\ complete' \in [Ranks -> SUBSET Nat] /\ ValidIsComplete'
          /\ \A q \in Ranks : complete[q] \subseteq complete'[q]
      BY <1>2, <3>1, UpdateMeminfoKeeps
    <3>3. total \in complete'[r] \cup {0}
      BY <3>2 DEF ValidIsComplete
    <3>4. complete'[r] \subseteq Nat
      BY <3>2
    <3>5. {total} \in SUBSET Nat /\ {total} \subseteq complete'[r] \cup {0}
      BY <3>3, <3>4
    <3>6. ShowTotal(r, {total})
      BY <2>3
    <3>7. memory' \in [Ranks -> Memories] /\ MemoryOfOneReading'
      <4>. HIDE DEF total
      <4>. QED BY <1>2, <3>2, <3>5, <3>6, ShowTotalKeeps
    <3>. QED BY <3>2, <3>7
  <2>. QED BY <2>1, <2>2, <2>3 DEF AddHostSection
<1>7. TypeOK'
  BY <1>2, <1>3, <1>5, <1>6, HostTypes
<1>. QED BY <1>3, <1>5, <1>6, <1>7 DEF IInv

\* What a process has not asked for it has not shown.
LEMMA HostSectionThrowsStep ==
    ASSUME IInv, NEW r \in Ranks, HostSectionThrows(r)
    PROVE  IInv'
<1>1. /\ HostCall(r) /\ probed[r]["numa_hardware"] = "not yet" /\ UNCHANGED <<memory, shown>>
      /\ \/ UNCHANGED <<midata, readings, complete>>
         \/ \E got \in SUBSET {"MemTotal", "MemFree"} : UpdateMeminfo(r, got)
  BY DEF HostSectionThrows
<1>2. /\ TypeOK /\ MemoryOfOneReading /\ ValidIsComplete /\ ShownIsRemembered
      /\ InGather /\ ArrivalsCounted
  BY DEF IInv
<1>3. InGather' /\ ArrivalsCounted' /\ UNCHANGED <<haveMpi, plan, mpi>> /\ hostCalls' \in [Ranks -> Nat]
  BY <1>1, <1>2, HostCallKeeps
<1>4. /\ midata \in [Ranks -> Readings] /\ readings \in [Ranks -> Nat]
      /\ complete \in [Ranks -> SUBSET Nat] /\ memory \in [Ranks -> Memories]
      /\ probed \in [Ranks -> [Devices -> {"not yet", "nothing", "data"}]]
      /\ shown \in [Ranks -> [Devices -> SUBSET {"nothing", "data"}]]
  BY <1>2 DEF TypeOK
<1>5. PICK gpu \in {"not yet", "nothing", "data"} :
         /\ gpu = probed[r]["gpu"] \/ probed[r]["gpu"] = "not yet"
         /\ probed' = [probed EXCEPT ![r] =
               [x \in Devices |-> IF x = "gpu" THEN gpu ELSE "nothing"]]
  BY DEF HostSectionThrows
<1>6. /\ midata' \in [Ranks -> Readings] /\ readings' \in [Ranks -> Nat]
      /\ complete' \in [Ranks -> SUBSET Nat] /\ ValidIsComplete'
      /\ \A q \in Ranks : complete[q] \subseteq complete'[q]
  <2>1. CASE UNCHANGED <<midata, readings, complete>>
    BY <1>2, <1>4, <2>1 DEF ValidIsComplete
  <2>2. CASE \E got \in SUBSET {"MemTotal", "MemFree"} : UpdateMeminfo(r, got)
    <3>1. PICK got \in SUBSET {"MemTotal", "MemFree"} : UpdateMeminfo(r, got)
      BY <2>2
    <3>. QED BY <1>2, <3>1, UpdateMeminfoKeeps
  <2>. QED BY <1>1, <2>1, <2>2
<1>7. MemoryOfOneReading'
  BY <1>1, <1>2, <1>6 DEF MemoryOfOneReading
<1>8. probed' \in [Ranks -> [Devices -> {"not yet", "nothing", "data"}]]
  BY <1>4, <1>5
<1>9. ASSUME NEW q \in Ranks, NEW x \in Devices
      PROVE  shown'[q][x] \subseteq {probed'[q][x]}
  <2>1. shown[q][x] \subseteq {probed[q][x]} /\ shown[q][x] \subseteq {"nothing", "data"}
    <3>1. shown[q][x] \subseteq {probed[q][x]}
      BY <1>2 DEF ShownIsRemembered
    <3>2. shown[q] \in [Devices -> SUBSET {"nothing", "data"}]
      BY <1>4
    <3>3. shown[q][x] \in SUBSET {"nothing", "data"}
      BY <3>2
    <3>. QED BY <3>1, <3>3
  <2>2. probed'[q][x] = probed[q][x] \/ probed[q][x] = "not yet"
    <3>1. CASE q # r
      BY <1>4, <1>5, <3>1
    <3>2. CASE q = r
      <4>1. probed'[r][x] = IF x = "gpu" THEN gpu ELSE "nothing"
        BY <1>4, <1>5
      <4>. QED BY <1>1, <1>5, <3>2, <4>1 DEF Devices
    <3>. QED BY <3>1, <3>2
  <2>. QED BY <1>1, <2>1, <2>2
<1>10. ShownIsRemembered'
  BY <1>9 DEF ShownIsRemembered
<1>11. TypeOK'
  BY <1>1, <1>2, <1>3, <1>4, <1>6, <1>8, HostTypes
<1>. QED BY <1>3, <1>6, <1>7, <1>10, <1>11 DEF IInv

LEMMA AddMemoryUsageStep ==
    ASSUME IInv, NEW r \in Ranks, AddMemoryUsage(r)
    PROVE  IInv'
<1>1. /\ HostCall(r) /\ UNCHANGED <<probed, shown>>
      /\ \E got \in SUBSET {"MemTotal", "MemFree"} : UpdateMeminfo(r, got)
  BY DEF AddMemoryUsage
<1>2. /\ TypeOK /\ MemoryOfOneReading /\ ValidIsComplete /\ ShownIsRemembered
      /\ InGather /\ ArrivalsCounted
  BY DEF IInv
<1>3. InGather' /\ ArrivalsCounted' /\ UNCHANGED <<haveMpi, plan, mpi>> /\ hostCalls' \in [Ranks -> Nat]
  BY <1>1, <1>2, HostCallKeeps
<1>4. /\ midata \in [Ranks -> Readings] /\ readings \in [Ranks -> Nat]
      /\ complete \in [Ranks -> SUBSET Nat] /\ memory \in [Ranks -> Memories]
      /\ probed \in [Ranks -> [Devices -> {"not yet", "nothing", "data"}]]
      /\ shown \in [Ranks -> [Devices -> SUBSET {"nothing", "data"}]]
  BY <1>2 DEF TypeOK
<1>5. PICK got \in SUBSET {"MemTotal", "MemFree"} : UpdateMeminfo(r, got)
  BY <1>1
<1>6. /\ midata' \in [Ranks -> Readings] /\ readings' \in [Ranks -> Nat]
      /\ complete' \in [Ranks -> SUBSET Nat] /\ ValidIsComplete'
      /\ \A q \in Ranks : complete[q] \subseteq complete'[q]
  BY <1>2, <1>5, UpdateMeminfoKeeps
<1> DEFINE usage == IF midata'[r].valid THEN {<<midata'[r].total, midata'[r].free>>} ELSE {}
<1>7. memory' = [memory EXCEPT ![r] = [mem_total |-> memory[r].mem_total, usage |-> usage]]
  BY <1>4 DEF AddMemoryUsage
<1>8. midata'[r].total \in Nat /\ midata'[r].free \in Nat
  BY <1>6 DEF Readings
<1>9. usage \in SUBSET (Nat \X Nat)
  BY <1>8
<1>10. \A u \in usage : u[1] = u[2] /\ u[1] \in complete'[r]
  BY <1>6 DEF ValidIsComplete
<1>. HIDE DEF usage
<1>11. memory[r].mem_total \in SUBSET Nat
  BY <1>4 DEF Memories
<1>12. memory' \in [Ranks -> Memories]
  BY <1>4, <1>7, <1>9, <1>11 DEF Memories
<1>13. ASSUME NEW q \in Ranks
       PROVE  /\ \A u \in memory'[q].usage : u[1] = u[2] /\ u[1] \in complete'[q]
              /\ memory'[q].mem_total \subseteq complete'[q] \cup {0}
  <2>1. /\ \A u \in memory[q].usage : u[1] = u[2] /\ u[1] \in complete[q]
        /\ memory[q].mem_total \subseteq complete[q] \cup {0}
    BY <1>2 DEF MemoryOfOneReading
  <2>2. CASE q = r
    <3>1. memory'[r].usage = usage /\ memory'[r].mem_total = memory[r].mem_total
      BY <1>4, <1>7
    <3>. QED BY <1>6, <1>10, <2>1, <2>2, <3>1
  <2>3. CASE q # r
    <3>1. memory'[q] = memory[q]
      BY <1>4, <1>7, <2>3
    <3>. QED BY <1>6, <2>1, <3>1
  <2>. QED BY <2>2, <2>3
<1>14. MemoryOfOneReading'
  BY <1>13 DEF MemoryOfOneReading
<1>15. ShownIsRemembered'
  BY <1>1, <1>2 DEF ShownIsRemembered
<1>16. TypeOK'
  BY <1>1, <1>2, <1>3, <1>4, <1>6, <1>12, HostTypes
<1>. QED BY <1>3, <1>6, <1>14, <1>15, <1>16 DEF IInv

-----------------------------------------------------------------------------
(***************************************************************************)
(* The theorems.                                                           *)
(***************************************************************************)

LEMMA StepIInv == IInv /\ [Next]_vars => IInv'
<1>. SUFFICES ASSUME IInv, [Next]_vars PROVE IInv'
  OBVIOUS
<1>1. CASE Next
  <2>1. PICK r \in Ranks : \/ AddMpiSection(r) \/ LeaveGather(r) \/ GatherFails(r)
                           \/ NoHostSection(r) \/ AddHostSection(r) \/ HostSectionThrows(r)
                           \/ AddMemoryUsage(r)
    BY <1>1 DEF Next
  <2>2. CASE NoSection(r)
    BY <2>2, NoSectionStep
  <2>3. CASE FakeSection(r)
    BY <2>3, FakeSectionStep
  <2>4. CASE LocalSection(r)
    BY <2>4, LocalSectionStep
  <2>5. CASE EnterGather(r)
    BY <2>5, EnterGatherStep
  <2>6. CASE SkipGather(r)
    BY <2>6, SkipGatherStep
  <2>7. CASE LeaveGather(r) \/ GatherFails(r)
    BY <2>7, OwnNames, ReturnsStep DEF LeaveGather, GatherFails
  <2>8. CASE NoHostSection(r)
    BY <2>8, NoHostSectionStep
  <2>9. CASE AddHostSection(r)
    BY <2>9, AddHostSectionStep
  <2>10. CASE AddMemoryUsage(r)
    BY <2>10, AddMemoryUsageStep
  <2>11. CASE HostSectionThrows(r)
    BY <2>11, HostSectionThrowsStep
  <2>. QED BY <2>1, <2>2, <2>3, <2>4, <2>5, <2>6, <2>7, <2>8, <2>9, <2>10, <2>11
           DEF AddMpiSection
<1>2. CASE UNCHANGED vars
  <2>1. UNCHANGED <<haveMpi, plan, mpi, host>>
    BY <1>2 DEF vars
  <2>2. /\ UNCHANGED <<made, pc, arrived, jv, section, skipped>>
    BY <2>1 DEF mpi
  <2>3. /\ TypeOK /\ MemoryOfOneReading /\ ValidIsComplete /\ ShownIsRemembered
        /\ InGather /\ ArrivalsCounted
    BY DEF IInv
  <2>4. MemoryOfOneReading' /\ ValidIsComplete' /\ ShownIsRemembered'
    BY <2>1, <2>3, HostUnchanged
  <2>5. /\ midata' \in [Ranks -> Readings] /\ readings' \in [Ranks -> Nat]
        /\ complete' \in [Ranks -> SUBSET Nat] /\ memory' \in [Ranks -> Memories]
        /\ probed' \in [Ranks -> [Devices -> {"not yet", "nothing", "data"}]]
        /\ shown' \in [Ranks -> [Devices -> SUBSET {"nothing", "data"}]]
        /\ hostCalls' \in [Ranks -> Nat]
    BY <2>1, <2>3 DEF host, TypeOK
  <2>6. TypeOK'
    BY <2>1, <2>3, <2>5, HostTypes
  <2>7. InGather'
    BY <2>1, <2>2, <2>3 DEF InGather, Gathers
  <2>8. \A q \in Ranks : Collective(q, made[q])' = Collective(q, made[q])
    BY <2>1, <2>2 DEF Collective, Gathers
  <2>9. ArrivalsCounted'
    BY <2>1, <2>2, <2>3, <2>8 DEF ArrivalsCounted
  <2>. QED BY <2>4, <2>6, <2>7, <2>9 DEF IInv
<1>. QED BY <1>1, <1>2

THEOREM Invariance == Spec => []IInv
<1>1. Init => IInv
  BY InitIInv
<1>2. IInv /\ [Next]_vars => IInv'
  BY StepIInv
<1>. QED BY <1>1, <1>2, PTL DEF Spec

\* The variables keep their types, for any number of ranks and any programs.
THEOREM TypeCorrect == Spec => []TypeOK
<1>1. IInv => TypeOK
  BY DEF IInv
<1>. QED BY <1>1, Invariance, PTL

\* A process never shows values of different readings of /proc/meminfo together.
THEOREM OneReading == Spec => []MemoryOfOneReading
<1>1. IInv => MemoryOfOneReading
  BY DEF IInv
<1>. QED BY <1>1, Invariance, PTL

\* All host sections of a process agree on its gpus and numa nodes.
THEOREM SameHardware == Spec => []HardwareConstant
<1>1. IInv => HardwareConstant
  <2>. SUFFICES ASSUME IInv, NEW r \in Ranks, NEW x \in Devices,
                       NEW u \in shown[r][x], NEW v \in shown[r][x]
                PROVE  u = v
    BY DEF HardwareConstant
  <2>1. shown[r][x] \subseteq {probed[r][x]}
    BY DEF IInv, ShownIsRemembered
  <2>. QED BY <2>1
<1>. QED BY <1>1, Invariance, PTL

\* Of two ranks with different numbers of calls, the one that is in a gather has come
\* to more gathers.
LEMMA LaterCameMore ==
    ASSUME IInv, skipped = {}, NEW q \in Ranks, NEW r \in Ranks,
           pc[q] = "gather", pc[r] = "gather", made[q] < made[r]
    PROVE  arrived[q] # arrived[r]
<1>1. /\ TypeOK /\ InGather /\ ArrivalsCounted
  BY DEF IInv
<1>2. haveMpi /\ Gathers(plan[r][made[r]])
  BY <1>1 DEF InGather
<1>3. made[q] \in Nat /\ made[r] \in Nat
  BY <1>1 DEF TypeOK
<1>4. /\ arrived[q] = Cardinality(Collective(q, made[q]))
      /\ arrived[r] = Cardinality(Collective(r, made[r]))
  BY <1>1, <1>2 DEF ArrivalsCounted
<1>5. /\ plan[q] \in Seq(SUBSET (Fields \cup Lists)) /\ plan[r] \in Seq(SUBSET (Fields \cup Lists))
      /\ made[r] <= Len(plan[r])
  BY <1>1, PlanType DEF TypeOK
<1>6. /\ Len(plan[q]) = Len(plan[r])
      /\ \A i \in DOMAIN plan[r] : (plan[q][i] \cap Lists = {}) = (plan[r][i] \cap Lists = {})
  <2>1. plan \in Plans
    BY <1>1 DEF TypeOK
  <2>. QED BY <2>1, RankAssumption, Zenon
<1>7. \A i \in 1..made[q] : i \in DOMAIN plan[r]
  BY <1>3, <1>5
<1>8. \A i \in 1..made[q] : Gathers(plan[q][i]) <=> Gathers(plan[r][i])
  BY <1>6, <1>7 DEF Gathers
<1>9. Collective(q, made[q]) = Collective(r, made[q])
  BY <1>8 DEF Collective
<1>10. Collective(r, made[q]) \subseteq Collective(r, made[r])
  BY <1>3 DEF Collective
<1>11. made[r] \in Collective(r, made[r]) /\ made[r] \notin Collective(r, made[q])
  BY <1>2, <1>3 DEF Collective
<1>12. IsFiniteSet(Collective(r, made[r]))
  BY <1>1, <1>3, OneMoreCall
<1>13. Cardinality(Collective(r, made[q])) # Cardinality(Collective(r, made[r]))
  <2>1. Collective(r, made[q]) # Collective(r, made[r])
    BY <1>11
  <2>2. Collective(r, made[q]) \in SUBSET Collective(r, made[r])
    BY <1>10
  <2>3. Cardinality(Collective(r, made[r])) = Cardinality(Collective(r, made[q]))
           => Collective(r, made[r]) = Collective(r, made[q])
    BY ONLY <1>12, <2>2, FS_Subset
  <2>. QED BY <2>1, <2>3
<1>. QED BY <1>4, <1>9, <1>13

\* However far the ranks of a job run ahead of each other, and whatever they ask for,
\* those that MPI puts together in a gather are in the same call.
THEOREM SameCall == Spec => []SameCallGathered
<1>1. IInv => SameCallGathered
  <2>. SUFFICES ASSUME IInv, NEW q \in Ranks, NEW r \in Ranks,
                       pc[q] = "gather", pc[r] = "gather", arrived[q] = arrived[r],
                       skipped = {}
                PROVE  made[q] = made[r]
    BY DEF SameCallGathered
  <2>1. made[q] \in Nat /\ made[r] \in Nat
    BY DEF IInv, TypeOK
  <2>2. ~(made[q] < made[r])
    BY LaterCameMore
  <2>3. ~(made[r] < made[q])
    BY LaterCameMore
  <2>. QED BY <2>1, <2>2, <2>3
<1>. QED BY <1>1, Invariance, PTL

-----------------------------------------------------------------------------
(***************************************************************************)
(* The list of the different hosts.                                        *)
(***************************************************************************)

\* No two elements are equal.
Once(list) == \A i, j \in DOMAIN list : list[i] = list[j] => i = j

\* An element that a list has not got is added to its end.
LEMMA AppendOnce ==
    ASSUME NEW S, NEW l \in Seq(S), Once(l), NEW x \in S, \A j \in DOMAIN l : l[j] # x
    PROVE  Append(l, x) \in Seq(S) /\ Once(Append(l, x))
<1>1. /\ Append(l, x) \in Seq(S) /\ Len(l) \in Nat
      /\ DOMAIN l = 1 .. Len(l) /\ DOMAIN Append(l, x) = 1 .. (Len(l) + 1)
      /\ \A i \in 1 .. Len(l) : Append(l, x)[i] = l[i]
      /\ Append(l, x)[Len(l) + 1] = x
  OBVIOUS
<1>2. \A i \in 1 .. (Len(l) + 1) : i \in 1 .. Len(l) \/ i = Len(l) + 1
  BY <1>1
<1>. QED
  BY <1>1, <1>2 DEF Once

\* The list of the different hosts, which HostList makes by recursion: of the elements
\* of the list it is given, each once.  list is the recursive function of HostList, and
\* RecursiveFunction says that there is one.
LEMMA HostListOnce ==
    ASSUME NEW S, NEW hosts \in Seq(S)
    PROVE  HostList(hosts) \in Seq(S) /\ Once(HostList(hosts))
<1>. DEFINE n == Len(hosts)
            Longer(l, i) == IF \E j \in DOMAIN l : l[j] = hosts[i] THEN l
                            ELSE Append(l, hosts[i])
            U == Seq(S)
            Step == [p \in U \X (1 .. n) |-> Longer(p[1], p[2])]
            list == CHOOSE list : list = [i \in 0 .. Len(hosts) |->
                        IF i = 0 THEN <<>>
                        ELSE LET l == list[i - 1]
                             IN  IF \E j \in DOMAIN l : l[j] = hosts[i] THEN l
                                 ELSE Append(l, hosts[i])]
<1>1. n \in Nat /\ \A i \in 1 .. n : hosts[i] \in S
  OBVIOUS
<1>2. Step \in [U \X (1 .. n) -> U]
  <2>1. ASSUME NEW l \in U, NEW i \in 1 .. n PROVE Longer(l, i) \in U
    BY <1>1
  <2>. HIDE DEF Longer, n, U
  <2>. QED
    BY <2>1
<1>3. \E g : g = [i \in 0 .. n |-> IF i = 0 THEN <<>> ELSE Longer(g[i - 1], i)]
  <2>1. <<>> \in U
    OBVIOUS
  <2>2. PICK g \in [0 .. n -> U] :
            g[0] = <<>> /\ \A i \in 1 .. n : g[i] = Step[<<g[i - 1], i>>]
    <3>1. Step \in Steps(n, U)
      BY <1>2 DEF Steps
    <3>2. \E g : Unfolds(g, n, U, <<>>, Step)
      <4>. HIDE DEF n, U, Step
      <4>. QED
        BY <1>1, <2>1, <3>1, RecursiveFunction
    <3>. QED
      BY <3>2 DEF Unfolds
  <2>3. \A i \in 1 .. n : g[i] = Longer(g[i - 1], i)
    <3>1. \A i \in 1 .. n : i - 1 \in 0 .. n
      BY <1>1
    <3>. HIDE DEF Longer, n, U
    <3>2. \A i \in 1 .. n : <<g[i - 1], i>> \in U \X (1 .. n)
      BY <2>2, <3>1
    <3>. QED
      BY <2>2, <3>2
  <2>4. \A i \in 0 .. n : i # 0 => i \in 1 .. n
    BY <1>1
  <2>. HIDE DEF Longer, n, U
  <2>5. \A i \in 0 .. n : g[i] = IF i = 0 THEN <<>> ELSE Longer(g[i - 1], i)
    BY <2>2, <2>3, <2>4
  <2>6. g = [i \in 0 .. n |-> IF i = 0 THEN <<>> ELSE Longer(g[i - 1], i)]
    BY <2>2, <2>5
  <2>. QED
    BY <2>6
<1>4. list = [i \in 0 .. n |-> IF i = 0 THEN <<>> ELSE Longer(list[i - 1], i)]
  <2>. DEFINE Is(g) == g = [i \in 0 .. n |-> IF i = 0 THEN <<>> ELSE Longer(g[i - 1], i)]
  <2>1. list = CHOOSE g : Is(g)
    OBVIOUS
  <2>2. \E g : Is(g)
    BY <1>3
  <2>3. Is(list)
    <3>. HIDE DEF Is, list
    <3>. QED
      BY <2>1, <2>2
  <2>. QED
    BY <2>3
<1>5. HostList(hosts) = list[n]
  BY DEF HostList
<1>. HIDE DEF list
<1>. DEFINE Good == {i \in 0 .. n : list[i] \in Seq(S) /\ Once(list[i])}
<1>6. 0 \in Good
  <2>1. 0 \in 0 .. n /\ list[0] = <<>>
    BY <1>1, <1>4
  <2>2. <<>> \in Seq(S) /\ Once(<<>>)
    BY DEF Once
  <2>. QED
    BY <2>1, <2>2
<1>7. ASSUME NEW i \in 1 .. n, i - 1 \in Good PROVE i \in Good
  <2>1. list[i] = Longer(list[i - 1], i) /\ i \in 0 .. n
    <3>1. i \in 0 .. n /\ i # 0
      BY <1>1
    <3>. HIDE DEF Longer
    <3>. QED
      BY <1>4, <3>1
  <2>2. list[i - 1] \in Seq(S) /\ Once(list[i - 1])
    BY <1>7
  <2>3. CASE \E j \in DOMAIN list[i - 1] : list[i - 1][j] = hosts[i]
    BY <2>1, <2>2, <2>3
  <2>4. CASE ~ \E j \in DOMAIN list[i - 1] : list[i - 1][j] = hosts[i]
    BY <1>1, <2>1, <2>2, <2>4, AppendOnce
  <2>. QED
    BY <2>3, <2>4
<1>8. n \in Good
  <2>. HIDE DEF Good
  <2>1. 0 .. n \subseteq Good
    BY <1>1, <1>6, <1>7, UpToSetInduction
  <2>. QED
    BY <1>1, <2>1
<1>. QED
  BY <1>5, <1>8

\* A section with such a list.
LEMMA SetsHostsOnce ==
    ASSUME TypeOK, HostsOnce, NEW r \in Ranks, NEW fields, NEW flags, NEW rankHost,
           NEW hostlist, Once(hostlist),
           Sets(r, fields, flags, rankHost, hostlist)
    PROVE  HostsOnce'
<1>1. DOMAIN section = Ranks
  BY DEF TypeOK
<1>2. \A q \in Ranks : q # r => section'[q] = section[q]
  BY <1>1 DEF Sets
<1>3. section'[r].hostlist = hostlist \/ section'[r].hostlist = <<>>
  BY <1>1 DEF Sets
<1>4. ASSUME NEW q \in Ranks, NEW i \in DOMAIN section'[q].hostlist,
             NEW j \in DOMAIN section'[q].hostlist,
             section'[q].hostlist[i] = section'[q].hostlist[j]
      PROVE  i = j
  <2>1. CASE q = r
    BY <1>3, <1>4, <2>1 DEF Once
  <2>2. CASE q # r
    BY <1>2, <1>4, <2>2 DEF HostsOnce
  <2>. QED
    BY <2>1, <2>2
<1>. QED
  BY <1>4 DEF HostsOnce

\* What a rank may list: nothing, one name, or the different ones of all.
LEMMA ListsOnce ==
    ASSUME NEW name \in Names
    PROVE  Once(<<>>) /\ Once(<<name>>) /\ Once(HostList(RankHosts(name)))
<1>1. Once(<<>>) /\ Once(<<name>>)
  BY DEF Once
<1>2. RankHosts(name) \in Seq(Names)
  BY NamesType
<1>. QED
  BY <1>1, <1>2, HostListOnce

\* Every call keeps the lists so.
LEMMA StepHostsOnce ==
    ASSUME IInv, HostsOnce, [Next]_vars
    PROVE  HostsOnce'
<1>1. TypeOK
  BY DEF IInv
<1>2. ASSUME UNCHANGED section PROVE HostsOnce'
  BY <1>2 DEF HostsOnce
<1>3. ASSUME NEW r \in Ranks, FakeSection(r) PROVE HostsOnce'
  <2>1. PICK name \in Names :
            Sets(r, Flags(r)' \cap Fields, Flags(r)', <<name>>, <<name>>)
    BY <1>3, OwnNames DEF FakeSection
  <2>. QED
    BY <1>1, <2>1, ListsOnce, SetsHostsOnce
<1>4. ASSUME NEW r \in Ranks, NEW got, Sets(r, got, {}, <<>>, <<>>) PROVE HostsOnce'
  BY <1>1, <1>4, SetsHostsOnce DEF Once
<1>5. ASSUME NEW r \in Ranks, NEW name \in Names, NEW fields, NEW flags,
             Sets(r, fields, flags, RankHosts(name), HostList(RankHosts(name)))
      PROVE  HostsOnce'
  BY <1>1, <1>5, ListsOnce, SetsHostsOnce
<1>10. ASSUME NEW r \in Ranks, LeaveGather(r) \/ GatherFails(r) PROVE HostsOnce'
  BY <1>5, <1>10, OwnNames DEF LeaveGather, GatherFails, Returns
<1>6. ASSUME NEW r \in Ranks, HostCall(r) PROVE HostsOnce'
  BY <1>2, <1>6 DEF HostCall, mpi
<1>7. ASSUME NEW r \in Ranks, AddMpiSection(r) PROVE HostsOnce'
  <2>1. CASE NoSection(r)
    BY <1>2, <2>1 DEF NoSection
  <2>2. CASE LocalSection(r)
    BY <1>4, <2>2 DEF LocalSection
  <2>3. CASE EnterGather(r)
    BY <1>2, <2>3 DEF EnterGather
  <2>4. CASE SkipGather(r)
    BY <1>4, <1>5, <2>4, OwnNames DEF SkipGather
  <2>. QED
    BY <1>3, <1>7, <2>1, <2>2, <2>3, <2>4 DEF AddMpiSection
<1>8. CASE UNCHANGED vars
  BY <1>2, <1>8 DEF vars, mpi
<1>9. CASE Next
  <2>1. PICK r \in Ranks :
            \/ AddMpiSection(r) \/ LeaveGather(r) \/ GatherFails(r)
            \/ NoHostSection(r) \/ AddHostSection(r) \/ HostSectionThrows(r)
            \/ AddMemoryUsage(r)
    BY <1>9 DEF Next
  <2>2. CASE NoHostSection(r) \/ AddHostSection(r) \/ HostSectionThrows(r)
             \/ AddMemoryUsage(r)
    BY <1>6, <2>2 DEF NoHostSection, AddHostSection, HostSectionThrows, AddMemoryUsage
  <2>. QED
    BY <1>7, <1>10, <2>1, <2>2
<1>. QED
  BY <1>8, <1>9

\* In each section a name is listed once, whatever the names are, gathered or not,
\* and however many ranks there are.
THEOREM HostsListedOnce == Spec => []HostsOnce
<1>1. Init => HostsOnce
  <2>. SUFFICES ASSUME Init PROVE HostsOnce
    OBVIOUS
  <2>1. section = [r \in Ranks |-> [fields |-> {}, rank_host |-> <<>>, hostlist |-> <<>>]]
    BY DEF Init
  <2>2. \A r \in Ranks : section[r].hostlist = <<>>
    BY <2>1
  <2>. QED
    BY <2>2 DEF HostsOnce
<1>2. IInv /\ HostsOnce /\ [Next]_vars => HostsOnce'
  BY StepHostsOnce
<1>. QED
  BY <1>1, <1>2, Invariance, PTL DEF Spec
=============================================================================

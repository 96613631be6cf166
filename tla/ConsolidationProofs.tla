------------------------ MODULE ConsolidationProofs ------------------------
(***************************************************************************)
(* Proofs about Consolidation for any number of jobs, files, records and   *)
(* consolidated files.                                                     *)
(***************************************************************************)
EXTENDS Consolidation, TLAPS

CallType == [step : {"idle", "open", "copy"}, job : Jobs \cup {NoJob},
             dest : Dests \cup {NoDest}, todo : SUBSET Files,
             merged : SUBSET (Files \X Nat), unmerged : SUBSET Files]

ResultType == [dest : Dests, files : SUBSET (Files \X Nat), matched : BOOLEAN]

(***************************************************************************)
(* The types, with what a call in progress holds: the job it is made for,  *)
(* the consolidated file it has opened and the files it has still to try,  *)
(* each of which some publisher made.                                      *)
(***************************************************************************)
Types ==
    /\ running \subseteq Jobs
    /\ opened \subseteq Files
    /\ size \in [Files -> Nat]
    /\ present \subseteq opened
    /\ dest \in [Dests -> Seq(Files \X Nat)]
    /\ call \in CallType
    /\ old \in [Jobs -> SUBSET Files]
    /\ results \subseteq ResultType
    /\ used \subseteq Dests
    /\ breach \subseteq {"early", "reused"}

CallHolds ==
    /\ call.step # "idle" => call.job \in Jobs /\ call.dest \in Dests
    /\ call.step = "copy" => call.dest \in used
    /\ call.step = "copy" => \A r \in results : r.dest # call.dest
    /\ call.step = "open" => call.merged = {} /\ call.unmerged = {}
    /\ call.todo \subseteq opened

WrittenOnly == \A d \in Dests : dest[d] \in Seq(Written)

UnusedEmpty == \A d \in Dests \ used : dest[d] = <<>>

Basic == Types /\ CallHolds /\ WrittenOnly /\ UnusedEmpty

LEMMA InitBasic == Init => Basic
  BY ConsolidationAssumption
     DEF Init, NoCall, Basic, Types, CallType, CallHolds, WrittenOnly, UnusedEmpty

LEMMA NoCallType == NoCall \in CallType /\ NoCall.step = "idle" /\ NoCall.todo = {}
                    /\ NoCall.merged = {}
  BY DEF NoCall, CallType

\* Records that were written stay written.
LEMMA WrittenGrows ==
    ASSUME Types, opened \subseteq opened', opened' \subseteq Files,
           \A f \in opened : size'[f] \in Nat /\ size[f] <= size'[f]
    PROVE  Written \subseteq Written'
<1>. SUFFICES ASSUME NEW r \in Written PROVE r \in Written'
  OBVIOUS
<1>1. PICK f \in opened : r \in {Record(f, k) : k \in 1 .. size[f]}
  BY DEF Written
<1>2. PICK k \in 1 .. size[f] : r = Record(f, k)
  BY <1>1
<1>3. f \in opened' /\ size[f] \in Nat /\ size'[f] \in Nat /\ size[f] <= size'[f]
  BY DEF Types
<1>4. k \in 1 .. size'[f]
  BY <1>3
<1>. QED
  BY <1>2, <1>3, <1>4 DEF Written, Record

\* The publishers' actions.
LEMMA JobsBasic ==
    ASSUME Basic,
           \/ \E f \in Files : CreateStream(f) \/ Publish(f)
           \/ \E j \in Jobs : Terminate(j)
    PROVE  Basic'
<1>1. /\ UNCHANGED <<dest, call, old, results, used, breach>>
      /\ running' \subseteq Jobs /\ opened \subseteq opened' /\ opened' \subseteq Files
      /\ present' \subseteq opened'
  BY DEF CreateStream, Publish, Terminate, Basic, Types
<1>2. /\ size' \in [Files -> Nat]
      /\ \A g \in opened : size'[g] \in Nat /\ size[g] <= size'[g]
  <2>1. size \in [Files -> Nat] /\ opened \subseteq Files
    BY DEF Basic, Types
  <2>2. size' = size \/ \E f \in Files : size' = [size EXCEPT ![f] = size[f] + 1]
    BY <2>1 DEF CreateStream, Publish, Terminate
  <2>. QED
    BY <2>1, <2>2
<1>3. Written \subseteq Written'
  BY <1>1, <1>2, WrittenGrows DEF Basic
<1>4. Types'
  BY <1>1, <1>2 DEF Basic, Types
<1>5. WrittenOnly'
  BY <1>1, <1>3 DEF Basic, WrittenOnly
<1>6. CallHolds' /\ UnusedEmpty'
  BY <1>1 DEF Basic, CallHolds, UnusedEmpty
<1>. QED
  BY <1>4, <1>5, <1>6 DEF Basic

\* Actions that end a call or leave it alone, and write nothing.
LEMMA QuietBasic ==
    ASSUME Basic, UNCHANGED <<jobs, dest, used, breach>>,
           present' \subseteq present, call' \in {call, NoCall},
           old' \in [Jobs -> SUBSET Files],
           results' = results \/ (call' = NoCall /\ results' \subseteq ResultType)
    PROVE  Basic'
<1>1. UNCHANGED <<running, opened, size, dest, used, breach>>
  BY DEF jobs
<1>2. Types'
  BY <1>1, NoCallType DEF Basic, Types
<1>3. CallHolds'
  BY <1>1, NoCallType DEF Basic, CallHolds
<1>4. Written' = Written
  BY <1>1 DEF Written
<1>5. WrittenOnly' /\ UnusedEmpty'
  BY <1>1, <1>4 DEF Basic, WrittenOnly, UnusedEmpty
<1>. QED
  BY <1>2, <1>3, <1>5 DEF Basic

\* A call that answers adds a result.
LEMMA AnswerType ==
    ASSUME Types, NEW j \in Jobs, NEW d \in Dests,
           NEW files \in SUBSET (Files \X Nat), NEW matched \in BOOLEAN,
           Answer(j, d, files, matched)
    PROVE  /\ call' = NoCall /\ results' \subseteq ResultType
           /\ old' \in [Jobs -> SUBSET Files]
<1>1. {r[1] : r \in files} \in SUBSET Files
  OBVIOUS
<1>2. old' = [old EXCEPT ![j] = {r[1] : r \in files}] /\ old \in [Jobs -> SUBSET Files]
  BY DEF Answer, Types
<1>3. [dest |-> d, files |-> files, matched |-> matched] \in ResultType
  BY DEF ResultType
<1>. QED
  BY <1>1, <1>2, <1>3 DEF Answer, Types

LEMMA GlobBasic ==
    ASSUME Basic, NEW j \in Jobs, NEW d \in Dests, Glob(j, d)
    PROVE  Basic'
<1>1. /\ UNCHANGED <<running, opened, size, present, dest, used>>
      /\ breach' \subseteq {"early", "reused"}
  BY DEF Glob, jobs, Basic, Types
<1>2. old' \in [Jobs -> SUBSET Files] /\ results' \subseteq ResultType
  <2>1. CASE Answer(j, d, {}, FALSE)
    BY <2>1, AnswerType DEF Basic
  <2>2. CASE old' = [old EXCEPT ![j] = {}] /\ UNCHANGED results
    BY <2>2 DEF Basic, Types
  <2>. QED
    BY <2>1, <2>2 DEF Glob, Fail
<1>3. call' \in CallType /\ call'.step # "copy" /\ call'.todo \subseteq opened
      /\ (call'.step # "idle" => call'.job \in Jobs /\ call'.dest \in Dests)
      /\ (call'.step = "open" => call'.merged = {} /\ call'.unmerged = {})
  BY NoCallType DEF Glob, Fail, Answer, CallType, Basic, Types
<1>4. Types'
  BY <1>1, <1>2, <1>3 DEF Basic, Types
<1>5. CallHolds'
  BY <1>1, <1>3 DEF CallHolds
<1>6. Written' = Written
  BY <1>1 DEF Written
<1>7. WrittenOnly' /\ UnusedEmpty'
  BY <1>1, <1>6 DEF Basic, WrittenOnly, UnusedEmpty
<1>. QED
  BY <1>4, <1>5, <1>7 DEF Basic

LEMMA OpenDestBasic ==
    ASSUME Basic, OpenDest
    PROVE  Basic'
<1>. DEFINE d == call.dest
<1>1. /\ call.step = "open" /\ d \in Dests /\ call.job \in Jobs
      /\ UNCHANGED <<running, opened, size, present>>
      /\ call.merged = {} /\ call.unmerged = {}
  BY DEF OpenDest, jobs, Basic, CallHolds
<1>2. CASE Fail(call.job) /\ UNCHANGED <<dest, results, used, breach>>
  <2>1. old' \in [Jobs -> SUBSET Files]
    BY <1>1, <1>2 DEF Fail, Basic, Types
  <2>. QED
    BY <1>1, <1>2, <2>1, QuietBasic DEF Fail, jobs
<1>3. CASE /\ call' = [call EXCEPT !.step = "copy"]
           /\ dest' = [dest EXCEPT ![d] = <<>>]
           /\ results' = {r \in results : r.dest # d} /\ used' = used \cup {d}
           /\ breach' \in {breach, breach \cup {"reused"}} /\ UNCHANGED old
  <2>1. call \in CallType
    BY DEF Basic, Types
  <2>2. /\ call'.step = "copy" /\ call'.job = call.job
        /\ call'.dest = d /\ call'.todo = call.todo
    BY <1>3, <2>1 DEF CallType
  <2>3. call' \in CallType
    BY <1>3, <2>1 DEF CallType
  <2>4. dest' \in [Dests -> Seq(Files \X Nat)]
    <3>1. <<>> \in Seq(Files \X Nat) /\ dest \in [Dests -> Seq(Files \X Nat)]
      BY DEF Basic, Types
    <3>. QED
      BY <1>3, <3>1
  <2>5. Types'
    BY <1>1, <1>3, <2>2, <2>3, <2>4 DEF Basic, Types
  <2>6. CallHolds'
    BY <1>1, <1>3, <2>2 DEF Basic, CallHolds
  <2>7. Written' = Written
    BY <1>1 DEF Written
  <2>8. \A e \in Dests : dest'[e] = <<>> \/ dest'[e] = dest[e]
    BY <1>1, <1>3 DEF Basic, Types
  <2>9. WrittenOnly' /\ UnusedEmpty'
    <3>1. <<>> \in Seq(Written)
      OBVIOUS
    <3>. QED
      BY <1>3, <2>7, <2>8, <3>1 DEF Basic, WrittenOnly, UnusedEmpty
  <2>. QED
    BY <2>5, <2>6, <2>9 DEF Basic
<1>. QED
  BY <1>2, <1>3 DEF OpenDest

\* The first n records of a file are records that were written to it.
LEMMA FrontWritten ==
    ASSUME Types, NEW f \in opened, NEW n \in 0 .. size[f]
    PROVE  Front(f, n) \in Seq(Written) /\ Front(f, n) \in Seq(Files \X Nat)
<1>1. f \in Files /\ size[f] \in Nat /\ n \in Nat
  BY DEF Types
<1>2. \A k \in 1 .. n : Record(f, k) \in Written /\ Record(f, k) \in Files \X Nat
  BY <1>1 DEF Written, Record
<1>. QED
  BY <1>1, <1>2 DEF Front

\* The next file, tried and joined as far as it can be read.
LEMMA CopyCases ==
    ASSUME Basic, NEW f \in Files, Copy(f)
    PROVE  /\ call.step = "copy" /\ f \in call.todo /\ call.dest \in used
           /\ UNCHANGED <<running, opened, size, present, old, results, used, breach>>
           /\ call' \in CallType /\ call'.step = "copy" /\ call'.job = call.job
           /\ call'.dest = call.dest /\ call'.todo = call.todo \ {f}
           /\ \/ dest' = dest /\ call'.merged = call.merged
                 /\ call'.unmerged = call.unmerged
              \/ \E n \in 0 .. size[f] :
                    /\ f \in present
                    /\ dest' = [dest EXCEPT ![call.dest] = @ \o Front(f, n)]
                    /\ \/ n # size[f] /\ call'.unmerged # {}
                          /\ call'.merged = call.merged
                       \/ n = size[f] /\ call'.unmerged = call.unmerged
                          /\ call'.merged = call.merged \cup {<<f, n>>}
<1>1. /\ call.step = "copy" /\ f \in call.todo /\ call.dest \in used
      /\ UNCHANGED <<running, opened, size, present, old, results, used, breach>>
      /\ call \in CallType /\ size[f] \in Nat
  BY DEF Copy, jobs, Basic, Types, CallHolds
<1>2. call.todo \ {f} \in SUBSET Files
  BY <1>1 DEF CallType
<1>3. CASE call' = [call EXCEPT !.todo = @ \ {f}] /\ UNCHANGED dest
  <2>1. /\ call'.step = "copy" /\ call'.job = call.job /\ call'.dest = call.dest
        /\ call'.todo = call.todo \ {f} /\ call'.merged = call.merged
        /\ call'.unmerged = call.unmerged
    BY <1>1, <1>3 DEF CallType
  <2>2. call' \in CallType
    BY <1>1, <1>2, <1>3 DEF CallType
  <2>. QED
    BY <1>1, <1>3, <2>1, <2>2
<1>4. ASSUME NEW n \in 0 .. (size[f] + 1), f \in present, Sent(f, n),
             dest' = [dest EXCEPT ![call.dest] = @ \o Front(f, n)],
             n < size[f],
             call' = [call EXCEPT !.todo = @ \ {f}, !.unmerged = @ \cup {f}]
      PROVE  /\ n \in 0 .. size[f] /\ n # size[f] /\ call' \in CallType
             /\ call'.step = "copy" /\ call'.job = call.job /\ call'.dest = call.dest
             /\ call'.todo = call.todo \ {f} /\ call'.merged = call.merged
             /\ call'.unmerged # {}
  <2>1. call.unmerged \cup {f} \in SUBSET Files
    BY <1>1 DEF CallType
  <2>2. call' \in CallType
    BY <1>1, <1>2, <1>4, <2>1 DEF CallType
  <2>3. /\ call'.step = "copy" /\ call'.job = call.job /\ call'.dest = call.dest
        /\ call'.todo = call.todo \ {f} /\ call'.merged = call.merged
        /\ call'.unmerged = call.unmerged \cup {f}
    BY <1>1, <1>4 DEF CallType
  <2>. QED
    BY <1>1, <1>4, <2>2, <2>3 DEF Sent
<1>5. ASSUME NEW n \in 0 .. (size[f] + 1), f \in present, Sent(f, n),
             dest' = [dest EXCEPT ![call.dest] = @ \o Front(f, n)],
             ~(n < size[f]),
             call' = [call EXCEPT !.todo = @ \ {f}, !.merged = @ \cup {<<f, n>>}]
      PROVE  /\ n \in 0 .. size[f] /\ n = size[f] /\ call' \in CallType
             /\ call'.step = "copy" /\ call'.job = call.job /\ call'.dest = call.dest
             /\ call'.todo = call.todo \ {f} /\ call'.unmerged = call.unmerged
             /\ call'.merged = call.merged \cup {<<f, n>>}
  <2>1. n \in 0 .. size[f] /\ n = size[f] /\ n \in Nat
    BY <1>1, <1>5 DEF Sent
  <2>2. call.merged \cup {<<f, n>>} \in SUBSET (Files \X Nat)
    BY <1>1, <2>1 DEF CallType
  <2>3. call' \in CallType
    BY <1>1, <1>2, <1>5, <2>2 DEF CallType
  <2>4. /\ call'.step = "copy" /\ call'.job = call.job /\ call'.dest = call.dest
        /\ call'.todo = call.todo \ {f} /\ call'.unmerged = call.unmerged
        /\ call'.merged = call.merged \cup {<<f, n>>}
    BY <1>1, <1>5 DEF CallType
  <2>. QED
    BY <2>1, <2>3, <2>4
<1>6. CASE /\ f \in present
           /\ \E n \in 0 .. (size[f] + 1) :
                /\ Sent(f, n)
                /\ dest' = [dest EXCEPT ![call.dest] = @ \o Front(f, n)]
                /\ call' = IF n < size[f]
                           THEN [call EXCEPT !.todo = @ \ {f},
                                             !.unmerged = @ \cup {f}]
                           ELSE [call EXCEPT !.todo = @ \ {f},
                                             !.merged = @ \cup {<<f, n>>}]
  <2>1. PICK n \in 0 .. (size[f] + 1) :
                /\ Sent(f, n)
                /\ dest' = [dest EXCEPT ![call.dest] = @ \o Front(f, n)]
                /\ call' = IF n < size[f]
                           THEN [call EXCEPT !.todo = @ \ {f},
                                             !.unmerged = @ \cup {f}]
                           ELSE [call EXCEPT !.todo = @ \ {f},
                                             !.merged = @ \cup {<<f, n>>}]
    BY <1>6
  <2>2. CASE n < size[f]
    BY <1>1, <1>4, <1>6, <2>1, <2>2
  <2>3. CASE ~(n < size[f])
    BY <1>1, <1>5, <1>6, <2>1, <2>3
  <2>. QED
    BY <2>2, <2>3
<1>. QED
  BY <1>3, <1>6 DEF Copy

LEMMA CopyBasic ==
    ASSUME Basic, NEW f \in Files, Copy(f)
    PROVE  Basic'
<1>. DEFINE d == call.dest
<1>1. /\ call.step = "copy" /\ f \in call.todo /\ d \in used /\ d \in Dests
      /\ UNCHANGED <<running, opened, size, present, old, results, used, breach>>
      /\ call' \in CallType /\ call'.step = "copy" /\ call'.job = call.job
      /\ call'.dest = call.dest /\ call'.todo = call.todo \ {f}
  BY CopyCases DEF Basic, Types
<1>2. f \in opened
  BY <1>1 DEF Basic, CallHolds
<1>3. \/ dest' = dest
      \/ \E n \in 0 .. size[f] : dest' = [dest EXCEPT ![d] = dest[d] \o Front(f, n)]
  BY CopyCases DEF Basic, Types
<1>4. Written' = Written
  BY <1>1 DEF Written
<1>5. ASSUME NEW n \in 0 .. size[f], dest' = [dest EXCEPT ![d] = dest[d] \o Front(f, n)]
      PROVE  dest' \in [Dests -> Seq(Files \X Nat)] /\ WrittenOnly' /\ UnusedEmpty'
  <2>1. Front(f, n) \in Seq(Written) /\ Front(f, n) \in Seq(Files \X Nat)
    BY <1>2, FrontWritten DEF Basic
  <2>2. /\ dest[d] \in Seq(Written) /\ dest[d] \in Seq(Files \X Nat)
        /\ dest \in [Dests -> Seq(Files \X Nat)]
    BY <1>1 DEF Basic, Types, WrittenOnly
  <2>3. dest[d] \o Front(f, n) \in Seq(Written)
        /\ dest[d] \o Front(f, n) \in Seq(Files \X Nat)
    BY <2>1, <2>2
  <2>4. /\ dest'[d] = dest[d] \o Front(f, n)
        /\ \A e \in Dests \ {d} : dest'[e] = dest[e]
    BY <1>1, <1>5, <2>2
  <2>5. dest' \in [Dests -> Seq(Files \X Nat)]
    BY <1>5, <2>2, <2>3
  <2>6. WrittenOnly'
    BY <1>4, <2>3, <2>4 DEF Basic, WrittenOnly
  <2>7. UnusedEmpty'
    BY <1>1, <2>4 DEF Basic, UnusedEmpty
  <2>. QED
    BY <2>5, <2>6, <2>7
<1>6. CASE dest' = dest
  <2>1. Types'
    BY <1>1, <1>6 DEF Basic, Types
  <2>2. CallHolds' /\ WrittenOnly' /\ UnusedEmpty'
    BY <1>1, <1>4, <1>6 DEF Basic, CallHolds, WrittenOnly, UnusedEmpty
  <2>. QED
    BY <2>1, <2>2 DEF Basic
<1>7. CASE \E n \in 0 .. size[f] : dest' = [dest EXCEPT ![d] = dest[d] \o Front(f, n)]
  <2>1. dest' \in [Dests -> Seq(Files \X Nat)] /\ WrittenOnly' /\ UnusedEmpty'
    BY <1>5, <1>7
  <2>2. Types'
    BY <1>1, <2>1 DEF Basic, Types
  <2>3. CallHolds'
    BY <1>1 DEF Basic, CallHolds
  <2>. QED
    BY <2>1, <2>2, <2>3 DEF Basic
<1>. QED
  BY <1>3, <1>6, <1>7

LEMMA FinishBasic ==
    ASSUME Basic, Finish
    PROVE  Basic'
<1>1. /\ call.job \in Jobs /\ call.dest \in used
      /\ UNCHANGED <<jobs, present, dest, used, breach>>
      /\ call.dest \in Dests /\ call \in CallType
  BY DEF Finish, Basic, Types, CallHolds
<1>2. /\ call' = NoCall /\ old' \in [Jobs -> SUBSET Files]
      /\ results' \subseteq ResultType
  <2>1. CASE Answer(call.job, call.dest, call.merged, TRUE)
    <3>1. call.merged \in SUBSET (Files \X Nat)
      BY <1>1 DEF CallType
    <3>. QED
      BY <1>1, <2>1, <3>1, AnswerType DEF Basic
  <2>2. CASE Fail(call.job) /\ UNCHANGED results
    BY <1>1, <2>2 DEF Fail, Basic, Types
  <2>. QED
    BY <2>1, <2>2 DEF Finish, Return
<1>. QED
  BY <1>1, <1>2, QuietBasic

LEMMA BasicStep == Basic /\ [Next]_vars => Basic'
<1>. SUFFICES ASSUME Basic, [Next]_vars PROVE Basic'
  OBVIOUS
<1>1. ASSUME NEW f \in Files, NEW j \in Jobs, Delete(j, f) PROVE Basic'
  BY <1>1, QuietBasic DEF Delete, Basic, Types
<1>2. ASSUME NEW j \in Jobs, Die(j) PROVE Basic'
  <2>1. old' \in [Jobs -> SUBSET Files]
    BY <1>2 DEF Die, Basic, Types
  <2>. QED
    BY <1>2, <2>1, QuietBasic DEF Die
<1>3. CASE \/ \E f \in Files : CreateStream(f) \/ Publish(f)
           \/ \E j \in Jobs : Terminate(j)
  BY <1>3, JobsBasic
<1>4. CASE UNCHANGED vars
  BY <1>4, QuietBasic DEF vars, Basic, Types
<1>. QED
  BY <1>1, <1>2, <1>3, <1>4, GlobBasic, OpenDestBasic, CopyBasic, FinishBasic
     DEF Next

\* The types and what a call holds.
THEOREM BasicInvariant == Spec => []Basic
  BY InitBasic, BasicStep, PTL DEF Spec
-----------------------------------------------------------------------------
(***************************************************************************)
(* Conservation.  Without misuse every file that a call may report, and    *)
(* every file that is gone, is of a job that has ended, so that it gets no *)
(* more records, and its records are in consolidated files that no later   *)
(* call opens.                                                             *)
(***************************************************************************)
Ended(f) == f \in opened /\ JobOf[f] \notin running
Held(f) == \A k \in 1 .. size[f] : \E d \in Dests : Record(f, k) \in Range(dest[d])
Safe(f) == Ended(f) /\ Held(f)

Accounted ==
    /\ \A f \in opened \ present : Safe(f)
    /\ \A j \in Jobs : \A f \in old[j] : Safe(f)
    /\ \A f \in call.todo : Ended(f)
    /\ \A r \in call.merged : Safe(r[1])

AccountedUnlessMisused == breach = {} => Accounted

LEMMA EndedKept ==
    ASSUME NEW f, Ended(f), running' \subseteq running, opened \subseteq opened'
    PROVE  Ended(f)'
  BY DEF Ended

LEMMA SafeKept ==
    ASSUME NEW f, Safe(f), running' \subseteq running, opened \subseteq opened',
           size'[f] = size[f],
           \A d \in Dests : Range(dest[d]) \subseteq Range(dest'[d])
    PROVE  Safe(f)'
<1>1. Ended(f)'
  BY EndedKept DEF Safe
<1>2. Held(f)'
  BY DEF Safe, Held
<1>. QED
  BY <1>1, <1>2 DEF Safe

\* The elements of a join of sequences.
LEMMA JoinParts ==
    ASSUME NEW S, NEW s \in Seq(S), NEW t \in Seq(S)
    PROVE  /\ Len(s) \in Nat /\ Len(t) \in Nat /\ DOMAIN s = 1 .. Len(s)
           /\ DOMAIN t = 1 .. Len(t) /\ DOMAIN (s \o t) = 1 .. (Len(s) + Len(t))
           /\ \A i \in 1 .. Len(s) : (s \o t)[i] = s[i]
           /\ \A i \in 1 .. Len(t) : (s \o t)[Len(s) + i] = t[i]
  OBVIOUS

\* A join of sequences holds what both hold.
LEMMA RangeJoin ==
    ASSUME NEW S, NEW s \in Seq(S), NEW t \in Seq(S)
    PROVE  /\ Range(s) \subseteq Range(s \o t) /\ Range(t) \subseteq Range(s \o t)
           /\ Range(s \o t) = Range(s) \cup Range(t)
<1>1. /\ Len(s) \in Nat /\ Len(t) \in Nat /\ DOMAIN s = 1 .. Len(s)
      /\ DOMAIN t = 1 .. Len(t) /\ DOMAIN (s \o t) = 1 .. (Len(s) + Len(t))
      /\ \A i \in 1 .. Len(s) : (s \o t)[i] = s[i]
      /\ \A i \in 1 .. Len(t) : (s \o t)[Len(s) + i] = t[i]
  BY JoinParts
<1>2. Range(s) \subseteq Range(s \o t)
  <2>1. ASSUME NEW i \in 1 .. Len(s)
        PROVE  i \in 1 .. (Len(s) + Len(t)) /\ (s \o t)[i] = s[i]
    BY <1>1
  <2>. QED
    BY <1>1, <2>1 DEF Range
<1>3. Range(t) \subseteq Range(s \o t)
  <2>1. ASSUME NEW i \in 1 .. Len(t)
        PROVE  Len(s) + i \in 1 .. (Len(s) + Len(t)) /\ (s \o t)[Len(s) + i] = t[i]
    BY <1>1
  <2>. QED
    BY <1>1, <2>1 DEF Range
<1>4. ASSUME NEW i \in 1 .. (Len(s) + Len(t))
      PROVE  (s \o t)[i] \in Range(s) \cup Range(t)
  <2>1. CASE i <= Len(s)
    <3>1. i \in 1 .. Len(s) /\ (s \o t)[i] = s[i]
      BY <1>1, <2>1
    <3>. QED
      BY <1>1, <3>1 DEF Range
  <2>2. CASE i > Len(s)
    <3>1. i - Len(s) \in 1 .. Len(t) /\ i = Len(s) + (i - Len(s))
      BY <1>1, <2>2
    <3>2. (s \o t)[i] = t[i - Len(s)]
      BY <1>1, <3>1
    <3>. QED
      BY <1>1, <3>1, <3>2 DEF Range
  <2>. QED
    BY <1>1, <2>1, <2>2
<1>5. Range(s \o t) \subseteq Range(s) \cup Range(t)
  BY <1>1, <1>4 DEF Range
<1>. QED
  BY <1>2, <1>3, <1>5

LEMMA InitAccounted == Init => AccountedUnlessMisused
  BY DEF Init, NoCall, AccountedUnlessMisused, Accounted

LEMMA JobsAccounted ==
    ASSUME Basic, Accounted,
           \/ \E f \in Files : CreateStream(f) \/ Publish(f)
           \/ \E j \in Jobs : Terminate(j)
    PROVE  Accounted'
<1>1. /\ UNCHANGED <<dest, call, old>> /\ running' \subseteq running
      /\ opened \subseteq opened' /\ opened' \ present' \subseteq opened \ present
  BY DEF CreateStream, Publish, Terminate
<1>2. \A f : Ended(f) => size'[f] = size[f]
  <2>1. size \in [Files -> Nat] /\ opened \subseteq Files
    BY DEF Basic, Types
  <2>. QED
    BY <2>1 DEF Ended, CreateStream, Publish, Terminate
<1>3. \A d \in Dests : Range(dest[d]) \subseteq Range(dest'[d])
  BY <1>1
<1>4. \A f : Safe(f) => Safe(f)'
  BY <1>1, <1>2, <1>3, SafeKept DEF Safe
<1>5. \A f : Ended(f) => Ended(f)'
  BY <1>1, EndedKept
<1>. QED
  BY <1>1, <1>4, <1>5 DEF Accounted

\* What leaves the files and the jobs alone and no consolidated file shorter.
LEMMA CallAccounted ==
    ASSUME Accounted, UNCHANGED jobs,
           \A d \in Dests : Range(dest[d]) \subseteq Range(dest'[d]),
           \A f \in present \ present' : Safe(f),
           \A j \in Jobs : \A f \in old'[j] : Safe(f),
           \A f \in call'.todo : Ended(f),
           \A r \in call'.merged : Safe(r[1]) \/ Safe(r[1])'
    PROVE  Accounted'
<1>1. UNCHANGED <<running, opened, size>>
  BY DEF jobs
<1>2. \A f : Safe(f) => Safe(f)'
  BY <1>1, SafeKept
<1>3. \A f : Ended(f) => Ended(f)'
  BY <1>1, EndedKept
<1>. QED
  BY <1>1, <1>2, <1>3 DEF Accounted

LEMMA StepAccounted == Basic /\ AccountedUnlessMisused /\ [Next]_vars => AccountedUnlessMisused'
<1>. SUFFICES ASSUME Basic, AccountedUnlessMisused, [Next]_vars, breach' = {}
              PROVE  Accounted'
  BY DEF AccountedUnlessMisused
<1>1. Accounted
  <2>1. breach \subseteq breach'
    BY DEF Next, CreateStream, Publish, Terminate, Glob, OpenDest, Copy, Finish, Delete,
       Die, vars
  <2>. QED
    BY <2>1 DEF AccountedUnlessMisused
<1>2. old \in [Jobs -> SUBSET Files] /\ call \in CallType
      /\ dest \in [Dests -> Seq(Files \X Nat)]
  BY DEF Basic, Types
<1>3. CASE \/ \E f \in Files : CreateStream(f) \/ Publish(f)
           \/ \E j \in Jobs : Terminate(j)
  BY <1>1, <1>3, JobsAccounted
<1>4. ASSUME NEW j \in Jobs, NEW d \in Dests, Glob(j, d) PROVE Accounted'
  <2>1. /\ UNCHANGED <<jobs, present, dest>> /\ old' = [old EXCEPT ![j] = {}]
        /\ call'.merged = {}
        /\ call'.todo = {} \/ call'.todo = present
    <3>1. {r[1] : r \in {}} = {}
      OBVIOUS
    <3>. QED
      BY <1>4, <3>1, NoCallType DEF Glob, Fail, Answer
  <2>2. \A f \in present : JobOf[f] \notin running
    BY <1>4 DEF Glob
  <2>3. \A f \in call'.todo : Ended(f)
    BY <2>1, <2>2 DEF Ended, Basic, Types
  <2>4. \A i \in Jobs : \A f \in old'[i] : Safe(f)
    BY <1>1, <1>2, <2>1 DEF Accounted
  <2>. QED
    BY <1>1, <2>1, <2>3, <2>4, CallAccounted
<1>5. CASE OpenDest
  <2>1. UNCHANGED <<jobs, present>> /\ call.dest \in Dests /\ call.job \in Jobs
    BY <1>5 DEF OpenDest, Basic, CallHolds
  <2>2. call'.todo \subseteq call.todo /\ call'.merged \subseteq call.merged
    <3>1. call' = NoCall \/ call' = [call EXCEPT !.step = "copy"]
      BY <1>5 DEF OpenDest, Fail
    <3>. QED
      BY <1>2, <3>1, NoCallType DEF CallType
  <2>3. \A i \in Jobs : old'[i] \subseteq old[i]
    BY <1>2, <1>5 DEF OpenDest, Fail
  <2>4. dest' = dest
    <3>1. CASE dest' = [dest EXCEPT ![call.dest] = <<>>] /\ call.dest \notin used
      <4>1. dest[call.dest] = <<>>
        BY <2>1, <3>1 DEF Basic, UnusedEmpty
      <4>. QED
        BY <1>2, <3>1, <4>1
    <3>. QED
      BY <1>5, <3>1 DEF OpenDest
  <2>. QED
    BY <1>1, <2>1, <2>2, <2>3, <2>4, CallAccounted DEF Accounted
<1>6. ASSUME NEW f \in Files, Copy(f) PROVE Accounted'
  <2>. DEFINE d == call.dest
  <2>1. /\ f \in call.todo /\ d \in Dests
        /\ UNCHANGED <<running, opened, size, present, old>>
        /\ call'.todo = call.todo \ {f}
    BY <1>6, CopyCases DEF Basic, Types
  <2>2. Ended(f) /\ f \in opened
    BY <1>1, <2>1 DEF Accounted, Ended
  <2>3. CASE dest' = dest /\ call'.merged = call.merged
    BY <1>1, <2>1, <2>3, CallAccounted DEF Accounted, jobs
  <2>4. ASSUME NEW n \in 0 .. size[f], dest' = [dest EXCEPT ![d] = @ \o Front(f, n)],
               \/ call'.merged = call.merged
               \/ n = size[f] /\ call'.merged = call.merged \cup {<<f, n>>}
        PROVE  Accounted'
    <3>1. Front(f, n) \in Seq(Files \X Nat) /\ dest[d] \in Seq(Files \X Nat)
      BY <1>2, <2>1, <2>2, FrontWritten DEF Basic
    <3>2. dest'[d] = dest[d] \o Front(f, n) /\ \A e \in Dests \ {d} : dest'[e] = dest[e]
      BY <1>2, <2>1, <2>4
    <3>3. \A e \in Dests : Range(dest[e]) \subseteq Range(dest'[e])
      <4>1. Range(dest[d]) \subseteq Range(dest[d] \o Front(f, n))
        BY <3>1, RangeJoin
      <4>. QED
        BY <3>2, <4>1
    <3>4. n = size[f] => Safe(f)'
      <4>1. SUFFICES ASSUME n = size[f] PROVE Held(f)'
        BY <2>1, <2>2 DEF Safe, Ended
      <4>2. ASSUME NEW k \in 1 .. size[f] PROVE Record(f, k) \in Range(dest'[d])
        <5>1. Record(f, k) \in Range(Front(f, n))
          BY <4>1 DEF Front, Range
        <5>. QED
          BY <3>1, <3>2, <5>1, RangeJoin
      <4>. QED
        BY <2>1, <4>2 DEF Held
    <3>5. \A r \in call'.merged : Safe(r[1]) \/ Safe(r[1])'
      BY <1>1, <2>4, <3>4 DEF Accounted
    <3>. QED
      BY <1>1, <2>1, <3>3, <3>5, CallAccounted DEF Accounted, jobs
  <2>. QED
    BY <1>6, <2>3, <2>4, CopyCases
<1>7. CASE Finish
  <2>1. UNCHANGED <<jobs, present, dest>> /\ call' = NoCall /\ call.job \in Jobs
    BY <1>7 DEF Finish, Return, Answer, Fail, Basic, CallHolds
  <2>2. \/ old' = [old EXCEPT ![call.job] = {}]
        \/ old' = [old EXCEPT ![call.job] = {r[1] : r \in call.merged}]
    BY <1>7 DEF Finish, Return, Answer, Fail
  <2>3. \A i \in Jobs : old'[i] \subseteq old[i] \/ old'[i] = {r[1] : r \in call.merged}
    BY <1>2, <2>1, <2>2
  <2>4. \A i \in Jobs : \A f \in old'[i] : Safe(f)
    BY <1>1, <2>3 DEF Accounted
  <2>. QED
    BY <1>1, <2>1, <2>4, NoCallType, CallAccounted
<1>8. ASSUME NEW j \in Jobs, NEW f \in Files, Delete(j, f) PROVE Accounted'
  BY <1>1, <1>8, CallAccounted DEF Delete, Accounted
<1>9. ASSUME NEW j \in Jobs, Die(j) PROVE Accounted'
  <2>1. UNCHANGED <<jobs, present, dest>> /\ call' \in {call, NoCall}
        /\ \A i \in Jobs : old'[i] \subseteq old[i]
    BY <1>2, <1>9 DEF Die
  <2>. QED
    BY <1>1, <2>1, NoCallType, CallAccounted DEF Accounted
<1>10. CASE UNCHANGED vars
  BY <1>1, <1>10, CallAccounted DEF vars, Accounted
<1>. QED
  BY <1>3, <1>4, <1>5, <1>6, <1>7, <1>8, <1>9, <1>10 DEF Next

\* As long as the calls are not misused no record is lost: each is in its source
\* file or in a consolidated file, whoever dies or deletes, and when.
THEOREM Conserved == Spec => []ConservedUnlessMisused
<1>1. Basic /\ AccountedUnlessMisused => ConservedUnlessMisused
  <2>. SUFFICES ASSUME Basic, AccountedUnlessMisused, breach = {},
                       NEW f \in opened, NEW k \in 1 .. size[f], f \notin present
                PROVE  \E d \in Dests : Record(f, k) \in Range(dest[d])
    BY DEF ConservedUnlessMisused, RecordsConserved
  <2>. QED
    BY DEF AccountedUnlessMisused, Accounted, Safe, Held
<1>. QED
  BY <1>1, BasicInvariant, InitAccounted, StepAccounted, PTL DEF Spec
-----------------------------------------------------------------------------
(***************************************************************************)
(* What a consolidated file consists of.                                   *)
(***************************************************************************)
Consecutive(s) ==
    \A i \in DOMAIN s :
        s[i][2] > 1 => i > 1 /\ s[i - 1] = Record(s[i][1], s[i][2] - 1)

Joined(s, m) ==
    /\ Range(s) = UNION {Range(Front(r[1], r[2])) : r \in m}
    /\ IsInjective(s)
    /\ Consecutive(s)

\* A result is joined, or of a call that matched nothing under an old name.
Good(r, ds, u) == \/ Joined(ds[r.dest], r.files)
                  \/ ~r.matched /\ r.files = {} /\ r.dest \in u

JoinInv ==
    /\ \A r \in results : Good(r, dest, used)
    /\ call.step = "copy" /\ call.unmerged = {} => Joined(dest[call.dest], call.merged)
    /\ \A r \in call.merged : r[1] \notin call.todo

LEMMA JoinedNothing == Joined(<<>>, {})
  BY DEF Joined, Range, IsInjective, Consecutive

\* A whole file that was not joined before is joined at the end.
LEMMA JoinedMore ==
    ASSUME NEW s \in Seq(Files \X Nat), NEW m \in SUBSET (Files \X Nat), Joined(s, m),
           NEW f \in Files, NEW n \in Nat, \A r \in m : r[1] # f
    PROVE  Joined(s \o Front(f, n), m \cup {<<f, n>>})
<1>. DEFINE t == Front(f, n)
            l == Len(s)
<1>1. /\ t \in Seq(Files \X Nat) /\ Len(t) = n
      /\ \A k \in 1 .. n : t[k] = <<f, k>>
  BY DEF Front, Record
<1>2. /\ l \in Nat /\ DOMAIN s = 1 .. l /\ DOMAIN t = 1 .. n
      /\ DOMAIN (s \o t) = 1 .. (l + n)
      /\ \A i \in 1 .. l : (s \o t)[i] = s[i]
      /\ \A k \in 1 .. n : (s \o t)[l + k] = t[k]
  <2>1. t \in Seq(Files \X Nat)
    BY <1>1
  <2>. HIDE DEF t
  <2>2. /\ Len(s) \in Nat /\ Len(t) \in Nat /\ DOMAIN s = 1 .. Len(s)
        /\ DOMAIN t = 1 .. Len(t) /\ DOMAIN (s \o t) = 1 .. (Len(s) + Len(t))
        /\ \A i \in 1 .. Len(s) : (s \o t)[i] = s[i]
        /\ \A i \in 1 .. Len(t) : (s \o t)[Len(s) + i] = t[i]
    BY <2>1, JoinParts
  <2>3. Len(t) = n
    BY <1>1
  <2>. QED
    BY <2>2, <2>3
<1>3. \A i \in 1 .. l : s[i][1] # f
  <2>1. ASSUME NEW i \in 1 .. l PROVE s[i][1] # f
    <3>1. s[i] \in Range(s)
      BY <1>2 DEF Range
    <3>2. PICK r \in m : s[i] \in Range(Front(r[1], r[2]))
      BY <3>1 DEF Joined
    <3>3. PICK k \in 1 .. r[2] : s[i] = <<r[1], k>>
      BY <3>2 DEF Front, Range, Record
    <3>. QED
      BY <3>3
  <2>. QED
    BY <2>1
<1>4. \A i \in 1 .. (l + n) : i \in 1 .. l \/ (i - l \in 1 .. n /\ i = l + (i - l))
  BY <1>2
<1>5. \A i \in 1 .. (l + n) : \/ i \in 1 .. l /\ (s \o t)[i] = s[i]
                              \/ i - l \in 1 .. n /\ (s \o t)[i] = <<f, i - l>>
  BY <1>1, <1>2, <1>4
<1>6. Range(s \o t) = UNION {Range(Front(r[1], r[2])) : r \in m \cup {<<f, n>>}}
  <2>1. Range(s \o t) = Range(s) \cup Range(t)
    BY <1>1, RangeJoin
  <2>2. UNION {Range(Front(r[1], r[2])) : r \in m \cup {<<f, n>>}}
          = (UNION {Range(Front(r[1], r[2])) : r \in m}) \cup Range(t)
    <3>. DEFINE Of(r) == Range(Front(r[1], r[2]))
    <3>1. Of(<<f, n>>) = Range(t)
      OBVIOUS
    <3>. HIDE DEF Of
    <3>2. UNION {Of(r) : r \in m \cup {<<f, n>>}}
            = (UNION {Of(r) : r \in m}) \cup Of(<<f, n>>)
      OBVIOUS
    <3>. QED
      BY <3>1, <3>2 DEF Of
  <2>. QED
    BY <2>1, <2>2 DEF Joined
<1>7. IsInjective(s \o t)
  <2>. SUFFICES ASSUME NEW i \in 1 .. (l + n), NEW j \in 1 .. (l + n),
                       (s \o t)[i] = (s \o t)[j]
                PROVE  i = j
    BY <1>2 DEF IsInjective
  <2>1. CASE i \in 1 .. l /\ j \in 1 .. l
    BY <1>2, <2>1 DEF Joined, IsInjective
  <2>2. CASE i \notin 1 .. l /\ j \notin 1 .. l
    <3>1. <<f, i - l>> = <<f, j - l>>
      BY <1>5, <2>2
    <3>2. i - l = j - l
      BY <3>1
    <3>. QED
      BY <1>2, <3>2
  <2>3. CASE i \in 1 .. l /\ j \notin 1 .. l
    <3>1. (s \o t)[i] = s[i] /\ (s \o t)[j] = <<f, j - l>>
      BY <1>2, <1>5, <2>3
    <3>2. s[i] = <<f, j - l>>
      BY <3>1
    <3>3. s[i][1] = f
      BY <3>2
    <3>. QED
      BY <1>3, <2>3, <3>3
  <2>4. CASE i \notin 1 .. l /\ j \in 1 .. l
    <3>1. (s \o t)[j] = s[j] /\ (s \o t)[i] = <<f, i - l>>
      BY <1>2, <1>5, <2>4
    <3>2. s[j] = <<f, i - l>>
      BY <3>1
    <3>3. s[j][1] = f
      BY <3>2
    <3>. QED
      BY <1>3, <2>4, <3>3
  <2>. QED
    BY <2>1, <2>2, <2>3, <2>4
<1>8. Consecutive(s \o t)
  <2>. SUFFICES ASSUME NEW i \in 1 .. (l + n), (s \o t)[i][2] > 1
                PROVE  i > 1 /\ (s \o t)[i - 1]
                                  = Record((s \o t)[i][1], (s \o t)[i][2] - 1)
    BY <1>2 DEF Consecutive
  <2>1. CASE i \in 1 .. l
    <3>1. (s \o t)[i] = s[i]
      BY <1>2, <2>1
    <3>2. i > 1 /\ s[i - 1] = Record(s[i][1], s[i][2] - 1)
      BY <1>2, <2>1, <3>1 DEF Joined, Consecutive
    <3>3. i - 1 \in 1 .. l
      BY <1>2, <2>1, <3>2
    <3>. QED
      BY <1>2, <3>1, <3>2, <3>3
  <2>2. CASE i \notin 1 .. l
    <3>. DEFINE k == i - l
    <3>1. k \in 1 .. n /\ (s \o t)[i] = <<f, k>>
      BY <1>5, <2>2
    <3>2. k > 1
      BY <3>1
    <3>3. k - 1 \in 1 .. n /\ i - 1 = l + (k - 1)
      BY <1>2, <3>1, <3>2
    <3>4. (s \o t)[l + (k - 1)] = <<f, k - 1>>
      BY <1>1, <1>2, <3>3
    <3>5. i > 1
      BY <1>2, <3>1, <3>2
    <3>6. (s \o t)[i - 1] = <<f, k - 1>>
      BY <3>3, <3>4
    <3>7. (s \o t)[i][1] = f /\ (s \o t)[i][2] = k
      BY <3>1
    <3>. QED
      BY <3>5, <3>6, <3>7 DEF Record
  <2>. QED
    BY <2>1, <2>2
<1>. QED
  BY <1>6, <1>7, <1>8 DEF Joined

LEMMA InitJoin == Init => JoinInv
  BY DEF Init, NoCall, JoinInv

\* What joins nothing: the consolidated files and the results are as they were.
LEMMA QuietJoin ==
    ASSUME JoinInv, UNCHANGED <<dest, results>>, used \subseteq used',
           \/ call' = call
           \/ call'.step # "copy" /\ call'.merged = {}
    PROVE  JoinInv'
  BY DEF JoinInv, Good

LEMMA StepJoin == Basic /\ JoinInv /\ [Next]_vars => JoinInv'
<1>. SUFFICES ASSUME Basic, JoinInv, [Next]_vars PROVE JoinInv'
  OBVIOUS
<1>1. /\ call \in CallType /\ dest \in [Dests -> Seq(Files \X Nat)]
      /\ results \subseteq ResultType
  BY DEF Basic, Types
<1>2. CASE \/ UNCHANGED vars
           \/ \E f \in Files : CreateStream(f) \/ Publish(f)
           \/ \E j \in Jobs : Terminate(j) \/ Die(j) \/ \E f \in Files : Delete(j, f)
  <2>1. UNCHANGED <<dest, results, used>> /\ call' \in {call, NoCall}
    BY <1>2 DEF vars, CreateStream, Publish, Terminate, Die, Delete
  <2>. QED
    BY <2>1, NoCallType, QuietJoin
<1>3. ASSUME NEW j \in Jobs, NEW d \in Dests, Glob(j, d) PROVE JoinInv'
  <2>1. UNCHANGED <<dest, used>> /\ call'.step # "copy" /\ call'.merged = {}
    BY <1>3, NoCallType DEF Glob, Fail, Answer
  <2>2. CASE UNCHANGED results
    BY <2>1, <2>2, QuietJoin
  <2>3. CASE Answer(j, d, {}, FALSE)
    <3>. DEFINE r == [dest |-> d, files |-> {}, matched |-> FALSE]
    <3>1. r.dest = d /\ r.files = {} /\ r.matched = FALSE
      OBVIOUS
    <3>2. results' = results \cup {r}
      BY <2>3 DEF Answer
    <3>. HIDE DEF r
    <3>3. Good(r, dest', used')
      <4>1. CASE d \in used
        BY <2>1, <3>1, <4>1 DEF Good
      <4>2. CASE d \notin used
        <5>1. dest'[r.dest] = <<>>
          BY <2>1, <3>1, <4>2 DEF Basic, UnusedEmpty
        <5>2. Joined(dest'[r.dest], r.files)
          BY <3>1, <5>1, JoinedNothing
        <5>. QED
          BY <5>2 DEF Good
      <4>. QED
        BY <4>1, <4>2
    <3>4. \A q \in results : Good(q, dest', used')
      BY <2>1 DEF JoinInv, Good
    <3>. QED
      BY <2>1, <3>2, <3>3, <3>4 DEF JoinInv
  <2>. QED
    BY <1>3, <2>2, <2>3 DEF Glob
<1>4. CASE OpenDest
  <2>. DEFINE d == call.dest
  <2>1. d \in Dests /\ call.merged = {}
    BY <1>4 DEF OpenDest, Basic, CallHolds
  <2>2. CASE call' = NoCall /\ UNCHANGED <<dest, results, used>>
    BY <2>1, <2>2, NoCallType, QuietJoin
  <2>3. CASE /\ call' = [call EXCEPT !.step = "copy"]
             /\ dest' = [dest EXCEPT ![d] = <<>>]
             /\ results' = {r \in results : r.dest # d} /\ used' = used \cup {d}
    <3>1. call'.dest = d /\ call'.merged = {}
      BY <1>1, <2>1, <2>3 DEF CallType
    <3>2. /\ dest'[d] = <<>>
          /\ \A r \in results' : r \in results /\ dest'[r.dest] = dest[r.dest]
      BY <1>1, <2>1, <2>3 DEF ResultType
    <3>3. Joined(dest'[call'.dest], call'.merged)
      BY <3>1, <3>2, JoinedNothing
    <3>4. \A r \in results' : Good(r, dest', used')
      BY <2>3, <3>2 DEF JoinInv, Good
    <3>. QED
      BY <3>1, <3>3, <3>4 DEF JoinInv
  <2>. QED
    BY <1>4, <2>2, <2>3 DEF OpenDest, Fail
<1>5. ASSUME NEW f \in Files, Copy(f) PROVE JoinInv'
  <2>. DEFINE d == call.dest
  <2>1. /\ call.step = "copy" /\ d \in Dests /\ f \in call.todo
        /\ \A r \in results : r.dest # d
        /\ UNCHANGED <<size, results, used>> /\ size[f] \in Nat
        /\ call'.step = "copy" /\ call'.dest = d /\ call'.todo = call.todo \ {f}
        /\ f \in opened
    BY <1>5, CopyCases DEF Basic, Types, CallHolds
  <2>2. CASE /\ dest' = dest /\ call'.merged = call.merged
             /\ call'.unmerged = call.unmerged
    BY <2>1, <2>2 DEF JoinInv, Good
  <2>3. ASSUME NEW n \in 0 .. size[f], dest' = [dest EXCEPT ![d] = @ \o Front(f, n)],
               \/ call'.unmerged # {} /\ call'.merged = call.merged
               \/ /\ n = size[f] /\ call'.unmerged = call.unmerged
                  /\ call'.merged = call.merged \cup {<<f, n>>}
        PROVE  JoinInv'
    <3>1. dest'[d] = dest[d] \o Front(f, n) /\ \A e \in Dests \ {d} : dest'[e] = dest[e]
      BY <1>1, <2>1, <2>3
    <3>2. \A r \in results' : Good(r, dest', used')
      <4>1. \A r \in results : dest'[r.dest] = dest[r.dest]
        BY <1>1, <2>1, <3>1 DEF ResultType
      <4>. QED
        BY <2>1, <4>1 DEF JoinInv, Good
    <3>3. \A r \in call'.merged : r[1] \notin call'.todo
      BY <2>1, <2>3 DEF JoinInv
    <3>4. call'.unmerged = {} => Joined(dest'[d], call'.merged)
      <4>. SUFFICES ASSUME call'.unmerged = {} PROVE Joined(dest'[d], call'.merged)
        OBVIOUS
      <4>1. /\ n \in Nat /\ call.unmerged = {} /\ call'.merged = call.merged \cup {<<f, n>>}
        BY <2>1, <2>3
      <4>2. Joined(dest[d], call.merged) /\ \A r \in call.merged : r[1] # f
        BY <2>1, <4>1 DEF JoinInv
      <4>3. dest[d] \in Seq(Files \X Nat) /\ call.merged \in SUBSET (Files \X Nat)
        BY <1>1, <2>1 DEF CallType
      <4>4. Joined(dest[d] \o Front(f, n), call.merged \cup {<<f, n>>})
        BY <4>1, <4>2, <4>3, JoinedMore
      <4>. QED
        BY <3>1, <4>1, <4>4
    <3>. QED
      BY <2>1, <3>2, <3>3, <3>4 DEF JoinInv
  <2>. QED
    BY <1>5, <2>2, <2>3, CopyCases
<1>6. CASE Finish
  <2>. DEFINE d == call.dest
  <2>1. /\ call.step = "copy" /\ d \in Dests /\ call' = NoCall
        /\ UNCHANGED <<dest, used>>
    BY <1>6 DEF Finish, Return, Answer, Fail, Basic, CallHolds
  <2>2. CASE UNCHANGED results
    BY <2>1, <2>2, NoCallType, QuietJoin
  <2>3. CASE call.unmerged = {} /\ Answer(call.job, d, call.merged, TRUE)
    <3>. DEFINE r == [dest |-> d, files |-> call.merged, matched |-> TRUE]
    <3>1. Joined(dest[d], call.merged)
      BY <2>1, <2>3 DEF JoinInv
    <3>2. Good(r, dest', used')
      BY <2>1, <3>1 DEF Good
    <3>3. \A q \in results : Good(q, dest', used')
      BY <2>1 DEF JoinInv, Good
    <3>. QED
      BY <2>1, <2>3, <3>2, <3>3, NoCallType DEF Answer, JoinInv
  <2>. QED
    BY <1>6, <2>2, <2>3 DEF Finish, Return
<1>. QED
  BY <1>2, <1>3, <1>4, <1>5, <1>6 DEF Next

\* A file that was returned consists of the whole files listed with it, each
\* once, one after the other, unless the call matched nothing and was given a
\* name that an earlier call had opened.
THEOREM Whole == Spec => []ResultsAreWhole
<1>1. \A s, m : Joined(s, m) <=> WholeFiles(s, m)
  BY DEF Joined, Consecutive, WholeFiles
<1>2. JoinInv => ResultsAreWhole
  BY <1>1 DEF JoinInv, Good, ResultsAreWhole
<1>. QED
  BY <1>2, BasicInvariant, InitJoin, StepJoin, PTL DEF Spec

\* Every variable keeps its type, and consolidated files hold nothing but what
\* some publisher wrote.
THEOREM TypeCorrect == Spec => []TypeOK
<1>1. Basic => TypeOK
  BY DEF Basic, Types, CallType, ResultType, WrittenOnly, TypeOK
<1>. QED
  BY <1>1, BasicInvariant, PTL
=============================================================================

---------------------------- MODULE Consolidation ----------------------------
(***************************************************************************)
(* consolidate_multifile_logs (adc/publisher/impl/multifile.ipp), which    *)
(* joins the files that the multifile publishers of one user left, with    *)
(* the jobs that write them and the callers that delete what was merged,   *)
(* as adc/utility.hpp recommends.  All jobs have the same DIRECTORY and    *)
(* ADC_WFID, or none: one pattern matches the files of them all.  A call   *)
(* is made for a job once its publishers are terminated; calls do not      *)
(* overlap, callers may die and call again.                                *)
(***************************************************************************)
EXTENDS Naturals, Sequences, FiniteSets, Functions

CONSTANTS
    Jobs,
    Files,       \* application.Rrank.XXXXXX files, each of one publisher
    JobOf,       \* the job whose publisher writes each file
    Dests,       \* names of consolidated files: one for a given ADC_WFID, one
                 \* for every second in which a call is made without it
    NoDest,
    NoJob,
    MaxRecords   \* bound: records in each file

ASSUME ConsolidationAssumption ==
    /\ JobOf \in [Files -> Jobs]
    /\ NoDest \notin Dests
    /\ NoJob \notin Jobs
    /\ MaxRecords \in [Files -> Nat]

VARIABLES
    running,   \* jobs that have not terminated their publishers
    opened,    \* files that their publisher has made
    size,      \* the records written to each file
    present,   \* names of source files in the directory tree
    dest,      \* the records in each consolidated file
    call,      \* the consolidation in progress
    old,       \* old_paths of the last call made for each job
    results,   \* history: what calls returned, save dests opened again since
    used,      \* history: dests that some call has opened
    breach     \* history: the ways in which the calls were misused

jobs == <<running, opened, size>>
vars == <<jobs, present, dest, call, old, results, used, breach>>

\* The k-th record written to f.
Record(f, k) == <<f, k>>
Written == UNION {{Record(f, k) : k \in 1..size[f]} : f \in opened}

NoCall == [step |-> "idle", job |-> NoJob, dest |-> NoDest,
           todo |-> {}, merged |-> {}, unmerged |-> {}]

Init ==
    /\ running = Jobs
    /\ opened = {}
    /\ size = [f \in Files |-> 0]
    /\ present = {}
    /\ dest = [d \in Dests |-> <<>>]
    /\ call = NoCall
    /\ old = [j \in Jobs |-> {}]
    /\ results = {}
    /\ used = {}
    /\ breach = {}
-----------------------------------------------------------------------------
\* create_stream makes a new file, into which publish then writes.
CreateStream(f) ==
    /\ JobOf[f] \in running
    /\ f \notin opened
    /\ opened' = opened \cup {f}
    /\ present' = present \cup {f}
    /\ UNCHANGED <<running, size, dest, call, old, results, used, breach>>

\* The stream stays open until finalize, whatever becomes of the file's name.
Publish(f) ==
    /\ JobOf[f] \in running
    /\ f \in opened
    /\ size[f] < MaxRecords[f]
    /\ size' = [size EXCEPT ![f] = @ + 1]
    /\ UNCHANGED <<running, opened, present, dest, call, old, results, used, breach>>

\* Every publisher of the job is finalized.
Terminate(j) ==
    /\ j \in running
    /\ running' = running \ {j}
    /\ UNCHANGED <<opened, size, present, dest, call, old, results, used, breach>>
-----------------------------------------------------------------------------
\* A call that ends in an error returns no file and clears old_paths.
Fail(j) ==
    /\ call' = NoCall
    /\ old' = [old EXCEPT ![j] = {}]

\* A call for j returns the name d with the files and sizes that were merged.
Answer(j, d, files, matched) ==
    /\ call' = NoCall
    /\ old' = [old EXCEPT ![j] = {r[1] : r \in files}]
    /\ results' = results \cup {[dest |-> d, files |-> files, matched |-> matched]}

\* Mutant: the files that could be merged are reported though the join failed.
ReturnAlways(j, d) == Answer(j, d, call.merged, TRUE)

\* All files were tried: dest and the merged files, or nothing.
Return(j, d) ==
    \/ /\ call.unmerged = {}
       /\ Answer(j, d, call.merged, TRUE)
    \/ /\ call.unmerged # {}
       /\ Fail(j)
       /\ UNCHANGED results

\* glob.  It may fail.  With no match the name d is a result all the same, with
\* no merged file: of no file, or of what earlier calls left under that name.
Glob(j, d) ==
    /\ call.step = "idle"
    /\ j \notin running
    /\ breach' = IF \E f \in present : JobOf[f] \in running
                 THEN breach \cup {"early"} ELSE breach
    /\ \/ /\ present # {}
          /\ call' = [step |-> "open", job |-> j, dest |-> d, todo |-> present,
                      merged |-> {}, unmerged |-> {}]
          /\ old' = [old EXCEPT ![j] = {}]
          /\ UNCHANGED results
       \/ /\ present = {}
          /\ Answer(j, d, {}, FALSE)
       \/ /\ Fail(j)
          /\ UNCHANGED results
    /\ UNCHANGED <<jobs, present, dest, used>>

\* open with O_TRUNC
OpenDest ==
    LET d == call.dest
    IN  /\ call.step = "open"
        /\ \/ /\ call' = [call EXCEPT !.step = "copy"]
              /\ dest' = [dest EXCEPT ![d] = <<>>]
              /\ results' = {r \in results : r.dest # d}
              /\ used' = used \cup {d}
              /\ breach' = IF d \in used THEN breach \cup {"reused"} ELSE breach
              /\ UNCHANGED old
           \/ /\ Fail(call.job)
              /\ UNCHANGED <<dest, results, used, breach>>
        /\ UNCHANGED <<jobs, present>>

Front(f, n) == [k \in 1..n |-> Record(f, k)]

\* Mutant: one more than the size found is sent.
SentPastEnd(f, n) == n = size[f] + 1

\* sendfile: all the records found in f, or an error after some of them.
Sent(f, n) == n \in 0..size[f]

\* The next file, in no particular order.  One that cannot be opened is passed
\* over; one that cannot be read to its end spoils the result.
Copy(f) ==
    /\ call.step = "copy"
    /\ f \in call.todo
    /\ \/ /\ call' = [call EXCEPT !.todo = @ \ {f}]
          /\ UNCHANGED dest
       \/ /\ f \in present
          /\ \E n \in 0..(size[f] + 1) :
                /\ Sent(f, n)
                /\ dest' = [dest EXCEPT ![call.dest] = @ \o Front(f, n)]
                /\ call' = IF n < size[f]
                            THEN [call EXCEPT !.todo = @ \ {f},
                                              !.unmerged = @ \cup {f}]
                            ELSE [call EXCEPT !.todo = @ \ {f},
                                              !.merged = @ \cup {<<f, n>>}]
    /\ UNCHANGED <<jobs, present, old, results, used, breach>>

Finish ==
    /\ call.step = "copy"
    /\ call.todo = {}
    /\ Return(call.job, call.dest)
    /\ UNCHANGED <<jobs, present, dest, used, breach>>

\* Mutant: everything that glob found is deleted, merged or not.
DeleteAllFound(j, f) ==
    /\ f \in present
    /\ JobOf[f] \notin running
    /\ present' = present \ {f}
    /\ UNCHANGED <<jobs, dest, call, old, results, used, breach>>

\* The caller deletes a file of old_paths, "recommended" by adc/utility.hpp.
Delete(j, f) ==
    /\ f \in old[j] \cap present
    /\ present' = present \ {f}
    /\ UNCHANGED <<jobs, dest, call, old, results, used, breach>>

\* The caller dies, within a call or while it deletes.
Die(j) ==
    /\ old' = [old EXCEPT ![j] = {}]
    /\ call' = IF call.job = j THEN NoCall ELSE call
    /\ UNCHANGED <<jobs, present, dest, results, used, breach>>

Next ==
    \/ \E f \in Files : CreateStream(f) \/ Publish(f) \/ Copy(f)
    \/ OpenDest \/ Finish
    \/ \E j \in Jobs : \/ Terminate(j) \/ Die(j)
                       \/ \E d \in Dests : Glob(j, d)
                       \/ \E f \in Files : Delete(j, f)

Spec == Init /\ [][Next]_vars
-----------------------------------------------------------------------------
\* Consolidated files hold nothing but what was written to a source file.
TypeOK ==
    /\ running \subseteq Jobs
    /\ opened \subseteq Files
    /\ size \in [Files -> Nat]
    /\ present \subseteq opened
    /\ \A d \in Dests : dest[d] \in Seq(Written)
    /\ call \in [step : {"idle", "open", "copy"}, job : Jobs \cup {NoJob},
                 dest : Dests \cup {NoDest}, todo : SUBSET Files,
                 merged : SUBSET (Files \X Nat), unmerged : SUBSET Files]
    /\ old \in [Jobs -> SUBSET Files]
    /\ results \subseteq [dest : Dests, files : SUBSET (Files \X Nat),
                           matched : BOOLEAN]
    /\ used \subseteq Dests
    /\ breach \subseteq {"early", "reused"}

\* The records in a consolidated file are those of the given files: all of each,
\* once, in order, one file after the other, and no others.
WholeFiles(records, files) ==
    /\ Range(records) = UNION {Range(Front(r[1], r[2])) : r \in files}
    /\ IsInjective(records)
    /\ \A i \in DOMAIN records :
          LET f == records[i][1]
              k == records[i][2]
          IN  k > 1 => i > 1 /\ records[i - 1] = Record(f, k - 1)

\* A file returned as a result consists of the whole source files that old_paths
\* got with it (multifile.ipp 509-513, 461-476).  There is one exception: a call
\* that matched nothing returns the name it made up (531-533, 478), under which
\* an earlier call, also one that failed, may have left other records.
ResultsAreWhole ==
    \A r \in results :
        \/ WholeFiles(dest[r.dest], r.files)
        \/ ~r.matched /\ r.files = {} /\ r.dest \in used

\* Every record is in its source file or in a consolidated file.  "deleting the
\* files in the list is recommended" (adc/utility.hpp 31-32).
RecordsConserved ==
    \A f \in opened : \A k \in 1..size[f] :
        f \in present \/ \E d \in Dests : Record(f, k) \in Range(dest[d])

\* Nothing is ever lost, in any interleaving of calls, deletions and deaths, as
\* long as no call matches a file of a publisher that is still running and none
\* is given a consolidated file that an earlier call has opened.
ConservedUnlessMisused == breach = {} => RecordsConserved
=============================================================================

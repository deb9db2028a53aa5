----------------------------- MODULE SilverMerge -----------------------------
(***************************************************************************)
(* The ETL queue together with the OpenAlex harvest.  A work is harvested  *)
(* into silver_openalex as a document of its own; the pipeline merges it   *)
(* into the silver document of its SciELO items and removes it from there. *)
(* A later version of the work is harvested into silver_openalex again and *)
(* the rows of the items merged with it are requeued.                      *)
(*                                                                         *)
(* A work has the name of the silver document it is the counterpart of,    *)
(* which several items may share; 0 stands for no version.                 *)
(***************************************************************************)
EXTENDS EtlQueue

CONSTANT MaxWork   \* bound: versions an OpenAlex work goes through

ASSUME MaxWorkAssumption == MaxWork \in Nat \ {0}

VARIABLES
  work,      \* version of the work harvested last
  only,      \* version of the work in silver_openalex
  fused,     \* version of the work merged into the silver document
  taken,     \* versions the pipeline of a worker found
  removing,  \* works a worker's pipeline has still to remove
  updated,   \* works indexed by the harvest whose items are not requeued yet
  missed     \* auxiliary: works whose update found no row to requeue while a run
             \* had an earlier version in its hands, and that no run has looked for since

openalex == <<work, only, fused, taken, removing, updated, missed>>
allvars  == <<vars, openalex>>

Works == 0 .. MaxWork

DocumentsOf(S) == {Document[i] : i \in S}

MergeInit ==
  /\ Init
  /\ work = [d \in Documents |-> 0]
  /\ only = [d \in Documents |-> 0]
  /\ fused = [d \in Documents |-> 0]
  /\ taken = [w \in Workers |-> [d \in Documents |-> 0]]
  /\ removing = [w \in Workers |-> {}]
  /\ updated = {} /\ missed = {}

(***************************************************************************)
(* The OpenAlex harvest: index_openalex_batch                              *)
(***************************************************************************)

\* The bulk request for a batch of works: new versions, or those of a part that
\* was not completed and is harvested again, as after a harvest that died
\* before it requeued.
IndexBatch(S, new) ==
  /\ S # {} /\ S \subseteq DocumentsOf(Matched)
  /\ updated = {} \/ (~new /\ updated \subseteq S)
  /\ IF new
       THEN /\ \A d \in S : work[d] < MaxWork
            /\ work' = [d \in Documents |-> IF d \in S THEN work[d] + 1 ELSE work[d]]
       ELSE (\A d \in S : work[d] > 0) /\ UNCHANGED work
  /\ only' = [d \in Documents |-> IF d \in S THEN work'[d] ELSE only[d]]
  /\ updated' = S
  /\ UNCHANGED <<fused, taken, removing, missed>> /\ UNCHANGED vars

\* requeue_etl_items_for_openalex_updates after the bulk request: rows that have an
\* updated work among their matches.
RequeueMerged ==
  LET merged == {i \in Existing : row[i].match /\ Document[i] \in updated} IN
  /\ updated # {} /\ updated' = {}
  /\ IF merged = {} THEN UNCHANGED vars ELSE RequeueForOpenAlex(merged)
  /\ missed' = missed \cup
       {d \in updated \ DocumentsOf(merged) : \E w \in Workers : taken[w][d] > 0}
  /\ UNCHANGED <<work, only, fused, taken, removing>>

(***************************************************************************)
(* The pipeline                                                            *)
(***************************************************************************)

\* find_matches searches silver_openalex for the works of the documents of the group;
\* a search that fails finds nothing.
FindMatches(w, t, failed) ==
  LET items == {i \in todo[w] : TypeOf[i] = t}
      matches == {i \in items : only[Document[i]] > 0 /\ Document[i] \notin failed}
  IN
  /\ LoadGroup(w, t, matches)
  /\ taken' = [taken EXCEPT ![w] = [d \in Documents |->
                 IF d \in DocumentsOf(matches) THEN only[d] ELSE 0]]
  /\ missed' = missed \ DocumentsOf(items)
  /\ UNCHANGED <<work, only, fused, removing, updated>>

\* Mutant of Fuse: a document written without a work keeps what it had of one.
FuseKeeps(w, S) ==
  fused' = [d \in Documents |->
              IF d \in DocumentsOf(S) /\ taken[w][d] > 0 THEN taken[w][d] ELSE fused[d]]

\* The documents of S are written anew, with the work found now or without.
Fuse(w, S) ==
  fused' = [d \in Documents |-> IF d \in DocumentsOf(S) THEN taken[w][d] ELSE fused[d]]

\* _index_silver_documents wrote everything; the works of the documents that
\* were merged and not skipped are to be removed.
WriteMerged(w) ==
  /\ PipelineSucceeds(w)
  /\ Fuse(w, Indexable(group[w]))
  /\ removing' = [removing EXCEPT ![w] = DocumentsOf(Indexable(found[w]))]
  /\ UNCHANGED <<work, only, taken, updated, missed>>

\* Mutant of WritePart: the works are removed although the bulk request failed.
RemovesUnwritten(w, written) ==
  /\ PipelineFails(w, written)
  /\ Fuse(w, written)
  /\ removing' = [removing EXCEPT ![w] = DocumentsOf(found[w])]
  /\ UNCHANGED <<work, only, taken, updated, missed>>

\* A bulk request failed and nothing is removed, or other documents failed
\* before it and the works of those that were written are.
WritePart(w, written) ==
  /\ PipelineFails(w, written)
  /\ Context(written) \cap group[w] = written
  /\ Fuse(w, written)
  /\ \/ UNCHANGED removing
     \/ removing' = [removing EXCEPT ![w] = DocumentsOf(found[w] \cap written)]
  /\ UNCHANGED <<work, only, taken, updated, missed>>

\* _remove_openalex_only_placeholders deletes by id, whatever version is there;
\* its errors are swallowed.
RemovePlaceholders(w) ==
  /\ removing[w] # {}
  /\ \/ only' = [d \in Documents |-> IF d \in removing[w] THEN 0 ELSE only[d]]
     \/ UNCHANGED only
  /\ removing' = [removing EXCEPT ![w] = {}]
  /\ UNCHANGED <<work, fused, taken, updated, missed>> /\ UNCHANGED vars

\* What follows the pipeline.
Mark(w) ==
  /\ removing[w] = {}
  /\ \E i \in Items : MarkSuccess(w, i) \/ MarkRaises(w, i) \/ MarkFailed(w, i)
  /\ UNCHANGED openalex

Leaves(w) ==
  /\ FinishBatch(w) \/ (w \in Mortal /\ Crash(w))
  /\ taken' = [taken EXCEPT ![w] = [d \in Documents |-> 0]]
  /\ removing' = [removing EXCEPT ![w] = {}]
  /\ UNCHANGED <<work, only, fused, updated, missed>>

QueueStep ==
  /\ \/ \E p \in Producers : Enqueue(p)
     \/ \E p \in Producers, i \in Items, changed \in BOOLEAN,
          initial \in InitialStatuses : StartEnqueue(p, i, changed, initial)
     \/ \E S \in SUBSET Items : ResetToPending(S)
     \/ \E t \in Types : RetryFailedByType(t)
     \/ \E i \in Items : TimePasses(i)
     \/ \E w \in Workers : PendingRun(w, Types) \/ RetryRun(w, Types)
  /\ UNCHANGED openalex

MergeNext ==
  \/ \E S \in SUBSET Documents, new \in BOOLEAN : IndexBatch(S, new)
  \/ RequeueMerged
  \/ \E w \in Workers, t \in Types, failed \in SUBSET Documents : FindMatches(w, t, failed)
  \/ \E w \in Workers : WriteMerged(w) \/ RemovePlaceholders(w)
  \/ \E w \in Workers, written \in SUBSET Items : WritePart(w, written)
  \/ \E w \in Workers : Mark(w) \/ Leaves(w)
  \/ QueueStep

MergeSpec == MergeInit /\ [][MergeNext]_allvars
-----------------------------------------------------------------------------
\* Type invariant of the composition.
MergeTypeOK ==
  /\ TypeOK
  /\ {work, only, fused} \subseteq [Documents -> Works]
  /\ taken \in [Workers -> [Documents -> Works]]
  /\ removing \in [Workers -> SUBSET Documents]
  /\ updated \subseteq Documents /\ missed \subseteq Documents

\* A work leaves silver_openalex only when its silver document shows some
\* version of it, so that it is never in neither index because of the removal
\* itself (runs that do not overlap).
RemovedOnlyAfterMerge ==
  [][\A d \in Documents : only[d] > 0 /\ only'[d] = 0 => fused'[d] > 0]_allvars

\* Some item of the document is not reported as done: a run is at it or is to come.
Due(d) == \E i \in Existing \ Settled : Document[i] = d

\* The document shows no work, or the version harvested last, or will be written anew.
Reached(d) == fused[d] \in {0, work[d]} \/ Due(d)

\* An update of a work is not lost to the silver document merged with an earlier
\* version, though several items share the document, the flag the requeue goes by is
\* each row's own, a run for one item may leave the document without the work while
\* the rows of the others say they are merged with it, and runs fail or are killed
\* (requeue_etl_items_for_openalex_updates).  Except for the updates that fall into
\* the run which merges the work for the first time (missed).
StaleMergeIsDue == \A d \in Documents \ (updated \cup missed) : Reached(d)

\* The same without the exception, as the requeue's docstring has it.
MergedWithUpdateIsRequeued == \A d \in Documents \ updated : Reached(d)
=============================================================================

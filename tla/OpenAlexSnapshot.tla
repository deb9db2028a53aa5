--------------------------- MODULE OpenAlexSnapshot ---------------------------
(***************************************************************************)
(* The incremental harvest of the OpenAlex snapshot.  OpenAlex publishes   *)
(* manifests; manifest m lists the parts 1 .. m in the order of updated_   *)
(* date, and a work updated since the last manifest has moved to the new   *)
(* part.  A run takes the parts of a manifest one after the other,         *)
(* downloads each, writes its works in batches into silver_openalex and    *)
(* requeues the ETL rows merged with them.  What was done is recorded in   *)
(* rows of OpenAlexHarvestRequest, by which the next run resumes.          *)
(*                                                                         *)
(* The version of a work is the number of the part it was found in.        *)
(***************************************************************************)
EXTENDS Integers, Sequences, FiniteSets, FiniteSetsExt

CONSTANTS
  Works,          \* OpenAlex works that pass the filters of year and is_xpac
  Runs,           \* Celery processes running harvest_openalex_works
  MaxKills,       \* bound: times a run is killed
  FirstManifest,  \* manifest published at the beginning
  LastManifest,   \* bound: manifests published
  FromDates,      \* from_updated_date of the runs, as the first part included
  BatchSize,
  MaxRows         \* bound: request rows for one part or manifest

ASSUME ManifestAssumption ==
  FirstManifest \in Nat \ {0} /\ LastManifest \in Nat /\ FirstManifest <= LastManifest
ASSUME BatchAssumption == BatchSize \in Nat \ {0}
ASSUME RunAssumption == MaxKills \in Nat /\ FromDates \subseteq Nat \ {0} /\ MaxRows \in Nat

VARIABLES
  manifest,    \* manifest published last
  home,        \* home[w]: the part that holds work w
  kills,       \* times a run was killed
  index,       \* index[w]: version of w in silver_openalex (0: none)
  unrequeued,  \* works written whose merged ETL rows were not requeued since
  ignored,     \* <<w, p>>: a download of p ignored w and none has written it since
  partRows,    \* partRows[p]: OpenAlexHarvestRequest rows of kind part
  manifestRows,\* manifestRows[m]: rows of kind manifest
  run          \* what each run has in memory

outside == <<manifest, home, kills>>
vars == <<manifest, home, kills, index, unrequeued, ignored, partRows, manifestRows, run>>

Parts == 1 .. LastManifest
HarvestStatus == {"in_progress", "success", "failed"}
IndexStatus == {"pending", "in_progress", "success", "failed"}

\* Mutant of NewRow: harvest_status missing in the defaults.
DefaultRow == [harvest |-> "pending", index |-> "pending"]

NewRow == [harvest |-> "in_progress", index |-> "pending"]

Idle == [at |-> "idle", manifest |-> 0, from |-> 0, manifestRow |-> 0, completed |-> {},
         part |-> 0, partRow |-> 0, indexing |-> FALSE, todo |-> {}, batch |-> {}]

Completed(p) == \E k \in DOMAIN partRows[p] : partRows[p][k].harvest = "success"
ManifestDone(m) == \E k \in DOMAIN manifestRows[m] : manifestRows[m][k].harvest = "success"

\* The rows get_incomplete_part and get_incomplete_manifest choose from.
Incomplete(rows) == {k \in DOMAIN rows : rows[k].harvest # "success"}

\* rows after the incomplete row k was saved as new, or new was appended as row
\* k because every row is complete.
Saved(rows, new, k) ==
  IF Incomplete(rows) = {} THEN Append(rows, new) ELSE [rows EXCEPT ![k] = new]

\* The row a run gets: any incomplete one, as their order by updated is not kept.
RowChoices(rows) ==
  IF Incomplete(rows) # {} THEN Incomplete(rows)
  ELSE {Len(rows) + 1} \cap 1 .. MaxRows

Update(r, changed) == run' = [run EXCEPT ![r] = changed]

Init ==
  /\ manifest = FirstManifest
  /\ home \in [Works -> 1 .. FirstManifest]
  /\ kills = 0
  /\ index = [w \in Works |-> 0]
  /\ unrequeued = {}
  /\ ignored = {}
  /\ partRows = [p \in Parts |-> <<>>]
  /\ manifestRows = [m \in Parts |-> <<>>]
  /\ run = [r \in Runs |-> Idle]

\* OpenAlex publishes the next manifest; updated works move to its new part.
Publish(moved) ==
  /\ manifest < LastManifest
  /\ manifest' = manifest + 1
  /\ home' = [w \in Works |-> IF w \in moved THEN manifest + 1 ELSE home[w]]
  /\ UNCHANGED <<kills, index, unrequeued, ignored, partRows, manifestRows, run>>

(***************************************************************************)
(* harvest_openalex_works                                                  *)
(***************************************************************************)

\* The manifest was fetched and is not processed yet.
Start(r, from) ==
  /\ run[r].at = "idle" /\ ~ManifestDone(manifest)
  /\ Update(r, [Idle EXCEPT !.at = "manifest", !.manifest = manifest, !.from = from])
  /\ UNCHANGED <<index, unrequeued, ignored, partRows, manifestRows>>
  /\ UNCHANGED outside

\* get_or_reuse_manifest_request
RegisterManifest(r) ==
  LET m == run[r].manifest IN
  /\ run[r].at = "manifest"
  /\ \E k \in RowChoices(manifestRows[m]) :
       /\ manifestRows' =
            [manifestRows EXCEPT ![m] = Saved(@, [harvest |-> "in_progress"], k)]
       /\ Update(r, [run[r] EXCEPT !.at = "registered", !.manifestRow = k])
  /\ UNCHANGED <<index, unrequeued, ignored, partRows>> /\ UNCHANGED outside

\* get_completed_part_urls
ReadCompleted(r) ==
  /\ run[r].at = "registered"
  /\ Update(r, [run[r] EXCEPT !.at = "parts", !.completed = {p \in Parts : Completed(p)}])
  /\ UNCHANGED <<index, unrequeued, ignored, partRows, manifestRows>>
  /\ UNCHANGED outside

\* The parts of the loop of process_manifest_parts still to come.
Remaining(r) ==
  {p \in run[r].from .. run[r].manifest : p > run[r].part} \ run[r].completed

\* get_or_reuse_part_request for the next part that was not completed.
TakePart(r) ==
  LET p == Min(Remaining(r)) IN
  /\ run[r].at = "parts" /\ Remaining(r) # {}
  /\ \E k \in RowChoices(partRows[p]) :
       /\ partRows' = [partRows EXCEPT ![p] = Saved(@, NewRow, k)]
       /\ Update(r, [run[r] EXCEPT !.at = "download", !.part = p, !.partRow = k,
                                   !.indexing = FALSE])
  /\ UNCHANGED <<index, unrequeued, ignored, manifestRows>> /\ UNCHANGED outside

\* The loop has ended; if every part was completed the manifest is.
FinishManifest(r) ==
  /\ run[r].at = "parts" /\ Remaining(r) = {}
  /\ IF run[r].from .. run[r].manifest \subseteq run[r].completed
       THEN manifestRows' =
              [manifestRows EXCEPT ![run[r].manifest][run[r].manifestRow].harvest = "success"]
       ELSE UNCHANGED manifestRows
  /\ Update(r, Idle)
  /\ UNCHANGED <<index, unrequeued, ignored, partRows>> /\ UNCHANGED outside

(***************************************************************************)
(* process_part                                                            *)
(***************************************************************************)
SetRow(r, row) == partRows' = [partRows EXCEPT ![run[r].part][run[r].partRow] = row]
MyRow(r) == partRows[run[r].part][run[r].partRow]

\* The part is downloaded as it is now; works whose transformation fails, or
\* whose metric lookup does, are ignored.
Download(r, bad) ==
  LET p == run[r].part IN
  /\ run[r].at = "download" /\ bad \subseteq {w \in Works : home[w] = p}
  /\ Update(r, [run[r] EXCEPT !.at = "works", !.todo = {w \in Works : home[w] = p} \ bad])
  /\ ignored' = ignored \cup (bad \X {p})
  /\ UNCHANGED <<index, unrequeued, partRows, manifestRows>> /\ UNCHANGED outside

\* The first flush of a part marks the beginning of the indexing.
BeginIndexing(r) ==
  /\ run[r].at = "works" /\ run[r].todo # {} /\ ~run[r].indexing
  /\ SetRow(r, [MyRow(r) EXCEPT !.index = "in_progress"])
  /\ Update(r, [run[r] EXCEPT !.indexing = TRUE])
  /\ UNCHANGED <<index, unrequeued, ignored, manifestRows>> /\ UNCHANGED outside

WriteIndex(r, written) ==
  /\ index' = [w \in Works |-> IF w \in written THEN run[r].part ELSE index[w]]
  /\ ignored' = ignored \ (written \X {run[r].part})
  /\ unrequeued' = unrequeued \cup written

NextBatch(r, batch) ==
  /\ run[r].at = "works" /\ run[r].todo # {} /\ run[r].indexing
  /\ batch \subseteq run[r].todo
  /\ \/ Cardinality(batch) = BatchSize
     \/ batch = run[r].todo /\ Cardinality(batch) < BatchSize

\* The bulk request of index_openalex_batch.
Bulk(r, batch) ==
  /\ NextBatch(r, batch)
  /\ WriteIndex(r, batch)
  /\ Update(r, [run[r] EXCEPT !.at = "requeue", !.todo = @ \ batch, !.batch = batch])
  /\ UNCHANGED <<partRows, manifestRows>> /\ UNCHANGED outside

\* Mutant of BulkFails: the errors of the answer are not looked at.
BulkErrorsIgnored(r, batch, written) ==
  /\ NextBatch(r, batch) /\ written \subseteq batch
  /\ WriteIndex(r, written)
  /\ Update(r, [run[r] EXCEPT !.at = "requeue", !.todo = @ \ batch, !.batch = batch])
  /\ UNCHANGED <<partRows, manifestRows>> /\ UNCHANGED outside

\* It is refused, wholly or in part, or its answer is lost.
BulkFails(r, batch, written) ==
  /\ NextBatch(r, batch) /\ written \subseteq batch
  /\ WriteIndex(r, written)
  /\ Update(r, [run[r] EXCEPT !.at = "failing", !.todo = {}])
  /\ UNCHANGED <<partRows, manifestRows>> /\ UNCHANGED outside

\* requeue_etl_items_for_openalex_updates
Requeue(r) ==
  /\ run[r].at = "requeue"
  /\ unrequeued' = unrequeued \ run[r].batch
  /\ Update(r, [run[r] EXCEPT !.at = "works", !.batch = {}])
  /\ UNCHANGED <<index, ignored, partRows, manifestRows>> /\ UNCHANGED outside

\* Mutant of StepFails: an error of the requeue is logged only.
RequeueErrorLogged(r) ==
  /\ run[r].at \in {"download", "requeue"}
  /\ Update(r, [run[r] EXCEPT !.at = IF @ = "requeue" THEN "works" ELSE "failing",
                              !.batch = {}])
  /\ UNCHANGED <<index, unrequeued, ignored, partRows, manifestRows>>
  /\ UNCHANGED outside

\* The download or the requeue raises.
StepFails(r) ==
  /\ run[r].at \in {"download", "requeue"}
  /\ Update(r, [run[r] EXCEPT !.at = "failing", !.todo = {}, !.batch = {}])
  /\ UNCHANGED <<index, unrequeued, ignored, partRows, manifestRows>>
  /\ UNCHANGED outside

\* After the last batch and the rollover: mark_as_success
MarkPartSuccess(r) ==
  /\ run[r].at = "works" /\ run[r].todo = {}
  /\ SetRow(r, [MyRow(r) EXCEPT !.harvest = "success"])
  /\ Update(r, [run[r] EXCEPT !.at = "succeeded"])
  /\ UNCHANGED <<index, unrequeued, ignored, manifestRows>> /\ UNCHANGED outside

\* The rollover raises outside of the try: the run ends, no status is saved.
RolloverRaises(r) ==
  /\ run[r].at = "works" /\ run[r].todo = {} /\ run[r].indexing
  /\ Update(r, Idle)
  /\ UNCHANGED <<index, unrequeued, ignored, partRows, manifestRows>>
  /\ UNCHANGED outside

\* mark_as_indexed; the loop goes on.
MarkIndexed(r) ==
  /\ run[r].at = "succeeded"
  /\ SetRow(r, [MyRow(r) EXCEPT !.index = "success"])
  /\ Update(r, [run[r] EXCEPT !.at = "parts", !.completed = @ \cup {run[r].part}])
  /\ UNCHANGED <<index, unrequeued, ignored, manifestRows>> /\ UNCHANGED outside

\* _handle_part_error
FailPart(r) ==
  /\ run[r].at = "failing"
  /\ SetRow(r, [harvest |-> "failed",
                index |-> IF run[r].indexing THEN "failed" ELSE MyRow(r).index])
  /\ Update(r, [run[r] EXCEPT !.at = "failed"])
  /\ UNCHANGED <<index, unrequeued, ignored, manifestRows>> /\ UNCHANGED outside

\* Mutant of FailManifest: the loop is left as if it had ended.
EndsAnyway(r) ==
  /\ run[r].at = "failed"
  /\ manifestRows' = [manifestRows EXCEPT ![run[r].manifest][run[r].manifestRow].harvest = "success"]
  /\ Update(r, Idle)
  /\ UNCHANGED <<index, unrequeued, ignored, partRows>> /\ UNCHANGED outside

\* The first part that fails ends the run.
FailManifest(r) ==
  /\ run[r].at = "failed"
  /\ manifestRows' = [manifestRows EXCEPT ![run[r].manifest][run[r].manifestRow].harvest = "failed"]
  /\ Update(r, Idle)
  /\ UNCHANGED <<index, unrequeued, ignored, partRows>> /\ UNCHANGED outside

Crash(r) ==
  /\ run[r].at # "idle" /\ kills < MaxKills
  /\ kills' = kills + 1
  /\ Update(r, Idle)
  /\ UNCHANGED <<manifest, home, index, unrequeued, ignored, partRows, manifestRows>>
-----------------------------------------------------------------------------
\* What a run does when nothing fails.
Advance(r) ==
  \/ RegisterManifest(r) \/ ReadCompleted(r) \/ TakePart(r) \/ FinishManifest(r)
  \/ Download(r, {}) \/ BeginIndexing(r)
  \/ \E batch \in SUBSET Works : Bulk(r, batch)
  \/ Requeue(r) \/ MarkPartSuccess(r) \/ MarkIndexed(r)

Failure(r) ==
  \/ \E bad \in SUBSET Works \ {{}} : Download(r, bad)
  \/ \E batch, written \in SUBSET Works : BulkFails(r, batch, written)
  \/ StepFails(r) \/ RolloverRaises(r)

Next ==
  \/ \E moved \in SUBSET Works : Publish(moved)
  \/ \E r \in Runs, from \in FromDates : Start(r, from)
  \/ \E r \in Runs : Advance(r) \/ Failure(r) \/ FailPart(r) \/ FailManifest(r)
  \/ \E r \in Runs : Crash(r)

Spec == Init /\ [][Next]_vars

\* The beat starts runs, a run goes on unless it is killed, and an outage of the
\* snapshot or of OpenSearch does not hit every attempt at the same step.
Fairness ==
  \A r \in Runs :
    /\ WF_vars(\E from \in FromDates : Start(r, from))
    /\ WF_vars((Advance(r) \/ FailPart(r) \/ FailManifest(r)))
    /\ SF_vars(Download(r, {}))
    /\ SF_vars(\E batch \in SUBSET Works : Bulk(r, batch))
    /\ SF_vars(Requeue(r))
    /\ SF_vars(MarkPartSuccess(r))

FairSpec == Spec /\ Fairness
-----------------------------------------------------------------------------
\* Type invariant: a request row never has a status the harvest does not save.
TypeOK ==
  /\ manifest \in Parts /\ kills \in 0 .. MaxKills
  /\ home \in [Works -> Parts]
  /\ index \in [Works -> 0 .. LastManifest]
  /\ unrequeued \subseteq Works
  /\ ignored \subseteq Works \X Parts
  /\ \A p \in Parts :
       /\ partRows[p] \in Seq([harvest : HarvestStatus, index : IndexStatus])
       /\ manifestRows[p] \in Seq([harvest : HarvestStatus])
  /\ \A r \in Runs :
       /\ run[r].completed \subseteq Parts
       /\ run[r].batch \subseteq Works /\ run[r].todo \subseteq Works
       /\ run[r].part \in 0 .. LastManifest /\ run[r].partRow \in 0 .. MaxRows

\* A part is recorded as harvested only when each of its works is in the index
\* in the version of the part, as later runs will pass it over: whatever failed
\* or was killed before, only works whose transformation failed are missing.
CompletedIsIndexed ==
  \A w \in Works : Completed(home[w]) /\ <<w, home[w]>> \notin ignored =>
                     index[w] = home[w]

\* No update of a merged work is lost to its ETL row: a work that was written
\* without its row being requeued is in a part that will be harvested again,
\* unless that part ignored it.
RequeuedOnceCompleted ==
  \A w \in unrequeued : Completed(home[w]) =>
    \/ <<w, home[w]>> \in ignored
    \/ \E r \in Runs : run[r].at = "requeue" /\ w \in run[r].batch

\* What process_manifest_parts says: it marks a manifest as harvested only when
\* all eligible parts are.
ManifestOnlyWhenComplete ==
  [][\A m \in Parts : ~ManifestDone(m) /\ ManifestDone(m)' =>
       \E r \in Runs : /\ run[r].manifest = m
                       /\ \A p \in run[r].from .. m : Completed(p)]_vars

\* Again and again every published part is harvested, with parts failing and
\* runs killed in between.
AllHarvested == \A p \in Parts : p <= manifest => Completed(p)
PartsAreHarvested == []<>AllHarvested
=============================================================================

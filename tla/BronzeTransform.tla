--------------------------- MODULE BronzeTransform ----------------------------
(***************************************************************************)
(* From a harvested record to the ETL queue.  A harvest saves the raw data *)
(* of a page of documents in rows, the signal post_save indexes each in    *)
(* the raw index, and the page is then transformed: reindexed from the raw *)
(* into the bronze index by the active TransformationScript, and every     *)
(* document of it enqueued for the ETL.  The task Reconcile harvest        *)
(* pipeline catches up: it indexes the rows that are not indexed and       *)
(* transforms those that have no EtlItemProcess.                           *)
(*                                                                         *)
(* Versions stand for data.  The harvest is that of SciELO articles.       *)
(***************************************************************************)
EXTENDS Integers, FiniteSets

CONSTANTS
  Docs,        \* identifiers
  MaxVersion,  \* bound: versions of a document at its source
  Steady,      \* documents that never change
  MaxKills,    \* bound: times a job is killed
  Overlap      \* whether a reconciliation may run during a harvest

Jobs == {"harvest", "reconcile"}

ASSUME BoundAssumption == MaxVersion \in Nat \ {0} /\ Docs # {} /\ Steady \subseteq Docs
ASSUME JobsAssumption == MaxKills \in Nat /\ Overlap \in BOOLEAN

VARIABLES
  source,   \* source[d]: version of d at its source
  kills,    \* times a job was killed
  row,      \* row[d]: its statuses and the version in raw_data (0: empty)
  raw,      \* raw[d]: version in the raw index (0: none)
  bronze,   \* bronze[d]: version of raw the bronze document was made from
  etl,      \* etl[d]: version last enqueued (0: no EtlItemProcess)
  script,   \* there is an active TransformationScript
  job       \* what each job has in memory

indices == <<raw, bronze, etl>>
outside == <<source, kills, script>>
vars == <<source, kills, row, raw, bronze, etl, script, job>>

Versions == 0 .. MaxVersion
Status == {"pending", "in_progress", "success", "failed"}

\* A job: documents to handle (todo, each with the version the reconciliation
\* has read of it), the one in hand, its version and whether its row in memory
\* says indexed, and the page to transform.  phase: of the reconciliation.
Idle == [at |-> "idle", todo |-> {}, doc |-> CHOOSE d \in Docs : TRUE, data |-> 0,
         indexed |-> FALSE, page |-> {}, phase |-> 1]

Update(j, changed) == job' = [job EXCEPT ![j] = changed]
SetRow(d, r) == row' = [row EXCEPT ![d] = r]

Init ==
  /\ source = [d \in Docs |-> 1] /\ kills = 0
  /\ row = [d \in Docs |-> [harvest |-> "pending", index |-> "pending", data |-> 0]]
  /\ raw = [d \in Docs |-> 0] /\ bronze = [d \in Docs |-> 0] /\ etl = [d \in Docs |-> 0]
  /\ script \in BOOLEAN
  /\ job = [j \in Jobs |-> Idle]

\* A document changes at its source.  (One published later is one that earlier
\* harvests did not list.)
Publish(d) ==
  /\ d \notin Steady /\ source[d] < MaxVersion
  /\ source' = [source EXCEPT ![d] = @ + 1]
  /\ UNCHANGED <<kills, row, script, job>> /\ UNCHANGED indices

\* An administrator activates the script.
Activate ==
  /\ ~script /\ script' = TRUE
  /\ UNCHANGED <<source, kills, row, job>> /\ UNCHANGED indices

MayStart(j) ==
  /\ job[j].at = "idle"
  /\ Overlap \/ \A k \in Jobs : job[k].at = "idle"

(***************************************************************************)
(* The harvest                                                             *)
(***************************************************************************)

\* A page of identifiers, or retry_harvest_failed_articles.
StartHarvest(S) ==
  /\ MayStart("harvest") /\ S # {}
  /\ Update("harvest", [Idle EXCEPT !.at = "items", !.todo = {<<d, 0>> : d \in S}])
  /\ UNCHANGED row /\ UNCHANGED outside /\ UNCHANGED indices

Failed == {d \in Docs : row[d].harvest = "failed"}

Harvest == \E S \in SUBSET Docs : StartHarvest(S)
Retry == StartHarvest(Failed)

\* The record is done with: its object says whether it is indexed, and so
\* whether it is in the page to transform.
Collect(j, d, indexed) ==
  LET o == job[j] IN
  Update(j, [Idle EXCEPT !.at = "items", !.todo = {t \in o.todo : t[1] # d},
                         !.page = o.page \cup IF indexed THEN {d} ELSE {}])

\* Mutant of Fetch: mark_as_in_progress is left out.
FetchUnmarked(d) ==
  LET h == job["harvest"] IN
  /\ h.at = "items" /\ <<d, 0>> \in h.todo
  /\ Update("harvest", [h EXCEPT !.at = "save", !.doc = d, !.data = source[d],
                                 !.indexed = row[d].index = "success"])
  /\ UNCHANGED row /\ UNCHANGED outside /\ UNCHANGED indices

\* fetch_article_detail, then mark_as_in_progress.
Fetch(d) ==
  LET h == job["harvest"] IN
  /\ h.at = "items" /\ <<d, 0>> \in h.todo
  /\ SetRow(d, [row[d] EXCEPT !.harvest = "in_progress"])
  /\ Update("harvest", [h EXCEPT !.at = "save", !.doc = d, !.data = source[d],
                                 !.indexed = row[d].index = "success"])
  /\ UNCHANGED outside /\ UNCHANGED indices

\* record_article_failure; the object it returns may be indexed since before.
FetchFails(d) ==
  LET h == job["harvest"] IN
  /\ h.at = "items" /\ <<d, 0>> \in h.todo
  /\ SetRow(d, [row[d] EXCEPT !.harvest = "failed"])
  /\ Collect("harvest", d, row[d].index = "success")
  /\ UNCHANGED outside /\ UNCHANGED indices

\* persist_article saves raw_data, or the database refuses it.
SaveData ==
  LET h == job["harvest"] IN
  /\ h.at = "save"
  /\ \/ /\ SetRow(h.doc, [row[h.doc] EXCEPT !.data = h.data])
        /\ Update("harvest", [h EXCEPT !.at = "index"])
     \/ /\ SetRow(h.doc, [row[h.doc] EXCEPT !.harvest = "failed"])
        /\ Collect("harvest", h.doc, h.indexed)
  /\ UNCHANGED outside /\ UNCHANGED indices

\* mark_status_harvest
MarkSuccess ==
  LET h == job["harvest"] IN
  /\ h.at = "success"
  /\ SetRow(h.doc, [row[h.doc] EXCEPT !.harvest = "success"])
  /\ Collect("harvest", h.doc, h.indexed)
  /\ UNCHANGED outside /\ UNCHANGED indices

(***************************************************************************)
(* index_harvested_instance, of the signal and of the reconciliation       *)
(***************************************************************************)

IndexRaw(j) ==
  /\ job[j].at = "index"
  /\ raw' = [raw EXCEPT ![job[j].doc] = job[j].data]
  /\ Update(j, [job[j] EXCEPT !.at = "indexed"])
  /\ UNCHANGED <<row, bronze, etl>> /\ UNCHANGED outside

\* mark_as_indexed and mark_as_index_failed also write the harvest_status of
\* the object in memory.
Mark(j, status) ==
  LET d == job[j].doc  changed == [job[j] EXCEPT !.indexed = status = "success"] IN
  /\ SetRow(d, [row[d] EXCEPT !.index = status,
                 !.harvest = IF j = "harvest" THEN "in_progress" ELSE "success"])
  /\ IF j = "harvest" THEN Update(j, [changed EXCEPT !.at = "success"])
                      ELSE Collect(j, d, status = "success")
  /\ UNCHANGED outside /\ UNCHANGED indices

MarkIndexed(j) == job[j].at = "indexed" /\ Mark(j, "success")
IndexRawFails(j) == job[j].at = "index" /\ Mark(j, "failed")

(***************************************************************************)
(* reconcile_harvest_pipeline                                              *)
(***************************************************************************)

\* index_harvested_raw_data: the query, and the next row it returned.
ReadUnindexed ==
  LET unindexed == {d \in Docs : row[d].harvest = "success" /\ row[d].index # "success"} IN
  /\ MayStart("reconcile")
  /\ Update("reconcile",
       [Idle EXCEPT !.at = "items", !.todo = {<<d, row[d].data>> : d \in unindexed}])
  /\ UNCHANGED row /\ UNCHANGED outside /\ UNCHANGED indices

NextUnindexed ==
  LET r == job["reconcile"] IN
  /\ r.at = "items"
  /\ \E t \in r.todo :
       Update("reconcile", [r EXCEPT !.at = "index", !.doc = t[1], !.data = t[2]])
  /\ UNCHANGED row /\ UNCHANGED outside /\ UNCHANGED indices

\* reconcile_missing_bronze_etl: harvested and indexed rows with no EtlItemProcess.
Missing == {d \in Docs : /\ row[d].harvest = "success" /\ row[d].index = "success"
                         /\ row[d].data # 0 /\ etl[d] = 0}

ReadMissing ==
  LET r == job["reconcile"] IN
  /\ r.at = "phase2"
  /\ Update("reconcile", IF script THEN [r EXCEPT !.at = "transform", !.page = Missing]
                                   ELSE Idle)
  /\ UNCHANGED row /\ UNCHANGED outside /\ UNCHANGED indices

(***************************************************************************)
(* transform_indexed_page                                                  *)
(***************************************************************************)

Transform(j) ==
  /\ job[j].at = "items" /\ job[j].todo = {}
  /\ Update(j, [job[j] EXCEPT !.at = "transform"])
  /\ UNCHANGED row /\ UNCHANGED outside /\ UNCHANGED indices

\* Mutant of PageDone: the reconciliation ends with its first phase.
FirstPhaseOnly(j) == Update(j, Idle)

\* The page is done: a reconciliation has its second phase, any other job ends.
PageDone(j) ==
  Update(j, IF j = "reconcile" /\ job[j].phase = 1
              THEN [Idle EXCEPT !.at = "phase2", !.phase = 2] ELSE Idle)

\* Refresh of the raw index and reindex of the ids of the page.
Reindex(j) ==
  LET page == job[j].page IN
  /\ job[j].at = "transform" /\ script
  /\ \E d \in page : raw[d] > 0
  /\ bronze' = [d \in Docs |-> IF d \in page THEN raw[d] ELSE bronze[d]]
  /\ Update(j, [job[j] EXCEPT !.at = "enqueue"])
  /\ UNCHANGED <<row, raw, etl>> /\ UNCHANGED outside

\* No document, no script, or an error of OpenSearch, which is only logged.
SkipPage(j) ==
  /\ job[j].at = "transform"
  /\ PageDone(j)
  /\ UNCHANGED row /\ UNCHANGED outside /\ UNCHANGED indices

\* _enqueue_transformed_bronze
Enqueue(j, d) ==
  /\ job[j].at = "enqueue" /\ d \in job[j].page /\ bronze[d] > 0
  /\ etl' = [etl EXCEPT ![d] = bronze[d]]
  /\ Update(j, [job[j] EXCEPT !.page = @ \ {d}])
  /\ UNCHANGED <<row, raw, bronze>> /\ UNCHANGED outside

\* Any exception in it is only logged.
EnqueueFails(j, d) ==
  /\ job[j].at = "enqueue" /\ d \in job[j].page
  /\ Update(j, [job[j] EXCEPT !.page = @ \ {d}])
  /\ UNCHANGED row /\ UNCHANGED outside /\ UNCHANGED indices

EndPage(j) ==
  /\ job[j].at = "enqueue" /\ job[j].page = {}
  /\ PageDone(j)
  /\ UNCHANGED row /\ UNCHANGED outside /\ UNCHANGED indices

Kill(j) ==
  /\ kills < MaxKills /\ kills' = kills + 1
  /\ job[j].at # "idle" /\ Update(j, Idle)
  /\ UNCHANGED <<source, row, script>> /\ UNCHANGED indices

(***************************************************************************)
(* The specification                                                       *)
(***************************************************************************)

HarvestStep ==
  (\E d \in Docs : Fetch(d) \/ FetchFails(d)) \/ SaveData \/ MarkSuccess
ReconcileStep == ReadUnindexed \/ NextUnindexed \/ ReadMissing
JobStep(j) ==
  \/ IndexRaw(j) \/ MarkIndexed(j) \/ IndexRawFails(j)
  \/ Transform(j) \/ Reindex(j) \/ SkipPage(j) \/ EndPage(j)
  \/ \E d \in Docs : Enqueue(j, d) \/ EnqueueFails(j, d)

Next ==
  \/ \E d \in Docs : Publish(d)
  \/ Activate \/ Harvest \/ Retry \/ HarvestStep \/ ReconcileStep
  \/ \E j \in Jobs : JobStep(j) \/ Kill(j)

Spec == Init /\ [][Next]_vars

\* Jobs run on, the reconciliation is scheduled again and again, and what it
\* tries again and again succeeds in the end.  The harvest's own indexing,
\* reindexing and enqueues may fail whenever they run.
FairSpec ==
  /\ Spec /\ WF_vars(Activate) /\ WF_vars(HarvestStep)
  /\ SF_vars(ReadUnindexed) /\ WF_vars(ReconcileStep)
  /\ \A j \in Jobs : WF_vars(JobStep(j))
  /\ \A d \in Docs : LET r == job["reconcile"] IN
       /\ SF_vars(r.doc = d /\ IndexRaw("reconcile"))
       /\ SF_vars(d \in r.page /\ Reindex("reconcile"))
       /\ SF_vars(Enqueue("reconcile", d))

(***************************************************************************)
(* Properties                                                              *)
(***************************************************************************)

\* The type invariant.
TypeOK ==
  /\ source \in [Docs -> Versions] /\ kills \in 0 .. MaxKills /\ script \in BOOLEAN
  /\ row \in [Docs -> [harvest : Status, index : Status \ {"in_progress"}, data : Versions]]
  /\ \A v \in {raw, bronze, etl} : v \in [Docs -> Versions]
  /\ job \in [Jobs -> [at : {"idle", "items", "save", "index", "indexed", "success",
                             "transform", "enqueue", "phase2"},
                       todo : SUBSET (Docs \X Versions), doc : Docs, data : Versions,
                       indexed : BOOLEAN, page : SUBSET Docs, phase : {1, 2}]]

\* A row that says harvested and indexed has its data in the raw index, killed
\* jobs and failures notwithstanding; the second phase of the reconciliation
\* transforms what such rows have there.
SuccessIsIndexed ==
  \A d \in Docs :
    row[d].harvest = "success" /\ row[d].index = "success" => raw[d] = row[d].data

\* Nothing is out of reach of the catch-up: outside a job, the data of a
\* harvested row was enqueued, or a phase of the reconciliation finds the row.
WithinReach ==
  (\A j \in Jobs : job[j].at = "idle") =>
    \A d \in Docs : row[d].harvest = "success" =>
      etl[d] = row[d].data \/ row[d].index # "success" \/ d \in Missing

\* A row that stays harvested is enqueued for the ETL in the end, although its
\* indexing, its transformation and its enqueue may fail in every harvest, jobs
\* are killed and the script is activated late.
HarvestReachesEtl ==
  \A d \in Docs :
    row[d].harvest = "success" ~> etl[d] > 0 \/ row[d].harvest # "success"
=============================================================================

----------------------------- MODULE GlobalMetrics -----------------------------
(***************************************************************************)
(* Global metrics of journals (harvest/models.GlobalMetricsUploadFile,     *)
(* harvest/global_metrics/).  An operator uploads a spreadsheet, or        *)
(* replaces it; a task indexes its lines and marks the upload as           *)
(* processed; another task copies the lines into the silver documents of   *)
(* their journals, which the ETL pipeline writes at the same time with the *)
(* metrics it has looked up before.                                        *)
(***************************************************************************)
EXTENDS Integers

CONSTANTS
  Lines,       \* lines of the spreadsheets: one journal in one year each
  Contents,    \* Contents[v]: the lines that the v-th spreadsheet uploaded has
  Unresolved,  \* Unresolved[v]: those of them whose country has no code
  Names,       \* names a spreadsheet may be uploaded under
  Workers      \* Celery workers that process uploads

Versions == DOMAIN Contents
LastVersion == CHOOSE v \in Versions : \A w \in Versions : w <= v

ASSUME MetricsAssumption ==
  /\ \E last \in Versions : last \in Nat /\ Versions = 1 .. last
  /\ Names # {} /\ Lines # {}
  /\ \A v \in Versions : Contents[v] \subseteq Lines /\ Unresolved[v] \subseteq Lines

VARIABLES
  upload,      \* the row: its file, file name and status
  queued,      \* are there process tasks of the row in the queue?
  task,        \* task[w]: the process task worker w runs
  harvest,     \* harvest[l]: file and name from which line l was last indexed
  rejected,    \* lines of the current file whose indexing was reported as failed
  apply,       \* the task that applies the upload to silver
  silver,      \* silver[l]: the document of line l, if there is one: files whose databases it
               \* names as indexing the journal (indexed_in), file of its country (0: none)
  reported,    \* lines whose documents the last apply to begin could not write, by its report
  batch,       \* a batch of the ETL pipeline that writes the document of one line
  raced,       \* auxiliary: the file was replaced while a task had the one before
  applied,     \* auxiliary: was an apply begun, and ended, since the last line indexed?
  late         \* auxiliary: lines whose document was last written with old metrics

metricsVars ==
  <<upload, queued, task, harvest, rejected, apply, silver, reported, batch, raced, applied, late>>

AName == CHOOSE n \in Names : TRUE
ALine == CHOOSE l \in Lines : TRUE
NoTask == [at |-> "free", file |-> 0, name |-> AName, todo |-> {}]
NoApply == [at |-> "free", name |-> AName, todo |-> {}, line |-> ALine, conflict |-> FALSE]
NoBatch == [at |-> "free", line |-> ALine, file |-> 0]
NotIndexed == [file |-> 0, name |-> AName]
NoSilver == [there |-> FALSE, indexed_in |-> {}, country |-> 0]

\* The first spreadsheet has been uploaded.
MetricsInit ==
  /\ upload = [file |-> 1, name |-> AName, status |-> FALSE]
  /\ queued = TRUE /\ task = [w \in Workers |-> NoTask]
  /\ harvest = [l \in Lines |-> NotIndexed] /\ rejected = {}
  /\ apply = NoApply /\ silver = [l \in Lines |-> NoSilver] /\ batch = NoBatch
  /\ raced = FALSE /\ applied = "no" /\ late = {} /\ reported = {}

(***************************************************************************)
(* The operator                                                            *)
(***************************************************************************)

\* Mutant of Upload: a replacement keeps the status of the row.
UploadKeepsStatus(name) ==
  /\ upload.file < LastVersion
  /\ upload' = [upload EXCEPT !.file = @ + 1, !.name = name]
  /\ queued' = TRUE /\ rejected' = {}
  /\ raced' = \E w \in Workers : task[w].at # "free"
  /\ applied' = "no"
  /\ UNCHANGED <<task, harvest, apply, silver, reported, batch, late>>

\* A spreadsheet is uploaded, or replaces the one before, under its name (save with
\* _reuse_existing_by_filename) or in the edit form under another; the task is sent
\* when the transaction commits.
Upload(name) ==
  /\ upload.file < LastVersion
  /\ upload' = [file |-> upload.file + 1, name |-> name, status |-> FALSE]
  /\ queued' = TRUE /\ rejected' = {}
  /\ raced' = \E w \in Workers : task[w].at # "free"
  /\ applied' = "no"
  /\ UNCHANGED <<task, harvest, apply, silver, reported, batch, late>>

(***************************************************************************)
(* process_global_metrics_upload_file                                      *)
(***************************************************************************)

\* The row is read and its file is opened.  Tasks in the queue are equal, so that
\* there may be another one left.
TakeTask(w) ==
  /\ queued /\ task[w].at = "free"
  /\ queued' \in BOOLEAN
  /\ task' = IF upload.status THEN task
             ELSE [task EXCEPT ![w] = [at |-> "index", file |-> upload.file,
                                       name |-> upload.name, todo |-> Contents[upload.file]]]
  /\ UNCHANGED <<upload, harvest, rejected, apply, silver, reported, batch, raced, applied, late>>

\* A line is indexed under the id of its journal and year, or refused: refusals are
\* counted and reported, and do not stop the task.
IndexLine(w, l) ==
  /\ task[w].at = "index" /\ l \in task[w].todo
  /\ task' = [task EXCEPT ![w].todo = @ \ {l}]
  /\ \/ /\ harvest' = [harvest EXCEPT ![l] = [file |-> task[w].file, name |-> task[w].name]]
        /\ UNCHANGED rejected
        /\ applied' = "no" /\ late' = late \ {l}
     \/ /\ rejected' = IF task[w].file = upload.file THEN rejected \cup {l} ELSE rejected
        /\ UNCHANGED <<harvest, applied, late>>
  /\ UNCHANGED <<upload, queued, apply, silver, reported, batch, raced>>

\* The file cannot be parsed, or the worker is killed: nothing sends the task again.
TaskFails(w) ==
  /\ task[w].at = "index"
  /\ task' = [task EXCEPT ![w] = NoTask]
  /\ UNCHANGED <<upload, queued, harvest, rejected, apply, silver, reported, batch, raced, applied, late>>

\* mark_processed goes through save, which compares the name the task has read with
\* the one stored: if it is another by now, the row is put back and a task is sent.
MarkProcessed(w) ==
  /\ task[w].at = "index" /\ task[w].todo = {}
  /\ task' = [task EXCEPT ![w] = NoTask]
  /\ upload' = [upload EXCEPT !.status = task[w].name = upload.name]
  /\ queued' = (queued \/ task[w].name # upload.name)
  /\ UNCHANGED <<harvest, rejected, apply, silver, reported, batch, raced, applied, late>>

(***************************************************************************)
(* apply_global_metrics_upload_to_silver                                   *)
(***************************************************************************)

\* Mutant of LinesOf: lines that are in silver with metrics are left out.
NewLinesOf(name) ==
  {l \in Lines : harvest[l].file # 0 /\ harvest[l].name = name /\ silver[l].indexed_in = {}}

\* The lines of the upload: source_file_query.
LinesOf(name) == {l \in Lines : harvest[l].file # 0 /\ harvest[l].name = name}

\* The upload must be processed; all its lines are read before the first update.
StartApply ==
  /\ apply.at = "free" /\ upload.status
  /\ apply' = [NoApply EXCEPT !.at = "apply", !.name = upload.name,
                 !.todo = {<<l, harvest[l].file>> : l \in LinesOf(upload.name)}]
  /\ applied' = "begun" /\ reported' = {}
  /\ UNCHANGED <<upload, queued, task, harvest, rejected, silver, batch, raced, late>>

\* update_by_query of one group reads the documents ...
BeginUpdate(t) ==
  /\ apply.at = "apply" /\ t \in apply.todo
  /\ apply' = [apply EXCEPT !.at = "update", !.line = t[1], !.conflict = FALSE]
  /\ UNCHANGED <<upload, queued, task, harvest, rejected, silver, reported, batch, raced, applied, late>>

\* The script adds to indexed_in and leaves the country as it is if the line gives none.
Scripted(doc, l, file) ==
  [doc EXCEPT !.indexed_in = @ \cup {file},
              !.country = IF l \in Unresolved[file] THEN @ ELSE file]

\* ... and writes those that nobody has written since (conflicts="proceed").  What
\* OpenSearch refuses to write goes into the report, and the apply goes on.
EndUpdate ==
  LET l == apply.line
      t == CHOOSE u \in apply.todo : u[1] = l IN
  /\ apply.at = "update"
  /\ apply' = [apply EXCEPT !.at = "apply", !.todo = @ \ {t}]
  /\ \/ /\ ~silver[l].there \/ apply.conflict
        /\ UNCHANGED <<silver, late, reported>>
     \/ /\ silver[l].there /\ ~apply.conflict
        /\ silver' = [silver EXCEPT ![l] = Scripted(@, l, t[2])]
        /\ late' = IF t[2] = harvest[l].file THEN late \ {l} ELSE late \cup {l}
        /\ UNCHANGED reported
     \/ /\ silver[l].there
        /\ reported' = reported \cup {l} /\ UNCHANGED <<silver, late>>
  /\ UNCHANGED <<upload, queued, task, harvest, rejected, batch, raced, applied>>

\* save_stats goes through save too.
EndApply ==
  /\ apply.at = "apply" /\ apply.todo = {}
  /\ apply' = NoApply
  /\ queued' = (queued \/ apply.name # upload.name)
  /\ applied' = IF applied = "begun" /\ apply.name = upload.name THEN "ended" ELSE "no"
  /\ UNCHANGED <<upload, task, harvest, rejected, silver, reported, batch, raced, late>>

\* OpenSearch refuses the update, or loses its task: the groups left are not applied.
ApplyFails ==
  /\ apply.at \in {"apply", "update"} /\ apply' = NoApply
  /\ applied' = "no"
  /\ UNCHANGED <<upload, queued, task, harvest, rejected, silver, reported, batch, raced, late>>

(***************************************************************************)
(* The ETL pipeline                                                        *)
(***************************************************************************)

\* get_global_metric_by_issns_and_year, whose answer the run keeps ...
LookUp(l) ==
  /\ batch.at = "free"
  /\ batch' = [at |-> "write", line |-> l, file |-> harvest[l].file]
  /\ UNCHANGED <<upload, queued, task, harvest, rejected, apply, silver, reported, raced, applied, late>>

\* A document made by the pipeline has the metrics of the line found, if any.
WithMetric(l, file) ==
  [there |-> TRUE, indexed_in |-> {file} \ {0},
   country |-> IF file = 0 \/ l \in Unresolved[file] THEN 0 ELSE file]

\* ... until the document is written.
WriteSilver ==
  LET l == batch.line IN
  /\ batch.at = "write"
  /\ batch' = NoBatch
  /\ silver' = [silver EXCEPT ![l] = WithMetric(l, batch.file)]
  /\ late' = IF batch.file = harvest[l].file THEN late \ {l} ELSE late \cup {l}
  /\ apply' = IF apply.at = "update" /\ apply.line = l THEN [apply EXCEPT !.conflict = TRUE]
              ELSE apply
  /\ UNCHANGED <<upload, queued, task, harvest, rejected, reported, raced, applied>>

MetricsNext ==
  \/ \E name \in Names : Upload(name)
  \/ \E w \in Workers :
       TakeTask(w) \/ (\E l \in Lines : IndexLine(w, l)) \/ TaskFails(w) \/ MarkProcessed(w)
  \/ StartApply \/ (\E t \in apply.todo : BeginUpdate(t))
  \/ EndUpdate \/ EndApply \/ ApplyFails
  \/ (\E l \in Lines : LookUp(l)) \/ WriteSilver

MetricsSpec == MetricsInit /\ [][MetricsNext]_metricsVars

(***************************************************************************)
(* Properties                                                              *)
(***************************************************************************)

\* Every line of the file the row has is in the index as that file gives it, or was
\* reported as refused.
IsIndexed == \A l \in Contents[upload.file] \ rejected : harvest[l].file = upload.file

\* An upload that says it is processed is in the index, whichever tasks were sent,
\* skipped or refused part of it; the one exception is a file replaced while a task was
\* indexing the one before
\* (process_global_metrics_upload_file, mark_processed).
ProcessedIsIndexed == upload.status /\ ~raced => IsIndexed

\* The same without the exception (the help text of status).
StatusMeansProcessed == upload.status => IsIndexed

\* The document of line l, if there is one, names the databases of the line as it is
\* indexed, and its country if that has a code.
Carries(l) ==
  LET file == harvest[l].file IN
  silver[l].there =>
    file \in silver[l].indexed_in /\ (l \notin Unresolved[file] => silver[l].country = file)

\* Once an apply has ended, the silver document of each line of the upload carries its
\* metrics or the report of the apply says that it could not be written, whatever the
\* pipeline wrote and whichever updates met it in conflict; the one exception is a
\* document that a batch of the pipeline wrote after the apply's update of it, or in conflict
\* with it, with metrics it had looked up before the line was indexed
\* (apply_global_metrics_upload_to_silver, update_silver_group_by_query).
AppliedReachesSilver ==
  applied = "ended" =>
    \A l \in Lines \ (late \cup reported) :
      harvest[l].file # 0 /\ harvest[l].name = upload.name => Carries(l)

\* The types of the variables (GlobalMetricsUploadFile, the tasks).
MetricsTypeOK ==
  LET Files == Versions \cup {0} IN
  /\ upload \in [file : Versions, name : Names, status : BOOLEAN] /\ queued \in BOOLEAN
  /\ task \in [Workers -> [at : {"free", "index"}, file : Files, name : Names,
                           todo : SUBSET Lines]]
  /\ harvest \in [Lines -> [file : Files, name : Names]]
  /\ {rejected, late, reported} \subseteq SUBSET Lines
  /\ apply \in [at : {"free", "apply", "update"}, name : Names,
                todo : SUBSET (Lines \X Versions), line : Lines, conflict : BOOLEAN]
  /\ silver \in [Lines -> [there : BOOLEAN, indexed_in : SUBSET Versions, country : Files]]
  /\ batch \in [at : {"free", "write"}, line : Lines, file : Files]
  /\ raced \in BOOLEAN /\ applied \in {"no", "begun", "ended"}
==============================================================================

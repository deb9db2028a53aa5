------------------------------ MODULE ExportJobs ------------------------------
(***************************************************************************)
(* CSV exports of an observation table (observation/views.py).  A request  *)
(* starts a thread that pages through the rows of the table, in the order  *)
(* of their keys, while the search index changes, and writes one file, or  *)
(* a batch of files that can be downloaded before the export is over.  The *)
(* thread's progress is an entry of EXPORT_JOBS that the page polls.       *)
(***************************************************************************)
EXTENDS Integers, Sequences, FiniteSetsExt, SequencesExt

CONSTANTS
  LastKey,     \* row keys are 1 .. LastKey, in the order of the composite pages
  LastPair,    \* pairs of (row field, column field) tried, in this order
  Tables,      \* the rows there may be under each pair when an export starts
  Splits,      \* the split_size of a request
  MinPage, MaxPage, \* bounds of a page (100 and 1000 in the code)
  MaxEdits     \* bound: rows that enter or leave the index during an export

Keys == 1 .. LastKey
FieldPairs == 1 .. LastPair

ASSUME ExportAssumption ==
  /\ LastKey \in Nat \ {0} /\ LastPair \in Nat \ {0} /\ MaxEdits \in Nat
  /\ MinPage \in Nat \ {0} /\ MaxPage \in Nat \ {0}
  /\ Splits \subseteq Nat \ {0} /\ Tables \subseteq [FieldPairs -> SUBSET Keys]

VARIABLES
  live,        \* live[p]: keys of the rows the index has now under pair p
  textual,     \* pairs with a text field, for which the index refuses to aggregate
  job,         \* the entry of EXPORT_JOBS
  files,       \* children of a batch in EXPORT_JOBS, in the order they were stored
  thread,      \* the export thread and its local variables
  steady,      \* auxiliary: steady[p]: keys in live[p] all the time since the start
  edits        \* rows that entered or left the index since the start

exportVars == <<live, textual, job, files, thread, steady, edits>>

\* ready: how many children ready_file_ids has; csv: rows of csv_content.
NoJob == [mode |-> "none", split |-> 1, status |-> "none", processed |-> 0, ready |-> 0,
          csv |-> <<>>]

\* pair, after: where the paging is; rows: rows read and not yet in a file;
\* found: the pair has had rows; stored: rows in files (processed_rows).
NoThread == [at |-> "none", pair |-> 1, after |-> 0, found |-> FALSE, rows |-> <<>>,
         stored |-> 0]

ExportInit ==
  /\ live = [p \in FieldPairs |-> {}] /\ steady = live /\ textual = {}
  /\ job = NoJob /\ files = <<>> /\ thread = NoThread /\ edits = 0

\* export_start: the entry is stored before the thread is started.
StartExport(mode, split, table, text) ==
  /\ job.status = "none"
  /\ live' = table /\ steady' = table /\ textual' = text
  /\ job' = [NoJob EXCEPT !.mode = mode, !.split = split,
                          !.status = IF mode = "batch" THEN "running" ELSE "queued"]
  /\ thread' = [NoThread EXCEPT !.at = "read"]
  /\ UNCHANGED <<files, edits>>

\* A document indexed, or taken out, while the export runs adds or takes a row.
Edit(p, k) ==
  /\ thread.at \notin {"none", "ended"} /\ edits < MaxEdits
  /\ edits' = edits + 1
  /\ live' = [live EXCEPT ![p] = IF k \in @ THEN @ \ {k} ELSE @ \cup {k}]
  /\ steady' = [steady EXCEPT ![p] = @ \ {k}]
  /\ UNCHANGED <<textual, job, files, thread>>

PageSize ==
  IF job.mode = "batch" THEN Max({MinPage, Min({job.split, MaxPage})})
  ELSE Max({MinPage, job.split})

\* The buckets of the next composite page: the first of the keys that follow.
NextPage ==
  LET next == {k \in live[thread.pair] : k > thread.after} IN
  [i \in 1 .. Min({PageSize, Cardinality(next)}) |->
     CHOOSE k \in next : Cardinality({l \in next : l <= k}) = i]

\* The search is sent only once the rows at hand do not fill a file.
Reading ==
  /\ thread.at = "read"
  /\ job.mode = "batch" => Len(thread.rows) < job.split

\* A page of rows.  A single export shows how many it has found.
ReadRows ==
  /\ Reading /\ thread.pair \notin textual /\ NextPage # <<>>
  /\ LET rows == thread.rows \o [i \in DOMAIN NextPage |-> <<thread.pair, NextPage[i]>>] IN
     /\ thread' = [thread EXCEPT !.found = TRUE, !.after = Last(NextPage), !.rows = rows]
     /\ job' = IF job.mode = "batch" THEN job
               ELSE [job EXCEPT !.status = "running", !.processed = Len(rows)]
  /\ UNCHANGED <<live, textual, files, steady, edits>>

\* Mutant of NextPair: a pair that may not be aggregated is tried again.
NextPairRetried ==
  /\ Reading /\ ~thread.found /\ thread.pair < LastPair
  /\ \/ thread.pair \notin textual /\ NextPage = <<>>
     \/ thread.pair \in textual /\ job.mode = "single"
  /\ thread' = IF thread.pair \in textual THEN thread
               ELSE [thread EXCEPT !.pair = @ + 1, !.after = 0]
  /\ job' = IF job.mode = "batch" THEN job ELSE [job EXCEPT !.status = "running"]
  /\ UNCHANGED <<live, textual, files, steady, edits>>

\* A pair without rows, or one that a single export may not aggregate, is passed over.
NextPair ==
  /\ Reading /\ ~thread.found /\ thread.pair < LastPair
  /\ \/ thread.pair \notin textual /\ NextPage = <<>>
     \/ thread.pair \in textual /\ job.mode = "single"
  /\ thread' = [thread EXCEPT !.pair = @ + 1, !.after = 0]
  /\ job' = IF job.mode = "batch" THEN job ELSE [job EXCEPT !.status = "running"]
  /\ UNCHANGED <<live, textual, files, steady, edits>>

Fail ==
  /\ thread' = [thread EXCEPT !.at = "ended"]
  /\ job' = [job EXCEPT !.status = "error"]
  /\ UNCHANGED <<live, textual, files, steady, edits>>

\* A search of the index, or of the lookup's labels, raises.
SearchFails == thread.at = "read" /\ Fail

\* A batch ends with an error when every pair was passed over, and when it may not
\* aggregate one.
NoRows ==
  /\ Reading /\ ~thread.found /\ job.mode = "batch"
  /\ \/ thread.pair \in textual
     \/ thread.pair = LastPair /\ NextPage = <<>>
  /\ Fail

\* Mutant of CutFile: the rows of the file are not counted.
CutFileUncounted ==
  LET n == Min({job.split, Len(thread.rows)}) IN
  /\ thread.at \in {"read", "rest"} /\ job.mode = "batch"
  /\ thread.at = "read" => n = job.split
  /\ n > 0
  /\ files' = Append(files, [rows |-> SubSeq(thread.rows, 1, n), first |-> thread.stored + 1,
                             last |-> thread.stored + n])
  /\ thread' = [thread EXCEPT !.rows = SubSeq(@, n + 1, Len(@)),
                              !.at = IF @ = "read" THEN "ready" ELSE "last"]
  /\ UNCHANGED <<live, textual, job, steady, edits>>

\* Rows that fill a file, or that are left at the end, are stored as a child that is
\* done: _store_done_csv_job.
CutFile ==
  LET n == Min({job.split, Len(thread.rows)}) IN
  /\ thread.at \in {"read", "rest"} /\ job.mode = "batch"
  /\ thread.at = "read" => n = job.split
  /\ n > 0
  /\ files' = Append(files, [rows |-> SubSeq(thread.rows, 1, n), first |-> thread.stored + 1,
                             last |-> thread.stored + n])
  /\ thread' = [thread EXCEPT !.rows = SubSeq(@, n + 1, Len(@)), !.stored = @ + n,
                              !.at = IF @ = "read" THEN "ready" ELSE "last"]
  /\ UNCHANGED <<live, textual, job, steady, edits>>

\* The child is named in the batch, under the lock.  The counts are not brought up
\* to date for the last one.
OfferFile ==
  /\ thread.at \in {"ready", "last"}
  /\ job' = [job EXCEPT !.ready = Len(files),
                        !.processed = IF thread.at = "ready" THEN thread.stored ELSE @]
  /\ thread' = [thread EXCEPT !.at = IF @ = "ready" THEN "read" ELSE "rest"]
  /\ UNCHANGED <<live, textual, files, steady, edits>>

\* Mutant of EndOfPair: a batch forgets the rows that do not fill a file.
EndOfPairWithoutRest ==
  /\ Reading
  /\ thread.pair \notin textual => NextPage = <<>>
  /\ thread.found \/ (job.mode = "single" /\ thread.pair = LastPair)
  /\ thread' = [thread EXCEPT !.at = IF job.mode = "batch" THEN "rest" ELSE "write",
                              !.rows = IF job.mode = "batch" THEN <<>> ELSE @]
  /\ job' = IF job.mode = "batch" THEN job
            ELSE [job EXCEPT !.status = "running", !.processed = 0]
  /\ UNCHANGED <<live, textual, files, steady, edits>>

\* A page without rows ends the paging.  A single export counts anew while it writes.
EndOfPair ==
  /\ Reading
  /\ thread.pair \notin textual => NextPage = <<>>
  /\ thread.found \/ (job.mode = "single" /\ thread.pair = LastPair)
  /\ thread' = [thread EXCEPT !.at = IF job.mode = "batch" THEN "rest" ELSE "write"]
  /\ job' = IF job.mode = "batch" THEN job
            ELSE [job EXCEPT !.status = "running", !.processed = 0]
  /\ UNCHANGED <<live, textual, files, steady, edits>>

BatchDone ==
  /\ thread.at = "rest" /\ thread.rows = <<>>
  /\ thread' = [thread EXCEPT !.at = "ended"]
  /\ job' = [job EXCEPT !.status = "done", !.processed = thread.stored]
  /\ UNCHANGED <<live, textual, files, steady, edits>>

\* A single export writes its rows, showing its progress ...
WriteRow ==
  /\ thread.at = "write" /\ job.processed < Len(thread.rows)
  /\ job' = [job EXCEPT !.processed = @ + 1]
  /\ UNCHANGED <<live, textual, files, thread, steady, edits>>

\* ... and is done, first in its status, then in its content.  No lock is held, and
\* a download between the two is answered with an empty table.
SayDone ==
  /\ thread.at = "write" /\ job.processed = Len(thread.rows)
  /\ thread' = [thread EXCEPT !.at = "content"]
  /\ job' = [job EXCEPT !.status = "done"]
  /\ UNCHANGED <<live, textual, files, steady, edits>>

SetContent ==
  /\ thread.at = "content"
  /\ thread' = [thread EXCEPT !.at = "ended"]
  /\ job' = [job EXCEPT !.csv = thread.rows]
  /\ UNCHANGED <<live, textual, files, steady, edits>>

\* EXPORT_JOBS is memory of one process, and the thread a daemon of it.
ProcessStops ==
  /\ job.status # "none" /\ job.status # "gone"
  /\ job' = [NoJob EXCEPT !.status = "gone"]
  /\ files' = <<>> /\ thread' = [NoThread EXCEPT !.at = "ended"]
  /\ UNCHANGED <<live, textual, steady, edits>>

\* The steps of the thread that do not wait for a search to fail.
ThreadStep ==
  \/ ReadRows \/ NextPair \/ NoRows \/ CutFile \/ OfferFile
  \/ EndOfPair \/ BatchDone \/ WriteRow \/ SayDone \/ SetContent

ExportNext ==
  \/ \E mode \in {"single", "batch"}, split \in Splits, table \in Tables,
        text \in SUBSET FieldPairs : StartExport(mode, split, table, text)
  \/ \E p \in FieldPairs, k \in Keys : Edit(p, k)
  \/ ThreadStep \/ SearchFails \/ ProcessStops

ExportSpec == ExportInit /\ [][ExportNext]_exportVars

(***************************************************************************)
(* Properties                                                              *)
(***************************************************************************)

\* The rows a user of the page can download.
Offered == job.csv \o FlattenSeq([i \in 1 .. job.ready |-> files[i].rows])

Finished == thread.at = "ended" /\ job.status = "done"

\* While the index changes under the paging, no row is offered twice and all rows
\* offered are of one pair of fields, in the order of their keys; and an export
\* that ends as done has every row that was there from its start to its end
\* (_run_export_job, _run_chunked_export_async).
EveryRowOnce ==
  /\ \A i \in 1 .. Len(Offered) - 1 :
       Offered[i][1] = Offered[i + 1][1] /\ Offered[i][2] < Offered[i + 1][2]
  /\ Finished =>
       \A p \in FieldPairs \ textual :
         \/ \A k \in steady[p] : <<p, k>> \in Range(Offered)
         \/ \E q \in 1 .. p - 1 : \E i \in DOMAIN Offered : Offered[i][1] = q

\* The files of a batch, at any moment, number the rows 1, 2, 3, ... without gap or
\* overlap, each full but the last, so that a partial download is a prefix of the
\* whole; the batch never shows more rows than its files have
\* (_run_chunked_export_async, export_status).
FilesAreConsecutive ==
  /\ job.ready <= Len(files)
  /\ \A i \in 1 .. job.ready :
       /\ files[i].first = IF i = 1 THEN 1 ELSE files[i - 1].last + 1
       /\ files[i].last - files[i].first + 1 = Len(files[i].rows)
       /\ i < job.ready => Len(files[i].rows) = job.split
  /\ job.mode = "batch" => job.processed <= Len(Offered)

\* An export that was started ends, as done or as an error, whatever enters and
\* leaves the index meanwhile, unless its process stops
\* (_run_export_job, _run_chunked_export_async).
ExportEnds == thread.at = "read" ~> thread.at = "ended"

\* The types of the variables (EXPORT_JOBS).
ExportTypeOK ==
  /\ live \in [FieldPairs -> SUBSET Keys] /\ steady \in [FieldPairs -> SUBSET Keys]
  /\ textual \subseteq FieldPairs /\ edits \in 0 .. MaxEdits
  /\ job \in [mode : {"none", "single", "batch"}, split : Nat,
              status : {"none", "queued", "running", "done", "error", "gone"},
              processed : Nat, ready : Nat, csv : Seq(FieldPairs \X Keys)]
  /\ files \in Seq([rows : Seq(FieldPairs \X Keys), first : Nat, last : Nat])
  /\ thread \in [at : {"none", "read", "ready", "rest", "last", "write", "content", "ended"},
                 pair : FieldPairs, after : 0 .. LastKey, found : BOOLEAN,
                 rows : Seq(FieldPairs \X Keys), stored : Nat]
==============================================================================

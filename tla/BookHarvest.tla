----------------------------- MODULE BookHarvest ------------------------------
(***************************************************************************)
(* The harvest of SciELO Books from the _changes feed of a CouchDB.  The   *)
(* feed lists every document once, at the sequence number of its last      *)
(* change.  The task Harvest Books reads it from a cursor, the greatest    *)
(* last_seq of the rows of HarvestedBook, and handles each change in its   *)
(* own process (run_single_tasks) or sends a task Harvest Single Book for  *)
(* it.  A change deletes the row of the document, or fetches the document  *)
(* and saves it; a chapter (TYPE Part) needs the row of its monograph,     *)
(* which is fetched first when it is missing.  Saving raw_data indexes it  *)
(* in the raw index.  The page is then transformed (see BronzeTransform).  *)
(*                                                                         *)
(* The version of a document is the sequence number of its change.         *)
(***************************************************************************)
EXTENDS Integers, FiniteSets, FiniteSetsExt

CONSTANTS
  Monographs, Parts,  \* documents of the database
  Monograph,          \* Monograph[p]: field "monograph" of chapter p
  Workers,            \* processes that handle a change
  MaxKills,           \* bound: times a process is killed
  Inline,             \* Harvest Books handles the changes itself
  Limit,              \* changes in a page of the feed
  FirstSeq,           \* changes made before the first harvest
  LastSeq             \* bound: changes made

Docs == Monographs \cup Parts

ASSUME DocsAssumption ==
  /\ Monographs \cap Parts = {} /\ Monograph \in [Parts -> Monographs]
  /\ Docs # {} /\ IsFiniteSet(Docs)
ASSUME WorkersAssumption ==
  Inline \in BOOLEAN /\ MaxKills \in Nat /\ (Inline => \E x \in Workers : Workers = {x})
ASSUME FeedAssumption ==
  Limit \in Nat \ {0} /\ FirstSeq \in Nat /\ LastSeq \in Nat /\ FirstSeq <= LastSeq

VARIABLES
  seq,      \* sequence number of the last change in the database
  latest,   \* latest[d]: sequence number of the last change of d (0: none)
  gone,     \* documents deleted from the database
  kills,    \* times a process was killed
  row,      \* row[d]: the HarvestedBook of d
  raw,      \* raw[d]: version of d in the raw index (0: none)
  harvest,  \* the running task Harvest Books
  tasks,    \* changes sent as tasks Harvest Single Book
  worker,   \* what each process has in memory
  skipped   \* changes of chapters given up for want of their monograph

outside == <<seq, latest, gone, kills>>
vars == <<seq, latest, gone, kills, row, raw, harvest, tasks, worker, skipped>>

Seqs == 0 .. LastSeq
HarvestStatus == {"pending", "in_progress", "success", "failed"}
IndexStatus == {"pending", "success", "failed"}

NoRow == [harvest |-> "absent", index |-> "pending", data |-> 0, seq |-> 0]
Row == [harvest : HarvestStatus, index : IndexStatus, data : Seqs, seq : Seqs] \cup {NoRow}
Exists(d) == row[d] # NoRow

\* HarvestedBook.objects.get_or_create(identifier=d), then a status.
Got(d, status) == [row[d] EXCEPT !.harvest = status]

NoChange == [doc |-> CHOOSE d \in Docs : TRUE, seq |-> 0, deleted |-> FALSE]

\* A process: the change it handles, the version of its document it fetched
\* (data), the document and version it is saving (target, saving), and whether
\* the rows it holds in memory, of target and of the monograph, still exist.
Idle == [at |-> "idle", change |-> NoChange, data |-> 0, target |-> NoChange.doc,
         saving |-> 0, held |-> FALSE, parentHeld |-> TRUE]

Update(x, changed) == worker' = [worker EXCEPT ![x] = changed]

(***************************************************************************)
(* The database                                                            *)
(***************************************************************************)

Init ==
  /\ seq = FirstSeq
  /\ latest \in {f \in [Docs -> 0 .. FirstSeq] :
                   /\ \A d, e \in Docs : d # e /\ f[d] = f[e] => f[d] = 0
                   /\ FirstSeq = 0 \/ \E d \in Docs : f[d] = FirstSeq}
  /\ gone \in SUBSET {d \in Docs : latest[d] > 0}
  /\ kills = 0
  /\ row = [d \in Docs |-> NoRow]
  /\ raw = [d \in Docs |-> 0]
  /\ harvest = [at |-> "idle", since |-> 0, page |-> {}]
  /\ tasks = {}
  /\ worker = [x \in Workers |-> Idle]
  /\ skipped = {}

\* A document is created, changed or deleted.
Change(d) ==
  /\ seq < LastSeq
  /\ seq' = seq + 1 /\ latest' = [latest EXCEPT ![d] = seq + 1]
  /\ \/ gone' = gone \ {d}
     \/ latest[d] > 0 /\ d \notin gone /\ gone' = gone \cup {d}
  /\ UNCHANGED <<kills, row, raw, harvest, tasks, worker, skipped>>

\* Mutant of Changes: the cursor is taken as the next change instead of the last.
ChangesAfterNext(s) ==
  {[doc |-> d, seq |-> latest[d], deleted |-> d \in gone] :
     d \in {e \in Docs : latest[e] > s + 1}}

\* The page of _changes after sequence number s.
Changes(s) ==
  LET after == {d \in Docs : latest[d] > s}
      first == {d \in after : Cardinality({e \in after : latest[e] < latest[d]}) < Limit}
  IN {[doc |-> d, seq |-> latest[d], deleted |-> d \in gone] : d \in first}

SeqsOf(changes) == {c.seq : c \in changes}

(***************************************************************************)
(* Harvest Books                                                           *)
(***************************************************************************)

\* _get_last_seq
Cursor == Max({row[d].seq : d \in Docs} \cup {0})

Free(x) == worker[x].at = "idle"

Start ==
  /\ harvest.at = "idle" /\ (Inline => \A x \in Workers : Free(x))
  /\ harvest' = [at |-> "changes", since |-> Cursor, page |-> {}]
  /\ UNCHANGED <<row, raw, tasks, worker, skipped>> /\ UNCHANGED outside

\* fetch_changes_page; an empty page ends the harvest.
FetchPage ==
  LET page == Changes(harvest.since) IN
  /\ harvest.at = "changes" /\ harvest.page = {}
  /\ Inline => \A x \in Workers : Free(x)
  /\ harvest' = IF page = {} THEN [harvest EXCEPT !.at = "idle"]
                ELSE [harvest EXCEPT !.page = page, !.since = Max(SeqsOf(page))]
  /\ UNCHANGED <<row, raw, tasks, worker, skipped>> /\ UNCHANGED outside

FetchPageFails ==
  /\ harvest.at = "changes" /\ harvest.page = {}
  /\ Inline => \A x \in Workers : Free(x)
  /\ harvest' = [harvest EXCEPT !.at = "idle"]
  /\ UNCHANGED <<row, raw, tasks, worker, skipped>> /\ UNCHANGED outside

\* c is the next change of the page.
NextChange(c) ==
  /\ harvest.at = "changes" /\ c \in harvest.page
  /\ \A e \in harvest.page : c.seq <= e.seq
  /\ harvest' = [harvest EXCEPT !.page = @ \ {c}]

\* harvest_single_book is entered with change c.
Handling(c) ==
  [Idle EXCEPT !.at = IF c.deleted THEN "delete" ELSE "fetch",
               !.change = c, !.target = c.doc]

\* The loop of harvest_books.
Handle(x) ==
  /\ Inline /\ Free(x)
  /\ \E c \in harvest.page : NextChange(c) /\ Update(x, Handling(c))
  /\ UNCHANGED <<row, raw, tasks, skipped>> /\ UNCHANGED outside

\* The loop of harvest_books_in_couchdb.
SendTask ==
  /\ ~Inline
  /\ \E c \in harvest.page : NextChange(c) /\ tasks' = tasks \cup {c}
  /\ UNCHANGED <<row, raw, worker, skipped>> /\ UNCHANGED outside

\* harvest_single_book_in_couchdb
TakeTask(x) ==
  /\ ~Inline /\ Free(x)
  /\ \E c \in tasks : tasks' = tasks \ {c} /\ Update(x, Handling(c))
  /\ UNCHANGED <<row, raw, harvest, skipped>> /\ UNCHANGED outside

\* harvest_single_book returns, or raises: the task ends and, when it is the
\* harvest itself, the rest of the feed is not read.
Return(x) == Update(x, Idle) /\ UNCHANGED harvest
Raise(x) ==
  /\ Update(x, Idle)
  /\ harvest' = IF Inline THEN [at |-> "idle", since |-> 0, page |-> {}] ELSE harvest

\* retry_failed_books passes doc_id to a task that takes payload: delay raises
\* at the first failed row.
RetryFailed ==
  /\ \E d \in Docs : row[d].harvest = "failed"
  /\ UNCHANGED vars

(***************************************************************************)
(* _delete_book_record                                                     *)
(***************************************************************************)

\* The row is deleted and its signal removes the raw document, a failure of
\* which is only logged.  Rows in the memory of other processes are now stale.
DeleteRow(x) ==
  LET d == worker[x].change.doc IN
  /\ worker[x].at = "delete" /\ Exists(d)
  /\ row' = [row EXCEPT ![d] = NoRow]
  /\ \E left \in {0, raw[d]} : raw' = [raw EXCEPT ![d] = left]
  /\ worker' = [y \in Workers |->
       IF y = x THEN [worker[x] EXCEPT !.at = "deleteRaw"]
       ELSE [worker[y] EXCEPT
               !.held = @ /\ worker[y].target # d,
               !.parentHeld = @ /\ (worker[y].change.doc \in Parts
                                      => Monograph[worker[y].change.doc] # d)]]
  /\ UNCHANGED <<harvest, tasks, skipped>> /\ UNCHANGED outside

\* delete_harvested_document once more, after the row is gone.
DeleteRaw(x) ==
  LET d == worker[x].change.doc IN
  /\ worker[x].at = "deleteRaw"
  /\ \E left \in {0, raw[d]} : raw' = [raw EXCEPT ![d] = left]
  /\ Return(x)
  /\ UNCHANGED <<row, tasks, skipped>> /\ UNCHANGED outside

DeleteUnknown(x) ==
  /\ worker[x].at = "delete" /\ ~Exists(worker[x].change.doc)
  /\ Return(x)
  /\ UNCHANGED <<row, raw, tasks, skipped>> /\ UNCHANGED outside

(***************************************************************************)
(* harvest_single_book                                                     *)
(***************************************************************************)

Fetchable(d) == latest[d] > 0 /\ d \notin gone

\* fetch_doc returns the document as it is now.
FetchDoc(x) ==
  LET d == worker[x].change.doc IN
  /\ worker[x].at = "fetch" /\ Fetchable(d)
  /\ Update(x, [worker[x] EXCEPT !.at = IF d \in Parts THEN "parent" ELSE "save",
                                 !.data = latest[d], !.saving = latest[d]])
  /\ UNCHANGED <<row, raw, harvest, tasks, skipped>> /\ UNCHANGED outside

\* fetch_doc marks the row as failed and returns (None, None); the caller then
\* reads a field of None.
FetchFails(x) ==
  LET d == worker[x].change.doc IN
  /\ worker[x].at = "fetch"
  /\ row' = [row EXCEPT ![d] = Got(d, "failed")]
  /\ Raise(x)
  /\ UNCHANGED <<raw, tasks, skipped>> /\ UNCHANGED outside

ParentOf(x) == Monograph[worker[x].change.doc]

\* _resolve_monograph_parent: the row is there, or
FindParent(x) ==
  /\ worker[x].at = "parent" /\ Exists(ParentOf(x))
  /\ Update(x, [worker[x] EXCEPT !.at = "save", !.parentHeld = TRUE])
  /\ UNCHANGED <<row, raw, harvest, tasks, skipped>> /\ UNCHANGED outside

\* the monograph is fetched, to be saved before the chapter, or
FetchParent(x) ==
  LET m == ParentOf(x) IN
  /\ worker[x].at = "parent" /\ ~Exists(m) /\ Fetchable(m)
  /\ Update(x, [worker[x] EXCEPT !.at = "save", !.target = m, !.saving = latest[m]])
  /\ UNCHANGED <<row, raw, harvest, tasks, skipped>> /\ UNCHANGED outside

\* it cannot be fetched, and the chapter is given up.
FetchParentFails(x) ==
  LET m == ParentOf(x) IN
  /\ worker[x].at = "parent" /\ ~Exists(m)
  /\ row' = [row EXCEPT ![m] = Got(m, "failed")]
  /\ skipped' = skipped \cup {worker[x].change}
  /\ Return(x)
  /\ UNCHANGED <<raw, tasks>> /\ UNCHANGED outside

(***************************************************************************)
(* _persist_harvested_book                                                 *)
(***************************************************************************)

SavesParent(x) == worker[x].target # worker[x].change.doc

\* The row is saved; a chapter's turn comes once its monograph is.
Saved(x) ==
  IF SavesParent(x)
    THEN /\ Update(x, [worker[x] EXCEPT !.at = "parentSaved", !.held = FALSE])
         /\ UNCHANGED harvest
    ELSE Return(x)

\* Mutant of GetRow: mark_as_in_progress is left out.
GetRowOnly(x) ==
  LET d == worker[x].target IN
  /\ worker[x].at = "save"
  /\ row' = [row EXCEPT ![d] = IF Exists(d) THEN @ ELSE Got(d, "pending")]
  /\ Update(x, [worker[x] EXCEPT !.at = "data", !.held = TRUE])
  /\ UNCHANGED <<raw, harvest, tasks, skipped>> /\ UNCHANGED outside

\* get_or_create and mark_as_in_progress
GetRow(x) ==
  LET d == worker[x].target IN
  /\ worker[x].at = "save"
  /\ row' = [row EXCEPT ![d] = Got(d, "in_progress")]
  /\ Update(x, [worker[x] EXCEPT !.at = "data", !.held = TRUE])
  /\ UNCHANGED <<raw, harvest, tasks, skipped>> /\ UNCHANGED outside

\* Mutant of NewData: the monograph is saved with the last_seq of its chapter.
NewDataWithSeq(x) ==
  [row[worker[x].target] EXCEPT !.data = worker[x].saving, !.seq = worker[x].change.seq]

\* The version and last_seq that x saves; a monograph fetched for its chapter
\* has no last_seq.
NewData(x) ==
  LET w == worker[x] IN
  [row[w.target] EXCEPT !.data = w.saving,
                        !.seq = IF SavesParent(x) THEN 0 ELSE w.change.seq]

SaveData(x) ==
  /\ worker[x].at = "data" /\ worker[x].held
  /\ worker[x].parentHeld \/ SavesParent(x)
  /\ row' = [row EXCEPT ![worker[x].target] = NewData(x)]
  /\ Update(x, [worker[x] EXCEPT !.at = "index"])
  /\ UNCHANGED <<raw, harvest, tasks, skipped>> /\ UNCHANGED outside

\* The database refuses the row, as when its parent was deleted.
SaveDataFails(x) ==
  /\ worker[x].at = "data" /\ worker[x].held
  /\ row' = [row EXCEPT ![worker[x].target] = Got(worker[x].target, "failed")]
  /\ Saved(x)
  /\ UNCHANGED <<raw, tasks, skipped>> /\ UNCHANGED outside

\* index_harvested_instance, from the signal post_save.
IndexRaw(x) ==
  /\ worker[x].at = "index"
  /\ raw' = [raw EXCEPT ![worker[x].target] = worker[x].saving]
  /\ Update(x, [worker[x] EXCEPT !.at = "indexed"])
  /\ UNCHANGED <<row, harvest, tasks, skipped>> /\ UNCHANGED outside

\* mark_as_indexed and mark_as_index_failed write the harvest_status in memory.
Marked(d, status) == [row[d] EXCEPT !.index = status, !.harvest = "in_progress"]

IndexRawFails(x) ==
  /\ worker[x].at = "index" /\ worker[x].held
  /\ row' = [row EXCEPT ![worker[x].target] = Marked(worker[x].target, "failed")]
  /\ Update(x, [worker[x] EXCEPT !.at = "success"])
  /\ UNCHANGED <<raw, harvest, tasks, skipped>> /\ UNCHANGED outside

MarkIndexed(x) ==
  /\ worker[x].at = "indexed" /\ worker[x].held
  /\ row' = [row EXCEPT ![worker[x].target] = Marked(worker[x].target, "success")]
  /\ Update(x, [worker[x] EXCEPT !.at = "success"])
  /\ UNCHANGED <<raw, harvest, tasks, skipped>> /\ UNCHANGED outside

MarkSuccess(x) ==
  /\ worker[x].at = "success" /\ worker[x].held
  /\ row' = [row EXCEPT ![worker[x].target] = Got(worker[x].target, "success")]
  /\ Saved(x)
  /\ UNCHANGED <<raw, tasks, skipped>> /\ UNCHANGED outside

\* The row held in memory was deleted: saving it raises, and so does the
\* handler, which saves it again; a chapter is given up if it was its monograph's.
RowIsGone(x) ==
  /\ worker[x].at \in {"data", "index", "indexed", "success"} /\ ~worker[x].held
  /\ Raise(x)
  /\ skipped' = IF SavesParent(x) THEN skipped \cup {worker[x].change} ELSE skipped
  /\ UNCHANGED <<row, raw, tasks>> /\ UNCHANGED outside

\* The chapter is next, unless the monograph was deleted meanwhile.
BackToPart(x) ==
  LET w == worker[x]  p == w.change.doc IN
  /\ w.at = "parentSaved"
  /\ IF Exists(Monograph[p])
       THEN /\ Update(x, [w EXCEPT !.at = "save", !.target = p, !.saving = w.data,
                                   !.parentHeld = TRUE])
            /\ UNCHANGED <<harvest, skipped>>
       ELSE skipped' = skipped \cup {w.change} /\ Return(x)
  /\ UNCHANGED <<row, raw, tasks>> /\ UNCHANGED outside

\* A process is killed; a task it had taken is acknowledged and not run again.
Kill(x) ==
  /\ kills < MaxKills /\ kills' = kills + 1
  /\ ~Free(x) \/ (Inline /\ harvest.at # "idle")
  /\ Raise(x)
  /\ UNCHANGED <<seq, latest, gone, row, raw, tasks, skipped>>

(***************************************************************************)
(* The specification                                                       *)
(***************************************************************************)

Step(x) ==
  \/ Handle(x) \/ TakeTask(x)
  \/ DeleteRow(x) \/ DeleteRaw(x) \/ DeleteUnknown(x)
  \/ FetchDoc(x) \/ FindParent(x) \/ FetchParent(x)
  \/ GetRow(x) \/ SaveData(x) \/ IndexRaw(x) \/ MarkIndexed(x) \/ MarkSuccess(x)
  \/ RowIsGone(x) \/ BackToPart(x)

Outage(x) ==
  \/ FetchFails(x) \/ FetchParentFails(x) \/ SaveDataFails(x) \/ IndexRawFails(x)

Next ==
  \/ \E d \in Docs : Change(d)
  \/ Start \/ FetchPage \/ FetchPageFails \/ SendTask \/ RetryFailed
  \/ \E x \in Workers : Step(x) \/ Outage(x) \/ Kill(x)

Spec == Init /\ [][Next]_vars

\* Harvest Books is scheduled again and again, and what is tried again and
\* again succeeds in the end.
FairSpec ==
  /\ Spec /\ WF_vars(Start) /\ WF_vars(SendTask) /\ WF_vars(RetryFailed)
  /\ \A s \in Seqs : SF_vars(harvest.since = s /\ FetchPage)
  /\ \A x \in Workers : WF_vars(Step(x) \/ Outage(x))
  /\ \A x \in Workers, d \in Docs :
       /\ SF_vars(worker[x].change.doc = d /\ FetchDoc(x))
       /\ SF_vars(worker[x].target = d /\ SaveData(x))

(***************************************************************************)
(* Properties                                                              *)
(***************************************************************************)

ChangeType == [doc : Docs, seq : Seqs, deleted : BOOLEAN]

\* The type invariant.
TypeOK ==
  /\ seq \in Seqs /\ kills \in 0 .. MaxKills /\ latest \in [Docs -> 0 .. seq] /\ gone \subseteq Docs
  /\ row \in [Docs -> Row] /\ raw \in [Docs -> Seqs]
  /\ harvest \in [at : {"idle", "changes"}, since : Seqs, page : SUBSET ChangeType]
  /\ tasks \subseteq ChangeType /\ skipped \subseteq ChangeType
  /\ worker \in [Workers ->
       [at : {"idle", "delete", "deleteRaw", "fetch", "parent", "save", "data",
              "index", "indexed", "success", "parentSaved"},
        change : ChangeType, data : Seqs, target : Docs, saving : Seqs,
        held : BOOLEAN, parentHeld : BOOLEAN]]

LastChange(d) == [doc |-> d, seq |-> latest[d], deleted |-> d \in gone]

\* The cursor has passed the last change of d and nothing under way handles d.
Passed(d) ==
  /\ 0 < latest[d] /\ latest[d] <= Cursor
  /\ LastChange(d) \notin harvest.page \cup tasks
  /\ \A x \in Workers : Free(x) \/ d \notin {worker[x].change.doc, worker[x].target}

\* The row of d shows its last change.
Harvested(d) == IF d \in gone THEN row[d].data = 0 ELSE row[d].data = latest[d]

\* It does, or says that it failed.
Reflected(d) == Harvested(d) \/ (d \notin gone /\ row[d].harvest = "failed")

\* A change is not read again once the cursor has passed it, so by then the row
\* shows it, the row says failed, or the chapter was given up for want of its monograph.
NothingSilentlyLost ==
  \A d \in Docs : Passed(d) => Reflected(d) \/ LastChange(d) \in skipped

\* A row that says it was harvested and indexed has its data in the raw index,
\* for Harvest Books stores both statuses after the data they speak of.
SuccessIsIndexed ==
  \A d \in Docs :
    row[d].harvest = "success" /\ row[d].index = "success" => raw[d] = row[d].data

\* The row of a document never claims a change later than the version it holds,
\* however tasks for the document and its chapters interleave: the cursor, made
\* of these claims, would run past a change nobody has fetched.
SeqIsCovered == \A d \in Docs : row[d].seq <= row[d].data

\* What no later harvest tries again: a chapter for whose monograph there was no row
\* and no document, and a row that the database refused once a later change moved the
\* cursor past it.
GivenUp(d) == LastChange(d) \in skipped \/ (row[d].harvest = "failed" /\ latest[d] <= Cursor)

\* When documents stop changing, the row of each shows its last change in the end, or
\* the change was given up: a page or a document that could not be fetched, a kill
\* before the data was saved and whatever the exception that ended a harvest left
\* unread are all made good by a later harvest (iter_changes, harvest_single_book).
EveryChangeSettles == \A d \in Docs : <>[](Harvested(d) \/ GivenUp(d))

\* tasks.py has a task "Retry failed books" for the rows whose harvest failed.
FailedIsRetried ==
  \A d \in Docs : row[d].harvest = "failed" ~> row[d].harvest # "failed"
=============================================================================

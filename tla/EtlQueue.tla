------------------------------- MODULE EtlQueue -------------------------------
(***************************************************************************)
(* The ETL work queue: the EtlItemProcess table, the Celery runs of        *)
(* process_pending_items that claim rows of it, run the silver pipeline    *)
(* over them and write the outcome back, and everything that reopens rows  *)
(* meanwhile: the harvest (enqueue_etl_item), the OpenAlex harvest, the    *)
(* timeout of stale rows and the administrator.                            *)
(*                                                                         *)
(* A bronze document is its version number; a row's source_hash is the     *)
(* version it was enqueued with, and silver[i] the version of item i last  *)
(* merged into the silver index (0: none).  Two versions of one item are   *)
(* two distinct hashes.  Items that are duplicates of each other share a   *)
(* silver document, which is written anew from all of them.                *)
(***************************************************************************)
EXTENDS Integers, FiniteSets

CONSTANTS
  Items,           \* external ids of one source index
  Types,           \* document types
  TypeOf,          \* the document type of each item
  Document,        \* the silver document of each item
  Workers,         \* Celery processes running process_pending_items
  Mortal,          \* the workers that may be killed during a run
  Producers,       \* harvest processes calling enqueue_etl_item
  Limit,           \* batch size of one run
  MaxVersion,      \* bound: versions a bronze document goes through
  Matched,         \* items that have an OpenAlex counterpart
  NoYear,          \* items without the mandatory publication_year, of books (see SilverIdentity)
  Malformed,       \* items whose standardisation raises
  NoJob,           \* a producer that is not in a call
  InitialStatuses  \* initial_status values producers pass

Documents == {Document[i] : i \in Items}

\* The items whose records a silver document of S is made from.
Context(S) == {i \in Items : \E j \in S : Document[i] = Document[j]}

ASSUME TypeOfAssumption == TypeOf \in [Items -> Types]
ASSUME LimitAssumption == Limit \in Nat \ {0}
ASSUME VersionAssumption == MaxVersion \in Nat \ {0}
ASSUME ItemsAssumption ==
  /\ Matched \subseteq Items /\ NoYear \subseteq Items
  /\ Malformed \subseteq Items \ NoYear

\* A match is one of the whole document.  Simplification: a record that cannot be
\* standardised or has no year has no duplicate.
ASSUME DocumentAssumption ==
  /\ Document \in [Items -> Documents] /\ Context(Matched) = Matched
  /\ \A i \in NoYear \cup Malformed : Context({i}) = {i}
ASSUME MortalAssumption == Mortal \subseteq Workers
ASSUME InitialAssumption == InitialStatuses \subseteq {"pending", "success"}

VARIABLES
  bronze,    \* bronze[i]: version of the document in the bronze index
  silver,    \* silver[i]: version merged into the silver index
  row,       \* the EtlItemProcess table
  older,     \* <<i, j>>: row i has an earlier updated_at than row j
  stale,     \* processing rows not updated for timeout_minutes
  enabled,   \* document types with an enabled pipeline configuration
  job,       \* the enqueue_etl_item call each producer is in
  pc,        \* where each worker is
  todo,      \* items a worker claimed and has not grouped yet
  group,     \* the group of items its pipeline works on
  loaded,    \* bronze versions the pipeline loaded
  found,     \* items of the group matched with an OpenAlex work
  left,      \* items of the group still to be marked
  assigned   \* items whose in-memory status is no longer PROCESSING

tables  == <<row, older, stale>>
indices == <<bronze, silver>>
worker  == <<pc, todo, group, loaded, found, left, assigned>>
vars    == <<bronze, silver, row, older, stale, enabled, job,
             pc, todo, group, loaded, found, left, assigned>>

Versions == 0 .. MaxVersion
EtlStatus == {"pending", "processing", "success", "failed", "skipped"}
EtlResult == {"", "created", "updated", "merged", "unchanged", "skipped", "error"}
Row == [status : EtlStatus \cup {"absent"}, hash : Versions,
        result : EtlResult, match : BOOLEAN]
Job == [item : Items, hash : Versions, initial : {"pending", "success"},
        found : {"no", "same", "changed"}]
ASSUME NoJobAssumption == NoJob \notin Job
NoRow == [status |-> "absent", hash |-> 0, result |-> "", match |-> FALSE]

(***************************************************************************)
(* Helpers                                                                 *)
(***************************************************************************)
Existing == {i \in Items : row[i].status # "absent"}

WithStatus(S, status) == {i \in S : row[i].status = status}

\* Mutant of Touch: updated_at is not saved.
NoTouch(S) == older

\* updated_at of every row of S becomes the current time.
Touch(S) == {p \in older : p[1] \notin S /\ p[2] \notin S}
              \cup ((Existing \ S) \X S)

Busy(w) == pc[w] # "idle"

\* Items a worker claimed and has not marked yet.
Held(w) == todo[w] \cup IF pc[w] = "loaded" THEN group[w] ELSE left[w]

\* The documents of S that get into the silver index if the pipeline succeeds.
Indexable(S) == S \ (NoYear \cup Malformed)

\* Mutant of Requeued: mark_success and mark_failed without their guard.
IgnoreRequeue(w, i) == FALSE

\* The guard of mark_success and mark_failed: somebody requeued the row.
Requeued(w, i) == i \notin assigned[w] /\ row[i].status = "pending"

Init ==
  /\ bronze = [i \in Items |-> 0]
  /\ silver = [i \in Items |-> 0]
  /\ row = [i \in Items |-> NoRow]
  /\ older = {}
  /\ stale = {}
  /\ enabled = Types
  /\ job = [p \in Producers |-> NoJob]
  /\ pc = [w \in Workers |-> "idle"]
  /\ todo = [w \in Workers |-> {}]
  /\ group = [w \in Workers |-> {}]
  /\ loaded = [w \in Workers |-> [i \in Items |-> 0]]
  /\ found = [w \in Workers |-> {}]
  /\ left = [w \in Workers |-> {}]
  /\ assigned = [w \in Workers |-> {}]

(***************************************************************************)
(* Producers: enqueue_etl_item reads the row, compares hashes and saves    *)
(* without a lock, so the three steps interleave with everything else.     *)
(***************************************************************************)

\* The harvest wrote version bronze[i] + 1 (changed), or it or a backfill sends
\* the document it finds; the payload is fixed from here on.  Without an enabled
\* configuration for the document the call raises and nothing is enqueued.
StartEnqueue(p, i, changed, initial) ==
  /\ job[p] = NoJob
  /\ IF changed
       THEN /\ bronze[i] < MaxVersion /\ initial = "pending"
            /\ bronze' = [bronze EXCEPT ![i] = @ + 1]
       ELSE bronze[i] > 0 /\ UNCHANGED bronze
  /\ IF TypeOf[i] \in enabled
       THEN job' = [job EXCEPT ![p] = [item |-> i, hash |-> bronze'[i],
                                       initial |-> initial, found |-> "no"]]
       ELSE UNCHANGED job
  /\ UNCHANGED <<silver, row, older, stale, enabled>> /\ UNCHANGED worker

EnqueuedRow(j) ==
  [status |-> j.initial, hash |-> j.hash, match |-> FALSE,
   result |-> IF j.initial = "success" THEN "unchanged" ELSE ""]

\* get_or_create; nothing more to do for a row that has this hash, unless the
\* call is a backfill.
LookupRow(p) ==
  /\ job[p] # NoJob /\ job[p].found = "no"
  /\ LET j == job[p]  i == j.item IN
       \/ /\ row[i].status = "absent"
          /\ row' = [row EXCEPT ![i] = EnqueuedRow(j)]
          /\ older' = Touch({i})
          /\ job' = [job EXCEPT ![p] = NoJob]
       \/ /\ row[i].status # "absent"
          /\ row[i].hash = j.hash /\ j.initial # "success"
          /\ job' = [job EXCEPT ![p] = NoJob]
          /\ UNCHANGED <<row, older>>
       \/ /\ row[i].status # "absent"
          /\ row[i].hash # j.hash \/ j.initial = "success"
          /\ job' = [job EXCEPT ![p].found =
                       IF row[i].hash = j.hash THEN "same" ELSE "changed"]
          /\ UNCHANGED <<row, older>>
  /\ UNCHANGED <<bronze, silver, stale, enabled>> /\ UNCHANGED worker

\* Mutant of SaveRow: update_fields without the status.
SaveKeepsStatus(p) ==
  /\ job[p] # NoJob /\ job[p].found # "no"
  /\ row' = [row EXCEPT ![job[p].item].hash = job[p].hash]
  /\ older' = Touch({job[p].item})
  /\ job' = [job EXCEPT ![p] = NoJob]
  /\ UNCHANGED <<bronze, silver, stale, enabled>> /\ UNCHANGED worker

\* Overwrites the row as it is now; the backfill of a hash the lookup found
\* unchanged does not write source_hash.
SaveRow(p) ==
  /\ job[p] # NoJob /\ job[p].found # "no"
  /\ LET j == job[p] IN
       row' = [row EXCEPT ![j.item] =
                 IF j.found = "changed" THEN EnqueuedRow(j)
                 ELSE [EnqueuedRow(j) EXCEPT !.hash = row[j.item].hash]]
  /\ older' = Touch({job[p].item})
  /\ stale' = stale \ {job[p].item}
  /\ job' = [job EXCEPT ![p] = NoJob]
  /\ UNCHANGED <<bronze, silver, enabled>> /\ UNCHANGED worker

(***************************************************************************)
(* Other events on the table                                               *)
(***************************************************************************)

\* requeue_etl_items_for_openalex_updates over the rows whose matches hold an
\* updated work.
RequeueForOpenAlex(S) ==
  /\ S # {} /\ S \subseteq {i \in Existing : row[i].match}
  /\ LET reopened == S \ WithStatus(S, "pending") IN
       /\ row' = [i \in Items |-> IF i \in reopened
                    THEN [row[i] EXCEPT !.status = "pending", !.result = ""]
                    ELSE row[i]]
       /\ older' = Touch(reopened)
       /\ stale' = stale \ reopened
  /\ UNCHANGED <<enabled, job>> /\ UNCHANGED indices /\ UNCHANGED worker

\* The administrator's bulk action; updated_at stays.
ResetToPending(S) ==
  /\ S # {} /\ S \subseteq Existing
  /\ row' = [i \in Items |-> IF i \in S
               THEN [row[i] EXCEPT !.status = "pending", !.result = ""]
               ELSE row[i]]
  /\ stale' = stale \ S
  /\ UNCHANGED <<older, enabled, job>> /\ UNCHANGED indices /\ UNCHANGED worker

\* The dashboard's retry of one document type, refused while rows of that type
\* are processing.
RetryFailedByType(t) ==
  /\ \A i \in WithStatus(Items, "processing") : TypeOf[i] # t
  /\ row' = [i \in Items |-> IF TypeOf[i] = t /\ row[i].status = "failed"
               THEN [row[i] EXCEPT !.status = "pending"] ELSE row[i]]
  /\ UNCHANGED <<older, stale, enabled, job>>
  /\ UNCHANGED indices /\ UNCHANGED worker

ToggleConfig(t) ==
  /\ enabled' = IF t \in enabled THEN enabled \ {t} ELSE enabled \cup {t}
  /\ UNCHANGED job /\ UNCHANGED tables /\ UNCHANGED indices /\ UNCHANGED worker

\* timeout_minutes pass without an update of row i, whoever works on it; the
\* rows updated before it were reached first.
TimePasses(i) ==
  /\ row[i].status = "processing" /\ i \notin stale
  /\ stale' = stale \cup
       {j \in WithStatus(Items, "processing") : j = i \/ <<j, i>> \in older}
  /\ UNCHANGED <<row, older, enabled, job>>
  /\ UNCHANGED indices /\ UNCHANGED worker

(***************************************************************************)
(* A run of process_pending_items                                          *)
(***************************************************************************)

\* Mutant of AfterTimeouts: the run does not requeue stale rows.
NoTimeouts == row

\* requeue_stale_processing
AfterTimeouts ==
  [i \in Items |-> IF row[i].status = "processing" /\ i \in stale
     THEN [row[i] EXCEPT !.status = "pending"] ELSE row[i]]

\* The transaction that opens a run: stale rows are requeued, rows of a type
\* without configuration are skipped, the Limit rows with the earliest
\* updated_at are claimed.
ClaimBatch(w, statuses, types) ==
  /\ pc[w] = "idle"
  /\ LET waiting == {i \in Items : /\ AfterTimeouts[i].status \in statuses
                                   /\ TypeOf[i] \in types}
         matching == {i \in waiting : TypeOf[i] \in enabled}
         size == IF Cardinality(matching) < Limit
                   THEN Cardinality(matching) ELSE Limit
     IN \E claimed \in SUBSET matching :
          /\ Cardinality(claimed) = size
          /\ \A i \in claimed, j \in matching \ claimed : <<j, i>> \notin older
          /\ row' = [i \in Items |->
                       CASE i \in claimed ->
                              [AfterTimeouts[i] EXCEPT !.status = "processing"]
                         [] i \in waiting \ matching ->
                              [AfterTimeouts[i] EXCEPT !.status = "skipped",
                                                       !.result = "skipped"]
                         [] OTHER -> AfterTimeouts[i]]
          /\ older' = Touch(claimed) \cup (older \cap (claimed \X claimed))
          /\ todo' = [todo EXCEPT ![w] = claimed]
          /\ pc' = [pc EXCEPT ![w] = IF claimed = {} THEN "idle" ELSE "batch"]
  /\ stale' = {}
  /\ UNCHANGED <<enabled, job, group, loaded, found, left, assigned>>
  /\ UNCHANGED indices

\* process_item_group starts on one group of the batch: the pipeline loads the
\* bronze documents of its items and of their duplicates, claimed or not, and
\* looks for OpenAlex works.
LoadGroup(w, t, matches) ==
  /\ pc[w] = "batch"
  /\ LET items == {i \in todo[w] : TypeOf[i] = t} IN
       /\ items # {} /\ matches \subseteq items \cap Matched
       /\ todo' = [todo EXCEPT ![w] = @ \ items]
       /\ group' = [group EXCEPT ![w] = items]
       /\ loaded' = [loaded EXCEPT ![w] = [i \in Items |->
                       IF i \in Context(items) THEN bronze[i] ELSE 0]]
       /\ found' = [found EXCEPT ![w] = matches]
  /\ pc' = [pc EXCEPT ![w] = "loaded"]
  /\ UNCHANGED <<enabled, job, left, assigned>>
  /\ UNCHANGED tables /\ UNCHANGED indices

\* The documents of S are written with all the records loaded for them.
Merge(w, S) ==
  silver' = [i \in Items |->
    IF i \in Context(S) /\ loaded[w][i] > 0 THEN loaded[w][i] ELSE silver[i]]

\* The pipeline ends without errors, having indexed or skipped something: a
\* document that cannot be standardised is only worth a warning.
PipelineSucceeds(w) ==
  /\ pc[w] = "loaded"
  /\ group[w] \ Malformed # {}
  /\ Merge(w, Indexable(group[w]))
  /\ left' = [left EXCEPT ![w] = group[w]]
  /\ pc' = [pc EXCEPT ![w] = "marking"]
  /\ UNCHANGED <<bronze, enabled, job, todo, group, loaded, found, assigned>>
  /\ UNCHANGED tables

\* Mutant of PipelineFails: the reported errors are not looked at.
ErrorsIgnored(w, written) ==
  /\ pc[w] = "loaded"
  /\ written \subseteq Indexable(group[w])
  /\ Merge(w, written)
  /\ left' = [left EXCEPT ![w] = group[w]]
  /\ pc' = [pc EXCEPT ![w] = "marking"]
  /\ UNCHANGED <<bronze, enabled, job, todo, group, loaded, found, assigned>>
  /\ UNCHANGED tables

\* The pipeline raises after a bulk request wrote part of the documents, or
\* reports an error of some of them and wrote the others, or there was nothing
\* it could write.
PipelineFails(w, written) ==
  /\ pc[w] = "loaded"
  /\ written \subseteq Indexable(group[w])
  /\ Merge(w, written)
  /\ left' = [left EXCEPT ![w] = group[w]]
  /\ pc' = [pc EXCEPT ![w] = "failing"]
  /\ UNCHANGED <<bronze, enabled, job, todo, group, loaded, found, assigned>>
  /\ UNCHANGED tables

Outcome(w, i) ==
  [status |-> IF i \in NoYear THEN "skipped" ELSE "success",
   hash |-> row[i].hash,
   match |-> i \in found[w],
   result |-> CASE i \in NoYear -> "skipped"
                [] i \in found[w] \ NoYear -> "merged"
                [] i \notin NoYear \cup found[w] ->
                     IF Indexable(group[w]) = {} THEN "unchanged" ELSE "updated"]

\* Item i of the group is done with; the group ends with its last item.
Leave(w, i) ==
  /\ left' = [left EXCEPT ![w] = @ \ {i}]
  /\ pc' = [pc EXCEPT ![w] = IF left[w] = {i} THEN "batch" ELSE @]

\* Mutant of Write: the result is saved in the place of the status.
StatusForResult(w, i, r) ==
  /\ row' = [row EXCEPT ![i] = [r EXCEPT !.status = r.result]]
  /\ older' = Touch({i})
  /\ stale' = stale \ {i}
  /\ assigned' = [assigned EXCEPT ![w] = @ \cup {i}]

Write(w, i, r) ==
  /\ row' = [row EXCEPT ![i] = r]
  /\ older' = Touch({i})
  /\ stale' = stale \ {i}
  /\ assigned' = [assigned EXCEPT ![w] = @ \cup {i}]

\* mark_success
MarkSuccess(w, i) ==
  /\ pc[w] = "marking" /\ i \in left[w]
  /\ Leave(w, i)
  /\ \/ Requeued(w, i) /\ UNCHANGED <<row, older, stale, assigned>>
     \/ ~Requeued(w, i) /\ Write(w, i, Outcome(w, i))
  /\ UNCHANGED <<enabled, job, todo, group, loaded, found>> /\ UNCHANGED indices

\* Mutant of MarkRaises: only the other items of the group are marked as failed.
SweepTheOthers(w, i) ==
  /\ pc[w] = "marking" /\ i \in left[w] /\ group[w] # {i}
  /\ left' = [left EXCEPT ![w] = group[w] \ {i}]
  /\ pc' = [pc EXCEPT ![w] = "failing"]
  /\ UNCHANGED <<enabled, job, todo, group, loaded, found, assigned>>
  /\ UNCHANGED tables /\ UNCHANGED indices

\* mark_success raises for item i, before or after it assigned the new status
\* to the object in memory; the whole group is then marked as failed.
MarkRaises(w, i) ==
  /\ pc[w] = "marking" /\ i \in left[w]
  /\ \/ UNCHANGED assigned
     \/ /\ ~Requeued(w, i)
        /\ assigned' = [assigned EXCEPT ![w] = @ \cup {i}]
  /\ left' = [left EXCEPT ![w] = group[w]]
  /\ pc' = [pc EXCEPT ![w] = "failing"]
  /\ UNCHANGED <<enabled, job, todo, group, loaded, found>>
  /\ UNCHANGED tables /\ UNCHANGED indices

\* mark_failed
MarkFailed(w, i) ==
  /\ pc[w] = "failing" /\ i \in left[w]
  /\ Leave(w, i)
  /\ \/ Requeued(w, i) /\ UNCHANGED <<row, older, stale, assigned>>
     \/ /\ ~Requeued(w, i)
        /\ Write(w, i, [row[i] EXCEPT !.status = "failed", !.result = "error"])
  /\ UNCHANGED <<enabled, job, todo, group, loaded, found>> /\ UNCHANGED indices

ForgetBatch(w) ==
  /\ pc' = [pc EXCEPT ![w] = "idle"]
  /\ todo' = [todo EXCEPT ![w] = {}]
  /\ group' = [group EXCEPT ![w] = {}]
  /\ loaded' = [loaded EXCEPT ![w] = [i \in Items |-> 0]]
  /\ found' = [found EXCEPT ![w] = {}]
  /\ left' = [left EXCEPT ![w] = {}]
  /\ assigned' = [assigned EXCEPT ![w] = {}]
  /\ UNCHANGED <<enabled, job>> /\ UNCHANGED tables /\ UNCHANGED indices

FinishBatch(w) == pc[w] = "batch" /\ todo[w] = {} /\ ForgetBatch(w)

\* The process is killed, or mark_failed itself raises: nothing records it.
Crash(w) == Busy(w) /\ ForgetBatch(w)
-----------------------------------------------------------------------------
\* The beat's two runs; either may be asked for one document type only.
PendingRun(w, types) == ClaimBatch(w, {"pending"}, types)
RetryRun(w, types)   == ClaimBatch(w, {"pending", "failed"}, types)

Progress(w) ==
  \/ \E t \in Types, matches \in SUBSET Items : LoadGroup(w, t, matches)
  \/ PipelineSucceeds(w)
  \/ \E written \in SUBSET Items : PipelineFails(w, written)
  \/ \E i \in Items : MarkSuccess(w, i) \/ MarkRaises(w, i) \/ MarkFailed(w, i)
  \/ FinishBatch(w)

Enqueue(p) == LookupRow(p) \/ SaveRow(p)

Environment ==
  \/ \E p \in Producers, i \in Items, changed \in BOOLEAN,
        initial \in InitialStatuses : StartEnqueue(p, i, changed, initial)
  \/ \E S \in SUBSET Items : RequeueForOpenAlex(S) \/ ResetToPending(S)
  \/ \E t \in Types : RetryFailedByType(t) \/ ToggleConfig(t)

Next ==
  \/ \E p \in Producers : Enqueue(p)
  \/ Environment
  \/ \E i \in Items : TimePasses(i)
  \/ \E w \in Workers, types \in {Types} \cup {{t} : t \in Types} :
       PendingRun(w, types) \/ RetryRun(w, types)
  \/ \E w \in Workers : Progress(w)
  \/ \E w \in Mortal : Crash(w)

Spec == Init /\ [][Next]_vars

\* Time passes, a process that is not killed goes on, and the beat's run of
\* pending items gets a worker again and again: the broker hands out scheduled
\* runs in order.
Fairness ==
  /\ \A p \in Producers : WF_vars(Enqueue(p))
  /\ \A i \in Items : WF_vars(TimePasses(i))
  /\ \A w \in Workers : WF_vars(Progress(w))
  /\ SF_vars(\E w \in Workers : PendingRun(w, Types))

FairSpec == Spec /\ Fairness
-----------------------------------------------------------------------------
\* Type invariant: a row has a declared status and result whatever was saved
\* over it, and a worker holds items only.
TypeOK ==
  /\ bronze \in [Items -> Versions]
  /\ silver \in [Items -> Versions]
  /\ row \in [Items -> Row]
  /\ older \subseteq Items \X Items
  /\ stale \subseteq Items
  /\ enabled \subseteq Types
  /\ job \in [Producers -> Job \cup {NoJob}]
  /\ pc \in [Workers -> {"idle", "batch", "loaded", "marking", "failing"}]
  /\ todo \in [Workers -> SUBSET Items]
  /\ group \in [Workers -> SUBSET Items]
  /\ loaded \in [Workers -> [Items -> Versions]]
  /\ found \in [Workers -> SUBSET Items]
  /\ left \in [Workers -> SUBSET Items]
  /\ assigned \in [Workers -> SUBSET Items]

\* Row i is processing and no worker will mark it.
Orphaned(i) ==
  row[i].status = "processing" /\ \A w \in Workers : i \notin Held(w)

\* A processing row is in the hands of a worker that will mark it, whatever
\* requeues, retries and overlapping runs came in between: only a killed worker
\* leaves a row for the timeout to find.
ProcessingIsOwned == \A i \in Items : ~Orphaned(i)

\* Rows a run reported as done: they say success, no backfill declared it, and
\* it is not the success of a document that could not be standardised.
Settled ==
  {i \in WithStatus(Items, "success") : row[i].result # "unchanged"} \ Malformed

\* A row a run reported as done has its item in the silver index.
SuccessIsMerged == \A i \in Settled : silver[i] > 0

\* While runs do not overlap, a row reported as done has the version it was
\* enqueued with, or a later one, in the silver index: no enqueue that falls
\* into a run is lost.
SuccessIsFresh == \A i \in Settled : silver[i] >= row[i].hash

\* The queue as its clients see it: while runs do not overlap it keeps the
\* promise of SilverPromise.
Promise == INSTANCE SilverPromise WITH
  Docs <- Items,
  current <- bronze,
  asked <- [i \in Items |-> row[i].hash],
  published <- silver,
  settled <- Settled

KeepsPromise == Promise!Spec

\* A waiting row is claimed or declined in the end, with one row per run and
\* rows failing and coming back.
WaitingIsServed ==
  \A i \in Items : row[i].status = "pending" ~> row[i].status # "pending"

\* A row whose worker was killed goes to a worker again or is reopened, even
\* if the next worker is killed over it too.
OrphanIsRecovered ==
  \A i \in Items : Orphaned(i) ~> ~Orphaned(i)

\* What the test of a concurrent requeue says of successes: a run that merged
\* an earlier version does not mark the requeued row as done.
RequeueSurvivesSuccess ==
  [][\A w \in Workers, i \in Items :
       MarkSuccess(w, i) /\ loaded[w][i] < row[i].hash
         => row'[i] = row[i]]_vars
=============================================================================

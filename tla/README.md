# A TLA+ model of SciELO OCA's harvest and ETL

SciELO OCA (`scms-oca`) harvests scientific output from several sources, keeps
it in OpenSearch in three layers (raw, bronze, silver), merges SciELO records
with their OpenAlex counterparts, and serves dashboards and exports from the
result. It is a Django/Wagtail application; everything long-running is a Celery
task, started by the beat or by an administrator, and nothing keeps two tasks
of one kind from running at the same time.

What makes it hard is not a single task but their composition: rows of a
relational database say what was done to documents in OpenSearch, the two are
written one after the other without a transaction around them, any step may
fail or be killed, and the next run goes by what the rows say. The modules here
model these protocols; the properties ask what the rows may claim and what is
in the end done.

## 1. Inventory

### Components, their state and operations

| Component | State | Operations | Source |
|---|---|---|---|
| **ETL queue** | `EtlItemProcess` rows (status, result, `source_hash`, match flags, `updated_at`), `EtlPipelineConfig` | `enqueue_etl_item`, `process_pending_items` (claim, group, mark), `requeue_stale_processing`, `requeue_etl_items_for_openalex_updates`, admin reset, dashboard retry | `etl/services.py`, `etl/models.py`, `etl/tasks.py`, `etl/views.py` |
| **ETL pipeline** | silver indices, `silver_openalex` | load bronze, deduplicate, match, standardise, merge, bulk index, remove placeholders | `etl/pipeline.py`, `etl/transform/`, `etl/deduplicator/` |
| **OpenAlex snapshot harvest** | `OpenAlexHarvestRequest` rows for manifests and parts, `silver_openalex` | `harvest_openalex_works`, `process_manifest_parts`, `process_part`, `index_openalex_batch` | `harvest/harvesters/openalex.py` |
| **Books harvest** | `HarvestedBook` rows (with `last_seq`), raw index | `harvest_books`, `harvest_single_book`, `_delete_book_record`, retry and reindex tasks | `harvest/harvesters/book.py`, `harvest/tasks.py` |
| **Article harvest** | `HarvestedArticle` rows, raw index | `harvest_articles`, `retry_harvest_failed_articles` | `harvest/harvesters/article.py` |
| **Preprint and dataset harvests** | rows of the same shape | OAI-PMH and Dataverse listings | `harvest/harvesters/preprint.py`, `dataset.py` |
| **Bronze transformation and reconciliation** | bronze index, `TransformationScript` | `transform_indexed_page`, `reconcile_harvest_pipeline` | `harvest/bronze_transform.py`, `harvest/indexing.py` |
| **Global metrics upload** | `GlobalMetricsUpload`, metrics index | save, replace by name, process, apply | `harvest/global_metrics/` |
| **Rollover indices** | write and public aliases | bootstrap, rollover | `etl/client.py` |
| **Lookup indices** | lookup indices of the gateway | validate, collect, create, fill, verify | `search_gateway/lookup/` |
| **Gateway caches** | shared dictionary of dates, option caches | read, fill, invalidate | `search_gateway/freshness.py` |
| **Observation tables and exports** | per-process `EXPORT_JOBS`, files | start job, page, status, download | `observation/views.py` |
| **Search pages, journal indicators** | none of their own | queries, aggregations, CSV and RIS | `search/`, `indicator_journal/` |
| **Open science directories** | Wagtail snippets, public index | moderation, signals, bulk indexer | `*_directory/`, `core/` |
| **Legacy article loading** | `SourceArticle`, `Article` and their tables | store works, cut into slices, make articles | `article/tasks.py`, `article/models.py` |
| **Registries, other loaders, CMS** | relational tables | imports, pages | `institution/`, `scholarly_articles/`, `blog/` ... |

`PROJECT.json` lists each of them with its modules or the reason it has none.

### How they interact

    source --harvest--> rows + raw index --transform--> bronze index --enqueue--> EtlItemProcess
                                  ^            ^                                      |
                                  +-reconcile--+                                      v claim
    OpenAlex snapshot --> silver_openalex --match--> pipeline --merge--> silver index
            |                    ^                      |
            +-- requeue rows     +------ remove --------+

* The harvest saves a row; the signal `post_save` indexes its data in the raw
  index and saves the row again; the harvest marks it. A page of such rows is
  then reindexed into bronze and each of its documents enqueued.
* The reconciliation runs in the background and repairs: it indexes rows that
  are not indexed and transforms rows that have no `EtlItemProcess`.
* The queue's runs claim rows and hand groups of them to the pipeline.
* The OpenAlex harvest writes works to `silver_openalex`, where the pipeline finds
  and removes them, and reopens the rows merged with a work that was updated.

### What is hard about it

* **Interleaving**: an enqueue reads, compares and saves a row without a lock
  while a run claims and marks it; two runs overlap (the beat's runs, the retry
  button, a timeout of a row that is still being merged); tasks for a chapter and
  its monograph save one row; two harvests share a request row.
* **Failure between steps**: a worker killed after it claimed rows; a part
  marked as harvested and not yet as indexed; a bulk request that wrote half of
  its documents; a group of which one item could not be marked.
* **Ordering**: the match flag is written at the end of a run but decides which
  rows an OpenAlex update reopens, and a run for one item rewrites the silver document
  of its duplicates, whose rows it does not touch; the cursor of the books harvest is the highest
  sequence number any row has saved; the oldest row is claimed first, and every
  save renews its age.
* **Recovery**: what timed out, failed or was killed must be found again by some
  later task, from what the rows say.

### What makes each component correct

* Queue: a row that says success has its item in silver, in the version asked
  for or a later one; no claimed row is left without a worker; waiting rows are
  served.
* Pipeline and merge: a work is removed from `silver_openalex` only when it has been
  merged; an update of a work reaches the documents merged with its earlier version,
  whichever rows still say they have a match.
* Snapshot: a completed part, and a completed manifest, are really in the index,
  and the ETL heard of every update; every part is completed in the end.
* Books: no change the cursor has passed is lost without a trace, while the harvest does its
  documents itself; every change is harvested in the end or given up for a known reason.
* Bronze: a row that says indexed is; what was harvested reaches the ETL.
* Listings (articles, preprints): the cursor passes no record without a row for it.
* Deduplication: groups are the transitive closure of the duplicates. Fusion: a
  work is taken only when a score confirms it, and authors of SciELO are kept.
* Silver documents: a row marked as done is in a document found behind the public
  alias, through rollovers and changes of the document's id.
* Metrics: a processed upload has its rows indexed, and the silver groups follow.
* Exports: a finished job has every row once, in files without a gap, and ends.
* Lookup: what a build returns is complete, and builds do not mix their values.
* Caches: no date computed before the last run of the ETL is shown once it has deleted
  the dictionary. Directories: the public index shows the rows of the table.
* Registries: one row per name, unless two imports at once look it up.
* Articles: nothing a work has is replaced by what another work had.

The hazards, each at its line and with the properties that watch it, are in
`PROJECT.json`.

## 2. The modules

| Module | Models | State |
|---|---|---|
| `SilverPromise` | abstract: what the ETL owes its clients | versions at the source, asked for and published; settled items |
| `EtlQueue` | the queue and its runs | rows, bronze and silver versions, what each worker and each enqueue call has in memory |
| `SilverMerge` | `EtlQueue` extended with the OpenAlex works and the pipeline's merge | works in `silver_openalex`, works merged into the documents, works to remove, updates to requeue for |
| `SilverIdentity` | which silver documents a record ends up in: context, groups, ids, chunks, rollover | bronze records, queue marks, silver documents, the two aliases, the run |
| `ScieloDedup` | `SciELODeduplicator`, the union-find forest turn by turn | records, rules, parents, the finds in progress, groups |
| `OpenAlexFusion` | `OpenAlexMatcher` and the merger's authors | the record, the works, strategy at hand, matches, authors |
| `OpenAlexSnapshot` | the snapshot harvest | snapshot, request rows, index, memory of each run |
| `BookHarvest` | the books harvest | the CouchDB, its feed, rows, raw index, tasks, workers |
| `ListingHarvest` | the article and preprint listings | records and dates at the source, rows, the harvest, pages by offset |
| `BronzeTransform` | article harvest, raw, bronze, enqueue, reconciliation | rows, three indices, two jobs |
| `GlobalMetrics` | uploads of journal metrics, their tasks and silver | the row, its tasks, metrics index, silver, a batch of the pipeline |
| `LookupBuild` | builds of lookup indices | builds, indices and their values |
| `ExportJobs` | the CSV export thread | the table, `EXPORT_JOBS`, files, the thread |
| `DirectoryIndex` | directory rows and the public index | rows, requests and their transactions, sweeps, documents |
| `FreshnessCache` | the cached dictionary of dates | what dates are computed from, the dictionary, pages, tasks |
| `PlaceRegistry` | `get_or_create` of places and institutions by imports | rows, transactions, the line at hand |
| `ArticleLoading` | works made articles, slice by slice | stored works, slices, the loop's variables, journals, articles |
| `MCParts`, `MCLiveParts` | components without common state, side by side | `moving`: the component that runs |
| other `MC...` | model values, symmetry and bounds for TLC | |
| `EtlQueueProofs`, `EtlQueueSerialProofs` | proofs about `EtlQueue`; with runs that do not overlap, and about `SilverMerge` | |
| `OpenAlexSnapshotProofs`, `BookHarvestProofs`, `BronzeTransformProofs` | proofs about the module of that name | |
| `ListProofs` | proofs about `ScieloDedup`, `OpenAlexFusion`, `ExportJobs` and `ListingHarvest`, and lemmas about lists | |
| `RecordProofs` | proofs about `SilverIdentity`, `GlobalMetrics` and `ArticleLoading` | |
| `SearchProofs` | proofs about `FreshnessCache`, `LookupBuild`, `DirectoryIndex` and `PlaceRegistry` | |

Documents are versions: a payload, its hash and an indexed copy of it are the
number of the version they were made from, so that "stale" is a comparison.
Statuses, guards, early returns and the order of saves are those of the code;
wording, logging and the content of documents are not modelled. Variables
commented *auxiliary* are read by properties only.

### `EtlQueue`

| Code | Actions |
|---|---|
| `enqueue_etl_item` | `StartEnqueue` (the payload is fixed), `LookupRow` (`get_or_create`, comparison of hashes), `SaveRow` |
| `process_pending_items` | `ClaimBatch` (one transaction: timeouts, rows without configuration skipped, the oldest `Limit` claimed), `LoadGroup`, `PipelineSucceeds` / `PipelineFails`, `MarkSuccess`, `MarkRaises`, `MarkFailed`, `FinishBatch` |
| other writers | `RequeueForOpenAlex`, `ResetToPending`, `RetryFailedByType`, `ToggleConfig` |
| environment | `TimePasses` (a row becomes stale), `Crash` |

Rows hold status, hash, result and match flag. `older` is the order of
`updated_at`, a relation instead of a clock: ties are possible and time stamps
need no bound. `assigned` keeps, per worker, the items whose in-memory status is
no longer `PROCESSING`, because the guard of `mark_success` and `mark_failed` asks
the object in memory first and the database only then. `SweepTheOthers` and other
definitions introduced as "Mutant of" are broken variants of the definition they
precede; no specification uses them.

`Malformed` items are those whose standardisation raises, which the pipeline only
warns of: their rows may say success without a silver document, and `Settled`, of
which the properties speak, leaves them out. `NoYear` items are skipped.

Items may share a silver document (`Document`). A run loads the bronze records of its
items and of all their duplicates (`Context`, `_expand_scielo_input_context`), claimed or
not, and writes the shared document with all of them, while it marks only its own rows.
Simplifications: the duplicates are those of a fixed function, and records that cannot be
standardised or have no year have none; how groups change is the matter of `SilverIdentity`.

### `SilverMerge`

Works go by the name of the silver document they belong to, which its items share.
`FindMatches` is `LoadGroup` with the works found in `silver_openalex` for the documents of
the group (a search that fails finds none); `Fuse` is the document written anew with the
work found now or without one, whatever the rows of duplicates say. So a run for one of two
duplicates, after the work was merged and removed from `silver_openalex`, leaves the document
without the work and the other row with a match flag of the earlier run: the flag is no
statement about the document, and no property says it is. `StaleMergeIsDue` says what the
flags are for: an update of a work is not lost to a document merged with its earlier
version. `missed` keeps its exception, an update that finds no flag because the
run that merges the work for the first time has not marked a row yet.
`WriteMerged` and `WritePart` are the two ends of the pipeline, after which the
works merged are removed (`RemovePlaceholders`, by id and whatever version is
there, errors swallowed) before the rows are marked; `IndexBatch` and `RequeueMerged` are the harvest's
two steps. `ToggleConfig` is left out of this composition for size; it is checked in
`queue_overlap` and covered by the proofs.

### `OpenAlexSnapshot`

Manifest `m` lists the parts `1 .. m`; a work updated between two manifests moves to
the newer part, so a part's number is also the version of its works. Choosing
among several incomplete rows of a part is nondeterministic because their order by
`updated` is not preserved by concurrent saves. A run is one process going through
the parts; `Failure` is every exception the code catches (`FailPart`, `FailManifest`
record it), `RolloverRaises` the one it does not, `Crash` a kill. `ignored` remembers
works whose transformation failed, which the code counts and passes over. The run
checks deadlock off: the harvest does stop once the last manifest is done.

### `BookHarvest`

The feed shows each document once, at its last change. `Inline` chooses between the
task's two modes (`run_single_tasks`). A worker goes through `harvest_single_book`
step by step: `FetchDoc`, `FindParent` / `FetchParent` / `FetchParentFails`, `GetRow`,
`SaveData`, `IndexRaw`, `MarkIndexed`, `MarkSuccess`, `BackToPart`, and the deletion.
`held` and `parentHeld` say whether the rows it has in memory still exist.
`RetryFailed` raises before it does anything, as the code does. `NothingSilentlyLost` is a
property of the inline mode: with a task per change, two tasks of one document
in the wrong order, a killed task or a failed one overtaken by another lose a change without a
trace (see the hazards), and only `SeqIsCovered` is claimed. `EveryChangeSettles` leaves out
what no later harvest tries again (`GivenUp`): a chapter without a monograph to be had
and a row the database refused before the cursor went on. The `since` argument
of the task is not modelled; one Harvest Books runs at a time.

### `BronzeTransform`

Two jobs, the harvest (or the retry of failed articles) and the reconciliation, over
rows and the three indices. Abstractions: refresh and reindex are one step, and so
are reading a bronze document and enqueueing it; a page has no size limit; there is
one active script or none. With `Overlap = FALSE` the jobs take turns.

### `ListingHarvest`

Harvests of one source follow each other. An article is listed by the day of its
publication in pages of `Limit` by offset, and its date is inside the record that
is fetched for each item; a preprint comes with its date in one list. `Qualities`
are records the code saves, records it saves without a date (`defect`) and records
that make the handler raise (`poison`): an empty article, a preprint with an
author without a name, at which `get_name_author` calls its logger with a wrong
keyword (`parse_info_oai_pmh.py:106`). `excused` holds the records of which a harvest
cannot know: published later with an earlier date, or passed when the retry of a
record whose date has moved on saved a date that no list had reached.

Datasets of Dataverse have the same shape but no model: their start offset counts
rows, the dataverses included, when it is used at all (`harvest/tasks.py:115-131`), an
item that fails early leaves no row, and a retry passes `identifier` where the
handler reads `global_id`, so it never succeeds.

### `SilverIdentity`

`BeginRun` loads the records asked for and, once, those that share an identifier
(`Expanded`); `Groups` joins what the rules confirm; `Named` gives a group the id of its
first record and resolves groups with one id; chunks are written through the
write alias or refused; `RollOver` moves it and adds the new index to the public
one. What the property had to leave out, and the code does: records two hops
apart are not loaded, so reprocessing one overwrites its group by a smaller one;
a document whose id changes leaves the earlier one; after a rollover a document
written again is in two indices. `SuccessIsSearchable` asks that *some* public
document names the record, of every record that is `SeenWhole`: all records its identifiers
lead to have a year and are led to in one step. Without that it is false with three
records, which the proof attempt found: a record without a year is asked for and
grouped with a record that is done, the group is skipped, and another group of the same
code takes the id of the record that is done and overwrites its document.

### `ScieloDedup`

`TakePair` and `Compare` are a comparison in the order of `combinations`, `HalvePath` one
turn of the loop of `find`, `Link` the end of `union`. `leader` is the partition the
forest stands for. The rules are any of `EtlPipelineConfig`; similarity of titles is
a relation on them. The order of the pairs is left open, which is more than the
code does: the result must not depend on it, and does not.

### `OpenAlexFusion`

A work is what the record sees of it: same DOI or one that begins with it, gap of
years, agreement in ISSN or source title, similarity of titles. `Score` adds and limits as
`_validate_openalex_match` does, in the weights of the configuration. `Skip` leaves the
strategies that cannot run or come after an accepted one; a search by title is in
the code and in no fixture. `SearchRaises` is taken for no hit, as the code does.
`Kept` drops works that share an id with an earlier one. `Taken` goes through the
authors of SciELO in order with the works' authors each taken once, and `MergedAuthors`
through the authors nobody took. An author without a name or an identifier is the same
as nobody, itself included, and is always added: `AuthorsAreKept` says that an author of
a work *is* in the document or is the same as one who is. Where SciELO has no
authors the authors of several works follow each other, duplicates included.

### `GlobalMetrics`

`Upload` replaces the file of the row by name and sends the task again; `TakeTask` reads
the file, `IndexLine` writes the lines one at a time, `MarkProcessed` ends it; the apply task
goes over the groups with an update by query, `BeginUpdate` to `EndUpdate`, while the
pipeline's `LookUp` and `WriteSilver` write documents enriched with what was read
before. The update's script adds to `indexed_in` and sets the country only if the line gives one
(`Scripted`), so a database that no longer indexes the journal stays named until the
pipeline makes the document anew (`WithMetric`). Documents it cannot write are only
`reported`, and the apply ends all the same. `raced` and `late` mark the two overlaps nothing in the code prevents: a task that
finished with the file before, and a document written last with old metrics. An update
that OpenSearch still carries out after the worker that sent it was killed is left out.

### `LookupBuild`, `ExportJobs`

A build validates its targets, collects, validates again, creates and fills; `Verify`
compares counts; what a failing build created stays until somebody deletes it.
Collection is one answer. An export thread reads pages of keys, cuts rows into files, offers each as
a job and says `done`; `SetContent` follows `SayDone`, as in the code. The job table belongs
to one server process, and a poll that another one answers gets 404; the
"current page" export, document exports and the polling page are not modelled.

### `DirectoryIndex`

A request opens a row, writes it and commits or rolls back (`ATOMIC_REQUESTS`); the
signals have written the index by then (`Sync`). Writes of one request for one row that
follow each other count as one. `Relate` is the m2m signal; `Moderate` is the second
save of the form, after which a public record is no longer so. A sweep, after a
thematic area is renamed or by the script, lists rows and writes them later, one
sweep at a time. `suspect` holds rows whose last write failed, was rolled back or met a
sweep: these the index may show wrongly, and the property speaks of the others.
Status "TO MODERATE" stands for every other; ids are not reused.

### `FreshnessCache`

A page looks up the dictionary, computes the date of its index if it is missing and
stores the *dictionary it read* with it; a run of the ETL marks its items, then
deletes the key. Dates go back: that of the silver index is the greatest `processed_at`,
which a requeue and a changed payload take away (`Unmark`), and another index loses its
newest documents. So a date stands for the version of what it was computed from, which
changes but never comes back, and "old" means computed before, not earlier.
`behind` and `tainted` follow pages that hold something of before the
deletion: one of them undoes it, which nothing prevents, so the property holds until then:
nothing else may show what was computed before. `refresh_cache` is used nowhere and left out.

### `PlaceRegistry`

Imports of directories, each one transaction that sees its own rows and committed
ones. `CheckPart` asks `exists()`, `GetPart` is the `get()` after it, which raises when there
are two rows: the import ends there, keeping what it wrote, since the exception is
caught inside the request. There is no unique constraint, so two imports at once
make two rows, after which every import of the name raises (City catches only
`DoesNotExist`). A location with an empty cell is made anew each time, as an empty
cell equals no joined name, although `build_location` says "Create or fetch"
(`core/directory_import.py:156`). The property speaks of complete locations and of
names that no two transactions looked up together.

### `ArticleLoading`

`load_openalex_article` is a loop whose body keeps `journal`, `license`, `j_issns` and
`contributor` from one work to the next, in three `try` blocks that log and go on.
`loader` holds these variables, `Unbound` before the first assignment; a row of `articles`
also has (auxiliary) the work it was last saved from, which lookups of that work failed, and
the works whose contributors were linked to it. What a work lacks the loop borrows, and the
model keeps it: a work without a location takes the licence of the work before; a location
without a source or a source without an ISSN the ISSNs seen last, and a location without a
source the name too; an author without institutions stands for the contributor made last,
or fails the work if there is none (`tasks.py:415`). A row of `journals` is no constant:
`Journal.create_or_update` finds it by the ISSNs alone (`journal_issns__icontains`, so a
shorter list finds the row of a longer one; `Journal.get` compares the ISSN-L and the name with the
names of their own parameters, `article/models.py:199-202`), and writes ISSNs and name over
whatever it finds (`SaveJournal`). So a work without ISSNs renames the journal of articles that
have their own, and a work of fewer ISSNs shortens its list. `FieldsAreOwn` reads the rows,
not the loop, and says what of that cannot go wrong: the licence and the contributors stay those of
the row's works, and the journal of an article whose source lists ISSNs keeps ISSNs of that
source only, never none and never another's. It says nothing of the journal's name, which others
overwrite, and of ISSNs only while one worker loads (`OneLoader`), as two may both have read a
row before either saves it.
A lookup of an affiliation or institution that raises fails the whole work, as its
handler logs `e`, which is not bound there (`tasks.py:413`). `Article.get` looks by title
before the DOI (`models.py:1314`), though its docstring names the DOI: two works of one
title are one article. Tables of licences, contributors and institutions
are a lookup that gives the row or raises; slices are queries without an order.

### `MCParts` and `MCLiveParts`

The components in them share no state: each behaviour is one of the component that
`moving` names, and the others stay as they begin, so the run has the sum of the
state spaces and every property means what it means for the component alone.
`MCLiveParts` has those whose liveness is checked, each with its own fairness.

## 3. The runs

| Run | Question | Bounds |
|---|---|---|
| `queue_overlap` | `TypeOK`; is a processing row always owned (`ProcessingIsOwned`), does success imply a silver document (`SuccessIsMerged`), when runs overlap | 2 items, one malformed, 2 workers, batches of 2, 1 version, no kills |
| `queue_live` | `WaitingIsServed`, `OrphanIsRecovered` under `FairSpec` | 2 items, one without a year, batches of 1, kills without bound |
| `silver` | `SuccessIsFresh`, `KeepsPromise` (refinement of `SilverPromise`), `StaleMergeIsDue`, `RemovedOnlyAfterMerge`, when runs do not overlap | 2 items that share a document, 2 versions of the work or of one item, 1 worker killed at will |
| `live_parts` | `CompletedIsIndexed`, `RequeuedOnceCompleted`, `ManifestOnlyWhenComplete`, `PublishedIsHarvested` | snapshot: 2 works, 2 manifests, 1 run, 1 kill, 2 rows per part |
| | `EveryRowOnce`, `FilesAreConsecutive`, `ExportEnds` | exports: 4 keys, 2 pairs of fields, files of 1 or 3 rows, pages of 1 to 2, 1 edit |
| | `GroupsAreClosure`, `RunEnds` | deduplication: 3 records of 11 kinds, all strategies |
| `book_inline` | `NothingSilentlyLost`, `SuccessIsIndexed`, `EveryChangeSettles` | a monograph and its chapter, 3 changes, pages of 2, 1 kill |
| `book_tasks` | `SeqIsCovered` with a task per change | the same documents, 3 changes, 2 workers, 2 changes under way at once, no kills |
| `bronze` | `SuccessIsIndexed`, `HarvestReachesEtl` | 2 documents, one of which changes once, 1 kill |
| `parts` | `PartsTypeOK`: the types of its nine components | |
| | `ProcessedIsIndexed`, `AppliedReachesSilver` | metrics: 2 lines, 2 spreadsheets of which the second lacks a line, one line without a country, 2 names, 1 worker |
| | `ReturnedIsComplete`, `BuildsDoNotMix` | lookups: 2 builds of 2 lookups, 2 index names, 2 and 1 values, 1 deletion |
| | `SuccessIsSearchable`, `WrittenIsPublic` | identity: 2 records, chunks of 2, 2 indices, 1 failed run |
| | `CursorPassesOnlySaved` | listings: 2 records, 2 days, pages of 1, 1 aborted harvest, both sources |
| | `MatchesAreConfirmed`, `DoiPrevails`, `AuthorsAreKept` | fusion: all pairs of lists of up to 2 of 5 authors, one without name and identifiers; 3 works of one or several DOIs and ids; one work against each combination of identifiers, years, sources and title similarities; 2 configurations |
| | `IndexShowsTable` | directories: 2 rows, 2 requests, one renaming, 2 rows opened, 1 trouble |
| | `DatesAreSettled` | freshness: 2 indices, 2 pages, 1 task, 2 versions of what each date is computed from |
| | `OneRowPerName` | registries: 2 importers, 2 files of 2 lines that share a state and an institution with and without its place, 2 imports |
| | `FieldsAreOwn` | loading: 2 rows, 5 kinds of works of 2 journals that share an ISSN, slices of up to 2, 1 worker, 2 works stored, 2 calls |
| `queue_reclaim` | violated: `RequeueSurvivesSuccess` | 1 item, 2 versions, 2 workers |
| `bronze_catchup` | violated: `WithinReach` | 2 documents, 2 versions |
| `silver_yearless` | violated: `YearlessIsNoSuccess` | 2 records |
| `preprint_latest` | violated: `LatestIsLatest` | 2 records, 2 days, 1 killed harvest |

Why the bounds are enough: the protocols relate a row to its own document, so two
items are needed for what a batch does to its members (one failing, one skipped,
one found again by age) and two versions for what is stale; a third version only
repeats the second. The third change of the books feed lets a document change
after the cursor passed the other. Every named race needs two workers at most.
Three records of the deduplication give a chain of two duplicates that are none
together; the theorem below covers any number. Four keys fill pages, a
file and a rest, with pages smaller and larger than a file. Bounds that cut behaviour are those named in the
modules' CONSTANTS, `FewVersions` (in `silver`, one item keeps its first version, and either
the other item or the work goes through two; without it the run passes with 2.5 million
states), `NoIdleCalls` (no enqueue of the version a row has already) and `TwoAtOnce` (in `book_tasks`, two changes are sent and handled at
once, which may be two of one document). Larger instances that pass and
are not run each time: `SilverIdentity` with three records (3.1 million states),
`FreshnessCache` with three versions, `PlaceRegistry` with other files of two lines.

### Fairness

* `EtlQueue!Fairness`: a step of a running process is taken (weak fairness); time
  passes; the beat's run of pending items starts again and again (strong fairness,
  as the worker it needs is taken and freed: the broker hands out scheduled tasks
  in order). Nothing is assumed about pipelines succeeding, so `WaitingIsServed` says
  that a row is taken up, not that it is merged.
* `OpenAlexSnapshot!Fairness`: runs are started, steps are taken, and a download,
  bulk request, requeue or the end of a part that is tried again and again is not
  hit by an outage each time.
* `ExportJobs`, `ScieloDedup`: a thread that was started, and a run of the
  deduplication, go on (weak fairness); a process that stops ends the export.
* `BookHarvest!FairSpec`: the same for pages of the feed, documents and saves.
* `BronzeTransform!FairSpec`: only what the *reconciliation* tries again and again
  succeeds in the end; whatever the harvest does on its own may always fail.
* Starting and the strong fairness stand for periodic tasks of
  `django_celery_beat`; no fairness is assumed of kills, errors or people.

## 4. Findings

Each is a run that must end in a counterexample.

1. **A reclaimed row is marked with an earlier version** (`queue_reclaim`,
   `etl/models.py:467`). The guard against a concurrent requeue looks for `PENDING`.
   If a second run has claimed the requeued row it is `PROCESSING` again, and the
   first run writes `SUCCESS` for a version it did not merge.
2. **The catch-up does not reach changed documents** (`bronze_catchup`,
   `harvest/bronze_transform.py:318`). A changed document whose transformation failed
   has an `EtlItemProcess` of its earlier version, so no phase looks at it.
3. **A row without a year is marked as success** (`silver_yearless`,
   `etl/services.py:310`). The documents left out for want of a year are told by their
   silver id, the rows by their external id; the two differ for articles.
4. **An undated preprint becomes the latest for good** (`preprint_latest`,
   `harvest/models.py:316`). Rows without a date come first in descending order, so one
   preprint whose handler was stopped makes every later harvest raise.

Other disagreements have a property in their module and no run of their own:
`SilverMerge!MergedWithUpdateIsRequeued` (`StaleMergeIsDue` without its exception: a work
updated after the run that first merges it has searched for matches reopens no row, as
`has_openalex_match` is written at the end),
`OpenAlexSnapshot!ManifestOnlyWhenComplete` with two runs (they share an incomplete
request row; with one run it holds and is checked), `BookHarvest!FailedIsRetried` (the
retry calls the task with arguments it does not have, `harvest/tasks.py:281`).

Seen while modelling and kept in the models (see the hazards): items already marked
are swept into `FAILED` with their group (`etl/services.py:330`); a document that cannot
be standardised may be reported as success (`etl/pipeline.py:193`); an enriched author may
get an ORCID that another author of the record has; a placeholder that was merged is
deleted, so that processing the record again drops what it gave until the work is
harvested anew; two imports at once leave a name that no import can look up.

## 5. The proofs

| Theorem | Says | Assumes |
|---|---|---|
| `TypeCorrect` | `Spec => []TypeOK` of `EtlQueue` | |
| `OwnedUnlessKilled` | `ProcessingIsOwned`, any number of overlapping runs | `Mortal = {}` |
| `DoneIsMerged` | `SuccessIsMerged`, whatever overlaps or is killed | |
| `FreshWhenSerial` | `SuccessIsFresh` | `Serial` |
| `PromiseKept` | `Spec => KeepsPromise`: the queue implements `SilverPromise` | `Serial` |
| `MergeIsQueue` | `MergeSpec => Spec`: with the OpenAlex merge the queue is still the queue | |
| `MergeKeepsPromise`, `MergeIsFresh` | what `Serial` gives the queue it gives `SilverMerge` | `Serial` |
| `StaleMergesAreDue` | `StaleMergeIsDue` of `SilverMerge`: an update that is not missed reaches the merged document | `Serial` |
| `RemovedWorksAreMerged` | `RemovedOnlyAfterMerge`, an action property | `OneWorker` |
| `MergeTypeCorrect` | `MergeTypeOK` | |
| `CompletedPartsAreIndexed` | `CompletedIsIndexed` of `OpenAlexSnapshot` | `OneRun` |
| `CompletedPartsAreRequeued` | `RequeuedOnceCompleted` | `OneRun` |
| `ManifestsAreComplete` | `ManifestOnlyWhenComplete`, an action property | `OneRun` |
| `SnapshotTypeCorrect` | its types | |
| `ClaimsAreCovered` | `SeqIsCovered` of `BookHarvest`, in both modes | |
| `HarvestLosesNothing` | `NothingSilentlyLost` | `Inline` |
| `SuccessOfBooksIsIndexed` | `SuccessIsIndexed` | `Inline` |
| `SerialSuccessIsIndexed` | `SuccessIsIndexed` of `BronzeTransform` | `~Overlap` |
| `BronzeTypeCorrect` | its types | |
| `ClosureCorrect` | `GroupsAreClosure` of `ScieloDedup`, any records, rules and order of pairs | |
| `DedupTypeCorrect`, `DedupInvariant` | its types, and the invariant behind both | |
| `ConfirmedMatches` | `MatchesAreConfirmed` of `OpenAlexFusion`, any works, thresholds and failures | `Discriminating` |
| `DoiMatchesPrevail` | `DoiPrevails` | `DoiFirst` |
| `AuthorsStay`, `FusionTypeCorrect` | `AuthorsAreKept`, any lists of authors; its types | |
| `ExportedRowsAreOnce`, `ExportedFilesAreConsecutive` | `EveryRowOnce`, `FilesAreConsecutive` of `ExportJobs`, any pages, files and edits | |
| `ExportCorrect`, `ExportTypeCorrect` | the invariant behind both, its types | |
| `PassedAreSaved` | `CursorPassesOnlySaved` of `ListingHarvest`, both sources, any failures | |
| `ListingCorrect`, `ListingTypeCorrect` | the invariant behind it, its types | |
| `SuccessesAreSearchable`, `WrittenDocumentsArePublic` | `SuccessIsSearchable`, `WrittenIsPublic` of `SilverIdentity` | |
| `IdentityTypeCorrect` | its types | |
| `ProcessedUploadsAreIndexed`, `AppliedMetricsReachSilver` | `ProcessedIsIndexed`, `AppliedReachesSilver` of `GlobalMetrics` | |
| `MetricsTypeCorrect` | its types | |
| `SavedFieldsAreOwn`, `LoadingTypeCorrect` | `FieldsAreOwn` of `ArticleLoading`, its types | the part on ISSNs is stated for `OneLoader` |
| `FreshDatesAreSettled`, `FreshnessTypeCorrect` | `DatesAreSettled` of `FreshnessCache`, its types | |
| `BuildsNeverMix`, `ReturnedBuildsAreComplete` | `BuildsDoNotMix`, `ReturnedIsComplete` of `LookupBuild` | |
| `LookupTypeCorrect` | its types | |
| `IndexShowsCommittedRows`, `DirectoryTypeCorrect` | `IndexShowsTable` of `DirectoryIndex`, its types | |
| `OneRowForEachName`, `RegistryTypeCorrect` | `OneRowPerName` of `PlaceRegistry`, its types | |

Each is a theorem of the module's whole specification and holds for any sets of items,
documents, workers, requests, ... and any bounds that satisfy the module's `ASSUME`s,
which say only that bounds are numbers, that some sets are not empty, and that what the
database or the code keeps as a finite collection is finite (`Docs`, `SourceIds`). TLC
evaluates every `ASSUME` in the runs. What else a theorem assumes is a way of running the
system or a property of its configuration, and each is needed:

* `Serial`: one worker, and no backfill declares rows done. With two, `queue_reclaim` is
  the counterexample. `OneWorker` is its first half: with two workers TLC finds
  `StaleMergeIsDue` and `RemovedOnlyAfterMerge` violated.
* `Mortal = {}`: a killed run leaves its rows claimed; that they are found again is the
  liveness of `queue_live`.
* `OneRun`: with two runs of the snapshot's harvest the older one writes its version of a work
  that has moved, and fails the row with which the other completed the part.
* `Inline`: with a task per change, two tasks of one document may run in either order and
  the older payload is saved last (see the hazards).
* `~Overlap`: the reconciliation reads a row, the harvest saves and indexes a newer version, and
  the reconciliation then indexes the older one and marks the row as indexed.
* `Discriminating`: no score for a year reaches the strict minimum, and titles that count as
  alike are not rejected as unlike. `DoiFirst`: no other strategy comes before the one by DOI.
  Both hold of the default rules (`etl/models.py:43`) and of every fixture
  (`etl/migrations/0001_initial.py`), but the rules are data that an administrator may edit. With
  a year score above the strict minimum, or ISBN before DOI, the properties fail.

### The arguments

*Ownership.* `ProcessingIsOwned` is not inductive: marking an item must not leave a
processing row behind. `WorkerShape` relates `todo`, `group` and `left` to the
worker's place (nothing is held when idle; what is left to mark is part of the group;
an item already assigned is not `PROCESSING` unless another worker holds it). The
invariant is `OwnInv == TypeOK /\ WorkerShape /\ ProcessingIsOwned`.

*Done is merged.* `MergedInv`: only harvested documents are enqueued, so what a worker
loaded has a version, and at the marks every item of the group that can be indexed is in
the index already. Silver is never emptied, so a success written late stays true.

*Freshness.* `FreshInv` adds that nobody asks for a version that does not exist
(`AskedExists`), the shape of the sets (`SetsShape`), that a row nobody requeued asks
for no more than its worker loaded and that what was loaded is in the index once the
pipeline has ended (`LoadedCovers`), and that the index is never ahead of the source
nor a worker behind the index (`IndexFollows`). With it every step maps to a step of
`SilverPromise` or a stutter: an enqueue asks, a pipeline publishes, a mark settles,
everything else reopens or changes nothing the client sees.

*The merge.* `MergeStepIsQueueStep` maps each step of `SilverMerge` to the step of `EtlQueue`
it extends, which carries the queue's theorems over without another proof. `FusedInv` says
of each run (`Fusing`) that it has found exactly the items whose works it took, has merged these
once its pipeline ended, removes only works that are merged, and that no item it has still
to write is reported as done; and of each document merged with a work that some row of it
has the flag a requeue goes by, or is not done (`Watched`). `DueInv` adds that what is in
`silver_openalex` is the last version and that what a run took is too (`Taking`), unless the
update is being requeued, was missed, or made a row wait that this run will not report as done
(`Waits`): by then `mark_success` finds it requeued. So the mark that takes away the last
item at work leaves the document with the last version, with none, or with an item that waits.

*The snapshot.* `SnapInv`: what a run read of the completed parts is still so and it works on
none of them (`KnowsCompleted`); the works in its memory are of its part or have moved to one
not completed (`Holds`); each work of the part is ignored, still to be written, or in the
index, and a requeue due for it is still to come (`Accounted`); no requeue is due for a work of
a completed part (`UpdatesAnnounced`). Parts are taken in order, and `MinOfNat` says that there
is a least one. `ManifestsAreComplete` needs that what is read as completed was and remains so
(`CompletedSound`).

*Claims of the cursor.* `ClaimInv == Shape /\ WaitingIsPast /\ Handled /\ SeqIsCovered`:
a change waiting in a page or a task is not later than its document's last change,
and a worker that fetched a document for a change holds at least that version.

*Nothing is lost.* `InlineInv` adds to `ClaimInv` the order of the sequence numbers of page, rows
and cursor (`InOrder`) and what the cursor means (`ReadInv`): before a harvest the documents up to
it need no more; during one, a document up to the last page needs no more, is in the page,
or is in hand. The process at work (`Handles`) has a change earlier than the rest of the
page, a row claims that change only once it stores it, and a monograph saved for its
chapter is handled again later. Within an iteration, `Stage` is how far the process has come.

*Bronze.* `BronzeInv`: no two jobs are under way (`Alone`); while the harvest has a record in hand
its row does not say harvested, and row and raw index have what was saved and indexed so
far (`HarvestHolds`); what the reconciliation read of the rows is still their data (`ReconcileHolds`).

*Closure.* `DedupInv` of `ListProofs`: the forest has no cycle but at roots, which
is said without recursion (`Tree`: the leader of a record is a root of its own tree and
in every set of records that holds the parents of its members); the two
finds in progress hold places in the trees of their records (`InHand`); the leaders
join only records that no set closed under the duplicates separates (`Sound`) and
all pairs dealt with (`Complete`), a skipped pair being joined already; groups made so
far are leaders' classes (`Collecting`). `LedIsClosed` turns the two into the closure.

*Fusion.* `ConfirmedInv`: every match is `Confirmed`; what a search selects and what its validation
lets through agree in enough for that, by cases of the strategy (`AcceptedIsConfirmed`). `DoiInv`: up
to the last search by DOI all matches have the DOI (`DoiSearchIsFirst`), and once one was
answered a valid work with the DOI leaves the later strategies untried (`AnsweredByDoi`). `KeptIs` says that
the k-th work kept is the k-th match that shares no id with an earlier one.

*Authors.* `TakenIs`: the author taken is the same and nobody took it before. `IsMerged` is what
holds of the list after each of the works' authors: SciELO's come first, each of the authors gone
through is there or the same as one who is, and those added are the same as none before
them (`MergingStep`). As a SciELO author keeps its name and identifiers, it is still the same as
the one it took (`OwnEnrichedIs`), so that the latter is not lost. `GivenOnce` counts: an identifier is
given along an injection into the authors that have it. `AuthorsInv` holds the list from `Fuse` on.

*Exports.* `ExportInv`: the files stored and the rows in memory, one after the other, are the rows
read (`RowsRead`). Those are of the pair at hand and ascend in their keys up to the position
of the paging (`InOrderOfKeys`), and have every key that stayed in the index up to there
(`ReadSoFar`), for a page has the next keys with none left between (`PageOfKeys`). That edits add
and remove rows on both sides of the position does not matter to either. `Numbered` counts the
files by the rows of all files up to each (`Joined`), full as long as more may come; `Offers` ties what
the job shows to where the thread is, and `OfferedIs` makes what is offered a beginning of
the rows read.

*Listings.* `ListingInv`: no date is later than today (`NoneToCome`), and what the cursor passes is
settled (`PassedIsSettled`). That is inductive only with what happens during a harvest: a
record from the first day on may still be unsettled if it is ahead, on the page or the
part of the list that offsets have not reached (`IsAhead`), or if nothing is later than
it (`IsLatest`), as then no row's date puts the cursor past it. A record that changes
during a harvest is of the second kind: it takes the date of the day, or comes late and is excused
like those whose places its change shifts.
`ListIs` says that the list has each visible record once and in order; `ItemsAre` what a page takes.

*Searchable.* `AliasInv`: the write index is public once there is one, and documents are in
public indices only. `SearchInv`: a run has loaded what shares an identifier with the records asked
for, and nothing else (`Loaded`); a record it has loaded is in a document still to be written
or in one that none of those will overwrite (`Kept`); other successes are in a document
(`Found`). The step that could break it is a write under an id another document has:
`OverwrittenIsLoaded` says that the run has then loaded that document's records.

*Metrics.* `IndexInv`: while no file was replaced under a task, it indexes the file of the row and
the lines it has dealt with are indexed or refused (`IsCurrent`). `ApplyInv`: while the apply
task runs, each line's document carries the metrics, is still to do or was reported, unless it was
written late.

*Loading.* `LoadingInv`: at each place of the loop the variables assigned so far are those of the
work at hand, as far as it has them (`LoopIsOwn`), and what articles were saved with is what their
rows still have (`RowIsOwn`). The rows of journals need an invariant of their own, `JournalsFit`:
every article that is to have a journal with ISSNs of its source has one, and so has the loop from
finding the row on. Saving over a row keeps it true since the ISSNs searched for are
a part of those found (`SubSeqsAreParts`) and no other loop writes between the two (`OneLoader`);
rows have ids of their own since they are numbered (`RowIds`).

*Caches and builds.* `FreshnessInv`: a page that began after the deletion, and the dictionary
unless `tainted`, hold settled dates, for what dates are computed from only moves on. `LookupInv`: an index that a running build has created belongs to
no other (`Apart`) and holds the values the build has had an answer for (`BuildInv`); a build that
returned left it so, or it was deleted (`IsComplete`).

*Directories.* `DirectoryInv`: a row is written by one request at a time (`OneWriter`, the
database's lock), and the document of a row shows it as its writer's transaction has it, or as
it is committed; a sweep has it as it is and nobody writes it meanwhile (`Shows`).

*Registries.* `RegistryInv`: what an import is about to make it has looked up, and any row of that
name it can see by then was committed by an import that had looked it up too, so that
the name is in `together` (`LineOK`, `Fresh`); an import has looked up whatever it made (`RowsOK`).
A location is looked up by the names of rows, which another import could undo: that
they are rows its importer sees (`Refers`) makes the name last (`KeyStays`).

The induction theorems of the library take an operator, which no installed prover can
instantiate. Where an argument needs a least or greatest number, or a first row, it uses that
strict inclusion of finite sets is well founded (`FS_StrictSubsetOrderingWellFounded`), as in `LeastId`
and `LeastPlace`. What a recursive function over a list computes is proved from that too: a
function that fits the recursion up to any place exists, as otherwise there were a least place up
to which none does (`CountedUp`, `TakesExist`, `JoinsExist`), and what holds at each place is carried along.
For this the models list a set of numbers by rank and not with `SortSeq`, of which the prover
has no definition, and merge authors by a recursive function.

### Only model-checked

All liveness, as fairness and `ENABLED` are beyond the prover: `WaitingIsServed`, `OrphanIsRecovered`,
`PublishedIsHarvested`, `EveryChangeSettles`, `HarvestReachesEtl`, `ExportEnds`, `RunEnds`. Of the safety
properties only `PartsTypeOK` of `MCParts`, which conjoins the types of nine components: each of
them has a theorem of its own.

`MergeTypeOK` and the types of `OpenAlexSnapshot`, `BronzeTransform` and `ExportJobs` are proved and
in no run; those of `BookHarvest` are part of `ClaimInv`.

## 6. Not modelled, and the plan

Not modelled, with the reason at each component in `PROJECT.json`: conversion of
documents (field extraction and normalising, formatting), which is data without
control; construction of queries and page templates, which keep no state; the
observation and indicator views but for exports, which are aggregations over
answers of OpenSearch; the loaders of Sucupira, Unpaywall and Lattes dumps and the deprecated indicators;
migrations, fixtures, and vendored code (`django_celery_beat`). They are most of the
lines of the repository: the control that states and interleavings decide is in
the modules above.

Left, in order of weight:

1. Datasets of Dataverse, the reindex tasks of `harvest/tasks.py`, the `since` argument of
   the books task.
2. The merger's other fields and their precedence, the journal metrics, as pure
   operators.

## Running

    tlc -config SilverMerge_serial.cfg MCSilverMerge.tla
    tlapm EtlQueueProofs.tla

The passing runs take from ten seconds to four minutes each; each of the eight modules of
proofs takes from one to several minutes.

---------------------------- MODULE SilverIdentity -----------------------------
(***************************************************************************)
(* Which documents of the silver indices a record ends up in               *)
(* (etl/pipeline.py, etl/client.py).  A run loads the records it was asked *)
(* for and, once, those that share an identifier with them; it groups      *)
(* duplicates, gives every group the id of its first record, resolves      *)
(* groups with one id, writes them in chunks through the write alias and   *)
(* may roll the alias over to a new index.  Runs of one source follow each *)
(* other here; EtlQueue has the runs that overlap.                         *)
(***************************************************************************)
EXTENDS Integers, FiniteSets, FiniteSetsExt

CONSTANTS
  LastRecord,  \* records are 1 .. LastRecord, in the order the source index returns them
  Metas,       \* what a record may say of itself
  SameIds,     \* is the bronze id of a record also the id of its silver document?
  ChunkDocs,   \* silver_bulk_max_docs
  MaxIndex,    \* bound: indices the write alias goes through
  MaxStops     \* bound: runs that fail

Recs == 1 .. LastRecord

\* code: unique within a collection only.  doi: 0 when missing.  kind: what confirms
\* that a shared identifier means one document (year, source, title).
Meta == [code : Nat, doi : Nat, kind : Nat, year : BOOLEAN]
NoMeta == [code |-> 0, doi |-> 0, kind |-> 0, year |-> FALSE]

ASSUME IdentityAssumption ==
  /\ LastRecord \in Nat \ {0} /\ ChunkDocs \in Nat \ {0} /\ MaxIndex \in Nat \ {0}
  /\ SameIds \in BOOLEAN /\ Metas \subseteq Meta \ {NoMeta} /\ MaxStops \in Nat

VARIABLES
  meta,        \* meta[r]: record r of the bronze index, NoMeta before it is there
  mark,        \* mark[r]: status of its row in the ETL queue
  silverDocs,  \* documents [index, id, recs] of the silver indices
  writeTo,     \* number of the index the write alias stands for, 0: none
  publicTo,    \* numbers of the indices the public alias stands for
  pipe,        \* the run: records asked for and loaded, documents not written yet
  torn,        \* auxiliary: records loaded by a run that failed, and by none since
  stops        \* runs that failed

identityVars == <<meta, mark, silverDocs, writeTo, publicTo, pipe, torn, stops>>

NoRun == [at |-> "free", asked |-> {}, all |-> {}, docs |-> {}, skipped |-> {}]

IdentityInit ==
  /\ meta = [r \in Recs |-> NoMeta] /\ mark = [r \in Recs |-> "none"]
  /\ silverDocs = {} /\ writeTo = 0 /\ publicTo = {} /\ pipe = NoRun
  /\ torn = {} /\ stops = 0

Present == {r \in Recs : meta[r] # NoMeta}

\* The harvest: a record is there and has a row.
Arrive(r, m) ==
  /\ meta[r] = NoMeta
  /\ meta' = [meta EXCEPT ![r] = m] /\ mark' = [mark EXCEPT ![r] = "pending"]
  /\ UNCHANGED <<silverDocs, writeTo, publicTo, pipe, torn, stops>>

\* Its row is opened again: something else in it, or its OpenAlex work, has changed.
Reopen(r) ==
  /\ mark[r] \in {"success", "skipped"} /\ r \notin pipe.asked
  /\ mark' = [mark EXCEPT ![r] = "pending"]
  /\ UNCHANGED <<meta, silverDocs, writeTo, publicTo, pipe, torn, stops>>

(***************************************************************************)
(* What a run makes of the records it loads                                *)
(***************************************************************************)

SharesId(r, s) ==
  \/ meta[r].code = meta[s].code
  \/ meta[r].doi # 0 /\ meta[r].doi = meta[s].doi

\* Mutant of Expanded: the records asked for are not expanded.
NotExpanded(S) == S

\* _expand_scielo_input_context: one more search, with the identifiers of those asked for.
Expanded(S) == S \cup {s \in Present : \E r \in S : SharesId(r, s)}

\* _build_scielo_groups: chains of records that share an identifier, confirmed.
Chain(S, r) ==
  CHOOSE T \in SUBSET S :
    /\ r \in T
    /\ \A t \in T, s \in S : SharesId(t, s) /\ meta[t].kind = meta[s].kind => s \in T
    /\ \A U \in SUBSET T :
         r \in U /\ (\A t \in U, s \in S : SharesId(t, s) /\ meta[t].kind = meta[s].kind => s \in U)
           => U = T
Groups(S) == {Chain(S, r) : r \in S}

\* The first record of the group, those asked for being loaded first: the silver
\* document has its id and its year.
Before(asked, r, s) == IF (r \in asked) = (s \in asked) THEN r < s ELSE r \in asked
First(asked, g) == CHOOSE r \in g : \A s \in g \ {r} : Before(asked, r, s)
DocId(asked, g) == meta[First(asked, g)].code

WithYear(asked, S) == {g \in Groups(S) : meta[First(asked, g)].year}

\* Groups with one id: the one with a DOI, or else loaded first, keeps it.
Ahead(asked, g, h) ==
  LET r == First(asked, g)  s == First(asked, h) IN
  IF (meta[r].doi # 0) = (meta[s].doi # 0) THEN Before(asked, r, s) ELSE meta[r].doi # 0

\* Mutant of Named: groups with one id are all written under it.
NamedAlike(asked, S, g) == <<DocId(asked, g), {}>>

\* _prepare_silver_index_documents: the others have a digest of their content in
\* the id.  Compatible groups with one id are merged there too; here the rules
\* confirm a shared code (strategy "pid"), so that they are one group already.
Named(asked, S, g) ==
  LET x == DocId(asked, g) IN
  IF \A h \in WithYear(asked, S) \ {g} : DocId(asked, h) = x => Ahead(asked, g, h)
  THEN <<x, {}>> ELSE <<x, g>>

Documents(asked, S) ==
  {[id |-> Named(asked, S, g), recs |-> g] : g \in WithYear(asked, S)}

(***************************************************************************)
(* The run                                                                 *)
(***************************************************************************)

\* process_item_group: rows of one year, loaded and merged.
BeginRun(S) ==
  /\ pipe.at = "free" /\ S # {}
  /\ \A r \in S : mark[r] \in {"pending", "failed"}
  /\ \A r, s \in S : meta[r].year = meta[s].year
  /\ pipe' = [at |-> "alias", asked |-> S, all |-> Expanded(S), docs |-> Documents(S, Expanded(S)),
              skipped |-> {DocId(S, g) : g \in Groups(Expanded(S)) \ WithYear(S, Expanded(S))}]
  /\ UNCHANGED <<meta, mark, silverDocs, writeTo, publicTo, torn, stops>>

\* ensure_rollover_index, unless there is nothing to write.
EnsureIndex ==
  /\ pipe.at = "alias"
  /\ pipe' = [pipe EXCEPT !.at = IF pipe.docs = {} THEN "mark" ELSE "write"]
  /\ IF pipe.docs = {} \/ writeTo # 0 THEN UNCHANGED <<writeTo, publicTo>>
     ELSE writeTo' = 1 /\ publicTo' = {1}
  /\ UNCHANGED <<meta, mark, silverDocs, torn, stops>>

Written(old, docs) ==
  LET new == {[index |-> writeTo, id |-> d.id, recs |-> d.recs] : d \in docs} IN
  {d \in old : \A e \in new : d.index # e.index \/ d.id # e.id} \cup new

\* The rows asked for fail, or, if the worker was killed, are requeued once stale.
StopAs(status) ==
  /\ stops < MaxStops /\ stops' = stops + 1
  /\ pipe' = NoRun /\ torn' = torn \cup pipe.all
  /\ mark' = [r \in Recs |-> IF r \in pipe.asked THEN status ELSE mark[r]]

\* The chunks there may be next: the order in which they are cut is left open.
IsChunk(D) ==
  /\ pipe.at = "write" /\ D \subseteq pipe.docs
  /\ Cardinality(D) = Min({ChunkDocs, Cardinality(pipe.docs)})

\* _execute_bulk_index of a chunk, all of which is written ...
WriteChunk(D) ==
  /\ IsChunk(D) /\ D # {}
  /\ silverDocs' = Written(silverDocs, D)
  /\ pipe' = [pipe EXCEPT !.docs = @ \ D]
  /\ UNCHANGED <<meta, mark, writeTo, publicTo, torn, stops>>

\* ... or only E of it, and the run fails.
RefuseChunk(D, E) ==
  /\ IsChunk(D) /\ E \subseteq D /\ E # D
  /\ silverDocs' = Written(silverDocs, E)
  /\ StopAs("failed")
  /\ UNCHANGED <<meta, writeTo, publicTo>>

\* Mutant of RollOver: the index template does not have the public alias.
RollOverHidden(rolled) ==
  /\ pipe.at = "write" /\ pipe.docs = {}
  /\ IF rolled /\ writeTo < MaxIndex
     THEN /\ writeTo' = writeTo + 1 /\ pipe' = [pipe EXCEPT !.at = "public"]
     ELSE /\ pipe' = [pipe EXCEPT !.at = "mark"] /\ UNCHANGED writeTo
  /\ UNCHANGED <<meta, mark, silverDocs, publicTo, torn, stops>>

\* rollover, when the index is large enough: the new one has the public alias from
\* its template ...
RollOver(rolled) ==
  /\ pipe.at = "write" /\ pipe.docs = {}
  /\ IF rolled /\ writeTo < MaxIndex
     THEN /\ writeTo' = writeTo + 1 /\ publicTo' = publicTo \cup {writeTo + 1}
          /\ pipe' = [pipe EXCEPT !.at = "public"]
     ELSE /\ pipe' = [pipe EXCEPT !.at = "mark"]
          /\ UNCHANGED <<writeTo, publicTo>>
  /\ UNCHANGED <<meta, mark, silverDocs, torn, stops>>

\* ... and once more from add_alias.
AddAlias ==
  /\ pipe.at = "public"
  /\ publicTo' = publicTo \cup {writeTo}
  /\ pipe' = [pipe EXCEPT !.at = "mark"]
  /\ UNCHANGED <<meta, mark, silverDocs, writeTo, torn, stops>>

\* The outcome goes by the ids of the documents that were skipped, which are those of
\* the rows for books only.
MarkItems ==
  /\ pipe.at = "mark"
  /\ mark' = [r \in Recs |->
       IF r \notin pipe.asked THEN mark[r]
       ELSE IF SameIds /\ meta[r].code \in pipe.skipped THEN "skipped" ELSE "success"]
  /\ pipe' = NoRun /\ torn' = torn \ pipe.all
  /\ UNCHANGED <<meta, silverDocs, writeTo, publicTo, stops>>

\* OpenSearch fails, or the worker is killed.
RunStops ==
  /\ pipe.at # "free"
  /\ StopAs("failed") \/ StopAs("pending")
  /\ UNCHANGED <<meta, silverDocs, writeTo, publicTo>>

IdentityNext ==
  \/ \E r \in Recs : Reopen(r) \/ \E m \in Metas : Arrive(r, m)
  \/ \E S \in SUBSET Recs : BeginRun(S)
  \/ EnsureIndex \/ RunStops
  \/ \E D \in SUBSET pipe.docs : WriteChunk(D) \/ \E E \in SUBSET D : RefuseChunk(D, E)
  \/ \E rolled \in BOOLEAN : RollOver(rolled)
  \/ AddAlias \/ MarkItems

IdentitySpec == IdentityInit /\ [][IdentityNext]_identityVars

(***************************************************************************)
(* Properties                                                              *)
(***************************************************************************)

\* Every record that the identifiers of r lead to, in any number of steps, has a year and
\* is led to in one step.
SeenWhole(r) ==
  \E S \in SUBSET Present :
    /\ r \in S /\ \A s \in S : meta[s].year
    /\ \A s \in S, t \in Present : t \in S <=>
         \/ meta[s].code = meta[t].code
         \/ meta[s].doi # 0 /\ meta[s].doi = meta[t].doi

\* A record whose row is a success is in a document users can search, whatever later
\* runs load it with, group it under, name it and overwrite; but for records that are
\* linked to others over more than one step, or to one without a year, while a run that
\* has loaded them writes its chunks, and once such a run has failed, until one is through
\* (run, _expand_scielo_input_context, _prepare_silver_index_documents).
SuccessIsSearchable ==
  \A r \in Recs \ (torn \cup pipe.all) :
    mark[r] = "success" /\ SeenWhole(r) =>
      \E d \in silverDocs : r \in d.recs /\ d.index \in publicTo

\* No document is written to an index that searches do not reach, wherever a rollover
\* or a run is cut off (ensure_rollover_index, rollover).
WrittenIsPublic == \A d \in silverDocs : d.index \in publicTo

\* A record without the mandatory year is never reported as a success.
YearlessIsNoSuccess ==
  \A r \in Recs : mark[r] = "success" /\ ~meta[r].year => \E d \in silverDocs : r \in d.recs

\* The types of the variables (OpenSearchETLPipeline).
IdentityTypeOK ==
  LET Ids == Nat \X SUBSET Recs  IN
  /\ meta \in [Recs -> Meta]
  /\ mark \in [Recs -> {"none", "pending", "failed", "success", "skipped"}]
  /\ \A d \in silverDocs : d.index \in 1 .. writeTo /\ d.id \in Ids /\ d.recs \subseteq Recs
  /\ writeTo \in 0 .. MaxIndex /\ publicTo \subseteq 1 .. writeTo
  /\ pipe \in [at : {"free", "alias", "write", "public", "mark"}, asked : SUBSET Recs,
               all : SUBSET Recs, docs : SUBSET [id : Ids, recs : SUBSET Recs],
               skipped : SUBSET Nat]
  /\ torn \subseteq Recs /\ stops \in 0 .. MaxStops
==============================================================================

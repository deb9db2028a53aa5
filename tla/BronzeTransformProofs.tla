------------------------ MODULE BronzeTransformProofs -------------------------
(***************************************************************************)
(* The harvest of records, their indexing and the reconciliation, for any  *)
(* documents, versions, kills and failures.                                *)
(***************************************************************************)
EXTENDS BronzeTransform, TLAPS

(***************************************************************************)
(* The invariants                                                          *)
(***************************************************************************)

RowShape == [harvest : Status, index : Status \ {"in_progress"}, data : Versions]
JobShape ==
  [at : {"idle", "items", "save", "index", "indexed", "success", "transform", "enqueue",
         "phase2"},
   todo : SUBSET (Docs \X Versions), doc : Docs, data : Versions, indexed : BOOLEAN,
   page : SUBSET Docs, phase : {1, 2}]

TypeInv ==
  /\ source \in [Docs -> Versions] /\ kills \in 0 .. MaxKills /\ script \in BOOLEAN
  /\ row \in [Docs -> RowShape]
  /\ raw \in [Docs -> Versions] /\ bronze \in [Docs -> Versions] /\ etl \in [Docs -> Versions]
  /\ job \in [Jobs -> JobShape]

\* The reconciliation never runs during a harvest.
Alone == \A j, k \in Jobs : job[j].at # "idle" /\ job[k].at # "idle" => j = k

\* While the harvest has a record in hand its row does not say harvested, and the
\* row and the raw index have what was saved and indexed of it so far.
HarvestHolds ==
  LET h == job["harvest"] IN
  /\ h.at \in {"save", "index", "indexed", "success"} => row[h.doc].harvest = "in_progress"
  /\ h.at \in {"index", "indexed"} => row[h.doc].data = h.data
  /\ h.at = "indexed" => raw[h.doc] = h.data
  /\ h.at = "success" /\ row[h.doc].index = "success" => raw[h.doc] = row[h.doc].data

\* What the reconciliation read of the rows is still their data.
ReconcileHolds ==
  LET r == job["reconcile"] IN
  /\ r.at \in {"items", "index", "indexed"} => \A t \in r.todo : t[2] = row[t[1]].data
  /\ r.at \in {"index", "indexed"} => r.data = row[r.doc].data
  /\ r.at = "indexed" => raw[r.doc] = r.data

BronzeInv == Alone /\ HarvestHolds /\ ReconcileHolds /\ SuccessIsIndexed

(***************************************************************************)
(* Type correctness                                                        *)
(***************************************************************************)

LEMMA BoundsType ==
  /\ MaxVersion \in Nat /\ 0 \in Versions /\ 1 \in Versions
  /\ "harvest" \in Jobs /\ "reconcile" \in Jobs
  /\ Idle \in JobShape /\ Idle.at = "idle" /\ Idle.todo = {}
BY BoundAssumption DEF Versions, Jobs, Idle, JobShape

LEMMA JobType == ASSUME TypeInv, NEW j \in Jobs PROVE job[j] \in JobShape
BY DEF TypeInv

\* A step that changes the memory of one job.
LEMMA JobStepType ==
  ASSUME TypeInv, NEW j \in Jobs, NEW x \in JobShape, Update(j, x),
         source' \in [Docs -> Versions], kills' \in 0 .. MaxKills, script' \in BOOLEAN,
         row' \in [Docs -> RowShape], raw' \in [Docs -> Versions],
         bronze' \in [Docs -> Versions], etl' \in [Docs -> Versions]
  PROVE  TypeInv'
BY DEF TypeInv, Update

\* And, with it, one row or none.
LEMMA RowStepType ==
  ASSUME TypeInv, NEW j \in Jobs, NEW x \in JobShape, Update(j, x),
         UNCHANGED outside, UNCHANGED indices,
         \/ UNCHANGED row
         \/ \E d \in Docs, r \in RowShape : SetRow(d, r)
  PROVE  TypeInv'
<1>1. row' \in [Docs -> RowShape]
  BY DEF TypeInv, SetRow
<1> QED BY <1>1, JobStepType DEF TypeInv, outside, indices

\* Rows whose statuses or data are saved.
LEMMA SavedRowType ==
  ASSUME TypeInv, NEW d \in Docs, NEW v \in Versions
  PROVE  /\ \A status \in Status : [row[d] EXCEPT !.harvest = status] \in RowShape
         /\ [row[d] EXCEPT !.data = v] \in RowShape
         /\ \A status \in {"success", "failed"}, harvest \in Status :
              [row[d] EXCEPT !.index = status, !.harvest = harvest] \in RowShape
BY DEF TypeInv, RowShape, Status

\* What Collect leaves in the memory of a job.
Collected(j, d, indexed) ==
  [Idle EXCEPT !.at = "items", !.todo = {t \in job[j].todo : t[1] # d},
               !.page = job[j].page \cup IF indexed THEN {d} ELSE {}]

LEMMA CollectedType ==
  ASSUME TypeInv, NEW j \in Jobs, NEW d \in Docs, NEW indexed
  PROVE  /\ Collected(j, d, indexed) \in JobShape /\ Collected(j, d, indexed).at = "items"
         /\ Collected(j, d, indexed).todo \subseteq job[j].todo
         /\ Collect(j, d, indexed) <=> Update(j, Collected(j, d, indexed))
<1> DEFINE todo == {t \in job[j].todo : t[1] # d}
           page == job[j].page \cup IF indexed THEN {d} ELSE {}
<1>1. todo \in SUBSET (Docs \X Versions) /\ todo \subseteq job[j].todo
  BY JobType DEF JobShape
<1>2. page \in SUBSET Docs
  BY JobType DEF JobShape
<1>3. Collected(j, d, indexed) = [Idle EXCEPT !.at = "items", !.todo = todo, !.page = page]
  BY DEF Collected
<1>4. Collect(j, d, indexed) <=> Update(j, Collected(j, d, indexed))
  BY DEF Collected, Collect
<1> HIDE DEF todo, page
<1> QED BY <1>1, <1>2, <1>3, <1>4, BoundsType DEF JobShape

LEMMA InitType == Init => TypeInv
<1> SUFFICES ASSUME Init PROVE TypeInv
  OBVIOUS
<1>1. row \in [Docs -> RowShape]
  BY BoundsType DEF Init, RowShape, Status
<1>2. job \in [Jobs -> JobShape] /\ kills \in 0 .. MaxKills
  BY BoundsType, JobsAssumption DEF Init
<1>3. /\ source \in [Docs -> Versions] /\ raw \in [Docs -> Versions]
      /\ bronze \in [Docs -> Versions] /\ etl \in [Docs -> Versions]
  BY BoundsType DEF Init
<1> QED BY <1>1, <1>2, <1>3 DEF Init, TypeInv

\* The documents and the script.
LEMMA OutsideType ==
  ASSUME TypeInv, Activate \/ \E d \in Docs : Publish(d)
  PROVE  TypeInv'
<1>1. CASE Activate
  BY <1>1 DEF Activate, TypeInv, indices
<1>2. ASSUME NEW d \in Docs, Publish(d) PROVE TypeInv'
  <2>1. source[d] + 1 \in Versions
    BY <1>2, BoundsType DEF Publish, TypeInv, Versions
  <2> QED BY <1>2, <2>1 DEF Publish, TypeInv, indices
<1> QED BY <1>1, <1>2

\* The steps of the harvest of one record.
LEMMA HarvestType ==
  ASSUME TypeInv, Harvest \/ Retry \/ HarvestStep
  PROVE  TypeInv'
<1> DEFINE h == job["harvest"]
<1>1. h \in JobShape /\ h.doc \in Docs /\ h.data \in Versions
  BY BoundsType, JobType DEF JobShape
<1>2. ASSUME NEW S \in SUBSET Docs, StartHarvest(S) PROVE TypeInv'
  <2> DEFINE todo == {<<d, 0>> : d \in S}
             x == [Idle EXCEPT !.at = "items", !.todo = todo]
  <2>1. todo \in SUBSET (Docs \X Versions)
    BY BoundsType
  <2>2. x \in JobShape
    <3> HIDE DEF todo
    <3> QED BY <2>1, BoundsType DEF JobShape
  <2>3. Update("harvest", x) /\ UNCHANGED row /\ UNCHANGED outside /\ UNCHANGED indices
    BY <1>2 DEF StartHarvest
  <2> QED BY <2>2, <2>3, BoundsType, RowStepType
<1>3. ASSUME NEW d \in Docs, Fetch(d) PROVE TypeInv'
  <2> DEFINE x == [h EXCEPT !.at = "save", !.doc = d, !.data = source[d],
                            !.indexed = row[d].index = "success"]
  <2>1. x \in JobShape
    BY <1>1 DEF JobShape, TypeInv
  <2>2. [row[d] EXCEPT !.harvest = "in_progress"] \in RowShape
    BY BoundsType, SavedRowType DEF Status
  <2>3. Update("harvest", x) /\ SetRow(d, [row[d] EXCEPT !.harvest = "in_progress"])
        /\ UNCHANGED outside /\ UNCHANGED indices
    BY <1>3 DEF Fetch
  <2> QED BY <2>1, <2>2, <2>3, BoundsType, RowStepType
<1>4. ASSUME NEW d \in Docs, FetchFails(d) PROVE TypeInv'
  <2>1. [row[d] EXCEPT !.harvest = "failed"] \in RowShape
    BY BoundsType, SavedRowType DEF Status
  <2> QED BY <1>4, <2>1, BoundsType, CollectedType, RowStepType DEF FetchFails
<1>5. CASE SaveData
  <2>1. /\ [row[h.doc] EXCEPT !.harvest = "failed"] \in RowShape
        /\ [row[h.doc] EXCEPT !.data = h.data] \in RowShape
    BY <1>1, SavedRowType DEF Status
  <2>2. [h EXCEPT !.at = "index"] \in JobShape
    BY <1>1 DEF JobShape
  <2> QED BY <1>1, <1>5, <2>1, <2>2, BoundsType, CollectedType, RowStepType DEF SaveData
<1>6. CASE MarkSuccess
  <2>1. [row[h.doc] EXCEPT !.harvest = "success"] \in RowShape
    BY <1>1, SavedRowType DEF Status
  <2> QED BY <1>1, <1>6, <2>1, BoundsType, CollectedType, RowStepType DEF MarkSuccess
<1>7. Failed \in SUBSET Docs
  BY DEF Failed
<1> QED BY <1>2, <1>3, <1>4, <1>5, <1>6, <1>7 DEF Harvest, Retry, HarvestStep

\* index_harvested_instance.
LEMMA IndexType ==
  ASSUME TypeInv, NEW j \in Jobs, IndexRaw(j) \/ MarkIndexed(j) \/ IndexRawFails(j)
  PROVE  TypeInv'
<1> DEFINE o == job[j]
<1>1. o \in JobShape /\ o.doc \in Docs /\ o.data \in Versions
  BY JobType DEF JobShape
<1>2. CASE IndexRaw(j)
  <2>1. [o EXCEPT !.at = "indexed"] \in JobShape
    BY <1>1 DEF JobShape
  <2>2. raw' \in [Docs -> Versions]
    BY <1>1, <1>2 DEF IndexRaw, TypeInv
  <2> QED BY <1>2, <2>1, <2>2, JobStepType DEF IndexRaw, TypeInv, outside
<1>3. ASSUME NEW status \in {"success", "failed"}, Mark(j, status) PROVE TypeInv'
  <2> DEFINE new == [row[o.doc] EXCEPT !.index = status,
                      !.harvest = IF j = "harvest" THEN "in_progress" ELSE "success"]
             x == [[o EXCEPT !.indexed = status = "success"] EXCEPT !.at = "success"]
  <2>1. new \in RowShape
    BY <1>1, BoundsType, SavedRowType DEF Status
  <2>2. x \in JobShape
    BY <1>1 DEF JobShape
  <2>3. SetRow(o.doc, new) /\ UNCHANGED outside /\ UNCHANGED indices
    BY <1>3 DEF Mark
  <2>4. Update(j, x) \/ Update(j, Collected(j, o.doc, status = "success"))
    BY <1>1, <1>3, CollectedType DEF Mark
  <2>5. Collected(j, o.doc, status = "success") \in JobShape
    BY <1>1, CollectedType
  <2> HIDE DEF new, x
  <2> QED BY <1>1, <2>1, <2>2, <2>3, <2>4, <2>5, RowStepType
<1> QED BY <1>2, <1>3 DEF MarkIndexed, IndexRawFails

LEMMA PageDoneType ==
  ASSUME TypeInv, NEW j \in Jobs, PageDone(j)
  PROVE  \E x \in JobShape : Update(j, x) /\ x.at \in {"idle", "phase2"} /\ x.todo = {}
<1>1. [Idle EXCEPT !.at = "phase2", !.phase = 2] \in JobShape
  BY BoundsType DEF JobShape
<1> QED BY <1>1, BoundsType DEF PageDone, Idle

\* The reconciliation, and the transformation of a page.
LEMMA ReconcileType ==
  ASSUME TypeInv, ReconcileStep
  PROVE  TypeInv'
<1> DEFINE r == job["reconcile"]
<1>1. r \in JobShape /\ "reconcile" \in Jobs
  BY BoundsType, JobType
<1>2. PICK x \in JobShape : Update("reconcile", x)
  <2>1. CASE ReadUnindexed
    <3> DEFINE todo == {<<d, row[d].data>> : d \in {d \in Docs : /\ row[d].harvest = "success"
                                                                /\ row[d].index # "success"}}
               x == [Idle EXCEPT !.at = "items", !.todo = todo]
    <3>1. todo \in SUBSET (Docs \X Versions)
      BY DEF TypeInv, RowShape
    <3>2. Update("reconcile", x)
      BY <2>1 DEF ReadUnindexed
    <3> HIDE DEF todo
    <3>3. x \in JobShape
      BY <3>1, BoundsType DEF JobShape
    <3> QED BY <3>2, <3>3
  <2>2. CASE NextUnindexed
    <3>1. PICK t \in r.todo :
            Update("reconcile", [r EXCEPT !.at = "index", !.doc = t[1], !.data = t[2]])
      BY <2>2 DEF NextUnindexed
    <3>2. t \in Docs \X Versions
      BY <1>1 DEF JobShape
    <3>3. [r EXCEPT !.at = "index", !.doc = t[1], !.data = t[2]] \in JobShape
      BY <1>1, <3>2 DEF JobShape
    <3> QED BY <3>1, <3>3
  <2>3. CASE ReadMissing
    <3>1. Missing \in SUBSET Docs
      BY DEF Missing
    <3>2. [r EXCEPT !.at = "transform", !.page = Missing] \in JobShape
      BY <1>1, <3>1 DEF JobShape
    <3> QED BY <2>3, <3>2, BoundsType DEF ReadMissing
  <2> QED BY <2>1, <2>2, <2>3 DEF ReconcileStep
<1>3. UNCHANGED row /\ UNCHANGED outside /\ UNCHANGED indices
  BY DEF ReconcileStep, ReadUnindexed, NextUnindexed, ReadMissing
<1> QED BY <1>1, <1>2, <1>3, RowStepType

LEMMA PageType ==
  ASSUME TypeInv, NEW j \in Jobs, NEW d \in Docs,
         \/ Transform(j) \/ Reindex(j) \/ SkipPage(j) \/ EndPage(j)
         \/ Enqueue(j, d) \/ EnqueueFails(j, d) \/ Kill(j)
  PROVE  TypeInv'
<1>1. job[j] \in JobShape
  BY JobType
<1>2. PICK x \in JobShape : Update(j, x)
  <2>1. [job[j] EXCEPT !.at = "transform"] \in JobShape
    BY <1>1 DEF JobShape
  <2>2. [job[j] EXCEPT !.at = "enqueue"] \in JobShape
    BY <1>1 DEF JobShape
  <2>3. [job[j] EXCEPT !.page = @ \ {d}] \in JobShape
    BY <1>1 DEF JobShape
  <2>4. PageDone(j) => \E x \in JobShape : Update(j, x)
    BY PageDoneType
  <2> QED BY <2>1, <2>2, <2>3, <2>4, BoundsType
       DEF Transform, Reindex, SkipPage, EndPage, Enqueue, EnqueueFails, Kill
<1>3. bronze' \in [Docs -> Versions] /\ etl' \in [Docs -> Versions] /\ kills' \in 0 .. MaxKills
  <2>1. kills' \in 0 .. MaxKills
    BY JobsAssumption
    DEF Transform, Reindex, SkipPage, EndPage, Enqueue, EnqueueFails, Kill, TypeInv, outside
  <2>2. bronze' \in [Docs -> Versions]
    BY DEF Transform, Reindex, SkipPage, EndPage, Enqueue, EnqueueFails, Kill, TypeInv, indices
  <2>3. etl' \in [Docs -> Versions]
    BY DEF Transform, Reindex, SkipPage, EndPage, Enqueue, EnqueueFails, Kill, TypeInv, indices
  <2> QED BY <2>1, <2>2, <2>3
<1>4. UNCHANGED <<source, script, row, raw>>
  BY DEF Transform, Reindex, SkipPage, EndPage, Enqueue, EnqueueFails, Kill, outside, indices
<1> QED BY <1>2, <1>3, <1>4, JobStepType DEF TypeInv

LEMMA NextType == TypeInv /\ [Next]_vars => TypeInv'
<1> SUFFICES ASSUME TypeInv, [Next]_vars PROVE TypeInv'
  OBVIOUS
<1>1. CASE Activate \/ \E d \in Docs : Publish(d)
  BY <1>1, OutsideType
<1>2. CASE Harvest \/ Retry \/ HarvestStep
  BY <1>2, HarvestType
<1>3. CASE ReconcileStep
  BY <1>3, ReconcileType
<1>4. ASSUME NEW j \in Jobs, JobStep(j) \/ Kill(j) PROVE TypeInv'
  <2>1. PICK d \in Docs : TRUE
    BY BoundAssumption
  <2> QED BY <1>4, IndexType, PageType DEF JobStep
<1>5. CASE UNCHANGED vars
  BY <1>5 DEF vars, TypeInv
<1> QED BY <1>1, <1>2, <1>3, <1>4, <1>5 DEF Next

\* The type invariant, overlapping jobs included: rows and jobs never leave the
\* statuses and places the code names.
THEOREM BronzeTypeCorrect == Spec => []TypeOK
<1>1. TypeInv => TypeOK
  BY DEF TypeInv, TypeOK, RowShape, JobShape
<1> QED BY <1>1, InitType, NextType, PTL DEF Spec

(***************************************************************************)
(* What says harvested and indexed is indexed                              *)
(***************************************************************************)

LEMMA AloneStep ==
  ASSUME TypeInv, Alone, NEW j \in Jobs, NEW x, Update(j, x),
         job[j].at # "idle" \/ \A k \in Jobs : job[k].at = "idle"
  PROVE  /\ Alone' /\ job'[j] = x
         /\ \A k \in Jobs : k # j => job'[k] = job[k] /\ job'[k].at = "idle"
BY DEF Alone, Update, TypeInv

\* A job in one of the places in which it holds nothing.
Free == {"idle", "transform", "enqueue", "phase2"}

\* A step of one job that leaves it free and saves no row.
LEMMA FreeStep ==
  ASSUME TypeInv, BronzeInv, NEW j \in Jobs, NEW x, Update(j, x), job[j].at # "idle",
         x.at \in Free, UNCHANGED <<row, raw>>
  PROVE  BronzeInv'
<1>1. Alone' /\ \A k \in Jobs : job'[k].at \in Free
  BY AloneStep DEF BronzeInv, Free
<1>2. SuccessIsIndexed'
  BY DEF BronzeInv, SuccessIsIndexed
<1> QED BY <1>1, <1>2, BoundsType DEF BronzeInv, HarvestHolds, ReconcileHolds, Free

LEMMA OutsideInv ==
  ASSUME BronzeInv, UNCHANGED <<row, raw, job>>
  PROVE  BronzeInv'
BY DEF BronzeInv, Alone, HarvestHolds, ReconcileHolds, SuccessIsIndexed

\* The steps of the harvest: its record is not one that says harvested.
LEMMA HarvestInv ==
  ASSUME TypeInv, BronzeInv, ~Overlap, NEW S \in SUBSET Docs, NEW d \in Docs,
         StartHarvest(S) \/ Fetch(d) \/ FetchFails(d) \/ SaveData \/ MarkSuccess
  PROVE  BronzeInv'
<1> DEFINE h == job["harvest"]
<1>1. h \in JobShape /\ h.doc \in Docs /\ "harvest" \in Jobs /\ "reconcile" \in Jobs
      /\ row \in [Docs -> RowShape]
  BY BoundsType, JobType DEF JobShape, TypeInv
<1>2. raw' = raw
  BY DEF StartHarvest, Fetch, FetchFails, SaveData, MarkSuccess, indices
<1>3. \A x : Update("harvest", x) =>
        Alone' /\ job'["harvest"] = x /\ job'["reconcile"].at = "idle"
  <2> SUFFICES ASSUME NEW x, Update("harvest", x)
               PROVE  Alone' /\ job'["harvest"] = x /\ job'["reconcile"].at = "idle"
    OBVIOUS
  <2>1. h.at # "idle" \/ \A k \in Jobs : job[k].at = "idle"
    BY DEF StartHarvest, Fetch, FetchFails, SaveData, MarkSuccess, MayStart
  <2>2. "reconcile" # "harvest"
    OBVIOUS
  <2> HIDE DEF h
  <2> QED BY <1>1, <2>1, <2>2, AloneStep DEF BronzeInv, h
<1>4. ReconcileHolds'
  <2>1. PICK x : Update("harvest", x)
    BY DEF StartHarvest, Fetch, FetchFails, SaveData, MarkSuccess, Collect
  <2> QED BY <1>3, <2>1 DEF ReconcileHolds
<1>5. CASE StartHarvest(S)
  <2> DEFINE x == [Idle EXCEPT !.at = "items", !.todo = {<<e, 0>> : e \in S}]
  <2>0. UNCHANGED row /\ Update("harvest", x) /\ x.at = "items"
    BY <1>5 DEF StartHarvest, Idle
  <2>1. UNCHANGED row /\ job'["harvest"].at = "items" /\ Alone'
    <3> HIDE DEF x
    <3> QED BY <1>3, <2>0
  <2> QED BY <1>2, <1>4, <2>1 DEF BronzeInv, HarvestHolds, SuccessIsIndexed
<1>6. CASE Fetch(d)
  <2> DEFINE new == [row[d] EXCEPT !.harvest = "in_progress"]
  <2>1. row' = [row EXCEPT ![d] = new] /\ new.harvest = "in_progress"
    BY <1>1, <1>6 DEF Fetch, SetRow, RowShape
  <2> DEFINE x == [h EXCEPT !.at = "save", !.doc = d, !.data = source[d],
                            !.indexed = row[d].index = "success"]
  <2>0. Update("harvest", x) /\ x.at = "save" /\ x.doc = d
    BY <1>1, <1>6 DEF Fetch, JobShape
  <2>2. job'["harvest"].at = "save" /\ job'["harvest"].doc = d /\ Alone'
    <3> HIDE DEF x
    <3> QED BY <1>3, <2>0
  <2> HIDE DEF new
  <2> QED BY <1>1, <1>2, <1>4, <2>1, <2>2 DEF BronzeInv, HarvestHolds, SuccessIsIndexed
<1>7. CASE FetchFails(d)
  <2> DEFINE new == [row[d] EXCEPT !.harvest = "failed"]
  <2>1. row' = [row EXCEPT ![d] = new] /\ new.harvest = "failed"
    BY <1>1, <1>7 DEF FetchFails, SetRow, RowShape
  <2>2. job'["harvest"].at = "items" /\ Alone'
    BY <1>1, <1>3, <1>7, CollectedType DEF FetchFails
  <2> HIDE DEF new
  <2> QED BY <1>1, <1>2, <1>4, <2>1, <2>2 DEF BronzeInv, HarvestHolds, SuccessIsIndexed
<1>8. CASE SaveData
  <2>1. CASE /\ SetRow(h.doc, [row[h.doc] EXCEPT !.data = h.data])
             /\ Update("harvest", [h EXCEPT !.at = "index"])
    <3> DEFINE new == [row[h.doc] EXCEPT !.data = h.data]
    <3>1. row[h.doc].harvest = "in_progress"
      BY <1>8 DEF BronzeInv, HarvestHolds, SaveData
    <3>2. row' = [row EXCEPT ![h.doc] = new] /\ new.harvest = "in_progress" /\ new.data = h.data
      BY <1>1, <2>1, <3>1 DEF SetRow, RowShape
    <3>3. /\ job'["harvest"].at = "index" /\ job'["harvest"].doc = h.doc
          /\ job'["harvest"].data = h.data /\ Alone'
      BY <1>1, <1>3, <2>1 DEF JobShape
    <3> HIDE DEF new
    <3> QED BY <1>1, <1>2, <1>4, <3>2, <3>3 DEF BronzeInv, HarvestHolds, SuccessIsIndexed
  <2>2. CASE /\ SetRow(h.doc, [row[h.doc] EXCEPT !.harvest = "failed"])
             /\ Collect("harvest", h.doc, h.indexed)
    <3> DEFINE new == [row[h.doc] EXCEPT !.harvest = "failed"]
    <3>1. row' = [row EXCEPT ![h.doc] = new] /\ new.harvest = "failed"
      BY <1>1, <2>2 DEF SetRow, RowShape
    <3>2. job'["harvest"].at = "items" /\ Alone'
      BY <1>1, <1>3, <2>2, CollectedType
    <3> HIDE DEF new
    <3> QED BY <1>1, <1>2, <1>4, <3>1, <3>2 DEF BronzeInv, HarvestHolds, SuccessIsIndexed
  <2> QED BY <1>8, <2>1, <2>2 DEF SaveData
<1>9. CASE MarkSuccess
  <2> DEFINE new == [row[h.doc] EXCEPT !.harvest = "success"]
  <2>1. row[h.doc].index = "success" => raw[h.doc] = row[h.doc].data
    BY <1>9 DEF BronzeInv, HarvestHolds, MarkSuccess
  <2>2. /\ row' = [row EXCEPT ![h.doc] = new]
        /\ new.index = row[h.doc].index /\ new.data = row[h.doc].data
    BY <1>1, <1>9 DEF MarkSuccess, SetRow, RowShape
  <2>3. job'["harvest"].at = "items" /\ Alone'
    BY <1>1, <1>3, <1>9, CollectedType DEF MarkSuccess
  <2> HIDE DEF new
  <2> QED BY <1>1, <1>2, <1>4, <2>1, <2>2, <2>3 DEF BronzeInv, HarvestHolds, SuccessIsIndexed
<1> QED BY <1>5, <1>6, <1>7, <1>8, <1>9

LEMMA IndexRawInv ==
  ASSUME TypeInv, BronzeInv, NEW j \in Jobs, IndexRaw(j)
  PROVE  BronzeInv'
<1> DEFINE o == job[j]
<1>1. o \in JobShape /\ o.doc \in Docs /\ raw \in [Docs -> Versions] /\ o.at = "index"
  BY JobType DEF JobShape, TypeInv, IndexRaw
<1>2. UNCHANGED row /\ raw' = [raw EXCEPT ![o.doc] = o.data]
  BY DEF IndexRaw
<1>3. Alone' /\ job'[j] = [o EXCEPT !.at = "indexed"]
      /\ \A k \in Jobs : k # j => job'[k].at = "idle"
  BY <1>1, AloneStep DEF IndexRaw, BronzeInv
<1>4. /\ job'[j].at = "indexed" /\ job'[j].doc = o.doc /\ job'[j].data = o.data
      /\ job'[j].todo = o.todo
  BY <1>1, <1>3 DEF JobShape
<1>5. row[o.doc].data = o.data
  BY <1>1 DEF BronzeInv, HarvestHolds, ReconcileHolds, Jobs
<1>6. raw'[o.doc] = o.data /\ \A d \in Docs : d # o.doc => raw'[d] = raw[d]
  BY <1>1, <1>2
<1>7. SuccessIsIndexed'
  BY <1>2, <1>5, <1>6 DEF BronzeInv, SuccessIsIndexed
<1>8. HarvestHolds'
  <2>1. CASE j = "harvest"
    BY <1>1, <1>2, <1>4, <1>5, <1>6, <2>1 DEF BronzeInv, HarvestHolds
  <2>2. CASE j # "harvest"
    BY <1>3, <2>2, BoundsType DEF HarvestHolds
  <2> QED BY <2>1, <2>2
<1>9. ReconcileHolds'
  <2>1. CASE j = "reconcile"
    BY <1>1, <1>2, <1>4, <1>5, <1>6, <2>1 DEF BronzeInv, ReconcileHolds
  <2>2. CASE j # "reconcile"
    BY <1>3, <2>2, BoundsType DEF ReconcileHolds
  <2> QED BY <2>1, <2>2
<1> QED BY <1>3, <1>7, <1>8, <1>9 DEF BronzeInv

\* The harvest marks a row whose status is not yet success; the reconciliation one
\* whose data it indexed, and its other rows keep their data.
LEMMA MarkInv ==
  ASSUME TypeInv, BronzeInv, NEW j \in Jobs, MarkIndexed(j) \/ IndexRawFails(j)
  PROVE  BronzeInv'
<1> DEFINE o == job[j]
<1>1. o \in JobShape /\ o.doc \in Docs /\ row \in [Docs -> RowShape]
      /\ o.at \in {"index", "indexed"}
  BY JobType DEF JobShape, TypeInv, MarkIndexed, IndexRawFails
<1>2. PICK status \in {"success", "failed"} :
        Mark(j, status) /\ (status = "success" => o.at = "indexed")
  BY DEF MarkIndexed, IndexRawFails
<1> DEFINE harvest == IF j = "harvest" THEN "in_progress" ELSE "success"
           new == [row[o.doc] EXCEPT !.index = status, !.harvest = harvest]
<1>3. /\ row' = [row EXCEPT ![o.doc] = new] /\ raw' = raw
      /\ new.index = status /\ new.harvest = harvest /\ new.data = row[o.doc].data
  BY <1>1, <1>2 DEF Mark, SetRow, indices, RowShape
<1>4. status = "success" => raw[o.doc] = row[o.doc].data
  <2>1. CASE j = "harvest"
    BY <1>1, <1>2, <2>1 DEF BronzeInv, HarvestHolds
  <2>2. CASE j = "reconcile"
    BY <1>1, <1>2, <2>2 DEF BronzeInv, ReconcileHolds
  <2> QED BY <2>1, <2>2 DEF Jobs
<1> HIDE DEF new
<1>5. SuccessIsIndexed'
  BY <1>1, <1>3, <1>4 DEF BronzeInv, SuccessIsIndexed
<1>6. \A d \in Docs : row'[d].data = row[d].data
  BY <1>1, <1>3
<1>7. CASE j = "harvest"
  <2>1. Update(j, [[o EXCEPT !.indexed = status = "success"] EXCEPT !.at = "success"])
    BY <1>2, <1>7 DEF Mark
  <2>2. /\ Alone' /\ job'[j] = [[o EXCEPT !.indexed = status = "success"] EXCEPT !.at = "success"]
        /\ job'["reconcile"].at = "idle"
    BY <1>1, <1>7, <2>1, AloneStep, BoundsType DEF BronzeInv
  <2>3. job'[j].at = "success" /\ job'[j].doc = o.doc
    BY <1>1, <2>2 DEF JobShape
  <2>4. HarvestHolds' /\ ReconcileHolds'
    BY <1>1, <1>3, <1>4, <1>7, <2>2, <2>3 DEF HarvestHolds, ReconcileHolds
  <2> QED BY <1>5, <2>2, <2>4 DEF BronzeInv
<1>8. CASE j = "reconcile"
  <2> DEFINE x == Collected(j, o.doc, status = "success")
  <2>1. Update(j, x) /\ x.at = "items" /\ x.todo \subseteq o.todo
    BY <1>1, <1>2, <1>8, CollectedType DEF Mark
  <2> HIDE DEF x
  <2>2. Alone' /\ job'[j] = x /\ job'["harvest"].at = "idle"
    BY <1>1, <1>8, <2>1, AloneStep, BoundsType DEF BronzeInv
  <2>3. \A t \in o.todo : t[2] = row[t[1]].data /\ t[1] \in Docs
    BY <1>1, <1>8 DEF BronzeInv, ReconcileHolds, JobShape
  <2>4. HarvestHolds' /\ ReconcileHolds'
    BY <1>6, <1>8, <2>1, <2>2, <2>3 DEF HarvestHolds, ReconcileHolds
  <2> QED BY <1>5, <2>2, <2>4 DEF BronzeInv
<1> QED BY <1>7, <1>8 DEF Jobs

LEMMA ReconcileInv ==
  ASSUME TypeInv, BronzeInv, ~Overlap, ReadUnindexed \/ NextUnindexed
  PROVE  BronzeInv'
<1> DEFINE r == job["reconcile"]
<1>1. r \in JobShape /\ "reconcile" \in Jobs /\ "harvest" \in Jobs
  BY BoundsType, JobType
<1>2. UNCHANGED <<row, raw>>
  BY DEF ReadUnindexed, NextUnindexed, indices
<1>3. SuccessIsIndexed'
  BY <1>2 DEF BronzeInv, SuccessIsIndexed
<1>4. PICK x : /\ Update("reconcile", x) /\ x.at \in {"items", "index"}
               /\ \A t \in x.todo : t[2] = row[t[1]].data
               /\ x.at = "index" => x.data = row[x.doc].data
  <2>1. CASE ReadUnindexed
    <3> DEFINE unindexed == {d \in Docs : row[d].harvest = "success" /\ row[d].index # "success"}
               x == [Idle EXCEPT !.at = "items", !.todo = {<<d, row[d].data>> : d \in unindexed}]
    <3>1. Update("reconcile", x)
      BY <2>1 DEF ReadUnindexed
    <3>2. x.at = "items" /\ x.todo = {<<d, row[d].data>> : d \in unindexed}
      BY DEF Idle
    <3> HIDE DEF x
    <3>3. \A t \in x.todo : t[2] = row[t[1]].data
      BY <3>2
    <3> QED BY <3>1, <3>2, <3>3
  <2>2. CASE NextUnindexed
    <3>1. PICK t \in r.todo :
            Update("reconcile", [r EXCEPT !.at = "index", !.doc = t[1], !.data = t[2]])
      BY <2>2 DEF NextUnindexed
    <3> DEFINE x == [r EXCEPT !.at = "index", !.doc = t[1], !.data = t[2]]
    <3>2. x.at = "index" /\ x.doc = t[1] /\ x.data = t[2] /\ x.todo = r.todo
      BY <1>1 DEF JobShape
    <3>3. \A u \in r.todo : u[2] = row[u[1]].data
      BY <2>2 DEF BronzeInv, ReconcileHolds, NextUnindexed
    <3> HIDE DEF x
    <3>4. Update("reconcile", x)
      BY <3>1 DEF x
    <3> QED BY <3>2, <3>3, <3>4
  <2> QED BY <2>1, <2>2
<1>5. /\ Alone' /\ job'["reconcile"] = x /\ job'["harvest"].at = "idle"
  <2>1. r.at # "idle" \/ \A k \in Jobs : job[k].at = "idle"
    BY DEF ReadUnindexed, NextUnindexed, MayStart
  <2>2. "reconcile" # "harvest"
    OBVIOUS
  <2> HIDE DEF r
  <2> QED BY <1>1, <1>4, <2>1, <2>2, AloneStep DEF BronzeInv, r
<1>6. HarvestHolds' /\ ReconcileHolds'
  BY <1>2, <1>4, <1>5 DEF HarvestHolds, ReconcileHolds
<1> QED BY <1>3, <1>5, <1>6 DEF BronzeInv

\* The pages are transformed without a row in hand.
LEMMA PageInv ==
  ASSUME TypeInv, BronzeInv, NEW j \in Jobs,
         \/ Transform(j) \/ Reindex(j) \/ SkipPage(j) \/ EndPage(j) \/ Kill(j)
         \/ j = "reconcile" /\ ReadMissing
         \/ \E d \in Docs : Enqueue(j, d) \/ EnqueueFails(j, d)
  PROVE  BronzeInv'
<1>1. UNCHANGED <<row, raw>> /\ job[j].at # "idle"
  BY DEF Transform, Reindex, SkipPage, EndPage, Enqueue, EnqueueFails, Kill, ReadMissing,
         indices
<1>2. job[j] \in JobShape
  BY JobType
<1>3. PICK x : Update(j, x) /\ x.at \in Free
  <2>1. /\ [job[j] EXCEPT !.at = "transform"].at = "transform"
        /\ [job[j] EXCEPT !.at = "enqueue"].at = "enqueue"
        /\ [job[j] EXCEPT !.at = "transform", !.page = Missing].at = "transform"
        /\ \A page : [job[j] EXCEPT !.page = page].at = job[j].at
    BY <1>2 DEF JobShape
  <2>2. PageDone(j) => \E x : Update(j, x) /\ x.at \in Free
    BY PageDoneType DEF Free
  <2> QED BY <2>1, <2>2, BoundsType
       DEF Transform, Reindex, SkipPage, EndPage, Enqueue, EnqueueFails, Kill, ReadMissing, Free
<1> QED BY <1>1, <1>3, FreeStep

LEMMA InitInv == Init => BronzeInv
<1> SUFFICES ASSUME Init PROVE BronzeInv
  OBVIOUS
<1>1. \A j \in Jobs : job[j] = Idle
  BY DEF Init
<1>2. SuccessIsIndexed
  BY DEF Init, SuccessIsIndexed
<1> QED BY <1>1, <1>2, BoundsType DEF BronzeInv, Alone, HarvestHolds, ReconcileHolds

LEMMA NextInv == TypeInv /\ BronzeInv /\ ~Overlap /\ [Next]_vars => BronzeInv'
<1> SUFFICES ASSUME TypeInv, BronzeInv, ~Overlap, [Next]_vars PROVE BronzeInv'
  OBVIOUS
<1>1. CASE Activate \/ (\E d \in Docs : Publish(d)) \/ UNCHANGED vars
  BY <1>1, OutsideInv DEF Activate, Publish, vars, indices
<1>2. CASE Harvest \/ Retry \/ HarvestStep
  <2>1. PICK d \in Docs : TRUE
    BY BoundAssumption
  <2>2. Failed \in SUBSET Docs
    BY DEF Failed
  <2> QED BY <1>2, <2>1, <2>2, HarvestInv DEF Harvest, Retry, HarvestStep
<1>3. CASE ReconcileStep
  BY <1>3, ReconcileInv, PageInv, BoundsType DEF ReconcileStep
<1>4. ASSUME NEW j \in Jobs, JobStep(j) \/ Kill(j) PROVE BronzeInv'
  BY <1>4, IndexRawInv, MarkInv, PageInv DEF JobStep
<1> QED BY <1>1, <1>2, <1>3, <1>4 DEF Next

\* If no reconciliation runs during a harvest, a row that says harvested and indexed
\* has its data in the raw index: what the reconciliation relies on when it passes
\* such rows over (index_harvested_raw_data).
THEOREM SerialSuccessIsIndexed == ASSUME ~Overlap PROVE Spec => []SuccessIsIndexed
<1>1. TypeInv /\ BronzeInv => SuccessIsIndexed
  BY DEF BronzeInv
<1>2. TypeInv /\ BronzeInv /\ [Next]_vars => TypeInv' /\ BronzeInv'
  BY NextType, NextInv
<1> QED BY <1>1, <1>2, InitType, InitInv, PTL DEF Spec
=============================================================================

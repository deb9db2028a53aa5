------------------------- MODULE OpenAlexSnapshotProofs -------------------------
(***************************************************************************)
(* The harvest of the OpenAlex snapshot, for any works, parts, manifests,  *)
(* batches, kills and failures.  Types hold for any number of runs at      *)
(* once; with one run at a time a completed part is in the index and its   *)
(* updates were announced to the ETL.                                      *)
(***************************************************************************)
EXTENDS OpenAlexSnapshot, FiniteSetTheorems, SequenceTheorems, TLAPS

(***************************************************************************)
(* The least element of a set of numbers                                   *)
(***************************************************************************)

\* Of the intervals 0 .. n, one is minimal for inclusion: that of the least n.
LEMMA MinOfNat ==
  ASSUME NEW S \in SUBSET Nat, S # {}
  PROVE  Min(S) \in S /\ \A y \in S : Min(S) <= y
<1> DEFINE Below == {0 .. n : n \in S}
<1>1. \A n \in Nat : 0 .. n \in FiniteSubsetsOf(Nat)
  BY FS_Interval DEF FiniteSubsetsOf
<1>2. PICK T \in Below : \A U \in Below : <<U, T>> \notin StrictSubsetOrdering(Nat)
  <2>1. Below \subseteq FiniteSubsetsOf(Nat) /\ Below # {}
    BY <1>1
  <2> HIDE DEF Below
  <2> QED BY <2>1, FS_StrictSubsetOrderingWellFounded, WFMin
<1>3. PICK x \in S : T = 0 .. x
  OBVIOUS
<1>4. \A y \in S : x <= y
  <2> SUFFICES ASSUME NEW y \in S, y < x PROVE FALSE
    OBVIOUS
  <2>1. 0 .. y \subseteq 0 .. x /\ x \notin 0 .. y /\ x \in 0 .. x
    OBVIOUS
  <2>2. <<0 .. y, 0 .. x>> \in StrictSubsetOrdering(Nat)
    BY <2>1 DEF StrictSubsetOrdering
  <2> QED BY <1>2, <1>3, <2>2
<1> QED BY <1>4 DEF Min

(***************************************************************************)
(* Request rows                                                            *)
(***************************************************************************)

PartRow == [harvest : HarvestStatus, index : IndexStatus]
ManifestRow == [harvest : HarvestStatus]

\* Saving a row that a run gets keeps the others, and the bound on their number.
LEMMA SavedRows ==
  ASSUME NEW T, NEW rows \in Seq(T), NEW new \in T, NEW k \in RowChoices(rows),
         Len(rows) <= MaxRows
  PROVE  /\ Saved(rows, new, k) \in Seq(T) /\ Len(Saved(rows, new, k)) <= MaxRows
         /\ k \in DOMAIN Saved(rows, new, k) /\ Saved(rows, new, k)[k] = new
         /\ DOMAIN rows \subseteq DOMAIN Saved(rows, new, k)
         /\ \A j \in DOMAIN Saved(rows, new, k) :
              j # k => j \in DOMAIN rows /\ Saved(rows, new, k)[j] = rows[j]
<1>1. CASE Incomplete(rows) # {}
  <2>1. k \in DOMAIN rows /\ Saved(rows, new, k) = [rows EXCEPT ![k] = new]
    BY <1>1 DEF RowChoices, Saved, Incomplete
  <2> QED BY <2>1
<1>2. CASE Incomplete(rows) = {}
  <2>1. k = Len(rows) + 1 /\ k \in 1 .. MaxRows /\ Saved(rows, new, k) = Append(rows, new)
    BY <1>2 DEF RowChoices, Saved
  <2> QED BY <2>1, RunAssumption
<1> QED BY <1>1, <1>2

(***************************************************************************)
(* The invariants                                                          *)
(***************************************************************************)

RunShape ==
  [at : {"idle", "manifest", "registered", "parts", "download", "works", "requeue",
         "succeeded", "failing", "failed"},
   manifest : 0 .. LastManifest, from : Nat, manifestRow : Nat,
   completed : SUBSET Parts, part : 0 .. LastManifest, partRow : 0 .. MaxRows,
   indexing : BOOLEAN, todo : SUBSET Works, batch : SUBSET Works]

\* The steps in which a run works on a part and on the row it got for it.
InPart == {"download", "works", "requeue", "succeeded", "failing", "failed"}

\* The rows that a run with memory x writes to are in the tables.
RowsFit(x, parts, manifests) ==
  /\ x.at # "idle" => x.manifest \in Parts /\ x.from # 0
  /\ x.at \notin {"idle", "manifest"} => x.manifestRow \in DOMAIN manifests[x.manifest]
  /\ x.at \in InPart => x.part \in Parts /\ x.partRow \in DOMAIN parts[x.part]

RowTables(parts, manifests) ==
  /\ parts \in [Parts -> Seq(PartRow)] /\ manifests \in [Parts -> Seq(ManifestRow)]
  /\ \A p \in Parts : Len(parts[p]) <= MaxRows /\ Len(manifests[p]) <= MaxRows

TypeInv ==
  /\ manifest \in Parts /\ kills \in 0 .. MaxKills
  /\ home \in [Works -> Parts] /\ index \in [Works -> 0 .. LastManifest]
  /\ unrequeued \subseteq Works /\ ignored \subseteq Works \X Parts
  /\ RowTables(partRows, manifestRows)
  /\ run \in [Runs -> RunShape]
  /\ \A r \in Runs : RowsFit(run[r], partRows, manifestRows)

\* One run at a time, as the task is scheduled.  No lock of the code says so, and
\* with two runs what is proved here is false: the older run writes its version of
\* a work that moved, and a run fails the row with which the other completed the part.
OneRun == \A r, s \in Runs : r = s

\* A part that is not published yet holds nothing and has no row.
Published ==
  /\ \A w \in Works : home[w] <= manifest
  /\ \A p \in Parts : p > manifest => partRows[p] = <<>>

\* Nor does a run work on it.
Bounded(r) ==
  /\ run[r].manifest <= manifest
  /\ run[r].at \in InPart => run[r].part <= run[r].manifest

\* What a run read of the completed parts is still so, and it is not working on
\* one of them.
KnowsCompleted(r) ==
  /\ run[r].at \in {"parts", "download", "works", "requeue", "failing", "succeeded"} =>
       \A p \in Parts : Completed(p) =>
         p \in run[r].completed \/ (run[r].at = "succeeded" /\ p = run[r].part)
  /\ run[r].at \in {"download", "works", "requeue", "failing"} =>
       ~Completed(run[r].part)

\* The works in its memory are of its part, unless they have moved to a later one.
Holds(r) ==
  /\ run[r].at \notin {"works", "requeue"} => run[r].todo = {}
  /\ run[r].at # "requeue" => run[r].batch = {}
  /\ \A w \in run[r].todo \cup run[r].batch :
       home[w] = run[r].part \/ ~Completed(home[w])

\* A work of the part it loads is still to be written, was ignored or is in the
\* index; if its ETL row is to be requeued, that is still to come.
Accounted(r) ==
  run[r].at \in {"works", "requeue"} =>
    \A w \in Works : home[w] = run[r].part =>
      \/ <<w, run[r].part>> \in ignored
      \/ /\ w \in run[r].todo \/ index[w] = run[r].part
         /\ w \in unrequeued => w \in run[r].todo \cup run[r].batch

\* No requeue is due for a work of a completed part.
UpdatesAnnounced ==
  \A w \in unrequeued : Completed(home[w]) => <<w, home[w]>> \in ignored

SnapInv ==
  /\ Published /\ CompletedIsIndexed /\ UpdatesAnnounced
  /\ \A r \in Runs : Bounded(r) /\ KnowsCompleted(r) /\ Holds(r) /\ Accounted(r)

(***************************************************************************)
(* Type correctness                                                        *)
(***************************************************************************)

LEMMA IdleType == Idle \in RunShape /\ Idle.at = "idle"
BY ManifestAssumption, RunAssumption DEF Idle, RunShape

\* No request row disappears.
RowsKept ==
  \A p \in Parts : /\ DOMAIN partRows[p] \subseteq DOMAIN partRows'[p]
                   /\ DOMAIN manifestRows[p] \subseteq DOMAIN manifestRows'[p]

LEMMA SameRows ==
  ASSUME TypeInv, UNCHANGED <<partRows, manifestRows>>
  PROVE  RowTables(partRows', manifestRows') /\ RowsKept
BY DEF TypeInv, RowTables, RowsKept

\* A step of one run that leaves the rows of the others where they are.
LEMMA RunStepType ==
  ASSUME TypeInv, NEW r \in Runs, NEW x \in RunShape, run' = [run EXCEPT ![r] = x],
         RowTables(partRows', manifestRows'), RowsKept,
         RowsFit(x, partRows', manifestRows'),
         manifest' \in Parts, kills' \in 0 .. MaxKills, home' \in [Works -> Parts],
         index' \in [Works -> 0 .. LastManifest], unrequeued' \subseteq Works,
         ignored' \subseteq Works \X Parts
  PROVE  TypeInv'
<1>1. run' \in [Runs -> RunShape]
  BY DEF TypeInv
<1>2. ASSUME NEW s \in Runs PROVE RowsFit(run'[s], partRows', manifestRows')
  <2>1. CASE s = r
    BY <2>1 DEF TypeInv
  <2>2. CASE s # r
    <3>1. run'[s] = run[s] /\ RowsFit(run[s], partRows, manifestRows)
      BY <2>2 DEF TypeInv
    <3>2. run[s].at \in InPart => run[s].at \notin {"idle", "manifest"}
      BY DEF InPart
    <3> QED BY <3>1, <3>2 DEF RowsFit, RowsKept
  <2> QED BY <2>1, <2>2
<1> QED BY <1>1, <1>2 DEF TypeInv

\* The row a run works on, and the table after it was saved.
LEMMA MyRowType ==
  ASSUME TypeInv, NEW r \in Runs, run[r].at \in InPart
  PROVE  MyRow(r) \in PartRow /\ run[r].part \in Parts
BY DEF TypeInv, RowTables, RowsFit, MyRow

LEMMA SetRowType ==
  ASSUME TypeInv, NEW r \in Runs, run[r].at \in InPart, NEW row \in PartRow,
         SetRow(r, row), UNCHANGED manifestRows
  PROVE  RowTables(partRows', manifestRows') /\ RowsKept
         /\ \A p \in Parts : DOMAIN partRows'[p] = DOMAIN partRows[p]
<1> DEFINE p == run[r].part  k == run[r].partRow
           new == [partRows[p] EXCEPT ![k] = row]
<1>1. p \in Parts /\ k \in DOMAIN partRows[p]
  BY DEF TypeInv, RowsFit
<1>2. partRows[p] \in Seq(PartRow) /\ partRows \in [Parts -> Seq(PartRow)]
  BY <1>1 DEF TypeInv, RowTables
<1>3. new \in Seq(PartRow) /\ Len(new) = Len(partRows[p])
  BY <1>1, <1>2
<1>4. partRows' = [partRows EXCEPT ![p] = new]
  BY DEF SetRow
<1> QED BY <1>1, <1>2, <1>3, <1>4 DEF TypeInv, RowTables, RowsKept

\* So for the row of a manifest.
LEMMA SetManifestRowType ==
  ASSUME TypeInv, NEW r \in Runs, run[r].at \notin {"idle", "manifest"},
         NEW status \in HarvestStatus, UNCHANGED partRows,
         manifestRows' = [manifestRows EXCEPT ![run[r].manifest][run[r].manifestRow].harvest = status]
  PROVE  RowTables(partRows', manifestRows') /\ RowsKept
<1> DEFINE m == run[r].manifest  k == run[r].manifestRow
           new == [manifestRows[m] EXCEPT ![k].harvest = status]
<1>1. m \in Parts /\ k \in DOMAIN manifestRows[m]
  BY DEF TypeInv, RowsFit
<1>2. manifestRows[m] \in Seq(ManifestRow) /\ manifestRows \in [Parts -> Seq(ManifestRow)]
  BY <1>1 DEF TypeInv, RowTables
<1>3. [manifestRows[m][k] EXCEPT !.harvest = status] \in ManifestRow
  <2>1. manifestRows[m][k] \in ManifestRow
    BY <1>1, <1>2
  <2> QED BY <2>1 DEF ManifestRow
<1>4. new = [manifestRows[m] EXCEPT ![k] = [manifestRows[m][k] EXCEPT !.harvest = status]]
  OBVIOUS
<1>5. new \in Seq(ManifestRow) /\ Len(new) = Len(manifestRows[m])
  BY <1>1, <1>2, <1>3, <1>4
<1>6. manifestRows' = [manifestRows EXCEPT ![m] = new]
  OBVIOUS
<1> QED BY <1>1, <1>2, <1>5, <1>6 DEF TypeInv, RowTables, RowsKept

LEMMA InitType == Init => TypeInv
<1> SUFFICES ASSUME Init PROVE TypeInv
  OBVIOUS
<1>1. 1 .. FirstManifest \subseteq Parts /\ FirstManifest \in Parts /\ 0 \in 0 .. LastManifest
  BY ManifestAssumption DEF Parts
<1>2. RowTables(partRows, manifestRows)
  BY RunAssumption DEF Init, RowTables
<1>3. ASSUME NEW r \in Runs PROVE run[r] \in RunShape /\ RowsFit(run[r], partRows, manifestRows)
  BY IdleType DEF Init, RowsFit, InPart
<1>4. run \in [Runs -> RunShape]
  BY IdleType DEF Init
<1>5. manifest \in Parts /\ home \in [Works -> Parts] /\ index \in [Works -> 0 .. LastManifest]
  BY <1>1 DEF Init
<1>6. kills \in 0 .. MaxKills /\ unrequeued = {} /\ ignored = {}
  BY RunAssumption DEF Init
<1> QED BY <1>2, <1>3, <1>4, <1>5, <1>6 DEF TypeInv

LEMMA PublishType ==
  ASSUME TypeInv, NEW moved \in SUBSET Works, Publish(moved)
  PROVE  TypeInv'
<1>1. manifest' \in Parts /\ home' \in [Works -> Parts]
  BY ManifestAssumption DEF Publish, TypeInv, Parts
<1> QED BY <1>1 DEF Publish, TypeInv

LEMMA StartType ==
  ASSUME TypeInv, NEW r \in Runs, NEW from \in FromDates, Start(r, from)
  PROVE  TypeInv'
<1> DEFINE x == [Idle EXCEPT !.at = "manifest", !.manifest = manifest, !.from = from]
<1>1. x \in RunShape /\ RowsFit(x, partRows', manifestRows')
  <2>1. manifest \in Parts /\ manifest \in 0 .. LastManifest /\ from \in Nat \ {0}
    BY RunAssumption, ManifestAssumption DEF TypeInv, Parts
  <2> QED BY <2>1, IdleType DEF RunShape, RowsFit, InPart, Idle
<1> QED BY <1>1, RunStepType, SameRows DEF Start, Update, outside, TypeInv

LEMMA RegisterManifestType ==
  ASSUME TypeInv, NEW r \in Runs, RegisterManifest(r)
  PROVE  TypeInv'
<1> DEFINE m == run[r].manifest  new == [harvest |-> "in_progress"]
<1>1. PICK k \in RowChoices(manifestRows[m]) :
        /\ manifestRows' = [manifestRows EXCEPT ![m] = Saved(@, new, k)]
        /\ Update(r, [run[r] EXCEPT !.at = "registered", !.manifestRow = k])
  BY DEF RegisterManifest
<1> DEFINE saved == Saved(manifestRows[m], new, k)
           x == [run[r] EXCEPT !.at = "registered", !.manifestRow = k]
<1>2. m \in Parts /\ run[r] \in RunShape /\ run[r].from # 0
  BY DEF RegisterManifest, TypeInv, RowsFit
<1>3. /\ manifestRows[m] \in Seq(ManifestRow) /\ Len(manifestRows[m]) <= MaxRows
      /\ new \in ManifestRow
  BY <1>2 DEF TypeInv, RowTables, ManifestRow, HarvestStatus
<1>4. /\ saved \in Seq(ManifestRow) /\ Len(saved) <= MaxRows /\ k \in DOMAIN saved
      /\ DOMAIN manifestRows[m] \subseteq DOMAIN saved
  BY <1>3, SavedRows
<1>5. manifestRows' = [manifestRows EXCEPT ![m] = saved] /\ partRows' = partRows
  BY <1>1 DEF RegisterManifest
<1>6. manifestRows'[m] = saved /\ RowTables(partRows', manifestRows') /\ RowsKept
  <2> HIDE DEF saved
  <2> QED BY <1>2, <1>4, <1>5 DEF TypeInv, RowTables, RowsKept
<1>7. k \in Nat
  BY <1>4
<1>8. x \in RunShape /\ RowsFit(x, partRows', manifestRows')
  BY <1>2, <1>4, <1>6, <1>7 DEF RunShape, RowsFit, InPart
<1>9. run' = [run EXCEPT ![r] = x] /\ UNCHANGED <<index, unrequeued, ignored, manifest, home, kills>>
  BY <1>1 DEF RegisterManifest, Update, outside
<1> QED BY <1>6, <1>8, <1>9, RunStepType DEF TypeInv

LEMMA ReadCompletedType ==
  ASSUME TypeInv, NEW r \in Runs, ReadCompleted(r)
  PROVE  TypeInv'
<1> DEFINE x == [run[r] EXCEPT !.at = "parts", !.completed = {p \in Parts : Completed(p)}]
<1>1. run[r] \in RunShape /\ RowsFit(run[r], partRows, manifestRows) /\ run[r].at = "registered"
  BY DEF ReadCompleted, TypeInv
<1>2. {p \in Parts : Completed(p)} \in SUBSET Parts
  OBVIOUS
<1>3. x \in RunShape /\ RowsFit(x, partRows', manifestRows')
  <2>1. x \in RunShape
    BY <1>1, <1>2 DEF RunShape
  <2>2. x.at = "parts" /\ x.manifest = run[r].manifest /\ x.from = run[r].from
        /\ x.manifestRow = run[r].manifestRow
    BY <1>1 DEF RunShape
  <2> QED BY <1>1, <2>1, <2>2 DEF RowsFit, InPart, ReadCompleted
<1> QED BY <1>3, RunStepType, SameRows DEF ReadCompleted, Update, outside, TypeInv

\* The part a run takes next is one of the parts that remain.
LEMMA NextPart ==
  ASSUME TypeInv, NEW r \in Runs, run[r].at = "parts", Remaining(r) # {}
  PROVE  /\ Min(Remaining(r)) \in Remaining(r) /\ Min(Remaining(r)) \in Parts
         /\ Min(Remaining(r)) <= run[r].manifest
         /\ Min(Remaining(r)) \notin run[r].completed
<1>1. /\ run[r].from \in Nat \ {0} /\ run[r].manifest \in Nat
      /\ run[r].manifest <= LastManifest /\ LastManifest \in Nat
  BY ManifestAssumption DEF TypeInv, RowsFit, RunShape, Parts
<1>2. Remaining(r) \in SUBSET Nat
  BY <1>1 DEF Remaining
<1>3. Min(Remaining(r)) \in Remaining(r)
  BY <1>2, MinOfNat
<1> QED BY <1>1, <1>3 DEF Remaining, Parts

LEMMA TakePartType ==
  ASSUME TypeInv, NEW r \in Runs, TakePart(r)
  PROVE  TypeInv'
<1> DEFINE p == Min(Remaining(r))
<1>1. p \in Parts
  BY NextPart DEF TakePart
<1>2. PICK k \in RowChoices(partRows[p]) :
        /\ partRows' = [partRows EXCEPT ![p] = Saved(@, NewRow, k)]
        /\ Update(r, [run[r] EXCEPT !.at = "download", !.part = p, !.partRow = k,
                                    !.indexing = FALSE])
  BY DEF TakePart
<1> HIDE DEF p
<1> DEFINE saved == Saved(partRows[p], NewRow, k)
           x == [run[r] EXCEPT !.at = "download", !.part = p, !.partRow = k,
                               !.indexing = FALSE]
<1>3. /\ partRows[p] \in Seq(PartRow) /\ Len(partRows[p]) <= MaxRows /\ NewRow \in PartRow
  BY <1>1 DEF TypeInv, RowTables, PartRow, NewRow, HarvestStatus, IndexStatus
<1>4. /\ saved \in Seq(PartRow) /\ Len(saved) <= MaxRows /\ k \in DOMAIN saved
      /\ DOMAIN partRows[p] \subseteq DOMAIN saved
  BY <1>3, SavedRows
<1>5. partRows' = [partRows EXCEPT ![p] = saved] /\ manifestRows' = manifestRows
  BY <1>2 DEF TakePart
<1>6. partRows'[p] = saved /\ RowTables(partRows', manifestRows') /\ RowsKept
  <2> HIDE DEF saved
  <2> QED BY <1>1, <1>4, <1>5 DEF TypeInv, RowTables, RowsKept
<1>7. k \in 0 .. MaxRows /\ p \in 0 .. LastManifest
  BY <1>1, <1>4, RunAssumption, ManifestAssumption DEF Parts
<1>8. run[r] \in RunShape /\ RowsFit(run[r], partRows, manifestRows) /\ run[r].at = "parts"
  BY DEF TypeInv, TakePart
<1>9. x \in RunShape /\ RowsFit(x, partRows', manifestRows')
  BY <1>1, <1>4, <1>5, <1>6, <1>7, <1>8 DEF RunShape, RowsFit, InPart
<1>10. run' = [run EXCEPT ![r] = x] /\ UNCHANGED <<index, unrequeued, ignored, manifest, home, kills>>
  BY <1>2 DEF TakePart, Update, outside
<1> QED BY <1>6, <1>9, <1>10, RunStepType DEF TypeInv

\* A run whose memory is forgotten.
LEMMA ForgetType ==
  ASSUME TypeInv, NEW r \in Runs, run' = [run EXCEPT ![r] = Idle],
         RowTables(partRows', manifestRows'), RowsKept, kills' \in 0 .. MaxKills,
         UNCHANGED <<manifest, home, index, unrequeued, ignored>>
  PROVE  TypeInv'
<1>1. Idle \in RunShape /\ RowsFit(Idle, partRows', manifestRows')
  BY IdleType DEF RowsFit, InPart
<1> QED BY <1>1, RunStepType DEF TypeInv

\* The steps after which a run has forgotten everything: FinishManifest,
\* FailManifest, RolloverRaises and Crash.
LEMMA EndsType ==
  ASSUME TypeInv, NEW r \in Runs,
         FinishManifest(r) \/ FailManifest(r) \/ RolloverRaises(r) \/ Crash(r)
  PROVE  TypeInv'
<1>1. kills \in 0 .. MaxKills
  BY DEF TypeInv
<1>2. CASE FinishManifest(r)
  <2>1. RowTables(partRows', manifestRows') /\ RowsKept
    <3>1. CASE manifestRows' = manifestRows
      BY <1>2, <3>1, SameRows DEF FinishManifest
    <3>2. CASE manifestRows' # manifestRows
      BY <1>2, <3>2, SetManifestRowType DEF FinishManifest, HarvestStatus
    <3> QED BY <3>1, <3>2
  <2> QED BY <1>1, <1>2, <2>1, ForgetType DEF FinishManifest, Update, outside
<1>3. CASE FailManifest(r)
  <2>1. RowTables(partRows', manifestRows') /\ RowsKept
    BY <1>3, SetManifestRowType DEF FailManifest, HarvestStatus
  <2> QED BY <1>1, <1>3, <2>1, ForgetType DEF FailManifest, Update, outside
<1>4. CASE RolloverRaises(r)
  BY <1>1, <1>4, SameRows, ForgetType DEF RolloverRaises, Update, outside
<1>5. CASE Crash(r)
  <2>1. kills' \in 0 .. MaxKills
    BY <1>1, <1>5, RunAssumption DEF Crash
  <2> QED BY <1>5, <2>1, SameRows, ForgetType DEF Crash, Update
<1> QED BY <1>2, <1>3, <1>4, <1>5

\* A run that goes on, or not, with the part it works on.
SamePart(x, y) ==
  /\ x.manifest = y.manifest /\ x.from = y.from /\ x.manifestRow = y.manifestRow
  /\ x.part = y.part /\ x.partRow = y.partRow

LEMMA PartStepType ==
  ASSUME TypeInv, NEW r \in Runs, run[r].at \in InPart, NEW x \in RunShape,
         SamePart(x, run[r]), run' = [run EXCEPT ![r] = x],
         RowTables(partRows', manifestRows'), RowsKept,
         index' \in [Works -> 0 .. LastManifest], unrequeued' \subseteq Works,
         ignored' \subseteq Works \X Parts, UNCHANGED outside
  PROVE  TypeInv'
<1>1. RowsFit(run[r], partRows, manifestRows)
  BY DEF TypeInv
<1>2. run[r].at \notin {"idle", "manifest"}
  BY DEF InPart
<1>3. RowsFit(x, partRows', manifestRows')
  BY <1>1, <1>2 DEF RowsFit, RowsKept, SamePart
<1> QED BY <1>3, RunStepType DEF TypeInv, outside

LEMMA DownloadType ==
  ASSUME TypeInv, NEW r \in Runs, NEW bad \in SUBSET Works, Download(r, bad)
  PROVE  TypeInv'
<1> DEFINE todo == {w \in Works : home[w] = run[r].part} \ bad
           x == [run[r] EXCEPT !.at = "works", !.todo = todo]
<1>1. run[r] \in RunShape /\ run[r].at \in InPart
  BY DEF TypeInv, Download, InPart
<1>2. todo \in SUBSET Works
  OBVIOUS
<1>3. run' = [run EXCEPT ![r] = x]
  BY DEF Download, Update
<1>4. x \in RunShape /\ SamePart(x, run[r])
  <2> HIDE DEF todo
  <2> QED BY <1>1, <1>2 DEF RunShape, SamePart
<1>5. ignored' \subseteq Works \X Parts
  BY <1>1, MyRowType DEF Download, TypeInv
<1> HIDE DEF x
<1> QED BY <1>1, <1>3, <1>4, <1>5, PartStepType, SameRows DEF Download, TypeInv

\* The steps that save the row of the part.
LEMMA RowStepType ==
  ASSUME TypeInv, NEW r \in Runs,
         BeginIndexing(r) \/ MarkPartSuccess(r) \/ MarkIndexed(r) \/ FailPart(r)
  PROVE  TypeInv'
<1>1. run[r] \in RunShape /\ run[r].at \in InPart
  BY DEF TypeInv, BeginIndexing, MarkPartSuccess, MarkIndexed, FailPart, InPart
<1>2. MyRow(r) \in PartRow /\ run[r].part \in Parts
  BY <1>1, MyRowType
<1>3. PICK row \in PartRow : SetRow(r, row)
  <2>1. /\ [MyRow(r) EXCEPT !.index = "in_progress"] \in PartRow
        /\ [MyRow(r) EXCEPT !.harvest = "success"] \in PartRow
        /\ [MyRow(r) EXCEPT !.index = "success"] \in PartRow
        /\ [harvest |-> "failed",
            index |-> IF run[r].indexing THEN "failed" ELSE MyRow(r).index] \in PartRow
    BY <1>2 DEF PartRow, HarvestStatus, IndexStatus
  <2> QED BY <2>1 DEF BeginIndexing, MarkPartSuccess, MarkIndexed, FailPart
<1>4. PICK x \in RunShape : SamePart(x, run[r]) /\ run' = [run EXCEPT ![r] = x]
  <2>1. /\ [run[r] EXCEPT !.indexing = TRUE] \in RunShape
        /\ [run[r] EXCEPT !.at = "succeeded"] \in RunShape
        /\ [run[r] EXCEPT !.at = "parts", !.completed = @ \cup {run[r].part}] \in RunShape
        /\ [run[r] EXCEPT !.at = "failed"] \in RunShape
    BY <1>1, <1>2 DEF RunShape
  <2>2. /\ SamePart([run[r] EXCEPT !.indexing = TRUE], run[r])
        /\ SamePart([run[r] EXCEPT !.at = "succeeded"], run[r])
        /\ SamePart([run[r] EXCEPT !.at = "parts", !.completed = @ \cup {run[r].part}], run[r])
        /\ SamePart([run[r] EXCEPT !.at = "failed"], run[r])
    BY <1>1 DEF RunShape, SamePart
  <2> QED BY <2>1, <2>2
    DEF BeginIndexing, MarkPartSuccess, MarkIndexed, FailPart, Update
<1>5. UNCHANGED <<index, unrequeued, ignored, manifestRows>> /\ UNCHANGED outside
  BY DEF BeginIndexing, MarkPartSuccess, MarkIndexed, FailPart
<1>6. RowTables(partRows', manifestRows') /\ RowsKept
  BY <1>1, <1>3, <1>5, SetRowType
<1> QED BY <1>1, <1>4, <1>5, <1>6, PartStepType DEF TypeInv

\* The steps that write the index or requeue, and those that raise.
LEMMA WriteIndexType ==
  ASSUME TypeInv, NEW r \in Runs, run[r].at \in InPart, NEW written \in SUBSET Works,
         WriteIndex(r, written)
  PROVE  /\ index' \in [Works -> 0 .. LastManifest] /\ unrequeued' \subseteq Works
         /\ ignored' \subseteq Works \X Parts
<1>1. run[r].part \in 0 .. LastManifest
  BY DEF TypeInv, RunShape
<1> QED BY <1>1 DEF TypeInv, WriteIndex

LEMMA BatchStepType ==
  ASSUME TypeInv, NEW r \in Runs, NEW batch \in SUBSET Works, NEW written \in SUBSET Works,
         Bulk(r, batch) \/ BulkFails(r, batch, written) \/ Requeue(r) \/ StepFails(r)
  PROVE  TypeInv'
<1>1. run[r] \in RunShape /\ run[r].at \in InPart
  BY DEF TypeInv, Bulk, BulkFails, NextBatch, Requeue, StepFails, InPart
<1>2. PICK x \in RunShape : SamePart(x, run[r]) /\ run' = [run EXCEPT ![r] = x]
  <2>1. /\ [run[r] EXCEPT !.at = "requeue", !.todo = @ \ batch, !.batch = batch] \in RunShape
        /\ [run[r] EXCEPT !.at = "failing", !.todo = {}] \in RunShape
        /\ [run[r] EXCEPT !.at = "works", !.batch = {}] \in RunShape
        /\ [run[r] EXCEPT !.at = "failing", !.todo = {}, !.batch = {}] \in RunShape
    BY <1>1 DEF RunShape
  <2>2. /\ SamePart([run[r] EXCEPT !.at = "requeue", !.todo = @ \ batch, !.batch = batch], run[r])
        /\ SamePart([run[r] EXCEPT !.at = "failing", !.todo = {}], run[r])
        /\ SamePart([run[r] EXCEPT !.at = "works", !.batch = {}], run[r])
        /\ SamePart([run[r] EXCEPT !.at = "failing", !.todo = {}, !.batch = {}], run[r])
    BY <1>1 DEF RunShape, SamePart
  <2> QED BY <2>1, <2>2 DEF Bulk, BulkFails, Requeue, StepFails, Update
<1>3. UNCHANGED <<partRows, manifestRows>> /\ UNCHANGED outside
  BY DEF Bulk, BulkFails, Requeue, StepFails
<1>4. /\ index' \in [Works -> 0 .. LastManifest] /\ unrequeued' \subseteq Works
      /\ ignored' \subseteq Works \X Parts
  <2>1. CASE Bulk(r, batch)
    BY <1>1, <2>1, WriteIndexType DEF Bulk
  <2>2. CASE BulkFails(r, batch, written)
    BY <1>1, <2>2, WriteIndexType DEF BulkFails
  <2>3. CASE Requeue(r) \/ StepFails(r)
    BY <2>3 DEF Requeue, StepFails, TypeInv
  <2> QED BY <2>1, <2>2, <2>3
<1> QED BY <1>1, <1>2, <1>3, <1>4, SameRows, PartStepType

LEMMA NextType == TypeInv /\ [Next]_vars => TypeInv'
<1> SUFFICES ASSUME TypeInv, [Next]_vars PROVE TypeInv'
  OBVIOUS
<1>1. CASE Next
  <2>1. CASE \E moved \in SUBSET Works : Publish(moved)
    BY <2>1, PublishType
  <2>2. CASE \E r \in Runs, from \in FromDates : Start(r, from)
    BY <2>2, StartType
  <2>3. ASSUME NEW r \in Runs, Advance(r) PROVE TypeInv'
    BY <2>3, RegisterManifestType, ReadCompletedType, TakePartType, EndsType,
       DownloadType, RowStepType, BatchStepType DEF Advance
  <2>4. ASSUME NEW r \in Runs, Failure(r) PROVE TypeInv'
    <3>1. \A bad \in SUBSET Works : Download(r, bad) => TypeInv'
      BY DownloadType
    <3>2. \A batch, written \in SUBSET Works : BulkFails(r, batch, written) => TypeInv'
      BY BatchStepType
    <3>3. StepFails(r) => TypeInv'
      BY BatchStepType
    <3>4. RolloverRaises(r) => TypeInv'
      BY EndsType
    <3> QED BY <2>4, <3>1, <3>2, <3>3, <3>4 DEF Failure
  <2>5. ASSUME NEW r \in Runs, FailPart(r) \/ FailManifest(r) \/ Crash(r) PROVE TypeInv'
    BY <2>5, RowStepType, EndsType
  <2> QED BY <1>1, <2>1, <2>2, <2>3, <2>4, <2>5 DEF Next
<1>2. CASE UNCHANGED vars
  BY <1>2 DEF vars, TypeInv
<1> QED BY <1>1, <1>2

\* The type invariant holds for any number of runs at once: no run saves a row
\* it does not have, nor a status that the harvest does not know.
THEOREM SnapshotTypeCorrect == Spec => []TypeOK
<1>1. TypeInv => TypeOK
  BY DEF TypeInv, TypeOK, RowTables, RunShape, PartRow, ManifestRow
<1> QED BY <1>1, InitType, NextType, PTL DEF Spec

(***************************************************************************)
(* A completed part is in the index and announced                          *)
(***************************************************************************)

NothingCompletes == \A p \in Parts : Completed(p)' => Completed(p)

LEMMA SameCompleted ==
  ASSUME UNCHANGED partRows
  PROVE  NothingCompletes
BY DEF NothingCompletes, Completed

\* Saving its row with a status completes the part of a run at most, and only
\* with the status success; the rows of the parts to come stay as they are.
LEMMA SetRowCompletes ==
  ASSUME TypeInv, SnapInv, NEW r \in Runs, run[r].at \in InPart, NEW row \in PartRow,
         SetRow(r, row)
  PROVE  /\ \A p \in Parts : Completed(p)' =>
              Completed(p) \/ (p = run[r].part /\ row.harvest = "success")
         /\ row.harvest = MyRow(r).harvest => NothingCompletes
         /\ \A p \in Parts : p > manifest => partRows'[p] = partRows[p]
<1> DEFINE q == run[r].part  k == run[r].partRow
<1>1. q \in Parts /\ k \in DOMAIN partRows[q] /\ q <= manifest
  <2>1. q \in Parts /\ k \in DOMAIN partRows[q] /\ run[r].at \in InPart
    BY DEF TypeInv, RowsFit
  <2>2. q <= run[r].manifest /\ run[r].manifest <= manifest
    BY DEF SnapInv, Bounded
  <2>3. manifest \in Int /\ run[r].manifest \in Int /\ q \in Int
    BY <2>1 DEF TypeInv, RunShape, Parts
  <2> QED BY <2>1, <2>2, <2>3
<1>2. /\ partRows' = [partRows EXCEPT ![q] = [partRows[q] EXCEPT ![k] = row]]
      /\ partRows \in [Parts -> Seq(PartRow)]
  BY DEF SetRow, TypeInv, RowTables
<1>3. \A p \in Parts : p # q => partRows'[p] = partRows[p]
  BY <1>2
<1>4. /\ DOMAIN partRows'[q] = DOMAIN partRows[q] /\ partRows'[q][k] = row
      /\ \A j \in DOMAIN partRows[q] : j # k => partRows'[q][j] = partRows[q][j]
  BY <1>1, <1>2
<1>5. \A p \in Parts : p > manifest => p # q
  BY <1>1 DEF TypeInv, Parts
<1> QED BY <1>1, <1>3, <1>4, <1>5 DEF Completed, MyRow, NothingCompletes

\* A step that only moves the runs and takes or saves rows.
LEMMA QuietStep ==
  ASSUME TypeInv, SnapInv, OneRun, NEW r \in Runs, NothingCompletes,
         UNCHANGED <<manifest, home, index, unrequeued, ignored>>,
         \A p \in Parts : p > manifest => partRows'[p] = <<>>,
         Bounded(r)', KnowsCompleted(r)', Holds(r)', Accounted(r)'
  PROVE  SnapInv'
<1>1. \A w \in Works : Completed(home[w])' => Completed(home[w])
  BY DEF NothingCompletes, TypeInv
<1>2. CompletedIsIndexed'
  BY <1>1 DEF SnapInv, CompletedIsIndexed
<1>3. UpdatesAnnounced'
  BY <1>1 DEF SnapInv, UpdatesAnnounced, TypeInv
<1>4. Published'
  BY DEF SnapInv, Published
<1>5. \A s \in Runs : (Bounded(s) /\ KnowsCompleted(s) /\ Holds(s) /\ Accounted(s))'
  BY DEF OneRun
<1> QED BY <1>2, <1>3, <1>4, <1>5 DEF SnapInv

\* A run that has forgotten everything, or knows no more than its manifest.
LEMMA AwayStep ==
  ASSUME TypeInv, SnapInv, OneRun, NEW r \in Runs, NEW x \in RunShape,
         run' = [run EXCEPT ![r] = x], x.at \in {"idle", "manifest", "registered", "failed"},
         x.manifest <= manifest, x.at = "failed" => x.part <= x.manifest,
         x.todo = {}, x.batch = {}, NothingCompletes,
         UNCHANGED <<manifest, home, index, unrequeued, ignored>>,
         \A p \in Parts : p > manifest => partRows'[p] = <<>>
  PROVE  SnapInv'
<1>1. run'[r] = x
  BY DEF TypeInv
<1>2. Bounded(r)' /\ KnowsCompleted(r)' /\ Holds(r)' /\ Accounted(r)'
  BY <1>1 DEF Bounded, KnowsCompleted, Holds, Accounted, InPart
<1> QED BY <1>2, QuietStep

LEMMA InitSnap == Init => SnapInv
<1> SUFFICES ASSUME Init PROVE SnapInv
  OBVIOUS
<1>1. \A p \in Parts : ~Completed(p)
  BY DEF Init, Completed
<1>2. \A w \in Works : home[w] \in 1 .. FirstManifest /\ home[w] \in Parts
  BY ManifestAssumption DEF Init, Parts
<1>3. Published /\ CompletedIsIndexed /\ UpdatesAnnounced
  BY <1>1, <1>2, ManifestAssumption DEF Published, CompletedIsIndexed, UpdatesAnnounced, Init
<1>4. ASSUME NEW r \in Runs PROVE Bounded(r) /\ KnowsCompleted(r) /\ Holds(r) /\ Accounted(r)
  <2>1. run[r] = Idle
    BY DEF Init
  <2> QED BY <2>1, ManifestAssumption
    DEF Init, Idle, Bounded, KnowsCompleted, Holds, Accounted, InPart
<1> QED BY <1>3, <1>4 DEF SnapInv

\* What the invariants say of a run that works on a part.
LEMMA InPartFacts ==
  ASSUME TypeInv, SnapInv, NEW r \in Runs
  PROVE  /\ run[r] \in RunShape /\ run[r].manifest <= manifest /\ manifest \in Int
         /\ run[r].at \in InPart => run[r].part \in Parts /\ run[r].part <= run[r].manifest
         /\ KnowsCompleted(r) /\ Holds(r) /\ Accounted(r)
         /\ \A p \in Parts : p > manifest => partRows[p] = <<>>
BY DEF TypeInv, SnapInv, Published, Bounded, RowsFit, Parts

LEMMA PublishSnap ==
  ASSUME TypeInv, SnapInv, NEW moved \in SUBSET Works, Publish(moved)
  PROVE  SnapInv'
<1>1. manifest \in Nat /\ LastManifest \in Nat /\ manifest + 1 \in Parts
  BY ManifestAssumption DEF Publish, TypeInv, Parts
<1>2. \A p \in Parts : Completed(p)' <=> Completed(p)
  BY DEF Publish, Completed
<1>3. ~Completed(manifest + 1)
  BY <1>1 DEF SnapInv, Published, Completed
<1>4. \A w \in Works : Completed(home[w])' => home'[w] = home[w] /\ Completed(home[w])
  BY <1>1, <1>2, <1>3 DEF Publish, TypeInv
<1>5. Published'
  BY <1>1 DEF SnapInv, Published, Publish, TypeInv, Parts
<1>6. CompletedIsIndexed'
  BY <1>4 DEF SnapInv, CompletedIsIndexed, Publish
<1>7. UpdatesAnnounced'
  BY <1>4 DEF SnapInv, UpdatesAnnounced, Publish, TypeInv
<1>8. ASSUME NEW r \in Runs
      PROVE  (Bounded(r) /\ KnowsCompleted(r) /\ Holds(r) /\ Accounted(r))'
  <2>1. run' = run /\ run[r] \in RunShape
    BY DEF Publish, TypeInv
  <2>2. Bounded(r)'
    BY <1>1, <2>1 DEF SnapInv, Bounded, Publish, RunShape
  <2>3. KnowsCompleted(r)'
    <3>1. run[r].at \in {"download", "works", "requeue", "failing"} => run[r].part \in Parts
      BY InPartFacts DEF InPart
    <3> QED BY <1>2, <2>1, <3>1, InPartFacts DEF KnowsCompleted
  <2>4. Holds(r)'
    <3>1. ASSUME NEW w \in run[r].todo \cup run[r].batch
          PROVE  home'[w] = run[r].part \/ ~Completed(home[w])'
      <4>1. w \in Works /\ Holds(r)
        BY <2>1, InPartFacts DEF RunShape
      <4> QED BY <1>4, <4>1 DEF Holds
    <3> QED BY <2>1, <3>1, InPartFacts DEF Holds
  <2>5. Accounted(r)'
    <3>1. run[r].at \in {"works", "requeue"} => run[r].part < manifest + 1
      BY <1>1, InPartFacts DEF InPart, RunShape
    <3>2. \A w \in Works : home'[w] = home[w] \/ home'[w] = manifest + 1
      BY DEF Publish, TypeInv
    <3>3. \A w \in Works : run[r].at \in {"works", "requeue"} /\ home'[w] = run[r].part
                             => home[w] = run[r].part
      BY <1>1, <2>1, <3>1, <3>2 DEF RunShape
    <3> QED BY <2>1, <3>3, InPartFacts DEF Accounted, Publish
  <2> QED BY <2>2, <2>3, <2>4, <2>5
<1> QED BY <1>5, <1>6, <1>7, <1>8 DEF SnapInv

\* The steps between two parts, and those that end the run.
LEMMA AwaySnap ==
  ASSUME TypeInv, SnapInv, OneRun, NEW r \in Runs,
         \/ \E from \in FromDates : Start(r, from)
         \/ RegisterManifest(r) \/ FinishManifest(r) \/ FailManifest(r)
         \/ RolloverRaises(r) \/ Crash(r)
  PROVE  SnapInv'
<1>1. UNCHANGED <<manifest, home, index, unrequeued, ignored, partRows>>
  BY DEF Start, RegisterManifest, FinishManifest, FailManifest, RolloverRaises, Crash, outside
<1>2. NothingCompletes /\ \A p \in Parts : p > manifest => partRows'[p] = <<>>
  BY <1>1, SameCompleted, InPartFacts
<1>3. PICK x \in RunShape :
        /\ run' = [run EXCEPT ![r] = x] /\ x.at \in {"idle", "manifest", "registered"}
        /\ x.manifest <= manifest /\ x.todo = {} /\ x.batch = {}
  <2>0. manifest \in 0 .. LastManifest /\ 0 <= manifest /\ Idle \in RunShape
    BY IdleType, ManifestAssumption DEF TypeInv, Parts
  <2>1. CASE \E from \in FromDates : Start(r, from)
    <3> PICK from \in FromDates : Start(r, from)
      BY <2>1
    <3> DEFINE x == [Idle EXCEPT !.at = "manifest", !.manifest = manifest, !.from = from]
    <3>0. /\ x \in RunShape /\ x.at = "manifest" /\ x.manifest = manifest
          /\ x.todo = {} /\ x.batch = {}
      BY <2>0, RunAssumption DEF RunShape, Idle
    <3>1. x.manifest <= manifest
      BY <2>0, <3>0
    <3>2. run' = [run EXCEPT ![r] = x]
      BY DEF Start, Update
    <3> HIDE DEF x
    <3> QED BY <3>0, <3>1, <3>2
  <2>2. CASE RegisterManifest(r)
    <3>1. PICK k \in RowChoices(manifestRows[run[r].manifest]) :
            run' = [run EXCEPT ![r] = [run[r] EXCEPT !.at = "registered", !.manifestRow = k]]
      BY <2>2 DEF RegisterManifest, Update
    <3> DEFINE x == [run[r] EXCEPT !.at = "registered", !.manifestRow = k]
    <3>2. x = run'[r] /\ run'[r] \in RunShape
      BY <2>2, <3>1, RegisterManifestType DEF TypeInv
    <3>3. run[r].todo = {} /\ run[r].batch = {} /\ run[r] \in RunShape
          /\ run[r].manifest <= manifest
      BY <2>2, InPartFacts DEF RegisterManifest, Holds
    <3> QED BY <3>1, <3>2, <3>3 DEF RunShape
  <2>3. CASE FinishManifest(r) \/ FailManifest(r) \/ RolloverRaises(r) \/ Crash(r)
    <3>1. run' = [run EXCEPT ![r] = Idle]
      BY <2>3 DEF FinishManifest, FailManifest, RolloverRaises, Crash, Update
    <3> QED BY <2>0, <3>1 DEF Idle
  <2> QED BY <2>1, <2>2, <2>3
<1> QED BY <1>1, <1>2, <1>3, AwayStep

LEMMA ReadCompletedSnap ==
  ASSUME TypeInv, SnapInv, OneRun, NEW r \in Runs, ReadCompleted(r)
  PROVE  SnapInv'
<1>1. UNCHANGED <<manifest, home, index, unrequeued, ignored, partRows>>
  BY DEF ReadCompleted, outside
<1>2. NothingCompletes /\ \A p \in Parts : p > manifest => partRows'[p] = <<>>
  BY <1>1, SameCompleted, InPartFacts
<1>3. run[r] \in RunShape /\ run[r].at = "registered"
  BY InPartFacts DEF ReadCompleted
<1>4. run'[r] = [run[r] EXCEPT !.at = "parts", !.completed = {p \in Parts : Completed(p)}]
  BY DEF ReadCompleted, Update, TypeInv
<1>5. /\ run'[r].at = "parts" /\ run'[r].completed = {p \in Parts : Completed(p)}
      /\ run'[r].manifest = run[r].manifest
      /\ run'[r].todo = run[r].todo /\ run'[r].batch = run[r].batch
  BY <1>3, <1>4 DEF RunShape
<1>6. Bounded(r)' /\ Accounted(r)'
  BY <1>1, <1>5, InPartFacts DEF Bounded, Accounted, InPart
<1>7. KnowsCompleted(r)'
  BY <1>2, <1>5 DEF KnowsCompleted, NothingCompletes
<1>8. Holds(r)'
  BY <1>3, <1>5, InPartFacts DEF Holds
<1> QED BY <1>1, <1>2, <1>6, <1>7, <1>8, QuietStep

LEMMA TakePartSnap ==
  ASSUME TypeInv, SnapInv, OneRun, NEW r \in Runs, TakePart(r)
  PROVE  SnapInv'
<1>0. PICK q \in Parts : q = Min(Remaining(r))
  BY NextPart DEF TakePart
<1>1. /\ q \in Parts /\ q <= run[r].manifest /\ q \notin run[r].completed
      /\ run[r] \in RunShape /\ run[r].at = "parts"
  BY <1>0, NextPart, InPartFacts DEF TakePart
<1>2. PICK k \in RowChoices(partRows[q]) :
        /\ partRows' = [partRows EXCEPT ![q] = Saved(@, NewRow, k)]
        /\ Update(r, [run[r] EXCEPT !.at = "download", !.part = q, !.partRow = k,
                                    !.indexing = FALSE])
  BY <1>0 DEF TakePart
<1>3. UNCHANGED <<manifest, home, index, unrequeued, ignored>>
  BY DEF TakePart, outside
<1>4. q <= manifest /\ q \in 0 .. LastManifest /\ \A p \in Parts : p > manifest => p # q
  BY <1>1, InPartFacts DEF RunShape, Parts
<1> DEFINE saved == Saved(partRows[q], NewRow, k)
<1>5. /\ partRows[q] \in Seq(PartRow) /\ Len(partRows[q]) <= MaxRows /\ NewRow \in PartRow
  BY <1>1 DEF TypeInv, RowTables, PartRow, NewRow, HarvestStatus, IndexStatus
<1>6. /\ k \in DOMAIN saved /\ saved[k] = NewRow
      /\ \A j \in DOMAIN saved : j # k => j \in DOMAIN partRows[q] /\ saved[j] = partRows[q][j]
  BY <1>5, SavedRows
<1>7. partRows' = [partRows EXCEPT ![q] = saved] /\ partRows \in [Parts -> Seq(PartRow)]
  BY <1>2 DEF TypeInv, RowTables
<1> HIDE DEF saved
<1>8. partRows'[q] = saved /\ \A p \in Parts : p # q => partRows'[p] = partRows[p]
  BY <1>1, <1>7
<1>9. NothingCompletes
  BY <1>6, <1>8 DEF NothingCompletes, Completed, NewRow
<1>10. \A p \in Parts : p > manifest => partRows'[p] = <<>>
  BY <1>4, <1>8, InPartFacts
<1>11. run'[r] = [run[r] EXCEPT !.at = "download", !.part = q, !.partRow = k,
                                !.indexing = FALSE]
  BY <1>2 DEF Update, TypeInv
<1>12. /\ run'[r].at = "download" /\ run'[r].part = q
       /\ run'[r].completed = run[r].completed /\ run'[r].manifest = run[r].manifest
       /\ run'[r].todo = run[r].todo /\ run'[r].batch = run[r].batch
  BY <1>1, <1>11 DEF RunShape
<1>13. Bounded(r)' /\ Accounted(r)'
  BY <1>1, <1>3, <1>12, InPartFacts DEF Bounded, Accounted, InPart
<1>14. KnowsCompleted(r)'
  <2>1. \A p \in Parts : Completed(p)' => p \in run[r].completed
    BY <1>1, <1>9, InPartFacts DEF KnowsCompleted, NothingCompletes
  <2>2. ~Completed(q)'
    BY <1>1, <2>1
  <2>3. (~Completed(run[r].part))'
    BY <1>12, <2>2
  <2> QED BY <1>12, <2>1, <2>3 DEF KnowsCompleted
<1>15. Holds(r)'
  BY <1>1, <1>12, InPartFacts DEF Holds
<1> QED BY <1>3, <1>9, <1>10, <1>13, <1>14, <1>15, QuietStep

\* The first flush saves a row without completing the part.
LEMMA BeginIndexingSnap ==
  ASSUME TypeInv, SnapInv, OneRun, NEW r \in Runs, BeginIndexing(r)
  PROVE  SnapInv'
<1>1. /\ run[r] \in RunShape /\ run[r].at = "works" /\ run[r].at \in InPart
      /\ run[r].part \in Parts
  BY InPartFacts DEF BeginIndexing, InPart
<1>2. UNCHANGED <<manifest, home, index, unrequeued, ignored>>
  BY DEF BeginIndexing, outside
<1> DEFINE row == [MyRow(r) EXCEPT !.index = "in_progress"]
<1>3. row \in PartRow /\ row.harvest = MyRow(r).harvest /\ SetRow(r, row)
  BY <1>1, MyRowType DEF BeginIndexing, PartRow, IndexStatus
<1>4. NothingCompletes /\ \A p \in Parts : p > manifest => partRows'[p] = <<>>
  <2> HIDE DEF row
  <2> QED BY <1>1, <1>3, SetRowCompletes, InPartFacts
<1>5. run'[r] = [run[r] EXCEPT !.indexing = TRUE]
  BY DEF BeginIndexing, Update, TypeInv
<1>6. /\ run'[r].at = run[r].at /\ run'[r].part = run[r].part
      /\ run'[r].completed = run[r].completed /\ run'[r].manifest = run[r].manifest
      /\ run'[r].todo = run[r].todo /\ run'[r].batch = run[r].batch
  BY <1>1, <1>5 DEF RunShape
<1>7. Bounded(r)' /\ Accounted(r)'
  BY <1>2, <1>6, InPartFacts DEF Bounded, Accounted, SnapInv
<1>8. KnowsCompleted(r)' /\ Holds(r)'
  <2>1. (~Completed(run[r].part))'
    <3>1. PICK q \in Parts : q = run[r].part
      BY <1>1
    <3>2. ~Completed(q)'
      BY <1>1, <1>4, <3>1, InPartFacts DEF KnowsCompleted, NothingCompletes
    <3> QED BY <1>6, <3>1, <3>2
  <2>2. \A w \in Works : Completed(home[w])' => Completed(home[w])
    BY <1>2, <1>4 DEF NothingCompletes, TypeInv
  <2>3. Holds(r)'
    BY <1>1, <1>2, <1>6, <2>2, InPartFacts DEF Holds, RunShape
  <2> QED BY <1>1, <1>4, <1>6, <2>1, <2>3, InPartFacts DEF KnowsCompleted, NothingCompletes
<1> QED BY <1>2, <1>4, <1>7, <1>8, QuietStep

\* Ignoring works of a part excuses no more of a part that is completed.
LEMMA DownloadSnap ==
  ASSUME TypeInv, SnapInv, OneRun, NEW r \in Runs, NEW bad \in SUBSET Works, Download(r, bad)
  PROVE  SnapInv'
<1>1. PICK q \in Parts : q = run[r].part /\ ~Completed(q)
  BY InPartFacts DEF Download, InPart, KnowsCompleted
<1>2. run[r] \in RunShape /\ run[r].at = "download" /\ run[r].batch = {}
  BY InPartFacts DEF Download, Holds
<1>3. UNCHANGED <<manifest, home, index, unrequeued, partRows>> /\ ignored \subseteq ignored'
  BY DEF Download, outside
<1> DEFINE todo == {w \in Works : home[w] = q} \ bad
<1>4. run'[r] = [run[r] EXCEPT !.at = "works", !.todo = todo]
  BY <1>1 DEF Download, Update, TypeInv
<1>5. /\ run'[r].at = "works" /\ run'[r].part = q /\ run'[r].todo = todo
      /\ run'[r].completed = run[r].completed /\ run'[r].manifest = run[r].manifest
      /\ run'[r].batch = {}
  BY <1>1, <1>2, <1>4 DEF RunShape
<1>6. \A p \in Parts : Completed(p)' <=> Completed(p)
  BY <1>3 DEF Completed
<1>7. \A w \in Works : Completed(home[w])' <=> Completed(home[w])
  BY <1>3, <1>6 DEF TypeInv
<1>8. CompletedIsIndexed' /\ UpdatesAnnounced'
  BY <1>3, <1>7 DEF SnapInv, CompletedIsIndexed, UpdatesAnnounced, TypeInv
<1>9. Published'
  BY <1>3 DEF SnapInv, Published
<1>10. Bounded(r)'
  BY <1>1, <1>2, <1>3, <1>5, InPartFacts DEF Bounded, InPart
<1>11. KnowsCompleted(r)'
  <2>1. (~Completed(run[r].part))'
    BY <1>1, <1>5, <1>6
  <2> QED BY <1>2, <1>5, <1>6, <2>1, InPartFacts DEF KnowsCompleted
<1>12. Holds(r)'
  BY <1>3, <1>5 DEF Holds
<1>13. Accounted(r)'
  <2>1. \A w \in bad : <<w, q>> \in ignored'
    BY <1>1 DEF Download
  <2> QED BY <1>3, <1>5, <2>1 DEF Accounted
<1>14. \A s \in Runs : (Bounded(s) /\ KnowsCompleted(s) /\ Holds(s) /\ Accounted(s))'
  BY <1>10, <1>11, <1>12, <1>13 DEF OneRun
<1> QED BY <1>8, <1>9, <1>14 DEF SnapInv

\* The bulk request writes works of the part, which is not completed, and works
\* that moved to a later one, which is not either.
LEMMA BulkSnap ==
  ASSUME TypeInv, SnapInv, OneRun, NEW r \in Runs, NEW batch \in SUBSET Works,
         NEW written \in SUBSET Works, Bulk(r, batch) \/ BulkFails(r, batch, written)
  PROVE  SnapInv'
<1>1. PICK q \in Parts : q = run[r].part /\ ~Completed(q)
  BY InPartFacts DEF Bulk, BulkFails, NextBatch, InPart, KnowsCompleted
<1>2. /\ run[r] \in RunShape /\ run[r].at = "works" /\ run[r].batch = {}
      /\ batch \subseteq run[r].todo
  BY InPartFacts DEF Bulk, BulkFails, NextBatch, Holds
<1>3. PICK W \in SUBSET batch : WriteIndex(r, W) /\ (Bulk(r, batch) => W = batch)
  <2>1. CASE Bulk(r, batch)
    BY <2>1 DEF Bulk
  <2>2. CASE BulkFails(r, batch, written) /\ ~Bulk(r, batch)
    BY <2>2 DEF BulkFails
  <2> QED BY <2>1, <2>2
<1>4. UNCHANGED <<manifest, home, partRows>>
  BY DEF Bulk, BulkFails, outside
<1>5. /\ index' = [w \in Works |-> IF w \in W THEN q ELSE index[w]]
      /\ ignored' = ignored \ (W \X {q}) /\ unrequeued' = unrequeued \cup W
  BY <1>1, <1>3 DEF WriteIndex
<1>6. \A p \in Parts : Completed(p)' <=> Completed(p)
  BY <1>4 DEF Completed
<1>7. \A w \in Works : Completed(home[w])' <=> Completed(home[w])
  BY <1>4, <1>6 DEF TypeInv
<1>8. \A w \in W : ~Completed(home[w]) /\ w \in Works /\ w \in run[r].todo
  BY <1>1, <1>2, InPartFacts DEF Holds
<1>9. CompletedIsIndexed'
  BY <1>4, <1>5, <1>7, <1>8 DEF SnapInv, CompletedIsIndexed
<1>10. UpdatesAnnounced'
  BY <1>4, <1>5, <1>7, <1>8 DEF SnapInv, UpdatesAnnounced, TypeInv
<1>11. Published'
  BY <1>4 DEF SnapInv, Published
<1>12. \/ run'[r] = [run[r] EXCEPT !.at = "requeue", !.todo = @ \ batch, !.batch = batch]
          /\ W = batch
       \/ run'[r] = [run[r] EXCEPT !.at = "failing", !.todo = {}]
  BY <1>3 DEF Bulk, BulkFails, Update, TypeInv
<1>13. /\ run'[r].part = q /\ run'[r].completed = run[r].completed
       /\ run'[r].manifest = run[r].manifest
       /\ \/ /\ run'[r].at = "requeue" /\ W = batch
             /\ run'[r].todo = run[r].todo \ batch /\ run'[r].batch = batch
          \/ run'[r].at = "failing" /\ run'[r].todo = {} /\ run'[r].batch = {}
  BY <1>1, <1>2, <1>12 DEF RunShape
<1>14. Bounded(r)'
  BY <1>1, <1>2, <1>4, <1>13, InPartFacts DEF Bounded, InPart
<1>15. KnowsCompleted(r)'
  <2>1. (~Completed(run[r].part))'
    BY <1>1, <1>6, <1>13
  <2> QED BY <1>2, <1>6, <1>13, <2>1, InPartFacts DEF KnowsCompleted
<1>16. Holds(r)'
  <2>1. \A w \in run'[r].todo \cup run'[r].batch :
          w \in run[r].todo /\ w \in Works
    BY <1>2, <1>13 DEF RunShape
  <2>2. \A w \in run'[r].todo \cup run'[r].batch :
          home'[w] = run'[r].part \/ ~Completed(home[w])'
    BY <1>1, <1>4, <1>7, <1>13, <2>1, InPartFacts DEF Holds
  <2> QED BY <1>13, <2>2 DEF Holds
<1>17. Accounted(r)'
  <2>1. SUFFICES ASSUME run'[r].at = "requeue", NEW w \in Works, home'[w] = q
        PROVE  \/ <<w, q>> \in ignored'
               \/ /\ w \in run'[r].todo \/ index'[w] = q
                  /\ w \in unrequeued' => w \in run'[r].todo \cup run'[r].batch
    BY <1>13 DEF Accounted
  <2>2. Accounted(r) /\ home[w] = q
    BY <1>4, <2>1, InPartFacts
  <2> QED BY <1>1, <1>2, <1>5, <1>13, <2>1, <2>2 DEF Accounted, TypeInv
<1>18. \A s \in Runs : (Bounded(s) /\ KnowsCompleted(s) /\ Holds(s) /\ Accounted(s))'
  BY <1>14, <1>15, <1>16, <1>17 DEF OneRun
<1> QED BY <1>9, <1>10, <1>11, <1>18 DEF SnapInv

\* The requeue announces the batch; an error of it leaves the part incomplete.
LEMMA RequeueSnap ==
  ASSUME TypeInv, SnapInv, OneRun, NEW r \in Runs, Requeue(r) \/ StepFails(r)
  PROVE  SnapInv'
<1>1. PICK q \in Parts : q = run[r].part /\ ~Completed(q)
  BY InPartFacts DEF Requeue, StepFails, InPart, KnowsCompleted
<1>2. run[r] \in RunShape /\ run[r].at \in {"download", "requeue"}
  BY InPartFacts DEF Requeue, StepFails
<1>3. /\ UNCHANGED <<manifest, home, index, ignored, partRows>>
      /\ unrequeued' \subseteq unrequeued
      /\ Requeue(r) => unrequeued' = unrequeued \ run[r].batch
  BY DEF Requeue, StepFails, outside
<1>4. \A p \in Parts : Completed(p)' <=> Completed(p)
  BY <1>3 DEF Completed
<1>5. \A w \in Works : Completed(home[w])' <=> Completed(home[w])
  BY <1>3, <1>4 DEF TypeInv
<1>6. CompletedIsIndexed' /\ UpdatesAnnounced' /\ Published'
  BY <1>3, <1>5 DEF SnapInv, CompletedIsIndexed, UpdatesAnnounced, Published, TypeInv
<1>7. \/ Requeue(r) /\ run'[r] = [run[r] EXCEPT !.at = "works", !.batch = {}]
      \/ run'[r] = [run[r] EXCEPT !.at = "failing", !.todo = {}, !.batch = {}]
  BY DEF Requeue, StepFails, Update, TypeInv
<1>8. /\ run'[r].part = q /\ run'[r].completed = run[r].completed
      /\ run'[r].manifest = run[r].manifest /\ run'[r].batch = {}
      /\ \/ Requeue(r) /\ run'[r].at = "works" /\ run'[r].todo = run[r].todo
         \/ run'[r].at = "failing" /\ run'[r].todo = {}
  BY <1>1, <1>2, <1>7 DEF RunShape
<1>9. Bounded(r)'
  BY <1>1, <1>2, <1>3, <1>8, InPartFacts DEF Bounded, InPart
<1>10. KnowsCompleted(r)'
  <2>1. (~Completed(run[r].part))'
    BY <1>1, <1>4, <1>8
  <2> QED BY <1>2, <1>4, <1>8, <2>1, InPartFacts DEF KnowsCompleted
<1>11. Holds(r)'
  <2>1. \A w \in run'[r].todo : home'[w] = run'[r].part \/ ~Completed(home[w])'
    <3>1. \A w \in run'[r].todo : w \in run[r].todo /\ w \in Works
      BY <1>2, <1>8 DEF RunShape
    <3> QED BY <1>1, <1>3, <1>5, <1>8, <3>1, InPartFacts DEF Holds
  <2> QED BY <1>8, <2>1 DEF Holds
<1>12. Accounted(r)'
  BY <1>1, <1>2, <1>3, <1>8, InPartFacts DEF Accounted, Requeue
<1>13. \A s \in Runs : (Bounded(s) /\ KnowsCompleted(s) /\ Holds(s) /\ Accounted(s))'
  BY <1>9, <1>10, <1>11, <1>12 DEF OneRun
<1> QED BY <1>6, <1>13 DEF SnapInv

\* The part is completed when none of its works is left to write or announce.
LEMMA MarkPartSuccessSnap ==
  ASSUME TypeInv, SnapInv, OneRun, NEW r \in Runs, MarkPartSuccess(r)
  PROVE  SnapInv'
<1>1. PICK q \in Parts : q = run[r].part /\ q <= run[r].manifest
  BY InPartFacts DEF MarkPartSuccess, InPart
<1>2. /\ run[r] \in RunShape /\ run[r].at = "works" /\ run[r].at \in InPart
      /\ run[r].todo = {} /\ run[r].batch = {}
  BY InPartFacts DEF MarkPartSuccess, InPart, Holds
<1>3. UNCHANGED <<manifest, home, index, unrequeued, ignored>>
  BY DEF MarkPartSuccess, outside
<1> DEFINE row == [MyRow(r) EXCEPT !.harvest = "success"]
<1>4. row \in PartRow /\ SetRow(r, row)
  BY <1>2, MyRowType DEF MarkPartSuccess, PartRow, HarvestStatus
<1>5. /\ \A p \in Parts : Completed(p)' => Completed(p) \/ p = q
      /\ \A p \in Parts : p > manifest => partRows'[p] = <<>>
  <2> HIDE DEF row
  <2> QED BY <1>1, <1>2, <1>4, SetRowCompletes, InPartFacts
<1>6. \A w \in Works : Completed(home[w])' => Completed(home[w]) \/ home[w] = q
  BY <1>3, <1>5 DEF TypeInv
<1>7. \A w \in Works : home[w] = q =>
        <<w, q>> \in ignored \/ (index[w] = q /\ w \notin unrequeued)
  BY <1>1, <1>2, InPartFacts DEF Accounted
<1>8. CompletedIsIndexed'
  BY <1>3, <1>6, <1>7 DEF SnapInv, CompletedIsIndexed
<1>9. UpdatesAnnounced'
  BY <1>3, <1>6, <1>7 DEF SnapInv, UpdatesAnnounced, TypeInv
<1>10. Published'
  BY <1>3, <1>5 DEF SnapInv, Published
<1>11. run'[r] = [run[r] EXCEPT !.at = "succeeded"]
  BY DEF MarkPartSuccess, Update, TypeInv
<1>12. /\ run'[r].at = "succeeded" /\ run'[r].part = q
       /\ run'[r].completed = run[r].completed /\ run'[r].manifest = run[r].manifest
       /\ run'[r].todo = {} /\ run'[r].batch = {}
  BY <1>1, <1>2, <1>11 DEF RunShape
<1>13. Bounded(r)' /\ Holds(r)' /\ Accounted(r)'
  BY <1>1, <1>3, <1>12, InPartFacts DEF Bounded, Holds, Accounted
<1>14. KnowsCompleted(r)'
  BY <1>2, <1>5, <1>12, InPartFacts DEF KnowsCompleted
<1>15. \A s \in Runs : (Bounded(s) /\ KnowsCompleted(s) /\ Holds(s) /\ Accounted(s))'
  BY <1>13, <1>14 DEF OneRun
<1> QED BY <1>8, <1>9, <1>10, <1>15 DEF SnapInv

LEMMA MarkIndexedSnap ==
  ASSUME TypeInv, SnapInv, OneRun, NEW r \in Runs, MarkIndexed(r)
  PROVE  SnapInv'
<1>1. /\ run[r] \in RunShape /\ run[r].at = "succeeded" /\ run[r].at \in InPart
      /\ run[r].part \in Parts
  BY InPartFacts DEF MarkIndexed, InPart
<1>2. UNCHANGED <<manifest, home, index, unrequeued, ignored>>
  BY DEF MarkIndexed, outside
<1> DEFINE row == [MyRow(r) EXCEPT !.index = "success"]
<1>3. row \in PartRow /\ row.harvest = MyRow(r).harvest /\ SetRow(r, row)
  BY <1>1, MyRowType DEF MarkIndexed, PartRow, IndexStatus
<1>4. NothingCompletes /\ \A p \in Parts : p > manifest => partRows'[p] = <<>>
  <2> HIDE DEF row
  <2> QED BY <1>1, <1>3, SetRowCompletes, InPartFacts
<1>5. run'[r] = [run[r] EXCEPT !.at = "parts", !.completed = @ \cup {run[r].part}]
  BY DEF MarkIndexed, Update, TypeInv
<1>6. /\ run'[r].at = "parts" /\ run'[r].completed = run[r].completed \cup {run[r].part}
      /\ run'[r].manifest = run[r].manifest
      /\ run'[r].todo = run[r].todo /\ run'[r].batch = run[r].batch
  BY <1>1, <1>5 DEF RunShape
<1>7. Bounded(r)' /\ Accounted(r)'
  BY <1>2, <1>6, InPartFacts DEF Bounded, Accounted, InPart
<1>8. KnowsCompleted(r)' /\ Holds(r)'
  BY <1>1, <1>4, <1>6, InPartFacts DEF KnowsCompleted, Holds, NothingCompletes
<1> QED BY <1>2, <1>4, <1>7, <1>8, QuietStep

LEMMA FailPartSnap ==
  ASSUME TypeInv, SnapInv, OneRun, NEW r \in Runs, FailPart(r)
  PROVE  SnapInv'
<1>1. /\ run[r] \in RunShape /\ run[r].at = "failing" /\ run[r].at \in InPart
      /\ run[r].manifest <= manifest /\ run[r].part <= run[r].manifest
      /\ run[r].todo = {} /\ run[r].batch = {}
  BY InPartFacts DEF FailPart, InPart, Holds
<1> DEFINE row == [harvest |-> "failed",
                   index |-> IF run[r].indexing THEN "failed" ELSE MyRow(r).index]
           x == [run[r] EXCEPT !.at = "failed"]
<1>2. row \in PartRow /\ row.harvest = "failed" /\ SetRow(r, row)
  BY <1>1, MyRowType DEF FailPart, PartRow, IndexStatus, HarvestStatus
<1>3. NothingCompletes /\ \A p \in Parts : p > manifest => partRows'[p] = <<>>
  <2> HIDE DEF row
  <2> QED BY <1>1, <1>2, SetRowCompletes, InPartFacts DEF NothingCompletes
<1>4. /\ x \in RunShape /\ x.at = "failed" /\ x.manifest = run[r].manifest
      /\ x.part = run[r].part /\ x.todo = {} /\ x.batch = {}
  BY <1>1 DEF RunShape
<1>5. run' = [run EXCEPT ![r] = x] /\ UNCHANGED <<manifest, home, index, unrequeued, ignored>>
  BY DEF FailPart, Update, outside
<1> HIDE DEF x
<1> QED BY <1>1, <1>3, <1>4, <1>5, AwayStep

LEMMA NextSnap ==
  TypeInv /\ SnapInv /\ OneRun /\ [Next]_vars => SnapInv'
<1> SUFFICES ASSUME TypeInv, SnapInv, OneRun, [Next]_vars PROVE SnapInv'
  OBVIOUS
<1>1. CASE Next
  <2>1. CASE \E moved \in SUBSET Works : Publish(moved)
    BY <2>1, PublishSnap
  <2>2. CASE \E r \in Runs, from \in FromDates : Start(r, from)
    BY <2>2, AwaySnap
  <2>3. ASSUME NEW r \in Runs, Advance(r) \/ Failure(r) \/ FailPart(r) \/ FailManifest(r)
                               \/ Crash(r)
        PROVE  SnapInv'
    <3>1. CASE RegisterManifest(r) \/ FinishManifest(r) \/ FailManifest(r)
               \/ RolloverRaises(r) \/ Crash(r)
      BY <3>1, AwaySnap
    <3>2. CASE ReadCompleted(r)
      BY <3>2, ReadCompletedSnap
    <3>3. CASE TakePart(r)
      BY <3>3, TakePartSnap
    <3>4. CASE BeginIndexing(r)
      BY <3>4, BeginIndexingSnap
    <3>5. CASE \E bad \in SUBSET Works : Download(r, bad)
      BY <3>5, DownloadSnap
    <3>6. CASE \E batch, written \in SUBSET Works : Bulk(r, batch) \/ BulkFails(r, batch, written)
      BY <3>6, BulkSnap
    <3>7. CASE Requeue(r) \/ StepFails(r)
      BY <3>7, RequeueSnap
    <3>8. CASE MarkPartSuccess(r) \/ MarkIndexed(r) \/ FailPart(r)
      BY <3>8, MarkPartSuccessSnap, MarkIndexedSnap, FailPartSnap
    <3>9. {} \in SUBSET Works
      OBVIOUS
    <3> QED BY <2>3, <3>1, <3>2, <3>3, <3>4, <3>5, <3>6, <3>7, <3>8, <3>9
         DEF Advance, Failure
  <2> QED BY <1>1, <2>1, <2>2, <2>3 DEF Next
<1>2. CASE UNCHANGED vars
  BY <1>2 DEF vars, SnapInv, Published, CompletedIsIndexed, UpdatesAnnounced, Bounded,
              KnowsCompleted, Holds, Accounted, Completed
<1> QED BY <1>1, <1>2

\* With one run at a time, a part is recorded as harvested only when each of its
\* works is in the index in its version: what process_part promises by setting
\* harvest_status last.
THEOREM CompletedPartsAreIndexed == ASSUME OneRun PROVE Spec => []CompletedIsIndexed
<1>1. TypeInv /\ SnapInv => CompletedIsIndexed
  BY DEF SnapInv
<1>2. TypeInv /\ SnapInv /\ [Next]_vars => TypeInv' /\ SnapInv'
  BY NextType, NextSnap
<1> QED BY <1>1, <1>2, InitType, InitSnap, PTL DEF Spec

\* And no update of a work of a completed part is lost to its ETL row: the batch
\* was requeued before the part was completed, whatever failed before.
THEOREM CompletedPartsAreRequeued == ASSUME OneRun PROVE Spec => []RequeuedOnceCompleted
<1>1. TypeInv /\ SnapInv => RequeuedOnceCompleted
  BY DEF SnapInv, UpdatesAnnounced, RequeuedOnceCompleted
<1>2. TypeInv /\ SnapInv /\ [Next]_vars => TypeInv' /\ SnapInv'
  BY NextType, NextSnap
<1> QED BY <1>1, <1>2, InitType, InitSnap, PTL DEF Spec

(***************************************************************************)
(* A manifest is completed with all its parts                              *)
(***************************************************************************)

\* The parts a run takes for completed are.
CompletedSound ==
  \A r \in Runs : /\ \A p \in run[r].completed : Completed(p)
                  /\ run[r].at = "succeeded" => Completed(run[r].part)

\* Only an incomplete row is taken.
LEMMA TakenRowIncomplete ==
  ASSUME NEW T, NEW rows \in Seq(T), NEW k \in RowChoices(rows), k \in DOMAIN rows
  PROVE  rows[k].harvest # "success"
BY DEF RowChoices, Incomplete

\* Saving its row never takes back the completion of a part, unless the row was the
\* one that completed it and its status changes.
LEMMA SetRowKeeps ==
  ASSUME TypeInv, NEW r \in Runs, run[r].at \in InPart, NEW row \in PartRow, SetRow(r, row)
  PROVE  /\ \A p \in Parts : /\ Completed(p)
                             /\ p = run[r].part => row.harvest \in {"success", MyRow(r).harvest}
                             => Completed(p)'
         /\ row.harvest = "success" => \A p \in Parts : p = run[r].part => Completed(p)'
<1> DEFINE q == run[r].part  k == run[r].partRow
<1>1. q \in Parts /\ k \in DOMAIN partRows[q]
  BY DEF TypeInv, RowsFit
<1>2. /\ partRows' = [partRows EXCEPT ![q] = [partRows[q] EXCEPT ![k] = row]]
      /\ partRows \in [Parts -> Seq(PartRow)]
  BY DEF SetRow, TypeInv, RowTables
<1>3. \A p \in Parts : p # q => partRows'[p] = partRows[p]
  BY <1>2
<1>4. /\ DOMAIN partRows'[q] = DOMAIN partRows[q] /\ partRows'[q][k] = row
      /\ \A j \in DOMAIN partRows[q] : j # k => partRows'[q][j] = partRows[q][j]
  BY <1>1, <1>2
<1> QED BY <1>1, <1>3, <1>4 DEF Completed, MyRow

LEMMA CompletedStays ==
  ASSUME TypeInv, SnapInv, [Next]_vars
  PROVE  \A p \in Parts : Completed(p) => Completed(p)'
<1>1. CASE UNCHANGED partRows
  BY <1>1 DEF Completed
<1>2. ASSUME NEW r \in Runs, TakePart(r)
      PROVE  \A p \in Parts : Completed(p) => Completed(p)'
  <2>1. PICK q \in Parts : q = Min(Remaining(r))
    BY <1>2, NextPart DEF TakePart
  <2>2. PICK k \in RowChoices(partRows[q]) :
          partRows' = [partRows EXCEPT ![q] = Saved(partRows[q], NewRow, k)]
    BY <1>2, <2>1 DEF TakePart
  <2> DEFINE saved == Saved(partRows[q], NewRow, k)
  <2>3. /\ partRows[q] \in Seq(PartRow) /\ Len(partRows[q]) <= MaxRows /\ NewRow \in PartRow
        /\ partRows \in [Parts -> Seq(PartRow)]
    BY DEF TypeInv, RowTables, PartRow, NewRow, HarvestStatus, IndexStatus
  <2>4. \A j \in DOMAIN partRows[q] : j # k => j \in DOMAIN saved /\ saved[j] = partRows[q][j]
    BY <2>3, SavedRows
  <2>5. k \in DOMAIN partRows[q] => partRows[q][k].harvest # "success"
    BY <2>3, TakenRowIncomplete
  <2> HIDE DEF saved
  <2>6. partRows'[q] = saved /\ \A p \in Parts : p # q => partRows'[p] = partRows[p]
    BY <2>2, <2>3 DEF saved
  <2> QED BY <2>4, <2>5, <2>6 DEF Completed
<1>3. ASSUME NEW r \in Runs, BeginIndexing(r) \/ MarkPartSuccess(r) \/ MarkIndexed(r)
      PROVE  \A p \in Parts : Completed(p) => Completed(p)'
  <2>1. run[r].at \in InPart
    BY <1>3 DEF BeginIndexing, MarkPartSuccess, MarkIndexed, InPart
  <2>2. PICK row \in PartRow :
          SetRow(r, row) /\ row.harvest \in {"success", MyRow(r).harvest}
    <3>1. MyRow(r) \in PartRow
      BY <2>1, MyRowType
    <3>2. /\ [MyRow(r) EXCEPT !.index = "in_progress"] \in PartRow
          /\ [MyRow(r) EXCEPT !.harvest = "success"] \in PartRow
          /\ [MyRow(r) EXCEPT !.index = "success"] \in PartRow
          /\ [MyRow(r) EXCEPT !.index = "in_progress"].harvest = MyRow(r).harvest
          /\ [MyRow(r) EXCEPT !.harvest = "success"].harvest = "success"
          /\ [MyRow(r) EXCEPT !.index = "success"].harvest = MyRow(r).harvest
      BY <3>1 DEF PartRow, HarvestStatus, IndexStatus
    <3> QED BY <1>3, <3>2 DEF BeginIndexing, MarkPartSuccess, MarkIndexed
  <2> QED BY <2>1, <2>2, SetRowKeeps
<1>4. ASSUME NEW r \in Runs, FailPart(r)
      PROVE  \A p \in Parts : Completed(p) => Completed(p)'
  <2>1. run[r].at \in InPart /\ run[r].at = "failing"
    BY <1>4 DEF FailPart, InPart
  <2>2. MyRow(r) \in PartRow
    BY <2>1, MyRowType
  <2>3. PICK row \in PartRow : SetRow(r, row)
    <3>1. [harvest |-> "failed",
           index |-> IF run[r].indexing THEN "failed" ELSE MyRow(r).index] \in PartRow
      BY <2>2 DEF PartRow, HarvestStatus, IndexStatus
    <3> QED BY <1>4, <3>1 DEF FailPart
  <2>4. ~Completed(run[r].part)
    BY <2>1, InPartFacts DEF KnowsCompleted
  <2> QED BY <2>1, <2>3, <2>4, SetRowKeeps
<1> QED BY <1>1, <1>2, <1>3, <1>4
  DEF Next, vars, outside, Publish, Start, Advance, Failure, RegisterManifest, ReadCompleted,
      FinishManifest, Download, Bulk, BulkFails, Requeue, StepFails, RolloverRaises,
      FailManifest, Crash

LEMMA NextSound == TypeInv /\ SnapInv /\ CompletedSound /\ [Next]_vars => CompletedSound'
<1> SUFFICES ASSUME TypeInv, SnapInv, CompletedSound, [Next]_vars, NEW s \in Runs
             PROVE  /\ \A p \in run'[s].completed : Completed(p)'
                    /\ run'[s].at = "succeeded" => Completed(run[s].part)'
  BY DEF CompletedSound
<1>1. \A p \in Parts : Completed(p) => Completed(p)'
  BY CompletedStays
<1>2. run[s] \in RunShape /\ run \in [Runs -> RunShape]
  BY DEF TypeInv
<1>3. \A p \in run[s].completed : Completed(p)'
  BY <1>1, <1>2 DEF CompletedSound, RunShape
<1>4. run[s].at = "succeeded" => \A p \in Parts : p = run[s].part => Completed(p)'
  BY <1>1, <1>2 DEF CompletedSound
<1>5. CASE run'[s] = run[s]
  <2>1. run[s].at = "succeeded" => run[s].part \in Parts
    BY InPartFacts DEF InPart
  <2> QED BY <1>3, <1>4, <1>5, <2>1
<1>6. CASE run'[s].completed \subseteq run[s].completed /\ run'[s].at # "succeeded"
  BY <1>3, <1>6
<1>7. CASE ReadCompleted(s)
  <2>1. partRows' = partRows /\ run'[s].completed = {p \in Parts : Completed(p)}
        /\ run'[s].at = "parts"
    BY <1>2, <1>7 DEF ReadCompleted, Update, RunShape
  <2> QED BY <1>1, <2>1
<1>8. CASE MarkIndexed(s)
  <2>1. /\ run'[s].completed = run[s].completed \cup {run[s].part} /\ run'[s].at = "parts"
        /\ run[s].at = "succeeded" /\ run[s].part \in Parts
    BY <1>2, <1>8, InPartFacts DEF MarkIndexed, Update, RunShape, InPart
  <2> QED BY <1>3, <1>4, <2>1
<1>9. CASE MarkPartSuccess(s)
  <2>1. /\ run'[s].completed = run[s].completed /\ run'[s].part = run[s].part
        /\ run[s].part \in Parts /\ run[s].at \in InPart
    BY <1>2, <1>9, InPartFacts DEF MarkPartSuccess, Update, RunShape, InPart
  <2> DEFINE row == [MyRow(s) EXCEPT !.harvest = "success"]
  <2>2. row \in PartRow /\ row.harvest = "success" /\ SetRow(s, row)
    BY <1>9, <2>1, MyRowType DEF MarkPartSuccess, PartRow, HarvestStatus
  <2> HIDE DEF row
  <2>3. \A p \in Parts : p = run[s].part => Completed(p)'
    BY <2>1, <2>2, SetRowKeeps
  <2> QED BY <1>3, <2>1, <2>3
<1>10. ASSUME ~ReadCompleted(s), ~MarkIndexed(s), ~MarkPartSuccess(s), run'[s] # run[s]
       PROVE  run'[s].completed \subseteq run[s].completed /\ run'[s].at # "succeeded"
  <2>1. \A r \in Runs : \A x : Update(r, x) /\ r # s => run'[s] = run[s]
    BY <1>2 DEF Update
  <2>2. \A x : Update(s, x) => run'[s] = x
    BY <1>2 DEF Update
  <2>3. Idle.completed = {} /\ Idle.at = "idle"
    BY DEF Idle
  <2>4. CASE \E from \in FromDates : Start(s, from)
    BY <2>2, <2>3, <2>4 DEF Start, Idle
  <2>5. CASE FinishManifest(s) \/ FailManifest(s) \/ RolloverRaises(s) \/ Crash(s)
    BY <2>2, <2>3, <2>5 DEF FinishManifest, FailManifest, RolloverRaises, Crash
  <2>6. CASE RegisterManifest(s) \/ TakePart(s)
    BY <1>2, <2>2, <2>6 DEF RegisterManifest, TakePart, RunShape
  <2>7. CASE \E bad \in SUBSET Works : Download(s, bad)
    BY <1>2, <2>2, <2>7 DEF Download, RunShape
  <2>8. CASE \E batch, written \in SUBSET Works : Bulk(s, batch) \/ BulkFails(s, batch, written)
    BY <1>2, <2>2, <2>8 DEF Bulk, BulkFails, RunShape
  <2>9. CASE Requeue(s) \/ StepFails(s) \/ FailPart(s)
    BY <1>2, <2>2, <2>9 DEF Requeue, StepFails, FailPart, RunShape
  <2>10. CASE BeginIndexing(s)
    BY <1>2, <2>2, <2>10 DEF BeginIndexing, RunShape
  <2>11. CASE (\E moved \in SUBSET Works : Publish(moved)) \/ UNCHANGED vars
    BY <1>10, <2>11 DEF Publish, vars
  <2>12. ASSUME NEW r \in Runs, r # s,
                \/ \E from \in FromDates : Start(r, from)
                \/ Advance(r) \/ Failure(r) \/ FailPart(r) \/ FailManifest(r) \/ Crash(r)
         PROVE  FALSE
    BY <1>10, <2>1, <2>12
    DEF Start, Advance, Failure, RegisterManifest, ReadCompleted, TakePart, FinishManifest,
        Download, BeginIndexing, Bulk, BulkFails, Requeue, StepFails, MarkPartSuccess,
        RolloverRaises, MarkIndexed, FailPart, FailManifest, Crash
  <2>13. {} \in SUBSET Works
    OBVIOUS
  <2> DEFINE Goal == run'[s].completed \subseteq run[s].completed /\ run'[s].at # "succeeded"
  <2>14. (\E from \in FromDates : Start(s, from)) \/ Crash(s) \/ FailPart(s) \/ FailManifest(s)
           => Goal
    BY <2>4, <2>5, <2>9
  <2>15. Advance(s) \/ Failure(s) => Goal
    BY <1>10, <2>5, <2>6, <2>7, <2>8, <2>9, <2>10, <2>13 DEF Advance, Failure
  <2> HIDE DEF Goal
  <2>16. CASE Next
    <3>1. CASE \E moved \in SUBSET Works : Publish(moved)
      BY <2>11, <3>1 DEF Goal
    <3>2. CASE ~\E moved \in SUBSET Works : Publish(moved)
      <4>1. PICK r \in Runs : \/ \E from \in FromDates : Start(r, from)
                             \/ Advance(r) \/ Failure(r) \/ FailPart(r)
                             \/ FailManifest(r) \/ Crash(r)
        BY <2>16, <3>2 DEF Next
      <4>2. CASE r = s
        BY <2>14, <2>15, <4>1, <4>2 DEF Goal
      <4>3. CASE r # s
        BY <2>12, <4>1, <4>3
      <4> QED BY <4>2, <4>3
    <3> QED BY <3>1, <3>2
  <2> QED BY <2>11, <2>16 DEF Goal
<1> QED BY <1>5, <1>6, <1>7, <1>8, <1>9, <1>10

\* Only a run that has found its loop at its end completes a manifest.
LEMMA ManifestCompletes ==
  ASSUME TypeInv, [Next]_vars, NEW m \in Parts, ~ManifestDone(m), ManifestDone(m)'
  PROVE  \E r \in Runs : /\ FinishManifest(r) /\ run[r].manifest = m
                         /\ run[r].from .. m \subseteq run[r].completed
<1>1. manifestRows' # manifestRows
  BY DEF ManifestDone
<1>2. \A n \in Parts : manifestRows[n] \in Seq(ManifestRow) /\ manifestRows \in [Parts -> Seq(ManifestRow)]
  BY DEF TypeInv, RowTables
<1>3. ASSUME NEW r \in Runs, RegisterManifest(r) PROVE FALSE
  <2>1. PICK n \in Parts : n = run[r].manifest
    BY <1>3 DEF TypeInv, RowsFit, RegisterManifest
  <2> DEFINE new == [harvest |-> "in_progress"]
  <2>2. PICK k \in RowChoices(manifestRows[n]) :
          manifestRows' = [manifestRows EXCEPT ![n] = Saved(manifestRows[n], new, k)]
    BY <1>3, <2>1 DEF RegisterManifest
  <2> DEFINE saved == Saved(manifestRows[n], new, k)
  <2>3. new \in ManifestRow /\ Len(manifestRows[n]) <= MaxRows
    BY DEF TypeInv, RowTables, ManifestRow, HarvestStatus
  <2>4. /\ saved[k].harvest = "in_progress"
        /\ \A j \in DOMAIN saved :
             j # k => j \in DOMAIN manifestRows[n] /\ saved[j] = manifestRows[n][j]
    BY <1>2, <2>3, SavedRows
  <2> HIDE DEF saved
  <2>5. manifestRows'[n] = saved /\ \A l \in Parts : l # n => manifestRows'[l] = manifestRows[l]
    BY <1>2, <2>2 DEF saved
  <2> QED BY <2>4, <2>5 DEF ManifestDone
<1>4. ASSUME NEW r \in Runs, FailManifest(r) PROVE FALSE
  <2> DEFINE n == run[r].manifest  k == run[r].manifestRow
  <2>1. n \in Parts /\ k \in DOMAIN manifestRows[n]
    BY <1>4 DEF TypeInv, RowsFit, FailManifest
  <2>2. manifestRows[n][k] \in ManifestRow
    BY <1>2, <2>1
  <2>3. manifestRows' = [manifestRows EXCEPT ![n] =
          [manifestRows[n] EXCEPT ![k] = [manifestRows[n][k] EXCEPT !.harvest = "failed"]]]
    BY <1>4 DEF FailManifest
  <2>4. [manifestRows[n][k] EXCEPT !.harvest = "failed"].harvest = "failed"
    BY <2>2 DEF ManifestRow
  <2>5. /\ \A l \in Parts : l # n => manifestRows'[l] = manifestRows[l]
        /\ DOMAIN manifestRows'[n] = DOMAIN manifestRows[n]
        /\ manifestRows'[n][k].harvest = "failed"
        /\ \A j \in DOMAIN manifestRows[n] : j # k => manifestRows'[n][j] = manifestRows[n][j]
    BY <1>2, <2>1, <2>3, <2>4
  <2> QED BY <2>5 DEF ManifestDone
<1>5. PICK r \in Runs : FinishManifest(r)
  BY <1>1, <1>3, <1>4
  DEF Next, vars, outside, Publish, Start, Advance, Failure, ReadCompleted, TakePart,
      Download, BeginIndexing, Bulk, BulkFails, Requeue, StepFails, MarkPartSuccess,
      MarkIndexed, RolloverRaises, FailPart, Crash
<1>6. run[r].from .. run[r].manifest \subseteq run[r].completed
  BY <1>1, <1>5 DEF FinishManifest
<1>7. run[r].manifest = m
  <2>1. manifestRows' = [manifestRows EXCEPT ![run[r].manifest][run[r].manifestRow].harvest = "success"]
    BY <1>1, <1>5 DEF FinishManifest
  <2>2. run[r].manifest # m => manifestRows'[m] = manifestRows[m]
    BY <1>2, <2>1
  <2> QED BY <2>2 DEF ManifestDone
<1> QED BY <1>5, <1>6, <1>7

\* With one run at a time, a manifest becomes harvested only by a run that goes
\* through it when all the parts from its from_updated_date on are: what
\* process_manifest_parts promises.
THEOREM ManifestsAreComplete == ASSUME OneRun PROVE Spec => ManifestOnlyWhenComplete
<1> DEFINE Done == \A m \in Parts : ~ManifestDone(m) /\ ManifestDone(m)' =>
                     \E r \in Runs : /\ run[r].manifest = m
                                     /\ \A p \in run[r].from .. m : Completed(p)
<1>1. Init => CompletedSound
  BY DEF Init, CompletedSound, Idle
<1>2. TypeInv /\ SnapInv /\ CompletedSound /\ [Next]_vars => [Done]_vars
  BY ManifestCompletes DEF CompletedSound
<1>3. TypeInv /\ SnapInv /\ [Next]_vars => TypeInv' /\ SnapInv'
  BY NextType, NextSnap
<1> HIDE DEF Done
<1>4. Spec => [][Done]_vars
  BY <1>1, <1>2, <1>3, InitType, InitSnap, NextSound, PTL DEF Spec
<1> QED BY <1>4 DEF ManifestOnlyWhenComplete, Done
=============================================================================

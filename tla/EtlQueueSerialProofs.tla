------------------------- MODULE EtlQueueSerialProofs -------------------------
(***************************************************************************)
(* Theorems about runs of the ETL queue that do not overlap: no enqueue is *)
(* lost, and the queue implements SilverPromise.  The last part is about   *)
(* the queue together with the OpenAlex harvest (SilverMerge).             *)
(***************************************************************************)
EXTENDS EtlQueueProofs, SilverMerge

\* One run at a time, and no backfill declares rows merged.
Serial ==
  /\ \A v, w \in Workers : v = w
  /\ InitialStatuses = {"pending"}

\* Nobody asks for a version that does not exist yet.
AskedExists ==
  /\ \A i \in Items : row[i].hash <= bronze[i]
  /\ \A p \in Producers : job[p] # NoJob =>
       job[p].hash <= bronze[job[p].item] /\ job[p].initial = "pending"

\* The sets of a worker: it marks an item once, unless its group fails.
SetsShape ==
  \A w \in Workers :
    /\ pc[w] = "idle" =>
         todo[w] = {} /\ group[w] = {} /\ left[w] = {} /\ assigned[w] = {}
    /\ pc[w] = "batch" => left[w] = {}
    /\ left[w] \subseteq group[w]
    /\ todo[w] \cap group[w] = {} /\ todo[w] \cap assigned[w] = {}
    /\ pc[w] = "loaded" => assigned[w] \cap group[w] = {}
    /\ pc[w] = "marking" => assigned[w] \cap left[w] = {}

\* The items whose success a worker may still report.
Reportable(w) ==
  CASE pc[w] = "loaded" -> group[w]
    [] pc[w] = "marking" -> left[w]
    [] OTHER -> {}

\* A row that nobody requeued asks for no more than its worker loaded, and
\* what was loaded is in the index once the pipeline has ended.
LoadedCovers ==
  \A w \in Workers : \A i \in Reportable(w) :
    /\ row[i].status # "pending" => row[i].hash <= loaded[w][i]
    /\ pc[w] = "marking" /\ i \notin NoYear \cup Malformed => loaded[w][i] <= silver[i]

\* The index shows nothing later than the source, and a worker writes nothing
\* earlier than what the index shows.
IndexFollows ==
  /\ \A i \in Items : silver[i] <= bronze[i]
  /\ \A w \in Workers : pc[w] = "loaded" => \A i \in Items :
       loaded[w][i] > 0 => silver[i] <= loaded[w][i] /\ loaded[w][i] <= bronze[i]

FreshInv == 
  TypeOK /\ AskedExists /\ SetsShape /\ LoadedCovers /\ IndexFollows /\ SuccessIsFresh

LEMMA NatFacts ==
  ASSUME TypeOK
  PROVE  /\ \A i \in Items : bronze[i] \in Nat /\ silver[i] \in Nat /\ row[i].hash \in Nat
         /\ \A w \in Workers, i \in Items : loaded[w][i] \in Nat
         /\ \A p \in Producers : job[p] # NoJob =>
              job[p].hash \in Nat /\ job[p].item \in Items
<1>1. Versions \subseteq Nat
  BY VersionsNat
<1> QED BY <1>1 DEF TypeOK, Row, Job

LEMMA InitFresh == Init => FreshInv
<1> SUFFICES ASSUME Init PROVE FreshInv
  OBVIOUS
<1>1. \A i \in Items : row[i].hash = 0 /\ row[i].status = "absent" /\ bronze[i] = 0
  BY DEF Init, NoRow
<1>2. AskedExists /\ SuccessIsFresh
  BY <1>1 DEF Init, AskedExists, SuccessIsFresh, Settled, WithStatus
<1>3. SetsShape /\ LoadedCovers /\ IndexFollows
  BY DEF Init, SetsShape, LoadedCovers, Reportable, IndexFollows
<1> QED BY <1>2, <1>3, InitType DEF FreshInv

\* Steps of producers, administrators and the clock: they leave a row alone or
\* make it wait.
LEMMA OutsideFresh ==
  ASSUME FreshInv, TypeOK', UNCHANGED silver, UNCHANGED worker,
         \A i \in Items : bronze[i] <= bronze'[i],
         \A i \in Items : row'[i] = row[i] \/
                          (row'[i].status = "pending" /\ row'[i].hash <= bronze'[i]),
         \A p \in Producers : job'[p] # NoJob =>
           job'[p].hash <= bronze'[job'[p].item] /\ job'[p].initial = "pending"
  PROVE  FreshInv'
<1>1. /\ \A i \in Items : bronze[i] \in Nat /\ silver[i] \in Nat /\ row[i].hash \in Nat
      /\ \A i \in Items : bronze'[i] \in Nat /\ row'[i].hash \in Nat
      /\ \A w \in Workers, i \in Items : loaded[w][i] \in Nat
      /\ \A w \in Workers : group[w] \subseteq Items /\ left[w] \subseteq Items
  BY NatFacts, VersionsNat DEF FreshInv, TypeOK, Row
<1>2. UNCHANGED <<pc, todo, group, loaded, found, left, assigned>>
  BY DEF worker
<1>3. AskedExists'
  BY <1>1 DEF FreshInv, AskedExists
<1>4. SetsShape'
  BY <1>2 DEF FreshInv, SetsShape
<1>5. LoadedCovers'
  <2>1. \A w \in Workers : Reportable(w)' = Reportable(w) /\ Reportable(w) \subseteq Items
    BY <1>1, <1>2 DEF Reportable
  <2> QED BY <1>2, <2>1 DEF FreshInv, LoadedCovers
<1>6. IndexFollows'
  BY <1>1, <1>2 DEF FreshInv, IndexFollows
<1>7. SuccessIsFresh'
  BY DEF FreshInv, SuccessIsFresh, Settled, WithStatus
<1> QED BY <1>3, <1>4, <1>5, <1>6, <1>7 DEF FreshInv

LEMMA EnqueueFresh ==
  ASSUME FreshInv, NEW p \in Producers, Enqueue(p)
  PROVE  FreshInv'
<1>1. /\ TypeOK' /\ UNCHANGED <<bronze, silver>> /\ UNCHANGED worker
      /\ job[p] # NoJob
  BY EnqueueType DEF FreshInv, Enqueue, LookupRow, SaveRow
<1>2. /\ job \in [Producers -> Job \cup {NoJob}] /\ row \in [Items -> Row]
      /\ job[p] \in Job /\ job[p].item \in Items
      /\ job[p].initial = "pending" /\ job[p].hash <= bronze[job[p].item]
  BY <1>1 DEF FreshInv, TypeOK, Job, AskedExists
<1>3. /\ EnqueuedRow(job[p]).status = "pending"
      /\ EnqueuedRow(job[p]).hash = job[p].hash
      /\ [EnqueuedRow(job[p]) EXCEPT !.hash = row[job[p].item].hash].status = "pending"
      /\ [EnqueuedRow(job[p]) EXCEPT !.hash = row[job[p].item].hash].hash
           = row[job[p].item].hash
  BY <1>2 DEF EnqueuedRow
<1>4. \A i \in Items : row'[i] = row[i] \/
                       (row'[i].status = "pending" /\ row'[i].hash <= bronze'[i])
  <2>1. \/ row' = row
        \/ row' = [row EXCEPT ![job[p].item] = EnqueuedRow(job[p])]
        \/ row' = [row EXCEPT ![job[p].item] =
                     [EnqueuedRow(job[p]) EXCEPT !.hash = row[job[p].item].hash]]
    BY DEF Enqueue, LookupRow, SaveRow
  <2>2. row[job[p].item].hash <= bronze[job[p].item]
    BY <1>2 DEF FreshInv, AskedExists
  <2> QED BY <1>1, <1>2, <1>3, <2>1, <2>2
<1>5. \A q \in Producers : job'[q] # NoJob =>
        job'[q].hash <= bronze'[job'[q].item] /\ job'[q].initial = "pending"
  <2>1. \/ job' = job
        \/ job' = [job EXCEPT ![p] = NoJob]
        \/ job' = [job EXCEPT ![p] = [job[p] EXCEPT !.found = "same"]]
        \/ job' = [job EXCEPT ![p] = [job[p] EXCEPT !.found = "changed"]]
    BY DEF Enqueue, LookupRow, SaveRow
  <2>2. \A f : /\ [job[p] EXCEPT !.found = f].hash = job[p].hash
               /\ [job[p] EXCEPT !.found = f].item = job[p].item
               /\ [job[p] EXCEPT !.found = f].initial = job[p].initial
    BY <1>2, SMT DEF Job
  <2>3. \A q \in Producers : job[q] # NoJob =>
          job[q].hash <= bronze[job[q].item] /\ job[q].initial = "pending"
    BY DEF FreshInv, AskedExists
  <2>4. ASSUME NEW q \in Producers, job'[q] # NoJob
        PROVE  /\ job[q] # NoJob /\ job'[q].hash = job[q].hash
               /\ job'[q].item = job[q].item /\ job'[q].initial = job[q].initial
    <3>1. CASE q # p
      BY <1>2, <2>1, <2>4, <3>1
    <3>2. CASE q = p
      <4>1. \/ job'[p] = job[p] \/ job'[p] = NoJob
            \/ job'[p] = [job[p] EXCEPT !.found = "same"]
            \/ job'[p] = [job[p] EXCEPT !.found = "changed"]
        BY <1>2, <2>1
      <4> QED BY <1>1, <2>2, <2>4, <3>2, <4>1
    <3> QED BY <3>1, <3>2
  <2> QED BY <1>1, <2>3, <2>4
<1>6. \A i \in Items : bronze[i] <= bronze'[i]
  BY <1>1, NatFacts DEF FreshInv
<1> QED BY <1>1, <1>4, <1>5, <1>6, OutsideFresh

LEMMA EnvironmentFresh ==
  ASSUME FreshInv, InitialStatuses = {"pending"}, Environment
  PROVE  FreshInv'
<1>1. /\ TypeOK' /\ UNCHANGED silver /\ UNCHANGED worker
  <2>1. TypeOK'
    BY StartEnqueueType, ReopenType, AdminType DEF Environment, FreshInv
  <2> QED BY <2>1 DEF Environment, StartEnqueue, RequeueForOpenAlex, ResetToPending,
       RetryFailedByType, ToggleConfig, indices
<1>2. /\ \A i \in Items : row[i] \in Row /\ row[i].hash <= bronze[i]
      /\ \A i \in Items : bronze[i] \in Nat
      /\ \A p \in Producers : job[p] # NoJob =>
           job[p].hash <= bronze[job[p].item] /\ job[p].initial = "pending"
  BY NatFacts DEF FreshInv, TypeOK, AskedExists
<1>3. ASSUME UNCHANGED <<bronze, job>>,
             \A i \in Items : \/ row'[i] = row[i]
                              \/ row'[i] = [row[i] EXCEPT !.status = "pending"]
                              \/ row'[i] = [row[i] EXCEPT !.status = "pending", !.result = ""]
      PROVE  FreshInv'
  <2>1. \A i \in Items :
          /\ [row[i] EXCEPT !.status = "pending"].status = "pending"
          /\ [row[i] EXCEPT !.status = "pending"].hash = row[i].hash
          /\ [row[i] EXCEPT !.status = "pending", !.result = ""].status = "pending"
          /\ [row[i] EXCEPT !.status = "pending", !.result = ""].hash = row[i].hash
    BY <1>2, SMT DEF Row
  <2>2. \A i \in Items : row'[i] = row[i] \/
                         (row'[i].status = "pending" /\ row'[i].hash <= bronze'[i])
    BY <1>2, <1>3, <2>1
  <2>3. \A i \in Items : bronze[i] <= bronze'[i]
    <3>1. bronze' = bronze
      BY <1>3
    <3>2. \A i \in Items : bronze[i] <= bronze[i]
      BY NatFacts DEF FreshInv
    <3> QED BY <3>1, <3>2
  <2> QED BY <1>1, <1>2, <1>3, <2>2, <2>3, OutsideFresh
<1>4. ASSUME NEW S \in SUBSET Items, RequeueForOpenAlex(S) \/ ResetToPending(S)
      PROVE  FreshInv'
  BY <1>3, <1>4 DEF RequeueForOpenAlex, ResetToPending, indices
<1>5. ASSUME NEW t \in Types, RetryFailedByType(t) \/ ToggleConfig(t)
      PROVE  FreshInv'
  BY <1>3, <1>5 DEF RetryFailedByType, ToggleConfig, tables, indices
<1>6. ASSUME NEW p \in Producers, NEW i \in Items, NEW changed \in BOOLEAN,
             StartEnqueue(p, i, changed, "pending")
      PROVE  FreshInv'
  <2>1. bronze' = bronze \/ bronze' = [bronze EXCEPT ![i] = bronze[i] + 1]
    BY <1>6 DEF StartEnqueue
  <2>2. \A j \in Items : bronze[j] <= bronze'[j]
    <3>1. bronze \in [Items -> Versions]
      BY DEF FreshInv, TypeOK
    <3>2. \A j \in Items : bronze'[j] \in {bronze[j], bronze[j] + 1}
      BY <2>1, <3>1
    <3> QED BY <1>2, <3>2
  <2>3. job' = job \/ job' = [job EXCEPT ![p] = [item |-> i, hash |-> bronze'[i],
                                                initial |-> "pending", found |-> "no"]]
    BY <1>6 DEF StartEnqueue
  <2>4. \A j \in Items : bronze'[j] \in Nat
    BY <1>1, VersionsNat DEF TypeOK
  <2>5. \A q \in Producers : job[q] # NoJob => job[q].hash \in Nat /\ job[q].item \in Items
    BY NatFacts DEF FreshInv
  <2>6. \A q \in Producers : job'[q] # NoJob =>
          job'[q].hash <= bronze'[job'[q].item] /\ job'[q].initial = "pending"
    <3> SUFFICES ASSUME NEW q \in Producers, job'[q] # NoJob
                 PROVE  job'[q].hash <= bronze'[job'[q].item] /\ job'[q].initial = "pending"
      OBVIOUS
    <3>1. CASE job'[q] = job[q]
      BY <1>2, <2>2, <2>4, <2>5, <3>1
    <3>2. CASE job'[q] = [item |-> i, hash |-> bronze'[i],
                          initial |-> "pending", found |-> "no"]
      BY <2>4, <3>2
    <3> QED BY <2>3, <3>1, <3>2 DEF FreshInv, TypeOK
  <2>7. UNCHANGED row
    BY <1>6 DEF StartEnqueue
  <2> QED BY <1>1, <2>2, <2>6, <2>7, OutsideFresh
<1> QED BY <1>4, <1>5, <1>6 DEF Environment

LEMMA ClaimFresh ==
  ASSUME FreshInv, \A u, v \in Workers : u = v,
         NEW w \in Workers, NEW statuses, NEW types, ClaimBatch(w, statuses, types)
  PROVE  FreshInv'
<1>1. /\ TypeOK'
      /\ pc[w] = "idle" /\ group[w] = {} /\ left[w] = {} /\ assigned[w] = {}
      /\ UNCHANGED <<bronze, silver, job, group, loaded, left, assigned>>
  <2>1. TypeOK'
    BY ClaimBatchType DEF FreshInv
  <2> QED BY <2>1 DEF FreshInv, SetsShape, ClaimBatch, indices
<1>2. PICK claimed \in SUBSET Items :
        /\ todo' = [todo EXCEPT ![w] = claimed]
        /\ pc' = [pc EXCEPT ![w] = IF claimed = {} THEN "idle" ELSE "batch"]
        /\ \A i \in Items :
             \/ row'[i] = AfterTimeouts[i]
             \/ row'[i] = [AfterTimeouts[i] EXCEPT !.status = "processing"]
             \/ row'[i] = [AfterTimeouts[i] EXCEPT !.status = "skipped", !.result = "skipped"]
  BY DEF ClaimBatch
<1>3. /\ todo'[w] = claimed
      /\ pc'[w] = IF claimed = {} THEN "idle" ELSE "batch"
  BY <1>2 DEF FreshInv, TypeOK
<1>4. \A i \in Items :
        /\ row'[i].hash = row[i].hash
        /\ row'[i].status = "success" => row'[i] = row[i]
  <2>1. AfterTimeouts \in [Items -> Row] /\ row \in [Items -> Row]
    BY AfterTimeoutsType DEF FreshInv, TypeOK
  <2>2. \A r \in Row :
          /\ [r EXCEPT !.status = "pending"].status = "pending"
          /\ [r EXCEPT !.status = "processing"].status = "processing"
          /\ [r EXCEPT !.status = "skipped", !.result = "skipped"].status = "skipped"
          /\ [r EXCEPT !.status = "pending"].hash = r.hash
          /\ [r EXCEPT !.status = "processing"].hash = r.hash
          /\ [r EXCEPT !.status = "skipped", !.result = "skipped"].hash = r.hash
    BY SMT DEF Row
  <2>3. \A i \in Items : AfterTimeouts[i] = row[i] \/
                         AfterTimeouts[i] = [row[i] EXCEPT !.status = "pending"]
    BY DEF AfterTimeouts
  <2> TAKE i \in Items
  <2>4. /\ AfterTimeouts[i].hash = row[i].hash
        /\ AfterTimeouts[i].status = "success" => AfterTimeouts[i] = row[i]
    BY <2>1, <2>2, <2>3
  <2>5. CASE row'[i] = AfterTimeouts[i]
    BY <2>4, <2>5
  <2>6. CASE row'[i] = [AfterTimeouts[i] EXCEPT !.status = "processing"]
    BY <2>1, <2>2, <2>4, <2>6
  <2>7. CASE row'[i] = [AfterTimeouts[i] EXCEPT !.status = "skipped", !.result = "skipped"]
    BY <2>1, <2>2, <2>4, <2>7
  <2> QED BY <1>2, <2>5, <2>6, <2>7
<1>5. AskedExists'
  BY <1>1, <1>4 DEF FreshInv, AskedExists
<1>6. SetsShape'
  BY <1>1, <1>3 DEF SetsShape
<1>7. LoadedCovers' /\ IndexFollows'
  BY <1>1, <1>3 DEF FreshInv, LoadedCovers, Reportable, IndexFollows
<1>8. SuccessIsFresh'
  BY <1>1, <1>4 DEF FreshInv, SuccessIsFresh, Settled, WithStatus
<1> QED BY <1>1, <1>5, <1>6, <1>7, <1>8 DEF FreshInv

LEMMA LoadGroupFresh ==
  ASSUME FreshInv, \A u, v \in Workers : u = v,
         NEW w \in Workers, NEW t \in Types, NEW matches \in SUBSET Items,
         LoadGroup(w, t, matches)
  PROVE  FreshInv'
<1> DEFINE items == {i \in todo[w] : TypeOf[i] = t}
<1>1. /\ TypeOK' /\ pc[w] = "batch" 
      /\ UNCHANGED <<bronze, silver, row, job, left, assigned>>
  BY LoadGroupType DEF FreshInv, LoadGroup, tables, indices
<1>2. /\ pc'[w] = "loaded" /\ todo'[w] = todo[w] \ items /\ group'[w] = items
      /\ loaded'[w] = [i \in Items |-> IF i \in Context(items) THEN bronze[i] ELSE 0]
  BY DEF LoadGroup, FreshInv, TypeOK
<1>3. items \subseteq todo[w] /\ items \in SUBSET Items /\ items \subseteq Context(items)
  BY OwnContext DEF FreshInv, TypeOK
<1>4. /\ \A i \in Items : bronze[i] \in Nat /\ row[i].hash <= bronze[i] /\ silver[i] <= bronze[i]
      /\ left[w] = {} /\ assigned[w] \cap todo[w] = {}
  BY <1>1, NatFacts DEF FreshInv, AskedExists, IndexFollows, SetsShape
<1> HIDE DEF items
<1>5. AskedExists' /\ SuccessIsFresh'
  BY <1>1 DEF FreshInv, AskedExists, SuccessIsFresh, Settled, WithStatus
<1>6. SetsShape'
  BY <1>1, <1>2, <1>3, <1>4 DEF SetsShape
<1>7. LoadedCovers' /\ IndexFollows'
  BY <1>1, <1>2, <1>3, <1>4 DEF LoadedCovers, Reportable, IndexFollows
<1> QED BY <1>1, <1>5, <1>6, <1>7 DEF FreshInv

LEMMA PipelineFresh ==
  ASSUME FreshInv, \A u, v \in Workers : u = v, NEW w \in Workers,
         PipelineSucceeds(w) \/ (\E written \in SUBSET Items : PipelineFails(w, written))
  PROVE  FreshInv'
<1>1. TypeOK'
  BY PipelineType DEF FreshInv
<1>2. /\ pc[w] = "loaded"
      /\ UNCHANGED <<bronze, row, job, todo, group, loaded, assigned>>
      /\ left' = [left EXCEPT ![w] = group[w]]
      /\ \/ pc' = [pc EXCEPT ![w] = "failing"]
         \/ pc' = [pc EXCEPT ![w] = "marking"] /\ Merge(w, Indexable(group[w]))
      /\ \E S \in SUBSET group[w] : Merge(w, S)
  BY DEF PipelineSucceeds, PipelineFails, Indexable, tables
<1>3. left'[w] = group[w] /\ pc'[w] \in {"marking", "failing"}
  BY <1>2 DEF FreshInv, TypeOK
<1>4. /\ group[w] \subseteq Items
      /\ \A i \in Items : /\ bronze[i] \in Nat /\ silver[i] \in Nat
                          /\ row[i].hash \in Nat /\ loaded[w][i] \in Nat
                          /\ silver[i] <= bronze[i]
                          /\ loaded[w][i] > 0 =>
                               silver[i] <= loaded[w][i] /\ loaded[w][i] <= bronze[i]
      /\ \A i \in group[w] : row[i].status # "pending" => row[i].hash <= loaded[w][i]
  <2>1. group[w] \subseteq Items
    BY DEF FreshInv, TypeOK
  <2>2. \A i \in group[w] : row[i].status # "pending" => row[i].hash <= loaded[w][i]
    BY <1>2 DEF FreshInv, LoadedCovers, Reportable
  <2> QED BY <1>2, <2>1, <2>2, NatFacts DEF FreshInv, IndexFollows
<1>5. \A i \in Items : silver'[i] = silver[i] \/ (loaded[w][i] > 0 /\ silver'[i] = loaded[w][i])
  BY <1>2 DEF Merge
<1>6. AskedExists'
  BY <1>2 DEF FreshInv, AskedExists
<1>7. SetsShape'
  BY <1>2, <1>3 DEF FreshInv, SetsShape
<1>8. LoadedCovers'
  <2>1. CASE pc' = [pc EXCEPT ![w] = "failing"]
    <3>1. pc'[w] = "failing"
      BY <2>1 DEF FreshInv, TypeOK
    <3> QED BY <3>1 DEF LoadedCovers, Reportable
  <2>2. CASE pc' = [pc EXCEPT ![w] = "marking"] /\ Merge(w, Indexable(group[w]))
    <3>1. Reportable(w)' = group[w]
      BY <1>3, <2>2 DEF Reportable, FreshInv, TypeOK
    <3>2. Indexable(group[w]) \in SUBSET Items /\ Indexable(group[w]) \subseteq Context(Indexable(group[w]))
      BY <1>4, OwnContext DEF Indexable
    <3>3. \A i \in Indexable(group[w]) : loaded[w][i] <= silver'[i]
      BY <1>4, <2>2, <3>2 DEF Merge
    <3> QED BY <1>2, <1>4, <3>1, <3>3 DEF LoadedCovers, Indexable
  <2> QED BY <1>2, <2>1, <2>2
<1>9. IndexFollows'
  BY <1>2, <1>3, <1>4, <1>5 DEF IndexFollows
<1>10. SuccessIsFresh'
  <2> SUFFICES ASSUME NEW i \in Items \ Malformed, row[i].status = "success",
                      row[i].result # "unchanged"
               PROVE  silver'[i] >= row[i].hash
    BY <1>2 DEF SuccessIsFresh, Settled, WithStatus
  <2>1. CASE silver'[i] = silver[i]
    BY <2>1 DEF FreshInv, SuccessIsFresh, Settled, WithStatus
  <2>2. CASE loaded[w][i] > 0 /\ silver'[i] = loaded[w][i]
    <3>1. silver[i] >= row[i].hash
      BY DEF FreshInv, SuccessIsFresh, Settled, WithStatus
    <3> QED BY <1>4, <2>2, <3>1
  <2> QED BY <1>5, <2>1, <2>2
<1> QED BY <1>1, <1>6, <1>7, <1>8, <1>9, <1>10 DEF FreshInv

\* Marking item i: its row is left alone if somebody requeued it; what is
\* written otherwise keeps its hash and says success only over a covered version.
LEMMA MarkFresh ==
  ASSUME FreshInv, TypeOK', \A u, v \in Workers : u = v,
         NEW w \in Workers, NEW i \in Items, i \in left[w],
         pc[w] \in {"marking", "failing"}, Leave(w, i),
         assigned'[w] \subseteq assigned[w] \cup {i},
         \A j \in Items \ {i} : row'[j] = row[j],
         row'[i].hash = row[i].hash,
         row'[i] = row[i] \/ row'[i].status \in {"failed", "skipped"} \/
           (pc[w] = "marking" /\ i \notin NoYear /\ row[i].status # "pending"),
         UNCHANGED <<bronze, silver, job, todo, group, loaded>>
  PROVE  FreshInv'
<1>1. /\ left'[w] = left[w] \ {i}
      /\ pc'[w] = IF left[w] = {i} THEN "batch" ELSE pc[w]
  BY DEF Leave, FreshInv, TypeOK
<1>2. \A j \in Items : row'[j].hash = row[j].hash
  OBVIOUS
<1>3. AskedExists'
  BY <1>2 DEF FreshInv, AskedExists
<1>4. SetsShape'
  BY <1>1 DEF FreshInv, SetsShape
<1>5. LoadedCovers'
  <2>1. Reportable(w)' \subseteq Reportable(w) \ {i}
    BY <1>1 DEF Reportable
  <2>2. pc'[w] = "marking" => pc[w] = "marking"
    BY <1>1
  <2>3. left[w] \subseteq Items /\ group[w] \subseteq Items
    BY DEF FreshInv, TypeOK
  <2>4. Reportable(w) \subseteq Items
    BY <2>3 DEF Reportable
  <2> QED BY <2>1, <2>2, <2>4 DEF FreshInv, LoadedCovers
<1>6. IndexFollows'
  BY <1>1 DEF FreshInv, IndexFollows
<1>7. SuccessIsFresh'
  <2> SUFFICES ASSUME NEW j \in Items \ Malformed, row'[j].status = "success",
                      row'[j].result # "unchanged"
               PROVE  silver[j] >= row[j].hash
    BY <1>2 DEF SuccessIsFresh, Settled, WithStatus
  <2>1. CASE row'[j] = row[j]
    BY <2>1 DEF FreshInv, SuccessIsFresh, Settled, WithStatus
  <2>2. CASE row'[j] # row[j]
    <3>1. j = i /\ pc[w] = "marking" /\ i \notin NoYear /\ row[i].status # "pending"
      BY <2>2
    <3>2. row[i].hash <= loaded[w][i] /\ loaded[w][i] <= silver[i]
      BY <3>1 DEF FreshInv, LoadedCovers, Reportable
    <3>3. row[i].hash \in Nat /\ loaded[w][i] \in Nat /\ silver[i] \in Nat
      BY NatFacts DEF FreshInv
    <3> QED BY <3>1, <3>2, <3>3
  <2> QED BY <2>1, <2>2
<1> QED BY <1>3, <1>4, <1>5, <1>6, <1>7 DEF FreshInv

LEMMA ForgetFresh ==
  ASSUME FreshInv, \A u, v \in Workers : u = v, NEW w \in Workers, ForgetBatch(w)
  PROVE  FreshInv'
<1>1. TypeOK'
  BY ForgetBatchType DEF FreshInv
<1>2. UNCHANGED <<bronze, silver, row, job>>
  BY DEF ForgetBatch, tables, indices
<1>3. /\ pc'[w] = "idle" /\ todo'[w] = {} /\ group'[w] = {}
      /\ left'[w] = {} /\ assigned'[w] = {}
  BY DEF ForgetBatch, FreshInv, TypeOK
<1>4. AskedExists' /\ SuccessIsFresh'
  BY <1>2 DEF FreshInv, AskedExists, SuccessIsFresh, Settled, WithStatus
<1>5. SetsShape' /\ LoadedCovers' /\ IndexFollows'
  BY <1>2, <1>3 DEF SetsShape, LoadedCovers, Reportable, IndexFollows, FreshInv
<1> QED BY <1>1, <1>4, <1>5 DEF FreshInv

LEMMA MarkSuccessFresh ==
  ASSUME FreshInv, \A u, v \in Workers : u = v, NEW w \in Workers, NEW i \in Items,
         MarkSuccess(w, i)
  PROVE  FreshInv'
<1>1. TypeOK'
  BY MarkType DEF FreshInv
<1>2. /\ row \in [Items -> Row] /\ assigned \in [Workers -> SUBSET Items]
      /\ i \in left[w] /\ pc[w] = "marking" /\ Leave(w, i)
      /\ UNCHANGED <<bronze, silver, job, todo, group, loaded>>
      /\ i \notin assigned[w]
  BY DEF FreshInv, TypeOK, SetsShape, MarkSuccess, indices
<1>3. CASE Requeued(w, i) /\ UNCHANGED <<row, assigned>>
  BY <1>1, <1>2, <1>3, MarkFresh
<1>4. CASE ~Requeued(w, i) /\ Write(w, i, Outcome(w, i))
  <2>1. /\ row' = [row EXCEPT ![i] = Outcome(w, i)]
        /\ assigned' = [assigned EXCEPT ![w] = assigned[w] \cup {i}]
        /\ row[i].status # "pending"
    BY <1>2, <1>4 DEF Write, Requeued
  <2>2. /\ Outcome(w, i).hash = row[i].hash
        /\ i \in NoYear => Outcome(w, i).status = "skipped"
    BY DEF Outcome
  <2>3. /\ \A j \in Items \ {i} : row'[j] = row[j]
        /\ row'[i].hash = row[i].hash
        /\ i \in NoYear => row'[i].status = "skipped"
        /\ assigned'[w] \subseteq assigned[w] \cup {i}
    BY <1>2, <2>1, <2>2
  <2> QED BY <1>1, <1>2, <2>1, <2>3, MarkFresh
<1> QED BY <1>3, <1>4 DEF MarkSuccess

LEMMA MarkFailedFresh ==
  ASSUME FreshInv, \A u, v \in Workers : u = v, NEW w \in Workers, NEW i \in Items,
         MarkFailed(w, i)
  PROVE  FreshInv'
<1> DEFINE r == [row[i] EXCEPT !.status = "failed", !.result = "error"]
<1>1. TypeOK'
  BY MarkType DEF FreshInv
<1>2. /\ row \in [Items -> Row] /\ assigned \in [Workers -> SUBSET Items]
      /\ i \in left[w] /\ pc[w] = "failing" /\ Leave(w, i)
      /\ UNCHANGED <<bronze, silver, job, todo, group, loaded>>
  BY DEF FreshInv, TypeOK, MarkFailed, indices
<1>3. r.status = "failed" /\ r.hash = row[i].hash
  BY <1>2, SMT DEF Row
<1>4. \/ UNCHANGED <<row, assigned>>
      \/ row' = [row EXCEPT ![i] = r] /\ assigned' = [assigned EXCEPT ![w] = assigned[w] \cup {i}]
  BY DEF MarkFailed, Write
<1> HIDE DEF r
<1>5. /\ \A j \in Items \ {i} : row'[j] = row[j]
      /\ row'[i].hash = row[i].hash
      /\ row'[i] = row[i] \/ row'[i].status = "failed"
      /\ assigned'[w] \subseteq assigned[w] \cup {i}
  BY <1>2, <1>3, <1>4
<1> QED BY <1>1, <1>2, <1>5, MarkFresh

LEMMA MarkRaisesFresh ==
  ASSUME FreshInv, \A u, v \in Workers : u = v, NEW w \in Workers, NEW i \in Items,
         MarkRaises(w, i)
  PROVE  FreshInv'
<1>1. TypeOK'
  BY MarkType DEF FreshInv
<1>2. /\ i \in left[w] /\ UNCHANGED <<bronze, silver, row, job, todo, group, loaded>>
      /\ left' = [left EXCEPT ![w] = group[w]] /\ pc' = [pc EXCEPT ![w] = "failing"]
      /\ assigned' = assigned \/ assigned' = [assigned EXCEPT ![w] = assigned[w] \cup {i}]
  BY DEF MarkRaises, tables, indices
<1>3. /\ left'[w] = group[w] /\ pc'[w] = "failing"
      /\ assigned'[w] \subseteq assigned[w] \cup {i}
  BY <1>2 DEF FreshInv, TypeOK
<1>4. AskedExists' /\ SuccessIsFresh'
  BY <1>2 DEF FreshInv, AskedExists, SuccessIsFresh, Settled, WithStatus
<1>5. SetsShape'
  BY <1>2, <1>3 DEF FreshInv, SetsShape
<1>6. LoadedCovers' /\ IndexFollows'
  BY <1>2, <1>3 DEF FreshInv, LoadedCovers, Reportable, IndexFollows
<1> QED BY <1>1, <1>4, <1>5, <1>6 DEF FreshInv

LEMMA NextFresh ==
  ASSUME FreshInv, [Next]_vars, Serial
  PROVE  FreshInv'
<1>1. \A u, v \in Workers : u = v
  BY DEF Serial
<1>2. ASSUME NEW p \in Producers, Enqueue(p) PROVE FreshInv'
  BY <1>2, EnqueueFresh
<1>3. ASSUME Environment PROVE FreshInv'
  BY <1>3, EnvironmentFresh DEF Serial
<1>4. ASSUME UNCHANGED <<bronze, silver, row, job>>, UNCHANGED worker, TypeOK'
      PROVE  FreshInv'
  <2>1. \A i \in Items : bronze[i] <= bronze'[i]
    <3>1. \A i \in Items : bronze[i] <= bronze[i]
      BY NatFacts DEF FreshInv
    <3> QED BY <1>4, <3>1
  <2> QED BY <1>4, <2>1, OutsideFresh DEF FreshInv, AskedExists
<1>5. ASSUME NEW i \in Items, TimePasses(i) PROVE FreshInv'
  BY <1>4, <1>5, TimePassesType DEF TimePasses, indices, FreshInv
<1>6. ASSUME NEW w \in Workers, NEW types, PendingRun(w, types) \/ RetryRun(w, types)
      PROVE  FreshInv'
  BY <1>1, <1>6, ClaimFresh DEF PendingRun, RetryRun
<1>7. ASSUME NEW w \in Workers, Progress(w) PROVE FreshInv'
  BY <1>1, <1>7, LoadGroupFresh, PipelineFresh, MarkSuccessFresh, MarkFailedFresh,
     MarkRaisesFresh, ForgetFresh DEF Progress, FinishBatch
<1>8. ASSUME NEW w \in Mortal, Crash(w) PROVE FreshInv'
  BY <1>1, <1>8, ForgetFresh, MortalAssumption DEF Crash
<1>9. ASSUME UNCHANGED vars PROVE FreshInv'
  BY <1>4, <1>9, NextType DEF vars, worker, FreshInv
<1> QED BY <1>2, <1>3, <1>5, <1>6, <1>7, <1>8, <1>9 DEF Next

\* As long as runs do not overlap, a row that says success has the version it
\* was enqueued with, or a later one, in the silver index: mark_success's guard
\* against a concurrent requeue is enough, with workers killed and groups
\* failing at any point.
THEOREM FreshWhenSerial ==
  ASSUME Serial
  PROVE  Spec => []SuccessIsFresh
<1>1. Init => FreshInv
  BY InitFresh
<1>2. FreshInv /\ [Next]_vars => FreshInv'
  BY NextFresh
<1>3. FreshInv => SuccessIsFresh
  BY DEF FreshInv
<1> QED BY <1>1, <1>2, <1>3, PTL DEF Spec

(***************************************************************************)
(* The queue implements SilverPromise                                      *)
(***************************************************************************)
Asked == [i \in Items |-> row[i].hash]

\* A step that leaves the indices and the hashes alone and reports nothing as
\* done reopens items.
LEMMA IsReopen ==
  ASSUME UNCHANGED <<bronze, silver>>, Asked' = Asked, Settled' \subseteq Settled
  PROVE  Promise!Next
<1>1. Settled \ Settled' \in SUBSET Items /\ Settled' = Settled \ (Settled \ Settled')
  BY DEF Settled, WithStatus
<1>2. Promise!Reopen(Settled \ Settled')
  BY <1>1 DEF Promise!Reopen, Asked
<1> QED BY <1>1, <1>2 DEF Promise!Next

\* The same for a step described row by row.
LEMMA RowsReopen ==
  ASSUME UNCHANGED <<bronze, silver>>,
         \A i \in Items : /\ row'[i].hash = row[i].hash
                          /\ row'[i].status = "success" => row'[i] = row[i]
  PROVE  Promise!Next
<1>1. Asked' = Asked
  BY DEF Asked
<1>2. Settled' \subseteq Settled
  BY DEF Settled, WithStatus
<1> QED BY <1>1, <1>2, IsReopen

\* A step that makes one row wait with an existing version asks for it.
LEMMA IsAsk ==
  ASSUME TypeOK, NEW i \in Items, NEW r, UNCHANGED <<bronze, silver>>,
         row' = [row EXCEPT ![i] = r], r.status = "pending", r.hash \in 0 .. bronze[i]
  PROVE  Promise!Next
<1>1. /\ row'[i] = r
      /\ \A j \in Items \ {i} : row'[j] = row[j]
  BY DEF TypeOK
<1>2. Asked' = [Asked EXCEPT ![i] = r.hash]
  <2>1. \A j \in Items : row'[j].hash = IF j = i THEN r.hash ELSE row[j].hash
    BY <1>1
  <2> QED BY <2>1 DEF Asked
<1>3. Settled' = Settled \ {i}
  BY <1>1 DEF Settled, WithStatus
<1>4. Promise!Ask(i)
  BY <1>2, <1>3 DEF Promise!Ask, Asked
<1> QED BY <1>4 DEF Promise!Next

LEMMA EnqueueAsks ==
  ASSUME FreshInv, NEW p \in Producers, Enqueue(p)
  PROVE  [Promise!Next]_Promise!vars
<1>1. /\ UNCHANGED <<bronze, silver>> /\ job[p] # NoJob
      /\ row \in [Items -> Row] /\ job \in [Producers -> Job \cup {NoJob}]
      /\ \A i \in Items : bronze[i] \in Nat /\ row[i].hash \in Nat /\ row[i].hash <= bronze[i]
  BY NatFacts DEF FreshInv, TypeOK, AskedExists, Enqueue, LookupRow, SaveRow
<1>2. /\ job[p] \in Job /\ job[p].item \in Items /\ job[p].hash \in Nat
      /\ job[p].initial = "pending" /\ job[p].hash <= bronze[job[p].item]
  BY <1>1, NatFacts DEF FreshInv, AskedExists, Job
<1> DEFINE i == job[p].item
           old == [EnqueuedRow(job[p]) EXCEPT !.hash = row[i].hash]
<1>3. /\ EnqueuedRow(job[p]).status = "pending" /\ EnqueuedRow(job[p]).hash = job[p].hash
      /\ old.status = "pending" /\ old.hash = row[i].hash
  BY <1>2 DEF EnqueuedRow
<1>4. row' = row \/ row' = [row EXCEPT ![i] = EnqueuedRow(job[p])] \/ row' = [row EXCEPT ![i] = old]
  BY DEF Enqueue, LookupRow, SaveRow
<1>5. i \in Items
  BY <1>2
<1> HIDE DEF i, old
<1>6. ASSUME NEW r, row' = [row EXCEPT ![i] = r], r.status = "pending",
             r.hash \in 0 .. bronze[i]
      PROVE  Promise!Next
  BY <1>1, <1>5, <1>6, IsAsk DEF FreshInv
<1>7. CASE row' = row
  BY <1>1, <1>7 DEF Promise!vars, Settled, WithStatus
<1>8. CASE row' = [row EXCEPT ![i] = EnqueuedRow(job[p])]
  <2>1. EnqueuedRow(job[p]).hash \in 0 .. bronze[i]
    BY <1>1, <1>2, <1>3 DEF i
  <2> DEFINE r == EnqueuedRow(job[p])
  <2>2. r.status = "pending" /\ r.hash \in 0 .. bronze[i] /\ row' = [row EXCEPT ![i] = r]
    BY <1>3, <1>8, <2>1
  <2> HIDE DEF r
  <2> QED BY <1>6, <2>2
<1>9. CASE row' = [row EXCEPT ![i] = old]
  <2>1. old.hash \in 0 .. bronze[i]
    BY <1>1, <1>3, <1>5
  <2> QED BY <1>3, <1>6, <1>9, <2>1
<1> QED BY <1>4, <1>7, <1>8, <1>9

LEMMA EnvironmentRefines ==
  ASSUME FreshInv, Environment
  PROVE  [Promise!Next]_Promise!vars
<1>1. row \in [Items -> Row]
  BY DEF FreshInv, TypeOK
<1>2. ASSUME UNCHANGED <<bronze, silver>>,
             \A i \in Items : \/ row'[i] = row[i]
                              \/ row'[i] = [row[i] EXCEPT !.status = "pending"]
                              \/ row'[i] = [row[i] EXCEPT !.status = "pending", !.result = ""]
      PROVE  Promise!Next
  <2>1. \A i \in Items :
          /\ [row[i] EXCEPT !.status = "pending"].status = "pending"
          /\ [row[i] EXCEPT !.status = "pending"].hash = row[i].hash
          /\ [row[i] EXCEPT !.status = "pending", !.result = ""].status = "pending"
          /\ [row[i] EXCEPT !.status = "pending", !.result = ""].hash = row[i].hash
    BY <1>1, SMT DEF Row
  <2>2. \A i \in Items : /\ row'[i].hash = row[i].hash
                         /\ row'[i].status = "success" => row'[i] = row[i]
    BY <1>2, <2>1
  <2> QED BY <1>2, <2>2, RowsReopen
<1>3. ASSUME NEW S \in SUBSET Items, RequeueForOpenAlex(S) \/ ResetToPending(S)
      PROVE  Promise!Next
  BY <1>2, <1>3 DEF RequeueForOpenAlex, ResetToPending, indices
<1>4. ASSUME NEW t \in Types, RetryFailedByType(t) \/ ToggleConfig(t)
      PROVE  Promise!Next
  BY <1>2, <1>4 DEF RetryFailedByType, ToggleConfig, tables, indices
<1>5. ASSUME NEW p \in Producers, NEW i \in Items, NEW changed \in BOOLEAN,
             NEW initial \in InitialStatuses, StartEnqueue(p, i, changed, initial)
      PROVE  [Promise!Next]_Promise!vars
  <2>1. /\ bronze' = bronze \/ bronze' = [bronze EXCEPT ![i] = bronze[i] + 1]
        /\ UNCHANGED <<silver, row>>
    BY <1>5 DEF StartEnqueue
  <2>2. CASE bronze' = bronze
    BY <2>1, <2>2 DEF Promise!vars, Settled, WithStatus
  <2>3. CASE bronze' = [bronze EXCEPT ![i] = bronze[i] + 1]
    <3>1. Promise!Change(i)
      BY <2>1, <2>3 DEF Promise!Change, Settled, WithStatus
    <3> QED BY <3>1 DEF Promise!Next
  <2> QED BY <2>1, <2>2, <2>3
<1> QED BY <1>3, <1>4, <1>5 DEF Environment

LEMMA ClaimReopens ==
  ASSUME FreshInv, NEW w \in Workers, NEW statuses, NEW types,
         ClaimBatch(w, statuses, types)
  PROVE  Promise!Next
<1>1. UNCHANGED <<bronze, silver>>
  BY DEF ClaimBatch, indices
<1>2. /\ row \in [Items -> Row] /\ AfterTimeouts \in [Items -> Row]
      /\ \A i \in Items : AfterTimeouts[i] = row[i] \/
                          AfterTimeouts[i] = [row[i] EXCEPT !.status = "pending"]
  BY AfterTimeoutsType DEF FreshInv, TypeOK, AfterTimeouts
<1>3. \A i \in Items :
        \/ row'[i] = AfterTimeouts[i]
        \/ row'[i] = [AfterTimeouts[i] EXCEPT !.status = "processing"]
        \/ row'[i] = [AfterTimeouts[i] EXCEPT !.status = "skipped", !.result = "skipped"]
  BY DEF ClaimBatch
<1>4. \A r \in Row :
        /\ [r EXCEPT !.status = "pending"].status = "pending"
        /\ [r EXCEPT !.status = "processing"].status = "processing"
        /\ [r EXCEPT !.status = "skipped", !.result = "skipped"].status = "skipped"
        /\ [r EXCEPT !.status = "pending"].hash = r.hash
        /\ [r EXCEPT !.status = "processing"].hash = r.hash
        /\ [r EXCEPT !.status = "skipped", !.result = "skipped"].hash = r.hash
  BY SMT DEF Row
<1>5. ASSUME NEW i \in Items
      PROVE  /\ row'[i].hash = row[i].hash
             /\ row'[i].status = "success" => row'[i] = row[i]
  <2>1. /\ AfterTimeouts[i].hash = row[i].hash
        /\ AfterTimeouts[i].status = "success" => AfterTimeouts[i] = row[i]
    BY <1>2, <1>4
  <2>2. CASE row'[i] = AfterTimeouts[i]
    BY <2>1, <2>2
  <2>3. CASE row'[i] = [AfterTimeouts[i] EXCEPT !.status = "processing"]
    BY <1>2, <1>4, <2>1, <2>3
  <2>4. CASE row'[i] = [AfterTimeouts[i] EXCEPT !.status = "skipped", !.result = "skipped"]
    BY <1>2, <1>4, <2>1, <2>4
  <2> QED BY <1>3, <2>2, <2>3, <2>4
<1> QED BY <1>1, <1>5, RowsReopen

LEMMA PipelinePublishes ==
  ASSUME FreshInv, NEW w \in Workers,
         PipelineSucceeds(w) \/ (\E written \in SUBSET Items : PipelineFails(w, written))
  PROVE  Promise!Next
<1>1. pc[w] = "loaded" /\ UNCHANGED <<bronze, row>>
  BY DEF PipelineSucceeds, PipelineFails, tables
<1>2. PICK T \in SUBSET group[w] : Merge(w, T)
  BY DEF PipelineSucceeds, PipelineFails, Indexable
<1> DEFINE S == {i \in Context(T) : loaded[w][i] > 0}
<1>3. S \in SUBSET Items /\ \A i \in S : loaded[w][i] > 0
  BY DEF Context
<1>4. \A i \in S : /\ bronze[i] \in Nat /\ silver[i] \in Nat /\ loaded[w][i] \in Nat
                   /\ silver[i] <= loaded[w][i] /\ loaded[w][i] <= bronze[i]
  BY <1>1, <1>3, NatFacts DEF FreshInv, IndexFollows
<1> DEFINE p == [i \in S |-> loaded[w][i]]
<1>5. p \in [S -> UNION {0 .. bronze[d] : d \in Items}]
  BY <1>3, <1>4
<1>6. \A i \in S : p[i] \in silver[i] .. bronze[i]
  BY <1>4
<1>7. silver' = [i \in Items |-> IF i \in S THEN p[i] ELSE silver[i]]
  BY <1>2 DEF Merge
<1> HIDE DEF p
<1>8. Asked' = Asked /\ Settled' = Settled
  BY <1>1 DEF Asked, Settled, WithStatus
<1>9. Promise!Publish(S)
  BY <1>1, <1>5, <1>6, <1>7, <1>8 DEF Promise!Publish, Asked
<1> QED BY <1>3, <1>9 DEF Promise!Next

LEMMA MarkSettles ==
  ASSUME FreshInv, NEW w \in Workers, NEW i \in Items,
         MarkSuccess(w, i) \/ MarkRaises(w, i) \/ MarkFailed(w, i)
  PROVE  [Promise!Next]_Promise!vars
<1>1. row \in [Items -> Row] /\ UNCHANGED <<bronze, silver>>
  BY DEF FreshInv, TypeOK, MarkSuccess, MarkRaises, MarkFailed, indices
<1>2. ASSUME row' = row PROVE [Promise!Next]_Promise!vars
  BY <1>1, <1>2 DEF Promise!vars, Settled, WithStatus
<1>3. ASSUME MarkSuccess(w, i), row' # row PROVE Promise!Next
  <2>1. /\ row' = [row EXCEPT ![i] = Outcome(w, i)] /\ pc[w] = "marking" /\ i \in left[w]
        /\ i \notin assigned[w] /\ row[i].status # "pending"
    BY <1>3 DEF MarkSuccess, Write, Requeued, FreshInv, SetsShape
  <2>2. /\ Outcome(w, i).hash = row[i].hash
        /\ i \in NoYear => Outcome(w, i).status = "skipped"
        /\ i \notin NoYear => Outcome(w, i).status = "success"
        /\ i \in Indexable(group[w]) => Outcome(w, i).result # "unchanged"
    BY DEF Outcome, Indexable
  <2>3. /\ row'[i] = Outcome(w, i)
        /\ \A j \in Items \ {i} : row'[j] = row[j]
    BY <1>1, <2>1
  <2>4. CASE i \in NoYear
    <3>1. \A j \in Items : /\ row'[j].hash = row[j].hash
                           /\ row'[j].status = "success" => row'[j] = row[j]
      BY <2>2, <2>3, <2>4
    <3> QED BY <1>1, <3>1, RowsReopen
  <2>5. CASE i \in Malformed
    <3>1. Asked' = Asked
      BY <2>2, <2>3 DEF Asked
    <3>2. Settled' \subseteq Settled
      BY <2>3, <2>5 DEF Settled, WithStatus
    <3> QED BY <1>1, <3>1, <3>2, IsReopen
  <2>6. CASE i \notin NoYear \cup Malformed
    <3>1. Asked' = Asked
      BY <2>2, <2>3 DEF Asked
    <3>0. i \in Indexable(group[w])
      BY <2>1, <2>6 DEF Indexable, FreshInv, SetsShape
    <3>2. Settled' = Settled \cup {i}
      BY <2>2, <2>3, <2>6, <3>0 DEF Settled, WithStatus
    <3>3. row[i].hash <= loaded[w][i] /\ loaded[w][i] <= silver[i]
      BY <2>1, <2>6 DEF FreshInv, LoadedCovers, Reportable
    <3>4. row[i].hash \in Nat /\ loaded[w][i] \in Nat /\ silver[i] \in Nat
      BY NatFacts DEF FreshInv
    <3>5. silver[i] >= Asked[i]
      BY <3>3, <3>4 DEF Asked
    <3>6. Promise!Settle(i)
      BY <1>1, <3>1, <3>2, <3>5 DEF Promise!Settle, Asked
    <3> QED BY <3>6 DEF Promise!Next
  <2> QED BY <2>4, <2>5, <2>6
<1>4. ASSUME MarkFailed(w, i), row' # row PROVE Promise!Next
  <2> DEFINE r == [row[i] EXCEPT !.status = "failed", !.result = "error"]
  <2>1. row' = [row EXCEPT ![i] = r]
    BY <1>4 DEF MarkFailed, Write
  <2>2. r.status = "failed" /\ r.hash = row[i].hash
    BY <1>1, SMT DEF Row
  <2> HIDE DEF r
  <2>3. \A j \in Items : /\ row'[j].hash = row[j].hash
                         /\ row'[j].status = "success" => row'[j] = row[j]
    BY <1>1, <2>1, <2>2
  <2> QED BY <1>1, <2>3, RowsReopen
<1>5. ASSUME MarkRaises(w, i) PROVE row' = row
  BY <1>5 DEF MarkRaises, tables
<1> QED BY <1>2, <1>3, <1>4, <1>5

LEMMA NextRefines ==
  ASSUME FreshInv, [Next]_vars
  PROVE  [Promise!Next]_Promise!vars
<1>1. ASSUME UNCHANGED <<bronze, silver, row>> PROVE [Promise!Next]_Promise!vars
  BY <1>1 DEF Promise!vars, Settled, WithStatus
<1>2. ASSUME NEW p \in Producers, Enqueue(p) PROVE [Promise!Next]_Promise!vars
  BY <1>2, EnqueueAsks
<1>3. ASSUME Environment PROVE [Promise!Next]_Promise!vars
  BY <1>3, EnvironmentRefines
<1>4. ASSUME NEW i \in Items, TimePasses(i) PROVE [Promise!Next]_Promise!vars
  BY <1>1, <1>4 DEF TimePasses, indices
<1>5. ASSUME NEW w \in Workers, NEW types, PendingRun(w, types) \/ RetryRun(w, types)
      PROVE  [Promise!Next]_Promise!vars
  BY <1>5, ClaimReopens DEF PendingRun, RetryRun
<1>6. ASSUME NEW w \in Workers, ForgetBatch(w) PROVE [Promise!Next]_Promise!vars
  BY <1>1, <1>6 DEF ForgetBatch, tables, indices
<1>7. ASSUME NEW w \in Workers, Progress(w) PROVE [Promise!Next]_Promise!vars
  <2>1. ASSUME NEW t \in Types, NEW matches \in SUBSET Items, LoadGroup(w, t, matches)
        PROVE  [Promise!Next]_Promise!vars
    BY <1>1, <2>1 DEF LoadGroup, tables, indices
  <2> QED BY <1>6, <1>7, <2>1, PipelinePublishes, MarkSettles DEF Progress, FinishBatch
<1>8. ASSUME NEW w \in Mortal, Crash(w) PROVE [Promise!Next]_Promise!vars
  BY <1>6, <1>8, MortalAssumption DEF Crash
<1>9. ASSUME UNCHANGED vars PROVE [Promise!Next]_Promise!vars
  BY <1>1, <1>9 DEF vars
<1> QED BY <1>2, <1>3, <1>4, <1>5, <1>7, <1>8, <1>9 DEF Next

\* As long as runs do not overlap, the whole queue - claims, groups, requeues,
\* timeouts, kills - implements the promise made to its clients.
THEOREM PromiseKept ==
  ASSUME Serial
  PROVE  Spec => KeepsPromise
<1>1. Init => FreshInv
  BY InitFresh
<1>2. FreshInv /\ [Next]_vars => FreshInv'
  BY NextFresh
<1>3. Init => Promise!Init
  <2> SUFFICES ASSUME Init PROVE Promise!Init
    OBVIOUS
  <2>1. \A i \in Items : row[i].hash = 0 /\ row[i].status = "absent"
    BY DEF Init, NoRow
  <2>2. Asked = [i \in Items |-> 0] /\ Settled = {}
    BY <2>1 DEF Asked, Settled, WithStatus
  <2>3. bronze = [i \in Items |-> 0] /\ silver = [i \in Items |-> 0]
    BY DEF Init
  <2> QED BY <2>2, <2>3 DEF Promise!Init, Asked
<1>4. FreshInv /\ [Next]_vars => [Promise!Next]_Promise!vars
  BY NextRefines
<1> QED BY <1>1, <1>2, <1>3, <1>4, PTL DEF Spec, KeepsPromise, Promise!Spec

(***************************************************************************)
(* The queue together with the OpenAlex harvest                            *)
(***************************************************************************)

\* Runs of process_pending_items do not overlap; backfills may.
OneWorker == \A v, w \in Workers : v = w

\* Every step of the composition is one of the queue, or nothing the queue sees.
LEMMA MergeStepIsQueueStep == ASSUME [MergeNext]_allvars PROVE [Next]_vars
<1>1. CASE \E S \in SUBSET Documents, new \in BOOLEAN : IndexBatch(S, new)
  BY <1>1 DEF IndexBatch
<1>2. CASE RequeueMerged
  <2> DEFINE merged == {i \in Existing : row[i].match /\ Document[i] \in updated}
  <2>1. CASE merged = {}
    BY <1>2, <2>1 DEF RequeueMerged
  <2>2. CASE merged # {}
    <3>1. RequeueForOpenAlex(merged)
      BY <1>2, <2>2 DEF RequeueMerged
    <3> HIDE DEF merged
    <3>2. merged \subseteq {i \in Existing : row[i].match}
      BY <3>1, Zenon DEF RequeueForOpenAlex
    <3>3. merged \in SUBSET Items
      BY <3>2 DEF Existing
    <3> QED BY <3>1, <3>3 DEF Next, Environment
  <2> QED BY <2>1, <2>2
<1>3. ASSUME NEW w \in Workers, NEW t \in Types, NEW failed, FindMatches(w, t, failed)
      PROVE  Next
  <2>1. PICK matches : LoadGroup(w, t, matches)
    BY <1>3 DEF FindMatches
  <2>2. matches \in SUBSET Items
    BY <2>1, ItemsAssumption DEF LoadGroup
  <2> QED BY <2>1, <2>2 DEF Next, Progress
<1>4. ASSUME NEW w \in Workers, WriteMerged(w) PROVE Next
  BY <1>4 DEF WriteMerged, Next, Progress
<1>5. ASSUME NEW w \in Workers, NEW written \in SUBSET Items, WritePart(w, written) PROVE Next
  BY <1>5 DEF WritePart, Next, Progress
<1>6. ASSUME NEW w \in Workers, RemovePlaceholders(w) PROVE UNCHANGED vars
  BY <1>6 DEF RemovePlaceholders
<1>7. ASSUME NEW w \in Workers, Mark(w) PROVE Next
  BY <1>7 DEF Mark, Next, Progress
<1>8. ASSUME NEW w \in Workers, Leaves(w) PROVE Next
  BY <1>8 DEF Leaves, Next, Progress
<1>9. CASE QueueStep
  <2>1. ASSUME NEW w \in Workers, PendingRun(w, Types) \/ RetryRun(w, Types) PROVE Next
    BY <2>1 DEF Next
  <2> QED BY <1>9, <2>1 DEF QueueStep, Next, Environment
<1>10. CASE UNCHANGED allvars
  BY <1>10 DEF allvars
<1> QED BY <1>1, <1>2, <1>3, <1>4, <1>5, <1>6, <1>7, <1>8, <1>9, <1>10 DEF MergeNext

\* The queue composed with the harvest of OpenAlex, the search for matches and
\* the removal of placeholders is the queue: what is proved of it holds here.
THEOREM MergeIsQueue == MergeSpec => Spec
<1>1. MergeInit => Init
  BY DEF MergeInit
<1>2. [MergeNext]_allvars => [Next]_vars
  BY MergeStepIsQueueStep
<1> QED BY <1>1, <1>2, PTL DEF MergeSpec, Spec

\* So while runs do not overlap the composition keeps the promise of
\* SilverPromise, and no row that says success is behind what was asked for.
THEOREM MergeKeepsPromise == ASSUME Serial PROVE MergeSpec => KeepsPromise
<1> QED BY MergeIsQueue, PromiseKept, PTL

THEOREM MergeIsFresh == ASSUME Serial PROVE MergeSpec => []SuccessIsFresh
<1> QED BY MergeIsQueue, FreshWhenSerial, PTL

\* The items a run has still to load, or has loaded and not written.
AtWork(w) == todo[w] \cup IF pc[w] = "loaded" THEN group[w] ELSE {}

\* A run finds exactly the items whose works it takes, has merged these once its
\* pipeline ended, and removes only works that are merged; no item that it has
\* still to write is reported as done.
Fusing(w) ==
  /\ pc[w] = "idle" => todo[w] = {} /\ group[w] = {}
  /\ pc[w] \in {"idle", "batch"} => left[w] = {}
  /\ left[w] \subseteq group[w] /\ todo[w] \cap group[w] = {}
  /\ AtWork(w) \subseteq Existing \ Settled
  /\ pc[w] \in {"loaded", "marking", "failing"} =>
       found[w] = {i \in group[w] : taken[w][Document[i]] > 0}
  /\ pc[w] = "marking" =>
       \A i \in Indexable(group[w]) : fused[Document[i]] = taken[w][Document[i]]
  /\ removing[w] # {} => pc[w] \in {"marking", "failing"}
  /\ \A d \in removing[w] : fused[d] > 0

\* A document merged with a work can be found by an update of it, or is to be
\* written anew.
Watched(d) == fused[d] > 0 => Due(d) \/ \E i \in Existing : row[i].match /\ Document[i] = d

FusedInv ==
  MergeTypeOK /\ (\A w \in Workers : Fusing(w)) /\ (\A d \in Documents : Watched(d))

\* A step that reports no other row as done.
SettlesNothing == \A i \in Items : row'[i] = row[i] \/ i \in Existing' \ Settled'

LEMMA SettlesNothingKeeps ==
  ASSUME SettlesNothing
  PROVE  /\ Existing \ Settled \subseteq Existing' \ Settled'
         /\ \A d \in Documents : Due(d) => Due(d)'
<1>1. \A i \in Existing \ Settled : i \in Existing' \ Settled'
  BY DEF SettlesNothing, Existing, Settled, WithStatus
<1> QED BY <1>1 DEF Due

LEMMA EnqueueSettles == ASSUME TypeOK, NEW p \in Producers, Enqueue(p) PROVE SettlesNothing
<1> DEFINE i == job[p].item
           same == [EnqueuedRow(job[p]) EXCEPT !.hash = row[i].hash]
<1>1. row \in [Items -> Row] /\ job[p].initial \in {"pending", "success"}
  BY DEF TypeOK, Job, Enqueue, LookupRow, SaveRow
<1>2. /\ EnqueuedRow(job[p]).status \in {"pending", "success"}
      /\ EnqueuedRow(job[p]).status = "success" => EnqueuedRow(job[p]).result = "unchanged"
      /\ same.status = EnqueuedRow(job[p]).status /\ same.result = EnqueuedRow(job[p]).result
  BY <1>1 DEF EnqueuedRow
<1>3. \/ row' = row
      \/ row' = [row EXCEPT ![i] = EnqueuedRow(job[p])]
      \/ row' = [row EXCEPT ![i] = same]
  BY DEF Enqueue, LookupRow, SaveRow
<1> HIDE DEF i, same
<1>4. \A j \in Items : \/ row'[j] = row[j]
                       \/ /\ row'[j].status \in {"pending", "success"}
                          /\ row'[j].status = "success" => row'[j].result = "unchanged"
  BY <1>1, <1>2, <1>3
<1> QED BY <1>4 DEF SettlesNothing, Existing, Settled, WithStatus

\* Rows are reopened by whoever.
LEMMA ReopenSettles ==
  ASSUME TypeOK,
         \/ \E S \in SUBSET Items : RequeueForOpenAlex(S) \/ ResetToPending(S)
         \/ \E t \in Types : RetryFailedByType(t)
  PROVE  SettlesNothing /\ \A i \in Items : row'[i] = row[i] \/ row'[i].status = "pending"
<1> SUFFICES ASSUME NEW i \in Items PROVE row'[i] = row[i] \/ row'[i].status = "pending"
  BY DEF SettlesNothing, Existing, Settled, WithStatus
<1> DEFINE p == [row[i] EXCEPT !.status = "pending"]
           q == [row[i] EXCEPT !.status = "pending", !.result = ""]
<1>1. p.status = "pending" /\ q.status = "pending"
  BY SMT DEF TypeOK, Row
<1>2. CASE \E S \in SUBSET Items : RequeueForOpenAlex(S) \/ ResetToPending(S)
  <2>1. PICK S \in SUBSET Items : RequeueForOpenAlex(S) \/ ResetToPending(S)
    BY <1>2
  <2>2. CASE RequeueForOpenAlex(S)
    <3>1. row'[i] = row[i] \/ row'[i] = q
      BY <2>2, Zenon DEF RequeueForOpenAlex
    <3> HIDE DEF p, q
    <3> QED BY <1>1, <3>1
  <2>3. CASE ResetToPending(S)
    <3>1. row'[i] = row[i] \/ row'[i] = q
      BY <2>3, Zenon DEF ResetToPending
    <3> HIDE DEF p, q
    <3> QED BY <1>1, <3>1
  <2> QED BY <2>1, <2>2, <2>3
<1>3. CASE \E t \in Types : RetryFailedByType(t)
  <2>1. row'[i] = row[i] \/ row'[i] = p
    BY <1>3 DEF RetryFailedByType
  <2> HIDE DEF p, q
  <2> QED BY <1>1, <2>1
<1> QED BY <1>2, <1>3

LEMMA ClaimSettles ==
  ASSUME TypeOK, NEW w \in Workers, NEW statuses \in SUBSET {"pending", "failed"},
         ClaimBatch(w, statuses, Types)
  PROVE  SettlesNothing /\ todo'[w] \in SUBSET Items /\ todo'[w] \subseteq Existing' \ Settled'
<1> DEFINE Skipped(i) == [AfterTimeouts[i] EXCEPT !.status = "skipped", !.result = "skipped"]
           Claimed(i) == [AfterTimeouts[i] EXCEPT !.status = "processing"]
           waiting == {i \in Items : /\ AfterTimeouts[i].status \in statuses
                                     /\ TypeOf[i] \in Types}
           matching == {i \in waiting : TypeOf[i] \in enabled}
<1>1. row \in [Items -> Row] /\ todo \in [Workers -> SUBSET Items]
  BY DEF TypeOK
<1>2. PICK claimed \in SUBSET matching :
        /\ todo' = [todo EXCEPT ![w] = claimed]
        /\ row' = [i \in Items |-> CASE i \in claimed -> Claimed(i)
                                     [] i \in waiting \ matching -> Skipped(i)
                                     [] OTHER -> AfterTimeouts[i]]
  BY Zenon DEF ClaimBatch
<1>3. claimed \in SUBSET Items
  OBVIOUS
<1>4. AfterTimeouts \in [Items -> Row]
  BY <1>1, AfterTimeoutsType
<1>5. \A i \in Items : Skipped(i).status = "skipped" /\ Claimed(i).status = "processing"
  BY <1>4, SMT DEF Row
<1>6. \A i \in Items : AfterTimeouts[i] = row[i] \/ AfterTimeouts[i].status = "pending"
  <2>1. \A i \in Items : [row[i] EXCEPT !.status = "pending"].status = "pending"
    BY <1>1, SMT DEF Row
  <2> QED BY <2>1, Zenon DEF AfterTimeouts
<1> HIDE DEF Skipped, Claimed, waiting, matching
<1>7. \A i \in Items : /\ row'[i] = row[i] \/ row'[i].status \in {"pending", "processing", "skipped"}
                       /\ i \in claimed => row'[i].status = "processing"
  BY <1>2, <1>3, <1>5, <1>6
<1>8. todo'[w] = claimed
  BY <1>1, <1>2
<1> QED BY <1>3, <1>7, <1>8 DEF SettlesNothing, Existing, Settled, WithStatus

LEMMA DocumentsFacts ==
  ASSUME NEW S \in SUBSET Items
  PROVE  /\ DocumentsOf(S) \subseteq Documents
         /\ \A i \in S : Document[i] \in DocumentsOf(S)
BY DEF DocumentsOf, Documents

LEMMA MergeTypeStep == ASSUME MergeTypeOK, [MergeNext]_allvars PROVE MergeTypeOK'
<1>1. TypeOK'
  BY MergeStepIsQueueStep, NextType DEF MergeTypeOK
<1>2. /\ work \in [Documents -> Works] /\ only \in [Documents -> Works]
      /\ fused \in [Documents -> Works] /\ taken \in [Workers -> [Documents -> Works]]
      /\ removing \in [Workers -> SUBSET Documents]
      /\ updated \subseteq Documents /\ missed \subseteq Documents
      /\ found \in [Workers -> SUBSET Items]
  BY DEF MergeTypeOK, TypeOK
<1>3. 0 \in Works /\ \A v \in Works : v < MaxWork => v + 1 \in Works
  BY MaxWorkAssumption DEF Works
<1> USE DEF MergeTypeOK
<1>4. ASSUME NEW S \in SUBSET Documents, NEW new \in BOOLEAN, IndexBatch(S, new)
      PROVE  MergeTypeOK'
  <2>1. UNCHANGED <<fused, taken, removing, missed>> /\ updated' = S
        /\ only' = [d \in Documents |-> IF d \in S THEN work'[d] ELSE only[d]]
    BY <1>4, Zenon DEF IndexBatch
  <2>2. work' \in [Documents -> Works]
    <3>1. CASE new
      <4>1. /\ work' = [d \in Documents |-> IF d \in S THEN work[d] + 1 ELSE work[d]]
            /\ \A d \in S : work[d] < MaxWork
        BY <1>4, <3>1, Zenon DEF IndexBatch
      <4> QED BY <1>2, <1>3, <4>1
    <3>2. CASE ~new
      BY <1>2, <1>4, <3>2 DEF IndexBatch
    <3> QED BY <3>1, <3>2
  <2> QED BY <1>1, <1>2, <2>1, <2>2
<1>5. CASE RequeueMerged
  <2>1. /\ UNCHANGED <<work, only, fused, taken, removing>> /\ updated' = {}
        /\ missed' \subseteq missed \cup updated
    BY <1>5 DEF RequeueMerged
  <2> QED BY <1>1, <1>2, <2>1
<1>6. ASSUME NEW w \in Workers, NEW t \in Types, NEW failed, FindMatches(w, t, failed)
      PROVE  MergeTypeOK'
  <2>1. PICK S : taken' = [taken EXCEPT ![w] = [d \in Documents |-> IF d \in S THEN only[d] ELSE 0]]
    BY <1>6, Zenon DEF FindMatches
  <2>2. [d \in Documents |-> IF d \in S THEN only[d] ELSE 0] \in [Documents -> Works]
    BY <1>2, <1>3
  <2>3. taken' \in [Workers -> [Documents -> Works]]
    BY <1>2, <2>1, <2>2
  <2>4. UNCHANGED <<work, only, fused, removing, updated>> /\ missed' \subseteq missed
    BY <1>6 DEF FindMatches
  <2> QED BY <1>1, <1>2, <2>3, <2>4
<1>7. ASSUME NEW w \in Workers, NEW S, Fuse(w, S) PROVE fused' \in [Documents -> Works]
  BY <1>2, <1>7 DEF Fuse
<1>8. ASSUME NEW w \in Workers, WriteMerged(w) PROVE MergeTypeOK'
  <2>1. DocumentsOf(Indexable(found[w])) \subseteq Documents
    BY <1>2, DocumentsFacts DEF Indexable
  <2> QED BY <1>1, <1>2, <1>7, <1>8, <2>1 DEF WriteMerged
<1>9. ASSUME NEW w \in Workers, NEW written \in SUBSET Items, WritePart(w, written)
      PROVE  MergeTypeOK'
  <2>1. DocumentsOf(found[w] \cap written) \subseteq Documents
    BY <1>2, DocumentsFacts
  <2> QED BY <1>1, <1>2, <1>7, <1>9, <2>1 DEF WritePart
<1>10. ASSUME NEW w \in Workers, RemovePlaceholders(w) PROVE MergeTypeOK'
  BY <1>1, <1>2, <1>3, <1>10 DEF RemovePlaceholders
<1>11. CASE (\E w \in Workers : Mark(w)) \/ QueueStep \/ UNCHANGED allvars
  <2>1. UNCHANGED openalex
    BY <1>11, Zenon DEF Mark, QueueStep, allvars
  <2> QED BY <1>1, <1>2, <2>1 DEF openalex
<1>12. ASSUME NEW w \in Workers, Leaves(w) PROVE MergeTypeOK'
  <2>1. [d \in Documents |-> 0] \in [Documents -> Works]
    BY <1>3
  <2>2. /\ UNCHANGED <<work, only, fused, updated, missed>>
        /\ taken' = [taken EXCEPT ![w] = [d \in Documents |-> 0]]
        /\ removing' = [removing EXCEPT ![w] = {}]
    BY <1>12, Zenon DEF Leaves
  <2>3. taken' \in [Workers -> [Documents -> Works]] /\ removing' \in [Workers -> SUBSET Documents]
    BY <1>2, <2>1, <2>2
  <2> QED BY <1>1, <1>2, <2>2, <2>3
<1> QED BY <1>4, <1>5, <1>6, <1>8, <1>9, <1>10, <1>11, <1>12 DEF MergeNext

\* Documents stay watched while nothing is reported as done or merged.
LEMMA WatchedStays ==
  ASSUME FusedInv, SettlesNothing, NEW d \in Documents, fused'[d] = fused[d]
  PROVE  Watched(d)'
<1>1. ASSUME NEW i \in Existing, row[i].match, Document[i] = d
      PROVE  Due(d)' \/ \E j \in Existing' : row'[j].match /\ Document[j] = d
  <2>1. CASE row'[i] = row[i]
    BY <1>1, <2>1 DEF Existing
  <2>2. CASE i \in Existing' \ Settled'
    BY <1>1, <2>2 DEF Due
  <2> QED BY <2>1, <2>2 DEF SettlesNothing, Existing
<1> QED BY <1>1, SettlesNothingKeeps DEF FusedInv, Watched

\* What happens outside the runs.
LEMMA OutsideFused ==
  ASSUME FusedInv, MergeTypeOK', UNCHANGED worker, UNCHANGED <<fused, taken, removing>>,
         SettlesNothing
  PROVE  FusedInv'
<1>1. UNCHANGED <<pc, todo, group, loaded, found, left, assigned>>
  BY DEF worker
<1>2. \A d \in Documents : Watched(d)'
  BY WatchedStays
<1>3. ASSUME NEW w \in Workers PROVE Fusing(w)'
  <2>1. AtWork(w)' = AtWork(w) /\ AtWork(w) \subseteq Existing \ Settled /\ Fusing(w)
    BY <1>1 DEF AtWork, FusedInv, Fusing
  <2>2. AtWork(w) \subseteq Existing' \ Settled'
    BY <2>1, SettlesNothingKeeps
  <2>3. Indexable(group[w])' = Indexable(group[w])
    BY <1>1 DEF Indexable
  <2> QED BY <1>1, <2>1, <2>2, <2>3 DEF Fusing
<1> QED BY <1>2, <1>3 DEF FusedInv

LEMMA ClaimFused ==
  ASSUME FusedInv, OneWorker, MergeTypeOK', NEW w \in Workers,
         NEW statuses \in SUBSET {"pending", "failed"}, ClaimBatch(w, statuses, Types),
         UNCHANGED openalex
  PROVE  FusedInv'
<1>1. /\ UNCHANGED <<fused, taken, removing, group, found, left>>
      /\ pc[w] = "idle" /\ pc' = [pc EXCEPT ![w] = IF todo'[w] = {} THEN "idle" ELSE "batch"]
  <2>1. PICK claimed :
          /\ todo' = [todo EXCEPT ![w] = claimed]
          /\ pc' = [pc EXCEPT ![w] = IF claimed = {} THEN "idle" ELSE "batch"]
    BY Zenon DEF ClaimBatch
  <2>2. todo'[w] = claimed
    BY <2>1 DEF FusedInv, MergeTypeOK, TypeOK
  <2> QED BY <2>1, <2>2, Zenon DEF ClaimBatch, openalex
<1>2. SettlesNothing /\ todo'[w] \subseteq Existing' \ Settled'
  BY ClaimSettles DEF FusedInv, MergeTypeOK
<1>3. pc'[w] \in {"idle", "batch"} /\ (pc'[w] = "idle" => todo'[w] = {})
  BY <1>1 DEF FusedInv, MergeTypeOK, TypeOK
<1>4. Fusing(w)'
  <2>1. group[w] = {} /\ left[w] = {} /\ removing[w] = {}
    BY <1>1 DEF FusedInv, Fusing
  <2>2. AtWork(w)' = todo'[w]
    BY <1>3 DEF AtWork
  <2> QED BY <1>1, <1>2, <1>3, <2>1, <2>2 DEF Fusing
<1>5. \A d \in Documents : Watched(d)'
  BY <1>1, <1>2, WatchedStays
<1> QED BY <1>4, <1>5 DEF FusedInv, OneWorker

LEMMA FindFused ==
  ASSUME FusedInv, OneWorker, MergeTypeOK', NEW w \in Workers, NEW t \in Types, NEW failed,
         FindMatches(w, t, failed)
  PROVE  FusedInv'
<1> DEFINE items == {i \in todo[w] : TypeOf[i] = t}
           matches == {i \in items : only[Document[i]] > 0 /\ Document[i] \notin failed}
<1>1. /\ pc[w] = "batch" /\ todo' = [todo EXCEPT ![w] = todo[w] \ items]
      /\ group' = [group EXCEPT ![w] = items] /\ found' = [found EXCEPT ![w] = matches]
      /\ pc' = [pc EXCEPT ![w] = "loaded"] /\ left' = left
      /\ taken' = [taken EXCEPT ![w] = [d \in Documents |->
                     IF d \in DocumentsOf(matches) THEN only[d] ELSE 0]]
      /\ UNCHANGED <<row, fused, removing>>
  BY Zenon DEF FindMatches, LoadGroup, tables
<1>2. /\ pc'[w] = "loaded" /\ todo'[w] = todo[w] \ items /\ group'[w] = items
      /\ found'[w] = matches /\ items \subseteq Items
      /\ \A d \in Documents : taken'[w][d] = IF d \in DocumentsOf(matches) THEN only[d] ELSE 0
  BY <1>1 DEF FusedInv, MergeTypeOK, TypeOK
<1>3. matches = {i \in items : taken'[w][Document[i]] > 0}
  <2>1. \A i \in Items : Document[i] \in Documents
    BY DEF Documents
  <2>2. \A i \in items : i \in matches <=> Document[i] \in DocumentsOf(matches)
    BY DEF DocumentsOf
  <2>3. matches \subseteq items /\ \A i \in matches : only[Document[i]] > 0
    OBVIOUS
  <2> HIDE DEF items, matches
  <2>4. \A i \in items : taken'[w][Document[i]] = IF i \in matches THEN only[Document[i]] ELSE 0
    BY <1>2, <2>1, <2>2
  <2> QED BY <2>3, <2>4
<1>4. SettlesNothing /\ Settled' = Settled /\ Existing' = Existing
  BY <1>1 DEF SettlesNothing, Settled, WithStatus, Existing
<1>5. \A d \in Documents : Watched(d)'
  BY <1>1, <1>4, WatchedStays
<1>6. AtWork(w)' = todo[w] /\ todo[w] \subseteq Existing \ Settled
  <2>1. todo[w] \subseteq Existing \ Settled
    BY DEF FusedInv, Fusing, AtWork
  <2> QED BY <1>2, <2>1 DEF AtWork
<1>7. left'[w] = {} /\ removing'[w] = {}
  BY <1>1 DEF FusedInv, Fusing
<1>8. Fusing(w)'
  BY <1>2, <1>3, <1>4, <1>6, <1>7 DEF Fusing
<1> QED BY <1>5, <1>8 DEF FusedInv, OneWorker

\* What a pipeline that ended has written, and what is left to remove for it.
LEMMA WriteFused ==
  ASSUME FusedInv, OneWorker, MergeTypeOK', NEW w \in Workers, WriteMerged(w) \/
         \E written \in SUBSET Items : WritePart(w, written)
  PROVE  FusedInv'
<1>1. PICK S \in SUBSET Items :
        /\ pc[w] = "loaded" /\ S \subseteq Indexable(group[w]) /\ Fuse(w, S)
        /\ UNCHANGED <<row, todo, group, found, taken>>
        /\ left' = [left EXCEPT ![w] = group[w]]
        /\ \/ pc' = [pc EXCEPT ![w] = "marking"] /\ S = Indexable(group[w])
           \/ pc' = [pc EXCEPT ![w] = "failing"]
        /\ \/ UNCHANGED removing
           \/ /\ removing' = [removing EXCEPT ![w] = DocumentsOf(Indexable(found[w]))]
              /\ S = Indexable(group[w])
           \/ removing' = [removing EXCEPT ![w] = DocumentsOf(found[w] \cap S)]
  <2>1. CASE WriteMerged(w)
    <3>1. Indexable(group[w]) \in SUBSET Items
      BY DEF FusedInv, MergeTypeOK, TypeOK, Indexable
    <3>2. /\ pc[w] = "loaded" /\ Fuse(w, Indexable(group[w]))
          /\ UNCHANGED <<row, todo, group, found, taken>>
          /\ left' = [left EXCEPT ![w] = group[w]]
          /\ pc' = [pc EXCEPT ![w] = "marking"]
          /\ removing' = [removing EXCEPT ![w] = DocumentsOf(Indexable(found[w]))]
      BY <2>1, Zenon DEF WriteMerged, PipelineSucceeds, tables
    <3> QED BY <3>1, <3>2
  <2>2. CASE \E written \in SUBSET Items : WritePart(w, written)
    <3>1. PICK written \in SUBSET Items : WritePart(w, written)
      BY <2>2
    <3>2. /\ pc[w] = "loaded" /\ written \subseteq Indexable(group[w]) /\ Fuse(w, written)
          /\ UNCHANGED <<row, todo, group, found, taken>>
          /\ left' = [left EXCEPT ![w] = group[w]]
          /\ pc' = [pc EXCEPT ![w] = "failing"]
          /\ \/ UNCHANGED removing
             \/ removing' = [removing EXCEPT ![w] = DocumentsOf(found[w] \cap written)]
      BY <3>1, Zenon DEF WritePart, PipelineFails, tables
    <3> QED BY <3>2
  <2> QED BY <2>1, <2>2
<1>2. /\ pc'[w] \in {"marking", "failing"} /\ left'[w] = group[w]
      /\ pc'[w] = "marking" => S = Indexable(group[w])
  BY <1>1 DEF FusedInv, MergeTypeOK, TypeOK
<1>3. /\ Fusing(w) /\ removing[w] = {} /\ group[w] \subseteq Existing \ Settled
      /\ todo[w] \subseteq Existing \ Settled /\ group[w] \subseteq Items
  BY <1>1 DEF FusedInv, Fusing, AtWork, MergeTypeOK, TypeOK
<1>4. \A d \in Documents :
        fused'[d] = IF d \in DocumentsOf(S) THEN taken[w][d] ELSE fused[d]
  BY <1>1 DEF Fuse
<1>5. SettlesNothing /\ Settled' = Settled /\ Existing' = Existing
  BY <1>1 DEF SettlesNothing, Settled, WithStatus, Existing
<1>6. ASSUME NEW d \in Documents PROVE Watched(d)'
  <2>1. CASE d \in DocumentsOf(S)
    <3>1. PICK i \in S : Document[i] = d
      BY <2>1 DEF DocumentsOf
    <3>2. i \in Existing' \ Settled'
      BY <1>1, <1>3, <1>5 DEF Indexable
    <3> QED BY <3>1, <3>2 DEF Watched, Due
  <2>2. CASE d \notin DocumentsOf(S)
    BY <1>4, <1>5, <2>2, WatchedStays
  <2> QED BY <2>1, <2>2
<1>7. found[w] = {i \in group[w] : taken[w][Document[i]] > 0}
  BY <1>1, <1>3 DEF Fusing
<1>8. removing'[w] \subseteq DocumentsOf(found[w] \cap S)
  <2>1. \/ removing'[w] = {}
        \/ removing'[w] = DocumentsOf(Indexable(found[w])) /\ S = Indexable(group[w])
        \/ removing'[w] = DocumentsOf(found[w] \cap S)
    BY <1>1, <1>3 DEF FusedInv, MergeTypeOK
  <2>2. S = Indexable(group[w]) => Indexable(found[w]) = found[w] \cap S
    BY <1>7 DEF Indexable
  <2> QED BY <2>1, <2>2
<1>9. ASSUME NEW d \in removing'[w] PROVE fused'[d] > 0
  <2>1. PICK i \in found[w] \cap S : d = Document[i]
    BY <1>8 DEF DocumentsOf
  <2>2. d \in Documents /\ d \in DocumentsOf(S) /\ taken[w][d] > 0
    BY <1>7, <2>1, DocumentsFacts
  <2> QED BY <1>4, <2>2
<1>10. pc'[w] = "marking" =>
         \A i \in Indexable(group[w]) : fused'[Document[i]] = taken[w][Document[i]]
  BY <1>1, <1>2, <1>4, DocumentsFacts
<1>11. AtWork(w)' = todo[w]
  BY <1>1, <1>2 DEF AtWork
<1>12. Indexable(group[w])' = Indexable(group[w])
  BY <1>1 DEF Indexable
<1>13. Fusing(w)'
  <2>1. todo[w] \cap group[w] = {}
    BY <1>3 DEF Fusing
  <2> QED BY <1>1, <1>2, <1>3, <1>5, <1>7, <1>9, <1>10, <1>11, <1>12, <2>1 DEF Fusing
<1> QED BY <1>6, <1>13 DEF FusedInv, OneWorker

LEMMA RemoveFused ==
  ASSUME FusedInv, OneWorker, MergeTypeOK', NEW w \in Workers, RemovePlaceholders(w)
  PROVE  FusedInv'
<1>1. UNCHANGED vars /\ UNCHANGED <<fused, taken>> /\ removing' = [removing EXCEPT ![w] = {}]
  BY Zenon DEF RemovePlaceholders
<1>2. UNCHANGED <<row, pc, todo, group, found, left>>
  BY <1>1 DEF vars
<1>3. /\ SettlesNothing /\ Settled' = Settled /\ Existing' = Existing
      /\ AtWork(w)' = AtWork(w)
  BY <1>2 DEF SettlesNothing, Settled, WithStatus, Existing, AtWork
<1>4. \A d \in Documents : Watched(d)'
  BY <1>1, <1>3, WatchedStays
<1>5. removing'[w] = {}
  BY <1>1 DEF FusedInv, MergeTypeOK
<1>6. Indexable(group[w])' = Indexable(group[w])
  BY <1>2 DEF Indexable
<1>7. Fusing(w)'
  BY <1>1, <1>2, <1>3, <1>5, <1>6 DEF FusedInv, Fusing
<1> QED BY <1>4, <1>7 DEF FusedInv, OneWorker

\* What marking item i does to the program of the run.
LEMMA MarkMoves ==
  ASSUME FusedInv, NEW w \in Workers, Mark(w)
  PROVE  /\ pc[w] \in {"marking", "failing"} /\ removing[w] = {}
         /\ UNCHANGED <<fused, taken, removing, todo, group, found>>
         /\ pc'[w] \in {"batch", "marking", "failing"}
         /\ pc'[w] = "batch" => left'[w] = {}
         /\ pc'[w] = "marking" => pc[w] = "marking"
         /\ left'[w] \subseteq group[w]
<1>1. PICK i \in Items : MarkSuccess(w, i) \/ MarkRaises(w, i) \/ MarkFailed(w, i)
  BY DEF Mark
<1>2. removing[w] = {} /\ UNCHANGED <<fused, taken, removing>>
  BY DEF Mark, openalex
<1>3. pc[w] \in {"marking", "failing"} /\ UNCHANGED <<todo, group, found>>
  BY <1>1 DEF MarkSuccess, MarkRaises, MarkFailed
<1>4. left[w] \subseteq group[w] /\ pc \in [Workers -> {"idle", "batch", "loaded", "marking", "failing"}]
      /\ left \in [Workers -> SUBSET Items]
  BY DEF FusedInv, Fusing, MergeTypeOK, TypeOK
<1>5. CASE Leave(w, i)
  BY <1>2, <1>3, <1>4, <1>5 DEF Leave
<1>6. CASE MarkRaises(w, i)
  BY <1>2, <1>3, <1>4, <1>6 DEF MarkRaises
<1> QED BY <1>1, <1>5, <1>6 DEF MarkSuccess, MarkFailed

\* Only the item that is marked changes: it is not reported as done, or it is with
\* what was merged for it, unless somebody requeued it.
LEMMA MarkRow ==
  ASSUME FusedInv, NEW w \in Workers, Mark(w)
  PROVE  \/ SettlesNothing
         \/ \E i \in left[w] \cap Indexable(group[w]) :
              /\ pc[w] = "marking" /\ ~Requeued(w, i)
              /\ left' = [left EXCEPT ![w] = left[w] \ {i}]
              /\ row'[i].status = "success" /\ (row'[i].match <=> i \in found[w])
              /\ \A j \in Items \ {i} : row'[j] = row[j]
<1>1. PICK i \in Items : MarkSuccess(w, i) \/ MarkRaises(w, i) \/ MarkFailed(w, i)
  BY DEF Mark
<1>2. row \in [Items -> Row] /\ left[w] \subseteq group[w]
  BY DEF FusedInv, MergeTypeOK, TypeOK, Fusing
<1>3. CASE row' = row
  BY <1>3 DEF SettlesNothing
<1>4. CASE MarkFailed(w, i) /\ row' # row
  <2> DEFINE failed == [row[i] EXCEPT !.status = "failed", !.result = "error"]
  <2>1. failed.status = "failed"
    BY <1>2, SMT DEF Row
  <2>2. row' = [row EXCEPT ![i] = failed]
    BY <1>4, Zenon DEF MarkFailed, Write
  <2> HIDE DEF failed
  <2>3. \A j \in Items : row'[j] = row[j] \/ row'[j].status = "failed"
    BY <1>2, <2>1, <2>2
  <2> QED BY <2>3 DEF SettlesNothing, Settled, WithStatus, Existing
<1>5. CASE MarkSuccess(w, i) /\ row' # row
  <2>1. /\ row' = [row EXCEPT ![i] = Outcome(w, i)] /\ pc[w] = "marking" /\ i \in left[w]
        /\ left' = [left EXCEPT ![w] = left[w] \ {i}] /\ ~Requeued(w, i)
    BY <1>5, Zenon DEF MarkSuccess, Write, Leave
  <2>2. /\ Outcome(w, i).match = (i \in found[w])
        /\ Outcome(w, i).status = IF i \in NoYear THEN "skipped" ELSE "success"
    BY DEF Outcome
  <2>3. row'[i] = Outcome(w, i) /\ \A j \in Items \ {i} : row'[j] = row[j]
    BY <1>2, <2>1
  <2>4. CASE i \in NoYear \cup Malformed
    <3>1. i \in Existing' \ Settled'
      BY <2>2, <2>3, <2>4 DEF Existing, Settled, WithStatus
    <3> QED BY <2>3, <3>1 DEF SettlesNothing
  <2>5. CASE i \notin NoYear \cup Malformed
    <3>1. i \in left[w] \cap Indexable(group[w]) /\ row'[i].status = "success"
      BY <1>2, <2>1, <2>2, <2>3, <2>5 DEF Indexable
    <3>2. row'[i].match <=> i \in found[w]
      BY <2>2, <2>3, Zenon
    <3> QED BY <2>1, <2>3, <3>1, <3>2
  <2> QED BY <2>4, <2>5
<1> QED BY <1>1, <1>3, <1>4, <1>5 DEF MarkRaises, tables

LEMMA MarkFused ==
  ASSUME FusedInv, OneWorker, MergeTypeOK', NEW w \in Workers, Mark(w)
  PROVE  FusedInv'
<1>1. Fusing(w) /\ left[w] \subseteq group[w] /\ group[w] \subseteq Items
  BY DEF FusedInv, Fusing, MergeTypeOK, TypeOK
<1>2. AtWork(w) = todo[w] /\ AtWork(w)' = todo[w] /\ todo[w] \cap group[w] = {}
  BY <1>1, MarkMoves DEF AtWork, Fusing
<1>3. todo[w] \subseteq Existing' \ Settled' /\ \A d \in Documents : Watched(d)'
  <2>1. CASE SettlesNothing
    <3>1. \A d \in Documents : Watched(d)'
      BY <2>1, MarkMoves, WatchedStays
    <3> QED BY <1>1, <1>2, <2>1, <3>1, SettlesNothingKeeps DEF Fusing
  <2>2. CASE ~SettlesNothing
    <3>1. PICK i \in left[w] \cap Indexable(group[w]) :
            /\ pc[w] = "marking"
            /\ row'[i].status = "success" /\ (row'[i].match <=> i \in found[w])
            /\ \A j \in Items \ {i} : row'[j] = row[j]
      BY <2>2, MarkRow
    <3>2. todo[w] \subseteq Existing' \ Settled'
      <4>1. \A j \in todo[w] : j # i /\ j \in Existing \ Settled
        BY <1>1, <1>2 DEF Fusing
      <4> QED BY <3>1, <4>1 DEF Existing, Settled, WithStatus
    <3>3. ASSUME NEW d \in Documents PROVE Watched(d)'
      <4>1. fused' = fused
        BY MarkMoves
      <4>2. CASE d = Document[i]
        <5>1. fused[d] > 0 => i \in found[w]
          BY <1>1, <3>1, <4>2 DEF Fusing
        <5>2. i \in Existing'
          BY <1>1, <3>1 DEF Existing
        <5> QED BY <3>1, <4>1, <4>2, <5>1, <5>2 DEF Watched
      <4>3. CASE d # Document[i]
        <5>1. \A j \in Existing : Document[j] = d =>
                /\ row'[j] = row[j] /\ j \in Existing'
                /\ j \notin Settled => j \notin Settled'
          BY <3>1, <4>3 DEF Existing, Settled, WithStatus
        <5> QED BY <4>1, <5>1 DEF FusedInv, Watched, Due
      <4> QED BY <4>2, <4>3
    <3> QED BY <3>2, <3>3
  <2> QED BY <2>1, <2>2
<1>4. Indexable(group[w])' = Indexable(group[w])
  BY MarkMoves DEF Indexable
<1>5. Fusing(w)'
  BY <1>1, <1>2, <1>3, <1>4, MarkMoves DEF Fusing
<1> QED BY <1>3, <1>5 DEF FusedInv, OneWorker

LEMMA LeavesFused ==
  ASSUME FusedInv, OneWorker, MergeTypeOK', NEW w \in Workers, Leaves(w)
  PROVE  FusedInv'
<1>1. ForgetBatch(w) /\ UNCHANGED fused /\ removing' = [removing EXCEPT ![w] = {}]
  BY DEF Leaves, FinishBatch, Crash
<1>2. /\ pc'[w] = "idle" /\ todo'[w] = {} /\ group'[w] = {} /\ left'[w] = {}
      /\ removing'[w] = {} /\ UNCHANGED row
  BY <1>1 DEF ForgetBatch, tables, FusedInv, MergeTypeOK, TypeOK
<1>3. SettlesNothing /\ AtWork(w)' = {}
  BY <1>2 DEF SettlesNothing, AtWork
<1>4. \A d \in Documents : Watched(d)'
  BY <1>1, <1>3, WatchedStays
<1>5. Fusing(w)'
  BY <1>2, <1>3 DEF Fusing
<1> QED BY <1>4, <1>5 DEF FusedInv, OneWorker

LEMMA QueueFused ==
  ASSUME FusedInv, OneWorker, MergeTypeOK', QueueStep
  PROVE  FusedInv'
<1>1. UNCHANGED openalex /\ UNCHANGED <<fused, taken, removing>>
  BY DEF QueueStep, openalex
<1>2. ASSUME NEW p \in Producers, Enqueue(p) PROVE FusedInv'
  <2>1. UNCHANGED worker
    BY <1>2 DEF Enqueue, LookupRow, SaveRow
  <2> QED BY <1>1, <1>2, <2>1, EnqueueSettles, OutsideFused DEF FusedInv, MergeTypeOK
<1>3. CASE \/ \E p \in Producers, i \in Items, changed \in BOOLEAN,
                initial \in InitialStatuses : StartEnqueue(p, i, changed, initial)
           \/ \E i \in Items : TimePasses(i)
  <2>1. UNCHANGED worker /\ UNCHANGED row
    BY <1>3 DEF StartEnqueue, TimePasses
  <2>2. SettlesNothing
    BY <2>1 DEF SettlesNothing
  <2> QED BY <1>1, <2>1, <2>2, OutsideFused
<1>4. CASE (\E S \in SUBSET Items : ResetToPending(S)) \/ (\E t \in Types : RetryFailedByType(t))
  <2>1. UNCHANGED worker
    BY <1>4, Zenon DEF ResetToPending, RetryFailedByType
  <2> QED BY <1>1, <1>4, <2>1, ReopenSettles, OutsideFused DEF FusedInv, MergeTypeOK
<1>5. ASSUME NEW w \in Workers, PendingRun(w, Types) \/ RetryRun(w, Types) PROVE FusedInv'
  <2>1. {"pending"} \in SUBSET {"pending", "failed"} /\ {"pending", "failed"} \in SUBSET {"pending", "failed"}
    OBVIOUS
  <2> QED BY <1>1, <1>5, <2>1, ClaimFused DEF PendingRun, RetryRun
<1> QED BY <1>2, <1>3, <1>4, <1>5 DEF QueueStep

LEMMA NextFused ==
  ASSUME FusedInv, OneWorker, [MergeNext]_allvars
  PROVE  FusedInv'
<1>1. MergeTypeOK'
  BY MergeTypeStep DEF FusedInv
<1>2. ASSUME UNCHANGED vars, UNCHANGED <<fused, taken, removing>> PROVE FusedInv'
  <2>1. UNCHANGED worker /\ UNCHANGED row
    BY <1>2 DEF vars, worker
  <2>2. SettlesNothing
    BY <2>1 DEF SettlesNothing
  <2> QED BY <1>1, <1>2, <2>1, <2>2, OutsideFused
<1>3. CASE \E S \in SUBSET Documents, new \in BOOLEAN : IndexBatch(S, new)
  <2>1. UNCHANGED vars /\ UNCHANGED <<fused, taken, removing>>
    BY <1>3, Zenon DEF IndexBatch
  <2> QED BY <1>2, <2>1
<1>4. CASE RequeueMerged
  <2>1. UNCHANGED <<fused, taken, removing>>
    BY <1>4 DEF RequeueMerged
  <2>2. CASE UNCHANGED vars
    BY <1>2, <2>1, <2>2
  <2>3. ASSUME NEW S, RequeueForOpenAlex(S) PROVE FusedInv'
    <3>1. S \in SUBSET Items
      <4>1. S \subseteq {i \in Existing : row[i].match}
        BY <2>3, Zenon DEF RequeueForOpenAlex
      <4> QED BY <4>1 DEF Existing
    <3>2. UNCHANGED worker
      BY <2>3, Zenon DEF RequeueForOpenAlex
    <3> QED BY <1>1, <2>1, <2>3, <3>1, <3>2, ReopenSettles, OutsideFused DEF FusedInv, MergeTypeOK
  <2> QED BY <1>4, <2>2, <2>3 DEF RequeueMerged
<1>5. CASE UNCHANGED allvars
  BY <1>2, <1>5 DEF allvars, openalex
<1>6. CASE QueueStep
  BY <1>1, <1>6, QueueFused
<1>7. ASSUME NEW w \in Workers, NEW t \in Types, NEW failed, FindMatches(w, t, failed)
      PROVE  FusedInv'
  BY <1>1, <1>7, FindFused
<1>8. ASSUME NEW w \in Workers,
             WriteMerged(w) \/ \E written \in SUBSET Items : WritePart(w, written)
      PROVE  FusedInv'
  BY <1>1, <1>8, WriteFused
<1>9. ASSUME NEW w \in Workers, RemovePlaceholders(w) \/ Mark(w) \/ Leaves(w) PROVE FusedInv'
  BY <1>1, <1>9, RemoveFused, MarkFused, LeavesFused
<1> QED BY <1>3, <1>4, <1>5, <1>6, <1>7, <1>8, <1>9 DEF MergeNext

LEMMA InitFused == MergeInit => FusedInv
<1> SUFFICES ASSUME MergeInit PROVE FusedInv
  OBVIOUS
<1>1. Init /\ TypeOK
  BY InitType DEF MergeInit
<1>2. 0 \in Works
  BY MaxWorkAssumption DEF Works
<1>3. MergeTypeOK
  BY <1>1, <1>2 DEF MergeInit, MergeTypeOK
<1>4. Settled = {}
  <2>1. NoRow.status # "success"
    BY DEF NoRow
  <2>2. \A i \in Items : row[i] = NoRow
    BY <1>1 DEF Init
  <2>3. WithStatus(Items, "success") = {}
    BY <2>1, <2>2 DEF WithStatus
  <2> QED BY <2>3 DEF Settled
<1>5. ASSUME NEW w \in Workers PROVE Fusing(w)
  BY <1>1, <1>4 DEF MergeInit, Init, Fusing, AtWork
<1>6. \A d \in Documents : Watched(d)
  BY DEF MergeInit, Watched
<1> QED BY <1>3, <1>5, <1>6 DEF FusedInv

\* The type invariant of the composition, whatever overlaps.
THEOREM MergeTypeCorrect == MergeSpec => []MergeTypeOK
<1>1. MergeInit => MergeTypeOK
  BY InitType, MaxWorkAssumption DEF MergeInit, MergeTypeOK, Works
<1>2. MergeTypeOK /\ [MergeNext]_allvars => MergeTypeOK'
  BY MergeTypeStep
<1> QED BY <1>1, <1>2, PTL DEF MergeSpec

\* A work leaves silver_openalex only when some version of it is merged.
LEMMA RemovedStep ==
  ASSUME FusedInv, OneWorker, MergeNext, NEW d \in Documents, only[d] > 0, only'[d] = 0
  PROVE  fused'[d] > 0
<1>1. MergeTypeOK /\ MergeTypeOK'
  BY MergeTypeStep DEF FusedInv
<1>2. CASE only' = only
  BY <1>2
<1>3. ASSUME NEW S \in SUBSET Documents, NEW new \in BOOLEAN, IndexBatch(S, new) PROVE FALSE
  <2>1. \A e \in Documents : only'[e] = IF e \in S THEN work'[e] ELSE only[e]
    BY <1>3 DEF IndexBatch
  <2>2. d \in S /\ work'[d] = 0
    BY <2>1
  <2>3. CASE new
    BY <1>1, <1>3, <2>2, <2>3 DEF IndexBatch, MergeTypeOK, Works
  <2>4. CASE ~new
    BY <1>1, <1>3, <2>2, <2>4 DEF IndexBatch, MergeTypeOK, Works
  <2> QED BY <2>3, <2>4
<1>4. ASSUME NEW w \in Workers, RemovePlaceholders(w) PROVE fused'[d] > 0
  <2>1. UNCHANGED fused /\ (only'[d] = only[d] \/ d \in removing[w])
    BY <1>4 DEF RemovePlaceholders
  <2> QED BY <2>1 DEF FusedInv, Fusing
<1>5. CASE \/ RequeueMerged \/ QueueStep
           \/ \E w \in Workers, t \in Types, failed \in SUBSET Documents : FindMatches(w, t, failed)
           \/ \E w \in Workers : WriteMerged(w) \/ Mark(w) \/ Leaves(w)
           \/ \E w \in Workers, written \in SUBSET Items : WritePart(w, written)
  <2>1. only' = only
    BY <1>5, Zenon DEF RequeueMerged, QueueStep, FindMatches, WriteMerged, Mark, Leaves,
                       WritePart, openalex
  <2> QED BY <1>2, <2>1
<1> QED BY <1>3, <1>4, <1>5 DEF MergeNext

\* No removal leaves a work in neither index, while runs do not overlap.
THEOREM RemovedWorksAreMerged == ASSUME OneWorker PROVE MergeSpec => RemovedOnlyAfterMerge
<1>1. FusedInv /\ [MergeNext]_allvars => FusedInv'
  BY NextFused
<1>2. FusedInv /\ [MergeNext]_allvars =>
        [\A d \in Documents : only[d] > 0 /\ only'[d] = 0 => fused'[d] > 0]_allvars
  BY RemovedStep
<1> QED BY <1>1, <1>2, InitFused, PTL DEF MergeSpec, RemovedOnlyAfterMerge

\* The run of w will not report item i as done, which waits for a later one.
Waits(w, i) == i \in Existing \ Settled /\ (i \notin Reportable(w) \/ row[i].status = "pending")

\* What a run took of a work is the version harvested last, unless the update is
\* being dealt with, has been missed or has an item of the document wait.
Taking(w) ==
  pc[w] \in {"loaded", "marking"} => \A d \in Documents :
    \/ taken[w][d] \in {0, work[d]} \/ d \in updated \cup missed
    \/ \E i \in Items : Document[i] = d /\ Waits(w, i)

DueInv ==
  /\ \A d \in Documents : only[d] \in {0, work[d]}
  /\ \A w \in Workers : Taking(w)
  /\ StaleMergeIsDue

LEMMA StaleStays ==
  ASSUME StaleMergeIsDue, SettlesNothing, UNCHANGED <<work, fused, updated, missed>>
  PROVE  StaleMergeIsDue'
BY SettlesNothingKeeps DEF StaleMergeIsDue, Reached

\* Steps outside the runs make rows wait.
LEMMA OutsideDue ==
  ASSUME DueInv, UNCHANGED worker, UNCHANGED <<work, only, fused, taken, updated, missed>>,
         \A i \in Items : row'[i] = row[i] \/ row'[i].status = "pending"
  PROVE  DueInv'
<1>1. SettlesNothing
  BY DEF SettlesNothing, Existing, Settled, WithStatus
<1>2. StaleMergeIsDue'
  BY <1>1, StaleStays DEF DueInv
<1>3. ASSUME NEW w \in Workers, NEW i \in Items, Waits(w, i) PROVE Waits(w, i)'
  <2>1. Reportable(w)' = Reportable(w)
    BY DEF worker, Reportable
  <2>2. i \in Existing' \ Settled'
    BY <1>1, <1>3, SettlesNothingKeeps DEF Waits
  <2> QED BY <1>3, <2>1, <2>2 DEF Waits
<1>4. \A w \in Workers : Taking(w)'
  BY <1>3 DEF DueInv, Taking, worker
<1> QED BY <1>2, <1>4 DEF DueInv

LEMMA EnqueueReopens ==
  ASSUME FreshInv, NEW p \in Producers, Enqueue(p)
  PROVE  \A i \in Items : row'[i] = row[i] \/ row'[i].status = "pending"
<1> DEFINE i == job[p].item
           same == [EnqueuedRow(job[p]) EXCEPT !.hash = row[i].hash]
<1>1. row \in [Items -> Row] /\ job[p].initial = "pending"
  BY DEF FreshInv, TypeOK, AskedExists, Enqueue, LookupRow, SaveRow
<1>2. EnqueuedRow(job[p]).status = "pending" /\ same.status = EnqueuedRow(job[p]).status
  BY <1>1 DEF EnqueuedRow
<1>3. \/ row' = row
      \/ row' = [row EXCEPT ![i] = EnqueuedRow(job[p])]
      \/ row' = [row EXCEPT ![i] = same]
  BY DEF Enqueue, LookupRow, SaveRow
<1> HIDE DEF i, same
<1> QED BY <1>1, <1>2, <1>3

LEMMA IndexDue ==
  ASSUME DueInv, MergeTypeOK, NEW S \in SUBSET Documents, NEW new \in BOOLEAN, IndexBatch(S, new)
  PROVE  DueInv'
<1>1. /\ UNCHANGED <<fused, taken, missed>> /\ UNCHANGED vars
      /\ updated' = S /\ updated \subseteq S
      /\ \A d \in Documents : only'[d] = IF d \in S THEN work'[d] ELSE only[d]
      /\ \A d \in Documents \ S : work'[d] = work[d]
  <2>1. CASE new
    BY <2>1 DEF IndexBatch
  <2>2. CASE ~new
    BY <2>2 DEF IndexBatch
  <2> QED BY <2>1, <2>2
<1>2. UNCHANGED <<row, pc, left, group>>
  BY <1>1 DEF vars
<1>3. Existing' = Existing /\ Settled' = Settled
  BY <1>2 DEF Existing, Settled, WithStatus
<1>4. StaleMergeIsDue'
  BY <1>1, <1>3 DEF DueInv, StaleMergeIsDue, Reached, Due
<1>5. ASSUME NEW w \in Workers PROVE Taking(w)'
  <2>1. \A i \in Items : Waits(w, i)' = Waits(w, i)
    BY <1>2, <1>3 DEF Waits, Reportable
  <2> QED BY <1>1, <1>2, <2>1 DEF DueInv, Taking
<1> QED BY <1>1, <1>4, <1>5 DEF DueInv

\* An update ends with a row that waits, or is missed, or finds a document that
\* was not merged or is to be written anew.
LEMMA RequeueDue ==
  ASSUME DueInv, FusedInv, RequeueMerged
  PROVE  DueInv'
<1> DEFINE merged == {i \in Existing : row[i].match /\ Document[i] \in updated}
<1>1. /\ updated' = {} /\ UNCHANGED <<work, only, fused, taken, removing>>
      /\ IF merged = {} THEN UNCHANGED vars ELSE RequeueForOpenAlex(merged)
      /\ missed' = missed \cup
           {d \in updated \ DocumentsOf(merged) : \E w \in Workers : taken[w][d] > 0}
  BY Zenon DEF RequeueMerged
<1>2. merged \in SUBSET Items /\ row \in [Items -> Row]
  BY DEF Existing, FusedInv, MergeTypeOK, TypeOK
<1>3. /\ UNCHANGED worker
      /\ \A i \in Items : row'[i] = row[i] \/ row'[i].status = "pending"
      /\ \A i \in merged : row'[i].status = "pending"
  <2>1. CASE merged = {}
    BY <1>1, <2>1 DEF vars, worker
  <2>2. CASE merged # {}
    <3>1. RequeueForOpenAlex(merged)
      BY <1>1, <2>2
    <3> HIDE DEF merged
    <3>2. row' = [i \in Items |-> IF i \in merged \ WithStatus(merged, "pending")
                    THEN [row[i] EXCEPT !.status = "pending", !.result = ""] ELSE row[i]]
      BY <3>1, Zenon DEF RequeueForOpenAlex
    <3>3. \A i \in Items : [row[i] EXCEPT !.status = "pending", !.result = ""].status = "pending"
      BY <1>2, SMT DEF Row
    <3>4. UNCHANGED worker
      BY <3>1, Zenon DEF RequeueForOpenAlex
    <3> QED BY <1>2, <3>2, <3>3, <3>4 DEF WithStatus
  <2> QED BY <2>1, <2>2
<1>4. SettlesNothing
  BY <1>3 DEF SettlesNothing, Existing, Settled, WithStatus
<1>5. \A i \in merged : i \in Existing' \ Settled'
  BY <1>2, <1>3 DEF Existing, Settled, WithStatus
<1>6. \A d \in DocumentsOf(merged) : \E i \in merged : Document[i] = d
  BY DEF DocumentsOf
<1>7. ASSUME NEW d \in updated \ DocumentsOf(merged), d \in Documents, fused[d] > 0
      PROVE  Due(d)
  BY <1>7 DEF FusedInv, Watched, DocumentsOf
<1> HIDE DEF merged
<1>8. ASSUME NEW d \in Documents \ missed' PROVE Reached(d)'
  <2>1. CASE d \notin updated
    BY <1>1, <1>4, <2>1, SettlesNothingKeeps DEF DueInv, StaleMergeIsDue, Reached
  <2>2. CASE d \in DocumentsOf(merged)
    BY <1>5, <1>6, <2>2 DEF Reached, Due
  <2>3. CASE d \in updated \ DocumentsOf(merged)
    <3>1. fused[d] = 0 \/ fused[d] > 0
      BY DEF FusedInv, MergeTypeOK, Works
    <3> QED BY <1>1, <1>4, <1>7, <2>3, <3>1, SettlesNothingKeeps DEF Reached
  <2> QED BY <2>1, <2>2, <2>3
<1>9. ASSUME NEW w \in Workers PROVE Taking(w)'
  <2>1. UNCHANGED <<pc, left, group, taken, work>>
    BY <1>1, <1>3 DEF worker
  <2>2. Reportable(w)' = Reportable(w)
    BY <2>1 DEF Reportable
  <2>3. ASSUME NEW i \in Items, Waits(w, i) PROVE Waits(w, i)'
    BY <1>3, <1>4, <2>2, <2>3, SettlesNothingKeeps DEF Waits
  <2>4. \A i \in merged : Waits(w, i)'
    BY <1>3, <1>5 DEF Waits
  <2>5. ASSUME NEW d \in Documents, d \in updated \cup missed, taken[w][d] # 0
        PROVE  d \in missed' \/ \E i \in Items : Document[i] = d /\ Waits(w, i)'
    <3>1. taken[w][d] > 0
      BY <2>5 DEF FusedInv, MergeTypeOK, Works
    <3> QED BY <1>1, <1>2, <1>6, <2>4, <2>5, <3>1
  <2> QED BY <1>1, <2>1, <2>3, <2>5 DEF DueInv, Taking
<1> QED BY <1>1, <1>8, <1>9 DEF DueInv, StaleMergeIsDue

LEMMA FindDue ==
  ASSUME DueInv, FusedInv, OneWorker, NEW w \in Workers, NEW t \in Types, NEW failed,
         FindMatches(w, t, failed)
  PROVE  DueInv'
<1> DEFINE items == {i \in todo[w] : TypeOf[i] = t}
<1>1. /\ UNCHANGED <<work, only, fused, updated, row>> /\ pc[w] = "batch"
      /\ missed' = missed \ DocumentsOf(items)
  BY Zenon DEF FindMatches, LoadGroup, tables
<1>2. PICK S : taken' = [taken EXCEPT ![w] = [d \in Documents |-> IF d \in S THEN only[d] ELSE 0]]
  BY Zenon DEF FindMatches
<1>3. \A d \in Documents : taken'[w][d] \in {0, only[d]}
  BY <1>2 DEF FusedInv, MergeTypeOK
<1>4. Existing' = Existing /\ Settled' = Settled
  BY <1>1 DEF Existing, Settled, WithStatus
<1>5. items \subseteq Existing \ Settled
  BY DEF FusedInv, Fusing, AtWork
<1>6. \A d \in DocumentsOf(items) : Due(d)
  BY <1>5 DEF DocumentsOf, Due
<1>7. StaleMergeIsDue'
  BY <1>1, <1>4, <1>6 DEF DueInv, StaleMergeIsDue, Reached, Due
<1>8. Taking(w)'
  BY <1>1, <1>3 DEF DueInv, Taking
<1> QED BY <1>1, <1>7, <1>8 DEF DueInv, OneWorker

LEMMA WriteDue ==
  ASSUME DueInv, FusedInv, OneWorker, NEW w \in Workers, WriteMerged(w) \/
         \E written \in SUBSET Items : WritePart(w, written)
  PROVE  DueInv'
<1>1. PICK S \in SUBSET Items :
        /\ pc[w] = "loaded" /\ S \subseteq group[w] /\ Fuse(w, S)
        /\ UNCHANGED <<row, group, taken, work, only, updated, missed>>
        /\ left' = [left EXCEPT ![w] = group[w]]
        /\ pc' = [pc EXCEPT ![w] = "marking"] \/ pc' = [pc EXCEPT ![w] = "failing"]
  <2>1. CASE WriteMerged(w)
    <3>1. Indexable(group[w]) \in SUBSET Items /\ Indexable(group[w]) \subseteq group[w]
      BY DEF FusedInv, MergeTypeOK, TypeOK, Indexable
    <3>2. /\ pc[w] = "loaded" /\ Fuse(w, Indexable(group[w]))
          /\ UNCHANGED <<row, group, taken, work, only, updated, missed>>
          /\ left' = [left EXCEPT ![w] = group[w]]
          /\ pc' = [pc EXCEPT ![w] = "marking"]
      BY <2>1, Zenon DEF WriteMerged, PipelineSucceeds, tables
    <3> QED BY <3>1, <3>2
  <2>2. CASE \E written \in SUBSET Items : WritePart(w, written)
    <3>1. PICK written \in SUBSET Items : WritePart(w, written)
      BY <2>2
    <3>2. /\ pc[w] = "loaded" /\ written \subseteq Indexable(group[w]) /\ Fuse(w, written)
          /\ UNCHANGED <<row, group, taken, work, only, updated, missed>>
          /\ left' = [left EXCEPT ![w] = group[w]]
          /\ pc' = [pc EXCEPT ![w] = "failing"]
      BY <3>1, Zenon DEF WritePart, PipelineFails, tables
    <3>3. written \subseteq group[w]
      BY <3>2 DEF Indexable
    <3> QED BY <3>2, <3>3
  <2> QED BY <2>1, <2>2
<1>2. pc'[w] \in {"marking", "failing"} /\ left'[w] = group[w]
  BY <1>1 DEF FusedInv, MergeTypeOK, TypeOK
<1>3. Existing' = Existing /\ Settled' = Settled
  BY <1>1 DEF Existing, Settled, WithStatus
<1>4. ASSUME NEW d \in Documents \ (updated \cup missed) PROVE Reached(d)'
  <2>1. CASE d \in DocumentsOf(S)
    <3>1. PICK i \in S : Document[i] = d
      BY <2>1 DEF DocumentsOf
    <3>2. i \in Existing \ Settled
      BY <1>1 DEF FusedInv, Fusing, AtWork
    <3> QED BY <1>3, <3>1, <3>2 DEF Reached, Due
  <2>2. CASE d \notin DocumentsOf(S)
    BY <1>1, <1>3, <2>2 DEF Fuse, DueInv, StaleMergeIsDue, Reached, Due
  <2> QED BY <2>1, <2>2
<1>5. Taking(w)'
  <2>1. pc'[w] = "marking" => Reportable(w)' = Reportable(w)
    BY <1>1, <1>2 DEF Reportable
  <2>2. pc'[w] = "marking" => \A i \in Items : Waits(w, i) => Waits(w, i)'
    BY <1>1, <1>3, <2>1 DEF Waits
  <2> QED BY <1>1, <1>2, <2>2 DEF DueInv, Taking
<1> QED BY <1>1, <1>4, <1>5 DEF DueInv, StaleMergeIsDue, OneWorker

LEMMA MarkDue ==
  ASSUME DueInv, FusedInv, FreshInv, OneWorker, NEW w \in Workers, Mark(w)
  PROVE  DueInv'
<1>1. UNCHANGED <<work, only, fused, taken, updated, missed>>
  BY DEF Mark, openalex
<1>2. left[w] \subseteq group[w] /\ group[w] \subseteq Items /\ pc[w] \in {"marking", "failing"}
  BY MarkMoves DEF FusedInv, Fusing, MergeTypeOK, TypeOK
<1>3. ASSUME NEW i \in left[w] \cap Indexable(group[w]), pc[w] = "marking", ~Requeued(w, i),
             left' = [left EXCEPT ![w] = left[w] \ {i}],
             \A j \in Items \ {i} : row'[j] = row[j]
      PROVE  /\ \A j \in Items : Waits(w, j) => j # i /\ Waits(w, j)'
             /\ StaleMergeIsDue'
  <2>1. row[i].status # "pending" /\ Reportable(w) = left[w]
    BY <1>3 DEF Requeued, FreshInv, SetsShape, Reportable
  <2>2. left'[w] = left[w] \ {i}
    BY <1>3 DEF FusedInv, MergeTypeOK, TypeOK
  <2>3. Reportable(w)' \subseteq left[w]
    BY <2>2, MarkMoves DEF Reportable
  <2>4. \A j \in Items \ {i} : j \in Existing \ Settled => j \in Existing' \ Settled'
    BY <1>3 DEF Existing, Settled, WithStatus
  <2>5. ASSUME NEW j \in Items, Waits(w, j) PROVE j # i /\ Waits(w, j)'
    <3>1. j # i
      BY <2>1, <2>5 DEF Waits
    <3> QED BY <1>3, <2>1, <2>3, <2>4, <2>5, <3>1 DEF Waits
  <2>6. ASSUME NEW d \in Documents \ (updated \cup missed) PROVE Reached(d)'
    <3>1. CASE d = Document[i]
      <4>1. fused[d] = taken[w][d]
        BY <1>3, <3>1 DEF FusedInv, Fusing
      <4>2. taken[w][d] \in {0, work[d]} \/ \E j \in Items : Document[j] = d /\ Waits(w, j)
        BY <1>3 DEF DueInv, Taking
      <4>3. (\E j \in Items : Document[j] = d /\ Waits(w, j)) => Due(d)'
        BY <2>5 DEF Waits, Due
      <4> QED BY <1>1, <4>1, <4>2, <4>3 DEF Reached
    <3>2. CASE d # Document[i]
      <4>1. Due(d) => Due(d)'
        BY <2>4, <3>2 DEF Due, Existing
      <4> QED BY <1>1, <4>1 DEF DueInv, StaleMergeIsDue, Reached
    <3> QED BY <3>1, <3>2
  <2> QED BY <1>1, <2>5, <2>6 DEF StaleMergeIsDue
<1>4. CASE ~SettlesNothing
  <2>1. PICK i \in left[w] \cap Indexable(group[w]) :
          /\ pc[w] = "marking" /\ ~Requeued(w, i)
          /\ left' = [left EXCEPT ![w] = left[w] \ {i}]
          /\ \A j \in Items \ {i} : row'[j] = row[j]
    BY <1>4, MarkRow
  <2>2. StaleMergeIsDue' /\ \A j \in Items : Waits(w, j) => Waits(w, j)'
    BY <1>3, <2>1
  <2>3. Taking(w)'
    BY <1>1, <2>1, <2>2 DEF DueInv, Taking
  <2> QED BY <1>1, <2>2, <2>3 DEF DueInv, OneWorker
<1>5. CASE SettlesNothing
  <2>1. StaleMergeIsDue'
    BY <1>1, <1>5, StaleStays DEF DueInv
  <2>2. ASSUME pc'[w] \in {"loaded", "marking"}, NEW j \in Items, Waits(w, j) PROVE Waits(w, j)'
    <3>1. pc[w] = "marking" /\ pc'[w] = "marking"
      BY <2>2, MarkMoves
    <3>2. PICK i \in Items : MarkSuccess(w, i)
      <4>1. PICK i \in Items : MarkSuccess(w, i) \/ MarkRaises(w, i) \/ MarkFailed(w, i)
        BY DEF Mark
      <4>2. ~MarkFailed(w, i)
        BY <3>1 DEF MarkFailed
      <4>3. ~MarkRaises(w, i)
        BY <3>1 DEF MarkRaises, FusedInv, MergeTypeOK, TypeOK
      <4> QED BY <4>1, <4>2, <4>3
    <3>3. /\ left' = [left EXCEPT ![w] = left[w] \ {i}] /\ i \in left[w]
          /\ row' = row \/ (row' = [row EXCEPT ![i] = Outcome(w, i)] /\ ~Requeued(w, i))
      BY <3>2, Zenon DEF MarkSuccess, Leave, Write
    <3>4. left'[w] = left[w] \ {i} /\ Reportable(w) = left[w] /\ Reportable(w)' = left'[w]
      BY <3>1, <3>3 DEF Reportable, FusedInv, MergeTypeOK, TypeOK
    <3>5. j \in Existing' \ Settled'
      BY <1>5, <2>2, SettlesNothingKeeps DEF Waits
    <3>6. j # i => row'[j] = row[j]
      BY <3>3 DEF FusedInv, MergeTypeOK, TypeOK
    <3>7. CASE j = i
      BY <3>4, <3>5, <3>7 DEF Waits
    <3>8. CASE j # i
      BY <2>2, <3>4, <3>5, <3>6, <3>8 DEF Waits
    <3> QED BY <3>7, <3>8
  <2>3. Taking(w)'
    <3>1. pc'[w] \in {"loaded", "marking"} => pc[w] = "marking"
      BY MarkMoves
    <3> QED BY <1>1, <2>2, <3>1 DEF DueInv, Taking
  <2> QED BY <1>1, <2>1, <2>3 DEF DueInv, OneWorker
<1> QED BY <1>4, <1>5

LEMMA QueueDue ==
  ASSUME DueInv, FusedInv, FreshInv, OneWorker, QueueStep
  PROVE  DueInv'
<1>1. UNCHANGED <<work, only, fused, taken, updated, missed>>
  BY DEF QueueStep, openalex
<1>2. ASSUME NEW p \in Producers, Enqueue(p) PROVE DueInv'
  <2>1. UNCHANGED worker
    BY <1>2 DEF Enqueue, LookupRow, SaveRow
  <2> QED BY <1>1, <1>2, <2>1, EnqueueReopens, OutsideDue
<1>3. CASE \/ \E p \in Producers, i \in Items, changed \in BOOLEAN,
                initial \in InitialStatuses : StartEnqueue(p, i, changed, initial)
           \/ \E i \in Items : TimePasses(i)
  <2>1. UNCHANGED worker /\ UNCHANGED row
    BY <1>3 DEF StartEnqueue, TimePasses
  <2> QED BY <1>1, <2>1, OutsideDue
<1>4. CASE (\E S \in SUBSET Items : ResetToPending(S)) \/ (\E t \in Types : RetryFailedByType(t))
  <2>1. UNCHANGED worker
    BY <1>4, Zenon DEF ResetToPending, RetryFailedByType
  <2>2. \A i \in Items : row'[i] = row[i] \/ row'[i].status = "pending"
    BY <1>4, ReopenSettles DEF FusedInv, MergeTypeOK
  <2> QED BY <1>1, <2>1, <2>2, OutsideDue
<1>5. ASSUME NEW w \in Workers, NEW statuses \in SUBSET {"pending", "failed"},
             ClaimBatch(w, statuses, Types)
      PROVE  DueInv'
  <2>1. StaleMergeIsDue'
    BY <1>1, <1>5, ClaimSettles, StaleStays DEF DueInv, FusedInv, MergeTypeOK
  <2>2. PICK claimed : pc' = [pc EXCEPT ![w] = IF claimed = {} THEN "idle" ELSE "batch"]
    BY <1>5, Zenon DEF ClaimBatch
  <2>3. pc'[w] \in {"idle", "batch"}
    BY <2>2 DEF FusedInv, MergeTypeOK, TypeOK
  <2>4. Taking(w)'
    BY <2>3 DEF Taking
  <2> QED BY <1>1, <2>1, <2>4 DEF DueInv, OneWorker
<1>6. {"pending"} \in SUBSET {"pending", "failed"} /\ {"pending", "failed"} \in SUBSET {"pending", "failed"}
  OBVIOUS
<1> QED BY <1>2, <1>3, <1>4, <1>5, <1>6 DEF QueueStep, PendingRun, RetryRun

LEMMA NextDue ==
  ASSUME DueInv, FusedInv, FreshInv, OneWorker, [MergeNext]_allvars
  PROVE  DueInv'
<1>1. ASSUME UNCHANGED vars, UNCHANGED <<work, fused, taken, updated, missed>>,
             \A d \in Documents : only'[d] \in {0, only[d]}
      PROVE  DueInv'
  <2>1. UNCHANGED worker /\ UNCHANGED row /\ UNCHANGED <<pc, left, group>>
    BY <1>1 DEF vars, worker
  <2>2. Existing' = Existing /\ Settled' = Settled
    BY <2>1 DEF Existing, Settled, WithStatus
  <2>3. StaleMergeIsDue'
    BY <1>1, <2>2 DEF DueInv, StaleMergeIsDue, Reached, Due
  <2>4. ASSUME NEW w \in Workers PROVE Taking(w)'
    <3>1. \A i \in Items : Waits(w, i)' = Waits(w, i)
      BY <2>1, <2>2 DEF Waits, Reportable
    <3> QED BY <1>1, <2>1, <3>1 DEF DueInv, Taking
  <2> QED BY <1>1, <2>3, <2>4 DEF DueInv
<1>2. ASSUME NEW w \in Workers, RemovePlaceholders(w) PROVE DueInv'
  BY <1>1, <1>2 DEF RemovePlaceholders
<1>3. CASE UNCHANGED allvars
  BY <1>1, <1>3 DEF allvars, openalex
<1>4. ASSUME NEW w \in Workers, Leaves(w) PROVE DueInv'
  <2>1. /\ ForgetBatch(w) /\ UNCHANGED <<work, only, fused, updated, missed>>
    BY <1>4 DEF Leaves, FinishBatch, Crash
  <2>2. pc'[w] = "idle" /\ UNCHANGED row
    BY <2>1 DEF ForgetBatch, tables, FusedInv, MergeTypeOK, TypeOK
  <2>3. Taking(w)' /\ SettlesNothing
    BY <2>2 DEF Taking, SettlesNothing
  <2> QED BY <2>1, <2>3, StaleStays DEF DueInv, OneWorker
<1>5. CASE \E S \in SUBSET Documents, new \in BOOLEAN : IndexBatch(S, new)
  BY <1>5, IndexDue DEF FusedInv
<1>6. CASE RequeueMerged
  BY <1>6, RequeueDue
<1>7. ASSUME NEW w \in Workers, NEW t \in Types, NEW failed, FindMatches(w, t, failed)
      PROVE  DueInv'
  BY <1>7, FindDue
<1>8. ASSUME NEW w \in Workers,
             WriteMerged(w) \/ \E written \in SUBSET Items : WritePart(w, written)
      PROVE  DueInv'
  BY <1>8, WriteDue
<1>9. ASSUME NEW w \in Workers, Mark(w) PROVE DueInv'
  BY <1>9, MarkDue
<1>10. CASE QueueStep
  BY <1>10, QueueDue
<1> QED BY <1>2, <1>3, <1>4, <1>5, <1>6, <1>7, <1>8, <1>9, <1>10 DEF MergeNext

\* An update of a work that is not missed reaches the silver document merged with
\* an earlier version: the document shows it, or none, or some item of it waits.
\* For any number of items, documents and versions, while runs do not overlap and
\* no backfill declares rows merged.
THEOREM StaleMergesAreDue == ASSUME Serial PROVE MergeSpec => []StaleMergeIsDue
<1>1. OneWorker
  BY DEF Serial, OneWorker
<1>2. MergeInit => FreshInv /\ DueInv
  <2>1. MergeInit => FreshInv
    BY InitFresh DEF MergeInit
  <2>2. MergeInit => DueInv
    BY DEF MergeInit, Init, DueInv, Taking, StaleMergeIsDue, Reached
  <2> QED BY <2>1, <2>2
<1>3. FusedInv /\ [MergeNext]_allvars => FusedInv'
  BY <1>1, NextFused
<1>4. FreshInv /\ [MergeNext]_allvars => FreshInv'
  BY MergeStepIsQueueStep, NextFresh
<1>5. DueInv /\ FusedInv /\ FreshInv /\ [MergeNext]_allvars => DueInv'
  BY <1>1, NextDue
<1>6. DueInv => StaleMergeIsDue
  BY DEF DueInv
<1> QED BY <1>2, <1>3, <1>4, <1>5, <1>6, InitFused, PTL DEF MergeSpec
=============================================================================

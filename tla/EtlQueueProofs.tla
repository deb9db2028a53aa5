--------------------------- MODULE EtlQueueProofs ----------------------------
(***************************************************************************)
(* Theorems about the ETL queue, for any items, workers and producers.     *)
(***************************************************************************)
EXTENDS EtlQueue, TLAPS

(***************************************************************************)
(* Type correctness                                                        *)
(***************************************************************************)

LEMMA VersionsNat ==
  MaxVersion \in Nat \ {0} /\ Versions = 0 .. MaxVersion
BY VersionAssumption DEF Versions

\* A row written by enqueue_etl_item is a row.
LEMMA EnqueuedRowType ==
  ASSUME NEW j \in Job
  PROVE  EnqueuedRow(j) \in Row
BY DEF EnqueuedRow, Job, Row, EtlStatus, EtlResult

\* So is a row whose status, or status and result, are assigned.
LEMMA AssignedRowType ==
  ASSUME NEW r \in Row, NEW status \in EtlStatus, NEW result \in EtlResult
  PROVE  /\ [r EXCEPT !.status = status] \in Row
         /\ [r EXCEPT !.status = status, !.result = result] \in Row
BY DEF Row

\* Requeueing the stale rows keeps the table well typed.
LEMMA AfterTimeoutsType ==
  ASSUME row \in [Items -> Row]
  PROVE  AfterTimeouts \in [Items -> Row]
BY DEF AfterTimeouts, Row, EtlStatus

\* Touching rows keeps the order relation on items.
LEMMA TouchType ==
  ASSUME NEW S \in SUBSET Items, older \subseteq Items \X Items
  PROVE  Touch(S) \subseteq Items \X Items
BY DEF Touch, Existing

LEMMA InitType == Init => TypeOK
<1> SUFFICES ASSUME Init PROVE TypeOK
  OBVIOUS
<1>1. 0 \in Versions
  BY VersionsNat
<1>2. NoRow \in Row
  BY <1>1 DEF NoRow, Row, EtlResult
<1>3. bronze \in [Items -> Versions] /\ silver \in [Items -> Versions]
  BY <1>1 DEF Init
<1>4. row \in [Items -> Row]
  BY <1>2 DEF Init
<1>5. loaded \in [Workers -> [Items -> Versions]]
  BY <1>1 DEF Init
<1> QED BY <1>3, <1>4, <1>5 DEF Init, TypeOK

LEMMA EnqueueType ==
  ASSUME TypeOK, NEW p \in Producers, Enqueue(p)
  PROVE  TypeOK'
<1>1. job[p] \in Job /\ job[p].item \in Items /\ {job[p].item} \in SUBSET Items
  BY DEF Enqueue, LookupRow, SaveRow, TypeOK, Job
<1>2. EnqueuedRow(job[p]) \in Row
  BY <1>1, EnqueuedRowType
<1>3. Touch({job[p].item}) \subseteq Items \X Items
  BY <1>1, TouchType DEF TypeOK
<1>4. row' \in [Items -> Row]
  <2>1. [EnqueuedRow(job[p]) EXCEPT !.hash = row[job[p].item].hash] \in Row
    BY <1>1, <1>2 DEF Row, TypeOK
  <2> QED BY <1>1, <1>2, <2>1 DEF Enqueue, LookupRow, SaveRow, TypeOK
<1>5. older' \subseteq Items \X Items
  BY <1>3 DEF Enqueue, LookupRow, SaveRow, TypeOK
<1>6. job' \in [Producers -> Job \cup {NoJob}]
  <2>1. /\ [job[p] EXCEPT !.found = "same"] \in Job
        /\ [job[p] EXCEPT !.found = "changed"] \in Job
    BY <1>1 DEF Job
  <2> QED BY <1>1, <2>1 DEF Enqueue, LookupRow, SaveRow, TypeOK
<1>7. stale' \subseteq Items
  BY DEF Enqueue, LookupRow, SaveRow, TypeOK
<1> QED
  BY <1>4, <1>5, <1>6, <1>7
  DEF Enqueue, LookupRow, SaveRow, TypeOK, worker

LEMMA StartEnqueueType ==
  ASSUME TypeOK, NEW p \in Producers, NEW i \in Items, NEW changed \in BOOLEAN,
         NEW initial \in InitialStatuses, StartEnqueue(p, i, changed, initial)
  PROVE  TypeOK'
<1>1. bronze' \in [Items -> Versions]
  <2>1. CASE changed
    <3>1. bronze[i] < MaxVersion /\ bronze' = [bronze EXCEPT ![i] = bronze[i] + 1]
      BY <2>1 DEF StartEnqueue
    <3>2. bronze[i] + 1 \in Versions
      BY <3>1, VersionsNat DEF TypeOK
    <3> QED BY <3>1, <3>2 DEF TypeOK
  <2>2. CASE ~changed
    BY <2>2 DEF StartEnqueue, TypeOK
  <2> QED BY <2>1, <2>2
<1>2. job' \in [Producers -> Job \cup {NoJob}]
  <2>1. [item |-> i, hash |-> bronze'[i], initial |-> initial, found |-> "no"] \in Job
    BY <1>1, InitialAssumption DEF Job
  <2> QED BY <2>1 DEF StartEnqueue, TypeOK
<1> QED BY <1>1, <1>2 DEF StartEnqueue, TypeOK, worker

LEMMA ReopenType ==
  ASSUME TypeOK, NEW S \in SUBSET Items, RequeueForOpenAlex(S) \/ ResetToPending(S)
  PROVE  TypeOK'
<1>1. row' \in [Items -> Row]
  <2>1. \A i \in Items : [row[i] EXCEPT !.status = "pending", !.result = ""] \in Row
    <3>1. \A i \in Items : row[i] \in Row
      BY DEF TypeOK
    <3>2. "pending" \in EtlStatus /\ "" \in EtlResult
      BY DEF EtlStatus, EtlResult
    <3> QED BY <3>1, <3>2, AssignedRowType
  <2>2. PICK R \in SUBSET Items :
          row' = [i \in Items |-> IF i \in R THEN [row[i] EXCEPT !.status = "pending", !.result = ""]
                                  ELSE row[i]]
    <3>1. CASE RequeueForOpenAlex(S)
      BY <3>1, S \ WithStatus(S, "pending") \in SUBSET Items DEF RequeueForOpenAlex
    <3>2. CASE ResetToPending(S)
      BY <3>2 DEF ResetToPending
    <3> QED BY <3>1, <3>2
  <2>3. \A i \in Items : row[i] \in Row
    BY DEF TypeOK
  <2> QED BY <2>1, <2>2, <2>3
<1>2. older' \subseteq Items \X Items
  <2>1. \A R \in SUBSET Items : Touch(R) \subseteq Items \X Items
    BY TouchType DEF TypeOK
  <2> QED BY <2>1 DEF RequeueForOpenAlex, ResetToPending, TypeOK
<1>3. stale' \subseteq Items
  BY DEF RequeueForOpenAlex, ResetToPending, TypeOK
<1> QED BY <1>1, <1>2, <1>3
  DEF RequeueForOpenAlex, ResetToPending, TypeOK, indices, worker

LEMMA AdminType ==
  ASSUME TypeOK, NEW t \in Types, RetryFailedByType(t) \/ ToggleConfig(t)
  PROVE  TypeOK'
<1>1. CASE RetryFailedByType(t)
  <2>1. row' \in [Items -> Row]
    <3>1. \A i \in Items : [row[i] EXCEPT !.status = "pending"] \in Row
      <4>1. \A i \in Items : row[i] \in Row
        BY DEF TypeOK
      <4>2. "pending" \in EtlStatus /\ "" \in EtlResult
        BY DEF EtlStatus, EtlResult
      <4> QED BY <4>1, <4>2, AssignedRowType
    <3> QED BY <1>1, <3>1 DEF RetryFailedByType, TypeOK
  <2> QED BY <1>1, <2>1 DEF RetryFailedByType, TypeOK, indices, worker
<1>2. CASE ToggleConfig(t)
  BY <1>2 DEF ToggleConfig, TypeOK, tables, indices, worker
<1> QED BY <1>1, <1>2

LEMMA TimePassesType ==
  ASSUME TypeOK, NEW i \in Items, TimePasses(i)
  PROVE  TypeOK'
<1>1. stale' \subseteq Items
  BY DEF TimePasses, TypeOK, WithStatus
<1> QED BY <1>1 DEF TimePasses, TypeOK, indices, worker

LEMMA ClaimBatchType ==
  ASSUME TypeOK, NEW w \in Workers, NEW statuses, NEW types,
         ClaimBatch(w, statuses, types)
  PROVE  TypeOK'
<1> DEFINE waiting == {i \in Items : /\ AfterTimeouts[i].status \in statuses
                                     /\ TypeOf[i] \in types}
           matching == {i \in waiting : TypeOf[i] \in enabled}
<1>1. PICK claimed \in SUBSET matching :
        /\ row' = [i \in Items |->
                     CASE i \in claimed ->
                            [AfterTimeouts[i] EXCEPT !.status = "processing"]
                       [] i \in waiting \ matching ->
                            [AfterTimeouts[i] EXCEPT !.status = "skipped",
                                                     !.result = "skipped"]
                       [] OTHER -> AfterTimeouts[i]]
        /\ older' = Touch(claimed) \cup (older \cap (claimed \X claimed))
        /\ todo' = [todo EXCEPT ![w] = claimed]
        /\ pc' = [pc EXCEPT ![w] = IF claimed = {} THEN "idle" ELSE "batch"]
  BY DEF ClaimBatch
<1>2. claimed \in SUBSET Items
  OBVIOUS
<1>3. row' \in [Items -> Row]
  <2>1. AfterTimeouts \in [Items -> Row]
    BY AfterTimeoutsType DEF TypeOK
  <2>2. \A i \in Items :
          /\ [AfterTimeouts[i] EXCEPT !.status = "processing"] \in Row
          /\ [AfterTimeouts[i] EXCEPT !.status = "skipped",
                                      !.result = "skipped"] \in Row
    BY <2>1 DEF Row, EtlStatus, EtlResult
  <2> HIDE DEF waiting, matching
  <2> QED BY <1>1, <2>1, <2>2
<1>4. older' \subseteq Items \X Items
  <2>1. Touch(claimed) \subseteq Items \X Items
    BY <1>2, TouchType DEF TypeOK
  <2> QED BY <1>1, <2>1 DEF TypeOK
<1>5. todo' \in [Workers -> SUBSET Items]
  BY <1>1, <1>2 DEF TypeOK
<1>6. pc' \in [Workers -> {"idle", "batch", "loaded", "marking", "failing"}]
  BY <1>1 DEF TypeOK
<1>7. stale' \subseteq Items
  BY DEF ClaimBatch
<1>8. UNCHANGED <<bronze, silver, enabled, job, group, loaded, found, left, assigned>>
  BY DEF ClaimBatch, indices
<1> HIDE DEF waiting, matching
<1> QED BY <1>3, <1>4, <1>5, <1>6, <1>7, <1>8 DEF TypeOK

\* A set of items is part of what its documents are made from.
LEMMA OwnContext == ASSUME NEW S \in SUBSET Items PROVE S \subseteq Context(S)
BY DEF Context

LEMMA LoadGroupType ==
  ASSUME TypeOK, NEW w \in Workers, NEW t \in Types, NEW matches \in SUBSET Items,
         LoadGroup(w, t, matches)
  PROVE  TypeOK'
<1> DEFINE items == {i \in todo[w] : TypeOf[i] = t}
<1>1. items \in SUBSET Items /\ todo[w] \ items \in SUBSET Items
  BY DEF TypeOK
<1>2. [i \in Items |-> IF i \in Context(items) THEN bronze[i] ELSE 0] \in [Items -> Versions]
  BY VersionsNat DEF TypeOK
<1>3. /\ todo' = [todo EXCEPT ![w] = todo[w] \ items]
      /\ group' = [group EXCEPT ![w] = items]
      /\ loaded' = [loaded EXCEPT ![w] =
                      [i \in Items |-> IF i \in Context(items) THEN bronze[i] ELSE 0]]
      /\ found' = [found EXCEPT ![w] = matches]
      /\ pc' = [pc EXCEPT ![w] = "loaded"]
      /\ UNCHANGED <<bronze, silver, row, older, stale, enabled, job, left, assigned>>
  BY DEF LoadGroup, tables, indices
<1> HIDE DEF items
<1> QED BY <1>1, <1>2, <1>3 DEF TypeOK

LEMMA PipelineType ==
  ASSUME TypeOK, NEW w \in Workers,
         PipelineSucceeds(w) \/ (\E written \in SUBSET Items : PipelineFails(w, written))
  PROVE  TypeOK'
<1>1. PICK S \in SUBSET Items : Merge(w, S)
  BY DEF PipelineSucceeds, PipelineFails, Indexable, TypeOK
<1>2. silver' \in [Items -> Versions]
  BY <1>1 DEF Merge, TypeOK
<1>3. /\ left' = [left EXCEPT ![w] = group[w]]
      /\ pc' = [pc EXCEPT ![w] = "marking"] \/ pc' = [pc EXCEPT ![w] = "failing"]
      /\ UNCHANGED <<bronze, enabled, job, todo, group, loaded, found, assigned,
                     row, older, stale>>
  BY DEF PipelineSucceeds, PipelineFails, tables
<1> QED BY <1>2, <1>3 DEF TypeOK

\* What marking an item writes is well typed.
LEMMA WriteType ==
  ASSUME TypeOK, NEW w \in Workers, NEW i \in Items, NEW r \in Row,
         Leave(w, i),
         Write(w, i, r) \/ UNCHANGED <<row, older, stale, assigned>>,
         UNCHANGED <<bronze, silver, enabled, job, todo, group, loaded, found>>
  PROVE  TypeOK'
<1>1. row' \in [Items -> Row]
  BY DEF Write, TypeOK
<1>2. older' \subseteq Items \X Items
  <2>1. Touch({i}) \subseteq Items \X Items
    BY TouchType DEF TypeOK
  <2> QED BY <2>1 DEF Write, TypeOK
<1>3. stale' \subseteq Items
  BY DEF Write, TypeOK
<1>5. assigned' \in [Workers -> SUBSET Items]
  <2>1. assigned' = [assigned EXCEPT ![w] = assigned[w] \cup {i}] \/ UNCHANGED assigned
    BY DEF Write
  <2>2. assigned[w] \cup {i} \in SUBSET Items
    BY DEF TypeOK
  <2> QED BY <2>1, <2>2 DEF TypeOK
<1>4. /\ left' \in [Workers -> SUBSET Items]
      /\ pc' \in [Workers -> {"idle", "batch", "loaded", "marking", "failing"}]
  BY DEF Leave, TypeOK
<1> QED BY <1>1, <1>2, <1>3, <1>4, <1>5 DEF TypeOK

\* The row mark_success writes is a row.
LEMMA OutcomeType ==
  ASSUME TypeOK, NEW w \in Workers, NEW i \in Items
  PROVE  Outcome(w, i) \in Row
<1>1. row[i].hash \in Versions
  BY DEF TypeOK, Row
<1>2. (i \in found[w]) \in BOOLEAN
  OBVIOUS
<1> DEFINE result == CASE i \in NoYear -> "skipped"
                       [] i \in found[w] \ NoYear -> "merged"
                       [] i \notin NoYear \cup found[w] ->
                            IF Indexable(group[w]) = {} THEN "unchanged" ELSE "updated"
           status == IF i \in NoYear THEN "skipped" ELSE "success"
<1>3. status \in EtlStatus /\ result \in EtlResult
  BY DEF EtlStatus, EtlResult
<1>4. Outcome(w, i) = [status |-> status, hash |-> row[i].hash,
                       match |-> i \in found[w], result |-> result]
  BY DEF Outcome
<1> HIDE DEF result, status
<1> QED BY <1>1, <1>2, <1>3, <1>4 DEF Row

LEMMA MarkType ==
  ASSUME TypeOK, NEW w \in Workers, NEW i \in Items,
         MarkSuccess(w, i) \/ MarkRaises(w, i) \/ MarkFailed(w, i)
  PROVE  TypeOK'
<1>1. ASSUME MarkSuccess(w, i) PROVE TypeOK'
  <2>1. Write(w, i, Outcome(w, i)) \/ UNCHANGED <<row, older, stale, assigned>>
    BY <1>1 DEF MarkSuccess
  <2>2. /\ Leave(w, i)
        /\ UNCHANGED <<bronze, silver, enabled, job, todo, group, loaded, found>>
    BY <1>1 DEF MarkSuccess, indices
  <2> QED BY <2>1, <2>2, OutcomeType, WriteType
<1>2. ASSUME MarkRaises(w, i) PROVE TypeOK'
  <2>1. assigned' \in [Workers -> SUBSET Items]
    <3>1. assigned' = [assigned EXCEPT ![w] = assigned[w] \cup {i}] \/ UNCHANGED assigned
      BY <1>2 DEF MarkRaises
    <3>2. assigned[w] \cup {i} \in SUBSET Items
      BY DEF TypeOK
    <3> QED BY <3>1, <3>2 DEF TypeOK
  <2> QED BY <1>2, <2>1 DEF MarkRaises, TypeOK, tables, indices
<1>3. ASSUME MarkFailed(w, i) PROVE TypeOK'
  <2> DEFINE r == [row[i] EXCEPT !.status = "failed", !.result = "error"]
  <2>1. Write(w, i, r) \/ UNCHANGED <<row, older, stale, assigned>>
    BY <1>3 DEF MarkFailed
  <2>2. /\ Leave(w, i)
        /\ UNCHANGED <<bronze, silver, enabled, job, todo, group, loaded, found>>
    BY <1>3 DEF MarkFailed, indices
  <2>3. r \in Row
    <3>1. row[i] \in Row /\ "failed" \in EtlStatus /\ "error" \in EtlResult
      BY DEF TypeOK, EtlStatus, EtlResult
    <3> QED BY <3>1, AssignedRowType
  <2> HIDE DEF r
  <2> QED BY <2>1, <2>2, <2>3, WriteType
<1> QED BY <1>1, <1>2, <1>3

LEMMA ForgetBatchType ==
  ASSUME TypeOK, NEW w \in Workers, ForgetBatch(w)
  PROVE  TypeOK'
<1>1. loaded' \in [Workers -> [Items -> Versions]]
  BY VersionsNat DEF ForgetBatch, TypeOK
<1> QED BY <1>1 DEF ForgetBatch, TypeOK, tables, indices

LEMMA NextType == TypeOK /\ [Next]_vars => TypeOK'
<1> SUFFICES ASSUME TypeOK, [Next]_vars PROVE TypeOK'
  OBVIOUS
<1>1. ASSUME NEW p \in Producers, Enqueue(p) PROVE TypeOK'
  BY <1>1, EnqueueType
<1>2. ASSUME Environment PROVE TypeOK'
  BY <1>2, StartEnqueueType, ReopenType, AdminType DEF Environment
<1>3. ASSUME NEW i \in Items, TimePasses(i) PROVE TypeOK'
  BY <1>3, TimePassesType
<1>4. ASSUME NEW w \in Workers, NEW types, PendingRun(w, types) \/ RetryRun(w, types)
      PROVE  TypeOK'
  BY <1>4, ClaimBatchType DEF PendingRun, RetryRun
<1>5. ASSUME NEW w \in Workers, Progress(w) PROVE TypeOK'
  BY <1>5, LoadGroupType, PipelineType, MarkType, ForgetBatchType
  DEF Progress, FinishBatch
<1>6. ASSUME NEW w \in Mortal, Crash(w) PROVE TypeOK'
  BY <1>6, ForgetBatchType, MortalAssumption DEF Crash
<1>7. ASSUME UNCHANGED vars PROVE TypeOK'
  BY <1>7 DEF vars, TypeOK
<1> QED BY <1>1, <1>2, <1>3, <1>4, <1>5, <1>6, <1>7 DEF Next

\* Every reachable state of the queue is well typed: whatever the interleaving,
\* a row has one of the declared statuses and results, a hash that was enqueued,
\* and a worker holds items only.
THEOREM TypeCorrect == Spec => []TypeOK
<1>1. Init => TypeOK
  BY InitType
<1>2. TypeOK /\ [Next]_vars => TypeOK'
  BY NextType
<1> QED BY <1>1, <1>2, PTL DEF Spec

(***************************************************************************)
(* A processing row is owned                                               *)
(***************************************************************************)

\* What a worker holds fits where it is.
WorkerShape ==
  \A w \in Workers :
    /\ pc[w] = "idle" => todo[w] = {}
    /\ pc[w] \in {"idle", "batch"} => left[w] = {}
    /\ left[w] \subseteq group[w]

OwnInv == TypeOK /\ WorkerShape /\ ProcessingIsOwned

\* A step keeps every processing row owned if the rows it makes processing are
\* in a worker's hands and no worker lets go of a row that stays processing.
LEMMA OwnershipKept ==
  ASSUME ProcessingIsOwned,
         \A i \in Items : row'[i].status = "processing" =>
           \/ row[i].status = "processing"
           \/ \E w \in Workers : i \in Held(w)',
         \A i \in Items, w \in Workers : i \in Held(w) =>
           i \in Held(w)' \/ row'[i].status # "processing"
  PROVE  ProcessingIsOwned'
<1> SUFFICES ASSUME NEW i \in Items, row'[i].status = "processing"
             PROVE  \E w \in Workers : i \in Held(w)'
  BY DEF ProcessingIsOwned, Orphaned
<1>1. CASE row[i].status = "processing"
  BY <1>1 DEF ProcessingIsOwned, Orphaned
<1>2. CASE row[i].status # "processing"
  BY <1>2
<1> QED BY <1>1, <1>2

\* Steps of producers, administrators and the clock.
LEMMA OutsideOwned ==
  ASSUME OwnInv, UNCHANGED worker,
         \A i \in Items : row'[i].status = "processing" =>
                           row[i].status = "processing"
  PROVE  WorkerShape' /\ ProcessingIsOwned'
<1>1. WorkerShape'
  BY DEF OwnInv, WorkerShape, worker
<1>2. \A w \in Workers : Held(w)' = Held(w)
  BY DEF Held, worker
<1>3. ProcessingIsOwned'
  BY <1>2, OwnershipKept DEF OwnInv
<1> QED BY <1>1, <1>3

LEMMA EnqueueOwned ==
  ASSUME OwnInv, NEW p \in Producers, Enqueue(p)
  PROVE  WorkerShape' /\ ProcessingIsOwned'
<1>1. UNCHANGED worker
  BY DEF Enqueue, LookupRow, SaveRow
<1>2. job[p].item \in Items /\ EnqueuedRow(job[p]).status \in {"pending", "success"}
  BY DEF Enqueue, LookupRow, SaveRow, OwnInv, TypeOK, Job, EnqueuedRow
<1>3. /\ row \in [Items -> Row]
      /\ [EnqueuedRow(job[p]) EXCEPT !.hash = row[job[p].item].hash].status
           = EnqueuedRow(job[p]).status
  BY DEF OwnInv, TypeOK, EnqueuedRow
<1>4. \A i \in Items : row'[i].status = "processing" => row[i].status = "processing"
  BY <1>2, <1>3 DEF Enqueue, LookupRow, SaveRow
<1> QED BY <1>1, <1>4, OutsideOwned

LEMMA EnvironmentOwned ==
  ASSUME OwnInv, Environment
  PROVE  WorkerShape' /\ ProcessingIsOwned'
<1>1. UNCHANGED worker
  BY DEF Environment, StartEnqueue, RequeueForOpenAlex, ResetToPending,
         RetryFailedByType, ToggleConfig
<1>2. \A i \in Items : row[i] \in Row
  BY DEF OwnInv, TypeOK
<1>3. \A i \in Items : row'[i].status = "processing" => row[i].status = "processing"
  <2>1. ASSUME NEW S \in SUBSET Items, NEW i \in Items,
               RequeueForOpenAlex(S) \/ ResetToPending(S)
        PROVE  row'[i].status \in {"pending", row[i].status}
    <3>1. /\ "pending" \in EtlStatus /\ "" \in EtlResult
          /\ row'[i] \in {row[i], [row[i] EXCEPT !.status = "pending", !.result = ""]}
      BY <2>1 DEF RequeueForOpenAlex, ResetToPending, OwnInv, TypeOK, EtlStatus, EtlResult
    <3>2. [row[i] EXCEPT !.status = "pending", !.result = ""].status = "pending"
      BY <1>2, SMT DEF Row
    <3> QED BY <3>1, <3>2
  <2>2. ASSUME NEW t \in Types, NEW i \in Items, RetryFailedByType(t)
        PROVE  row'[i].status \in {"pending", row[i].status}
    BY <1>2, <2>2 DEF RetryFailedByType, Row
  <2>3. ASSUME NEW t \in Types, ToggleConfig(t) PROVE UNCHANGED row
    BY <2>3 DEF ToggleConfig, tables
  <2>4. ASSUME NEW p \in Producers, NEW i \in Items, NEW changed \in BOOLEAN,
               NEW initial \in InitialStatuses, StartEnqueue(p, i, changed, initial)
        PROVE  UNCHANGED row
    BY <2>4 DEF StartEnqueue
  <2> QED BY <2>1, <2>2, <2>3, <2>4 DEF Environment
<1> QED BY <1>1, <1>3, OutsideOwned

LEMMA ClaimOwned ==
  ASSUME OwnInv, NEW w \in Workers, NEW statuses, NEW types,
         ClaimBatch(w, statuses, types)
  PROVE  WorkerShape' /\ ProcessingIsOwned'
<1>1. /\ pc[w] = "idle" /\ todo[w] = {} /\ left[w] = {} /\ UNCHANGED <<group, left>>
      /\ pc \in [Workers -> {"idle", "batch", "loaded", "marking", "failing"}]
      /\ todo \in [Workers -> SUBSET Items]
  BY DEF ClaimBatch, OwnInv, WorkerShape, TypeOK
<1>2. PICK claimed \in SUBSET Items :
        /\ todo' = [todo EXCEPT ![w] = claimed]
        /\ pc' = [pc EXCEPT ![w] = IF claimed = {} THEN "idle" ELSE "batch"]
        /\ \A i \in Items \ claimed :
             row'[i].status = "processing" => row[i].status = "processing"
  <2>1. PICK claimed \in SUBSET Items :
          /\ todo' = [todo EXCEPT ![w] = claimed]
          /\ pc' = [pc EXCEPT ![w] = IF claimed = {} THEN "idle" ELSE "batch"]
          /\ \A i \in Items \ claimed :
               row'[i] \in {AfterTimeouts[i], [AfterTimeouts[i] EXCEPT
                            !.status = "skipped", !.result = "skipped"]}
    BY DEF ClaimBatch
  <2>2. \A i \in Items : AfterTimeouts[i].status = "processing" =>
                          row[i].status = "processing"
    BY DEF AfterTimeouts
  <2>3. AfterTimeouts \in [Items -> Row]
    BY AfterTimeoutsType DEF OwnInv, TypeOK
  <2>4. \A i \in Items : [AfterTimeouts[i] EXCEPT !.status = "skipped",
                          !.result = "skipped"].status = "skipped"
    BY <2>3, SMT DEF Row
  <2>5. ASSUME NEW i \in Items \ claimed, row'[i].status = "processing"
        PROVE  row[i].status = "processing"
    <3>1. CASE row'[i] = AfterTimeouts[i]
      BY <2>2, <2>5, <3>1
    <3>2. CASE row'[i] = [AfterTimeouts[i] EXCEPT !.status = "skipped", !.result = "skipped"]
      BY <2>4, <2>5, <3>2
    <3> QED BY <2>1, <3>1, <3>2
  <2> QED BY <2>1, <2>5
<1>3. WorkerShape'
  BY <1>1, <1>2 DEF OwnInv, WorkerShape
<1>4. Held(w) = {} /\ claimed \subseteq Held(w)'
  BY <1>1, <1>2 DEF Held
<1>5. \A v \in Workers \ {w} : Held(v)' = Held(v)
  BY <1>1, <1>2 DEF Held
<1>6. ProcessingIsOwned'
  BY <1>2, <1>4, <1>5, OwnershipKept DEF OwnInv
<1> QED BY <1>3, <1>6

LEMMA LoadGroupOwned ==
  ASSUME OwnInv, NEW w \in Workers, NEW t \in Types, NEW matches \in SUBSET Items,
         LoadGroup(w, t, matches)
  PROVE  WorkerShape' /\ ProcessingIsOwned'
<1> DEFINE items == {i \in todo[w] : TypeOf[i] = t}
<1>1. /\ pc[w] = "batch" /\ left[w] = {} /\ UNCHANGED <<row, left>>
      /\ pc' = [pc EXCEPT ![w] = "loaded"]
      /\ todo' = [todo EXCEPT ![w] = todo[w] \ items]
      /\ group' = [group EXCEPT ![w] = items]
  BY DEF LoadGroup, OwnInv, WorkerShape, tables
<1>2. /\ pc \in [Workers -> {"idle", "batch", "loaded", "marking", "failing"}]
      /\ todo \in [Workers -> SUBSET Items] /\ group \in [Workers -> SUBSET Items]
  BY DEF OwnInv, TypeOK
<1> HIDE DEF items
<1>3. WorkerShape'
  BY <1>1, <1>2 DEF OwnInv, WorkerShape
<1>4. Held(w) \subseteq Held(w)'
  BY <1>1, <1>2 DEF Held
<1>5. \A v \in Workers \ {w} : Held(v)' = Held(v)
  BY <1>1, <1>2 DEF Held
<1> QED BY <1>1, <1>3, <1>4, <1>5, OwnershipKept DEF OwnInv

LEMMA RegroupOwned ==
  ASSUME OwnInv, NEW w \in Workers, NEW where \in {"marking", "failing"},
         pc[w] \in {"loaded", "marking"},
         pc' = [pc EXCEPT ![w] = where],
         left' = [left EXCEPT ![w] = group[w]],
         UNCHANGED <<row, todo, group>>
  PROVE  WorkerShape' /\ ProcessingIsOwned'
<1>1. /\ pc \in [Workers -> {"idle", "batch", "loaded", "marking", "failing"}]
      /\ left \in [Workers -> SUBSET Items]
  BY DEF OwnInv, TypeOK
<1>2. WorkerShape'
  BY <1>1 DEF OwnInv, WorkerShape
<1>3. Held(w) \subseteq Held(w)'
  BY <1>1 DEF Held, OwnInv, WorkerShape
<1>4. \A v \in Workers \ {w} : Held(v)' = Held(v)
  BY <1>1 DEF Held
<1> QED BY <1>2, <1>3, <1>4, OwnershipKept DEF OwnInv

LEMMA MarkOwned ==
  ASSUME OwnInv, NEW w \in Workers, NEW i \in Items, i \in left[w],
         pc[w] \in {"marking", "failing"}, Leave(w, i),
         \A j \in Items \ {i} : row'[j] = row[j],
         row'[i].status # "processing",
         UNCHANGED <<todo, group>>
  PROVE  WorkerShape' /\ ProcessingIsOwned'
<1>1. /\ pc \in [Workers -> {"idle", "batch", "loaded", "marking", "failing"}]
      /\ left \in [Workers -> SUBSET Items]
  BY DEF OwnInv, TypeOK
<1>2. WorkerShape'
  BY <1>1 DEF OwnInv, WorkerShape, Leave
<1>3. Held(w) \subseteq Held(w)' \cup {i}
  BY <1>1 DEF Held, Leave
<1>4. \A v \in Workers \ {w} : Held(v)' = Held(v)
  BY <1>1 DEF Held, Leave
<1> QED BY <1>2, <1>3, <1>4, OwnershipKept DEF OwnInv

LEMMA ProgressOwned ==
  ASSUME OwnInv, NEW w \in Workers, Progress(w)
  PROVE  WorkerShape' /\ ProcessingIsOwned'
<1>1. ASSUME NEW t \in Types, NEW matches \in SUBSET Items, LoadGroup(w, t, matches)
      PROVE  WorkerShape' /\ ProcessingIsOwned'
  BY <1>1, LoadGroupOwned
<1>2. ASSUME PipelineSucceeds(w) \/ \E written \in SUBSET Items : PipelineFails(w, written)
      PROVE  WorkerShape' /\ ProcessingIsOwned'
  <2>1. PICK where \in {"marking", "failing"} : pc' = [pc EXCEPT ![w] = where]
    BY <1>2 DEF PipelineSucceeds, PipelineFails
  <2>2. /\ pc[w] = "loaded" /\ left' = [left EXCEPT ![w] = group[w]]
        /\ UNCHANGED <<row, todo, group>>
    BY <1>2 DEF PipelineSucceeds, PipelineFails, tables
  <2> QED BY <2>1, <2>2, RegroupOwned
<1>3. ASSUME NEW i \in Items, MarkSuccess(w, i)
      PROVE  WorkerShape' /\ ProcessingIsOwned'
  <2>1. row \in [Items -> Row]
    BY DEF OwnInv, TypeOK
  <2>2. /\ i \in left[w] /\ pc[w] = "marking" /\ Leave(w, i)
        /\ UNCHANGED <<todo, group>>
        /\ \A j \in Items \ {i} : row'[j] = row[j]
        /\ (Requeued(w, i) /\ row' = row) \/ row'[i] = Outcome(w, i)
    BY <1>3, <2>1 DEF MarkSuccess, Write
  <2>3. row'[i].status # "processing"
    BY <2>2 DEF Requeued, Outcome
  <2> QED BY <2>2, <2>3, MarkOwned
<1>4. ASSUME NEW i \in Items, MarkRaises(w, i)
      PROVE  WorkerShape' /\ ProcessingIsOwned'
  BY <1>4, RegroupOwned DEF MarkRaises, tables
<1>5. ASSUME NEW i \in Items, MarkFailed(w, i)
      PROVE  WorkerShape' /\ ProcessingIsOwned'
  <2> DEFINE r == [row[i] EXCEPT !.status = "failed", !.result = "error"]
  <2>1. row \in [Items -> Row]
    BY DEF OwnInv, TypeOK
  <2>2. r.status = "failed"
    BY <2>1, SMT DEF Row
  <2>3. /\ i \in left[w] /\ pc[w] = "failing" /\ Leave(w, i)
        /\ UNCHANGED <<todo, group>>
    BY <1>5 DEF MarkFailed
  <2>4. (Requeued(w, i) /\ row' = row) \/ row' = [row EXCEPT ![i] = r]
    BY <1>5 DEF MarkFailed, Write
  <2> HIDE DEF r
  <2>5. (\A j \in Items \ {i} : row'[j] = row[j]) /\ row'[i].status # "processing"
    BY <2>1, <2>2, <2>4 DEF Requeued
  <2> QED BY <2>3, <2>5, MarkOwned
<1>6. ASSUME FinishBatch(w)
      PROVE  WorkerShape' /\ ProcessingIsOwned'
  <2>1. /\ pc[w] = "batch" /\ todo[w] = {} /\ left[w] = {}
        /\ pc' = [pc EXCEPT ![w] = "idle"] /\ todo' = [todo EXCEPT ![w] = {}]
        /\ group' = [group EXCEPT ![w] = {}] /\ left' = [left EXCEPT ![w] = {}]
        /\ UNCHANGED row
    BY <1>6 DEF FinishBatch, ForgetBatch, OwnInv, WorkerShape, tables
  <2>2. /\ pc \in [Workers -> {"idle", "batch", "loaded", "marking", "failing"}]
        /\ todo \in [Workers -> SUBSET Items] /\ group \in [Workers -> SUBSET Items]
        /\ left \in [Workers -> SUBSET Items]
    BY DEF OwnInv, TypeOK
  <2>3. WorkerShape'
    BY <2>1, <2>2 DEF OwnInv, WorkerShape
  <2>4. Held(w) = {}
    BY <2>1 DEF Held
  <2>5. \A v \in Workers \ {w} : Held(v)' = Held(v)
    BY <2>1, <2>2 DEF Held
  <2> QED BY <2>1, <2>3, <2>4, <2>5, OwnershipKept DEF OwnInv
<1> QED BY <1>1, <1>2, <1>3, <1>4, <1>5, <1>6 DEF Progress

LEMMA NextOwned ==
  ASSUME OwnInv, [Next]_vars, Mortal = {}
  PROVE  OwnInv'
<1>1. ASSUME NEW p \in Producers, Enqueue(p) PROVE WorkerShape' /\ ProcessingIsOwned'
  BY <1>1, EnqueueOwned
<1>2. ASSUME Environment PROVE WorkerShape' /\ ProcessingIsOwned'
  BY <1>2, EnvironmentOwned
<1>3. ASSUME NEW i \in Items, TimePasses(i) PROVE WorkerShape' /\ ProcessingIsOwned'
  BY <1>3, OutsideOwned DEF TimePasses
<1>4. ASSUME NEW w \in Workers, NEW types, PendingRun(w, types) \/ RetryRun(w, types)
      PROVE  WorkerShape' /\ ProcessingIsOwned'
  BY <1>4, ClaimOwned DEF PendingRun, RetryRun
<1>5. ASSUME NEW w \in Workers, Progress(w) PROVE WorkerShape' /\ ProcessingIsOwned'
  BY <1>5, ProgressOwned
<1>6. ASSUME UNCHANGED vars PROVE WorkerShape' /\ ProcessingIsOwned'
  BY <1>6, OutsideOwned DEF vars, worker
<1>7. TypeOK'
  BY NextType DEF OwnInv
<1> QED BY <1>1, <1>2, <1>3, <1>4, <1>5, <1>6, <1>7 DEF Next, OwnInv

\* As long as no worker is killed, every processing row is in the hands of a
\* worker that will mark it: no interleaving of runs, enqueues, requeues,
\* timeouts and retries takes a row from its worker and leaves it processing.
THEOREM OwnedUnlessKilled ==
  ASSUME Mortal = {}
  PROVE  Spec => []ProcessingIsOwned
<1>1. Init => OwnInv
  <2>1. Init => WorkerShape /\ ProcessingIsOwned
    <3> SUFFICES ASSUME Init PROVE WorkerShape /\ ProcessingIsOwned
      OBVIOUS
    <3>1. WorkerShape
      BY DEF Init, WorkerShape
    <3>2. \A i \in Items : row[i].status = "absent"
      BY DEF Init, NoRow
    <3> QED BY <3>1, <3>2 DEF ProcessingIsOwned, Orphaned
  <2> QED BY <2>1, InitType DEF OwnInv
<1>2. OwnInv /\ [Next]_vars => OwnInv'
  BY NextOwned
<1>3. OwnInv => ProcessingIsOwned
  BY DEF OwnInv
<1> QED BY <1>1, <1>2, <1>3, PTL DEF Spec

(***************************************************************************)
(* A row reported as done is in the index                                  *)
(***************************************************************************)

Harvested == {i \in Items : bronze[i] > 0}

\* Nobody asks for, claims or loads a document that was never harvested, and
\* what a run is about to mark as merged is in the index.
MergedInv ==
  /\ TypeOK
  /\ Existing \subseteq Harvested
  /\ \A p \in Producers : job[p] # NoJob => job[p].item \in Harvested
  /\ \A w \in Workers :
       /\ todo[w] \cup group[w] \cup left[w] \subseteq Harvested
       /\ pc[w] = "loaded" => \A i \in group[w] : loaded[w][i] > 0
       /\ pc[w] = "marking" => \A i \in Indexable(left[w]) : silver[i] > 0
  /\ SuccessIsMerged

\* A step that neither empties an index nor writes a row out of nothing.
StepKeeps ==
  /\ TypeOK' /\ \A i \in Items : bronze[i] <= bronze'[i] /\ (silver[i] > 0 => silver'[i] > 0)
  /\ \A i \in Items :
       \/ row'[i] = row[i]
       \/ /\ i \in Harvested'
          /\ row'[i].status = "success" /\ row'[i].result # "unchanged" /\ i \notin Malformed
               => silver'[i] > 0

LEMMA RowsMerged ==
  ASSUME MergedInv, StepKeeps
  PROVE  Harvested \subseteq Harvested' /\ (Existing \subseteq Harvested)' /\ SuccessIsMerged'
<1>1. \A i \in Items : bronze[i] \in Nat /\ bronze'[i] \in Nat
  BY VersionsNat DEF MergedInv, StepKeeps, TypeOK
<1>2. Harvested \subseteq Harvested'
  BY <1>1 DEF StepKeeps, Harvested
<1>3. (Existing \subseteq Harvested)'
  BY <1>2 DEF MergedInv, StepKeeps, Existing
<1>4. SuccessIsMerged'
  <2> SUFFICES ASSUME NEW i \in Settled' PROVE silver'[i] > 0
    BY DEF SuccessIsMerged
  <2>1. /\ i \in Items /\ i \notin Malformed
        /\ row'[i].status = "success" /\ row'[i].result # "unchanged"
    BY DEF Settled, WithStatus
  <2>2. CASE row'[i] = row[i]
    <3>1. i \in Settled
      BY <2>1, <2>2 DEF Settled, WithStatus
    <3> QED BY <2>1, <3>1 DEF MergedInv, StepKeeps, SuccessIsMerged
  <2>3. CASE row'[i] # row[i]
    BY <2>1, <2>3 DEF StepKeeps
  <2> QED BY <2>2, <2>3
<1> QED BY <1>2, <1>3, <1>4

\* Steps of producers, administrators and the clock.
LEMMA OutsideMerged ==
  ASSUME MergedInv, TypeOK', UNCHANGED silver, UNCHANGED worker,
         \A i \in Items : bronze[i] <= bronze'[i],
         \A i \in Items : \/ row'[i] = row[i]
                          \/ /\ i \in Harvested'
                             /\ row'[i].status = "success" => row'[i].result = "unchanged",
         \A p \in Producers : job'[p] # NoJob => job'[p].item \in Harvested'
  PROVE  MergedInv'
<1>1. StepKeeps
  BY DEF StepKeeps
<1>2. UNCHANGED <<pc, todo, group, loaded, found, left, assigned>>
  BY DEF worker
<1>3. \A w \in Workers : Indexable(left[w])' = Indexable(left[w])
  BY <1>2 DEF Indexable
<1> QED BY <1>1, <1>2, <1>3, RowsMerged DEF MergedInv

LEMMA EnqueueMerged ==
  ASSUME MergedInv, NEW p \in Producers, Enqueue(p)
  PROVE  MergedInv'
<1> DEFINE i == job[p].item
           same == [EnqueuedRow(job[p]) EXCEPT !.hash = row[i].hash]
<1>1. /\ TypeOK' /\ UNCHANGED <<bronze, silver>> /\ UNCHANGED worker
      /\ job[p] # NoJob
  BY EnqueueType DEF MergedInv, Enqueue, LookupRow, SaveRow
<1>2. /\ job \in [Producers -> Job \cup {NoJob}] /\ row \in [Items -> Row]
      /\ job[p] \in Job /\ i \in Items /\ i \in Harvested
  BY <1>1 DEF MergedInv, TypeOK, Job
<1>3. /\ EnqueuedRow(job[p]).status = "success" => EnqueuedRow(job[p]).result = "unchanged"
      /\ same.status = EnqueuedRow(job[p]).status /\ same.result = EnqueuedRow(job[p]).result
  BY DEF EnqueuedRow
<1>4. \/ row' = row
      \/ row' = [row EXCEPT ![i] = EnqueuedRow(job[p])]
      \/ row' = [row EXCEPT ![i] = same]
  BY DEF Enqueue, LookupRow, SaveRow
<1>5. \/ job' = [job EXCEPT ![p] = NoJob]
      \/ job' = [job EXCEPT ![p] = [job[p] EXCEPT !.found = "same"]]
      \/ job' = [job EXCEPT ![p] = [job[p] EXCEPT !.found = "changed"]]
  BY DEF Enqueue, LookupRow, SaveRow
<1>6. \A f : [job[p] EXCEPT !.found = f].item = i
  BY <1>2, SMT DEF Job
<1> HIDE DEF i, same
<1>7. Harvested' = Harvested
  BY <1>1 DEF Harvested
<1>8. \A j \in Items : \/ row'[j] = row[j]
                       \/ /\ j \in Harvested'
                          /\ row'[j].status = "success" => row'[j].result = "unchanged"
  BY <1>2, <1>3, <1>4, <1>7
<1>9. \A q \in Producers : job'[q] # NoJob => job'[q].item \in Harvested'
  BY <1>2, <1>5, <1>6, <1>7 DEF MergedInv
<1>10. \A j \in Items : bronze[j] <= bronze'[j]
  BY <1>1, VersionsNat DEF MergedInv, TypeOK
<1> QED BY <1>1, <1>8, <1>9, <1>10, OutsideMerged

LEMMA EnvironmentMerged ==
  ASSUME MergedInv, Environment
  PROVE  MergedInv'
<1>1. TypeOK' /\ UNCHANGED silver /\ UNCHANGED worker
  <2>1. TypeOK'
    BY NextType DEF MergedInv, Next
  <2>2. UNCHANGED silver /\ UNCHANGED worker
    BY Zenon DEF Environment, StartEnqueue, RequeueForOpenAlex, ResetToPending,
           RetryFailedByType, ToggleConfig, indices
  <2> QED BY <2>1, <2>2
<1>2. /\ \A j \in Items : bronze[j] \in Nat /\ bronze'[j] \in Nat /\ row[j] \in Row
      /\ bronze \in [Items -> Versions] /\ row \in [Items -> Row]
      /\ job \in [Producers -> Job \cup {NoJob}]
  BY <1>1, VersionsNat DEF MergedInv, TypeOK
<1>3. ASSUME NEW p \in Producers, NEW i \in Items, NEW changed \in BOOLEAN,
             NEW initial \in InitialStatuses, StartEnqueue(p, i, changed, initial)
      PROVE  MergedInv'
  <2>1. /\ row' = row
        /\ (bronze' = bronze /\ bronze[i] > 0) \/ bronze' = [bronze EXCEPT ![i] = bronze[i] + 1]
    BY <1>3 DEF StartEnqueue
  <2>2. (\A j \in Items : bronze[j] <= bronze'[j]) /\ i \in Harvested'
    BY <1>2, <2>1 DEF Harvested
  <2>3. Harvested \subseteq Harvested'
    BY <1>2, <2>2 DEF Harvested
  <2>4. \A q \in Producers : job'[q] # NoJob => job'[q].item = i \/ job'[q] = job[q]
    BY <1>2, <1>3 DEF StartEnqueue
  <2>5. \A q \in Producers : job'[q] # NoJob => job'[q].item \in Harvested'
    BY <2>2, <2>3, <2>4 DEF MergedInv
  <2> QED BY <1>1, <2>1, <2>2, <2>5, OutsideMerged
<1>4. ASSUME UNCHANGED <<bronze, job>>,
             \A j \in Items : row'[j] = row[j] \/
                              (j \in Existing /\ row'[j].status = "pending")
      PROVE  MergedInv'
  <2>1. Harvested' = Harvested /\ \A j \in Items : bronze[j] <= bronze'[j]
    BY <1>2, <1>4 DEF Harvested
  <2>2. \A j \in Items : \/ row'[j] = row[j]
                         \/ /\ j \in Harvested'
                            /\ row'[j].status = "success" => row'[j].result = "unchanged"
    BY <1>4, <2>1 DEF MergedInv
  <2> QED BY <1>1, <1>4, <2>1, <2>2, OutsideMerged DEF MergedInv
<1>5. ASSUME NEW S \in SUBSET Items, RequeueForOpenAlex(S) \/ ResetToPending(S)
      PROVE  MergedInv'
  <2>1. \A j \in Items : [row[j] EXCEPT !.status = "pending", !.result = ""].status = "pending"
    BY <1>2, SMT DEF Row
  <2>2. S \subseteq Existing /\ UNCHANGED <<bronze, job>>
    <3>1. CASE RequeueForOpenAlex(S)
      BY <3>1, Zenon DEF RequeueForOpenAlex, indices
    <3>2. CASE ResetToPending(S)
      BY <3>2, Zenon DEF ResetToPending, indices
    <3> QED BY <1>5, <3>1, <3>2
  <2>3. ASSUME NEW j \in Items
        PROVE  row'[j] = row[j] \/ (j \in Existing /\ row'[j].status = "pending")
    <3> DEFINE reopened == [row[j] EXCEPT !.status = "pending", !.result = ""]
    <3>1. row'[j] \in {row[j], reopened} /\ (j \notin S => row'[j] = row[j])
      <4>1. CASE RequeueForOpenAlex(S)
        BY <4>1, Zenon DEF RequeueForOpenAlex
      <4>2. CASE ResetToPending(S)
        BY <4>2, Zenon DEF ResetToPending
      <4> QED BY <1>5, <4>1, <4>2
    <3>2. reopened.status = "pending"
      BY <2>1
    <3> HIDE DEF reopened
    <3> QED BY <2>2, <3>1, <3>2
  <2> QED BY <1>4, <2>2, <2>3
<1>6. ASSUME NEW t \in Types, RetryFailedByType(t)
      PROVE  MergedInv'
  <2>1. \A j \in Items : [row[j] EXCEPT !.status = "pending"].status = "pending"
    BY <1>2, SMT DEF Row
  <2>2. \A j \in Items : \/ row'[j] = row[j]
                         \/ /\ row[j].status = "failed"
                            /\ row'[j] = [row[j] EXCEPT !.status = "pending"]
    BY <1>6 DEF RetryFailedByType
  <2> QED BY <1>4, <1>6, <2>1, <2>2 DEF RetryFailedByType, indices, Existing
<1>7. ASSUME NEW t \in Types, ToggleConfig(t)
      PROVE  MergedInv'
  BY <1>4, <1>7 DEF ToggleConfig, indices, tables
<1> QED BY <1>3, <1>5, <1>6, <1>7 DEF Environment

\* Steps of a run: only worker w changes, and what it holds was harvested.
LEMMA RunMerged ==
  ASSUME MergedInv, StepKeeps, NEW w \in Workers, UNCHANGED <<bronze, job>>,
         \A v \in Workers \ {w} : /\ pc'[v] = pc[v] /\ todo'[v] = todo[v]
                                  /\ group'[v] = group[v] /\ left'[v] = left[v]
                                  /\ loaded'[v] = loaded[v],
         todo'[w] \cup group'[w] \cup left'[w] \subseteq Harvested,
         pc'[w] = "loaded" => \A i \in group'[w] : loaded'[w][i] > 0,
         pc'[w] = "marking" => \A i \in Indexable(left'[w]) : silver'[i] > 0
  PROVE  MergedInv'
<1>1. Harvested' = Harvested /\ TypeOK'
  BY DEF Harvested, StepKeeps
<1>2. \A v \in Workers : left[v] \subseteq Items /\ Indexable(left[v]) \subseteq Items
  BY DEF MergedInv, TypeOK, Indexable
<1>3. ASSUME NEW v \in Workers \ {w}
      PROVE  /\ todo'[v] \cup group'[v] \cup left'[v] \subseteq Harvested
             /\ pc'[v] = "loaded" => \A i \in group'[v] : loaded'[v][i] > 0
             /\ pc'[v] = "marking" => \A i \in Indexable(left'[v]) : silver'[i] > 0
  BY <1>2, <1>3 DEF MergedInv, StepKeeps
<1>4. \A v \in Workers : Indexable(left[v])' = Indexable(left'[v])
  BY DEF Indexable
<1> QED BY <1>1, <1>3, <1>4, RowsMerged DEF MergedInv

LEMMA ClaimMerged ==
  ASSUME MergedInv, NEW w \in Workers, NEW statuses \in SUBSET {"pending", "failed"},
         NEW types, ClaimBatch(w, statuses, types)
  PROVE  MergedInv'
<1> DEFINE Skipped(i) == [AfterTimeouts[i] EXCEPT !.status = "skipped", !.result = "skipped"]
           Claimed(i) == [AfterTimeouts[i] EXCEPT !.status = "processing"]
<1>1. /\ TypeOK /\ UNCHANGED <<bronze, silver, job, group, loaded, left>>
      /\ row \in [Items -> Row] /\ todo \in [Workers -> SUBSET Items]
      /\ pc \in [Workers -> {"idle", "batch", "loaded", "marking", "failing"}]
  BY Zenon DEF ClaimBatch, MergedInv, TypeOK, indices
<1>2. PICK claimed \in SUBSET Items :
        /\ todo' = [todo EXCEPT ![w] = claimed]
        /\ pc' = [pc EXCEPT ![w] = IF claimed = {} THEN "idle" ELSE "batch"]
        /\ \A i \in claimed : AfterTimeouts[i].status \in statuses
        /\ \A i \in Items :
             \/ row'[i] = AfterTimeouts[i]
             \/ AfterTimeouts[i].status \in statuses /\ row'[i] \in {Skipped(i), Claimed(i)}
  <2> DEFINE waiting == {i \in Items : /\ AfterTimeouts[i].status \in statuses
                                       /\ TypeOf[i] \in types}
             matching == {i \in waiting : TypeOf[i] \in enabled}
  <2>1. PICK claimed \in SUBSET matching :
          /\ todo' = [todo EXCEPT ![w] = claimed]
          /\ pc' = [pc EXCEPT ![w] = IF claimed = {} THEN "idle" ELSE "batch"]
          /\ row' = [i \in Items |-> CASE i \in claimed -> Claimed(i)
                                       [] i \in waiting \ matching -> Skipped(i)
                                       [] OTHER -> AfterTimeouts[i]]
    BY Zenon DEF ClaimBatch
  <2>2. \A i \in waiting : AfterTimeouts[i].status \in statuses
    OBVIOUS
  <2>3. claimed \subseteq waiting /\ claimed \in SUBSET Items
    OBVIOUS
  <2> HIDE DEF waiting, matching, Skipped, Claimed
  <2> QED BY <2>1, <2>2, <2>3
<1>3. AfterTimeouts \in [Items -> Row]
  BY <1>1, AfterTimeoutsType
<1>4. \A i \in Items : Skipped(i).status = "skipped" /\ Claimed(i).status = "processing"
  BY <1>3, SMT DEF Row
<1> HIDE DEF Skipped, Claimed
<1>5. \A i \in Items : AfterTimeouts[i].status # "absent" => i \in Existing
  BY DEF AfterTimeouts, Existing
<1>6. \A i \in Items : AfterTimeouts[i] = row[i] \/ AfterTimeouts[i].status = "pending"
  <2>1. \A i \in Items : [row[i] EXCEPT !.status = "pending"].status = "pending"
    BY <1>1, SMT DEF Row
  <2> QED BY <2>1, Zenon DEF AfterTimeouts
<1>7. Harvested' = Harvested /\ Existing \subseteq Harvested
  BY <1>1 DEF Harvested, MergedInv
<1>8. claimed \subseteq Harvested
  BY <1>2, <1>5, <1>7
<1>9. ASSUME NEW i \in Items, row'[i] # row[i]
      PROVE  i \in Harvested' /\ row'[i].status # "success"
  BY <1>2, <1>4, <1>5, <1>6, <1>7, <1>9
<1>10. StepKeeps
  <2>1. TypeOK' /\ \A i \in Items : bronze[i] <= bronze'[i]
    <3>1. TypeOK'
      BY <1>1, ClaimBatchType
    <3>2. \A i \in Items : bronze[i] \in Nat
      BY <1>1, VersionsNat DEF TypeOK
    <3> QED BY <1>1, <3>1, <3>2
  <2> QED BY <1>1, <1>9, <2>1 DEF StepKeeps
<1>11. todo'[w] \cup group'[w] \cup left'[w] \subseteq Harvested
  BY <1>1, <1>2, <1>8 DEF MergedInv
<1> QED BY <1>1, <1>2, <1>10, <1>11, RunMerged

LEMMA LoadGroupMerged ==
  ASSUME MergedInv, NEW w \in Workers, NEW t \in Types, NEW matches \in SUBSET Items,
         LoadGroup(w, t, matches)
  PROVE  MergedInv'
<1> DEFINE items == {i \in todo[w] : TypeOf[i] = t}
<1>0. items \in SUBSET Items /\ items \subseteq Context(items)
  BY OwnContext DEF MergedInv, TypeOK
<1>1. /\ UNCHANGED <<bronze, silver, row, job, left>>
      /\ pc' = [pc EXCEPT ![w] = "loaded"]
      /\ todo'[w] \subseteq todo[w] /\ group'[w] \subseteq todo[w]
      /\ \A i \in group'[w] : loaded'[w][i] = bronze[i]
      /\ \A v \in Workers \ {w} : /\ todo'[v] = todo[v] /\ group'[v] = group[v]
                                  /\ loaded'[v] = loaded[v]
  BY <1>0 DEF LoadGroup, MergedInv, TypeOK, tables, indices
<1>2. /\ pc \in [Workers -> {"idle", "batch", "loaded", "marking", "failing"}]
      /\ \A i \in Items : bronze[i] \in Nat /\ bronze[i] <= bronze'[i]
      /\ TypeOK'
  BY <1>1, LoadGroupType, VersionsNat DEF MergedInv, TypeOK
<1>3. StepKeeps
  BY <1>1, <1>2 DEF StepKeeps
<1>4. todo'[w] \cup group'[w] \cup left'[w] \subseteq Harvested
  BY <1>1 DEF MergedInv
<1>5. \A i \in group'[w] : loaded'[w][i] > 0
  BY <1>1, <1>4 DEF Harvested
<1> QED BY <1>1, <1>2, <1>3, <1>4, <1>5, RunMerged

LEMMA PipelineMerged ==
  ASSUME MergedInv, NEW w \in Workers,
         \/ PipelineSucceeds(w)
         \/ \E written \in SUBSET Items : PipelineFails(w, written)
  PROVE  MergedInv'
<1>1. PICK S \in SUBSET Indexable(group[w]), where \in {"marking", "failing"} :
        /\ pc[w] = "loaded" /\ Merge(w, S) /\ pc' = [pc EXCEPT ![w] = where]
        /\ left' = [left EXCEPT ![w] = group[w]]
        /\ where = "marking" => S = Indexable(group[w])
        /\ UNCHANGED <<bronze, row, job, todo, group, loaded>>
  <2>1. CASE PipelineSucceeds(w)
    BY <2>1, Zenon DEF PipelineSucceeds, tables
  <2>2. ASSUME NEW written \in SUBSET Items, PipelineFails(w, written)
        PROVE  \E S \in SUBSET Indexable(group[w]) : 
                 /\ pc[w] = "loaded" /\ Merge(w, S) /\ pc' = [pc EXCEPT ![w] = "failing"]
                 /\ left' = [left EXCEPT ![w] = group[w]]
                 /\ UNCHANGED <<bronze, row, job, todo, group, loaded>>
    BY <2>2, Zenon DEF PipelineFails, tables
  <2> QED BY <2>1, <2>2
<1>2. /\ pc \in [Workers -> {"idle", "batch", "loaded", "marking", "failing"}]
      /\ left \in [Workers -> SUBSET Items] /\ group[w] \subseteq Items
      /\ \A i \in Items : bronze[i] \in Nat
      /\ \A i \in group[w] : loaded[w][i] > 0
  BY <1>1, VersionsNat DEF MergedInv, TypeOK
<1>3. TypeOK'
  BY PipelineType DEF MergedInv
<1>4. /\ \A i \in Items : silver[i] > 0 => silver'[i] > 0
      /\ \A i \in S : silver'[i] > 0
  <2>1. S \in SUBSET Items /\ S \subseteq Context(S) /\ S \subseteq group[w]
    BY <1>2, OwnContext DEF Indexable
  <2>2. \A i \in Items : silver'[i] = IF i \in Context(S) /\ loaded[w][i] > 0
                                       THEN loaded[w][i] ELSE silver[i]
    BY <1>1 DEF Merge
  <2> QED BY <1>2, <2>1, <2>2
<1>5. StepKeeps
  BY <1>1, <1>2, <1>3, <1>4 DEF StepKeeps
<1>6. /\ todo'[w] \cup group'[w] \cup left'[w] \subseteq Harvested
      /\ pc'[w] = "marking" => \A i \in Indexable(left'[w]) : silver'[i] > 0
  BY <1>1, <1>2, <1>4 DEF MergedInv
<1> QED BY <1>1, <1>2, <1>5, <1>6, RunMerged

LEMMA MarkMerged ==
  ASSUME MergedInv, NEW w \in Workers, NEW i \in Items,
         MarkSuccess(w, i) \/ MarkRaises(w, i) \/ MarkFailed(w, i)
  PROVE  MergedInv'
<1>1. /\ UNCHANGED <<bronze, silver, job, todo, group, loaded>>
      /\ pc[w] \in {"marking", "failing"} /\ i \in left[w]
      /\ pc \in [Workers -> {"idle", "batch", "loaded", "marking", "failing"}]
      /\ left \in [Workers -> SUBSET Items] /\ row \in [Items -> Row]
  BY Zenon DEF MarkSuccess, MarkRaises, MarkFailed, indices, MergedInv, TypeOK
<1>2. \/ MarkRaises(w, i) /\ left' = [left EXCEPT ![w] = group[w]]
         /\ pc' = [pc EXCEPT ![w] = "failing"]
      \/ /\ left' = [left EXCEPT ![w] = left[w] \ {i}]
         /\ pc' = [pc EXCEPT ![w] = IF left[w] = {i} THEN "batch" ELSE pc[w]]
  BY Zenon DEF MarkSuccess, MarkRaises, MarkFailed, Leave
<1>3. /\ todo'[w] \cup group'[w] \cup left'[w] \subseteq Harvested
      /\ pc'[w] # "loaded"
      /\ pc'[w] = "marking" => pc[w] = "marking" /\ left'[w] \subseteq left[w]
      /\ \A v \in Workers \ {w} : pc'[v] = pc[v] /\ left'[v] = left[v]
  BY <1>1, <1>2 DEF MergedInv
<1>4. i \in Harvested /\ Harvested' = Harvested
  BY <1>1 DEF MergedInv, Harvested
<1>5. \A j \in Items : \/ row'[j] = row[j]
                       \/ /\ j \in Harvested'
                          /\ row'[j].status = "success" /\ row'[j].result # "unchanged"
                             /\ j \notin Malformed => silver'[j] > 0
  <2>1. CASE MarkRaises(w, i)
    BY <2>1 DEF MarkRaises, tables
  <2>2. CASE MarkFailed(w, i)
    <3> DEFINE r == [row[i] EXCEPT !.status = "failed", !.result = "error"]
    <3>1. r.status = "failed"
      BY <1>1, SMT DEF Row
    <3>2. row' = row \/ row' = [row EXCEPT ![i] = r]
      BY <2>2, Zenon DEF MarkFailed, Write
    <3> HIDE DEF r
    <3> QED BY <1>1, <1>4, <3>1, <3>2
  <2>3. CASE MarkSuccess(w, i)
    <3>1. pc[w] = "marking" /\ (row' = row \/ row' = [row EXCEPT ![i] = Outcome(w, i)])
      BY <2>3, Zenon DEF MarkSuccess, Write
    <3>2. Outcome(w, i).status = "success" => i \notin NoYear
      BY DEF Outcome
    <3>3. i \notin NoYear \cup Malformed => silver[i] > 0
      BY <1>1, <3>1 DEF MergedInv, Indexable
    <3> QED BY <1>1, <1>4, <3>1, <3>2, <3>3
  <2> QED BY <2>1, <2>2, <2>3
<1>6. StepKeeps
  <2>1. TypeOK /\ TypeOK'
    BY MarkType DEF MergedInv
  <2>2. \A j \in Items : bronze[j] <= bronze'[j]
    BY <1>1, <2>1, VersionsNat DEF TypeOK
  <2> QED BY <1>1, <1>5, <2>1, <2>2 DEF StepKeeps
<1>7. pc'[w] = "marking" => \A j \in Indexable(left'[w]) : silver'[j] > 0
  BY <1>1, <1>3 DEF MergedInv, Indexable
<1> QED BY <1>1, <1>3, <1>6, <1>7, RunMerged

LEMMA ForgetMerged ==
  ASSUME MergedInv, NEW w \in Workers, ForgetBatch(w)
  PROVE  MergedInv'
<1>1. /\ UNCHANGED <<bronze, silver, row, job>> /\ pc'[w] = "idle"
      /\ todo'[w] = {} /\ group'[w] = {} /\ left'[w] = {}
      /\ \A v \in Workers \ {w} : /\ pc'[v] = pc[v] /\ todo'[v] = todo[v]
                                  /\ group'[v] = group[v] /\ left'[v] = left[v]
                                  /\ loaded'[v] = loaded[v]
  BY DEF ForgetBatch, tables, indices, MergedInv, TypeOK
<1>2. TypeOK' /\ \A i \in Items : bronze[i] <= bronze'[i]
  <2>1. TypeOK /\ TypeOK'
    BY ForgetBatchType DEF MergedInv
  <2>2. \A i \in Items : bronze[i] \in Nat
    BY <2>1, VersionsNat DEF TypeOK
  <2> QED BY <1>1, <2>1, <2>2
<1>3. StepKeeps
  BY <1>1, <1>2 DEF StepKeeps
<1> QED BY <1>1, <1>3, RunMerged

LEMMA NextMerged == MergedInv /\ [Next]_vars => MergedInv'
<1> SUFFICES ASSUME MergedInv, [Next]_vars PROVE MergedInv'
  OBVIOUS
<1>1. ASSUME NEW p \in Producers, Enqueue(p) PROVE MergedInv'
  BY <1>1, EnqueueMerged
<1>2. ASSUME Environment PROVE MergedInv'
  BY <1>2, EnvironmentMerged
<1>3. ASSUME UNCHANGED <<bronze, silver, row, job>>, UNCHANGED worker, TypeOK'
      PROVE  MergedInv'
  <2>1. Harvested' = Harvested /\ \A i \in Items : bronze[i] <= bronze'[i]
    BY <1>3, VersionsNat DEF Harvested, MergedInv, TypeOK
  <2> QED BY <1>3, <2>1, OutsideMerged DEF MergedInv
<1>4. ASSUME NEW i \in Items, TimePasses(i) PROVE MergedInv'
  BY <1>3, <1>4, TimePassesType DEF TimePasses, indices, MergedInv
<1>5. ASSUME NEW w \in Workers, NEW types, PendingRun(w, types) \/ RetryRun(w, types)
      PROVE  MergedInv'
  BY <1>5, ClaimMerged DEF PendingRun, RetryRun
<1>6. ASSUME NEW w \in Workers, Progress(w) PROVE MergedInv'
  BY <1>6, LoadGroupMerged, PipelineMerged, MarkMerged, ForgetMerged
  DEF Progress, FinishBatch
<1>7. ASSUME NEW w \in Mortal, Crash(w) PROVE MergedInv'
  BY <1>7, ForgetMerged, MortalAssumption DEF Crash
<1>8. ASSUME UNCHANGED vars PROVE MergedInv'
  BY <1>3, <1>8, NextType DEF vars, worker, MergedInv
<1> QED BY <1>1, <1>2, <1>4, <1>5, <1>6, <1>7, <1>8 DEF Next

\* A row a run reported as done has its item in the silver index, however many
\* runs overlap, whoever reopens rows under them and whichever are killed.
THEOREM DoneIsMerged == Spec => []SuccessIsMerged
<1>1. Init => MergedInv
  <2> SUFFICES ASSUME Init PROVE MergedInv
    OBVIOUS
  <2>1. \A i \in Items : row[i].status = "absent"
    BY Zenon DEF Init, NoRow
  <2>2. Existing = {} /\ SuccessIsMerged
    BY <2>1 DEF Existing, SuccessIsMerged, Settled, WithStatus
  <2> QED BY <2>2, InitType DEF Init, MergedInv
<1>2. MergedInv /\ [Next]_vars => MergedInv'
  BY NextMerged
<1>3. MergedInv => SuccessIsMerged
  BY DEF MergedInv
<1> QED BY <1>1, <1>2, <1>3, PTL DEF Spec
=============================================================================

----------------------------- MODULE MCLiveParts -----------------------------
(* The components whose liveness is checked and that share no state, side by *)
(* side: each behaviour is one of the component that `moving` names, and the *)
(* others stay as they begin.                                                *)
EXTENDS OpenAlexSnapshot, ExportJobs, ScieloDedup

VARIABLE moving

livePartsVars == <<moving, vars, exportVars, dedupVars>>

LivePartsInit ==
  moving \in {"snapshot", "export", "dedup"} /\ Init /\ ExportInit /\ DedupInit

SnapshotMoves == moving = "snapshot" /\ Next /\ UNCHANGED <<moving, exportVars, dedupVars>>
ExportMoves == moving = "export" /\ ExportNext /\ UNCHANGED <<moving, vars, dedupVars>>
DedupMoves == moving = "dedup" /\ DedupNext /\ UNCHANGED <<moving, vars, exportVars>>

LivePartsNext == SnapshotMoves \/ ExportMoves \/ DedupMoves

\* Each component has the fairness of its own specification while it moves.
LivePartsSpec ==
  /\ LivePartsInit /\ [][LivePartsNext]_livePartsVars
  /\ \A r \in Runs :
       /\ WF_vars(moving = "snapshot" /\ \E from \in FromDates : Start(r, from))
       /\ WF_vars(moving = "snapshot" /\ (Advance(r) \/ FailPart(r) \/ FailManifest(r)))
       /\ SF_vars(moving = "snapshot" /\ Download(r, {}))
       /\ SF_vars(moving = "snapshot" /\ \E batch \in SUBSET Works : Bulk(r, batch))
       /\ SF_vars(moving = "snapshot" /\ Requeue(r))
       /\ SF_vars(moving = "snapshot" /\ MarkPartSuccess(r))
  /\ WF_exportVars(moving = "export" /\ ThreadStep)
  /\ WF_dedupVars(moving = "dedup" /\ DedupNext)

\* PartsAreHarvested of the behaviours in which the snapshot moves: whatever
\* failed on the way, published parts are harvested (harvest_openalex_works).
PublishedIsHarvested == []<>(moving = "snapshot" => AllHarvested)

(* Exports: the second pair of fields has two rows, the first has any. *)
TablesOf == {t \in [FieldPairs -> SUBSET Keys] : t[2] \in {{}, {1, 2}}}

(* Deduplication: years one apart, two apart and missing, titles alike in one   *)
(* pair, and identifiers that the year has to confirm for PIDs only.            *)
SomeRecords ==
  {r \in [doi : {0, 1}, pid : {0, 1}, year : 0 .. 3, issns : {{1}}, journal : {1},
          titles : {{1}, {2}}, type : {1}] :
     /\ r.doi + r.pid <= 1
     /\ r.year = 3 => r.doi + r.pid = 0
     /\ r.year = 0 => r.doi = 1
     /\ r.titles = {2} => r.year < 3 /\ (r.doi = 1 => r.year = 1)
     /\ r.pid = 1 => r.titles = {1}}
SomeRules == {[use |-> Strategies, year |-> {"pid"}, source |-> {}, title |-> {"doi"},
               journals |-> TRUE, tolerance |-> 1]}
AlikeTitles == {<<1, 2>>}
=============================================================================

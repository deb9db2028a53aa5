--------------------------- MODULE MCSilverMerge -----------------------------
(* One document type, and two items that are duplicates of each other.       *)
EXTENDS SilverMerge
CONSTANTS a, b, d1, t1
OneType == [i \in Items |-> t1]
Shared == [i \in Items |-> d1]

\* Bounds: the bronze document of item b does not change, and either that of item a
\* or the work goes through two versions.
FewVersions == bronze[b] <= 1 /\ bronze[a] + work[d1] <= 3

\* Bound: no enqueue_etl_item call for the version a row has, which changes nothing.
NoIdleCalls == \A p \in Producers : job[p] # NoJob => row[job[p].item].hash # job[p].hash
=============================================================================

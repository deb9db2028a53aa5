---------------------------- MODULE MCBookHarvest -----------------------------
EXTENDS BookHarvest, TLC
CONSTANTS book, chapter, other
OnePart == [d \in {chapter} |-> book]

\* Processes are interchangeable.
SameWorkers == Permutations(Workers)
\* Bound: two changes sent and handled at once, which may be of one document.
TwoAtOnce == Cardinality(tasks) + Cardinality({x \in Workers : ~Free(x)}) <= 2
NoParts == [d \in {} |-> book]
=============================================================================

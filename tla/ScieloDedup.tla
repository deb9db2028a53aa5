----------------------------- MODULE ScieloDedup ------------------------------
(***************************************************************************)
(* Deduplication of SciELO records (etl/deduplicator/scielo.py): pairs of  *)
(* records that agree in DOI, in PID or, nearly, in title are joined in a  *)
(* union-find forest, and every tree of the forest is a group that becomes *)
(* one silver document.                                                    *)
(*                                                                         *)
(* A find with path halving is a loop that changes the forest while other  *)
(* finds of the same pair hold places in it, so each turn of the loop is a *)
(* step here.  leader is an auxiliary variable, read by no step: the       *)
(* partition that the forest stands for.                                   *)
(***************************************************************************)
EXTENDS Integers

CONSTANTS
  N,           \* number of records read by the run
  Records,     \* the records there may be (see Record)
  RuleSets,    \* the rules of an EtlPipelineConfig (see Rules)
  Similar      \* pairs of titles at least fuzzy_min_similarity alike

Articles == 1 .. N
Pairs == {p \in Articles \X Articles : p[1] < p[2]}

\* doi, pid, journal: 0 when missing.  year: 0 when missing or not a number.
\* type: the SciELO document type when it is one of those the rules allow and
\* that normalise to the rules' document type, 0 otherwise.
Record == [doi : Nat, pid : Nat, year : Nat, issns : SUBSET Nat, journal : Nat,
           titles : SUBSET Nat, type : Nat]

Strategies == {"doi", "pid", "fuzzy"}

\* use: scielo_dedup_strategies; year, source, title: the prefixes whose
\* _requires_ rule is set ("fuzzy" has only source); journals: whether the
\* document type is article, the only one whose sources can match.
Rules == [use : SUBSET Strategies, year : SUBSET {"doi", "pid"},
          source : SUBSET Strategies, title : SUBSET {"doi", "pid"},
          journals : BOOLEAN, tolerance : Nat]

ASSUME SizeAssumption == N \in Nat \ {0, 1}
ASSUME InputAssumption ==
  Records \subseteq Record /\ RuleSets \subseteq Rules /\ Records # {} /\ RuleSets # {}

VARIABLES
  article,    \* article[i]: the i-th record read
  rules,      \* rules of the run
  stage,      \* strategy being applied, or where the run is otherwise
  todo,       \* pairs the strategy has still to look at
  parent,     \* the forest (UnionFind.parent)
  hand,       \* the pair in hand and where its finds are
  group,      \* group[i]: the root under which i was collected, 0 before
  leader      \* auxiliary: leader[i] is the root of i's tree

dedupVars == <<article, rules, stage, todo, parent, hand, group, leader>>

\* No pair in hand.
Free == [call |-> "none", i |-> 1, j |-> 1, u |-> 1, v |-> 1]

\* find(i) and find(j) are called for what the record says.
Finding(call, i, j) == [call |-> call, i |-> i, j |-> j, u |-> i, v |-> j]

(***************************************************************************)
(* What makes a pair of records duplicates                                 *)
(***************************************************************************)

\* Same, allowed type.
Deduplicable(a, b) == a.type # 0 /\ a.type = b.type

SameYear(a, b) == a.year > 0 /\ a.year = b.year

SameSource(a, b) ==
  \/ a.issns \cap b.issns # {}
  \/ a.journal # 0 /\ a.journal = b.journal

\* The context a shared DOI or PID must be confirmed by.
ContextMatches(s, a, b) ==
  /\ s \in rules.year => SameYear(a, b)
  /\ s \in rules.source => rules.journals /\ SameSource(a, b)
  /\ s \in rules.title => a.titles \cap b.titles # {}

YearsClose(a, b) ==
  /\ a.year # 0 /\ b.year # 0
  /\ a.year - b.year <= rules.tolerance /\ b.year - a.year <= rules.tolerance

SimilarTitles(a, b) ==
  \E t \in a.titles, u \in b.titles : t = u \/ <<t, u>> \in Similar \/ <<u, t>> \in Similar

\* The pair passes the strategy's tests.
Accepts(s, p) ==
  LET a == article[p[1]]  b == article[p[2]] IN
  /\ Deduplicable(a, b)
  /\ IF s = "fuzzy"
     THEN /\ "fuzzy" \in rules.source => a.issns \cap b.issns # {}
          /\ SimilarTitles(a, b) /\ YearsClose(a, b)
     ELSE ContextMatches(s, a, b)

\* Mutant of Candidates: pairs share a year exactly.
CandidatesOfOneYear(s) ==
  {p \in Pairs : LET a == article[p[1]]  b == article[p[2]] IN
     CASE s = "doi" -> a.doi # 0 /\ a.doi = b.doi
       [] s = "pid" -> a.pid # 0 /\ a.pid = b.pid
       [] s = "fuzzy" -> SameYear(a, b)}

\* The pairs a strategy looks at: doi_to_indices, pid_to_indices, and records that
\* share a year once each is filed under all years within the tolerance.
Candidates(s) ==
  {p \in Pairs : LET a == article[p[1]]  b == article[p[2]] IN
     CASE s = "doi" -> a.doi # 0 /\ a.doi = b.doi
       [] s = "pid" -> a.pid # 0 /\ a.pid = b.pid
       [] s = "fuzzy" -> /\ a.year # 0 /\ b.year # 0
                         /\ a.year - b.year <= 2 * rules.tolerance
                         /\ b.year - a.year <= 2 * rules.tolerance}

(***************************************************************************)
(* The run                                                                 *)
(***************************************************************************)

DedupInit ==
  /\ article = [i \in Articles |-> CHOOSE r \in Records : TRUE]
  /\ rules = CHOOSE r \in RuleSets : TRUE
  /\ stage = "idle" /\ todo = {} /\ hand = Free
  /\ parent = [i \in Articles |-> i] /\ leader = [i \in Articles |-> i]
  /\ group = [i \in Articles |-> 0]

\* find_duplicates is called.
Read ==
  /\ stage = "idle"
  /\ article' \in [Articles -> Records] /\ rules' \in RuleSets
  /\ stage' = "read"
  /\ UNCHANGED <<todo, parent, hand, group, leader>>

\* The strategies, in the order of the code.
Follows(s, t) == <<s, t>> \in {<<"read", "doi">>, <<"doi", "pid">>, <<"pid", "fuzzy">>}

Begin(s) ==
  /\ Follows(stage, s) /\ todo = {} /\ hand = Free
  /\ stage' = s /\ todo' = IF s \in rules.use THEN Candidates(s) ELSE {}
  /\ UNCHANGED <<article, rules, parent, hand, group, leader>>

\* The pairs are taken in any order; the code takes them in the order in which
\* their identifiers were met.  A DOI is tested at once, the other two after a
\* comparison of the roots.
TakePair(p) ==
  /\ hand = Free /\ p \in todo
  /\ todo' = todo \ {p}
  /\ hand' = IF stage # "doi" THEN Finding("compare", p[1], p[2])
             ELSE IF Accepts(stage, p) THEN Finding("union", p[1], p[2]) ELSE Free
  /\ UNCHANGED <<article, rules, stage, parent, group, leader>>

AtRoot(i) == parent[i] = i
Found == AtRoot(hand.u) /\ AtRoot(hand.v)

\* Mutant of HalvePath: the path is not shortened, and the find stays where it is.
HalvePathInPlace ==
  LET x == IF AtRoot(hand.u) THEN hand.v ELSE hand.u IN
  /\ hand # Free /\ ~Found
  /\ parent' = [parent EXCEPT ![x] = parent[parent[x]]]
  /\ UNCHANGED <<article, rules, stage, todo, hand, group, leader>>

\* One turn of the loop of find, for the first of the pair and then the second.
HalvePath ==
  LET x == IF AtRoot(hand.u) THEN hand.v ELSE hand.u
      up == parent[parent[x]] IN
  /\ hand # Free /\ ~Found
  /\ parent' = [parent EXCEPT ![x] = up]
  /\ hand' = IF AtRoot(hand.u) THEN [hand EXCEPT !.v = up] ELSE [hand EXCEPT !.u = up]
  /\ UNCHANGED <<article, rules, stage, todo, group, leader>>

\* Pairs that are joined already are passed over, others are tested and united.
Compare ==
  /\ hand.call = "compare" /\ Found
  /\ hand' = IF hand.u # hand.v /\ Accepts(stage, <<hand.i, hand.j>>)
             THEN Finding("union", hand.i, hand.j) ELSE Free
  /\ UNCHANGED <<article, rules, stage, todo, parent, group, leader>>

\* union: the first root is hung under the second.
Link ==
  /\ hand.call = "union" /\ Found
  /\ parent' = IF hand.u = hand.v THEN parent ELSE [parent EXCEPT ![hand.u] = hand.v]
  /\ leader' = [i \in Articles |-> IF leader[i] = hand.u THEN hand.v ELSE leader[i]]
  /\ hand' = Free
  /\ UNCHANGED <<article, rules, stage, todo, group>>

\* The records are collected under their roots, in the order of their indices.
Collect(i) ==
  /\ stage = "fuzzy" /\ todo = {} /\ hand = Free
  /\ group[i] = 0 /\ \A k \in 1 .. i - 1 : group[k] # 0
  /\ hand' = Finding("collect", i, i)
  /\ UNCHANGED <<article, rules, stage, todo, parent, group, leader>>

Collected ==
  /\ hand.call = "collect" /\ Found
  /\ group' = [group EXCEPT ![hand.i] = hand.u]
  /\ hand' = Free
  /\ stage' = IF hand.i = N THEN "done" ELSE stage
  /\ UNCHANGED <<article, rules, todo, parent, leader>>

DedupNext ==
  \/ Read
  \/ \E s \in Strategies : Begin(s)
  \/ \E p \in Pairs : TakePair(p)
  \/ HalvePath \/ Compare \/ Link
  \/ \E i \in Articles : Collect(i)
  \/ Collected

DedupSpec == DedupInit /\ [][DedupNext]_dedupVars

(***************************************************************************)
(* Properties                                                              *)
(***************************************************************************)

\* Two records are duplicates for the rules: they share what a strategy in use goes
\* by and pass its tests.
Duplicates(p) ==
  LET a == article[p[1]]  b == article[p[2]] IN
  \E s \in rules.use :
    /\ s = "doi" => a.doi # 0 /\ a.doi = b.doi
    /\ s = "pid" => a.pid # 0 /\ a.pid = b.pid
    /\ Accepts(s, p)

\* A set of records that no duplicate leaves.
Closed(S) == \A p \in Pairs : Duplicates(p) => (p[1] \in S <=> p[2] \in S)

\* Once all records are collected, two of them are in one group exactly if a chain
\* of duplicates leads from one to the other: no order of pairs, no skipped
\* comparison and no shortened path joins or separates others (find_duplicates).
GroupsAreClosure ==
  stage = "done" =>
    \A i, j \in Articles :
      group[i] = group[j] <=> \A S \in SUBSET Articles : Closed(S) /\ i \in S => j \in S

\* No find turns forever: a run that was started collects all its records, whatever
\* its paths have been shortened to (UnionFind.find, find_duplicates).
RunEnds == stage = "read" ~> stage = "done"

\* The types of the variables (UnionFind, find_duplicates).
DedupTypeOK ==
  /\ article \in [Articles -> Record] /\ rules \in Rules
  /\ stage \in {"idle", "read", "done"} \cup Strategies
  /\ todo \subseteq Pairs
  /\ parent \in [Articles -> Articles] /\ leader \in [Articles -> Articles]
  /\ group \in [Articles -> 0 .. N]
  /\ hand \in [call : {"none", "compare", "union", "collect"},
               i : Articles, j : Articles, u : Articles, v : Articles]
==============================================================================

----------------------------- MODULE SearchProofs ------------------------------
(***************************************************************************)
(* What the search pages are served from: the dates in the cache           *)
(* (FreshnessCache), the lookup indices (LookupBuild), the documents of    *)
(* the directories (DirectoryIndex) and the places and institutions their  *)
(* imports make (PlaceRegistry), for any number of pages, tasks, indices,  *)
(* builds, rows, requests and imports.  The components share no state:     *)
(* each part stands on its own.                                            *)
(***************************************************************************)
EXTENDS FreshnessCache, LookupBuild, DirectoryIndex, PlaceRegistry, FiniteSetTheorems,
        WellFoundedInduction, TLAPS

(***************************************************************************)
(* FreshnessCache: the dates that pages show                               *)
(***************************************************************************)

AllBases == 1 .. LastBasis
Dictionary == UNION {[known -> AllBases] : known \in SUBSET DatedIndices}

LEMMA DictionaryIs ==
  /\ <<>> \in Dictionary /\ DOMAIN <<>> = {}
  /\ \A x \in DatedIndices, v \in AllBases, f \in Dictionary :
       WithDate(f, x, v) \in Dictionary
<1>1. <<>> \in Dictionary /\ DOMAIN <<>> = {}
  <2>1. <<>> \in [{} -> AllBases] /\ {} \in SUBSET DatedIndices
    OBVIOUS
  <2> QED BY <2>1 DEF Dictionary
<1>2. ASSUME NEW x \in DatedIndices, NEW v \in AllBases, NEW f \in Dictionary
      PROVE  WithDate(f, x, v) \in Dictionary
  <2>1. PICK known \in SUBSET DatedIndices : f \in [known -> AllBases]
    BY DEF Dictionary
  <2>2. /\ DOMAIN f \cup {x} \in SUBSET DatedIndices
        /\ WithDate(f, x, v) \in [DOMAIN f \cup {x} -> AllBases]
    BY <2>1 DEF WithDate
  <2> QED BY <2>2 DEF Dictionary
<1> QED BY <1>1, <1>2

FreshnessType ==
  /\ basis \in [DatedIndices -> AllBases] /\ settled \in [DatedIndices -> AllBases]
  /\ cached \in Dictionary
  /\ page \in [Pages -> {"idle", "looked", "computed"}] /\ wants \in [Pages -> DatedIndices]
  /\ found \in [Pages -> Dictionary] /\ value \in [Pages -> 0 .. LastBasis]
  /\ \A p \in Pages : page[p] = "computed" => value[p] \in AllBases
  /\ ending \in [Tasks -> {"idle", "marked"}] /\ behind \subseteq Pages /\ tainted \in BOOLEAN

LEMMA FreshnessInitType == FreshnessInit => FreshnessType
<1>1. 1 \in AllBases /\ 0 \in 0 .. LastBasis /\ SilverIndex \in DatedIndices
  BY FreshnessAssumption DEF AllBases
<1> QED BY <1>1, DictionaryIs DEF FreshnessInit, FreshnessType

LEMMA FreshnessNextType ==
  FreshnessType /\ [FreshnessNext]_freshnessVars => FreshnessType'
<1> SUFFICES ASSUME FreshnessType, [FreshnessNext]_freshnessVars PROVE FreshnessType'
  OBVIOUS
<1>1. /\ AllBases \subseteq 0 .. LastBasis /\ SilverIndex \in DatedIndices /\ 0 \in 0 .. LastBasis
      /\ \A v \in AllBases : v \in Int /\ (v < LastBasis => v + 1 \in AllBases)
  BY FreshnessAssumption DEF AllBases
<1>2. ASSUME NEW x \in DatedIndices, Renew(x) PROVE basis' \in [DatedIndices -> AllBases]
  BY <1>1, <1>2 DEF Renew, FreshnessType
<1>11. ASSUME NEW x \in DatedIndices, Change(x) PROVE FreshnessType'
  BY <1>2, <1>11 DEF Change, FreshnessType, pageVars
<1>12. ASSUME Unmark PROVE FreshnessType'
  BY <1>1, <1>2, <1>12 DEF Unmark, FreshnessType, pageVars
<1>3. ASSUME NEW t \in Tasks, Mark(t) PROVE FreshnessType'
  <2>1. basis' \in [DatedIndices -> AllBases]
    BY <1>1, <1>2, <1>3 DEF Mark, FreshnessType
  <2> QED BY <1>3, <2>1 DEF Mark, FreshnessType, pageVars
<1>4. ASSUME NEW t \in Tasks, Invalidate(t) PROVE FreshnessType'
  BY <1>4, DictionaryIs DEF Invalidate, FreshnessType, pageVars, UnderWay
<1>5. ASSUME NEW t \in Tasks, InvalidateFails(t) PROVE FreshnessType'
  BY <1>5 DEF InvalidateFails, FreshnessType, pageVars
<1>6. ASSUME Expire PROVE FreshnessType'
  BY <1>6, DictionaryIs DEF Expire, FreshnessType, pageVars
<1>7. ASSUME NEW p \in Pages, NEW x \in DatedIndices, Look(p, x) PROVE FreshnessType'
  BY <1>7 DEF Look, FreshnessType
<1>8. ASSUME NEW p \in Pages, Compute(p) PROVE FreshnessType'
  BY <1>1, <1>8 DEF Compute, FreshnessType
<1>9. ASSUME NEW p \in Pages, Store(p) PROVE FreshnessType'
  <2>1. cached' \in Dictionary /\ tainted' \in BOOLEAN
    <3>1. CASE page[p] = "computed" /\ cached' = WithDate(found[p], wants[p], value[p])
               /\ tainted' = (p \in behind)
      BY <3>1, DictionaryIs DEF FreshnessType
    <3>2. CASE UNCHANGED <<cached, tainted>>
      BY <3>2 DEF FreshnessType
    <3> QED BY <1>9, <3>1, <3>2 DEF Store
  <2>2. found' \in [Pages -> Dictionary] /\ value' \in [Pages -> 0 .. LastBasis]
        /\ page' \in [Pages -> {"idle", "looked", "computed"}]
        /\ \A q \in Pages : page'[q] = "computed" => value'[q] \in AllBases
    BY <1>1, <1>9, DictionaryIs DEF Store, FreshnessType
  <2> QED BY <1>9, <2>1, <2>2 DEF Store, FreshnessType
<1>10. CASE UNCHANGED freshnessVars
  BY <1>10 DEF freshnessVars, FreshnessType
<1> QED BY <1>11, <1>12, <1>3, <1>4, <1>5, <1>6, <1>7, <1>8, <1>9, <1>10 DEF FreshnessNext

\* At any time the cached dictionary, what the pages have read of it and the dates they
\* have computed are of indices that have one, and of a version that index has had
\* (get_index_freshness, invalidate_freshness_cache).
THEOREM FreshnessTypeCorrect == FreshnessSpec => []FreshnessTypeOK
<1>1. FreshnessType => FreshnessTypeOK
  BY DEF FreshnessType, FreshnessTypeOK, Dictionary, AllBases
<1> QED BY <1>1, FreshnessInitType, FreshnessNextType, PTL DEF FreshnessSpec

\* No date is of a version before the last deletion of the dictionary: the ones that would
\* be computed now, the ones cached unless a page that was under way stored them, and the
\* ones read or computed by a page that began since, which is what it will store.
SettledDictionary(f) == \A x \in DOMAIN f : f[x] >= settled[x]
SettledPage(p) ==
  page[p] # "idle" /\ p \notin behind =>
    SettledDictionary(found[p]) /\ (page[p] = "computed" => value[p] >= settled[wants[p]])
FreshnessInv ==
  /\ \A x \in DatedIndices : basis[x] >= settled[x]
  /\ ~tainted => SettledDictionary(cached)
  /\ \A p \in Pages : SettledPage(p)

LEMMA FreshnessNextInv ==
  FreshnessType /\ FreshnessInv /\ [FreshnessNext]_freshnessVars => FreshnessInv'
<1> SUFFICES ASSUME FreshnessType, FreshnessInv, [FreshnessNext]_freshnessVars
             PROVE  FreshnessInv'
  OBVIOUS
<1>1. /\ \A x \in DatedIndices : basis[x] \in Int /\ settled[x] \in Int /\ basis[x] >= settled[x]
      /\ \A f \in Dictionary : DOMAIN f \subseteq DatedIndices
      /\ DOMAIN <<>> = {} /\ SilverIndex \in DatedIndices
      /\ cached \in Dictionary /\ \A p \in Pages : found[p] \in Dictionary
  <2>1. \A f \in Dictionary : DOMAIN f \subseteq DatedIndices
    BY DEF Dictionary
  <2> QED BY <2>1, DictionaryIs, FreshnessAssumption DEF FreshnessType, FreshnessInv, AllBases
\* No step but Invalidate moves settled, and none but that of p moves what p holds.
<1>2. ASSUME settled' = settled, UNCHANGED pageVars, behind' = behind
      PROVE  \A p \in Pages : SettledPage(p)'
  BY <1>2 DEF FreshnessInv, SettledPage, SettledDictionary, pageVars
<1>3. ASSUME UNCHANGED <<cached, tainted, settled>>
      PROVE  (~tainted => SettledDictionary(cached))'
  BY <1>3 DEF FreshnessInv, SettledDictionary
<1>4. ASSUME UNCHANGED <<basis, settled>>
      PROVE  (\A x \in DatedIndices : basis[x] >= settled[x])'
  BY <1>4 DEF FreshnessInv
<1>14. ASSUME NEW x \in DatedIndices, Renew(x), settled' = settled
       PROVE  (\A y \in DatedIndices : basis[y] >= settled[y])'
  BY <1>1, <1>14 DEF Renew, FreshnessType
<1>5. ASSUME NEW x \in DatedIndices, Change(x) PROVE FreshnessInv'
  BY <1>2, <1>3, <1>5, <1>14 DEF Change, FreshnessInv
<1>15. ASSUME Unmark PROVE FreshnessInv'
  BY <1>1, <1>2, <1>3, <1>15, <1>14 DEF Unmark, FreshnessInv
<1>6. ASSUME NEW t \in Tasks, Mark(t) PROVE FreshnessInv'
  <2>1. (\A y \in DatedIndices : basis[y] >= settled[y])'
    BY <1>1, <1>4, <1>6, <1>14 DEF Mark
  <2> QED BY <1>2, <1>3, <1>6, <2>1 DEF Mark, FreshnessInv
<1>7. ASSUME NEW t \in Tasks, Invalidate(t) PROVE FreshnessInv'
  <2>1. \A y \in DatedIndices : basis'[y] >= settled'[y]
    BY <1>1, <1>7 DEF Invalidate
  <2>2. SettledDictionary(cached)'
    BY <1>1, <1>7 DEF Invalidate, SettledDictionary
  <2>3. \A p \in Pages : SettledPage(p)'
    BY <1>7 DEF Invalidate, SettledPage, UnderWay, pageVars
  <2> QED BY <2>1, <2>2, <2>3 DEF FreshnessInv
<1>8. ASSUME NEW t \in Tasks, InvalidateFails(t) PROVE FreshnessInv'
  BY <1>2, <1>3, <1>4, <1>8 DEF InvalidateFails, FreshnessInv
<1>9. ASSUME Expire PROVE FreshnessInv'
  <2>1. SettledDictionary(cached)'
    BY <1>1, <1>9 DEF Expire, SettledDictionary
  <2> QED BY <1>2, <1>4, <1>9, <2>1 DEF Expire, FreshnessInv
<1>10. ASSUME NEW p \in Pages, NEW x \in DatedIndices, Look(p, x) PROVE FreshnessInv'
  <2>1. ASSUME NEW q \in Pages PROVE SettledPage(q)'
    <3>1. CASE q = p
      BY <1>10, <3>1 DEF Look, FreshnessInv, FreshnessType, SettledPage, SettledDictionary
    <3>2. CASE q # p
      <4>1. SettledPage(q)
        BY DEF FreshnessInv
      <4> QED BY <1>10, <3>2, <4>1 DEF Look, FreshnessType, SettledPage, SettledDictionary
    <3> QED BY <3>1, <3>2
  <2> QED BY <1>3, <1>4, <1>10, <2>1 DEF Look, FreshnessInv
<1>11. ASSUME NEW p \in Pages, Compute(p) PROVE FreshnessInv'
  <2>1. ASSUME NEW q \in Pages PROVE SettledPage(q)'
    <3>1. SettledPage(q)
      BY DEF FreshnessInv
    <3>2. CASE q = p
      <4>1. value'[q] = basis[wants[q]] /\ wants[q] \in DatedIndices
        BY <1>11, <3>2 DEF Compute, FreshnessType
      <4> QED BY <1>1, <1>11, <3>1, <3>2, <4>1
              DEF Compute, FreshnessType, SettledPage, SettledDictionary
    <3>3. CASE q # p
      BY <1>11, <3>1, <3>3 DEF Compute, FreshnessType, SettledPage, SettledDictionary
    <3> QED BY <3>2, <3>3
  <2> QED BY <1>3, <1>4, <1>11, <2>1 DEF Compute, FreshnessInv
<1>12. ASSUME NEW p \in Pages, Store(p) PROVE FreshnessInv'
  <2>1. SettledPage(p)
    BY DEF FreshnessInv
  <2>2. (~tainted => SettledDictionary(cached))'
    <3>1. CASE /\ page[p] = "computed" /\ cached' = WithDate(found[p], wants[p], value[p])
               /\ tainted' = (p \in behind)
      BY <1>12, <2>1, <3>1 DEF Store, SettledPage, SettledDictionary, WithDate
    <3>2. CASE UNCHANGED <<cached, tainted>>
      BY <1>3, <1>12, <3>2 DEF Store
    <3> QED BY <1>12, <3>1, <3>2 DEF Store
  <2>3. ASSUME NEW q \in Pages PROVE SettledPage(q)'
    <3>1. CASE q = p
      BY <1>12, <3>1 DEF Store, FreshnessType, SettledPage
    <3>2. CASE q # p
      <4>1. SettledPage(q)
        BY DEF FreshnessInv
      <4> QED BY <1>12, <3>2, <4>1 DEF Store, FreshnessType, SettledPage, SettledDictionary
    <3> QED BY <3>1, <3>2
  <2> QED BY <1>4, <1>12, <2>2, <2>3 DEF Store, FreshnessInv
<1>13. CASE UNCHANGED freshnessVars
  BY <1>2, <1>3, <1>4, <1>13 DEF freshnessVars, pageVars, FreshnessInv
<1> QED BY <1>5, <1>6, <1>7, <1>8, <1>9, <1>10, <1>11, <1>12, <1>13, <1>15 DEF FreshnessNext

\* Whatever pages show was computed from what there was at the last deletion of the
\* dictionary or from something newer, however many pages read, extend and store it at
\* once and rows are requeued, unless a page under way at the deletion stored what it had
\* (get_index_freshness, invalidate_freshness_cache).
THEOREM FreshDatesAreSettled == FreshnessSpec => []DatesAreSettled
<1>1. FreshnessInit => FreshnessInv
  <2>1. 1 >= 1
    OBVIOUS
  <2> QED BY <2>1, DictionaryIs DEF FreshnessInit, FreshnessInv, SettledDictionary, SettledPage
<1>2. FreshnessInv => DatesAreSettled
  BY DEF FreshnessInv, DatesAreSettled, SettledDictionary, SettledPage
<1> QED BY <1>1, <1>2, FreshnessInitType, FreshnessNextType, FreshnessNextInv, PTL
        DEF FreshnessSpec

(***************************************************************************)
(* LookupBuild: builds of the lookup indices                               *)
(***************************************************************************)

Stages ==
  {"new", "validate", "collect", "revalidate", "create", "fill", "bulk", "failed", "returned"}
BuildState ==
  [at : Stages,
   target : [Lookups -> IndexNames], values : [Lookups -> SUBSET AnyValue], next : Lookups,
   todo : SUBSET AnyValue, done : Nat, failed : Nat, errors : SUBSET (Lookups \X AnyValue)]

LookupTypes ==
  /\ build \in [Builds -> BuildState] /\ exists \subseteq IndexNames
  /\ deletes \in 0 .. MaxDeletes /\ content \in [IndexNames -> SUBSET (Builds \X AnyValue)]

LEMMA LookupsAre ==
  /\ 1 \in Lookups /\ Lookups \subseteq Nat /\ Len(LookupOrder) \in Nat
  /\ \A l \in Lookups : l < Len(LookupOrder) => l + 1 \in Lookups
  /\ \A l \in Lookups : 1 <= l /\ l <= Len(LookupOrder)
  /\ AnyName \in IndexNames /\ MaxDeletes \in Nat
<1>1. Lookups = 1 .. Len(LookupOrder) /\ Len(LookupOrder) \in Nat /\ Len(LookupOrder) >= 1
  BY LookupAssumption DEF Lookups
<1>2. AnyName \in IndexNames
  BY LookupAssumption DEF AnyName
<1> QED BY <1>1, <1>2, LookupAssumption

LEMMA LookupInitType == LookupInit => LookupTypes
<1> SUFFICES ASSUME LookupInit PROVE LookupTypes
  OBVIOUS
<1>1. NewBuild \in BuildState
  BY LookupsAre DEF NewBuild, BuildState, Stages
<1> QED BY <1>1, LookupsAre DEF LookupInit, LookupTypes

LEMMA BuildUpdates ==
  ASSUME NEW r \in BuildState, NEW s \in Stages, NEW l \in Lookups
  PROVE  /\ [r EXCEPT !.at = s] \in BuildState
         /\ \A target \in [Lookups -> IndexNames] :
              [r EXCEPT !.at = s, !.target = target] \in BuildState
         /\ \A values \in [Lookups -> SUBSET AnyValue] :
              [r EXCEPT !.at = s, !.values = values] \in BuildState
         /\ [r EXCEPT !.next = l] \in BuildState
         /\ [r EXCEPT !.next = l, !.at = s] \in BuildState
         /\ \A S \in SUBSET AnyValue :
              [r EXCEPT !.at = s, !.todo = S, !.done = 0, !.failed = 0] \in BuildState
         /\ \A v \in AnyValue :
              /\ [r EXCEPT !.todo = @ \ {v}, !.done = @ + 1] \in BuildState
              /\ [r EXCEPT !.todo = @ \ {v}, !.failed = @ + 1, !.errors = @ \cup {<<l, v>>}]
                   \in BuildState
<1>1. [r EXCEPT !.at = s] \in BuildState
  BY DEF BuildState
<1>2. ASSUME NEW target \in [Lookups -> IndexNames]
      PROVE  [r EXCEPT !.at = s, !.target = target] \in BuildState
  BY DEF BuildState
<1>3. ASSUME NEW values \in [Lookups -> SUBSET AnyValue]
      PROVE  [r EXCEPT !.at = s, !.values = values] \in BuildState
  BY DEF BuildState
<1>4. [r EXCEPT !.next = l] \in BuildState /\ [r EXCEPT !.next = l, !.at = s] \in BuildState
  BY DEF BuildState
<1>5. ASSUME NEW S \in SUBSET AnyValue
      PROVE  [r EXCEPT !.at = s, !.todo = S, !.done = 0, !.failed = 0] \in BuildState
  BY DEF BuildState
<1>6. ASSUME NEW v \in AnyValue
      PROVE  /\ [r EXCEPT !.todo = @ \ {v}, !.done = @ + 1] \in BuildState
             /\ [r EXCEPT !.todo = @ \ {v}, !.failed = @ + 1, !.errors = @ \cup {<<l, v>>}]
                  \in BuildState
  <2>1. /\ r.todo \ {v} \in SUBSET AnyValue /\ r.done + 1 \in Nat /\ r.failed + 1 \in Nat
        /\ r.errors \cup {<<l, v>>} \in SUBSET (Lookups \X AnyValue)
    BY DEF BuildState
  <2>2. ASSUME NEW S \in SUBSET AnyValue, NEW k \in Nat, NEW E \in SUBSET (Lookups \X AnyValue)
        PROVE  /\ [r EXCEPT !.todo = S, !.done = k] \in BuildState
               /\ [r EXCEPT !.todo = S, !.failed = k, !.errors = E] \in BuildState
    BY DEF BuildState
  <2> QED BY <2>1, <2>2
<1> QED BY <1>1, <1>2, <1>3, <1>4, <1>5, <1>6

LEMMA LookupNextType == LookupTypes /\ [LookupNext]_lookupVars => LookupTypes'
<1> SUFFICES ASSUME LookupTypes, [LookupNext]_lookupVars PROVE LookupTypes'
  OBVIOUS
<1>1. ASSUME NEW b \in Builds PROVE build[b] \in BuildState
  BY DEF LookupTypes
\* What replaces the state of b is a state again.
<1>2. ASSUME NEW b \in Builds, NEW r \in BuildState, Put(b, r)
      PROVE  build' \in [Builds -> BuildState]
  BY <1>2 DEF LookupTypes, Put
<1>3. ASSUME NEW b \in Builds, NEW target \in [Lookups -> IndexNames], Resolve(b, target)
      PROVE  LookupTypes'
  <2> DEFINE r == [build[b] EXCEPT !.at = "validate", !.target = target]
  <2>1. r \in BuildState
    BY <1>1, BuildUpdates, LookupsAre DEF Stages
  <2>2. Put(b, r)
    BY <1>3 DEF Resolve
  <2>3. build' \in [Builds -> BuildState]
    BY <1>2, <2>1, <2>2
  <2> QED BY <1>3, <2>3 DEF Resolve, LookupTypes
<1>4. ASSUME NEW b \in Builds, NEW stage \in Stages, Go(b, stage) PROVE build' \in [Builds -> BuildState]
  BY <1>1, <1>2, <1>4, BuildUpdates, LookupsAre DEF Go
<1>5. ASSUME NEW b \in Builds, Validate(b) PROVE LookupTypes'
  <2>1. PICK stage \in Stages : Go(b, stage)
    BY <1>5 DEF Validate, Stages
  <2>2. build' \in [Builds -> BuildState]
    BY <1>4, <2>1
  <2> QED BY <1>5, <2>2 DEF Validate, LookupTypes
<1>6. ASSUME NEW b \in Builds, NEW values \in [Lookups -> SUBSET AnyValue],
             CollectValues(b, values)
      PROVE  LookupTypes'
  <2> DEFINE r == [build[b] EXCEPT !.at = "revalidate", !.values = values]
  <2>1. r \in BuildState
    BY <1>1, BuildUpdates, LookupsAre DEF Stages
  <2>2. Put(b, r)
    BY <1>6 DEF CollectValues
  <2>3. build' \in [Builds -> BuildState]
    BY <1>2, <2>1, <2>2
  <2> QED BY <1>6, <2>3 DEF CollectValues, LookupTypes
<1>7. ASSUME NEW b \in Builds, Create(b) PROVE LookupTypes'
  <2> DEFINE r == IF build[b].next < Len(LookupOrder) THEN [build[b] EXCEPT !.next = @ + 1]
                  ELSE [build[b] EXCEPT !.next = 1, !.at = "fill"]
  <2>1. build[b].next \in Lookups /\ build[b].target[build[b].next] \in IndexNames
    BY <1>1 DEF BuildState
  <2>2. r \in BuildState
    BY <1>1, <2>1, BuildUpdates, LookupsAre DEF Stages
  <2>3. build' \in [Builds -> BuildState]
    <3>1. CASE Go(b, "failed")
      BY <1>4, <3>1 DEF Stages
    <3>2. CASE Put(b, r)
      BY <1>2, <2>2, <3>2
    <3> QED BY <1>7, <3>1, <3>2 DEF Create
  <2> QED BY <1>7, <2>1, <2>3 DEF Create, LookupTypes
<1>8. ASSUME NEW b \in Builds, Fill(b) PROVE LookupTypes'
  <2> DEFINE r == [build[b] EXCEPT !.at = "bulk", !.todo = build[b].values[build[b].next],
                                   !.done = 0, !.failed = 0]
  <2>1. build[b].values[build[b].next] \in SUBSET AnyValue
    BY <1>1 DEF BuildState
  <2>2. r \in BuildState
    BY <1>1, <2>1, BuildUpdates, LookupsAre DEF Stages
  <2>3. Put(b, r)
    BY <1>8 DEF Fill
  <2>4. build' \in [Builds -> BuildState]
    BY <1>2, <2>2, <2>3
  <2> QED BY <1>8, <2>4 DEF Fill, LookupTypes
<1>9. ASSUME NEW b \in Builds, NEW v \in AnyValue, BulkEntry(b, v) PROVE LookupTypes'
  <2> DEFINE r == [build[b] EXCEPT !.todo = @ \ {v}, !.done = @ + 1]
             s == [build[b] EXCEPT !.todo = @ \ {v}, !.failed = @ + 1,
                                   !.errors = @ \cup {<<build[b].next, v>>}]
  <2>1. build[b].next \in Lookups /\ build[b].target[build[b].next] \in IndexNames
    BY <1>1 DEF BuildState
  <2>2. r \in BuildState /\ s \in BuildState
    BY <1>1, <2>1, BuildUpdates DEF Stages
  <2>3. Put(b, r) \/ Put(b, s)
    BY <1>9 DEF BulkEntry
  <2>4. build' \in [Builds -> BuildState]
    BY <1>2, <2>2, <2>3
  <2>5. content' \in [IndexNames -> SUBSET (Builds \X AnyValue)]
    BY <1>9, <2>1 DEF BulkEntry, LookupTypes
  <2> QED BY <1>9, <2>4, <2>5 DEF BulkEntry, LookupTypes
<1>10. ASSUME NEW b \in Builds, Verify(b) \/ BuildFails(b) PROVE LookupTypes'
  <2> DEFINE fail == [build[b] EXCEPT !.at = "failed"]
             more == [build[b] EXCEPT !.next = @ + 1, !.at = "fill"]
             over == [build[b] EXCEPT !.at = "returned"]
  <2>1. build[b].next \in Lookups
    BY <1>1 DEF BuildState
  <2>2. fail \in BuildState /\ over \in BuildState
        /\ (build[b].next < Len(LookupOrder) => more \in BuildState)
    BY <1>1, <2>1, BuildUpdates, LookupsAre DEF Stages
  <2>3. Put(b, fail) \/ Put(b, over) \/ (build[b].next < Len(LookupOrder) /\ Put(b, more))
    BY <1>10 DEF Verify, BuildFails, Go
  <2>4. build' \in [Builds -> BuildState]
    BY <1>2, <2>2, <2>3
  <2> QED BY <1>10, <2>4 DEF Verify, BuildFails, LookupTypes
<1>11. ASSUME NEW n \in IndexNames, Delete(n) PROVE LookupTypes'
  BY <1>11, LookupsAre DEF Delete, LookupTypes
<1>12. CASE UNCHANGED lookupVars
  BY <1>12 DEF lookupVars, LookupTypes
<1> QED BY <1>3, <1>4, <1>5, <1>6, <1>7, <1>8, <1>9, <1>10, <1>11, <1>12 DEF LookupNext

\* A build is always at one of its stages, at one of its lookups and with targets and
\* values of the right kind, and an index has documents of builds only
\* (LookupIndexBuildService).
THEOREM LookupTypeCorrect == LookupSpec => []LookupTypeOK
<1>1. LookupTypes => LookupTypeOK
  BY DEF LookupTypes, LookupTypeOK, BuildState, Stages
<1> QED BY <1>1, LookupInitType, LookupNextType, PTL DEF LookupSpec

\* The lookups whose indices a build has created, and while no index has been deleted
\* also once it has returned; the entries of a lookup that it has had an answer for;
\* and the documents they have become.
Created(b) ==
  {l \in Lookups : \/ build[b].at \in {"fill", "bulk"}
                   \/ build[b].at = "create" /\ l < build[b].next
                   \/ build[b].at = "returned" /\ deletes = 0}
Sent(b, l) ==
  {w \in build[b].values[l] :
     \/ build[b].at = "returned"
     \/ build[b].at \in {"fill", "bulk"} /\ l < build[b].next
     \/ build[b].at = "bulk" /\ l = build[b].next /\ w \notin build[b].todo}
Indexed(b, l) == {<<b, v>> : v \in {w \in Sent(b, l) : <<l, w>> \notin build[b].errors}}

BuildInv(b) ==
  /\ build[b].at # "new" => \A l, m \in Lookups : build[b].target[l] = build[b].target[m] => l = m
  /\ build[b].at \in {"new", "validate", "collect", "revalidate"} => build[b].next = 1
  /\ build[b].at \notin {"failed", "returned"} =>
       \A l \in Lookups : \A w : <<l, w>> \in build[b].errors => w \in Sent(b, l)
  /\ build[b].at = "bulk" => build[b].todo \subseteq build[b].values[build[b].next]
  /\ \A l \in Created(b) :
       build[b].target[l] \in exists /\ content[build[b].target[l]] = Indexed(b, l)
Apart(b, c) ==
  \A l \in Created(b), m \in Created(c) : build[b].target[l] # build[c].target[m]
IsComplete(b, l) ==
  build[b].at = "returned" =>
    \/ content[build[b].target[l]] = Indexed(b, l)
    \/ deletes > 0 /\ \A d \in content[build[b].target[l]] : d[1] # b

\* An index that a running build has created is there, belongs to no other running
\* build, and holds the entries the build has had an answer for; an index that is not
\* there holds nothing.
LookupInv ==
  /\ \A b \in Builds : BuildInv(b) /\ \A l \in Lookups : IsComplete(b, l)
  /\ \A b, c \in Builds : b # c => Apart(b, c)
  /\ \A n \in IndexNames \ exists : content[n] = {}
  /\ BuildsDoNotMix

LEMMA LookupNextInv ==
  LookupTypes /\ LookupInv /\ [LookupNext]_lookupVars => LookupInv'
<1> SUFFICES ASSUME LookupTypes, LookupInv, [LookupNext]_lookupVars PROVE LookupInv'
  OBVIOUS
<1>1. ASSUME NEW b \in Builds
      PROVE  /\ build[b] \in BuildState /\ build[b].next \in Lookups
             /\ \A l \in Lookups : build[b].target[l] \in IndexNames
             /\ BuildInv(b) /\ \A l \in Lookups : IsComplete(b, l)
  BY DEF LookupTypes, BuildState, LookupInv
\* A build that does not move keeps what it has, unless an index is deleted.
<1>2. ASSUME NEW c \in Builds, build'[c] = build[c], deletes' = deletes, exists \subseteq exists',
             \A l \in Created(c) : content'[build[c].target[l]] = content[build[c].target[l]]
      PROVE  Created(c)' = Created(c) /\ (\A l \in Lookups : Indexed(c, l)' = Indexed(c, l))
             /\ BuildInv(c)'
  <2>1. Created(c)' = Created(c)
    BY <1>2 DEF Created
  <2>2. \A l : Sent(c, l)' = Sent(c, l) /\ Indexed(c, l)' = Indexed(c, l)
    BY <1>2 DEF Sent, Indexed
  <2>3. BuildInv(c)
    BY <1>1
  <2> QED BY <1>2, <2>1, <2>2, <2>3 DEF BuildInv, Created
<1>3. ASSUME NEW b \in Builds, NEW r, Put(b, r), UNCHANGED <<exists, content, deletes>>,
             BuildInv(b)', \A l \in Lookups : IsComplete(b, l)',
             \A l \in Created(b)' : l \in Created(b) /\ r.target[l] = build[b].target[l]
      PROVE  LookupInv'
  <2>1. build'[b] = r /\ \A c \in Builds \ {b} : build'[c] = build[c]
    BY <1>3 DEF Put, LookupTypes
  <2>2. \A c \in Builds \ {b} : /\ Created(c)' = Created(c) /\ BuildInv(c)'
                                /\ \A l \in Lookups : Indexed(c, l)' = Indexed(c, l)
    BY <1>2, <1>3, <2>1
  <2>3. \A c \in Builds \ {b}, l \in Lookups : IsComplete(c, l)'
    BY <1>1, <1>3, <2>1, <2>2 DEF IsComplete
  <2>4. ASSUME NEW c \in Builds, NEW d \in Builds, c # d PROVE Apart(c, d)'
    <3>1. Apart(c, d)
      BY <2>4 DEF LookupInv
    <3> QED BY <1>3, <2>1, <2>2, <2>4, <3>1 DEF Apart
  <2>5. BuildsDoNotMix' /\ \A n \in IndexNames \ exists' : content'[n] = {}
    BY <1>3 DEF LookupInv, BuildsDoNotMix
  <2> QED BY <1>3, <2>2, <2>3, <2>4, <2>5 DEF LookupInv
<1>4. ASSUME NEW b \in Builds, NEW target \in [Lookups -> IndexNames], Resolve(b, target)
      PROVE  LookupInv'
  <2> DEFINE r == [build[b] EXCEPT !.at = "validate", !.target = target]
  <2>1. Put(b, r) /\ UNCHANGED <<exists, content, deletes>> /\ build[b].at = "new"
    BY <1>4 DEF Resolve
  <2>2. build'[b] = r
    BY <2>1 DEF Put, LookupTypes
  <2>3. /\ r.at = "validate" /\ r.target = target /\ r.next = build[b].next
        /\ r.errors = build[b].errors
    BY <1>1 DEF BuildState
  <2>4. /\ \A l, m \in Lookups : target[l] = target[m] => l = m
        /\ r.next = 1 /\ \A l \in Lookups : \A w : <<l, w>> \notin r.errors
    BY <1>1, <1>4, <2>1, <2>3 DEF Resolve, BuildInv, Sent
  <2>5. BuildInv(b)' /\ Created(b)' = {} /\ \A l \in Lookups : IsComplete(b, l)'
    BY <2>2, <2>3, <2>4 DEF BuildInv, Created, IsComplete
  <2> HIDE DEF r
  <2> QED BY <1>3, <2>1, <2>5
<1>5. ASSUME NEW b \in Builds, NEW stage \in Stages, Go(b, stage), UNCHANGED <<exists, content, deletes>>,
             build[b].at # "new",
             \/ stage = "failed"
             \/ /\ build[b].at \in {"validate", "revalidate"}
                /\ stage \in {"collect", "create"}
      PROVE  LookupInv'
  <2> DEFINE r == [build[b] EXCEPT !.at = stage]
  <2>1. Put(b, r)
    BY <1>5 DEF Go
  <2>2. build'[b] = r
    BY <2>1 DEF Put, LookupTypes
  <2>3. /\ r.at = stage /\ r.target = build[b].target /\ r.next = build[b].next
        /\ r.errors = build[b].errors
    BY <1>1 DEF BuildState
  <2>4. Created(b)' = {}
    BY <1>1, <1>5, <2>2, <2>3, LookupsAre DEF Created, BuildInv
  <2>5. stage = "failed" \/ \A l \in Lookups : \A w : <<l, w>> \notin r.errors
    BY <1>1, <1>5, <2>3 DEF BuildInv, Sent
  <2>6. BuildInv(b)'
    BY <1>1, <1>5, <2>2, <2>3, <2>4, <2>5 DEF BuildInv
  <2>7. \A l \in Lookups : IsComplete(b, l)'
    BY <1>5, <2>2, <2>3 DEF IsComplete
  <2> HIDE DEF r
  <2> QED BY <1>3, <1>5, <2>1, <2>4, <2>6, <2>7
<1>6. ASSUME NEW b \in Builds, NEW values \in [Lookups -> SUBSET AnyValue],
             CollectValues(b, values)
      PROVE  LookupInv'
  <2> DEFINE r == [build[b] EXCEPT !.at = "revalidate", !.values = values]
  <2>1. Put(b, r) /\ UNCHANGED <<exists, content, deletes>> /\ build[b].at = "collect"
    BY <1>6 DEF CollectValues
  <2>2. build'[b] = r
    BY <2>1 DEF Put, LookupTypes
  <2>3. /\ r.at = "revalidate" /\ r.target = build[b].target /\ r.next = build[b].next
        /\ r.errors = build[b].errors
    BY <1>1 DEF BuildState
  <2>4. /\ \A l, m \in Lookups : r.target[l] = r.target[m] => l = m
        /\ r.next = 1 /\ \A l \in Lookups : \A w : <<l, w>> \notin r.errors
    BY <1>1, <2>1, <2>3 DEF BuildInv, Sent
  <2>5. BuildInv(b)' /\ Created(b)' = {} /\ \A l \in Lookups : IsComplete(b, l)'
    BY <2>2, <2>3, <2>4 DEF BuildInv, Created, IsComplete
  <2> HIDE DEF r
  <2> QED BY <1>3, <2>1, <2>5
<1>7. ASSUME NEW b \in Builds, Fill(b) PROVE LookupInv'
  <2> DEFINE l == build[b].next
             r == [build[b] EXCEPT !.at = "bulk", !.todo = build[b].values[l], !.done = 0,
                                   !.failed = 0]
  <2>1. Put(b, r) /\ UNCHANGED <<exists, content, deletes>> /\ build[b].at = "fill"
    BY <1>7 DEF Fill
  <2>2. build'[b] = r
    BY <2>1 DEF Put, LookupTypes
  <2>3. /\ r.at = "bulk" /\ r.target = build[b].target /\ r.next = build[b].next
        /\ r.errors = build[b].errors /\ r.values = build[b].values /\ r.todo = r.values[r.next]
    BY <1>1 DEF BuildState
  <2> HIDE DEF r
  <2>4. Created(b) = Lookups /\ Created(b)' = Lookups
    BY <2>1, <2>2, <2>3 DEF Created
  <2>5. \A m \in Lookups : Sent(b, m)' = Sent(b, m) /\ Indexed(b, m)' = Indexed(b, m)
    <3>1. ASSUME NEW m \in Lookups PROVE Sent(b, m)' = Sent(b, m)
      BY <2>1, <2>2, <2>3 DEF Sent
    <3> QED BY <2>2, <2>3, <3>1 DEF Indexed
  <2>6. BuildInv(b)'
    BY <1>1, <2>1, <2>2, <2>3, <2>4, <2>5 DEF BuildInv
  <2>7. \A m \in Lookups : IsComplete(b, m)'
    BY <2>2, <2>3 DEF IsComplete
  <2> QED BY <1>3, <2>1, <2>3, <2>4, <2>6, <2>7
<1>8. ASSUME NEW b \in Builds, Verify(b) PROVE LookupInv'
  <2> DEFINE l == build[b].next
             more == [build[b] EXCEPT !.next = @ + 1, !.at = "fill"]
             over == [build[b] EXCEPT !.at = "returned"]
  <2>1. /\ build[b].at = "bulk" /\ build[b].todo = {} /\ UNCHANGED <<exists, content, deletes>>
        /\ \/ Go(b, "failed")
           \/ l < Len(LookupOrder) /\ Put(b, more)
           \/ ~(l < Len(LookupOrder)) /\ Put(b, over)
    BY <1>8 DEF Verify, Go
  <2>2. \A m \in Lookups : m \in Nat /\ l \in Nat /\ m <= Len(LookupOrder)
    BY <1>1, LookupsAre
  <2>3. CASE Go(b, "failed")
    BY <1>5, <2>1, <2>3 DEF Stages
  <2>4. CASE l < Len(LookupOrder) /\ Put(b, more)
    <3>1. build'[b] = more
      BY <2>4 DEF Put, LookupTypes
    <3>2. /\ more.at = "fill" /\ more.target = build[b].target /\ more.next = l + 1
          /\ more.errors = build[b].errors /\ more.values = build[b].values
      BY <1>1 DEF BuildState
    <3> HIDE DEF more
    <3>3. Created(b) = Lookups /\ Created(b)' = Lookups
      BY <2>1, <3>1, <3>2 DEF Created
    <3>4. \A m \in Lookups : Sent(b, m)' = Sent(b, m) /\ Indexed(b, m)' = Indexed(b, m)
      <4>1. ASSUME NEW m \in Lookups PROVE Sent(b, m)' = Sent(b, m)
        <5>1. m < l + 1 <=> m < l \/ m = l
          BY <2>2
        <5> QED BY <2>1, <3>1, <3>2, <5>1 DEF Sent
      <4> QED BY <3>1, <3>2, <4>1 DEF Indexed
    <3>5. BuildInv(b)'
      BY <1>1, <2>1, <3>1, <3>2, <3>3, <3>4 DEF BuildInv
    <3>6. \A m \in Lookups : IsComplete(b, m)'
      BY <3>1, <3>2 DEF IsComplete
    <3> QED BY <1>3, <2>1, <2>4, <3>2, <3>3, <3>5, <3>6
  <2>5. CASE ~(l < Len(LookupOrder)) /\ Put(b, over)
    <3>1. build'[b] = over
      BY <2>5 DEF Put, LookupTypes
    <3>2. /\ over.at = "returned" /\ over.target = build[b].target
          /\ over.errors = build[b].errors /\ over.values = build[b].values
      BY <1>1 DEF BuildState
    <3> HIDE DEF over
    <3>3. Created(b) = Lookups /\ Created(b)' \subseteq Lookups
      BY <2>1, <3>1, <3>2 DEF Created
    <3>4. \A m \in Lookups : Sent(b, m)' = Sent(b, m) /\ Indexed(b, m)' = Indexed(b, m)
      <4>1. ASSUME NEW m \in Lookups PROVE Sent(b, m)' = Sent(b, m)
        <5>1. m < l \/ m = l
          BY <1>1, <2>2, <2>5, LookupsAre
        <5> QED BY <2>1, <3>1, <3>2, <5>1 DEF Sent
      <4> QED BY <3>1, <3>2, <4>1 DEF Indexed
    <3>5. BuildInv(b)'
      BY <1>1, <2>1, <3>1, <3>2, <3>3, <3>4 DEF BuildInv
    <3>6. \A m \in Lookups : IsComplete(b, m)'
      BY <1>1, <2>1, <3>1, <3>2, <3>3, <3>4 DEF IsComplete, BuildInv
    <3> QED BY <1>3, <2>1, <2>5, <3>2, <3>3, <3>5, <3>6
  <2> QED BY <2>1, <2>3, <2>4, <2>5
<1>9. ASSUME NEW b \in Builds, Validate(b) \/ BuildFails(b) PROVE LookupInv'
  <2>1. PICK stage \in Stages :
          /\ Go(b, stage) /\ UNCHANGED <<exists, content, deletes>> /\ build[b].at # "new"
          /\ \/ stage = "failed"
             \/ build[b].at \in {"validate", "revalidate"} /\ stage \in {"collect", "create"}
    BY <1>9 DEF Validate, BuildFails, Stages
  <2> QED BY <1>5, <2>1
\* Only what belongs to no running build is created, or deleted; and what a build
\* writes is its own.
<1>10. ASSUME NEW b \in Builds, Create(b) PROVE LookupInv'
  <2> DEFINE l == build[b].next
             n == build[b].target[l]
             r == IF l < Len(LookupOrder) THEN [build[b] EXCEPT !.next = @ + 1]
                  ELSE [build[b] EXCEPT !.next = 1, !.at = "fill"]
  <2>1. l \in Lookups /\ n \in IndexNames /\ UNCHANGED <<content, deletes>>
        /\ build[b].at = "create" /\ exists' = exists \cup {n}
    BY <1>1, <1>10 DEF Create
  <2>2. CASE n \in exists
    <3>1. Go(b, "failed") /\ exists' = exists
      BY <1>10, <2>1, <2>2 DEF Create
    <3> QED BY <1>5, <2>1, <3>1 DEF Stages
  <2>3. CASE n \notin exists
    <3>1. Put(b, r)
      BY <1>10, <2>3 DEF Create
    <3>2. build'[b] = r /\ \A c \in Builds \ {b} : build'[c] = build[c]
      BY <3>1 DEF Put, LookupTypes
    <3>3. /\ r.target = build[b].target /\ r.errors = build[b].errors
          /\ \/ r.at = "create" /\ r.next = l + 1 /\ l < Len(LookupOrder)
             \/ r.at = "fill" /\ r.next = 1 /\ l = Len(LookupOrder)
      <4>1. /\ [build[b] EXCEPT !.next = @ + 1].next = l + 1
            /\ [build[b] EXCEPT !.next = @ + 1].at = "create"
            /\ [build[b] EXCEPT !.next = 1, !.at = "fill"].next = 1
            /\ [build[b] EXCEPT !.next = 1, !.at = "fill"].at = "fill"
            /\ r.target = build[b].target /\ r.errors = build[b].errors
        BY <1>1, <2>1 DEF BuildState
      <4>2. l < Len(LookupOrder) \/ l = Len(LookupOrder)
        <5>1. l \in Nat /\ Len(LookupOrder) \in Nat /\ l <= Len(LookupOrder)
          BY <2>1, LookupsAre
        <5> HIDE DEF l, n
        <5> QED BY <5>1
      <4>3. CASE l < Len(LookupOrder)
        BY <4>1, <4>3
      <4>4. CASE l = Len(LookupOrder)
        <5>1. ~(l < Len(LookupOrder))
          BY <4>4, LookupsAre
        <5> QED BY <4>1, <4>4, <5>1
      <4> QED BY <4>2, <4>3, <4>4
    <3> HIDE DEF r
    <3>4. Created(b)' = Created(b) \cup {l} /\ content[n] = {}
      <4>1. ASSUME NEW m \in Lookups
            PROVE  /\ m <= Len(LookupOrder) /\ m \in Nat /\ l \in Nat
                   /\ m < l + 1 <=> m < l \/ m = l
        <5>1. m \in Nat /\ m <= Len(LookupOrder) /\ l \in Nat
          BY <2>1, LookupsAre
        <5> HIDE DEF l, n
        <5> QED BY <5>1
      <4>2. content[n] = {}
        BY <2>1, <2>3 DEF LookupInv
      <4>3. \A m \in Lookups : m \in Created(b)' <=> m < l \/ m = l
        BY <2>1, <3>2, <3>3, <4>1, LookupsAre DEF Created
      <4>4. \A m \in Lookups : m \in Created(b) <=> m < l
        BY <2>1 DEF Created
      <4> QED BY <2>1, <4>2, <4>3, <4>4 DEF Created
    <3>5. /\ \A m \in Lookups : Sent(b, m) = {} /\ Sent(b, m)' = {}
          /\ \A m \in Lookups : Indexed(b, m) = {} /\ Indexed(b, m)' = {}
      <4>1. ASSUME NEW m \in Lookups PROVE Sent(b, m) = {} /\ Sent(b, m)' = {}
        <5>1. ~(m < 1)
          BY LookupsAre
        <5> QED BY <2>1, <3>2, <3>3, <5>1 DEF Sent
      <4> QED BY <4>1 DEF Indexed
    <3>6. BuildInv(b)'
      <4>1. /\ r.at \in {"create", "fill"}
            /\ \A m, k \in Lookups : r.target[m] = r.target[k] => m = k
            /\ \A m \in Lookups : \A w : <<m, w>> \notin r.errors
        BY <1>1, <2>1, <3>3, <3>5 DEF BuildInv
      <4>2. \A m \in Created(b)' : r.target[m] \in exists' /\ content'[r.target[m]] = {}
        BY <1>1, <2>1, <3>3, <3>4, <3>5 DEF BuildInv, Created
      <4>3. Created(b)' \subseteq Lookups
        BY DEF Created
      <4> QED BY <3>2, <3>5, <4>1, <4>2, <4>3 DEF BuildInv
    <3>7. \A m \in Lookups : IsComplete(b, m)'
      BY <3>2, <3>3 DEF IsComplete
    <3>8. \A c \in Builds \ {b} : /\ Created(c)' = Created(c) /\ BuildInv(c)'
                                  /\ \A m \in Lookups : Indexed(c, m)' = Indexed(c, m)
      BY <1>2, <2>1, <3>2
    <3>9. \A c \in Builds \ {b}, m \in Lookups : IsComplete(c, m)'
      BY <1>1, <2>1, <3>2, <3>8 DEF IsComplete
    <3>10. ASSUME NEW c \in Builds, NEW d \in Builds, c # d PROVE Apart(c, d)'
      <4>1. Apart(c, d) /\ BuildInv(c) /\ BuildInv(d)
        BY <3>10 DEF LookupInv
      <4>2. build'[c].target = build[c].target /\ build'[d].target = build[d].target
        BY <3>2, <3>3
      <4>3. /\ \A m \in Created(c)' : m \in Created(c) \/ (c = b /\ m = l)
            /\ \A m \in Created(d)' : m \in Created(d) \/ (d = b /\ m = l)
        BY <3>4, <3>8
      <4>4. \A e \in {c, d} : \A m \in Created(e) : build[e].target[m] # n
        BY <2>3, <4>1 DEF BuildInv
      <4> QED BY <3>10, <4>1, <4>2, <4>3, <4>4 DEF Apart
    <3>11. BuildsDoNotMix' /\ \A m \in IndexNames \ exists' : content'[m] = {}
      BY <2>1 DEF LookupInv, BuildsDoNotMix
    <3> QED BY <3>6, <3>7, <3>8, <3>9, <3>10, <3>11 DEF LookupInv
  <2> QED BY <2>2, <2>3
<1>11. ASSUME NEW b \in Builds, NEW l \in Lookups, NEW d, d \in Indexed(b, l)' PROVE d[1] = b
  <2>1. PICK w : d = <<b, w>>
    BY <1>11 DEF Indexed
  <2> QED BY <2>1
<1>12. ASSUME NEW b \in Builds, NEW v \in AnyValue, BulkEntry(b, v) PROVE LookupInv'
  <2>0. PICK l \in Lookups, n \in IndexNames : l = build[b].next /\ n = build[b].target[l]
    BY <1>1
  <2> DEFINE r == [build[b] EXCEPT !.todo = @ \ {v}, !.done = @ + 1]
             s == [build[b] EXCEPT !.todo = @ \ {v}, !.failed = @ + 1,
                                   !.errors = @ \cup {<<l, v>>}]
  <2>1. /\ l \in Lookups /\ n \in IndexNames /\ UNCHANGED <<exists, deletes>>
        /\ build[b].at = "bulk" /\ v \in build[b].todo /\ v \in build[b].values[l]
    BY <1>1, <1>12, <2>0 DEF BulkEntry, BuildInv
  <2>2. PICK done \in BOOLEAN :
          /\ Put(b, IF done THEN r ELSE s)
          /\ content' = IF done
               THEN [content EXCEPT ![n] = {d \in @ : d[2] # v} \cup {<<b, v>>}] ELSE content
    BY <1>12, <2>0 DEF BulkEntry
  <2>3. /\ build'[b] = IF done THEN r ELSE s
        /\ \A c \in Builds \ {b} : build'[c] = build[c]
    BY <2>2 DEF Put, LookupTypes
  <2>4. /\ build'[b].at = "bulk" /\ build'[b].target = build[b].target /\ build'[b].next = l
        /\ build'[b].values = build[b].values /\ build'[b].todo = build[b].todo \ {v}
        /\ build'[b].errors = IF done THEN build[b].errors ELSE build[b].errors \cup {<<l, v>>}
    BY <1>1, <2>0, <2>1, <2>3 DEF BuildState
  <2> HIDE DEF r, s
  <2>5. Created(b) = Lookups /\ Created(b)' = Lookups
    BY <2>0, <2>1, <2>4 DEF Created
  <2>6. \A m \in Lookups : Sent(b, m)' = IF m = l THEN Sent(b, m) \cup {v} ELSE Sent(b, m)
    <3>1. ~(l < l)
      BY <2>0, <2>1, LookupsAre
    <3>2. Sent(b, l) = build[b].values[l] \ build[b].todo
          /\ Sent(b, l)' = build[b].values[l] \ (build[b].todo \ {v})
      BY <2>0, <2>1, <2>4, <3>1 DEF Sent
    <3>3. ASSUME NEW m \in Lookups, m # l PROVE Sent(b, m)' = Sent(b, m)
      BY <2>0, <2>1, <2>4, <3>3 DEF Sent
    <3>4. Sent(b, l)' = Sent(b, l) \cup {v}
      BY <2>0, <2>1, <3>2
    <3> QED BY <2>0, <2>1, <3>3, <3>4
  <2>7. v \notin Sent(b, l) /\ <<l, v>> \notin build[b].errors
    <3>1. ~(l < l)
      BY <2>0, <2>1, LookupsAre
    <3>2. v \notin Sent(b, l)
      BY <2>0, <2>1, <3>1 DEF Sent
    <3> QED BY <1>1, <2>0, <2>1, <3>2 DEF BuildInv
  <2>8. ASSUME NEW m \in Lookups
        PROVE  Indexed(b, m)' = IF m = l /\ done THEN Indexed(b, m) \cup {<<b, v>>}
                                ELSE Indexed(b, m)
    <3>1. CASE m = l /\ done
      BY <2>4, <2>6, <2>7, <3>1 DEF Indexed
    <3>2. CASE m = l /\ ~done
      <4>1. Sent(b, m)' = Sent(b, m) \cup {v} /\ build'[b].errors = build[b].errors \cup {<<l, v>>}
        BY <2>4, <2>6, <3>2
      <4>2. \A w : <<m, w>> \in build'[b].errors <=> <<m, w>> \in build[b].errors \/ w = v
        BY <4>1, <3>2
      <4>3. v \notin Sent(b, m)
        BY <2>7, <3>2
      <4>4. {w \in Sent(b, m)' : <<m, w>> \notin build'[b].errors}
              = {w \in Sent(b, m) : <<m, w>> \notin build[b].errors}
        BY <4>1, <4>2, <4>3
      <4> QED BY <3>2, <4>4 DEF Indexed
    <3>3. CASE m # l
      <4>1. \A w : <<m, w>> \in build'[b].errors <=> <<m, w>> \in build[b].errors
        BY <2>4, <3>3
      <4> QED BY <2>6, <3>3, <4>1 DEF Indexed
    <3> QED BY <3>1, <3>2, <3>3
  <2>9. content[n] = Indexed(b, l) /\ n \in exists
    BY <1>1, <2>0, <2>1, <2>5 DEF BuildInv
  <2>10. /\ content'[n] = Indexed(b, l)'
         /\ \A m \in IndexNames \ {n} : content'[m] = content[m]
    <3>1. ASSUME NEW d \in Indexed(b, l) PROVE d[2] # v
      <4>1. PICK w \in Sent(b, l) : d = <<b, w>>
        BY DEF Indexed
      <4> QED BY <2>7, <4>1
    <3>2. {d \in content[n] : d[2] # v} = content[n]
      BY <2>9, <3>1
    <3>3. CASE done
      <4>1. content' = [content EXCEPT ![n] = content[n] \cup {<<b, v>>}]
        BY <2>2, <3>2, <3>3
      <4> QED BY <2>0, <2>1, <2>8, <2>9, <3>3, <4>1 DEF LookupTypes
    <3>4. CASE ~done
      BY <2>0, <2>1, <2>2, <2>8, <2>9, <3>4
    <3> QED BY <3>3, <3>4
  <2>11. BuildInv(b)'
    <3>1. \A m, k \in Lookups : build[b].target[m] = build[b].target[k] => m = k
      BY <1>1, <2>1 DEF BuildInv
    <3>2. ASSUME NEW m \in Lookups, NEW w, <<m, w>> \in build'[b].errors
          PROVE  w \in Sent(b, m)'
      <4>1. CASE <<m, w>> \in build[b].errors
        <5>1. w \in Sent(b, m)
          BY <1>1, <2>0, <2>1, <4>1 DEF BuildInv
        <5> QED BY <2>6, <5>1
      <4>2. CASE m = l /\ w = v
        BY <2>0, <2>1, <2>6, <4>2
      <4> QED BY <2>4, <3>2, <4>1, <4>2
    <3>3. build'[b].todo \subseteq build'[b].values[build'[b].next]
      BY <1>1, <2>0, <2>1, <2>4 DEF BuildInv
    <3>4. ASSUME NEW m \in Lookups
          PROVE  /\ build'[b].target[m] \in exists'
                 /\ content'[build'[b].target[m]] = Indexed(b, m)'
      <4>1. build[b].target[m] \in exists /\ content[build[b].target[m]] = Indexed(b, m)
        BY <1>1, <2>5 DEF BuildInv
      <4>2. CASE m = l
        BY <2>0, <2>1, <2>4, <2>10, <4>1, <4>2
      <4>3. CASE m # l
        <5>1. build[b].target[m] # n /\ build[b].target[m] \in IndexNames
          BY <1>1, <2>0, <2>1, <3>1, <4>3
        <5> QED BY <2>0, <2>1, <2>4, <2>8, <2>10, <4>1, <4>3, <5>1
      <4> QED BY <4>2, <4>3
    <3> QED BY <2>4, <2>5, <3>1, <3>2, <3>3, <3>4 DEF BuildInv
  <2>12. ASSUME NEW c \in Builds \ {b}, NEW m \in Created(c)
         PROVE  /\ build[c].target[m] # n
                /\ content'[build[c].target[m]] = content[build[c].target[m]]
    <3>1. Apart(c, b) /\ m \in Lookups
      BY DEF LookupInv, Created
    <3>2. build[c].target[m] # n /\ build[c].target[m] \in IndexNames
      BY <1>1, <2>0, <2>1, <2>5, <3>1 DEF Apart
    <3> QED BY <2>10, <3>2
  <2>13. \A c \in Builds \ {b} : /\ Created(c)' = Created(c) /\ BuildInv(c)'
                                 /\ \A m \in Lookups : Indexed(c, m)' = Indexed(c, m)
    BY <1>2, <2>0, <2>1, <2>3, <2>12
  <2>14. ASSUME NEW c \in Builds, NEW m \in Lookups PROVE IsComplete(c, m)'
    <3>1. CASE c = b
      BY <2>4, <3>1 DEF IsComplete
    <3>2. CASE c # b /\ build[c].target[m] # n
      <4>1. IsComplete(c, m) /\ build[c].target[m] \in IndexNames
        BY <1>1
      <4> QED BY <2>0, <2>1, <2>3, <2>10, <2>13, <3>2, <4>1 DEF IsComplete
    <3>3. CASE c # b /\ build[c].target[m] = n
      <4>1. \A d \in content'[n] : d[1] = b
        BY <1>11, <2>10
      <4>2. build[c].at = "returned" => deletes > 0
        <5>1. build[c].at = "returned" /\ deletes = 0 => m \in Created(c)
          BY DEF Created
        <5>2. deletes \in Nat
          BY LookupsAre DEF LookupTypes
        <5> QED BY <2>12, <3>3, <5>1, <5>2
      <4> QED BY <2>0, <2>1, <2>3, <3>3, <4>1, <4>2 DEF IsComplete
    <3> QED BY <3>1, <3>2, <3>3
  <2>15. ASSUME NEW c \in Builds, NEW d \in Builds, c # d PROVE Apart(c, d)'
    <3>1. Apart(c, d) /\ \A e \in Builds : build'[e].target = build[e].target
      BY <2>3, <2>4, <2>15 DEF LookupInv
    <3>2. Created(c)' = Created(c) /\ Created(d)' = Created(d)
      BY <2>5, <2>13
    <3> QED BY <3>1, <3>2 DEF Apart
  <2>16. BuildsDoNotMix'
    <3>1. \A d, e \in content'[n] : d[1] = e[1]
      BY <1>11, <2>10
    <3> QED BY <2>10, <3>1 DEF LookupInv, BuildsDoNotMix
  <2>17. \A m \in IndexNames \ exists' : content'[m] = {}
    BY <2>0, <2>1, <2>9, <2>10 DEF LookupInv
  <2> QED BY <2>11, <2>13, <2>14, <2>15, <2>16, <2>17 DEF LookupInv
<1>13. ASSUME NEW n \in IndexNames, Delete(n) PROVE LookupInv'
  <2>1. /\ build' = build /\ exists' = exists \ {n} /\ deletes' > 0 /\ deletes' \in Nat
        /\ content'[n] = {} /\ \A m \in IndexNames \ {n} : content'[m] = content[m]
    <3>1. deletes \in Nat
      BY LookupsAre DEF LookupTypes
    <3> QED BY <1>13, <3>1 DEF Delete, LookupTypes
  <2>2. ASSUME NEW c \in Builds, NEW l \in Created(c)'
        PROVE  /\ l \in Created(c) /\ l \in Lookups /\ build[c].target[l] # n
               /\ build[c].target[l] \in IndexNames
    <3>1. l \in Lookups /\ build[c].at \in {"create", "fill", "bulk"} /\ l \in Created(c)
      <4>1. ~(deletes' = 0)
        BY <2>1
      <4> QED BY <2>1, <4>1 DEF Created
    <3>2. n \notin Targets(c)
      BY <1>13, <3>1 DEF Delete, Over
    <3> QED BY <1>1, <3>1, <3>2 DEF Targets
  <2>3. \A c \in Builds, l \in Lookups : Sent(c, l)' = Sent(c, l) /\ Indexed(c, l)' = Indexed(c, l)
    BY <2>1 DEF Sent, Indexed
  <2>4. ASSUME NEW c \in Builds PROVE BuildInv(c)'
    <3>1. BuildInv(c)
      BY <1>1
    <3>2. \A l \in Created(c)' : /\ build[c].target[l] \in exists'
                                 /\ content'[build[c].target[l]] = Indexed(c, l)'
      BY <2>1, <2>2, <2>3, <3>1 DEF BuildInv
    <3>3. build[c].at \notin {"failed", "returned"} =>
            \A l \in Lookups : \A w : <<l, w>> \in build[c].errors => w \in Sent(c, l)'
      BY <2>3, <3>1 DEF BuildInv
    <3> QED BY <2>1, <3>1, <3>2, <3>3 DEF BuildInv
  <2>5. ASSUME NEW c \in Builds, NEW l \in Lookups PROVE IsComplete(c, l)'
    <3>1. IsComplete(c, l) /\ build[c].target[l] \in IndexNames
      BY <1>1
    <3> QED BY <2>1, <2>3, <3>1 DEF IsComplete
  <2>6. ASSUME NEW c \in Builds, NEW d \in Builds, c # d PROVE Apart(c, d)'
    <3>1. Apart(c, d)
      BY <2>6 DEF LookupInv
    <3> QED BY <2>1, <2>2, <3>1 DEF Apart
  <2>7. BuildsDoNotMix' /\ \A m \in IndexNames \ exists' : content'[m] = {}
    BY <2>1 DEF LookupInv, BuildsDoNotMix
  <2> QED BY <2>4, <2>5, <2>6, <2>7 DEF LookupInv
<1>14. CASE UNCHANGED lookupVars
  <2>1. UNCHANGED <<build, exists, content, deletes>>
    BY <1>14 DEF lookupVars
  <2>2. \A c \in Builds : /\ Created(c)' = Created(c) /\ BuildInv(c)'
                          /\ \A l \in Lookups : Indexed(c, l)' = Indexed(c, l)
    BY <1>2, <2>1
  <2> QED BY <2>1, <2>2 DEF LookupInv, IsComplete, Apart, BuildsDoNotMix
<1> QED BY <1>4, <1>6, <1>7, <1>8, <1>9, <1>10, <1>12, <1>13, <1>14 DEF LookupNext

LEMMA LookupInductive == LookupSpec => [](LookupTypes /\ LookupInv)
<1>1. LookupInit => LookupInv
  <2> SUFFICES ASSUME LookupInit PROVE LookupInv
    OBVIOUS
  <2>1. ASSUME NEW b \in Builds
        PROVE  /\ build[b].at = "new" /\ build[b].next = 1 /\ build[b].errors = {}
    BY DEF LookupInit, NewBuild
  <2>2. \A b \in Builds : Created(b) = {}
    BY <2>1 DEF Created
  <2> QED BY <2>1, <2>2 DEF LookupInit, LookupInv, BuildInv, IsComplete, Apart, BuildsDoNotMix
<1> QED BY <1>1, LookupInitType, LookupNextType, LookupNextInv, PTL DEF LookupSpec

\* However many builds run, and however their checks, creations, writes and failures
\* interleave with each other and with indices deleted by hand, no index has documents
\* of two builds (run, validate_targets, create_indices).
THEOREM BuildsNeverMix == LookupSpec => []BuildsDoNotMix
<1>1. LookupInv => BuildsDoNotMix
  BY DEF LookupInv
<1> QED BY <1>1, LookupInductive, PTL

\* A build that returns has filled all of its indices with what it collected, but for
\* the entries it reports as errors, unless one has been deleted since (bulk_index).
THEOREM ReturnedBuildsAreComplete == LookupSpec => []ReturnedIsComplete
<1>1. LookupInv => ReturnedIsComplete
  <2> SUFFICES ASSUME LookupInv, NEW b \in Builds, NEW l \in Lookups, build[b].at = "returned"
               PROVE  \/ content[build[b].target[l]] =
                           {<<b, v>> : v \in {w \in build[b].values[l] : <<l, w>> \notin build[b].errors}}
                      \/ deletes > 0 /\ \A d \in content[build[b].target[l]] : d[1] # b
    BY DEF ReturnedIsComplete
  <2>1. Sent(b, l) = build[b].values[l] /\ IsComplete(b, l)
    BY DEF Sent, LookupInv
  <2> QED BY <2>1 DEF IsComplete, Indexed
<1> QED BY <1>1, LookupInductive, PTL

(***************************************************************************)
(* DirectoryIndex: the documents of a directory                            *)
(***************************************************************************)

AnyRow == Row \cup {NoRow}

\* What a transaction may have written.
Transaction == UNION {[S -> AnyRow] : S \in SUBSET DirectoryRows}

DirectoryType ==
  /\ row \in [DirectoryRows -> AnyRow] /\ unused \subseteq DirectoryRows
  /\ areaName \in 1 .. LastName /\ (sweep = "rename" => areaName < LastName)
  /\ at \in [Requests -> DirectoryRows] /\ written \in [Requests -> Transaction]
  /\ phase \in [Requests -> {"idle", "open", "saved", "related", "moderated"}]
  /\ \A w \in Requests : phase[w] \in {"saved", "related"} =>
       at[w] \in DOMAIN written[w] /\ written[w][at[w]] \in Row
  /\ opened \in 0 .. MaxOpened /\ troubles \in 0 .. MaxTroubles
  /\ sweep \in {"none", "rename", "script"} /\ (sweep = "none" => left = {})
  /\ listed \in [DirectoryRows -> AnyRow] /\ left \subseteq DirectoryRows
  /\ document \in [DirectoryRows -> NoDocument .. LastName] /\ suspect \subseteq DirectoryRows

LEMMA TransactionIs ==
  /\ <<>> \in Transaction /\ DOMAIN <<>> = {}
  /\ \A f \in Transaction :
       /\ f \in [DOMAIN f -> AnyRow] /\ DOMAIN f \subseteq DirectoryRows
       /\ \A S \in SUBSET DirectoryRows : \A g \in [S -> AnyRow] : g \in Transaction /\ DOMAIN g = S
<1>1. <<>> \in [{} -> AnyRow] /\ {} \in SUBSET DirectoryRows
  OBVIOUS
<1> QED BY <1>1 DEF Transaction

LEMMA DirectoryNumbers ==
  /\ 1 \in 1 .. LastName /\ 0 \in 0 .. MaxOpened /\ 0 \in 0 .. MaxTroubles
  /\ \A n \in 0 .. MaxOpened : n < MaxOpened => n + 1 \in 0 .. MaxOpened
  /\ \A n \in 0 .. MaxTroubles : n < MaxTroubles => n + 1 \in 0 .. MaxTroubles
  /\ \A n \in 1 .. LastName : n < LastName => n + 1 \in 1 .. LastName
  /\ NoDocument \in NoDocument .. LastName
  /\ \A r : \A n \in 1 .. LastName : DocumentOf(r, n) \in NoDocument .. LastName
BY DirectoryAssumption DEF NoDocument, DocumentOf

LEMMA RowsAre ==
  /\ NoRow \in AnyRow /\ Row \subseteq AnyRow
  /\ \A s \in {"PUBLISHED", "TO MODERATE"}, b \in BOOLEAN :
       [status |-> s, tagged |-> b] \in Row
  /\ \A r \in AnyRow : r.tagged \in BOOLEAN
  /\ \A r \in AnyRow : [r EXCEPT !.tagged = r.tagged] = r
  /\ \A r \in Row : [r EXCEPT !.status = "TO MODERATE"] \in Row
  /\ \A r \in Row : \A b \in BOOLEAN : [r EXCEPT !.tagged = b] \in Row
<1>1. NoRow \in AnyRow /\ Row \subseteq AnyRow
  BY DEF AnyRow
<1>2. \A s \in {"PUBLISHED", "TO MODERATE"}, b \in BOOLEAN : [status |-> s, tagged |-> b] \in Row
  BY DEF Row
<1>3. ASSUME NEW r \in AnyRow PROVE r.tagged \in BOOLEAN /\ [r EXCEPT !.tagged = r.tagged] = r
  <2>1. CASE r \in Row
    BY <2>1 DEF Row
  <2>2. CASE r = NoRow
    BY <2>2 DEF NoRow
  <2> QED BY <2>1, <2>2 DEF AnyRow
<1>4. \A r \in Row : [r EXCEPT !.status = "TO MODERATE"] \in Row
  BY DEF Row
<1>5. \A r \in Row : \A b \in BOOLEAN : [r EXCEPT !.tagged = b] \in Row
  BY DEF Row
<1> QED BY <1>1, <1>2, <1>3, <1>4, <1>5

LEMMA DirectoryInitType == DirectoryInit => DirectoryType
<1> SUFFICES ASSUME DirectoryInit PROVE DirectoryType
  OBVIOUS
<1>1. row \in [DirectoryRows -> AnyRow]
  <2>1. [status |-> "PUBLISHED", tagged |-> TRUE] \in AnyRow
    BY RowsAre
  <2> QED BY <2>1, RowsAre DEF DirectoryInit
<1>2. at \in [Requests -> DirectoryRows]
  <2>1. (CHOOSE r \in DirectoryRows : TRUE) \in DirectoryRows
    BY DirectoryAssumption
  <2> QED BY <2>1 DEF DirectoryInit
<1>3. written \in [Requests -> Transaction]
  BY TransactionIs, Zenon DEF DirectoryInit
<1>4. document \in [DirectoryRows -> NoDocument .. LastName]
  <2>1. document = [r \in DirectoryRows |-> DocumentOf(row[r], 1)]
    BY DEF DirectoryInit
  <2>2. \A r \in DirectoryRows : DocumentOf(row[r], 1) \in NoDocument .. LastName
    BY DirectoryNumbers
  <2> QED BY <2>1, <2>2
<1>5. /\ unused \subseteq DirectoryRows /\ areaName \in 1 .. LastName
      /\ phase \in [Requests -> {"idle", "open", "saved", "related", "moderated"}]
      /\ \A w \in Requests : phase[w] = "idle"
      /\ opened \in 0 .. MaxOpened /\ troubles \in 0 .. MaxTroubles /\ sweep = "none" /\ left = {}
      /\ left \subseteq DirectoryRows /\ suspect \subseteq DirectoryRows
  BY DirectoryNumbers DEF DirectoryInit
<1>6. listed \in [DirectoryRows -> AnyRow]
  BY RowsAre DEF DirectoryInit
<1>7. \A w \in Requests : phase[w] \notin {"saved", "related"}
  BY <1>5
<1>8. sweep \in {"none", "rename", "script"} /\ sweep # "rename"
  BY <1>5
<1> QED BY <1>1, <1>2, <1>3, <1>4, <1>5, <1>6, <1>7, <1>8 DEF DirectoryType

\* What an attempt at the index may do, whatever document it is given.
LEMMA SyncIs ==
  ASSUME DirectoryType, NEW r \in DirectoryRows, NEW d \in NoDocument .. LastName, Sync(r, d)
  PROVE  /\ document' \in [DirectoryRows -> NoDocument .. LastName]
         /\ suspect' \subseteq DirectoryRows /\ troubles' \in 0 .. MaxTroubles
         /\ \A x \in DirectoryRows \ {r} : document'[x] = document[x]
         /\ suspect \subseteq suspect' \cup {r}
         /\ r \notin suspect' => document'[r] = d /\ sweep = "none"
BY DirectoryNumbers DEF DirectoryType, Sync, Trouble

\* A transaction in which row r was written.
LEMMA WrittenIs ==
  ASSUME DirectoryType, NEW w \in Requests, NEW r \in DirectoryRows, NEW new \in AnyRow, NEW f,
         f = [x \in DOMAIN written[w] \cup {r} |-> IF x = r THEN new ELSE written[w][x]],
         written' = [written EXCEPT ![w] = f]
  PROVE  /\ written' \in [Requests -> Transaction]
         /\ DOMAIN written'[w] = DOMAIN written[w] \cup {r}
         /\ written'[w][r] = new
         /\ \A x \in DOMAIN written[w] \ {r} : written'[w][x] = written[w][x]
         /\ \A v \in Requests \ {w} : written'[v] = written[v]
<1>1. written[w] \in Transaction /\ written \in [Requests -> Transaction]
  BY DEF DirectoryType
<1>2. /\ DOMAIN written[w] \cup {r} \in SUBSET DirectoryRows
      /\ f \in [DOMAIN written[w] \cup {r} -> AnyRow]
  BY <1>1, TransactionIs
<1>3. f \in Transaction /\ DOMAIN f = DOMAIN written[w] \cup {r}
  BY <1>2, TransactionIs
<1>4. written'[w] = f /\ written' \in [Requests -> Transaction]
      /\ \A v \in Requests \ {w} : written'[v] = written[v]
  BY <1>1, <1>3
<1>5. f[r] = new /\ \A x \in DOMAIN written[w] \ {r} : f[x] = written[w][x]
  OBVIOUS
<1> QED BY <1>3, <1>4, <1>5

\* A step of request w that writes row r in its transaction and syncs its document.
WritesRow(w, r, new) ==
  /\ new \in AnyRow
  /\ written' \in [Requests -> Transaction]
  /\ DOMAIN written'[w] = DOMAIN written[w] \cup {r}
  /\ written'[w][r] = new
  /\ \A x \in DOMAIN written[w] \ {r} : written'[w][x] = written[w][x]
  /\ \A v \in Requests \ {w} : written'[v] = written[v]
  /\ Sync(r, DocumentOf(new, areaName))
  /\ UNCHANGED <<row, unused, at, opened, areaName, sweep, listed, left>>

LEMMA SaveWrites ==
  ASSUME DirectoryType, NEW w \in Requests, NEW status \in {"PUBLISHED", "TO MODERATE"},
         Save(w, status)
  PROVE  \E new \in Row : WritesRow(w, at[w], new)
<1> DEFINE r == at[w]
           new == [status |-> status, tagged |-> Own(w, r).tagged]
           f == [x \in DOMAIN written[w] \cup {r} |-> IF x = r THEN new ELSE written[w][x]]
<1>1. r \in DirectoryRows /\ written[w] \in Transaction /\ row[r] \in AnyRow
  BY DEF DirectoryType
<1>2. Own(w, r) \in AnyRow
  <2>1. written[w] \in [DOMAIN written[w] -> AnyRow]
    BY <1>1, TransactionIs
  <2> QED BY <1>1, <2>1 DEF Own
<1>3. new \in Row
  BY <1>2, RowsAre
<1>4. written' = [written EXCEPT ![w] = f] /\ Sync(r, DocumentOf(new, areaName))
      /\ UNCHANGED <<row, unused, at, opened, areaName, sweep, listed, left>>
  BY Zenon DEF Save, sweepVars
<1> HIDE DEF r, new
<1>5. new \in AnyRow
  BY <1>3, RowsAre
<1> QED BY <1>1, <1>3, <1>4, <1>5, WrittenIs DEF WritesRow, r

LEMMA RelateWrites ==
  ASSUME DirectoryType, NEW w \in Requests, NEW tagged \in BOOLEAN, Relate(w, tagged)
  PROVE  \/ \E new \in Row : WritesRow(w, at[w], new)
         \/ UNCHANGED <<written, document, suspect, troubles,
                        row, unused, at, opened, areaName, sweep, listed, left>>
<1> DEFINE r == at[w]
           old == written[w][r]
           new == [old EXCEPT !.tagged = tagged]
           f == [x \in DOMAIN written[w] \cup {r} |-> IF x = r THEN new ELSE written[w][x]]
<1>1. /\ phase[w] = "saved" /\ written' = [written EXCEPT ![w] = [written[w] EXCEPT ![r] = new]]
      /\ \/ Sync(r, DocumentOf(new, areaName))
         \/ tagged = old.tagged /\ UNCHANGED <<document, suspect, troubles>>
      /\ UNCHANGED <<row, unused, at, opened, areaName, sweep, listed, left>>
  BY Zenon DEF Relate, sweepVars
<1>2. r \in DirectoryRows /\ r \in DOMAIN written[w] /\ old \in Row /\ written[w] \in Transaction
      /\ written \in [Requests -> Transaction]
  BY <1>1 DEF DirectoryType
<1>3. new \in Row /\ (tagged = old.tagged => new = old)
  BY <1>2, RowsAre
<1> HIDE DEF r, new, old
<1>4. written[w] \in [DOMAIN written[w] -> AnyRow]
  BY <1>2, TransactionIs
<1>5. [written[w] EXCEPT ![r] = new] = f
  BY <1>2, <1>4
<1>6. CASE Sync(r, DocumentOf(new, areaName))
  <2>1. new \in AnyRow /\ written' = [written EXCEPT ![w] = f]
    BY <1>1, <1>3, <1>5, RowsAre
  <2>3. WritesRow(w, r, new)
    <3>1. UNCHANGED <<row, unused, at, opened, areaName, sweep, listed, left>>
      BY <1>1
    <3> QED BY <1>2, <1>6, <2>1, <3>1, WrittenIs DEF WritesRow
  <2> QED BY <1>3, <2>3 DEF r
<1>7. CASE tagged = old.tagged /\ UNCHANGED <<document, suspect, troubles>>
  <2>1. [written[w] EXCEPT ![r] = new] = written[w]
    BY <1>3, <1>4, <1>7 DEF old
  <2>2. written' = written
    BY <1>1, <1>2, <2>1
  <2> QED BY <1>1, <1>7, <2>2
<1> QED BY <1>1, <1>6, <1>7

LEMMA ModerateWrites ==
  ASSUME DirectoryType, NEW w \in Requests, Moderate(w)
  PROVE  \E new \in Row : WritesRow(w, at[w], new)
<1> DEFINE r == at[w]
           old == written[w][r]
           new == [old EXCEPT !.status = "TO MODERATE"]
           f == [x \in DOMAIN written[w] \cup {r} |-> IF x = r THEN new ELSE written[w][x]]
<1>1. /\ phase[w] = "related" /\ written' = [written EXCEPT ![w] = [written[w] EXCEPT ![r] = new]]
      /\ Sync(r, NoDocument)
      /\ UNCHANGED <<row, unused, at, opened, areaName, sweep, listed, left>>
  BY Zenon DEF Moderate, sweepVars
<1>2. r \in DirectoryRows /\ r \in DOMAIN written[w] /\ old \in Row /\ written[w] \in Transaction
      /\ written \in [Requests -> Transaction]
  BY <1>1 DEF DirectoryType
<1>3. new \in Row /\ DocumentOf(new, areaName) = NoDocument
  BY <1>2 DEF Row, DocumentOf
<1> HIDE DEF r, new, old
<1>4. written[w] \in [DOMAIN written[w] -> AnyRow]
  BY <1>2, TransactionIs
<1>5. [written[w] EXCEPT ![r] = new] = f
  BY <1>2, <1>4
<1>6. new \in AnyRow /\ written' = [written EXCEPT ![w] = f]
  BY <1>1, <1>3, <1>5, RowsAre
<1>8. WritesRow(w, r, new)
  <2>1. Sync(r, DocumentOf(new, areaName))
        /\ UNCHANGED <<row, unused, at, opened, areaName, sweep, listed, left>>
    BY <1>1, <1>3
  <2> QED BY <1>2, <1>6, <2>1, WrittenIs DEF WritesRow
<1> QED BY <1>3, <1>8 DEF r

LEMMA DeleteWrites ==
  ASSUME DirectoryType, NEW w \in Requests, DeleteRow(w)
  PROVE  WritesRow(w, at[w], NoRow)
<1> DEFINE r == at[w]
           f == [x \in DOMAIN written[w] \cup {r} |-> IF x = r THEN NoRow ELSE written[w][x]]
<1>1. /\ written' = [written EXCEPT ![w] = [x \in {r} |-> NoRow]]
      /\ DOMAIN written[w] = {} /\ Sync(r, NoDocument)
      /\ UNCHANGED <<row, unused, at, opened, areaName, sweep, listed, left>>
  BY Zenon DEF DeleteRow, sweepVars
<1>2. r \in DirectoryRows /\ DocumentOf(NoRow, areaName) = NoDocument /\ NoRow \in AnyRow
  BY RowsAre DEF DirectoryType, DocumentOf, NoRow
<1>3. f = [x \in {r} |-> NoRow]
  BY <1>1
<1>4. written' = [written EXCEPT ![w] = f]
  BY <1>1, <1>3
<1>5. Sync(r, DocumentOf(NoRow, areaName))
      /\ UNCHANGED <<row, unused, at, opened, areaName, sweep, listed, left>>
  BY <1>1, <1>2
<1> HIDE DEF r
<1>6. WritesRow(w, r, NoRow)
  <2>1. r \in DirectoryRows /\ NoRow \in AnyRow
    BY <1>2
  <2> HIDE DEF f
  <2>2. f = [x \in DOMAIN written[w] \cup {r} |-> IF x = r THEN NoRow ELSE written[w][x]]
    BY DEF f
  <2>3. /\ written' \in [Requests -> Transaction]
        /\ DOMAIN written'[w] = DOMAIN written[w] \cup {r}
        /\ written'[w][r] = NoRow
        /\ \A x \in DOMAIN written[w] \ {r} : written'[w][x] = written[w][x]
        /\ \A v \in Requests \ {w} : written'[v] = written[v]
    BY <1>4, <2>1, <2>2, WrittenIs
  <2> QED BY <1>5, <2>1, <2>3 DEF WritesRow
<1> QED BY <1>6 DEF r

LEMMA WritesRowType ==
  ASSUME DirectoryType, NEW w \in Requests, NEW new, WritesRow(w, at[w], new),
         NEW s \in {"saved", "related", "moderated"}, phase' = [phase EXCEPT ![w] = s],
         s = "moderated" \/ new \in Row
  PROVE  DirectoryType'
<1> DEFINE r == at[w]
<1>1. r \in DirectoryRows /\ phase \in [Requests -> {"idle", "open", "saved", "related", "moderated"}]
      /\ areaName \in 1 .. LastName
  BY DEF DirectoryType
<1>2. /\ written' \in [Requests -> Transaction] /\ DOMAIN written'[w] = DOMAIN written[w] \cup {r}
      /\ written'[w][r] = new /\ \A v \in Requests \ {w} : written'[v] = written[v]
      /\ Sync(r, DocumentOf(new, areaName))
      /\ UNCHANGED <<row, unused, at, opened, areaName, sweep, listed, left>>
  BY DEF WritesRow
<1>3. /\ document' \in [DirectoryRows -> NoDocument .. LastName]
      /\ suspect' \subseteq DirectoryRows /\ troubles' \in 0 .. MaxTroubles
  <2>1. DocumentOf(new, areaName) \in NoDocument .. LastName
    BY <1>1, DirectoryNumbers
  <2> QED BY <1>1, <1>2, <2>1, SyncIs
<1>4. ASSUME NEW v \in Requests, phase'[v] \in {"saved", "related"}
      PROVE  at'[v] \in DOMAIN written'[v] /\ written'[v][at'[v]] \in Row
  <2>1. CASE v = w
    BY <1>1, <1>2, <1>4, <2>1
  <2>2. CASE v # w
    <3>1. phase[v] \in {"saved", "related"} /\ written'[v] = written[v] /\ at'[v] = at[v]
      BY <1>1, <1>2, <1>4, <2>2
    <3> QED BY <3>1 DEF DirectoryType
  <2> QED BY <2>1, <2>2
<1>5. phase' \in [Requests -> {"idle", "open", "saved", "related", "moderated"}]
  BY <1>1
<1> QED BY <1>2, <1>3, <1>4, <1>5 DEF DirectoryType

\* A row that is written by no request, or only by w, is as Own says.
LEMMA OwnIs ==
  ASSUME DirectoryType, NEW w \in Requests, NEW r \in DirectoryRows
  PROVE  Own(w, r) \in AnyRow
<1>1. written[w] \in [DOMAIN written[w] -> AnyRow]
  BY TransactionIs DEF DirectoryType
<1> QED BY <1>1 DEF Own, DirectoryType

LEMMA CommitRow ==
  ASSUME DirectoryType, NEW w \in Requests, Commit(w)
  PROVE  /\ row' \in [DirectoryRows -> AnyRow]
         /\ \A r \in DirectoryRows : row'[r] = IF r \in DOMAIN written[w] THEN written[w][r] ELSE row[r]
         /\ written' \in [Requests -> Transaction] /\ DOMAIN written'[w] = {}
         /\ \A v \in Requests \ {w} : written'[v] = written[v]
<1>1. row' = [r \in DirectoryRows |-> Own(w, r)] /\ written' = [written EXCEPT ![w] = <<>>]
  BY DEF Commit
<1>2. \A r \in DirectoryRows : Own(w, r) \in AnyRow
  BY OwnIs
<1>3. row' \in [DirectoryRows -> AnyRow]
  BY <1>1, <1>2
<1>4. \A r \in DirectoryRows : row'[r] = IF r \in DOMAIN written[w] THEN written[w][r] ELSE row[r]
  BY <1>1 DEF Own
<1>5. written'[w] = <<>> /\ written' \in [Requests -> Transaction]
      /\ \A v \in Requests \ {w} : written'[v] = written[v]
  BY <1>1, TransactionIs DEF DirectoryType
<1>6. DOMAIN written'[w] = {}
  BY <1>5, TransactionIs
<1> QED BY <1>3, <1>4, <1>5, <1>6

LEMMA SweepType ==
  ASSUME DirectoryType,
         \/ \E kind \in {"rename", "script"} : BeginSweep(kind)
         \/ \E r \in DirectoryRows : SweepRow(r)
         \/ EndSweep
  PROVE  DirectoryType'
<1> USE DEF DirectoryType, requestVars
<1>1. ASSUME NEW kind \in {"rename", "script"}, BeginSweep(kind) PROVE DirectoryType'
  <2>1. UNCHANGED <<row, unused, areaName, phase, at, written, opened, troubles, document>>
        /\ sweep' = kind /\ (kind = "rename" => areaName < LastName)
    BY <1>1 DEF BeginSweep
  <2>2. left' \subseteq DirectoryRows
    BY <1>1 DEF BeginSweep
  <2>3. listed' \in [DirectoryRows -> AnyRow]
    <3>1. listed' = [r \in DirectoryRows |-> IF r \in left' THEN row[r] ELSE NoRow]
      BY <1>1 DEF BeginSweep
    <3> QED BY <3>1, RowsAre
  <2>4. suspect' \subseteq DirectoryRows
    <3>1. suspect' = suspect \cup UNION {DOMAIN written[w] : w \in Requests}
      BY <1>1 DEF BeginSweep
    <3>2. \A w \in Requests : DOMAIN written[w] \subseteq DirectoryRows
      BY TransactionIs
    <3> QED BY <3>1, <3>2
  <2> QED BY <2>1, <2>2, <2>3, <2>4
<1>2. ASSUME NEW r \in DirectoryRows, SweepRow(r) PROVE DirectoryType'
  <2> DEFINE name == IF sweep = "rename" THEN areaName + 1 ELSE areaName
             d == DocumentOf([listed[r] EXCEPT !.tagged = row[r].tagged], name)
  <2>1. /\ UNCHANGED <<row, unused, areaName, phase, at, written, opened, sweep, listed>>
        /\ left' = left \ {r}
        /\ \/ document' = [document EXCEPT ![r] = d] /\ UNCHANGED <<suspect, troubles>>
           \/ document' = document /\ Trouble({r})
    BY <1>2, Zenon DEF SweepRow
  <2>2. d \in NoDocument .. LastName
    <3>1. name \in 1 .. LastName
      BY DirectoryNumbers
    <3> HIDE DEF name
    <3> QED BY <3>1, DirectoryNumbers
  <2> HIDE DEF d
  <2>3. document' \in [DirectoryRows -> NoDocument .. LastName]
    BY <2>1, <2>2
  <2>4. suspect' \subseteq DirectoryRows /\ troubles' \in 0 .. MaxTroubles
    BY <2>1, DirectoryNumbers DEF Trouble
  <2> QED BY <2>1, <2>3, <2>4
<1>3. CASE EndSweep
  <2>1. /\ UNCHANGED <<row, unused, phase, at, written, opened, document>>
        /\ sweep' = "none" /\ left' = {} /\ listed' = [r \in DirectoryRows |-> NoRow]
    BY <1>3 DEF EndSweep
  <2>2. areaName' \in 1 .. LastName
    BY <1>3, DirectoryNumbers DEF EndSweep
  <2>3. suspect' \subseteq DirectoryRows /\ troubles' \in 0 .. MaxTroubles
    BY <1>3, DirectoryNumbers DEF EndSweep, Trouble
  <2>4. listed' \in [DirectoryRows -> AnyRow]
    BY <2>1, RowsAre
  <2> QED BY <2>1, <2>2, <2>3, <2>4
<1> QED BY <1>1, <1>2, <1>3

LEMMA RequestType ==
  ASSUME DirectoryType, NEW w \in Requests,
         (\E r \in DirectoryRows : Open(w, r)) \/ Commit(w) \/ RollBack(w)
  PROVE  DirectoryType'
<1> USE DEF DirectoryType, sweepVars
<1>1. ASSUME NEW r \in DirectoryRows, Open(w, r) PROVE DirectoryType'
  <2>1. /\ opened < MaxOpened /\ opened' = opened + 1 /\ unused' = unused \ {r}
        /\ phase' = [phase EXCEPT ![w] = "open"] /\ at' = [at EXCEPT ![w] = r]
        /\ UNCHANGED <<row, written, areaName, sweep, listed, left, document, suspect, troubles>>
    BY <1>1, Zenon DEF Open
  <2>2. opened' \in 0 .. MaxOpened
    BY <2>1, DirectoryNumbers
  <2>3. \A v \in Requests : phase'[v] \in {"saved", "related"} =>
          v # w /\ phase[v] = phase'[v] /\ at'[v] = at[v]
    BY <2>1
  <2> QED BY <2>1, <2>2, <2>3
<1>2. CASE Commit(w)
  <2>1. /\ phase' = [phase EXCEPT ![w] = "idle"]
        /\ UNCHANGED <<unused, at, opened, areaName, sweep, listed, left, document, suspect, troubles>>
    BY <1>2 DEF Commit
  <2>2. \A v \in Requests : phase'[v] \in {"saved", "related"} =>
          phase[v] = phase'[v] /\ written'[v] = written[v] /\ at'[v] = at[v]
    BY <1>2, <2>1, CommitRow
  <2> QED BY <1>2, <2>1, <2>2, CommitRow
<1>3. CASE RollBack(w)
  <2>1. /\ phase' = [phase EXCEPT ![w] = "idle"] /\ written' = [written EXCEPT ![w] = <<>>]
        /\ Trouble(DOMAIN written[w])
        /\ UNCHANGED <<row, unused, at, opened, areaName, sweep, listed, left, document>>
    BY <1>3 DEF RollBack
  <2>2. \A v \in Requests : phase'[v] \in {"saved", "related"} =>
          phase[v] = phase'[v] /\ written'[v] = written[v] /\ at'[v] = at[v]
    BY <2>1
  <2>3. written' \in [Requests -> Transaction]
    BY <2>1, TransactionIs
  <2>4. suspect' \subseteq DirectoryRows /\ troubles' \in 0 .. MaxTroubles
    <3>1. DOMAIN written[w] \subseteq DirectoryRows
      BY TransactionIs
    <3> QED BY <2>1, <3>1, DirectoryNumbers DEF Trouble
  <2> QED BY <2>1, <2>2, <2>3, <2>4
<1> QED BY <1>1, <1>2, <1>3

LEMMA DirectoryNextType ==
  ASSUME DirectoryType, [DirectoryNext]_directoryVars PROVE DirectoryType'
<1>1. ASSUME NEW w \in Requests, NEW status \in {"PUBLISHED", "TO MODERATE"}, Save(w, status)
      PROVE  DirectoryType'
  <2>1. phase' = [phase EXCEPT ![w] = "saved"]
    BY <1>1, Zenon DEF Save
  <2> QED BY <1>1, <2>1, SaveWrites, WritesRowType
<1>2. ASSUME NEW w \in Requests, NEW tagged \in BOOLEAN, Relate(w, tagged) PROVE DirectoryType'
  <2>1. phase[w] = "saved" /\ phase' = [phase EXCEPT ![w] = "related"]
    BY <1>2, Zenon DEF Relate
  <2>2. CASE UNCHANGED <<written, document, suspect, troubles,
                         row, unused, at, opened, areaName, sweep, listed, left>>
    BY <2>1, <2>2 DEF DirectoryType
  <2> QED BY <1>2, <2>1, <2>2, RelateWrites, WritesRowType
<1>3. ASSUME NEW w \in Requests, Moderate(w) \/ DeleteRow(w) PROVE DirectoryType'
  <2>1. phase' = [phase EXCEPT ![w] = "moderated"]
    BY <1>3, Zenon DEF Moderate, DeleteRow
  <2> QED BY <1>3, <2>1, ModerateWrites, DeleteWrites, WritesRowType
<1>4. CASE UNCHANGED directoryVars
  BY <1>4 DEF directoryVars, sweepVars, requestVars, DirectoryType
<1> QED BY <1>1, <1>2, <1>3, <1>4, RequestType, SweepType DEF DirectoryNext

\* The types of what the directories and their index keep.
THEOREM DirectoryTypeCorrect == DirectorySpec => []DirectoryTypeOK
<1>1. DirectoryType => DirectoryTypeOK
  <2>1. ASSUME DirectoryType, NEW w \in Requests
        PROVE  /\ DOMAIN written[w] \subseteq DirectoryRows
               /\ \A r \in DOMAIN written[w] : written[w][r] \in AnyRow
    BY <2>1, TransactionIs DEF DirectoryType
  <2> QED BY <2>1 DEF DirectoryType, DirectoryTypeOK, AnyRow
<1> QED BY <1>1, DirectoryInitType, DirectoryNextType, PTL DEF DirectorySpec

\* The name that row r is shown with: a rename has written the rows that are swept.
NameShown(r) ==
  IF sweep = "rename" /\ row[r].tagged /\ r \notin left THEN areaName + 1 ELSE areaName

\* The document of a row that no failure and no sweep met: that of the row as the
\* transaction that writes it has it, or as it is committed.  While there is a sweep
\* nobody writes the row, and the sweep has it as it is.
Shows(r) ==
  IF sweep = "none"
  THEN /\ (\A w \in Requests : r \notin DOMAIN written[w]) => document[r] = DocumentOf(row[r], areaName)
       /\ \A w \in Requests : r \in DOMAIN written[w] => document[r] = DocumentOf(written[w][r], areaName)
  ELSE /\ \A w \in Requests : r \notin DOMAIN written[w]
       /\ r \in left \/ (sweep = "rename" /\ row[r].tagged) => listed[r] = row[r]
       /\ document[r] = DocumentOf(row[r], NameShown(r))

\* One request at a time writes a row.
OneWriter == \A v, w \in Requests : v # w => DOMAIN written[v] \cap DOMAIN written[w] = {}

DirectoryInv ==
  DirectoryType /\ OneWriter /\ \A r \in DirectoryRows \ suspect : Shows(r)

LEMMA WritesRowInv ==
  ASSUME DirectoryInv, NEW w \in Requests, NEW new, WritesRow(w, at[w], new), Lock(w, at[w])
         \/ at[w] \in DOMAIN written[w]
  PROVE  OneWriter' /\ \A r \in DirectoryRows \ suspect' : Shows(r)'
<1> DEFINE r == at[w]
<1>1. /\ written' \in [Requests -> Transaction] /\ DOMAIN written'[w] = DOMAIN written[w] \cup {r}
      /\ written'[w][r] = new /\ \A v \in Requests \ {w} : written'[v] = written[v]
      /\ \A x \in DOMAIN written[w] \ {r} : written'[w][x] = written[w][x]
      /\ Sync(r, DocumentOf(new, areaName))
      /\ UNCHANGED <<row, unused, at, opened, areaName, sweep, listed, left>>
  BY DEF WritesRow
<1>2. r \in DirectoryRows /\ DocumentOf(new, areaName) \in NoDocument .. LastName
  BY DirectoryNumbers DEF DirectoryInv, DirectoryType
<1>3. /\ \A x \in DirectoryRows \ {r} : document'[x] = document[x]
      /\ suspect \subseteq suspect' \cup {r}
      /\ r \notin suspect' => document'[r] = DocumentOf(new, areaName) /\ sweep = "none"
  BY <1>1, <1>2, SyncIs DEF DirectoryInv
<1>4. \A v \in Requests \ {w} : r \notin DOMAIN written[v]
  BY DEF DirectoryInv, OneWriter, Lock
<1>5. OneWriter'
  <2> SUFFICES ASSUME NEW u \in Requests, NEW v \in Requests, u # v
               PROVE  DOMAIN written'[u] \cap DOMAIN written'[v] = {}
    BY DEF OneWriter
  <2>1. DOMAIN written[u] \cap DOMAIN written[v] = {}
    BY DEF DirectoryInv, OneWriter
  <2> QED BY <1>1, <1>4, <2>1
<1>6. ASSUME NEW x \in DirectoryRows \ suspect' PROVE Shows(x)'
  <2>1. CASE x = r
    <3>1. sweep' = "none" /\ document'[x] = DocumentOf(new, areaName')
      BY <1>1, <1>3, <2>1
    <3>2. x \in DOMAIN written'[w] /\ written'[w][x] = new
      BY <1>1, <2>1
    <3>3. \A v \in Requests : x \in DOMAIN written'[v] => v = w
      BY <1>1, <1>4, <2>1
    <3> QED BY <3>1, <3>2, <3>3 DEF Shows
  <2>2. CASE x # r
    <3>1. Shows(x)
      BY <1>3, <2>2 DEF DirectoryInv
    <3>2. \A v \in Requests : (x \in DOMAIN written'[v] <=> x \in DOMAIN written[v])
      BY <1>1, <2>2
    <3>3. \A v \in Requests : x \in DOMAIN written[v] => written'[v][x] = written[v][x]
      BY <1>1, <2>2
    <3>4. document'[x] = document[x] /\ UNCHANGED <<row, areaName, sweep, listed, left>>
      BY <1>1, <1>3, <2>2
    <3>5. NameShown(x)' = NameShown(x)
      BY <3>4 DEF NameShown
    <3> QED BY <3>1, <3>2, <3>3, <3>4, <3>5 DEF Shows
  <2> QED BY <2>1, <2>2
<1> QED BY <1>5, <1>6

\* Nothing of this changes when these variables do not.
LEMMA DirectoryUnchanged ==
  ASSUME DirectoryInv, DirectoryType',
         UNCHANGED <<written, row, areaName, sweep, listed, left, document, suspect>>
  PROVE  DirectoryInv'
BY DEF DirectoryInv, OneWriter, Shows, NameShown

LEMMA CommitInv ==
  ASSUME DirectoryInv, NEW w \in Requests, Commit(w) PROVE DirectoryInv'
<1>1. DirectoryType'
  BY RequestType DEF DirectoryInv
<1>2. UNCHANGED <<areaName, sweep, listed, left, document, suspect>>
  BY DEF Commit, sweepVars
<1>3. /\ \A r \in DirectoryRows : row'[r] = IF r \in DOMAIN written[w] THEN written[w][r] ELSE row[r]
      /\ DOMAIN written'[w] = {} /\ \A v \in Requests \ {w} : written'[v] = written[v]
  BY CommitRow DEF DirectoryInv
<1>4. OneWriter'
  BY <1>3 DEF DirectoryInv, OneWriter
<1>5. ASSUME NEW r \in DirectoryRows \ suspect' PROVE Shows(r)'
  <2>1. Shows(r) /\ r \in DirectoryRows
    BY <1>2 DEF DirectoryInv
  <2>2. CASE sweep = "none"
    <3>1. CASE r \in DOMAIN written[w]
      <4>1. row'[r] = written[w][r] /\ document'[r] = DocumentOf(written[w][r], areaName')
        BY <1>2, <1>3, <2>1, <2>2, <3>1 DEF Shows
      <4>2. \A v \in Requests : r \notin DOMAIN written'[v]
        BY <1>3, <3>1 DEF DirectoryInv, OneWriter
      <4> QED BY <1>2, <2>2, <4>1, <4>2 DEF Shows
    <3>2. CASE r \notin DOMAIN written[w]
      <4>1. row'[r] = row[r]
        BY <1>3, <2>1, <3>2
      <4>2. \A v \in Requests : /\ r \in DOMAIN written'[v] <=> r \in DOMAIN written[v]
                                /\ r \in DOMAIN written'[v] => written'[v] = written[v]
        BY <1>3, <3>2
      <4> QED BY <1>2, <2>1, <2>2, <4>1, <4>2 DEF Shows
    <3> QED BY <3>1, <3>2
  <2>3. CASE sweep # "none"
    <3>1. row'[r] = row[r] /\ \A v \in Requests : r \notin DOMAIN written'[v]
      BY <1>3, <2>1, <2>3 DEF Shows
    <3>2. NameShown(r)' = NameShown(r)
      BY <1>2, <3>1 DEF NameShown
    <3> QED BY <1>2, <2>1, <2>3, <3>1, <3>2 DEF Shows
  <2> QED BY <2>2, <2>3
<1> QED BY <1>1, <1>4, <1>5 DEF DirectoryInv

LEMMA RollBackInv ==
  ASSUME DirectoryInv, NEW w \in Requests, RollBack(w) PROVE DirectoryInv'
<1>1. DirectoryType'
  BY RequestType DEF DirectoryInv
<1>2. /\ written' = [written EXCEPT ![w] = <<>>] /\ suspect' = suspect \cup DOMAIN written[w]
      /\ UNCHANGED <<row, areaName, sweep, listed, left, document>>
  BY DEF RollBack, Trouble, sweepVars
<1>3. DOMAIN written'[w] = {} /\ \A v \in Requests \ {w} : written'[v] = written[v]
  BY <1>2, TransactionIs DEF DirectoryInv, DirectoryType
<1>4. OneWriter'
  BY <1>3 DEF DirectoryInv, OneWriter
<1>5. ASSUME NEW r \in DirectoryRows \ suspect' PROVE Shows(r)'
  <2>1. Shows(r) /\ r \notin DOMAIN written[w]
    BY <1>2 DEF DirectoryInv
  <2>2. \A v \in Requests : /\ r \in DOMAIN written'[v] <=> r \in DOMAIN written[v]
                            /\ r \in DOMAIN written'[v] => written'[v] = written[v]
    BY <1>3, <2>1
  <2>3. NameShown(r)' = NameShown(r)
    BY <1>2 DEF NameShown
  <2> QED BY <1>2, <2>1, <2>2, <2>3 DEF Shows
<1> QED BY <1>1, <1>4, <1>5 DEF DirectoryInv

\* A document without the area is the same under any name.
LEMMA NameOnlyWhenTagged ==
  ASSUME NEW r, ~r.tagged, NEW m, NEW n
  PROVE  DocumentOf(r, m) = DocumentOf(r, n)
BY DEF DocumentOf

LEMMA BeginSweepInv ==
  ASSUME DirectoryInv, NEW kind \in {"rename", "script"}, BeginSweep(kind) PROVE DirectoryInv'
<1>1. DirectoryType'
  BY SweepType DEF DirectoryInv
<1>2. /\ sweep = "none" /\ sweep' = kind /\ kind # "none"
      /\ left' = {r \in DirectoryRows : IF kind = "rename" THEN row[r].tagged ELSE row[r].status = "PUBLISHED"}
      /\ listed' = [r \in DirectoryRows |-> IF r \in left' THEN row[r] ELSE NoRow]
      /\ suspect' = suspect \cup UNION {DOMAIN written[w] : w \in Requests}
      /\ UNCHANGED <<row, areaName, written, document>>
  BY DEF BeginSweep, requestVars
<1>3. OneWriter'
  BY <1>2 DEF DirectoryInv, OneWriter
<1>4. ASSUME NEW r \in DirectoryRows \ suspect' PROVE Shows(r)'
  <2>1. Shows(r) /\ \A w \in Requests : r \notin DOMAIN written[w]
    BY <1>2 DEF DirectoryInv
  <2>2. document[r] = DocumentOf(row[r], areaName)
    BY <1>2, <2>1 DEF Shows
  <2>3. r \in left' => listed'[r] = row[r]
    BY <1>2
  <2>4. kind = "rename" /\ row[r].tagged => r \in left'
    BY <1>2
  <2>5. NameShown(r)' = areaName
    BY <1>2, <2>4 DEF NameShown
  <2> QED BY <1>2, <2>1, <2>2, <2>3, <2>4, <2>5 DEF Shows
<1> QED BY <1>1, <1>3, <1>4 DEF DirectoryInv

LEMMA SweepRowInv ==
  ASSUME DirectoryInv, NEW r \in DirectoryRows, SweepRow(r) PROVE DirectoryInv'
<1>1. DirectoryType'
  BY SweepType DEF DirectoryInv
<1> DEFINE name == IF sweep = "rename" THEN areaName + 1 ELSE areaName
           d == DocumentOf([listed[r] EXCEPT !.tagged = row[r].tagged], name)
<1>2. /\ r \in left /\ left' = left \ {r}
      /\ UNCHANGED <<row, areaName, written, sweep, listed>>
      /\ \/ document' = [document EXCEPT ![r] = d] /\ UNCHANGED suspect
         \/ document' = document /\ suspect' = suspect \cup {r}
  BY Zenon DEF SweepRow, requestVars, Trouble
<1>3. OneWriter'
  BY <1>2 DEF DirectoryInv, OneWriter
<1>4. sweep # "none"
  BY <1>2 DEF DirectoryInv, DirectoryType
<1>5. ASSUME NEW x \in DirectoryRows \ suspect' PROVE Shows(x)'
  <2>1. Shows(x) /\ x \notin suspect
    BY <1>2 DEF DirectoryInv
  <2>2. /\ \A w \in Requests : x \notin DOMAIN written[w]
        /\ x \in left \/ (sweep = "rename" /\ row[x].tagged) => listed[x] = row[x]
        /\ document[x] = DocumentOf(row[x], NameShown(x))
    BY <1>4, <2>1 DEF Shows
  <2>3. document'[x] = DocumentOf(row[x], NameShown(x)')
    <3>1. CASE x = r
      <4>1. d = DocumentOf(row[r], name)
        <5>1. listed[r] = row[r] /\ row[r] \in AnyRow
          BY <1>2, <2>2, <3>1 DEF DirectoryInv, DirectoryType
        <5>2. [listed[r] EXCEPT !.tagged = row[r].tagged] = row[r]
          BY <5>1, RowsAre
        <5> QED BY <5>2
      <4>2. document' = [document EXCEPT ![r] = d]
        BY <1>2, <3>1
      <4> HIDE DEF d
      <4>3. document'[r] = DocumentOf(row[r], name)
        BY <4>1, <4>2 DEF DirectoryInv, DirectoryType
      <4>4. CASE row[r].tagged
        BY <1>2, <3>1, <4>3, <4>4 DEF NameShown
      <4>5. CASE ~row[r].tagged
        BY <3>1, <4>3, <4>5, NameOnlyWhenTagged
      <4> QED BY <4>4, <4>5
    <3>2. CASE x # r
      <4> HIDE DEF d
      <4>1. document'[x] = document[x]
        BY <1>2, <3>2 DEF DirectoryInv, DirectoryType
      <4>2. NameShown(x)' = NameShown(x)
        BY <1>2, <3>2 DEF NameShown
      <4> QED BY <2>2, <4>1, <4>2
    <3> QED BY <3>1, <3>2
  <2>4. x \in left' => x \in left
    BY <1>2
  <2> QED BY <1>2, <1>4, <2>2, <2>3, <2>4 DEF Shows
<1> QED BY <1>1, <1>3, <1>5 DEF DirectoryInv

LEMMA EndSweepInv ==
  ASSUME DirectoryInv, EndSweep PROVE DirectoryInv'
<1>1. DirectoryType'
  BY SweepType DEF DirectoryInv
<1>2. /\ sweep # "none" /\ sweep' = "none" /\ UNCHANGED <<row, written, document>>
      /\ \/ left = {} /\ areaName' = (IF sweep = "rename" THEN areaName + 1 ELSE areaName)
            /\ UNCHANGED suspect
         \/ areaName' = areaName /\ suspect' = suspect \cup {r \in DirectoryRows : listed[r] # NoRow}
  BY DEF EndSweep, requestVars, Trouble
<1>3. OneWriter'
  BY <1>2 DEF DirectoryInv, OneWriter
<1>4. ASSUME NEW x \in DirectoryRows \ suspect' PROVE Shows(x)'
  <2>1. Shows(x)
    BY <1>2 DEF DirectoryInv
  <2>2. /\ \A w \in Requests : x \notin DOMAIN written[w]
        /\ sweep = "rename" /\ row[x].tagged => listed[x] = row[x]
        /\ document[x] = DocumentOf(row[x], NameShown(x))
    BY <1>2, <2>1 DEF Shows
  <2>3. document[x] = DocumentOf(row[x], areaName')
    <3>1. CASE ~row[x].tagged
      BY <2>2, <3>1, NameOnlyWhenTagged
    <3>2. CASE row[x].tagged /\ left = {}
               /\ areaName' = (IF sweep = "rename" THEN areaName + 1 ELSE areaName)
      BY <2>2, <3>2 DEF NameShown
    <3>3. CASE row[x].tagged /\ areaName' = areaName
               /\ suspect' = suspect \cup {r \in DirectoryRows : listed[r] # NoRow}
      <4>1. sweep # "rename"
        BY <2>2, <3>3 DEF NoRow
      <4> QED BY <2>2, <3>3, <4>1 DEF NameShown
    <3> QED BY <1>2, <3>1, <3>2, <3>3
  <2> QED BY <1>2, <2>2, <2>3 DEF Shows
<1> QED BY <1>1, <1>3, <1>4 DEF DirectoryInv

LEMMA DirectoryNextInv ==
  ASSUME DirectoryInv, [DirectoryNext]_directoryVars PROVE DirectoryInv'
<1>1. DirectoryType'
  BY DirectoryNextType DEF DirectoryInv
<1>2. ASSUME NEW w \in Requests, NEW status \in {"PUBLISHED", "TO MODERATE"}, Save(w, status)
      PROVE  DirectoryInv'
  <2>1. Lock(w, at[w])
    BY <1>2, Zenon DEF Save
  <2>2. PICK new \in Row : WritesRow(w, at[w], new)
    BY <1>2, SaveWrites DEF DirectoryInv
  <2> QED BY <1>1, <2>1, <2>2, WritesRowInv DEF DirectoryInv
<1>3. ASSUME NEW w \in Requests, Moderate(w) \/ \E tagged \in BOOLEAN : Relate(w, tagged)
      PROVE  DirectoryInv'
  <2>1. phase[w] \in {"saved", "related"}
    BY <1>3 DEF Moderate, Relate
  <2>2. at[w] \in DOMAIN written[w]
    BY <2>1 DEF DirectoryInv, DirectoryType
  <2>3. \/ \E new \in Row : WritesRow(w, at[w], new)
        \/ UNCHANGED <<written, document, suspect, troubles,
                       row, unused, at, opened, areaName, sweep, listed, left>>
    BY <1>3, ModerateWrites, RelateWrites DEF DirectoryInv
  <2>4. CASE \E new \in Row : WritesRow(w, at[w], new)
    BY <1>1, <2>2, <2>4, WritesRowInv DEF DirectoryInv
  <2> QED BY <1>1, <2>3, <2>4, DirectoryUnchanged
<1>4. ASSUME NEW w \in Requests, DeleteRow(w) PROVE DirectoryInv'
  <2>1. Lock(w, at[w])
    BY <1>4, Zenon DEF DeleteRow
  <2>2. WritesRow(w, at[w], NoRow)
    BY <1>4, DeleteWrites DEF DirectoryInv
  <2> QED BY <1>1, <2>1, <2>2, WritesRowInv DEF DirectoryInv
<1>5. ASSUME NEW w \in Requests, NEW r \in DirectoryRows, Open(w, r) PROVE DirectoryInv'
  <2>1. UNCHANGED <<written, row, areaName, sweep, listed, left, document, suspect>>
    BY <1>5, Zenon DEF Open, sweepVars
  <2> QED BY <1>1, <2>1, DirectoryUnchanged
<1>6. CASE UNCHANGED directoryVars
  BY <1>1, <1>6, DirectoryUnchanged DEF directoryVars, sweepVars
<1> QED BY <1>2, <1>3, <1>4, <1>5, <1>6, CommitInv, RollBackInv, BeginSweepInv, SweepRowInv,
           EndSweepInv DEF DirectoryNext

LEMMA DirectoryInitInv == DirectoryInit => DirectoryInv
<1> SUFFICES ASSUME DirectoryInit PROVE DirectoryInv
  OBVIOUS
<1>1. \A w \in Requests : DOMAIN written[w] = {}
  <2>1. \A w \in Requests : written[w] = <<>>
    BY DEF DirectoryInit
  <2> QED BY <2>1, TransactionIs
<1>2. sweep = "none" /\ areaName = 1 /\ \A r \in DirectoryRows : document[r] = DocumentOf(row[r], 1)
  BY DEF DirectoryInit
<1> QED BY <1>1, <1>2, DirectoryInitType DEF DirectoryInv, OneWriter, Shows

\* However forms, deletions, imports, moderation and sweeps interleave, the index
\* shows a row as it is committed, but for the rows that an error, a transaction
\* rolled back or a sweep met (_sync_*_instance).
THEOREM IndexShowsCommittedRows == DirectorySpec => []IndexShowsTable
<1>1. DirectoryInv => IndexShowsTable
  BY DEF DirectoryInv, Shows, IndexShowsTable
<1> QED BY <1>1, DirectoryInitInv, DirectoryNextInv, PTL DEF DirectorySpec

(***************************************************************************)
(* PlaceRegistry: places and institutions that imports look up             *)
(***************************************************************************)

\* Of the intervals 0 .. n, one is minimal for inclusion: that of the least n.
LEMMA LeastId ==
  ASSUME NEW S \in SUBSET Nat, S # {}
  PROVE  \E x \in S : \A y \in S : x <= y
<1> DEFINE Below == {0 .. n : n \in S}
<1>1. \A n \in Nat : 0 .. n \in FiniteSubsetsOf(Nat)
  BY FS_Interval DEF FiniteSubsetsOf
<1>2. PICK T \in Below : \A U \in Below : <<U, T>> \notin StrictSubsetOrdering(Nat)
  <2>1. Below \subseteq FiniteSubsetsOf(Nat) /\ Below # {}
    BY <1>1
  <2> HIDE DEF Below
  <2> QED BY <2>1, FS_StrictSubsetOrderingWellFounded, WFMin
<1>3. PICK x \in S : T = 0 .. x
  OBVIOUS
<1> SUFFICES ASSUME NEW y \in S, y < x PROVE FALSE
  OBVIOUS
<1>4. 0 .. y \subseteq 0 .. x /\ x \notin 0 .. y /\ x \in 0 .. x
  OBVIOUS
<1>5. <<0 .. y, 0 .. x>> \in StrictSubsetOrdering(Nat)
  BY <1>4 DEF StrictSubsetOrdering
<1> QED BY <1>2, <1>3, <1>5

Cells == {"country", "state", "city", "institution"}
Asks == {Nobody.ask} \cup UNION {{file[i] : i \in DOMAIN file} : file \in ImportFiles}
CellNames == {Missing} \cup {line[c] : line \in Asks, c \in Cells}
ImportStages ==
  {"idle", "between", "location", "part", "get", "create", "institution", "save", "raised"}
ImportState == [at : ImportStages, left : Seq(Asks), ask : Asks, next : 1 .. 4,
                parts : [1 .. 3 -> Nat], place : Nat]
PlaceRow == [id : Nat, kind : RegistryTables, name : CellNames, parts : {<<>>} \cup [1 .. 3 -> Nat],
             place : Nat, by : Importers \cup {"committed"}]

\* No id beyond the last one given is used.
WithinIds(x) == x.place <= lastRow /\ \A j \in DOMAIN x.parts : x.parts[j] <= lastRow

RegistryType ==
  /\ imports \in 0 .. MaxImports /\ lastRow \in Nat
  /\ table \subseteq PlaceRow /\ IsFiniteSet(table)
  /\ importer \in [Importers -> ImportState] /\ DOMAIN asked = Importers
  /\ \A x \in table : x.id \in 1 .. lastRow /\ WithinIds(x)
  /\ \A x, y \in table : x.id = y.id => x = y
  /\ \A m \in Importers : WithinIds(importer[m]) /\ \A what \in asked[m] : what[1] \in RegistryTables
  /\ \A what \in together : what[1] \in RegistryTables

LEMMA NobodyIs ==
  /\ Nobody \in ImportState /\ Nobody.at = "idle" /\ Nobody.next = 1 /\ Nobody.place = 0
  /\ Nobody.parts = <<0, 0, 0>>
  /\ \A file \in ImportFiles : file \in Seq(Asks)
  /\ \A lines \in Seq(Asks), s \in ImportStages :
       /\ [Nobody EXCEPT !.at = s, !.left = lines] \in ImportState
       /\ \A line \in Asks : [Nobody EXCEPT !.ask = line, !.left = lines, !.at = s] \in ImportState
<1>1. Nobody \in ImportState /\ Nobody.at = "idle" /\ Nobody.next = 1 /\ Nobody.place = 0
      /\ Nobody.parts = <<0, 0, 0>>
  <2>1. Nobody.ask \in Asks
    BY Zenon DEF Asks
  <2>2. <<0, 0, 0>> \in [1 .. 3 -> Nat] /\ <<>> \in Seq(Asks)
    OBVIOUS
  <2> QED BY <2>1, <2>2 DEF Nobody, ImportState, ImportStages
<1>2. ASSUME NEW file \in ImportFiles PROVE file \in Seq(Asks)
  <2> DEFINE own == {file[i] : i \in DOMAIN file}
  <2>1. own \subseteq Asks
    BY DEF Asks
  <2>2. file \in Seq(own)
    BY RegistryAssumption
  <2> HIDE DEF own
  <2> QED BY <2>1, <2>2
<1>3. ASSUME NEW lines \in Seq(Asks), NEW s \in ImportStages
      PROVE  /\ [Nobody EXCEPT !.at = s, !.left = lines] \in ImportState
             /\ \A line \in Asks : [Nobody EXCEPT !.ask = line, !.left = lines, !.at = s] \in ImportState
  BY <1>1 DEF ImportState
<1> QED BY <1>1, <1>2, <1>3

LEMMA StateUpdates ==
  ASSUME NEW i \in ImportState, NEW s \in ImportStages, NEW n \in Nat
  PROVE  /\ [i EXCEPT !.at = s] \in ImportState
         /\ [i EXCEPT !.place = n, !.at = s] \in ImportState
         /\ i.next <= 3 => /\ [i EXCEPT !.next = @ + 1] \in ImportState
                           /\ [i EXCEPT !.at = s, !.next = @ + 1, !.parts[i.next] = n] \in ImportState
<1>1. [i EXCEPT !.at = s] \in ImportState
  BY DEF ImportState
<1>2. [i EXCEPT !.place = n, !.at = s] \in ImportState
  BY DEF ImportState
<1>3. ASSUME i.next <= 3
      PROVE  /\ [i EXCEPT !.next = @ + 1] \in ImportState
             /\ [i EXCEPT !.at = s, !.next = @ + 1, !.parts[i.next] = n] \in ImportState
  <2>1. i.next + 1 \in 1 .. 4 /\ [i.parts EXCEPT ![i.next] = n] \in [1 .. 3 -> Nat]
    BY <1>3 DEF ImportState
  <2>2. [i EXCEPT !.next = @ + 1] \in ImportState
    BY <2>1 DEF ImportState
  <2>3. [i EXCEPT !.at = s, !.next = @ + 1, !.parts[i.next] = n]
          = [i EXCEPT !.at = s, !.next = i.next + 1, !.parts = [i.parts EXCEPT ![i.next] = n]]
    BY DEF ImportState
  <2> QED BY <2>1, <2>2, <2>3 DEF ImportState
<1> QED BY <1>1, <1>2, <1>3

LEMMA PartsAre ==
  /\ \A j \in 1 .. 3 : Parts[j] \in {"country", "state", "city"} /\ Parts[j] \in Cells
                       /\ Parts[j] \in RegistryTables
  /\ Parts[1] = "country" /\ Parts[2] = "state" /\ Parts[3] = "city"
  /\ "location" \in RegistryTables /\ "institution" \in RegistryTables
BY DEF Parts, Cells, RegistryTables

LEMMA FirstRowIs ==
  ASSUME RegistryType, NEW rows \in SUBSET table, rows # {}
  PROVE  FirstOf(rows) \in rows /\ FirstOf(rows).id \in 1 .. lastRow
<1> DEFINE ids == {x.id : x \in rows}
<1>1. ids \in SUBSET Nat /\ ids # {}
  BY DEF RegistryType, PlaceRow
<1>2. PICK n \in ids : \A k \in ids : n <= k
  <2> HIDE DEF ids
  <2> QED BY <1>1, LeastId
<1>3. PICK x \in rows : x.id = n
  BY <1>2
<1>4. \A y \in rows : x.id <= y.id
  BY <1>2, <1>3
<1>5. FirstOf(rows) \in rows
  BY <1>3, <1>4 DEF FirstOf
<1> QED BY <1>5 DEF RegistryType

\* A new row, and an importer whose state becomes another.
LEMMA InsertType ==
  ASSUME RegistryType, NEW m \in Importers, NEW kind \in RegistryTables, NEW name \in CellNames,
         NEW parts \in {<<>>} \cup [1 .. 3 -> Nat], NEW place \in Nat, Insert(m, kind, name, parts, place),
         place <= lastRow, \A j \in DOMAIN parts : parts[j] <= lastRow,
         NEW i \in ImportState, Becomes(m, i), i.place <= lastRow + 1,
         \A j \in 1 .. 3 : i.parts[j] <= lastRow + 1,
         UNCHANGED <<asked, together, imports>>
  PROVE  RegistryType'
<1> DEFINE r == [id |-> lastRow + 1, kind |-> kind, name |-> name, parts |-> parts,
                 place |-> place, by |-> m]
<1>1. table' = table \cup {r} /\ lastRow' = lastRow + 1 /\ lastRow \in Nat
  BY DEF Insert, RegistryType
<1>2. r \in PlaceRow /\ r.id = lastRow + 1 /\ r.place = place /\ r.parts = parts
  BY <1>1 DEF PlaceRow
<1> HIDE DEF r
<1>3. IsFiniteSet(table')
  BY <1>1, FS_AddElement DEF RegistryType
<1>4. /\ importer' \in [Importers -> ImportState] /\ importer'[m] = i
      /\ \A o \in Importers \ {m} : importer'[o] = importer[o]
  BY DEF RegistryType, Becomes
<1>5. \A x \in table' : x.id \in 1 .. lastRow' /\ x.place <= lastRow'
                        /\ \A j \in DOMAIN x.parts : x.parts[j] <= lastRow'
  <2>1. ASSUME NEW x \in table
        PROVE  x.id \in 1 .. lastRow' /\ x.place <= lastRow'
               /\ \A j \in DOMAIN x.parts : x.parts[j] <= lastRow'
    <3>1. x.id \in 1 .. lastRow /\ x.place \in Nat /\ x.place <= lastRow
          /\ x.parts \in {<<>>} \cup [1 .. 3 -> Nat] /\ \A j \in DOMAIN x.parts : x.parts[j] <= lastRow
      BY DEF RegistryType, WithinIds, PlaceRow
    <3>2. \A j \in DOMAIN x.parts : x.parts[j] \in Nat
      BY <3>1
    <3> QED BY <1>1, <3>1, <3>2
  <2>2. \A j \in DOMAIN parts : parts[j] \in Nat
    OBVIOUS
  <2>3. r.id \in 1 .. lastRow' /\ r.place <= lastRow' /\ \A j \in DOMAIN r.parts : r.parts[j] <= lastRow'
    BY <1>1, <1>2, <2>2
  <2> QED BY <1>1, <2>1, <2>3
<1>6. \A x, y \in table' : x.id = y.id => x = y
  <2>1. \A x \in table : x.id # lastRow + 1
    BY <1>1 DEF RegistryType
  <2> QED BY <1>1, <1>2, <2>1 DEF RegistryType
<1>7. ASSUME NEW o \in Importers
      PROVE  importer'[o].place <= lastRow' /\ \A j \in DOMAIN importer'[o].parts : importer'[o].parts[j] <= lastRow'
  <2>1. CASE o = m
    BY <1>1, <1>4, <2>1 DEF ImportState
  <2>2. CASE o # m
    <3>1. importer[o] \in ImportState /\ importer[o].place <= lastRow
          /\ \A j \in DOMAIN importer[o].parts : importer[o].parts[j] <= lastRow
      BY DEF RegistryType, WithinIds
    <3>2. importer[o].place \in Nat /\ DOMAIN importer[o].parts = 1 .. 3
          /\ \A j \in 1 .. 3 : importer[o].parts[j] \in Nat
      BY <3>1 DEF ImportState
    <3> QED BY <1>1, <1>4, <2>2, <3>1, <3>2
  <2> QED BY <2>1, <2>2
<1> QED BY <1>1, <1>2, <1>3, <1>4, <1>5, <1>6, <1>7 DEF RegistryType, WithinIds

\* A look at the rows: no row changes.
LEMMA LookType ==
  ASSUME RegistryType, NEW m \in Importers, NEW i \in ImportState, Becomes(m, i),
         i.place <= lastRow, \A j \in 1 .. 3 : i.parts[j] <= lastRow,
         UNCHANGED <<table, lastRow>>, imports' \in 0 .. MaxImports,
         \/ UNCHANGED <<asked, together>>
         \/ \E what : LooksUp(m, what) /\ what[1] \in RegistryTables
  PROVE  RegistryType'
<1>1. /\ importer' \in [Importers -> ImportState] /\ importer'[m] = i
      /\ \A o \in Importers \ {m} : importer'[o] = importer[o]
  BY DEF RegistryType, Becomes
<1>2. /\ DOMAIN asked' = Importers /\ \A o \in Importers : \A what \in asked'[o] : what[1] \in RegistryTables
      /\ \A what \in together' : what[1] \in RegistryTables
  <2>1. CASE UNCHANGED <<asked, together>>
    BY <2>1 DEF RegistryType
  <2>2. ASSUME NEW what, LooksUp(m, what), what[1] \in RegistryTables PROVE <1>2
    <3>1. /\ DOMAIN asked' = Importers /\ asked'[m] = asked[m] \cup {what}
          /\ \A o \in Importers \ {m} : asked'[o] = asked[o]
          /\ together' \subseteq together \cup {what}
      BY <2>2 DEF LooksUp, RegistryType
    <3> QED BY <2>2, <3>1 DEF RegistryType
  <2> QED BY <2>1, <2>2
<1>3. \A o \in Importers : WithinIds(importer[o])'
  BY <1>1 DEF RegistryType, WithinIds, ImportState
<1>4. \A x \in table : WithinIds(x)'
  BY DEF RegistryType, WithinIds
<1> QED BY <1>1, <1>2, <1>3, <1>4 DEF RegistryType

\* The names a row of T is looked up by.
NameIn(T, id) == IF id = 0 THEN Missing ELSE (CHOOSE x \in T : x.id = id).name
NamesIn(T, parts) == [j \in 1 .. 3 |-> NameIn(T, parts[j])]
KeyIn(T, x) ==
  CASE x.kind = "location" -> <<"location", NamesIn(T, x.parts)>>
    [] x.kind = "institution" -> <<"institution", x.name, x.place>>
    [] OTHER -> <<x.kind, x.name>>
IsWhole(x) == x.kind = "location" => 0 \notin {x.parts[j] : j \in 1 .. 3}
VisibleTo(m, x) == x.by \in {m, "committed"}

\* The places of a location are rows its importer saw, and no empty cell is among them.
Refers(T, x) ==
  x.kind = "location" =>
    /\ x.parts \in [1 .. 3 -> Nat]
    /\ \A j \in 1 .. 3 : \/ x.parts[j] = 0
                         \/ \E y \in T : y.id = x.parts[j] /\ y.name # Missing /\ VisibleTo(x.by, y)

\* A name that no other transaction has looked up meanwhile, and of which m sees no row.
Fresh(T, m, s, S) == \A x \in T : VisibleTo(m, x) /\ KeyIn(T, x) = s => s \in S

\* Rows T, names A looked up and names S looked up at once: an importer has looked up
\* what it made a row for, and two rows of a name are of two importers that did.
RowsOK(T, A, S) ==
  /\ \A x \in T : Refers(T, x) /\ (x.by \in Importers => KeyIn(T, x) \in A[x.by])
  /\ \A x, y \in T : x # y /\ KeyIn(T, x) = KeyIn(T, y) /\ IsWhole(x) => KeyIn(T, x) \in S

PlacesOf(i) == [j \in 1 .. 3 |-> i.ask[Parts[j]]]
PlaceKey(i) == <<"location", PlacesOf(i)>>
PartKey(i) == <<Parts[i.next], i.ask[Parts[i.next]]>>
InstitutionKey(i) == <<"institution", i.ask.institution, i.place>>
\* The place of that name that a line has found or made, 0 for an empty cell.
Stands(T, m, id, name) ==
  IF name = Missing THEN id = 0
  ELSE \E x \in T : x.id = id /\ id # 0 /\ x.name = name /\ VisibleTo(m, x)

\* What importer m, in state i and having looked up A, knows at each step of a line:
\* the places it has found are those of the line; what it is about to make it has
\* looked up, and no row of that name has come to be seen but by an import at once.
LineOK(m, i, T, A, S) ==
  /\ i.at = "location" => i.next = 1
  /\ i.at \in {"location", "part", "get", "create"} =>
       \A j \in 1 .. 3 : j >= i.next => i.parts[j] = 0
  /\ i.at \in {"part", "get", "create"} =>
       /\ PlaceKey(i) \in A /\ (Missing \notin {PlacesOf(i)[j] : j \in 1 .. 3} => Fresh(T, m, PlaceKey(i), S))
       /\ \A j \in 1 .. 3 : j < i.next => Stands(T, m, i.parts[j], i.ask[Parts[j]])
  /\ i.at \in {"get", "create", "raised"} => i.next <= 3
  /\ i.at \in {"get", "create"} => i.ask[Parts[i.next]] # Missing
  /\ i.at = "get" => \E x \in T : x.kind = Parts[i.next] /\ x.name = i.ask[Parts[i.next]] /\ VisibleTo(m, x)
  /\ i.at = "create" => PartKey(i) \in A /\ Fresh(T, m, PartKey(i), S)
  /\ i.at = "save" => InstitutionKey(i) \in A /\ Fresh(T, m, InstitutionKey(i), S)
  /\ i.at = "raised" => PartKey(i) \in S

RegistryInv ==
  /\ RegistryType /\ RowsOK(table, asked, together)
  /\ \A m, o \in Importers : m # o => asked[m] \cap asked[o] \subseteq together
  /\ \A m \in Importers : LineOK(m, importer[m], table, asked[m], together)

LEMMA ImporterIs ==
  ASSUME RegistryType, NEW m \in Importers
  PROVE  /\ importer[m] \in ImportState /\ importer[m].next \in 1 .. 4 /\ importer[m].place \in Nat
         /\ importer[m].place <= lastRow /\ importer[m].parts \in [1 .. 3 -> Nat]
         /\ \A j \in 1 .. 3 : importer[m].parts[j] <= lastRow
         /\ \A c \in Cells : importer[m].ask[c] \in CellNames
         /\ importer[m].ask \in Asks /\ importer[m].left \in Seq(Asks)
         /\ lastRow \in Nat /\ Missing \in CellNames
<1>1. importer[m] \in ImportState /\ WithinIds(importer[m]) /\ lastRow \in Nat
  BY DEF RegistryType
<1>2. /\ importer[m].next \in 1 .. 4 /\ importer[m].place \in Nat /\ importer[m].ask \in Asks
      /\ importer[m].parts \in [1 .. 3 -> Nat] /\ importer[m].left \in Seq(Asks)
  BY <1>1 DEF ImportState
<1>3. \A c \in Cells : importer[m].ask[c] \in CellNames
  BY <1>2 DEF CellNames
<1> QED BY <1>1, <1>2, <1>3 DEF WithinIds, CellNames

LEMMA BeginType ==
  ASSUME RegistryType, NEW m \in Importers, NEW file \in ImportFiles, BeginImport(m, file)
  PROVE  RegistryType'
<1> DEFINE i == [Nobody EXCEPT !.at = "between", !.left = file]
<1>1. i \in ImportState
  BY NobodyIs DEF ImportStages
<1>2. i.place = 0 /\ i.parts = <<0, 0, 0>>
  BY NobodyIs DEF ImportState
<1>3. Becomes(m, i) /\ UNCHANGED <<table, lastRow, asked, together>> /\ imports' \in 0 .. MaxImports
  BY RegistryAssumption DEF BeginImport, RegistryType
<1> HIDE DEF i
<1>4. lastRow \in Nat
  BY DEF RegistryType
<1> QED BY <1>1, <1>2, <1>3, <1>4, LookType

LEMMA NextLineIs ==
  ASSUME RegistryType, NEW m \in Importers, NextLine(m)
  PROVE  \E i \in ImportState :
           /\ Becomes(m, i) /\ i.at \in {"location", "institution"} /\ i.next = 1 /\ i.place = 0
           /\ i.parts = <<0, 0, 0>>
           /\ UNCHANGED <<table, lastRow, asked, together, imports>>
<1> DEFINE lines == importer[m].left
           ask == Head(lines)
           stage == IF ask.institution = Missing \/ Missing \notin {ask[Parts[j]] : j \in 1 .. 3}
                 THEN "location" ELSE "institution"
           i == [Nobody EXCEPT !.ask = ask, !.left = Tail(lines), !.at = stage]
<1>1. lines # <<>> /\ Becomes(m, i) /\ UNCHANGED <<table, lastRow, asked, together, imports>>
  BY DEF NextLine
<1>2. ask \in Asks /\ Tail(lines) \in Seq(Asks)
  <2>1. lines \in Seq(Asks)
    BY ImporterIs
  <2> HIDE DEF lines
  <2> QED BY <1>1, <2>1
<1>3. stage \in {"location", "institution"}
  OBVIOUS
<1> HIDE DEF lines, ask, stage
<1>4. i \in ImportState
  BY <1>2, <1>3, NobodyIs DEF ImportStages
<1>5. i.at = stage /\ i.next = 1 /\ i.place = 0 /\ i.parts = <<0, 0, 0>>
  BY NobodyIs DEF ImportState
<1> HIDE DEF i
<1> QED BY <1>1, <1>3, <1>4, <1>5

\* The states of the importers that a step leads to keep to the ids.
LEMMA StepType ==
  ASSUME RegistryType, NEW m \in Importers,
         LineOK(m, importer[m], table, asked[m], together),
         \/ NextLine(m) \/ FindLocation(m) \/ CheckPart(m) \/ GetPart(m) \/ FindInstitution(m)
  PROVE  RegistryType'
<1> DEFINE i == importer[m]
<1>0. /\ i \in ImportState /\ i.next \in 1 .. 4 /\ i.place \in Nat /\ i.place <= lastRow
      /\ i.parts \in [1 .. 3 -> Nat] /\ \A j \in 1 .. 3 : i.parts[j] <= lastRow
      /\ lastRow \in Nat /\ imports \in 0 .. MaxImports
  BY ImporterIs DEF RegistryType
<1> HIDE DEF i
<1>1. ASSUME NEW s \in ImportStages
      PROVE  /\ [i EXCEPT !.at = s] \in ImportState /\ [i EXCEPT !.at = s].place <= lastRow
             /\ \A j \in 1 .. 3 : [i EXCEPT !.at = s].parts[j] <= lastRow
  BY <1>0, StateUpdates DEF ImportState
<1>2. CASE NextLine(m)
  <2>1. PICK k \in ImportState :
           /\ Becomes(m, k) /\ k.place = 0 /\ k.parts = <<0, 0, 0>>
           /\ UNCHANGED <<table, lastRow, asked, together, imports>>
    BY <1>2, NextLineIs
  <2>2. k.place <= lastRow /\ \A j \in 1 .. 3 : k.parts[j] <= lastRow
    BY <1>0, <2>1
  <2> QED BY <1>0, <2>1, <2>2, LookType
<1>3. CASE FindLocation(m)
  <2> DEFINE rows == {x \in Seen(m, "location") : NamesOf(x.parts) = AskedPlaces(m)}
             s == IF i.ask.institution = Missing THEN "between" ELSE "institution"
             k == [i EXCEPT !.place = FirstOf(rows).id, !.at = s]
  <2>1. /\ LooksUp(m, <<"location", AskedPlaces(m)>>) /\ UNCHANGED <<table, lastRow, imports>>
        /\ \/ Becomes(m, [i EXCEPT !.at = "part"])
           \/ rows # {} /\ Becomes(m, k)
    BY <1>3 DEF FindLocation, i
  <2>2. <<"location", AskedPlaces(m)>>[1] \in RegistryTables
    BY PartsAre
  <2>3. rows \in SUBSET table
    BY DEF Seen
  <2>4. s \in ImportStages
    BY DEF ImportStages
  <2> HIDE DEF rows, s
  <2>5. CASE rows # {} /\ Becomes(m, k)
    <3>1. FirstOf(rows).id \in 1 .. lastRow
      BY <2>3, <2>5, FirstRowIs
    <3>2. FirstOf(rows).id \in Nat /\ FirstOf(rows).id <= lastRow
      BY <1>0, <3>1
    <3>3. k \in ImportState
      BY <1>0, <2>4, <3>2, StateUpdates
    <3>4. k.place <= lastRow /\ \A j \in 1 .. 3 : k.parts[j] <= lastRow
      BY <1>0, <3>2 DEF ImportState
    <3> HIDE DEF k
    <3> QED BY <1>0, <2>1, <2>2, <2>5, <3>3, <3>4, LookType
  <2>6. CASE Becomes(m, [i EXCEPT !.at = "part"])
    <3>1. "part" \in ImportStages
      BY DEF ImportStages
    <3> QED BY <1>0, <1>1, <2>1, <2>2, <2>6, <3>1, LookType
  <2> QED BY <2>1, <2>5, <2>6
<1>4. CASE CheckPart(m)
  <2>1. i.next <= 3 /\ UNCHANGED <<table, lastRow, imports>>
    BY <1>4 DEF CheckPart, i
  <2>2. \/ Becomes(m, [i EXCEPT !.next = @ + 1]) /\ UNCHANGED <<asked, together>>
        \/ \E s \in {"get", "create"} :
             LooksUp(m, <<Parts[i.next], i.ask[Parts[i.next]]>>) /\ Becomes(m, [i EXCEPT !.at = s])
    BY <1>4 DEF CheckPart, i
  <2>3. Parts[i.next] \in RegistryTables
    BY <1>0, <2>1, PartsAre
  <2>4. CASE Becomes(m, [i EXCEPT !.next = @ + 1]) /\ UNCHANGED <<asked, together>>
    <3> DEFINE k == [i EXCEPT !.next = @ + 1]
    <3>1. k \in ImportState
      <4>1. i.next + 1 \in 1 .. 4
        BY <1>0, <2>1
      <4> QED BY <1>0, <4>1 DEF ImportState
    <3>2. k.place <= lastRow /\ \A j \in 1 .. 3 : k.parts[j] <= lastRow
      BY <1>0 DEF ImportState
    <3> HIDE DEF k
    <3> QED BY <1>0, <2>1, <2>4, <3>1, <3>2, LookType DEF k
  <2>5. ASSUME NEW s \in {"get", "create"}, Becomes(m, [i EXCEPT !.at = s]),
               LooksUp(m, <<Parts[i.next], i.ask[Parts[i.next]]>>)
        PROVE  RegistryType'
    <3> DEFINE k == [i EXCEPT !.at = s]
    <3>1. s \in ImportStages
      BY DEF ImportStages
    <3>2. k \in ImportState /\ k.place <= lastRow /\ \A j \in 1 .. 3 : k.parts[j] <= lastRow
      BY <1>1, <3>1
    <3>3. Becomes(m, k) /\ <<Parts[i.next], i.ask[Parts[i.next]]>>[1] \in RegistryTables
      BY <2>3, <2>5
    <3> HIDE DEF k
    <3> QED BY <1>0, <2>1, <2>5, <3>2, <3>3, LookType
  <2> QED BY <2>2, <2>4, <2>5
<1>5. CASE GetPart(m)
  <2> DEFINE rows == {x \in Seen(m, Parts[i.next]) : x.name = i.ask[Parts[i.next]]}
             k == [i EXCEPT !.at = "part", !.next = @ + 1, !.parts[i.next] = FirstOf(rows).id]
  <2>1. UNCHANGED <<table, lastRow, asked, together, imports>>
        /\ (Becomes(m, [i EXCEPT !.at = "raised"]) \/ Becomes(m, k))
    BY <1>5 DEF GetPart, i
  <2>2. CASE Becomes(m, [i EXCEPT !.at = "raised"])
    <3>1. "raised" \in ImportStages
      BY DEF ImportStages
    <3> QED BY <1>0, <1>1, <2>1, <2>2, <3>1, LookType
  <2>3. CASE Becomes(m, k)
    <3>1. i.at = "get" /\ i.next <= 3 /\ rows # {}
      BY <1>5 DEF GetPart, i, LineOK, Seen, VisibleTo
    <3>2. rows \in SUBSET table
      BY DEF Seen
    <3> HIDE DEF rows
    <3>3. FirstOf(rows).id \in Nat /\ FirstOf(rows).id <= lastRow
      BY <1>0, <3>1, <3>2, FirstRowIs
    <3>4. "part" \in ImportStages
      BY DEF ImportStages
    <3>5. k \in ImportState
      BY <1>0, <3>1, <3>3, <3>4, StateUpdates
    <3>6. k.place <= lastRow /\ \A j \in 1 .. 3 : k.parts[j] <= lastRow
      BY <1>0, <3>1, <3>3 DEF ImportState
    <3> HIDE DEF k
    <3> QED BY <1>0, <2>1, <2>3, <3>5, <3>6, LookType
  <2> QED BY <2>1, <2>2, <2>3
<1>6. CASE FindInstitution(m)
  <2>1. PICK s \in {"save", "between"} : Becomes(m, [i EXCEPT !.at = s])
    BY <1>6 DEF FindInstitution, i
  <2>2. /\ LooksUp(m, <<"institution", i.ask.institution, i.place>>)
        /\ UNCHANGED <<table, lastRow, imports>>
    BY <1>6 DEF FindInstitution, i
  <2>3. <<"institution", i.ask.institution, i.place>>[1] \in RegistryTables
    BY PartsAre
  <2>4. s \in ImportStages
    BY DEF ImportStages
  <2> QED BY <1>0, <1>1, <2>1, <2>2, <2>3, <2>4, LookType
<1> QED BY <1>2, <1>3, <1>4, <1>5, <1>6

LEMMA KeyForm ==
  ASSUME NEW T, NEW x, x.kind \in RegistryTables
  PROVE  /\ KeyIn(T, x)[1] = x.kind
         /\ x.kind = "location" => KeyIn(T, x) = <<"location", NamesIn(T, x.parts)>>
         /\ x.kind = "institution" => KeyIn(T, x) = <<"institution", x.name, x.place>>
         /\ x.kind \notin {"location", "institution"} => KeyIn(T, x) = <<x.kind, x.name>>
BY DEF KeyIn, RegistryTables

Same(x, z) == /\ z.id = x.id /\ z.kind = x.kind /\ z.name = x.name
              /\ z.parts = x.parts /\ z.place = x.place
Unique(T) == \A x, y \in T : x.id = y.id => x = y

LEMMA NameIs ==
  ASSUME NEW T, Unique(T), NEW y \in T, y.id # 0
  PROVE  NameIn(T, y.id) = y.name
<1>1. (CHOOSE x \in T : x.id = y.id) = y
  <2>1. \E x \in T : x.id = y.id
    OBVIOUS
  <2> QED BY <2>1, Zenon DEF Unique
<1> QED BY <1>1 DEF NameIn

\* A row is looked up by the same names as long as the rows its importer sees are there.
LEMMA KeyStays ==
  ASSUME NEW T, NEW U, Unique(T), Unique(U), NEW x \in T, x.kind \in RegistryTables, Refers(T, x),
         NEW z, Same(x, z),
         \A y \in T : VisibleTo(x.by, y) =>
           \E w \in U : w.id = y.id /\ w.name = y.name /\ VisibleTo(z.by, w)
  PROVE  KeyIn(U, z) = KeyIn(T, x) /\ Refers(U, z) /\ (IsWhole(z) <=> IsWhole(x))
<1>1. CASE x.kind # "location"
  BY <1>1, KeyForm DEF Same, Refers, IsWhole
<1>2. CASE x.kind = "location"
  <2>1. ASSUME NEW j \in 1 .. 3, x.parts[j] # 0
        PROVE  /\ NameIn(U, x.parts[j]) = NameIn(T, x.parts[j])
               /\ \E w \in U : w.id = x.parts[j] /\ w.name # Missing /\ VisibleTo(z.by, w)
    <3>1. PICK y \in T : y.id = x.parts[j] /\ y.name # Missing /\ VisibleTo(x.by, y)
      BY <1>2, <2>1 DEF Refers
    <3>2. PICK w \in U : w.id = y.id /\ w.name = y.name /\ VisibleTo(z.by, w)
      BY <3>1
    <3>3. NameIn(T, x.parts[j]) = y.name /\ NameIn(U, x.parts[j]) = w.name
      BY <2>1, <3>1, <3>2, NameIs
    <3> QED BY <3>1, <3>2, <3>3
  <2>2. \A j \in 1 .. 3 : NameIn(U, x.parts[j]) = NameIn(T, x.parts[j])
    BY <2>1 DEF NameIn
  <2>3. NamesIn(U, z.parts) = NamesIn(T, x.parts)
    BY <2>2 DEF NamesIn, Same
  <2>4. z.kind = "location" /\ z.parts = x.parts
    BY <1>2 DEF Same
  <2>5. KeyIn(U, z) = KeyIn(T, x)
    BY <1>2, <2>3, <2>4, KeyForm
  <2>6. Refers(U, z)
    BY <1>2, <2>1, <2>4 DEF Refers
  <2> QED BY <1>2, <2>4, <2>5, <2>6 DEF IsWhole
<1> QED BY <1>1, <1>2

\* A location with an empty cell is looked up by no name of one without.
LEMMA WholeNames ==
  ASSUME NEW T, Unique(T), NEW x \in T, Refers(T, x), x.kind = "location", IsWhole(x),
         NEW j \in 1 .. 3
  PROVE  NamesIn(T, x.parts)[j] # Missing
<1>1. PICK y \in T : y.id = x.parts[j] /\ y.name # Missing
  BY DEF Refers, IsWhole
<1>2. x.parts[j] # 0
  BY DEF IsWhole
<1> QED BY <1>1, <1>2, NameIs DEF NamesIn

\* A row is added.
LEMMA InsertRows ==
  ASSUME NEW T, NEW A, NEW S, NEW r, NEW m \in Importers, RowsOK(T, A, S), Unique(T), Unique(T \cup {r}),
         \A x \in T \cup {r} : x.kind \in RegistryTables,
         r.by = m, m # "committed", Refers(T \cup {r}, r), r \notin T,
         KeyIn(T \cup {r}, r) \in A[m],
         \A x \in T : x.by \in Importers \cup {"committed"},
         \A o \in Importers \ {m} : A[m] \cap A[o] \subseteq S,
         IsWhole(r) => Fresh(T, m, KeyIn(T \cup {r}, r), S)
  PROVE  RowsOK(T \cup {r}, A, S) /\ \A x \in T : KeyIn(T \cup {r}, x) = KeyIn(T, x)
<1> DEFINE U == T \cup {r}
<1>1. ASSUME NEW x \in T
      PROVE  KeyIn(U, x) = KeyIn(T, x) /\ Refers(U, x)
  <2>1. Refers(T, x) /\ x.kind \in RegistryTables /\ Same(x, x)
    BY DEF RowsOK, Same
  <2>2. VisibleTo(x.by, x)
    BY DEF VisibleTo
  <2>3. \A y \in T : VisibleTo(x.by, y) =>
           \E w \in U : w.id = y.id /\ w.name = y.name /\ VisibleTo(x.by, w)
    OBVIOUS
  <2> QED BY <2>1, <2>2, <2>3, KeyStays
<1>2. ASSUME NEW x \in U, x.by \in Importers PROVE KeyIn(U, x) \in A[x.by]
  BY <1>1, <1>2 DEF RowsOK
\* The row of a name that is there was made or is seen by an importer.
<1>3. ASSUME NEW x \in T, KeyIn(U, x) = KeyIn(U, r), IsWhole(r) PROVE KeyIn(U, r) \in S
  <2>1. CASE VisibleTo(m, x)
    BY <1>1, <1>3, <2>1 DEF Fresh
  <2>2. CASE ~VisibleTo(m, x)
    <3>1. x.by \in Importers \ {m}
      BY <2>2 DEF VisibleTo
    <3>2. KeyIn(U, x) \in A[x.by]
      BY <1>2, <3>1
    <3> QED BY <1>3, <3>1, <3>2
  <2> QED BY <2>1, <2>2
<1>4. ASSUME NEW x \in T, KeyIn(U, x) = KeyIn(U, r), IsWhole(x), ~IsWhole(r) PROVE FALSE
  <2>1. PICK j \in 1 .. 3 : r.kind = "location" /\ r.parts[j] = 0
    BY <1>4 DEF IsWhole
  <2>2. x.kind = "location"
    <3>1. KeyIn(U, x)[1] = x.kind /\ KeyIn(U, r)[1] = r.kind
      BY KeyForm
    <3> QED BY <1>4, <2>1, <3>1
  <2>3. NamesIn(U, x.parts) = NamesIn(U, r.parts)
    BY <1>4, <2>1, <2>2, KeyForm
  <2>4. NamesIn(U, r.parts)[j] = Missing
    BY <2>1 DEF NamesIn, NameIn
  <2>5. NamesIn(U, x.parts)[j] # Missing
    BY <1>1, <1>4, <2>2, WholeNames
  <2> QED BY <2>3, <2>4, <2>5
<1>5. ASSUME NEW x \in U, NEW y \in U, x # y, KeyIn(U, x) = KeyIn(U, y), IsWhole(x)
      PROVE  KeyIn(U, x) \in S
  <2>1. CASE x \in T /\ y \in T
    BY <1>1, <1>5, <2>1 DEF RowsOK
  <2>2. CASE x = r
    BY <1>3, <1>5, <2>2
  <2>3. CASE x \in T /\ y = r
    BY <1>3, <1>4, <1>5, <2>3
  <2> QED BY <2>1, <2>2, <2>3
<1>6. \A x \in U : Refers(U, x)
  BY <1>1
<1> QED BY <1>1, <1>2, <1>5, <1>6 DEF RowsOK

\* What becomes of rows T when the transaction of m ends, and is undone.
Committed(T, m) == {[x EXCEPT !.by = IF @ = m THEN "committed" ELSE @] : x \in T}
Undone(T, m) == {x \in T : x.by # m}

\* z is the row x once the transaction of m has ended.
Carried(m, x, z) == Same(x, z) /\ z.by = IF x.by = m THEN "committed" ELSE x.by

Carries(m, T, U, A, B) ==
  /\ Unique(T) /\ Unique(U) /\ \A x \in T : x.kind \in RegistryTables /\ \E z \in U : Carried(m, x, z)
  /\ \A z \in U : \E x \in T : Carried(m, x, z)
  /\ "committed" \notin Importers /\ \A o \in Importers \ {m} : B[o] = A[o]

LEMMA CarriedRows ==
  ASSUME NEW T, NEW U, NEW A, NEW B, NEW S, NEW m, RowsOK(T, A, S), Carries(m, T, U, A, B)
  PROVE  /\ RowsOK(U, B, S)
         /\ \A x \in T, z \in U : Carried(m, x, z) => KeyIn(U, z) = KeyIn(T, x)
<1>0. /\ Unique(T) /\ Unique(U) /\ "committed" \notin Importers /\ \A o \in Importers \ {m} : B[o] = A[o]
      /\ \A x \in T : x.kind \in RegistryTables /\ \E z \in U : Carried(m, x, z)
      /\ \A z \in U : \E x \in T : Carried(m, x, z)
  BY DEF Carries
<1>1. ASSUME NEW x \in T, NEW z \in U, Carried(m, x, z)
      PROVE  KeyIn(U, z) = KeyIn(T, x) /\ Refers(U, z) /\ (IsWhole(z) <=> IsWhole(x))
  <2>1. Refers(T, x) /\ x.kind \in RegistryTables /\ Same(x, z)
    BY <1>0, <1>1 DEF RowsOK, Carried
  <2>2. ASSUME NEW y \in T, VisibleTo(x.by, y)
        PROVE  \E w \in U : w.id = y.id /\ w.name = y.name /\ VisibleTo(z.by, w)
    <3>1. PICK w \in U : Carried(m, y, w)
      BY <1>0
    <3>2. w.id = y.id /\ w.name = y.name
      BY <3>1 DEF Carried, Same
    <3>3. VisibleTo(z.by, w)
      BY <1>1, <2>2, <3>1 DEF VisibleTo, Carried
    <3> QED BY <3>2, <3>3
  <2> QED BY <1>0, <2>1, <2>2, KeyStays
<1>2. ASSUME NEW z \in U PROVE Refers(U, z) /\ (z.by \in Importers => KeyIn(U, z) \in B[z.by])
  <2>1. PICK x \in T : Carried(m, x, z)
    BY <1>0
  <2>2. z.by \in Importers => x.by = z.by /\ z.by # m
    BY <1>0, <2>1 DEF Carried
  <2>3. x.by \in Importers => KeyIn(T, x) \in A[x.by]
    BY DEF RowsOK
  <2> QED BY <1>0, <1>1, <2>1, <2>2, <2>3
<1>3. ASSUME NEW z \in U, NEW v \in U, z # v, KeyIn(U, z) = KeyIn(U, v), IsWhole(z)
      PROVE  KeyIn(U, z) \in S
  <2>1. PICK x \in T : Carried(m, x, z)
    BY <1>0
  <2>2. PICK y \in T : Carried(m, y, v)
    BY <1>0
  <2>3. x # y
    BY <1>0, <1>3, <2>1, <2>2 DEF Carried, Same, Unique
  <2>4. KeyIn(T, x) = KeyIn(U, z) /\ KeyIn(T, y) = KeyIn(U, v) /\ IsWhole(x)
    BY <1>1, <1>3, <2>1, <2>2
  <2> QED BY <1>3, <2>3, <2>4 DEF RowsOK
<1> QED BY <1>1, <1>2, <1>3 DEF RowsOK

\* The rows of m become everybody's.
LEMMA CommitRows ==
  ASSUME NEW T \in SUBSET PlaceRow, NEW m \in Importers, Unique(T), NEW U,
         U = Committed(T, m)
  PROVE  /\ U \in SUBSET PlaceRow /\ Unique(U)
         /\ \A x \in T : /\ \E z \in U : Carried(m, x, z)
                         /\ x.by # m => x \in U
         /\ \A z \in U : \E x \in T : Carried(m, x, z)
<1> DEFINE New(x) == [x EXCEPT !.by = IF @ = m THEN "committed" ELSE @]
<1>1. ASSUME NEW x \in T
      PROVE  /\ New(x) \in U /\ New(x) \in PlaceRow /\ Carried(m, x, New(x))
             /\ x.by # m => New(x) = x
  <2>1. x \in PlaceRow /\ New(x) \in U
    BY DEF Committed
  <2>2. New(x) \in PlaceRow /\ Carried(m, x, New(x))
    BY <2>1 DEF PlaceRow, Same, Carried
  <2>3. x.by # m => New(x) = x
    BY <2>1 DEF PlaceRow
  <2> QED BY <2>1, <2>2, <2>3
<1>2. \A z \in U : \E x \in T : z = New(x)
  BY DEF Committed
<1> HIDE DEF New
<1>3. Unique(U)
  <2>1. ASSUME NEW x \in T, NEW y \in T, New(x).id = New(y).id PROVE x = y
    BY <1>1, <2>1 DEF Unique, Same, Carried
  <2> QED BY <1>2, <2>1 DEF Unique
<1>4. U \in SUBSET PlaceRow
  BY <1>1, <1>2
<1>5. \A x \in T : (\E z \in U : Carried(m, x, z)) /\ (x.by # m => x \in U)
  BY <1>1
<1>6. \A z \in U : \E x \in T : Carried(m, x, z)
  BY <1>1, <1>2
<1> QED BY <1>3, <1>4, <1>5, <1>6

\* The rows of m are undone.
LEMMA AbortRows ==
  ASSUME NEW T \in SUBSET PlaceRow, NEW A, NEW B, NEW S, NEW m \in Importers, RowsOK(T, A, S), Unique(T),
         m # "committed", \A o \in Importers \ {m} : B[o] = A[o],
         NEW U, U = Undone(T, m)
  PROVE  /\ Unique(U) /\ RowsOK(U, B, S)
         /\ \A z \in U : KeyIn(U, z) = KeyIn(T, z)
<1>1. Unique(U) /\ \A x : x \in U <=> x \in T /\ x.by # m
  BY DEF Unique, Undone
<1>2. ASSUME NEW x \in U PROVE KeyIn(U, x) = KeyIn(T, x) /\ Refers(U, x)
  <2>1. x \in T /\ x.by # m /\ Refers(T, x) /\ x.kind \in RegistryTables /\ Same(x, x)
    BY <1>1 DEF RowsOK, PlaceRow, Same
  <2>2. \A y \in T : VisibleTo(x.by, y) =>
           \E w \in U : w.id = y.id /\ w.name = y.name /\ VisibleTo(x.by, w)
    BY <1>1, <2>1 DEF VisibleTo
  <2> QED BY <1>1, <2>1, <2>2, KeyStays
<1> QED BY <1>1, <1>2 DEF RowsOK

\* What an importer knows of its line stays so while the rows it sees stay.
LEMMA LineKeeps ==
  ASSUME NEW m, NEW i, NEW T, NEW U, NEW A, NEW S, NEW R, LineOK(m, i, T, A, S), S \subseteq R,
         \A x \in T : VisibleTo(m, x) => x \in U,
         \A s \in A : Fresh(T, m, s, S) => Fresh(U, m, s, R)
  PROVE  LineOK(m, i, U, A, R)
<1>1. \A id, name : Stands(T, m, id, name) => Stands(U, m, id, name)
  BY DEF Stands
<1> QED BY <1>1 DEF LineOK

LEMMA CommittedFinite ==
  ASSUME NEW T, IsFiniteSet(T), NEW m
  PROVE  IsFiniteSet(Committed(T, m))
<1> DEFINE f == [x \in T |-> [x EXCEPT !.by = IF @ = m THEN "committed" ELSE @]]
<1>1. f \in [T -> Committed(T, m)] /\ \A u \in Committed(T, m) : \E x \in T : f[x] = u
  BY DEF Committed
<1> HIDE DEF f
<1>2. f \in Surjection(T, Committed(T, m))
  BY <1>1 DEF Surjection
<1> QED BY <1>2, FS_Surjection

\* A look at the rows by importer m.
LEMMA LookInv ==
  ASSUME RegistryInv, RegistryType', NEW m \in Importers, NEW i \in ImportState, Becomes(m, i),
         UNCHANGED table,
         \/ UNCHANGED <<asked, together>>
         \/ \E what : LooksUp(m, what),
         LineOK(m, i, table, asked'[m], together')
  PROVE  RegistryInv'
<1>1. importer'[m] = i /\ \A o \in Importers \ {m} : importer'[o] = importer[o]
  BY DEF RegistryInv, RegistryType, Becomes
<1>2. /\ together \subseteq together' /\ asked[m] \subseteq asked'[m]
      /\ \A o \in Importers \ {m} : asked'[o] = asked[o]
      /\ \A o \in Importers \ {m} : asked'[m] \cap asked'[o] \subseteq together'
  <2>1. CASE UNCHANGED <<asked, together>>
    BY <2>1 DEF RegistryInv
  <2>2. ASSUME NEW what, LooksUp(m, what) PROVE <1>2
    <3>1. /\ DOMAIN asked = Importers
          /\ asked'[m] = asked[m] \cup {what} /\ \A o \in Importers \ {m} : asked'[o] = asked[o]
          /\ together' = IF \E o \in Importers \ {m} : what \in asked[o] THEN together \cup {what} ELSE together
      BY <2>2 DEF LooksUp, RegistryInv, RegistryType
    <3> QED BY <3>1 DEF RegistryInv
  <2> QED BY <2>1, <2>2
<1>3. RowsOK(table', asked', together')
  BY <1>2 DEF RegistryInv, RowsOK
<1>4. \A n, o \in Importers : n # o => asked'[n] \cap asked'[o] \subseteq together'
  BY <1>2 DEF RegistryInv
<1>5. ASSUME NEW o \in Importers PROVE LineOK(o, importer'[o], table', asked'[o], together')
  <2>1. CASE o = m
    BY <1>1, <2>1
  <2>2. CASE o # m
    <3>1. \A s : Fresh(table, o, s, together) => Fresh(table, o, s, together')
      BY <1>2 DEF Fresh
    <3>2. LineOK(o, importer[o], table, asked[o], together)
      BY DEF RegistryInv
    <3>3. LineOK(o, importer[o], table, asked[o], together')
      BY <1>2, <3>1, <3>2, LineKeeps
    <3> QED BY <1>1, <1>2, <2>2, <3>3
  <2> QED BY <2>1, <2>2
<1> QED BY <1>3, <1>4, <1>5 DEF RegistryInv

\* Importer m makes a row, of a name that it has looked up and that was not there.
LEMMA InsertInv ==
  ASSUME RegistryInv, RegistryType', NEW m \in Importers, NEW i \in ImportState, Becomes(m, i), NEW r,
         table' = table \cup {r}, r \notin table, r.by = m, UNCHANGED <<asked, together>>,
         Refers(table', r), KeyIn(table', r) \in asked[m],
         IsWhole(r) => Fresh(table, m, KeyIn(table', r), together),
         (\A x \in table : KeyIn(table', x) = KeyIn(table, x)) => LineOK(m, i, table', asked[m], together)
  PROVE  RegistryInv'
<1>1. importer'[m] = i /\ \A o \in Importers \ {m} : importer'[o] = importer[o]
  BY DEF RegistryInv, RegistryType, Becomes
<1>2. /\ RowsOK(table, asked, together) /\ Unique(table) /\ Unique(table') /\ m # "committed"
      /\ \A x \in table' : x.kind \in RegistryTables
      /\ \A x \in table : x.by \in Importers \cup {"committed"}
      /\ \A o \in Importers \ {m} : asked[m] \cap asked[o] \subseteq together
  BY RegistryAssumption DEF RegistryInv, RegistryType, Unique, PlaceRow
<1>3. RowsOK(table', asked, together) /\ \A x \in table : KeyIn(table', x) = KeyIn(table, x)
  BY <1>2, InsertRows
<1>4. ASSUME NEW o \in Importers PROVE LineOK(o, importer'[o], table', asked'[o], together')
  <2>1. CASE o = m
    BY <1>1, <1>3, <2>1
  <2>2. CASE o # m
    <3>1. \A s : Fresh(table, o, s, together) => Fresh(table', o, s, together)
      BY <1>2, <1>3, <2>2 DEF Fresh, VisibleTo
    <3>2. LineOK(o, importer[o], table, asked[o], together)
      BY DEF RegistryInv
    <3>3. LineOK(o, importer[o], table', asked[o], together)
      BY <3>1, <3>2, LineKeeps
    <3> QED BY <1>1, <2>2, <3>3
  <2> QED BY <2>1, <2>2
<1> QED BY <1>3, <1>4 DEF RegistryInv

\* The transaction of m ends: its rows become everybody's, or are undone.
LEMMA EndInv == ASSUME RegistryInv, NEW m \in Importers, EndImport(m) \/ AbortImport(m) PROVE RegistryInv'
<1>1. /\ RowsOK(table, asked, together) /\ table \in SUBSET PlaceRow /\ IsFiniteSet(table) /\ Unique(table)
      /\ m # "committed" /\ "committed" \notin Importers
      /\ importer \in [Importers -> ImportState] /\ DOMAIN asked = Importers
  BY RegistryAssumption DEF RegistryInv, RegistryType, Unique
<1>2. /\ importer' \in [Importers -> ImportState] /\ importer'[m] = Nobody
      /\ \A o \in Importers \ {m} : importer'[o] = importer[o]
      /\ DOMAIN asked' = Importers /\ asked'[m] = {} /\ \A o \in Importers \ {m} : asked'[o] = asked[o]
      /\ UNCHANGED <<lastRow, together, imports>>
  BY <1>1, NobodyIs DEF EndImport, AbortImport, Becomes
<1>0. PICK T, U, A, B, S : T = table /\ U = table' /\ A = asked /\ B = asked' /\ S = together
  OBVIOUS
<1>3. /\ U \in SUBSET PlaceRow /\ Unique(U) /\ RowsOK(U, B, S) /\ IsFiniteSet(U)
      /\ \A x \in T : x.by # m => x \in U
      /\ \A z \in U : \E x \in T : Carried(m, x, z) /\ KeyIn(U, z) = KeyIn(T, x)
  <2>0. /\ RowsOK(T, A, S) /\ T \in SUBSET PlaceRow /\ IsFiniteSet(T) /\ Unique(T)
        /\ m # "committed" /\ "committed" \notin Importers
        /\ \A o \in Importers \ {m} : B[o] = A[o]
        /\ \A x \in T : x.kind \in RegistryTables
    BY <1>0, <1>1, <1>2 DEF PlaceRow
  <2>1. CASE EndImport(m)
    <3>1. U = Committed(T, m)
      BY <1>0, <2>1 DEF EndImport, Committed
    <3>2. /\ U \in SUBSET PlaceRow /\ Unique(U)
          /\ \A x \in T : (\E z \in U : Carried(m, x, z)) /\ (x.by # m => x \in U)
          /\ \A z \in U : \E x \in T : Carried(m, x, z)
      BY <2>0, <3>1, CommitRows
    <3>3. IsFiniteSet(U)
      BY <2>0, <3>1, CommittedFinite
    <3>5. /\ RowsOK(U, B, S)
          /\ \A x \in T, z \in U : Carried(m, x, z) => KeyIn(U, z) = KeyIn(T, x)
      <4>1. Carries(m, T, U, A, B)
        BY <2>0, <3>2 DEF Carries
      <4> QED BY <2>0, <4>1, CarriedRows
    <3> QED BY <3>2, <3>3, <3>5
  <2>2. CASE AbortImport(m)
    <3>1. U = Undone(T, m) /\ \A x : x \in U <=> x \in T /\ x.by # m
      BY <1>0, <2>2 DEF AbortImport, Undone
    <3>2. /\ Unique(U) /\ RowsOK(U, B, S)
          /\ \A z \in U : KeyIn(U, z) = KeyIn(T, z)
      BY <2>0, <3>1, AbortRows
    <3>3. \A z \in U : z \in T /\ Carried(m, z, z)
      BY <3>1 DEF Carried, Same
    <3>4. IsFiniteSet(U)
      BY <2>0, <3>1, FS_Subset
    <3> QED BY <2>0, <3>1, <3>2, <3>3, <3>4
  <2> QED BY <2>1, <2>2
<1>7. /\ table' \in SUBSET PlaceRow /\ Unique(table') /\ RowsOK(table', asked', together)
      /\ IsFiniteSet(table')
      /\ \A x \in table : x.by # m => x \in table'
      /\ \A z \in table' : \E x \in table : Carried(m, x, z) /\ KeyIn(table', z) = KeyIn(table, x)
  BY <1>0, <1>3
<1>4. RegistryType'
  <2>1. \A z \in table' : z.id \in 1 .. lastRow /\ WithinIds(z)'
    BY <1>2, <1>7 DEF RegistryInv, RegistryType, WithinIds, Carried, Same
  <2>2. \A o \in Importers : WithinIds(importer[o])'
    <3>1. WithinIds(Nobody)'
      <4>1. PICK p : p = Nobody.parts
        OBVIOUS
      <4>2. p = <<0, 0, 0>> /\ Nobody.place = 0 /\ lastRow' \in Nat
        BY <1>2, <4>1, NobodyIs DEF RegistryInv, RegistryType
      <4>3. \A j \in DOMAIN p : p[j] <= lastRow'
        BY <4>2
      <4> QED BY <4>1, <4>2, <4>3 DEF WithinIds
    <3> QED BY <1>2, <3>1 DEF RegistryInv, RegistryType, WithinIds
  <2> QED BY <1>2, <1>7, <2>1, <2>2 DEF RegistryInv, RegistryType, Unique
\* An import at once that looked up a name of the rows it ends with has marked it.
<1>5. ASSUME NEW o \in Importers PROVE LineOK(o, importer'[o], table', asked'[o], together')
  <2>1. CASE o = m
    BY <1>2, <2>1, NobodyIs DEF LineOK
  <2>2. CASE o # m
    <3>1. ASSUME NEW s \in asked[o], Fresh(table, o, s, together) PROVE Fresh(table', o, s, together)
      <4> SUFFICES ASSUME NEW z \in table', VisibleTo(o, z), KeyIn(table', z) = s PROVE s \in together
        BY DEF Fresh
      <4>1. PICK x \in table : Carried(m, x, z) /\ KeyIn(table, x) = s
        BY <1>7
      <4>2. CASE x.by = m
        <5>1. s \in asked[m]
          BY <1>1, <4>1, <4>2 DEF RowsOK
        <5> QED BY <2>2, <5>1 DEF RegistryInv
      <4>3. CASE x.by # m
        BY <3>1, <4>1, <4>3 DEF Fresh, VisibleTo, Carried
      <4> QED BY <4>2, <4>3
    <3>2. LineOK(o, importer[o], table, asked[o], together)
      BY DEF RegistryInv
    <3>3. \A x \in table : VisibleTo(o, x) => x \in table'
      BY <1>1, <1>7, <2>2 DEF VisibleTo
    <3>4. LineOK(o, importer[o], table', asked[o], together)
      BY <3>1, <3>2, <3>3, LineKeeps
    <3> QED BY <1>2, <2>2, <3>4
  <2> QED BY <2>1, <2>2
<1>6. \A n, o \in Importers : n # o => asked'[n] \cap asked'[o] \subseteq together'
  BY <1>2 DEF RegistryInv
<1> QED BY <1>2, <1>7, <1>4, <1>5, <1>6 DEF RegistryInv

\* In terms of the rows and of the importer's state, what the code looks for.
LEMMA SeenIs ==
  ASSUME RegistryInv, NEW m \in Importers
  PROVE  /\ RegistryType /\ LineOK(m, importer[m], table, asked[m], together)
         /\ AskedPlaces(m) = PlacesOf(importer[m])
         /\ Complete(m) <=> Missing \notin {PlacesOf(importer[m])[j] : j \in 1 .. 3}
         /\ \A kind : \A x : x \in Seen(m, kind) <=> x \in table /\ x.kind = kind /\ VisibleTo(m, x)
         /\ \A parts : NamesOf(parts) = NamesIn(table, parts)
         /\ \A x \in table : x.kind \in RegistryTables /\ x.id \in Nat /\ x.id # 0
         /\ Unique(table) /\ RowsOK(table, asked, together)
<1>1. RegistryType /\ LineOK(m, importer[m], table, asked[m], together) /\ RowsOK(table, asked, together)
  BY DEF RegistryInv
<1>2. AskedPlaces(m) = PlacesOf(importer[m])
  BY DEF AskedPlaces, PlacesOf
<1>3. Complete(m) <=> Missing \notin {PlacesOf(importer[m])[j] : j \in 1 .. 3}
  BY <1>2 DEF Complete
<1>4. \A kind : \A x : x \in Seen(m, kind) <=> x \in table /\ x.kind = kind /\ VisibleTo(m, x)
  BY DEF Seen, VisibleTo
<1>5. \A parts : NamesOf(parts) = NamesIn(table, parts)
  BY DEF NamesOf, NamesIn, NameOf, NameIn
<1>6. \A x \in table : x.kind \in RegistryTables /\ x.id \in Nat /\ x.id # 0
  BY <1>1 DEF RegistryType, PlaceRow
<1>7. Unique(table)
  BY <1>1 DEF RegistryType, Unique
<1> QED BY <1>1, <1>2, <1>3, <1>4, <1>5, <1>6, <1>7

\* Between the lines, and where it starts on an institution, an importer knows nothing.
LEMMA NothingKnown ==
  ASSUME NEW m, NEW i, NEW T, NEW A, NEW S, i.at \in {"idle", "between", "institution"}
  PROVE  LineOK(m, i, T, A, S)
BY DEF LineOK

LEMMA FindLocationInv == ASSUME RegistryInv, NEW m \in Importers, FindLocation(m) PROVE RegistryInv'
<1>1. PICK i : i = importer[m]
  OBVIOUS
<1> DEFINE rows == {x \in Seen(m, "location") : NamesOf(x.parts) = AskedPlaces(m)}
           s == IF i.ask.institution = Missing THEN "between" ELSE "institution"
           hit == [i EXCEPT !.place = FirstOf(rows).id, !.at = s]
           none == [i EXCEPT !.at = "part"]
<1>2. /\ i.at = "location" /\ LooksUp(m, PlaceKey(i)) /\ UNCHANGED table
      /\ \/ Becomes(m, hit)
         \/ ~(Complete(m) /\ rows # {}) /\ Becomes(m, none)
  BY <1>1, SeenIs DEF FindLocation, PlaceKey
<1>3. /\ RegistryType' /\ i \in ImportState /\ LineOK(m, i, table, asked[m], together)
      /\ asked'[m] = asked[m] \cup {PlaceKey(i)} /\ together \subseteq together'
  <2>1. RegistryType'
    BY SeenIs, StepType
  <2>2. asked'[m] = asked[m] \cup {PlaceKey(i)} /\ together \subseteq together'
    BY <1>2, SeenIs DEF LooksUp, RegistryType
  <2> QED BY <1>1, <2>1, <2>2, SeenIs, ImporterIs
<1>4. CASE Becomes(m, hit)
  <2> DEFINE id == FirstOf(rows).id
  <2> HIDE DEF rows
  <2>1. hit.at \in {"between", "institution"} /\ hit = importer'[m]
    <3>1. importer'[m] = hit
      BY <1>4, SeenIs DEF Becomes, RegistryType
    <3>2. s \in {"between", "institution"}
      OBVIOUS
    <3> HIDE DEF s
    <3> QED BY <1>3, <3>1, <3>2 DEF ImportState
  <2>2. importer'[m] \in ImportState
    BY <1>3 DEF RegistryType
  <2> HIDE DEF hit
  <2> QED BY <1>2, <1>3, <1>4, <2>1, <2>2, LookInv, NothingKnown
<1>5. CASE ~(Complete(m) /\ rows # {}) /\ Becomes(m, none)
  <2>1. none \in ImportState /\ none.at = "part" /\ none.next = i.next /\ none.parts = i.parts
        /\ none.ask = i.ask
    BY <1>3 DEF ImportState, ImportStages
  <2>2. Complete(m) => Fresh(table, m, PlaceKey(i), together')
    <3> SUFFICES ASSUME Complete(m), NEW x \in table, VisibleTo(m, x), KeyIn(table, x) = PlaceKey(i)
                 PROVE  FALSE
      BY DEF Fresh
    <3>1. x.kind \in RegistryTables /\ KeyIn(table, x)[1] = "location"
      BY SeenIs DEF PlaceKey
    <3>2. x.kind = "location" /\ KeyIn(table, x) = <<"location", NamesIn(table, x.parts)>>
      BY <3>1, KeyForm
    <3>3. NamesIn(table, x.parts) = PlacesOf(i)
      BY <3>2 DEF PlaceKey
    <3>4. x \in rows
      BY <1>1, <3>2, <3>3, SeenIs
    <3> QED BY <1>5, <3>4
  <2> HIDE DEF none
  <2>3. PlaceKey(none) = PlaceKey(i) /\ PlacesOf(none) = PlacesOf(i)
    BY <2>1 DEF PlaceKey, PlacesOf
  <2>4. none.next = 1 /\ \A j \in 1 .. 3 : none.parts[j] = 0
    BY <1>2, <1>3, <2>1 DEF LineOK
  <2>5. PlaceKey(none) \in asked'[m]
        /\ (Missing \notin {PlacesOf(none)[j] : j \in 1 .. 3} => Fresh(table, m, PlaceKey(none), together'))
    BY <1>1, <1>3, <2>2, <2>3, SeenIs
  <2>6. LineOK(m, none, table, asked'[m], together')
    BY <2>1, <2>4, <2>5 DEF LineOK
  <2> QED BY <1>2, <1>3, <1>5, <2>1, <2>6, LookInv
<1> QED BY <1>2, <1>4, <1>5

LEMMA BeginInv ==
  ASSUME RegistryInv, NEW m \in Importers,
         NextLine(m) \/ \E file \in ImportFiles : BeginImport(m, file)
  PROVE  RegistryInv'
<1>1. CASE NextLine(m)
  <2>1. PICK i \in ImportState :
           /\ Becomes(m, i) /\ i.at \in {"location", "institution"} /\ i.next = 1
           /\ i.parts = <<0, 0, 0>>
           /\ UNCHANGED <<table, lastRow, asked, together, imports>>
    BY <1>1, SeenIs, NextLineIs
  <2>2. RegistryType'
    BY <1>1, SeenIs, StepType
  <2>3. \A j \in 1 .. 3 : i.parts[j] = 0
    BY <2>1
  <2>4. LineOK(m, i, table, asked'[m], together')
    BY <2>1, <2>3 DEF LineOK
  <2> QED BY <2>1, <2>2, <2>4, LookInv
<1>2. ASSUME NEW file \in ImportFiles, BeginImport(m, file) PROVE RegistryInv'
  <2> DEFINE i == [Nobody EXCEPT !.at = "between", !.left = file]
  <2>1. i \in ImportState /\ i.at = "between"
    <3>1. "between" \in ImportStages /\ file \in Seq(Asks)
      BY NobodyIs DEF ImportStages
    <3>2. i \in ImportState
      BY <3>1, NobodyIs
    <3>3. i.at = "between"
      BY NobodyIs DEF ImportState
    <3> QED BY <3>2, <3>3
  <2>2. Becomes(m, i) /\ UNCHANGED <<table, asked, together>>
    BY <1>2 DEF BeginImport
  <2>3. RegistryType'
    BY <1>2, SeenIs, BeginType
  <2> HIDE DEF i
  <2>4. LineOK(m, i, table, asked'[m], together')
    BY <2>1, NothingKnown
  <2> QED BY <2>1, <2>2, <2>3, <2>4, LookInv
<1> QED BY <1>1, <1>2

\* What an importer knows while it is at the places of a line, and how its state goes on
\* from i to k, with or without the place it is at.
KnowsPlaces(m, k, T, A, S) ==
  /\ \A j \in 1 .. 3 : j >= k.next => k.parts[j] = 0
  /\ PlaceKey(k) \in A /\ (Missing \notin {PlacesOf(k)[j] : j \in 1 .. 3} => Fresh(T, m, PlaceKey(k), S))
  /\ \A j \in 1 .. 3 : j < k.next => Stands(T, m, k.parts[j], k.ask[Parts[j]])
Advances(m, i, k, U) ==
  /\ i.at \in {"part", "get", "create"} /\ k.ask = i.ask /\ k.next \in 1 .. 4 /\ i.next \in 1 .. 4
  /\ \/ k.next = i.next /\ k.parts = i.parts
     \/ /\ k.next = i.next + 1 /\ \A j \in 1 .. 3 : j # i.next => k.parts[j] = i.parts[j]
        /\ Stands(U, m, k.parts[i.next], i.ask[Parts[i.next]])

LEMMA GoesOn ==
  ASSUME NEW m, NEW i, NEW k, NEW T, NEW U, NEW A, NEW B, NEW S, NEW R,
         LineOK(m, i, T, A, S), Advances(m, i, k, U), T \subseteq U, A \subseteq B, S \subseteq R,
         Fresh(T, m, PlaceKey(i), S) => Fresh(U, m, PlaceKey(i), R)
  PROVE  KnowsPlaces(m, k, U, B, R)
<1>1. PlacesOf(k) = PlacesOf(i) /\ PlaceKey(k) = PlaceKey(i)
  BY DEF PlacesOf, PlaceKey, Advances
<1>2. /\ \A j \in 1 .. 3 : j >= i.next => i.parts[j] = 0
      /\ \A j \in 1 .. 3 : j < i.next => Stands(T, m, i.parts[j], i.ask[Parts[j]])
      /\ PlaceKey(i) \in A /\ (Missing \notin {PlacesOf(i)[j] : j \in 1 .. 3} => Fresh(T, m, PlaceKey(i), S))
  BY DEF LineOK, Advances
<1>3. \A id, name : Stands(T, m, id, name) => Stands(U, m, id, name)
  BY DEF Stands
<1>4. \A j \in 1 .. 3 : j >= k.next => k.parts[j] = 0
  BY <1>2 DEF Advances
<1>5. ASSUME NEW j \in 1 .. 3, j < k.next PROVE Stands(U, m, k.parts[j], k.ask[Parts[j]])
  <2>1. CASE j < i.next
    <3>1. k.parts[j] = i.parts[j] /\ k.ask = i.ask
      BY <2>1 DEF Advances
    <3> QED BY <1>2, <1>3, <2>1, <3>1
  <2>2. CASE ~(j < i.next)
    <3>1. j = i.next /\ k.next = i.next + 1
      BY <1>5, <2>2 DEF Advances
    <3> QED BY <3>1 DEF Advances
  <2> QED BY <2>1, <2>2
<1> QED BY <1>1, <1>2, <1>4, <1>5 DEF KnowsPlaces

LEMMA CheckPartInv == ASSUME RegistryInv, NEW m \in Importers, CheckPart(m) PROVE RegistryInv'
<1>1. PICK i : i = importer[m]
  OBVIOUS
<1>2. /\ i.at = "part" /\ i.next <= 3 /\ UNCHANGED table
      /\ \/ /\ i.ask[Parts[i.next]] = Missing /\ Becomes(m, [i EXCEPT !.next = @ + 1])
            /\ UNCHANGED <<asked, together>>
         \/ /\ i.ask[Parts[i.next]] # Missing /\ LooksUp(m, PartKey(i))
            /\ Becomes(m, [i EXCEPT !.at =
                 IF \E x \in Seen(m, Parts[i.next]) : x.name = i.ask[Parts[i.next]] THEN "get" ELSE "create"])
  BY <1>1 DEF CheckPart, PartKey
<1>3. /\ RegistryType' /\ i \in ImportState /\ LineOK(m, i, table, asked[m], together)
      /\ i.next \in 1 .. 3 /\ DOMAIN asked = Importers
      /\ importer'[m] \in ImportState
  <2>1. RegistryType'
    BY SeenIs, StepType
  <2>2. importer'[m] \in ImportState
    BY <2>1 DEF RegistryType
  <2>3. i.next \in 1 .. 4
    BY <1>1, SeenIs, ImporterIs
  <2> QED BY <1>1, <1>2, <2>1, <2>2, <2>3, SeenIs, ImporterIs DEF RegistryType
<1>4. CASE /\ i.ask[Parts[i.next]] = Missing /\ Becomes(m, [i EXCEPT !.next = @ + 1])
           /\ UNCHANGED <<asked, together>>
  <2> DEFINE k == [i EXCEPT !.next = @ + 1]
  <2>1. /\ k.at = "part" /\ k.next = i.next + 1 /\ k.parts = i.parts /\ k.ask = i.ask
        /\ k = importer'[m]
    BY <1>2, <1>3, <1>4, SeenIs DEF ImportState, Becomes, RegistryType
  <2> HIDE DEF k
  <2>2. Stands(table, m, k.parts[i.next], i.ask[Parts[i.next]])
    BY <1>2, <1>3, <1>4, <2>1 DEF Stands, LineOK
  <2>3. Advances(m, i, k, table)
    BY <1>2, <1>3, <2>1, <2>2 DEF Advances
  <2>5. KnowsPlaces(m, k, table, asked[m], together)
    BY <1>3, <2>3, GoesOn
  <2>4. LineOK(m, k, table, asked'[m], together')
    BY <1>4, <2>1, <2>5 DEF LineOK, KnowsPlaces
  <2> QED BY <1>2, <1>3, <1>4, <2>1, <2>4, LookInv DEF k
<1>5. ASSUME NEW s \in {"get", "create"}, i.ask[Parts[i.next]] # Missing, LooksUp(m, PartKey(i)),
             Becomes(m, [i EXCEPT !.at = s]),
             s = "get" <=> \E x \in Seen(m, Parts[i.next]) : x.name = i.ask[Parts[i.next]]
      PROVE  RegistryInv'
  <2> DEFINE k == [i EXCEPT !.at = s]
  <2>1. /\ k.at = s /\ k.next = i.next /\ k.parts = i.parts /\ k.ask = i.ask
        /\ k = importer'[m]
    BY <1>2, <1>3, <1>5, SeenIs DEF ImportState, Becomes, RegistryType
  <2>9. Becomes(m, k)
    BY <1>5
  <2> HIDE DEF k
  <2>2. asked'[m] = asked[m] \cup {PartKey(i)} /\ together \subseteq together'
    BY <1>3, <1>5 DEF LooksUp
  <2>3. \A what : Fresh(table, m, what, together) => Fresh(table, m, what, together')
    BY <2>2 DEF Fresh
  <2>4. KnowsPlaces(m, k, table, asked'[m], together')
    <3>1. Advances(m, i, k, table)
      BY <1>2, <1>3, <2>1 DEF Advances
    <3>2. PICK B, R : B = asked'[m] /\ R = together'
      OBVIOUS
    <3>3. asked[m] \subseteq B /\ together \subseteq R /\ \A what : Fresh(table, m, what, together) => Fresh(table, m, what, R)
      BY <2>2, <2>3, <3>2
    <3>4. KnowsPlaces(m, k, table, B, R)
      BY <1>3, <3>1, <3>3, GoesOn
    <3> QED BY <3>2, <3>4
  <2>5. PartKey(k) = PartKey(i) /\ PartKey(k) \in asked'[m]
    BY <2>1, <2>2 DEF PartKey
  <2>6. s = "get" => \E x \in table : x.kind = Parts[k.next] /\ x.name = k.ask[Parts[k.next]] /\ VisibleTo(m, x)
    BY <1>5, <2>1, SeenIs
  <2>7. s = "create" => Fresh(table, m, PartKey(k), together')
    <3> SUFFICES ASSUME s = "create", NEW x \in table, VisibleTo(m, x), KeyIn(table, x) = PartKey(i)
                 PROVE  FALSE
      BY <2>5 DEF Fresh
    <3>1. x.kind \in RegistryTables /\ KeyIn(table, x)[1] = x.kind
      BY SeenIs, KeyForm
    <3>2. x.kind = Parts[i.next]
      BY <3>1 DEF PartKey
    <3>3. x.kind \notin {"location", "institution"}
      BY <1>3, <3>2, PartsAre
    <3>4. x.name = i.ask[Parts[i.next]]
      BY <3>1, <3>3, KeyForm DEF PartKey
    <3> QED BY <1>5, <3>2, <3>4, SeenIs
  <2>8. LineOK(m, k, table, asked'[m], together')
    BY <1>3, <1>5, <2>1, <2>4, <2>5, <2>6, <2>7 DEF LineOK, KnowsPlaces
  <2> QED BY <1>2, <1>3, <1>5, <2>1, <2>8, <2>9, LookInv
<1> QED
  <2>1. CASE \E x \in Seen(m, Parts[i.next]) : x.name = i.ask[Parts[i.next]]
    BY <1>2, <1>4, <1>5, <2>1
  <2>2. CASE ~\E x \in Seen(m, Parts[i.next]) : x.name = i.ask[Parts[i.next]]
    BY <1>2, <1>4, <1>5, <2>2
  <2> QED BY <2>1, <2>2

LEMMA GetPartInv == ASSUME RegistryInv, NEW m \in Importers, GetPart(m) PROVE RegistryInv'
<1>1. PICK i : i = importer[m]
  OBVIOUS
<1> DEFINE rows == {x \in Seen(m, Parts[i.next]) : x.name = i.ask[Parts[i.next]]}
           got == [i EXCEPT !.at = "part", !.next = @ + 1, !.parts[i.next] = FirstOf(rows).id]
           raised == [i EXCEPT !.at = "raised"]
<1>2. /\ i.at = "get" /\ UNCHANGED <<table, asked, together>>
      /\ \/ Cardinality(rows) > 1 /\ Becomes(m, raised)
         \/ Becomes(m, got)
  BY <1>1 DEF GetPart
<1>3. /\ RegistryType' /\ i \in ImportState /\ LineOK(m, i, table, asked[m], together)
      /\ i.next \in 1 .. 3 /\ IsFiniteSet(table) /\ importer \in [Importers -> ImportState]
  <2>1. RegistryType'
    BY SeenIs, StepType
  <2>2. i.next <= 3 /\ i.next \in 1 .. 4
    BY <1>1, <1>2, SeenIs, ImporterIs DEF LineOK
  <2> QED BY <1>1, <2>1, <2>2, SeenIs, ImporterIs DEF RegistryType
<1>4. \A x \in rows : x \in table /\ x.kind = Parts[i.next] /\ x.name = i.ask[Parts[i.next]] /\ VisibleTo(m, x)
  BY SeenIs
<1>5. \E x \in rows : TRUE
  <2>1. PICK x \in table : x.kind = Parts[i.next] /\ x.name = i.ask[Parts[i.next]] /\ VisibleTo(m, x)
    BY <1>2, <1>3 DEF LineOK
  <2> QED BY <2>1, SeenIs
<1> HIDE DEF rows
<1>6. CASE Cardinality(rows) > 1 /\ Becomes(m, raised)
  <2>1. PICK x \in rows : TRUE
    BY <1>5
  <2>2. PICK y \in rows : y # x
    <3>1. Cardinality({x}) = 1
      BY FS_Singleton
    <3>2. rows # {x}
      BY <1>6, <3>1
    <3> QED BY <2>1, <3>2
  <2>3. ASSUME NEW z \in rows PROVE KeyIn(table, z) = PartKey(i) /\ IsWhole(z)
    <3>1. z.kind = Parts[i.next] /\ z.kind \in RegistryTables /\ z.kind \notin {"location", "institution"}
      BY <1>3, <1>4, PartsAre
    <3> QED BY <1>4, <3>1, KeyForm DEF PartKey, IsWhole
  <2>4. PartKey(i) \in together
    BY <1>4, <2>2, <2>3, SeenIs DEF RowsOK
  <2>5. raised.at = "raised" /\ raised.next = i.next /\ raised.ask = i.ask /\ raised = importer'[m]
        /\ raised \in ImportState
    BY <1>3, <1>6 DEF ImportState, ImportStages, Becomes
  <2> HIDE DEF raised
  <2>6. LineOK(m, raised, table, asked'[m], together')
    BY <1>2, <1>3, <2>4, <2>5 DEF LineOK, PartKey
  <2> QED BY <1>2, <1>3, <1>6, <2>5, <2>6, LookInv
<1>7. CASE Becomes(m, got)
  <2>1. FirstOf(rows) \in rows /\ FirstOf(rows).id # 0 /\ FirstOf(rows).id \in Nat
    <3>1. rows \in SUBSET table /\ rows # {}
      BY <1>4, <1>5
    <3>2. RegistryType /\ FirstOf(rows) \in rows
      BY <3>1, SeenIs, FirstRowIs
    <3> QED BY <3>1, <3>2, SeenIs
  <2>2. PICK first : first = FirstOf(rows)
    OBVIOUS
  <2>3. /\ got.at = "part" /\ got.next = i.next + 1 /\ got.ask = i.ask /\ got = importer'[m]
        /\ got.parts[i.next] = first.id /\ \A j \in 1 .. 3 : j # i.next => got.parts[j] = i.parts[j]
    BY <1>3, <1>7, <2>2 DEF ImportState, Becomes
  <2>4. got \in ImportState
    <3>1. "part" \in ImportStages /\ i.next <= 3
      BY <1>3 DEF ImportStages
    <3> QED BY <1>3, <2>1, <3>1, StateUpdates
  <2> HIDE DEF got
  <2>5. Stands(table, m, got.parts[i.next], i.ask[Parts[i.next]])
    <3>1. i.ask[Parts[i.next]] # Missing
      BY <1>2, <1>3 DEF LineOK
    <3> QED BY <1>4, <2>1, <2>2, <2>3, <3>1 DEF Stands
  <2>6. KnowsPlaces(m, got, table, asked[m], together)
    <3>1. Advances(m, i, got, table)
      BY <1>2, <1>3, <2>3, <2>5 DEF Advances
    <3> QED BY <1>3, <3>1, GoesOn
  <2>7. LineOK(m, got, table, asked'[m], together')
    BY <1>2, <2>3, <2>6 DEF LineOK, KnowsPlaces
  <2> QED BY <1>2, <1>3, <1>7, <2>4, <2>7, LookInv
<1> QED BY <1>2, <1>6, <1>7

LEMMA CreatePartInv == ASSUME RegistryInv, NEW m \in Importers, CreatePart(m) PROVE RegistryInv'
<1>1. PICK i : i = importer[m]
  OBVIOUS
<1> DEFINE kind == Parts[i.next]
           name == i.ask[kind]
           r == [id |-> lastRow + 1, kind |-> kind, name |-> name, parts |-> <<>>, place |-> 0, by |-> m]
           k == [i EXCEPT !.at = "part", !.next = @ + 1, !.parts[i.next] = lastRow + 1]
<1>2. /\ i.at = "create" /\ UNCHANGED <<asked, together, imports>> /\ Becomes(m, k)
      /\ Insert(m, kind, name, <<>>, 0) /\ table' = table \cup {r}
  BY <1>1 DEF CreatePart, Insert
<1>3. /\ i \in ImportState /\ LineOK(m, i, table, asked[m], together) /\ lastRow \in Nat
      /\ i.next \in 1 .. 3 /\ importer \in [Importers -> ImportState]
      /\ \A j \in 1 .. 3 : i.parts[j] <= lastRow /\ i.parts[j] \in Nat
      /\ i.place <= lastRow /\ i.place \in Nat
  <2>1. i.next <= 3 /\ i.next \in 1 .. 4
    BY <1>1, <1>2, SeenIs, ImporterIs DEF LineOK
  <2> QED BY <1>1, <2>1, SeenIs, ImporterIs DEF RegistryType
<1>4. /\ kind \in RegistryTables /\ kind \notin {"location", "institution"} /\ name \in CellNames
      /\ name # Missing
  <2>1. kind \in Cells /\ kind \in RegistryTables /\ kind \in {"country", "state", "city"}
    BY <1>3, PartsAre
  <2>2. name \in CellNames
    BY <1>1, <2>1, SeenIs, ImporterIs
  <2>3. name # Missing
    BY <1>2, <1>3 DEF LineOK
  <2> QED BY <2>1, <2>2, <2>3
<1>5. r.id = lastRow + 1 /\ r.kind = kind /\ r.name = name /\ r.by = m
  OBVIOUS
<1>6. PartKey(i) = <<kind, name>> /\ PartKey(i) \in asked[m] /\ Fresh(table, m, PartKey(i), together)
  BY <1>2, <1>3 DEF LineOK, PartKey
<1>7. /\ k \in ImportState /\ k.at = "part" /\ k.next = i.next + 1 /\ k.ask = i.ask
      /\ k.parts[i.next] = lastRow + 1 /\ \A j \in 1 .. 3 : j # i.next => k.parts[j] = i.parts[j]
      /\ k.place = i.place
  <2>1. k \in ImportState
    <3>1. "part" \in ImportStages /\ i.next <= 3 /\ lastRow + 1 \in Nat
      BY <1>3 DEF ImportStages
    <3> QED BY <1>3, <3>1, StateUpdates
  <2> QED BY <1>3, <2>1 DEF ImportState
<1> HIDE DEF kind, name, r, k
<1>8. RegistryType'
  <2>1. k.place <= lastRow + 1 /\ \A j \in 1 .. 3 : k.parts[j] <= lastRow + 1
    BY <1>3, <1>7
  <2>2. <<>> \in {<<>>} \cup [1 .. 3 -> Nat] /\ 0 \in Nat /\ 0 <= lastRow
        /\ \A j \in DOMAIN <<>> : <<>>[j] <= lastRow
    BY <1>3
  <2> QED BY <1>2, <1>4, <1>7, <2>1, <2>2, SeenIs, InsertType
<1>9. r \notin table
  <2>1. \A x \in table : x.id <= lastRow /\ x.id \in Nat
    BY <1>3, SeenIs DEF RegistryType
  <2> QED BY <1>3, <1>5, <2>1
<1>10. KeyIn(table', r) = PartKey(i) /\ Refers(table', r)
  BY <1>4, <1>5, <1>6, KeyForm DEF Refers
<1>11. ASSUME \A x \in table : KeyIn(table', x) = KeyIn(table, x)
       PROVE  LineOK(m, k, table', asked[m], together)
  <2>1. Stands(table', m, k.parts[i.next], i.ask[Parts[i.next]])
    <3>1. r \in table' /\ r.id = k.parts[i.next] /\ r.id # 0 /\ r.name = i.ask[Parts[i.next]] /\ VisibleTo(m, r)
      BY <1>2, <1>3, <1>5, <1>7 DEF VisibleTo, kind, name
    <3> QED BY <1>4, <3>1 DEF Stands, kind, name
  <2>2. Fresh(table, m, PlaceKey(i), together) => Fresh(table', m, PlaceKey(i), together)
    <3>1. KeyIn(table', r) # PlaceKey(i)
      <4>1. PartKey(i)[1] = kind /\ PlaceKey(i)[1] = "location"
        BY <1>6 DEF PlaceKey
      <4> QED BY <1>4, <1>10, <4>1
    <3> QED BY <1>2, <1>11, <3>1 DEF Fresh
  <2>3. KnowsPlaces(m, k, table', asked[m], together)
    <3>1. Advances(m, i, k, table')
      BY <1>2, <1>3, <1>7, <2>1 DEF Advances
    <3>2. PICK U : U = table'
      OBVIOUS
    <3>3. table \subseteq U /\ Advances(m, i, k, U)
          /\ (Fresh(table, m, PlaceKey(i), together) => Fresh(U, m, PlaceKey(i), together))
      BY <1>2, <2>2, <3>1, <3>2
    <3>4. KnowsPlaces(m, k, U, asked[m], together)
      BY <1>3, <3>3, GoesOn
    <3> QED BY <3>2, <3>4
  <2> QED BY <1>7, <2>3 DEF LineOK, KnowsPlaces
<1> QED BY <1>2, <1>5, <1>6, <1>7, <1>8, <1>9, <1>10, <1>11, InsertInv

LEMMA SaveLocationInv == ASSUME RegistryInv, NEW m \in Importers, SaveLocation(m) PROVE RegistryInv'
<1>1. PICK i : i = importer[m]
  OBVIOUS
<1> DEFINE r == [id |-> lastRow + 1, kind |-> "location", name |-> Missing, parts |-> i.parts,
                 place |-> 0, by |-> m]
           s == IF i.ask.institution = Missing THEN "between" ELSE "institution"
           k == [i EXCEPT !.place = lastRow + 1, !.at = s]
<1>2. /\ i.at = "part" /\ i.next > 3 /\ UNCHANGED <<asked, together, imports>> /\ Becomes(m, k)
      /\ Insert(m, "location", Missing, i.parts, 0) /\ table' = table \cup {r}
  BY <1>1 DEF SaveLocation, Insert
<1>3. /\ i \in ImportState /\ LineOK(m, i, table, asked[m], together) /\ lastRow \in Nat
      /\ i.next \in 1 .. 4 /\ i.parts \in [1 .. 3 -> Nat]
      /\ \A j \in 1 .. 3 : i.parts[j] <= lastRow
      /\ "location" \in RegistryTables /\ Missing \in CellNames
  BY <1>1, SeenIs, ImporterIs, PartsAre DEF RegistryType
<1>4. s \in {"between", "institution"} /\ s \in ImportStages
  BY DEF ImportStages
<1> HIDE DEF s
<1>5. r.id = lastRow + 1 /\ r.kind = "location" /\ r.parts = i.parts /\ r.by = m
  OBVIOUS
<1>6. /\ k \in ImportState /\ k.at \in {"between", "institution"} /\ k.place = lastRow + 1
      /\ k.parts = i.parts
  <2>1. k \in ImportState
    <3>1. lastRow + 1 \in Nat
      BY <1>3
    <3> QED BY <1>3, <1>4, <3>1, StateUpdates
  <2> QED BY <1>3, <1>4, <2>1 DEF ImportState
<1> HIDE DEF r, k
<1>7. RegistryType'
  <2>1. k.place <= lastRow + 1 /\ \A j \in 1 .. 3 : k.parts[j] <= lastRow + 1
    BY <1>3, <1>6
  <2>2. i.parts \in {<<>>} \cup [1 .. 3 -> Nat] /\ 0 \in Nat /\ 0 <= lastRow
        /\ \A j \in DOMAIN i.parts : i.parts[j] <= lastRow
    BY <1>3
  <2> QED BY <1>2, <1>3, <1>6, <2>1, <2>2, SeenIs, InsertType
<1>8. r \notin table
  <2>1. \A x \in table : x.id <= lastRow /\ x.id \in Nat
    BY <1>3, SeenIs DEF RegistryType
  <2> QED BY <1>3, <1>5, <2>1
<1>9. \A j \in 1 .. 3 : Stands(table, m, i.parts[j], i.ask[Parts[j]])
  BY <1>2, <1>3 DEF LineOK
<1>10. Unique(table') /\ table \subseteq table'
  BY <1>2, <1>7 DEF RegistryType, Unique
<1>11. ASSUME NEW j \in 1 .. 3
       PROVE  /\ NameIn(table', i.parts[j]) = i.ask[Parts[j]]
              /\ i.ask[Parts[j]] = Missing => i.parts[j] = 0
              /\ i.parts[j] # 0 =>
                   \E y \in table' : y.id = i.parts[j] /\ y.name # Missing /\ VisibleTo(m, y)
  <2>1. CASE i.ask[Parts[j]] = Missing
    BY <1>9, <2>1 DEF Stands, NameIn
  <2>2. CASE i.ask[Parts[j]] # Missing
    <3>1. PICK y \in table : y.id = i.parts[j] /\ i.parts[j] # 0 /\ y.name = i.ask[Parts[j]] /\ VisibleTo(m, y)
      BY <1>9, <2>2 DEF Stands
    <3>2. NameIn(table', y.id) = y.name
      BY <1>10, <3>1, NameIs
    <3> QED BY <1>10, <2>2, <3>1, <3>2
  <2> QED BY <2>1, <2>2
<1>12. KeyIn(table', r) = PlaceKey(i)
  <2>1. KeyIn(table', r) = <<"location", NamesIn(table', i.parts)>>
    BY <1>3, <1>5, KeyForm
  <2>2. NamesIn(table', i.parts) = PlacesOf(i)
    BY <1>11 DEF NamesIn, PlacesOf
  <2> QED BY <2>1, <2>2 DEF PlaceKey
<1>13. Refers(table', r)
  BY <1>3, <1>5, <1>11 DEF Refers
<1>14. PlaceKey(i) \in asked[m] /\ (IsWhole(r) => Fresh(table, m, PlaceKey(i), together))
  <2>1. /\ PlaceKey(i) \in asked[m]
        /\ (Missing \notin {PlacesOf(i)[j] : j \in 1 .. 3} => Fresh(table, m, PlaceKey(i), together))
    BY <1>2, <1>3 DEF LineOK
  <2>2. IsWhole(r) => Missing \notin {PlacesOf(i)[j] : j \in 1 .. 3}
    BY <1>5, <1>11 DEF IsWhole, PlacesOf
  <2> QED BY <2>1, <2>2
<1>15. LineOK(m, k, table', asked[m], together)
  BY <1>6, NothingKnown
<1> QED BY <1>2, <1>5, <1>6, <1>7, <1>8, <1>12, <1>13, <1>14, <1>15, InsertInv

LEMMA FindInstitutionInv == ASSUME RegistryInv, NEW m \in Importers, FindInstitution(m) PROVE RegistryInv'
<1>1. PICK i : i = importer[m]
  OBVIOUS
<1> DEFINE rows == {x \in Seen(m, "institution") :
                      x.name = i.ask.institution /\ (i.place # 0 => x.place = i.place)}
<1>2. /\ LooksUp(m, InstitutionKey(i)) /\ UNCHANGED table
      /\ Becomes(m, [i EXCEPT !.at = IF rows = {} THEN "save" ELSE "between"])
  BY <1>1 DEF FindInstitution, InstitutionKey
<1>3. /\ RegistryType' /\ i \in ImportState /\ importer \in [Importers -> ImportState]
      /\ asked'[m] = asked[m] \cup {InstitutionKey(i)} /\ together \subseteq together'
  <2>1. RegistryType'
    BY SeenIs, StepType
  <2>2. asked'[m] = asked[m] \cup {InstitutionKey(i)} /\ together \subseteq together'
    BY <1>2, SeenIs DEF LooksUp, RegistryType
  <2> QED BY <1>1, <2>1, <2>2, SeenIs, ImporterIs DEF RegistryType
<1>4. ASSUME rows = {} PROVE Fresh(table, m, InstitutionKey(i), together')
  <2> SUFFICES ASSUME NEW x \in table, VisibleTo(m, x), KeyIn(table, x) = InstitutionKey(i)
               PROVE  FALSE
    BY DEF Fresh
  <2>1. x.kind \in RegistryTables /\ KeyIn(table, x)[1] = x.kind
    BY SeenIs, KeyForm
  <2>2. x.kind = "institution"
    BY <2>1 DEF InstitutionKey
  <2>3. KeyIn(table, x) = <<"institution", x.name, x.place>>
    BY <2>1, <2>2, KeyForm
  <2>4. x.name = i.ask.institution /\ x.place = i.place
    BY <2>3 DEF InstitutionKey
  <2>5. x \in rows
    BY <2>2, <2>4, SeenIs
  <2> QED BY <1>4, <2>5
<1> HIDE DEF rows
<1>5. ASSUME NEW s \in {"save", "between"}, Becomes(m, [i EXCEPT !.at = s]), s = "save" => rows = {}
      PROVE  RegistryInv'
  <2> DEFINE k == [i EXCEPT !.at = s]
  <2>1. k.at = s /\ k.place = i.place /\ k.ask = i.ask /\ k \in ImportState
    BY <1>3 DEF ImportState, ImportStages
  <2>2. Becomes(m, k)
    BY <1>5
  <2> HIDE DEF k
  <2>3. InstitutionKey(k) = InstitutionKey(i)
    BY <2>1 DEF InstitutionKey
  <2>4. LineOK(m, k, table, asked'[m], together')
    BY <1>3, <1>4, <1>5, <2>1, <2>3 DEF LineOK
  <2> QED BY <1>2, <1>3, <2>1, <2>2, <2>4, LookInv
<1>6. CASE rows = {}
  BY <1>2, <1>5, <1>6
<1>7. CASE rows # {}
  BY <1>2, <1>5, <1>7
<1> QED BY <1>6, <1>7

LEMMA SaveInstitutionInv == ASSUME RegistryInv, NEW m \in Importers, SaveInstitution(m) PROVE RegistryInv'
<1>1. PICK i : i = importer[m]
  OBVIOUS
<1> DEFINE name == i.ask.institution
           r == [id |-> lastRow + 1, kind |-> "institution", name |-> name, parts |-> <<>>,
                 place |-> i.place, by |-> m]
           k == [i EXCEPT !.at = "between"]
<1>2. /\ i.at = "save" /\ UNCHANGED <<asked, together, imports>> /\ Becomes(m, k)
      /\ Insert(m, "institution", name, <<>>, i.place) /\ table' = table \cup {r}
  BY <1>1 DEF SaveInstitution, Insert
<1>3. /\ i \in ImportState /\ LineOK(m, i, table, asked[m], together) /\ lastRow \in Nat
      /\ i.parts \in [1 .. 3 -> Nat] /\ \A j \in 1 .. 3 : i.parts[j] <= lastRow
      /\ i.place <= lastRow /\ i.place \in Nat
      /\ "institution" \in RegistryTables /\ name \in CellNames
  <2>1. "institution" \in Cells
    BY DEF Cells
  <2>2. i.ask["institution"] \in CellNames
    BY <1>1, <2>1, SeenIs, ImporterIs
  <2> QED BY <1>1, <2>2, SeenIs, ImporterIs, PartsAre DEF RegistryType
<1>4. r.id = lastRow + 1 /\ r.kind = "institution" /\ r.name = name /\ r.place = i.place /\ r.by = m
  OBVIOUS
<1>5. InstitutionKey(i) = <<"institution", name, i.place>> /\ InstitutionKey(i) \in asked[m]
      /\ Fresh(table, m, InstitutionKey(i), together)
  BY <1>2, <1>3 DEF LineOK, InstitutionKey
<1>6. k \in ImportState /\ k.at = "between" /\ k.parts = i.parts /\ k.place = i.place
  BY <1>3 DEF ImportState, ImportStages
<1> HIDE DEF name, r, k
<1>7. RegistryType'
  <2>1. k.place <= lastRow + 1 /\ \A j \in 1 .. 3 : k.parts[j] <= lastRow + 1
    BY <1>3, <1>6
  <2>2. <<>> \in {<<>>} \cup [1 .. 3 -> Nat] /\ \A j \in DOMAIN <<>> : <<>>[j] <= lastRow
    OBVIOUS
  <2> QED BY <1>2, <1>3, <1>6, <2>1, <2>2, SeenIs, InsertType
<1>8. r \notin table
  <2>1. \A x \in table : x.id <= lastRow /\ x.id \in Nat
    BY <1>3, SeenIs DEF RegistryType
  <2> QED BY <1>3, <1>4, <2>1
<1>9. KeyIn(table', r) = InstitutionKey(i) /\ Refers(table', r)
  BY <1>3, <1>4, <1>5, KeyForm DEF Refers
<1>10. LineOK(m, k, table', asked[m], together)
  BY <1>6, NothingKnown
<1> QED BY <1>2, <1>4, <1>5, <1>6, <1>7, <1>8, <1>9, <1>10, InsertInv

LEMMA RegistryStep == RegistryInv /\ [RegistryNext]_registryVars => RegistryInv'
<1> SUFFICES ASSUME RegistryInv, [RegistryNext]_registryVars PROVE RegistryInv'
  OBVIOUS
<1>1. CASE RegistryNext
  <2>1. PICK m \in Importers :
          \/ \E file \in ImportFiles : BeginImport(m, file)
          \/ NextLine(m)
          \/ FindLocation(m) \/ CheckPart(m) \/ GetPart(m) \/ CreatePart(m) \/ SaveLocation(m)
          \/ FindInstitution(m) \/ SaveInstitution(m) \/ EndImport(m) \/ AbortImport(m)
    BY <1>1, Zenon DEF RegistryNext
  <2> QED BY <2>1, BeginInv, FindLocationInv, CheckPartInv, GetPartInv, CreatePartInv, SaveLocationInv,
             FindInstitutionInv, SaveInstitutionInv, EndInv
<1>2. CASE UNCHANGED registryVars
  <2>1. UNCHANGED <<table, lastRow, importer, asked, together, imports>>
    BY <1>2 DEF registryVars
  <2>2. RegistryType'
    BY <2>1 DEF RegistryInv, RegistryType, WithinIds
  <2>3. \A m \in Importers : LineOK(m, importer[m], table, asked[m], together)'
    BY <2>1 DEF RegistryInv
  <2> QED BY <2>1, <2>2, <2>3 DEF RegistryInv
<1> QED BY <1>1, <1>2

LEMMA RegistryStart == RegistryInit => RegistryInv
<1> SUFFICES ASSUME RegistryInit PROVE RegistryInv
  OBVIOUS
<1>1. /\ table = {} /\ lastRow = 0 /\ together = {} /\ imports = 0
      /\ importer \in [Importers -> ImportState] /\ DOMAIN asked = Importers
      /\ \A m \in Importers : importer[m] = Nobody /\ asked[m] = {}
  BY NobodyIs DEF RegistryInit
<1>2. WithinIds(Nobody)
  <2>1. PICK p : p = Nobody.parts
    OBVIOUS
  <2>2. p = <<0, 0, 0>> /\ Nobody.place = 0
    BY <2>1, NobodyIs
  <2>3. \A j \in DOMAIN p : p[j] <= lastRow
    BY <1>1, <2>2
  <2> QED BY <1>1, <2>1, <2>2, <2>3 DEF WithinIds
<1>3. IsFiniteSet(table)
  BY <1>1, FS_EmptySet
<1>4. RegistryType
  BY <1>1, <1>2, <1>3, RegistryAssumption DEF RegistryType
<1>5. ASSUME NEW m \in Importers PROVE LineOK(m, importer[m], table, asked[m], together)
  <2>1. importer[m].at \in {"idle", "between", "institution"}
    BY <1>1, NobodyIs
  <2> QED BY <2>1, NothingKnown
<1> QED BY <1>1, <1>4, <1>5 DEF RegistryInv, RowsOK

LEMMA RegistryInvariant == RegistrySpec => []RegistryInv
BY RegistryStart, RegistryStep, PTL DEF RegistrySpec

\* Unless two imports under way at once looked up a name, there is one row of that name
\* (but for locations without a country, state or city), and no import is refused for it
\* (core/directory_import.py, get_or_create of Country, State, City, Location, Institution).
THEOREM OneRowForEachName == RegistrySpec => []OneRowPerName
<1>1. RegistryInv => OneRowPerName
  <2> SUFFICES ASSUME RegistryInv PROVE OneRowPerName
    OBVIOUS
  <2>1. ASSUME NEW x \in table PROVE Sought(x) = KeyIn(table, x)
    <3>1. \A parts : NamesOf(parts) = NamesIn(table, parts)
      BY DEF NamesOf, NamesIn, NameOf, NameIn
    <3> QED BY <3>1 DEF Sought, KeyIn
  <2>2. ASSUME NEW x \in table, NEW y \in table, x # y, Sought(x) = Sought(y),
               x.kind = "location" => 0 \notin {x.parts[j] : j \in 1 .. 3}
        PROVE  Sought(x) \in together
    BY <2>1, <2>2 DEF RegistryInv, RowsOK, IsWhole
  <2>3. ASSUME NEW m \in Importers, importer[m].at = "raised"
        PROVE  LET kind == Parts[importer[m].next] IN <<kind, importer[m].ask[kind]>> \in together
    BY <2>3 DEF RegistryInv, LineOK, PartKey
  <2> QED BY <2>2, <2>3 DEF OneRowPerName
<1> QED BY <1>1, RegistryInvariant, PTL

\* The types of the variables (models of usefulmodels, location and institution).
THEOREM RegistryTypeCorrect == RegistrySpec => []RegistryTypeOK
<1>1. RegistryInv => RegistryTypeOK
  <2> SUFFICES ASSUME RegistryInv PROVE RegistryTypeOK
    OBVIOUS
  <2>1. ASSUME NEW x \in table
        PROVE  /\ x.id \in 1 .. lastRow /\ x.kind \in RegistryTables /\ x.by \in Importers \cup {"committed"}
               /\ x.place \in 0 .. lastRow /\ x.parts \in {<<>>} \cup [1 .. 3 -> 0 .. lastRow]
    <3>1. /\ x \in PlaceRow /\ x.id \in 1 .. lastRow /\ WithinIds(x) /\ lastRow \in Nat
      BY DEF RegistryInv, RegistryType
    <3>2. x.place \in Nat /\ x.parts \in {<<>>} \cup [1 .. 3 -> Nat]
          /\ x.kind \in RegistryTables /\ x.by \in Importers \cup {"committed"}
      BY <3>1 DEF PlaceRow
    <3>3. x.parts \in {<<>>} \cup [1 .. 3 -> 0 .. lastRow]
      BY <3>1, <3>2 DEF WithinIds
    <3> QED BY <3>1, <3>2, <3>3 DEF WithinIds
  <2>2. ASSUME NEW m \in Importers
        PROVE  /\ importer[m].next \in 1 .. 4 /\ importer[m].place \in 0 .. lastRow
               /\ importer[m].at \in ImportStages
               /\ \A what \in asked[m] : what[1] \in RegistryTables
    <3>1. importer[m] \in ImportState /\ RegistryType
      BY DEF RegistryInv, RegistryType
    <3>2. importer[m].at \in ImportStages
      BY <3>1 DEF ImportState
    <3> QED BY <3>1, <3>2, ImporterIs DEF RegistryType
  <2>3. /\ imports \in 0 .. MaxImports /\ lastRow \in Nat
        /\ \A x, y \in table : x.id = y.id => x = y
        /\ \A what \in together : what[1] \in RegistryTables
    BY DEF RegistryInv, RegistryType
  <2> QED BY <2>1, <2>2, <2>3 DEF RegistryTypeOK, ImportStages
<1> QED BY <1>1, RegistryInvariant, PTL
=============================================================================

----------------------------- MODULE RecordProofs ------------------------------
(***************************************************************************)
(* What becomes of the records: the silver documents they end up in        *)
(* (SilverIdentity), the metrics those carry (GlobalMetrics) and the       *)
(* articles made of stored works (ArticleLoading), for any number of       *)
(* records, lines, works, chunks, failures and workers.  The components    *)
(* share no state: each part stands on its own.                            *)
(***************************************************************************)
EXTENDS SilverIdentity, GlobalMetrics, ArticleLoading, FiniteSetTheorems, WellFoundedInduction, TLAPS

(***************************************************************************)
(* SilverIdentity: which documents a record ends up in                     *)
(***************************************************************************)

\* Of the intervals 0 .. n, one is minimal for inclusion: that of the least n.
LEMMA LeastNumber ==
  ASSUME NEW S \in SUBSET Nat, S # {}
  PROVE  \E x \in S : \A y \in S : x <= y
<1> DEFINE Below == {0 .. n : n \in S}
<1>1. \A n \in Nat : 0 .. n \in FiniteSubsetsOf(Nat)
  BY FS_Interval DEF FiniteSubsetsOf
<1>2. PICK T \in Below : \A U \in Below : <<U, T>> \notin StrictSubsetOrdering(Nat)
  <2>1. Below \subseteq FiniteSubsetsOf(Nat) /\ Below # {}
    BY <1>1
  <2> HIDE DEF Below
  <2> QED BY <2>1, FS_StrictSubsetOrderingWellFounded, WFMin
<1>3. PICK x \in S : T = 0 .. x
  OBVIOUS
<1> SUFFICES ASSUME NEW y \in S, y < x PROVE FALSE
  OBVIOUS
<1>4. 0 .. y \subseteq 0 .. x /\ x \notin 0 .. y /\ x \in 0 .. x
  OBVIOUS
<1>5. <<0 .. y, 0 .. x>> \in StrictSubsetOrdering(Nat)
  BY <1>4 DEF StrictSubsetOrdering
<1> QED BY <1>2, <1>3, <1>5

\* A group has a first record, whichever records were asked for.
LEMMA FirstIs ==
  ASSUME NEW asked, NEW g \in SUBSET Recs, g # {}
  PROVE  First(asked, g) \in g
<1>1. Recs \subseteq Nat
  BY IdentityAssumption DEF Recs
<1>2. PICK r \in g : \A s \in g \ {r} : Before(asked, r, s)
  <2>1. CASE g \cap asked # {}
    <3>1. PICK x \in g \cap asked : \A y \in g \cap asked : x <= y
      BY <1>1, <2>1, LeastNumber
    <3>2. \A s \in g \ {x} : Before(asked, x, s)
      BY <1>1, <3>1 DEF Before
    <3> QED BY <3>1, <3>2
  <2>2. CASE g \cap asked = {}
    <3>1. PICK x \in g : \A y \in g : x <= y
      BY <1>1, LeastNumber
    <3>2. \A s \in g \ {x} : Before(asked, x, s)
      BY <1>1, <2>2, <3>1 DEF Before
    <3> QED BY <3>1, <3>2
  <2> QED BY <2>1, <2>2
<1> QED BY <1>2 DEF First

\* A set of records that no identifier leads out of, and that is not made of two such.
Confirmed(s, t) == SharesId(s, t) /\ meta[s].kind = meta[t].kind
ClosedIn(S, T) == \A t \in T, s \in S : Confirmed(t, s) => s \in T
Joined(g) ==
  \A X \in SUBSET g : X # {} /\ (\A s \in X, t \in g : SharesId(s, t) => t \in X) => X = g

\* The chain of a record is the least closed set that it is in: the records that are in all.
LEMMA ChainIs ==
  ASSUME NEW S, NEW r \in S
  PROVE  /\ Chain(S, r) \in SUBSET S /\ r \in Chain(S, r) /\ Joined(Chain(S, r))
<1> DEFINE All == {s \in S : \A U \in SUBSET S : r \in U /\ ClosedIn(S, U) => s \in U}
           IsChain(T) == /\ r \in T /\ ClosedIn(S, T)
                         /\ \A U \in SUBSET T : r \in U /\ ClosedIn(S, U) => U = T
<1>1. All \in SUBSET S /\ IsChain(All)
  <2>1. ClosedIn(S, All)
    BY DEF ClosedIn
  <2>2. ASSUME NEW U \in SUBSET All, r \in U, ClosedIn(S, U) PROVE U = All
    BY <2>2
  <2> QED BY <2>1, <2>2
<1>2. Chain(S, r) = CHOOSE T \in SUBSET S : IsChain(T)
  BY DEF Chain, ClosedIn, Confirmed
<1> HIDE DEF All
<1>3. Chain(S, r) \in SUBSET S /\ IsChain(Chain(S, r))
  BY <1>1, <1>2
<1>4. Joined(Chain(S, r))
  <2> DEFINE T == Chain(S, r)
  <2> SUFFICES ASSUME NEW X \in SUBSET T, X # {},
                      \A s \in X, t \in T : SharesId(s, t) => t \in X
               PROVE  X = T
    BY DEF Joined
  <2>1. \A s, t : SharesId(s, t) => SharesId(t, s)
    BY DEF SharesId
  <2>2. ClosedIn(S, T)
    BY <1>3
  <2>3. CASE r \in X
    <3>1. ClosedIn(S, X)
      BY <2>2 DEF ClosedIn, Confirmed
    <3> QED BY <1>3, <2>3, <3>1
  <2>4. CASE r \notin X
    <3>1. ClosedIn(S, T \ X)
      BY <2>1, <2>2 DEF ClosedIn, Confirmed
    <3>2. T \ X = T
      BY <1>3, <2>4, <3>1
    <3> QED BY <3>2
  <2> QED BY <2>3, <2>4
<1> QED BY <1>3, <1>4

\* A document of a group, with an id made of the code of one of its records.
Shaped(d) == d.recs \subseteq Present /\ Joined(d.recs) /\ \E f \in d.recs : d.id[1] = meta[f].code

Whole(r, S) ==
  /\ r \in S /\ \A s \in S : meta[s].year
  /\ \A s \in S, t \in Present : t \in S <=> SharesId(s, t)

LEMMA WholeIs ==
  /\ \A r : SeenWhole(r) <=> \E S \in SUBSET Present : Whole(r, S)
  /\ \A r, S, g : Whole(r, S) /\ Joined(g) /\ g \subseteq Present /\ g \cap S # {} => g \subseteq S
<1>1. ASSUME NEW r PROVE SeenWhole(r) <=> \E S \in SUBSET Present : Whole(r, S)
  BY DEF SeenWhole, Whole, SharesId
<1>2. ASSUME NEW r, NEW S, NEW g, Whole(r, S), Joined(g), g \subseteq Present, g \cap S # {}
      PROVE  g \subseteq S
  <2>1. \A s \in g \cap S, t \in g : SharesId(s, t) => t \in g \cap S
    BY <1>2 DEF Whole
  <2>2. g \cap S = g
    BY <1>2, <2>1 DEF Joined
  <2> QED BY <2>2
<1> QED BY <1>1, <1>2

LEMMA DocumentsAre ==
  ASSUME NEW asked, NEW S \in SUBSET Present
  PROVE  /\ \A e \in Documents(asked, S) : Shaped(e) /\ e.recs \subseteq S
         /\ \A e, f \in Documents(asked, S) : e.id = f.id => e = f
         /\ \A r \in S : SeenWhole(r) => \E e \in Documents(asked, S) : r \in e.recs
         /\ \A e \in Documents(asked, S) :
              /\ e = [id |-> e.id, recs |-> e.recs]
              /\ \E f \in e.recs : e.id \in {meta[f].code} \X SUBSET Recs
<1>1. Present \subseteq Recs /\ Recs \subseteq Nat
  BY IdentityAssumption DEF Present, Recs
<1>2. ASSUME NEW g \in Groups(S)
      PROVE  g \in SUBSET S /\ g # {} /\ Joined(g) /\ First(asked, g) \in g
  <2>1. PICK r \in S : g = Chain(S, r)
    BY DEF Groups
  <2>2. g \in SUBSET S /\ r \in g /\ Joined(g)
    BY <2>1, ChainIs
  <2> QED BY <1>1, <2>2, FirstIs
<1>3. ASSUME NEW g \in WithYear(asked, S)
      PROVE  /\ g \in SUBSET S /\ First(asked, g) \in g /\ Joined(g)
             /\ Named(asked, S, g) \in {<<meta[First(asked, g)].code, {}>>, <<meta[First(asked, g)].code, g>>}
  BY <1>2 DEF WithYear, Named, DocId
<1>4. ASSUME NEW e \in Documents(asked, S)
      PROVE  /\ Shaped(e) /\ e.recs \subseteq S /\ e = [id |-> e.id, recs |-> e.recs]
             /\ \E f \in e.recs : e.id \in {meta[f].code} \X SUBSET Recs
  <2>1. PICK g \in WithYear(asked, S) : e = [id |-> Named(asked, S, g), recs |-> g]
    BY DEF Documents
  <2>2. e.recs = g /\ e.id = Named(asked, S, g) /\ First(asked, g) \in g /\ g \in SUBSET Recs
    BY <1>1, <1>3, <2>1
  <2>3. e.id[1] = meta[First(asked, g)].code /\ e.id \in {meta[First(asked, g)].code} \X SUBSET Recs
    BY <1>3, <2>2
  <2> QED BY <1>3, <2>1, <2>2, <2>3 DEF Shaped
<1>5. ASSUME NEW e \in Documents(asked, S), NEW f \in Documents(asked, S), e.id = f.id
      PROVE  e = f
  <2>1. PICK g \in WithYear(asked, S) : e = [id |-> Named(asked, S, g), recs |-> g]
    BY DEF Documents
  <2>2. PICK h \in WithYear(asked, S) : f = [id |-> Named(asked, S, h), recs |-> h]
    BY DEF Documents
  <2>3. Named(asked, S, g) = Named(asked, S, h)
    BY <1>5, <2>1, <2>2
  <2> SUFFICES ASSUME g # h PROVE FALSE
    BY <2>1, <2>2
  <2>4. DocId(asked, g) = DocId(asked, h) /\ g # {} /\ h # {}
    BY <1>3, <2>3 DEF DocId
  <2>5. Named(asked, S, g) = <<DocId(asked, g), {}>> /\ Named(asked, S, h) = <<DocId(asked, g), {}>>
    BY <1>3, <2>3, <2>4 DEF DocId
  <2>6. Ahead(asked, g, h) /\ Ahead(asked, h, g)
    BY <2>4, <2>5 DEF Named
  <2>7. First(asked, g) \in Nat /\ First(asked, h) \in Nat
    BY <1>1, <1>3
  <2> QED BY <2>6, <2>7 DEF Ahead, Before
<1>6. ASSUME NEW r \in S, SeenWhole(r) PROVE \E e \in Documents(asked, S) : r \in e.recs
  <2>1. PICK W \in SUBSET Present : Whole(r, W)
    BY <1>6, WholeIs
  <2> DEFINE g == Chain(S, r)
  <2>2. g \in Groups(S) /\ r \in g
    BY ChainIs DEF Groups
  <2>3. g \subseteq W
    BY <1>2, <2>1, <2>2, WholeIs DEF Whole
  <2>4. meta[First(asked, g)].year
    BY <1>2, <2>1, <2>2, <2>3 DEF Whole
  <2>5. g \in WithYear(asked, S)
    BY <2>2, <2>4 DEF WithYear
  <2>6. [id |-> Named(asked, S, g), recs |-> g] \in Documents(asked, S)
    BY <2>5 DEF Documents
  <2> QED BY <2>2, <2>6
<1> QED BY <1>4, <1>5, <1>6

PipeState ==
  [at : {"free", "alias", "write", "public", "mark"}, asked : SUBSET Recs, all : SUBSET Recs,
   docs : SUBSET [id : Nat \X SUBSET Recs, recs : SUBSET Recs], skipped : SUBSET Nat]

IdentityTypes ==
  /\ meta \in [Recs -> Meta] /\ torn \subseteq Recs /\ stops \in 0 .. MaxStops
  /\ mark \in [Recs -> {"none", "pending", "failed", "success", "skipped"}]
  /\ \A d \in silverDocs :
       d.index \in 1 .. writeTo /\ d.id \in Nat \X SUBSET Recs /\ d.recs \subseteq Recs
  /\ writeTo \in 0 .. MaxIndex /\ publicTo \subseteq 1 .. writeTo /\ pipe \in PipeState
  /\ pipe.at \in {"write", "public"} => writeTo # 0

LEMMA IdentityConstants ==
  /\ MaxIndex \in Nat \ {0} /\ MaxStops \in Nat /\ Metas \subseteq Meta \ {NoMeta}
  /\ NoMeta \in Meta /\ NoRun \in PipeState /\ NoRun.at = "free"
<1>1. NoMeta \in Meta
  BY DEF NoMeta, Meta
<1>2. NoRun \in PipeState /\ NoRun.at = "free"
  BY DEF NoRun, PipeState
<1> QED BY <1>1, <1>2, IdentityAssumption

\* Records that have a row are there, and so are those of the run.
RowsAre ==
  /\ \A r \in Recs : mark[r] # "none" => r \in Present
  /\ pipe.asked \subseteq pipe.all /\ pipe.all \subseteq Present

LEMMA IdentityInitType == IdentityInit => IdentityTypes /\ RowsAre
<1> SUFFICES ASSUME IdentityInit PROVE IdentityTypes /\ RowsAre
  OBVIOUS
<1>1. 0 \in 0 .. MaxIndex /\ 0 \in 0 .. MaxStops
  BY IdentityConstants
<1>2. RowsAre
  BY DEF IdentityInit, RowsAre, NoRun
<1>3. pipe.at = "free" /\ pipe \in PipeState
  BY IdentityConstants DEF IdentityInit
<1>4. meta \in [Recs -> Meta] /\ mark \in [Recs -> {"none", "pending", "failed", "success", "skipped"}]
  BY IdentityConstants DEF IdentityInit
<1>5. writeTo = 0 /\ publicTo = {} /\ stops = 0 /\ torn = {} /\ silverDocs = {}
  BY DEF IdentityInit
<1>6. pipe.at \notin {"write", "public"}
  BY <1>3
<1>7. writeTo \in 0 .. MaxIndex /\ stops \in 0 .. MaxStops
  BY <1>1, <1>5
<1>8. publicTo \subseteq 1 .. writeTo /\ torn \subseteq Recs
  BY <1>5
<1> QED BY <1>2, <1>3, <1>4, <1>5, <1>6, <1>7, <1>8 DEF IdentityTypes

\* What writing some documents of the run does to the silver indices.
LEMMA WrittenIs ==
  ASSUME NEW old, NEW docs
  PROVE  /\ \A d \in Written(old, docs) :
              d \in old \/ \E e \in docs : d.index = writeTo /\ d.id = e.id /\ d.recs = e.recs
         /\ \A e \in docs : \E d \in Written(old, docs) :
              d.index = writeTo /\ d.id = e.id /\ d.recs = e.recs
         /\ \A d \in old : (\A e \in docs : d.id # e.id) => d \in Written(old, docs)
<1> DEFINE new == {[index |-> writeTo, id |-> e.id, recs |-> e.recs] : e \in docs}
<1>1. Written(old, docs) = {d \in old : \A e \in new : d.index # e.index \/ d.id # e.id} \cup new
  BY DEF Written
<1>2. ASSUME NEW d \in new
      PROVE  \E e \in docs : d.index = writeTo /\ d.id = e.id /\ d.recs = e.recs
  BY <1>2
<1>3. ASSUME NEW e \in docs
      PROVE  \E d \in new : d.index = writeTo /\ d.id = e.id /\ d.recs = e.recs
  <2>1. [index |-> writeTo, id |-> e.id, recs |-> e.recs] \in new
    OBVIOUS
  <2> QED BY <2>1
<1> HIDE DEF new
<1> QED BY <1>1, <1>2, <1>3

LEMMA IdentityNextType ==
  IdentityTypes /\ RowsAre /\ [IdentityNext]_identityVars => IdentityTypes'
<1> SUFFICES ASSUME IdentityTypes, RowsAre, [IdentityNext]_identityVars PROVE IdentityTypes'
  OBVIOUS
<1> USE DEF IdentityTypes
<1>1. ASSUME NEW r \in Recs, Reopen(r) PROVE IdentityTypes'
  BY <1>1 DEF Reopen
<1>2. ASSUME NEW r \in Recs, NEW m \in Metas, Arrive(r, m) PROVE IdentityTypes'
  BY <1>2, IdentityConstants DEF Arrive
<1>3. ASSUME NEW S \in SUBSET Recs, BeginRun(S) PROVE IdentityTypes'
  <2> DEFINE T == Expanded(S)
             docs == Documents(S, T)
             skipped == {DocId(S, g) : g \in Groups(T) \ WithYear(S, T)}
             begun == [at |-> "alias", asked |-> S, all |-> T, docs |-> docs, skipped |-> skipped]
  <2>1. T \in SUBSET Present /\ Present \subseteq Recs
    BY <1>3 DEF BeginRun, RowsAre, Expanded, Present
  <2>2. docs \subseteq [id : Nat \X SUBSET Recs, recs : SUBSET Recs]
    <3>1. ASSUME NEW e \in docs PROVE e \in [id : Nat \X SUBSET Recs, recs : SUBSET Recs]
      <4>1. /\ e = [id |-> e.id, recs |-> e.recs] /\ e.recs \subseteq Recs
            /\ \E f \in e.recs : e.id \in {meta[f].code} \X SUBSET Recs
        BY <2>1, DocumentsAre
      <4>2. \A f \in Recs : meta[f].code \in Nat
        BY DEF Meta
      <4>3. e.id \in Nat \X SUBSET Recs
        BY <4>1, <4>2
      <4> HIDE DEF docs
      <4> QED BY <4>1, <4>3
    <3> QED BY <3>1
  <2>3. skipped \subseteq Nat
    <3>1. ASSUME NEW g \in Groups(T) PROVE DocId(S, g) \in Nat
      <4>1. PICK r \in T : g = Chain(T, r)
        BY DEF Groups
      <4>2. First(S, g) \in Recs
        BY <2>1, <4>1, ChainIs, FirstIs
      <4> QED BY <4>2 DEF DocId, Meta
    <3> QED BY <3>1
  <2> HIDE DEF T, docs, skipped
  <2>4. begun \in PipeState /\ begun.at = "alias"
    BY <2>1, <2>2, <2>3 DEF PipeState
  <2>5. pipe' = begun
    BY <1>3 DEF BeginRun, T, docs, skipped
  <2> HIDE DEF begun
  <2> QED BY <1>3, <2>4, <2>5 DEF BeginRun
<1>4. ASSUME EnsureIndex PROVE IdentityTypes'
  <2> DEFINE next == [pipe EXCEPT !.at = IF pipe.docs = {} THEN "mark" ELSE "write"]
  <2>1. next \in PipeState /\ next.at = IF pipe.docs = {} THEN "mark" ELSE "write"
    BY DEF PipeState
  <2>2. pipe' = next
    BY <1>4 DEF EnsureIndex
  <2> HIDE DEF next
  <2>3. CASE UNCHANGED <<writeTo, publicTo>> /\ (pipe.docs = {} \/ writeTo # 0)
    BY <1>4, <2>1, <2>2, <2>3 DEF EnsureIndex
  <2>4. CASE writeTo = 0 /\ writeTo' = 1 /\ publicTo' = {1}
    <3>1. 1 .. writeTo = {} /\ writeTo' \in 0 .. MaxIndex /\ publicTo' \subseteq 1 .. writeTo'
      BY <2>4, IdentityConstants
    <3>2. silverDocs = {}
      BY <3>1
    <3> QED BY <1>4, <2>1, <2>2, <2>4, <3>1, <3>2 DEF EnsureIndex
  <2> QED BY <1>4, <2>3, <2>4 DEF EnsureIndex
\* Documents are written to the index the alias stands for.
<1>5. ASSUME NEW D \in SUBSET pipe.docs, pipe.at = "write", UNCHANGED writeTo,
             silverDocs' = Written(silverDocs, D)
      PROVE  \A d \in silverDocs' :
               d.index \in 1 .. writeTo' /\ d.id \in Nat \X SUBSET Recs /\ d.recs \subseteq Recs
  <2>1. writeTo \in 1 .. writeTo
    BY <1>5
  <2>2. \A e \in D : e.id \in Nat \X SUBSET Recs /\ e.recs \subseteq Recs
    BY DEF PipeState
  <2> QED BY <1>5, <2>1, <2>2, WrittenIs
<1>6. ASSUME NEW D \in SUBSET pipe.docs, WriteChunk(D) PROVE IdentityTypes'
  <2> DEFINE rest == [pipe EXCEPT !.docs = @ \ D]
  <2>1. rest \in PipeState /\ rest.at = pipe.at
    BY DEF PipeState
  <2>2. pipe' = rest /\ pipe.at = "write"
    BY <1>6 DEF WriteChunk, IsChunk
  <2> HIDE DEF rest
  <2> QED BY <1>5, <1>6, <2>1, <2>2 DEF WriteChunk
<1>7. ASSUME NEW status \in {"failed", "pending"}, StopAs(status)
      PROVE  /\ stops' \in 0 .. MaxStops /\ pipe' = NoRun /\ torn' \subseteq Recs
             /\ mark' \in [Recs -> {"none", "pending", "failed", "success", "skipped"}]
  BY <1>7, IdentityConstants DEF StopAs, PipeState
<1>8. ASSUME NEW D \in SUBSET pipe.docs, NEW E \in SUBSET D, RefuseChunk(D, E) PROVE IdentityTypes'
  <2>1. pipe.at = "write" /\ E \in SUBSET pipe.docs
    BY <1>8 DEF RefuseChunk, IsChunk
  <2> QED BY <1>5, <1>7, <1>8, <2>1, IdentityConstants DEF RefuseChunk
<1>9. ASSUME NEW rolled \in BOOLEAN, RollOver(rolled) PROVE IdentityTypes'
  <2> DEFINE next == [pipe EXCEPT !.at = IF rolled /\ writeTo < MaxIndex THEN "public" ELSE "mark"]
  <2>1. next \in PipeState /\ next.at = IF rolled /\ writeTo < MaxIndex THEN "public" ELSE "mark"
    BY DEF PipeState
  <2>2. pipe' = next
    BY <1>9 DEF RollOver
  <2> HIDE DEF next
  <2>3. CASE /\ rolled /\ writeTo < MaxIndex
             /\ writeTo' = writeTo + 1 /\ publicTo' = publicTo \cup {writeTo + 1}
    <3>1. /\ writeTo' \in 0 .. MaxIndex /\ publicTo' \subseteq 1 .. writeTo' /\ writeTo' # 0
          /\ 1 .. writeTo \subseteq 1 .. writeTo'
      <4>1. writeTo \in Nat /\ MaxIndex \in Nat /\ writeTo < MaxIndex /\ writeTo' = writeTo + 1
        BY <2>3, IdentityConstants
      <4>2. writeTo' \in 0 .. MaxIndex /\ writeTo' # 0 /\ 1 .. writeTo \subseteq 1 .. writeTo'
        BY <4>1
      <4>3. publicTo \subseteq 1 .. writeTo /\ publicTo' = publicTo \cup {writeTo'}
        BY <2>3
      <4>4. writeTo' \in 1 .. writeTo'
        BY <4>1
      <4>5. publicTo' \subseteq 1 .. writeTo'
        BY <4>2, <4>3, <4>4
      <4> QED BY <4>2, <4>5
    <3> QED BY <1>9, <2>1, <2>2, <3>1 DEF RollOver
  <2>4. CASE ~(rolled /\ writeTo < MaxIndex) /\ UNCHANGED <<writeTo, publicTo>>
    BY <1>9, <2>1, <2>2, <2>4 DEF RollOver
  <2> QED BY <1>9, <2>3, <2>4 DEF RollOver
<1>10. ASSUME AddAlias PROVE IdentityTypes'
  <2> DEFINE next == [pipe EXCEPT !.at = "mark"]
  <2>1. next \in PipeState /\ next.at = "mark"
    BY DEF PipeState
  <2>2. pipe' = next /\ writeTo \in 1 .. writeTo
    BY <1>10 DEF AddAlias
  <2> HIDE DEF next
  <2> QED BY <1>10, <2>1, <2>2 DEF AddAlias
<1>11. ASSUME MarkItems PROVE IdentityTypes'
  BY <1>11, IdentityConstants DEF MarkItems
<1>12. ASSUME RunStops PROVE IdentityTypes'
  BY <1>7, <1>12, IdentityConstants DEF RunStops
<1>13. CASE UNCHANGED identityVars
  BY <1>13 DEF identityVars
<1> QED BY <1>1, <1>2, <1>3, <1>4, <1>6, <1>8, <1>9, <1>10, <1>11, <1>12, <1>13 DEF IdentityNext

LEMMA IdentityNextRows ==
  IdentityTypes /\ RowsAre /\ [IdentityNext]_identityVars => RowsAre'
<1> SUFFICES ASSUME IdentityTypes, RowsAre, [IdentityNext]_identityVars PROVE RowsAre'
  OBVIOUS
<1>1. ASSUME NEW r \in Recs, NEW m \in Metas, Arrive(r, m) PROVE RowsAre'
  <2>1. Present \subseteq Present' /\ r \in Present'
    BY <1>1, IdentityConstants DEF Arrive, IdentityTypes, Present
  <2> QED BY <1>1, <2>1 DEF Arrive, IdentityTypes, RowsAre
<1>2. ASSUME UNCHANGED meta PROVE Present' = Present
  BY <1>2 DEF Present
<1>3. ASSUME NEW r \in Recs, Reopen(r) PROVE RowsAre'
  BY <1>2, <1>3 DEF Reopen, IdentityTypes, RowsAre
<1>4. ASSUME NEW S \in SUBSET Recs, BeginRun(S) PROVE RowsAre'
  BY <1>2, <1>4 DEF BeginRun, RowsAre, Expanded
<1>5. ASSUME \/ EnsureIndex \/ AddAlias \/ \E rolled \in BOOLEAN : RollOver(rolled)
             \/ \E D \in SUBSET pipe.docs : WriteChunk(D)
      PROVE  RowsAre'
  <2>1. pipe'.asked = pipe.asked /\ pipe'.all = pipe.all /\ UNCHANGED <<meta, mark>>
    BY <1>5 DEF EnsureIndex, AddAlias, RollOver, WriteChunk, IdentityTypes, PipeState
  <2> QED BY <1>2, <2>1 DEF RowsAre
<1>6. ASSUME \/ MarkItems \/ RunStops
             \/ \E D \in SUBSET pipe.docs : \E E \in SUBSET D : RefuseChunk(D, E)
      PROVE  RowsAre'
  <2>1. /\ UNCHANGED meta /\ pipe'.asked = {} /\ pipe'.all = {}
        /\ \A r \in Recs : r \in pipe.asked \/ mark'[r] = mark[r]
    BY <1>6 DEF MarkItems, RunStops, RefuseChunk, StopAs, NoRun
  <2> QED BY <1>2, <2>1 DEF RowsAre
<1>7. CASE UNCHANGED identityVars
  BY <1>2, <1>7 DEF identityVars, RowsAre
<1> QED BY <1>1, <1>3, <1>4, <1>5, <1>6, <1>7 DEF IdentityNext

\* Records, rows, documents, the indices behind the aliases and the run always have the
\* form the code gives them, and a document is in an index there is
\* (OpenSearchETLPipeline).
THEOREM IdentityTypeCorrect == IdentitySpec => []IdentityTypeOK
<1>1. IdentityTypes => IdentityTypeOK
  BY DEF IdentityTypes, IdentityTypeOK, PipeState
<1> QED BY <1>1, IdentityInitType, IdentityNextType, IdentityNextRows, PTL DEF IdentitySpec

\* The aliases: writes go to an index that searches reach.
AliasInv ==
  /\ IF writeTo = 0 THEN publicTo = {} ELSE writeTo \in publicTo
  /\ \A d \in silverDocs : d.index \in publicTo

LEMMA IdentityNextAlias ==
  IdentityTypes /\ AliasInv /\ [IdentityNext]_identityVars => AliasInv'
<1> SUFFICES ASSUME IdentityTypes, AliasInv, [IdentityNext]_identityVars PROVE AliasInv'
  OBVIOUS
<1>1. CASE UNCHANGED <<silverDocs, writeTo, publicTo>>
  BY <1>1 DEF AliasInv
<1>2. ASSUME NEW D \in SUBSET pipe.docs, silverDocs' = Written(silverDocs, D),
             UNCHANGED <<writeTo, publicTo>>, pipe.at = "write"
      PROVE  AliasInv'
  <2>1. writeTo # 0 /\ writeTo \in publicTo
    BY <1>2 DEF IdentityTypes, AliasInv
  <2> QED BY <1>2, <2>1, WrittenIs DEF AliasInv
<1>3. CASE EnsureIndex
  BY <1>1, <1>3 DEF EnsureIndex, AliasInv, IdentityTypes
<1>4. ASSUME NEW rolled \in BOOLEAN, RollOver(rolled) PROVE AliasInv'
  <2>1. writeTo + 1 # 0
    BY DEF IdentityTypes
  <2> QED BY <1>1, <1>4, <2>1 DEF RollOver, AliasInv
<1>5. CASE AddAlias
  BY <1>5 DEF AddAlias, AliasInv, IdentityTypes
<1>6. ASSUME NEW D \in SUBSET pipe.docs,
             WriteChunk(D) \/ \E E \in SUBSET D : RefuseChunk(D, E)
      PROVE  AliasInv'
  <2>1. PICK E \in SUBSET pipe.docs : silverDocs' = Written(silverDocs, E)
    BY <1>6 DEF WriteChunk, RefuseChunk
  <2> QED BY <1>2, <1>6, <2>1 DEF WriteChunk, RefuseChunk, IsChunk
<1>7. CASE /\ ~EnsureIndex /\ ~AddAlias /\ ~\E rolled \in BOOLEAN : RollOver(rolled)
           /\ ~\E D \in SUBSET pipe.docs : WriteChunk(D) \/ \E E \in SUBSET D : RefuseChunk(D, E)
  BY <1>1, <1>7 DEF IdentityNext, identityVars, Reopen, Arrive, BeginRun, RunStops, MarkItems
<1> QED BY <1>3, <1>4, <1>5, <1>6, <1>7

\* Nothing is written to an index that searches do not reach, wherever a run or a
\* rollover is cut off (ensure_rollover_index, rollover).
THEOREM WrittenDocumentsArePublic == IdentitySpec => []WrittenIsPublic
<1>1. IdentityInit => AliasInv
  BY DEF IdentityInit, AliasInv
<1>2. AliasInv => WrittenIsPublic
  BY DEF AliasInv, WrittenIsPublic
<1> QED BY <1>1, <1>2, IdentityInitType, IdentityNextType, IdentityNextRows, IdentityNextAlias, PTL
        DEF IdentitySpec

\* The run has loaded every record that shares an identifier with one it was asked for, but
\* for those that have come since, and no other; its documents have ids of their own.  A
\* record it has loaded is in a document still to be written, or in one that none of those
\* will overwrite.
Loaded ==
  /\ \A s \in pipe.all : \E a \in pipe.asked : SharesId(a, s)
  /\ \A a \in pipe.asked, s \in Present : SharesId(a, s) => s \in pipe.all \/ mark[s] = "pending"
  /\ \A e \in pipe.docs : Shaped(e) /\ e.recs \subseteq pipe.all
  /\ \A e, f \in pipe.docs : e.id = f.id => e = f
  /\ pipe.at \in {"free", "public", "mark"} => pipe.docs = {}
  /\ pipe.at = "free" => pipe.all = {}
Kept ==
  \A r \in pipe.all : SeenWhole(r) =>
    \/ \E e \in pipe.docs : r \in e.recs
    \/ \E d \in silverDocs : r \in d.recs /\ \A e \in pipe.docs : d.id # e.id
Found ==
  /\ \A d \in silverDocs : Shaped(d)
  /\ \A r \in Recs \ (torn \cup pipe.all) :
       mark[r] = "success" /\ SeenWhole(r) => \E d \in silverDocs : r \in d.recs
SearchInv == Loaded /\ Kept /\ Found

\* Documents with one id are of records that lead to each other: if the run overwrites the
\* document of a record, it has loaded the record.
LEMMA OverwrittenIsLoaded ==
  ASSUME Loaded, Found, RowsAre, NEW d \in silverDocs, NEW e \in pipe.docs, d.id = e.id,
         NEW r \in d.recs, SeenWhole(r), mark[r] # "pending"
  PROVE  r \in pipe.all
<1>1. PICK W \in SUBSET Present : Whole(r, W)
  BY WholeIs
<1>2. PICK f \in d.recs, g \in e.recs : meta[f].code = meta[g].code
  BY DEF Loaded, Found, Shaped
<1>3. d.recs \subseteq W /\ r \in Present
  BY <1>1, WholeIs DEF Found, Shaped, Whole
<1>4. g \in pipe.all /\ g \in Present
  BY DEF Loaded, RowsAre
<1>5. g \in W
  BY <1>1, <1>2, <1>3, <1>4 DEF Whole, SharesId
<1>6. PICK a \in pipe.asked : SharesId(a, g) /\ a \in Present
  BY <1>4 DEF Loaded, RowsAre
<1>7. SharesId(g, a) /\ a \in W
  BY <1>1, <1>5, <1>6 DEF Whole, SharesId
<1>8. SharesId(a, r)
  BY <1>1, <1>3, <1>7 DEF Whole
<1> QED BY <1>3, <1>8 DEF Loaded

\* Records that come later take nothing from what was known of those there are.
LEMMA LaterRecords ==
  ASSUME IdentityTypes, NEW r \in Recs, NEW m \in Metas, Arrive(r, m)
  PROVE  /\ Present' = Present \cup {r} /\ r \notin Present
         /\ \A s, t \in Present : SharesId(s, t)' = SharesId(s, t)
         /\ \A d : Shaped(d) => Shaped(d)'
         /\ \A s \in Present : SeenWhole(s)' => SeenWhole(s)
<1>1. /\ Present' = Present \cup {r} /\ r \notin Present /\ \A s \in Present : meta'[s] = meta[s]
  BY IdentityConstants DEF Arrive, IdentityTypes, Present
<1>2. \A s, t \in Present : SharesId(s, t)' = SharesId(s, t)
  BY <1>1 DEF SharesId
<1>3. ASSUME NEW d, Shaped(d) PROVE Shaped(d)'
  BY <1>1, <1>2, <1>3 DEF Shaped, Joined
<1>4. ASSUME NEW s \in Present, SeenWhole(s)' PROVE SeenWhole(s)
  <2>1. PICK S \in SUBSET Present' :
          /\ s \in S /\ \A t \in S : meta'[t].year
          /\ \A t \in S, u \in Present' : u \in S <=> SharesId(t, u)'
    BY <1>4 DEF SeenWhole, SharesId
  <2> DEFINE W == S \cap Present
  <2>2. s \in W /\ W \in SUBSET Present /\ \A t \in W : meta[t].year
    BY <1>1, <2>1
  <2>3. \A t \in W, u \in Present : u \in W <=> SharesId(t, u)
    BY <1>1, <1>2, <2>1
  <2> HIDE DEF W
  <2> QED BY <2>2, <2>3, WholeIs DEF Whole
<1> QED BY <1>1, <1>2, <1>3, <1>4

LEMMA SameRecords ==
  ASSUME UNCHANGED meta
  PROVE  /\ Present' = Present /\ \A s, t : SharesId(s, t)' = SharesId(s, t)
         /\ \A d : Shaped(d)' = Shaped(d) /\ \A s : SeenWhole(s)' = SeenWhole(s)
<1>1. Present' = Present /\ \A s, t : SharesId(s, t)' = SharesId(s, t)
  BY DEF Present, SharesId
<1>2. \A g : Joined(g)' = Joined(g)
  BY <1>1 DEF Joined
<1>3. ASSUME NEW d PROVE Shaped(d)' = Shaped(d)
  BY <1>1, <1>2 DEF Shaped
<1>4. ASSUME NEW s PROVE SeenWhole(s)' = SeenWhole(s)
  BY <1>1 DEF SeenWhole
<1> QED BY <1>1, <1>3, <1>4

LEMMA IdentityNextSearch ==
  IdentityTypes /\ RowsAre /\ SearchInv /\ [IdentityNext]_identityVars => SearchInv'
<1> SUFFICES ASSUME IdentityTypes, RowsAre, SearchInv, [IdentityNext]_identityVars
             PROVE  SearchInv'
  OBVIOUS
<1> USE DEF SearchInv
<1>1. ASSUME NEW r \in Recs, Reopen(r) PROVE SearchInv'
  <2>1. /\ UNCHANGED <<meta, silverDocs, pipe, torn>> /\ mark' = [mark EXCEPT ![r] = "pending"]
    BY <1>1 DEF Reopen
  <2>2. \A s \in Recs : mark'[s] = mark[s] \/ (s = r /\ mark'[s] = "pending")
    BY <2>1 DEF IdentityTypes
  <2>3. Present \subseteq Recs
    BY DEF Present
  <2>4. Loaded'
    BY <2>1, <2>2, <2>3, SameRecords DEF Loaded
  <2>5. Kept' /\ Found'
    BY <2>1, <2>2, SameRecords DEF Kept, Found
  <2> QED BY <2>4, <2>5
<1>2. ASSUME NEW r \in Recs, NEW m \in Metas, Arrive(r, m) PROVE SearchInv'
  <2>1. /\ UNCHANGED <<silverDocs, pipe, torn>>
        /\ mark'[r] = "pending" /\ \A s \in Recs \ {r} : mark'[s] = mark[s]
    BY <1>2 DEF Arrive, IdentityTypes
  <2>2. Present' = Present \cup {r} /\ r \notin Present /\ Present \subseteq Recs
    BY <1>2, LaterRecords DEF Present
  <2>3. pipe.asked \subseteq Present /\ pipe.all \subseteq Present
    BY DEF RowsAre
  <2>4. Loaded'
    BY <1>2, <2>1, <2>2, <2>3, LaterRecords DEF Loaded
  <2>5. Kept'
    BY <1>2, <2>1, <2>3, LaterRecords DEF Kept
  <2>6. Found'
    <3>1. ASSUME NEW s \in Recs, mark'[s] = "success" PROVE mark[s] = "success" /\ s \in Present
      BY <2>1, <3>1 DEF RowsAre
    <3> QED BY <1>2, <2>1, <3>1, LaterRecords DEF Found
  <2> QED BY <2>4, <2>5, <2>6
<1>3. ASSUME NEW S \in SUBSET Recs, BeginRun(S) PROVE SearchInv'
  <2>1. PICK T : T = Expanded(S)
    OBVIOUS
  <2>2. PICK docs : docs = Documents(S, T)
    OBVIOUS
  <2>3. /\ UNCHANGED <<meta, mark, silverDocs, torn>> /\ pipe.at = "free"
        /\ pipe'.at = "alias" /\ pipe'.asked = S /\ pipe'.all = T /\ pipe'.docs = docs
    BY <1>3, <2>1, <2>2 DEF BeginRun
  <2>4. S \subseteq Present /\ T \in SUBSET Present
    BY <1>3, <2>1 DEF BeginRun, RowsAre, Expanded, Present
  <2>5. /\ \A s \in T : \E a \in S : SharesId(a, s)
        /\ \A a \in S, s \in Present : SharesId(a, s) => s \in T
    BY <2>1 DEF Expanded, SharesId
  <2>6. /\ \A e \in docs : Shaped(e) /\ e.recs \subseteq T
        /\ \A e, f \in docs : e.id = f.id => e = f
        /\ \A r \in T : SeenWhole(r) => \E e \in docs : r \in e.recs
    BY <2>2, <2>4, DocumentsAre
  <2>7. Loaded'
    BY <2>3, <2>5, <2>6, SameRecords DEF Loaded
  <2>8. Kept'
    BY <2>3, <2>6, SameRecords DEF Kept
  <2>9. Found'
    BY <2>3, SameRecords DEF Found, Loaded
  <2> QED BY <2>7, <2>8, <2>9
<1>4. ASSUME EnsureIndex \/ AddAlias \/ \E rolled \in BOOLEAN : RollOver(rolled)
      PROVE  SearchInv'
  <2>1. /\ UNCHANGED <<meta, mark, silverDocs, torn>> /\ pipe'.docs = pipe.docs
        /\ pipe'.asked = pipe.asked /\ pipe'.all = pipe.all
        /\ pipe'.at # "free" /\ (pipe'.at \in {"public", "mark"} => pipe.docs = {})
    BY <1>4 DEF EnsureIndex, AddAlias, RollOver, IdentityTypes, PipeState, Loaded
  <2>2. Loaded'
    BY <2>1, SameRecords DEF Loaded
  <2>3. Kept' /\ Found'
    BY <2>1, SameRecords DEF Kept, Found
  <2> QED BY <2>2, <2>3
\* What the run writes are documents too, and what it overwrites is of records it has loaded.
<1>5. ASSUME NEW D \in SUBSET pipe.docs, silverDocs' = Written(silverDocs, D), UNCHANGED meta
      PROVE  /\ \A d \in silverDocs' : Shaped(d)'
             /\ \A r \in Recs \ (torn \cup pipe.all) : mark[r] = "success" /\ SeenWhole(r)
                  => \E d \in silverDocs' : r \in d.recs
  <2>1. ASSUME NEW d \in silverDocs' PROVE Shaped(d)'
    <3>1. CASE d \in silverDocs
      BY <1>5, <3>1, SameRecords DEF Found
    <3>2. CASE \E e \in D : d.id = e.id /\ d.recs = e.recs
      <4>1. Shaped(d)
        BY <3>2 DEF Loaded, Shaped
      <4> QED BY <1>5, <4>1, SameRecords
    <3> QED BY <1>5, <3>1, <3>2, WrittenIs
  <2>2. ASSUME NEW r \in Recs \ (torn \cup pipe.all), mark[r] = "success", SeenWhole(r)
        PROVE  \E d \in silverDocs' : r \in d.recs
    <3>1. PICK d \in silverDocs : r \in d.recs
      BY <2>2 DEF Found
    <3>2. \A e \in D : d.id # e.id
      BY <2>2, <3>1, OverwrittenIsLoaded
    <3> QED BY <1>5, <3>1, <3>2, WrittenIs
  <2> QED BY <2>1, <2>2
<1>6. ASSUME NEW D \in SUBSET pipe.docs, WriteChunk(D) PROVE SearchInv'
  <2>1. /\ UNCHANGED <<meta, mark, torn>> /\ silverDocs' = Written(silverDocs, D)
        /\ pipe'.docs = pipe.docs \ D /\ pipe'.asked = pipe.asked /\ pipe'.all = pipe.all
        /\ pipe'.at = "write"
    BY <1>6 DEF WriteChunk, IsChunk, IdentityTypes, PipeState
  <2>2. Loaded'
    BY <2>1, SameRecords DEF Loaded
  <2>3. Found'
    BY <1>5, <2>1, SameRecords DEF Found
  <2>4. ASSUME NEW r \in pipe.all, SeenWhole(r)
        PROVE  \/ \E e \in pipe.docs \ D : r \in e.recs
               \/ \E d \in silverDocs' : r \in d.recs /\ \A e \in pipe.docs \ D : d.id # e.id
    <3>1. CASE \E d \in silverDocs : r \in d.recs /\ \A e \in pipe.docs : d.id # e.id
      BY <2>1, <3>1, WrittenIs
    <3>2. ASSUME NEW e \in D, r \in e.recs
          PROVE  \E d \in silverDocs' : r \in d.recs /\ \A f \in pipe.docs \ D : d.id # f.id
      <4>1. PICK d \in silverDocs' : d.id = e.id /\ d.recs = e.recs
        BY <2>1, WrittenIs
      <4>2. \A f \in pipe.docs \ D : e.id # f.id
        BY DEF Loaded
      <4> QED BY <3>2, <4>1, <4>2
    <3> QED BY <2>4, <3>1, <3>2 DEF Kept
  <2>5. Kept'
    BY <2>1, <2>4, SameRecords DEF Kept
  <2> QED BY <2>2, <2>3, <2>5
<1>7. ASSUME pipe' = NoRun, UNCHANGED meta PROVE Loaded' /\ Kept'
  <2>1. pipe'.at = "free" /\ pipe'.asked = {} /\ pipe'.all = {} /\ pipe'.docs = {}
    BY <1>7 DEF NoRun
  <2> QED BY <2>1 DEF Loaded, Kept
\* A run that stops leaves what it has loaded torn.
<1>8. ASSUME NEW status \in {"failed", "pending"}, StopAs(status), UNCHANGED meta,
             \/ UNCHANGED silverDocs
             \/ \E D \in SUBSET pipe.docs : silverDocs' = Written(silverDocs, D)
      PROVE  SearchInv'
  <2>1. pipe' = NoRun /\ torn' = torn \cup pipe.all /\ pipe'.all = {}
        /\ \A r \in Recs : mark'[r] = "success" => mark[r] = "success"
    BY <1>8 DEF StopAs, NoRun
  <2>2. \A d \in silverDocs' : Shaped(d)'
    BY <1>5, <1>8, SameRecords DEF Found
  <2>3. \A r \in Recs \ (torn \cup pipe.all) : mark[r] = "success" /\ SeenWhole(r)
          => \E d \in silverDocs' : r \in d.recs
    BY <1>5, <1>8 DEF Found
  <2>4. Found'
    BY <1>8, <2>1, <2>2, <2>3, SameRecords DEF Found
  <2> QED BY <1>7, <1>8, <2>1, <2>4
<1>9. ASSUME RunStops \/ \E D \in SUBSET pipe.docs : \E E \in SUBSET D : RefuseChunk(D, E)
      PROVE  SearchInv'
  BY <1>8, <1>9 DEF RunStops, RefuseChunk
\* Once it is through, every record it has loaded is in a document.
<1>10. ASSUME MarkItems PROVE SearchInv'
  <2>1. /\ UNCHANGED <<meta, silverDocs>> /\ pipe' = NoRun /\ torn' = torn \ pipe.all
        /\ pipe.at = "mark" /\ pipe'.all = {} /\ pipe.docs = {}
        /\ \A r \in Recs : r \in pipe.asked \/ mark'[r] = mark[r]
    BY <1>10 DEF MarkItems, NoRun, Loaded
  <2>2. \A r \in pipe.all : SeenWhole(r) => \E d \in silverDocs : r \in d.recs
    BY <2>1 DEF Kept
  <2>3. Found'
    BY <2>1, <2>2, SameRecords DEF Found, RowsAre
  <2> QED BY <1>7, <2>1, <2>3
<1>11. CASE UNCHANGED identityVars
  <2>1. UNCHANGED <<meta, mark, silverDocs, pipe, torn>>
    BY <1>11 DEF identityVars
  <2> QED BY <2>1, SameRecords DEF Loaded, Kept, Found
<1> QED BY <1>1, <1>2, <1>3, <1>4, <1>6, <1>9, <1>10, <1>11 DEF IdentityNext

\* A record whose row is a success is in a document that users can search, whatever runs
\* load it afterwards and however those group it, name its document, overwrite it and fail,
\* provided that its identifiers lead only to records with a year, each in one step, and
\* that no run has it loaded or has failed on it (run, _expand_scielo_input_context,
\* _prepare_silver_index_documents).
THEOREM SuccessesAreSearchable == IdentitySpec => []SuccessIsSearchable
<1>1. IdentityInit => SearchInv
  <2> SUFFICES ASSUME IdentityInit PROVE SearchInv
    OBVIOUS
  <2>1. /\ pipe.all = {} /\ pipe.docs = {} /\ pipe.asked = {} /\ silverDocs = {}
        /\ \A r \in Recs : mark[r] # "success"
    BY DEF IdentityInit, NoRun
  <2> QED BY <2>1 DEF SearchInv, Loaded, Kept, Found
<1>2. SearchInv /\ AliasInv => SuccessIsSearchable
  BY DEF SearchInv, Found, AliasInv, SuccessIsSearchable
<1>3. IdentityInit => AliasInv
  BY DEF IdentityInit, AliasInv
<1> QED BY <1>1, <1>2, <1>3, IdentityInitType, IdentityNextType, IdentityNextRows,
           IdentityNextAlias, IdentityNextSearch, PTL DEF IdentitySpec

(***************************************************************************)
(* GlobalMetrics: the metrics in the silver documents                      *)
(***************************************************************************)

Files == Versions \cup {0}
TaskState == [at : {"free", "index"}, file : Files, name : Names, todo : SUBSET Lines]
ApplyState ==
  [at : {"free", "apply", "update"}, name : Names, todo : SUBSET (Lines \X Versions),
   line : Lines, conflict : BOOLEAN]

Document == [there : BOOLEAN, indexed_in : SUBSET Versions, country : Files]

MetricsTypes ==
  /\ upload \in [file : Versions, name : Names, status : BOOLEAN] /\ queued \in BOOLEAN
  /\ task \in [Workers -> TaskState] /\ harvest \in [Lines -> [file : Files, name : Names]]
  /\ {rejected, late, reported} \subseteq SUBSET Lines /\ apply \in ApplyState
  /\ silver \in [Lines -> Document]
  /\ batch \in [at : {"free", "write"}, line : Lines, file : Files]
  /\ raced \in BOOLEAN /\ applied \in {"no", "begun", "ended"}
  /\ apply.at = "update" => \E t \in apply.todo : t[1] = apply.line
  /\ \A t, u \in apply.todo : t[1] = u[1] => t = u

LEMMA MetricsConstants ==
  /\ Versions \subseteq Nat \ {0} /\ 1 \in Versions
  /\ \A v \in Versions : v < LastVersion => v + 1 \in Versions
  /\ \A v \in Versions : Contents[v] \subseteq Lines
  /\ NoSilver \in Document /\ AName \in Names /\ ALine \in Lines /\ NoTask \in TaskState /\ NoApply \in ApplyState
  /\ NoBatch \in [at : {"free", "write"}, line : Lines, file : Files]
<1>1. PICK last \in Versions : last \in Nat /\ Versions = 1 .. last
  BY MetricsAssumption
<1>2. LastVersion = last
  <2>1. \A v \in Versions : v <= last /\ v \in Nat
    BY <1>1
  <2>2. LastVersion \in Versions /\ \A w \in Versions : w <= LastVersion
    BY <1>1, <2>1 DEF LastVersion
  <2> QED BY <1>1, <2>1, <2>2
<1>3. AName \in Names /\ ALine \in Lines
  BY MetricsAssumption DEF AName, ALine
<1>4. Versions \subseteq Nat \ {0} /\ 1 \in Versions
      /\ \A v \in Versions : v < LastVersion => v + 1 \in Versions
  BY <1>1, <1>2
<1>5. NoTask \in TaskState
  BY <1>3 DEF NoTask, TaskState, Files
<1>6. NoApply \in ApplyState
  BY <1>3 DEF NoApply, ApplyState
<1>7. NoBatch \in [at : {"free", "write"}, line : Lines, file : Files]
  BY <1>3 DEF NoBatch, Files
<1>8. NoSilver \in Document
  BY DEF NoSilver, Document, Files
<1> QED BY <1>3, <1>4, <1>5, <1>6, <1>7, <1>8, MetricsAssumption

\* What the update and the pipeline write are documents.
LEMMA MetricDocuments ==
  ASSUME NEW doc \in Document, NEW l, NEW v \in Versions, NEW f \in Files
  PROVE  /\ Scripted(doc, l, v) \in Document /\ WithMetric(l, f) \in Document
         /\ v \in Scripted(doc, l, v).indexed_in
         /\ l \notin Unresolved[v] => Scripted(doc, l, v).country = v
         /\ f # 0 => f \in WithMetric(l, f).indexed_in
         /\ f # 0 /\ l \notin Unresolved[f] => WithMetric(l, f).country = f
<1>1. Scripted(doc, l, v) \in Document
  BY DEF Scripted, Document, Files
<1>2. WithMetric(l, f) \in Document
  BY DEF WithMetric, Document, Files
<1>3. /\ v \in Scripted(doc, l, v).indexed_in
      /\ l \notin Unresolved[v] => Scripted(doc, l, v).country = v
  BY DEF Scripted, Document
<1> QED BY <1>1, <1>2, <1>3 DEF WithMetric

LEMMA MetricsInitType == MetricsInit => MetricsTypes
<1> SUFFICES ASSUME MetricsInit PROVE MetricsTypes
  OBVIOUS
<1>1. NotIndexed \in [file : Files, name : Names]
  BY MetricsConstants DEF NotIndexed, Files
<1>2. upload \in [file : Versions, name : Names, status : BOOLEAN]
  BY MetricsConstants DEF MetricsInit
<1>3. apply.at = "free" /\ apply.todo = {}
  BY DEF MetricsInit, NoApply
<1> QED BY <1>1, <1>2, <1>3, MetricsConstants DEF MetricsInit, MetricsTypes

LEMMA MetricsNextType == MetricsTypes /\ [MetricsNext]_metricsVars => MetricsTypes'
<1> SUFFICES ASSUME MetricsTypes, [MetricsNext]_metricsVars PROVE MetricsTypes'
  OBVIOUS
<1> USE DEF MetricsTypes
<1>1. ASSUME NEW name \in Names, Upload(name) PROVE MetricsTypes'
  <2>1. upload.file + 1 \in Versions
    BY <1>1, MetricsConstants DEF Upload
  <2> QED BY <1>1, <2>1 DEF Upload
<1>2. ASSUME NEW w \in Workers, TakeTask(w) PROVE MetricsTypes'
  <2>1. [at |-> "index", file |-> upload.file, name |-> upload.name,
         todo |-> Contents[upload.file]] \in TaskState
    BY MetricsConstants DEF TaskState, Files
  <2>2. task' \in [Workers -> TaskState]
    BY <1>2, <2>1 DEF TakeTask
  <2> QED BY <1>2, <2>2 DEF TakeTask
<1>3. ASSUME NEW w \in Workers, NEW l \in Lines, IndexLine(w, l) PROVE MetricsTypes'
  <2>1. task[w] \in TaskState /\ [task[w] EXCEPT !.todo = @ \ {l}] \in TaskState
    BY DEF TaskState
  <2>2. task' = [task EXCEPT ![w] = [task[w] EXCEPT !.todo = @ \ {l}]]
    BY <1>3 DEF IndexLine
  <2>3. task' \in [Workers -> TaskState]
    BY <2>1, <2>2
  <2>4. [file |-> task[w].file, name |-> task[w].name] \in [file : Files, name : Names]
    BY <2>1 DEF TaskState
  <2>5. harvest' \in [Lines -> [file : Files, name : Names]]
    BY <1>3, <2>4 DEF IndexLine
  <2> QED BY <1>3, <2>3, <2>5 DEF IndexLine
<1>4. ASSUME NEW w \in Workers, TaskFails(w) PROVE MetricsTypes'
  BY <1>4, MetricsConstants DEF TaskFails
<1>5. ASSUME NEW w \in Workers, MarkProcessed(w) PROVE MetricsTypes'
  <2>1. upload' \in [file : Versions, name : Names, status : BOOLEAN]
    BY <1>5 DEF MarkProcessed
  <2> QED BY <1>5, <2>1, MetricsConstants DEF MarkProcessed
<1>6. ASSUME StartApply PROVE MetricsTypes'
  <2> DEFINE todo == {<<l, harvest[l].file>> : l \in LinesOf(upload.name)}
             start == [NoApply EXCEPT !.at = "apply", !.name = upload.name, !.todo = todo]
  <2>1. /\ todo \in SUBSET (Lines \X Versions) /\ \A t, u \in todo : t[1] = u[1] => t = u
    BY DEF LinesOf, Files
  <2>2. start \in ApplyState /\ start.at = "apply" /\ start.todo = todo
    <3> HIDE DEF todo
    <3> QED BY <2>1, MetricsConstants DEF ApplyState
  <2>3. apply' = start
    BY <1>6 DEF StartApply
  <2> HIDE DEF todo, start
  <2> QED BY <1>6, <2>1, <2>2, <2>3 DEF StartApply
<1>7. ASSUME NEW t \in apply.todo, BeginUpdate(t) PROVE MetricsTypes'
  <2> DEFINE update == [apply EXCEPT !.at = "update", !.line = t[1], !.conflict = FALSE]
  <2>1. t[1] \in Lines
    BY DEF ApplyState
  <2>2. update \in ApplyState /\ update.todo = apply.todo /\ update.line = t[1]
    BY <2>1 DEF ApplyState
  <2>3. apply' = update
    BY <1>7 DEF BeginUpdate
  <2> HIDE DEF update
  <2> QED BY <1>7, <2>2, <2>3 DEF BeginUpdate
<1>8. ASSUME EndUpdate PROVE MetricsTypes'
  <2>1. PICK t \in apply.todo : t[1] = apply.line
    BY <1>8 DEF EndUpdate
  <2>2. t = CHOOSE u \in apply.todo : u[1] = apply.line
    BY <2>1
  <2> DEFINE done == [apply EXCEPT !.at = "apply", !.todo = @ \ {t}]
  <2>3. done \in ApplyState /\ done.at = "apply" /\ done.todo = apply.todo \ {t}
    BY DEF ApplyState
  <2>4. apply' = done /\ t[2] \in Versions /\ apply.line \in Lines
    BY <1>8, <2>2 DEF EndUpdate, ApplyState
  <2>5. silver' \in [Lines -> Document] /\ {late', reported'} \subseteq SUBSET Lines
    <3>1. Scripted(silver[apply.line], apply.line, t[2]) \in Document
      BY <2>4, MetricDocuments DEF Files
    <3>2. silver' \in {silver, [silver EXCEPT ![apply.line] = Scripted(silver[apply.line], apply.line, t[2])]}
      BY <1>8, <2>2 DEF EndUpdate
    <3> QED BY <1>8, <2>2, <2>4, <3>1, <3>2 DEF EndUpdate
  <2> HIDE DEF done
  <2> QED BY <1>8, <2>3, <2>4, <2>5 DEF EndUpdate
<1>9. ASSUME EndApply \/ ApplyFails PROVE MetricsTypes'
  <2>1. NoApply.at = "free" /\ NoApply.todo = {}
    BY DEF NoApply
  <2> QED BY <1>9, <2>1, MetricsConstants DEF EndApply, ApplyFails
<1>10. ASSUME NEW l \in Lines, LookUp(l) PROVE MetricsTypes'
  BY <1>10 DEF LookUp
<1>11. ASSUME WriteSilver PROVE MetricsTypes'
  <2> DEFINE conflict == [apply EXCEPT !.conflict = TRUE]
  <2>1. /\ conflict \in ApplyState /\ conflict.at = apply.at /\ conflict.todo = apply.todo
        /\ conflict.line = apply.line
    BY DEF ApplyState
  <2>2. apply' \in {apply, conflict}
    BY <1>11 DEF WriteSilver
  <2>3. 1 \in Versions /\ batch.line \in Lines /\ batch.file \in Files
    BY MetricsConstants
  <2>4. WithMetric(batch.line, batch.file) \in Document
    BY <2>3, MetricDocuments, MetricsConstants
  <2>5. silver' \in [Lines -> Document]
    BY <1>11, <2>4 DEF WriteSilver
  <2> HIDE DEF conflict
  <2> QED BY <1>11, <2>1, <2>2, <2>5, MetricsConstants DEF WriteSilver
<1>12. CASE UNCHANGED metricsVars
  BY <1>12 DEF metricsVars
<1> QED BY <1>1, <1>2, <1>3, <1>4, <1>5, <1>6, <1>7, <1>8, <1>9, <1>10, <1>11, <1>12
        DEF MetricsNext

\* The upload, the tasks, the lines in the index and in silver, and the update under way
\* always have the form the code gives them (GlobalMetricsUploadFile, the tasks).
THEOREM MetricsTypeCorrect == MetricsSpec => []MetricsTypeOK
<1>1. MetricsTypes => MetricsTypeOK
  BY DEF MetricsTypes, MetricsTypeOK, Files, TaskState, ApplyState, Document
<1> QED BY <1>1, MetricsInitType, MetricsNextType, PTL DEF MetricsSpec

\* While no file has been replaced under a task, every task indexes the file the row
\* has, and the lines it has dealt with are indexed or refused.
IsCurrent(w) ==
  ~raced /\ task[w].at = "index" =>
    /\ task[w].file = upload.file
    /\ \A l \in Contents[upload.file] \ rejected : l \notin task[w].todo => harvest[l].file = upload.file
IndexInv == (\A w \in Workers : IsCurrent(w)) /\ ProcessedIsIndexed

LEMMA MetricsNextIndex ==
  MetricsTypes /\ IndexInv /\ [MetricsNext]_metricsVars => IndexInv'
<1> SUFFICES ASSUME MetricsTypes, IndexInv, [MetricsNext]_metricsVars PROVE IndexInv'
  OBVIOUS
<1>1. ASSUME UNCHANGED <<upload, task, harvest, rejected, raced>> PROVE IndexInv'
  BY <1>1 DEF IndexInv, IsCurrent, ProcessedIsIndexed, IsIndexed
<1>2. ASSUME NEW name \in Names, Upload(name) PROVE IndexInv'
  <2>1. upload'.status = FALSE /\ task' = task
    BY <1>2 DEF Upload
  <2>2. ASSUME NEW w \in Workers, ~raced' PROVE task[w].at = "free"
    BY <1>2, <2>2 DEF Upload
  <2>3. \A w \in Workers : IsCurrent(w)'
    BY <2>1, <2>2 DEF IsCurrent
  <2> QED BY <2>1, <2>3 DEF IndexInv, ProcessedIsIndexed
<1>3. ASSUME NEW w \in Workers, TakeTask(w) PROVE IndexInv'
  <2> DEFINE taken == [at |-> "index", file |-> upload.file, name |-> upload.name,
                       todo |-> Contents[upload.file]]
  <2>1. task' \in {task, [task EXCEPT ![w] = taken]} /\ UNCHANGED <<upload, harvest, rejected, raced>>
    BY <1>3 DEF TakeTask
  <2>2. ASSUME NEW v \in Workers PROVE IsCurrent(v)'
    <3>1. CASE task'[v] = task[v]
      BY <2>1, <3>1 DEF IndexInv, IsCurrent
    <3>2. CASE task'[v] = taken
      BY <2>1, <3>2 DEF IsCurrent
    <3> QED BY <2>1, <3>1, <3>2 DEF MetricsTypes
  <2> QED BY <2>1, <2>2 DEF IndexInv, ProcessedIsIndexed, IsIndexed
<1>4. ASSUME NEW w \in Workers, NEW l \in Lines, IndexLine(w, l) PROVE IndexInv'
  <2>1. /\ task[w].at = "index" /\ UNCHANGED <<upload, raced>>
        /\ task'[w] = [task[w] EXCEPT !.todo = @ \ {l}]
        /\ \A v \in Workers \ {w} : task'[v] = task[v]
    BY <1>4 DEF IndexLine, MetricsTypes
  <2>2. \A v \in Workers : /\ task'[v].at = task[v].at /\ task'[v].file = task[v].file
                           /\ \A m : m # l => (m \in task'[v].todo <=> m \in task[v].todo)
    <3>1. /\ task'[w].at = task[w].at /\ task'[w].file = task[w].file
          /\ task'[w].todo = task[w].todo \ {l}
      BY <2>1 DEF MetricsTypes, TaskState
    <3> QED BY <2>1, <3>1
  <2>3. CASE raced
    BY <2>1, <2>3 DEF IndexInv, IsCurrent, ProcessedIsIndexed
  \* The task has the current file: the line is indexed from it, or refused.
  <2>4. CASE ~raced
    <3>1. task[w].file = upload.file
      BY <2>1, <2>4 DEF IndexInv, IsCurrent
    <3>2. l \in rejected' \/ harvest'[l].file = upload.file
      BY <1>4, <3>1 DEF IndexLine, MetricsTypes
    <3>3. /\ rejected \subseteq rejected'
          /\ \A m \in Lines : m # l => harvest'[m] = harvest[m]
      BY <1>4 DEF IndexLine, MetricsTypes
    <3>4. Contents[upload.file] \subseteq Lines
      BY MetricsConstants DEF MetricsTypes
    <3>5. ASSUME NEW v \in Workers PROVE IsCurrent(v)'
      <4>1. IsCurrent(v)
        BY DEF IndexInv
      <4> QED BY <2>1, <2>2, <3>2, <3>3, <3>4, <4>1 DEF IsCurrent
    <3>6. ProcessedIsIndexed'
      BY <2>1, <3>2, <3>3, <3>4 DEF IndexInv, ProcessedIsIndexed, IsIndexed
    <3> QED BY <3>5, <3>6 DEF IndexInv
  <2> QED BY <2>3, <2>4
<1>5. ASSUME NEW w \in Workers, TaskFails(w) \/ MarkProcessed(w) PROVE IndexInv'
  <2>1. /\ task[w].at = "index" /\ task' = [task EXCEPT ![w] = NoTask]
        /\ UNCHANGED <<harvest, rejected, raced>>
        /\ UNCHANGED upload \/ (task[w].todo = {} /\ upload'.file = upload.file)
    <3>1. [upload EXCEPT !.status = task[w].name = upload.name].file = upload.file
      BY DEF MetricsTypes
    <3> QED BY <1>5, <3>1 DEF TaskFails, MarkProcessed
  <2>2. upload'.file = upload.file
    BY <2>1
  <2>3. ASSUME NEW v \in Workers PROVE IsCurrent(v)'
    <3>1. IsCurrent(v)
      BY DEF IndexInv
    <3>2. CASE v = w
      BY <2>1, <3>2 DEF MetricsTypes, IsCurrent, NoTask
    <3>3. CASE v # w
      BY <2>1, <2>2, <3>1, <3>3 DEF MetricsTypes, IsCurrent
    <3> QED BY <3>2, <3>3
  <2>4. ProcessedIsIndexed'
    <3>1. CASE UNCHANGED upload
      BY <2>1, <3>1 DEF IndexInv, ProcessedIsIndexed, IsIndexed
    <3>2. CASE task[w].todo = {}
      <4>1. IsCurrent(w)
        BY DEF IndexInv
      <4> QED BY <2>1, <2>2, <3>2, <4>1 DEF IsCurrent, ProcessedIsIndexed, IsIndexed
    <3> QED BY <2>1, <3>1, <3>2
  <2> QED BY <2>3, <2>4 DEF IndexInv
<1>6. ASSUME StartApply \/ (\E t \in apply.todo : BeginUpdate(t)) \/ EndUpdate \/ EndApply
             \/ ApplyFails \/ (\E l \in Lines : LookUp(l)) \/ WriteSilver
      PROVE  IndexInv'
  BY <1>1, <1>6 DEF StartApply, BeginUpdate, EndUpdate, EndApply, ApplyFails, LookUp, WriteSilver
<1>7. CASE UNCHANGED metricsVars
  BY <1>1, <1>7 DEF metricsVars
<1> QED BY <1>2, <1>3, <1>4, <1>5, <1>6, <1>7 DEF MetricsNext

\* An upload whose row says it is processed has all the lines of its file indexed, or
\* reported as refused, however many tasks were sent for it and whichever failed, were
\* skipped or ran at once, unless the file was replaced under a task
\* (process_global_metrics_upload_file, mark_processed).
THEOREM ProcessedUploadsAreIndexed == MetricsSpec => []ProcessedIsIndexed
<1>1. MetricsInit => IndexInv
  BY DEF MetricsInit, IndexInv, IsCurrent, ProcessedIsIndexed, NoTask
<1>2. IndexInv => ProcessedIsIndexed
  BY DEF IndexInv
<1> QED BY <1>1, <1>2, MetricsInitType, MetricsNextType, MetricsNextIndex, PTL DEF MetricsSpec

\* What an apply begun after the last line indexed has yet to do: every line of the
\* upload is in its list as the index has it, or in silver, or has been written late, or
\* its update was refused and reported; and
\* a document that has been written since the update of its line has read it has the
\* metrics or is late.
ApplyInv ==
  /\ applied = "ended" => apply.at = "free" /\ AppliedReachesSilver
  /\ applied = "begun" =>
       /\ apply.at # "free" /\ \A t \in apply.todo : t[2] = harvest[t[1]].file
       /\ apply.at = "update" /\ apply.conflict => apply.line \in late \/ Carries(apply.line)
       /\ \A l \in Lines \ (late \cup reported) : harvest[l].file # 0 /\ harvest[l].name = apply.name
            => Carries(l) \/ <<l, harvest[l].file>> \in apply.todo

LEMMA MetricsNextApply ==
  MetricsTypes /\ ApplyInv /\ [MetricsNext]_metricsVars => ApplyInv'
<1> SUFFICES ASSUME MetricsTypes, ApplyInv, [MetricsNext]_metricsVars PROVE ApplyInv'
  OBVIOUS
<1>1. ASSUME UNCHANGED <<harvest, apply, silver, reported, applied, late>>, upload'.name = upload.name
      PROVE  ApplyInv'
  BY <1>1 DEF ApplyInv, AppliedReachesSilver, Carries
<1>2. ASSUME applied' = "no" PROVE ApplyInv'
  BY <1>2 DEF ApplyInv
<1>3. ASSUME NEW name \in Names, Upload(name) PROVE ApplyInv'
  BY <1>2, <1>3 DEF Upload
<1>4. ASSUME NEW w \in Workers, TakeTask(w) \/ TaskFails(w) \/ MarkProcessed(w) PROVE ApplyInv'
  <2>1. [upload EXCEPT !.status = task[w].name = upload.name].name = upload.name
    BY DEF MetricsTypes
  <2> QED BY <1>1, <1>4, <2>1 DEF TakeTask, TaskFails, MarkProcessed
<1>5. ASSUME NEW w \in Workers, NEW l \in Lines, IndexLine(w, l) PROVE ApplyInv'
  BY <1>1, <1>2, <1>5 DEF IndexLine
<1>6. ASSUME StartApply PROVE ApplyInv'
  <2> DEFINE todo == {<<l, harvest[l].file>> : l \in LinesOf(upload.name)}
             start == [NoApply EXCEPT !.at = "apply", !.name = upload.name, !.todo = todo]
  <2>1. start.at = "apply" /\ start.todo = todo /\ start.name = upload.name
    BY DEF NoApply
  <2>2. apply' = start /\ applied' = "begun" /\ UNCHANGED <<harvest, silver, late>>
    BY <1>6 DEF StartApply
  <2>3. \A t \in todo : t[2] = harvest[t[1]].file
    BY DEF LinesOf
  <2>4. \A l \in Lines : harvest[l].file # 0 /\ harvest[l].name = upload.name
          => <<l, harvest[l].file>> \in todo
    BY DEF LinesOf
  <2> HIDE DEF todo, start
  <2> QED BY <2>1, <2>2, <2>3, <2>4 DEF ApplyInv, Carries
<1>7. ASSUME NEW t \in apply.todo, BeginUpdate(t) PROVE ApplyInv'
  <2> DEFINE update == [apply EXCEPT !.at = "update", !.line = t[1], !.conflict = FALSE]
  <2>1. /\ update.at = "update" /\ update.todo = apply.todo /\ update.name = apply.name
        /\ update.conflict = FALSE
    BY DEF MetricsTypes, ApplyState
  <2>2. /\ apply' = update /\ apply.at = "apply" /\ UNCHANGED <<harvest, silver, reported, late, applied>>
    BY <1>7 DEF BeginUpdate
  <2> HIDE DEF update
  <2> QED BY <2>1, <2>2 DEF ApplyInv, Carries
<1>8. ASSUME EndUpdate PROVE ApplyInv'
  <2>1. PICK t \in apply.todo, l \in Lines : t[1] = apply.line /\ l = apply.line
    BY <1>8 DEF EndUpdate, MetricsTypes, ApplyState
  <2>2. t = CHOOSE u \in apply.todo : u[1] = apply.line
    BY <2>1 DEF MetricsTypes
  <2>3. /\ apply' = [apply EXCEPT !.at = "apply", !.todo = @ \ {t}]
        /\ apply.at = "update" /\ UNCHANGED <<harvest, applied, upload>>
        /\ \/ (~silver[l].there \/ apply.conflict) /\ UNCHANGED <<silver, late, reported>>
           \/ /\ silver' = [silver EXCEPT ![l] = Scripted(silver[l], l, t[2])]
              /\ late' = IF t[2] = harvest[l].file THEN late \ {l} ELSE late \cup {l}
              /\ UNCHANGED reported
           \/ reported' = reported \cup {l} /\ UNCHANGED <<silver, late>>
    BY <1>8, <2>1, <2>2 DEF EndUpdate
  <2>4. apply'.at = "apply" /\ apply'.todo = apply.todo \ {t} /\ apply'.name = apply.name
    BY <2>3 DEF MetricsTypes, ApplyState
  <2>5. CASE applied # "begun"
    BY <2>3, <2>5 DEF ApplyInv
  <2>6. CASE applied = "begun"
    <3>1. t[2] = harvest[l].file /\ (apply.conflict => l \in late \/ Carries(l))
      BY <2>1, <2>3, <2>6 DEF ApplyInv
    <3>2. \A u \in apply.todo : u[2] = harvest[u[1]].file
      BY <2>6 DEF ApplyInv
    <3>3. ASSUME NEW m \in Lines \ (late \cup reported)', harvest[m].file # 0,
                 harvest[m].name = apply.name
          PROVE  Carries(m)' \/ <<m, harvest[m].file>> \in apply'.todo
      <4>1. CASE m = l
        <5>1. CASE (~silver[l].there \/ apply.conflict) /\ UNCHANGED <<silver, late, reported>>
          BY <2>3, <3>1, <3>3, <4>1, <5>1 DEF Carries
        <5>2. CASE silver' = [silver EXCEPT ![l] = Scripted(silver[l], l, t[2])]
          <6>1. t[2] \in Versions /\ 1 \in Versions /\ 1 \in Files
            BY MetricsConstants DEF MetricsTypes, ApplyState, Files
          <6>2. /\ t[2] \in Scripted(silver[l], l, t[2]).indexed_in
                /\ l \notin Unresolved[t[2]] => Scripted(silver[l], l, t[2]).country = t[2]
            BY <6>1, MetricDocuments DEF MetricsTypes
          <6>3. silver'[l] = Scripted(silver[l], l, t[2])
            BY <5>2 DEF MetricsTypes
          <6> QED BY <2>3, <3>1, <4>1, <6>2, <6>3 DEF Carries
        <5> QED BY <2>3, <3>3, <4>1, <5>1, <5>2
      <4>2. CASE m # l
        <5>1. m \notin late \cup reported /\ silver'[m] = silver[m]
          BY <2>3, <3>3, <4>2 DEF MetricsTypes
        <5>2. Carries(m) \/ <<m, harvest[m].file>> \in apply.todo
          BY <2>6, <3>3, <5>1 DEF ApplyInv
        <5>3. <<m, harvest[m].file>> # t
          BY <2>1, <4>2
        <5> QED BY <2>3, <2>4, <5>1, <5>2, <5>3 DEF Carries
      <4> QED BY <4>1, <4>2
    <3> QED BY <2>3, <2>4, <2>6, <3>2, <3>3 DEF ApplyInv
  <2> QED BY <2>5, <2>6
<1>9. ASSUME EndApply PROVE ApplyInv'
  <2>1. /\ apply' = NoApply /\ NoApply.at = "free" /\ apply.todo = {}
        /\ UNCHANGED <<upload, harvest, silver, late, reported>>
        /\ applied' = IF applied = "begun" /\ apply.name = upload.name THEN "ended" ELSE "no"
    BY <1>9 DEF EndApply, NoApply
  <2>2. CASE applied = "begun" /\ apply.name = upload.name
    BY <2>1, <2>2 DEF ApplyInv, AppliedReachesSilver, Carries
  <2>3. CASE ~(applied = "begun" /\ apply.name = upload.name)
    BY <1>2, <2>1, <2>3
  <2> QED BY <2>2, <2>3
<1>10. ASSUME ApplyFails PROVE ApplyInv'
  BY <1>2, <1>10 DEF ApplyFails
<1>11. ASSUME NEW l \in Lines, LookUp(l) PROVE ApplyInv'
  BY <1>1, <1>11 DEF LookUp
<1>12. ASSUME WriteSilver PROVE ApplyInv'
  <2>1. PICK l \in Lines : l = batch.line
    BY DEF MetricsTypes
  <2>2. /\ silver' = [silver EXCEPT ![l] = WithMetric(l, batch.file)]
        /\ UNCHANGED <<upload, harvest, applied, reported>>
        /\ late' = IF batch.file = harvest[l].file THEN late \ {l} ELSE late \cup {l}
    BY <1>12, <2>1 DEF WriteSilver
  <2>3. ASSUME NEW m \in Lines
        PROVE  /\ m # l => Carries(m)' = Carries(m) /\ (m \in late' <=> m \in late)
               /\ l \in late' \/ harvest[l].file = 0 \/ Carries(l)'
    <3>1. 1 \in Versions /\ batch.file \in Files /\ NoSilver \in Document
      BY MetricsConstants DEF MetricsTypes
    <3>2. /\ batch.file # 0 => batch.file \in WithMetric(l, batch.file).indexed_in
          /\ batch.file # 0 /\ l \notin Unresolved[batch.file]
               => WithMetric(l, batch.file).country = batch.file
      BY <3>1, MetricDocuments
    <3>3. silver'[l] = WithMetric(l, batch.file) /\ (m # l => silver'[m] = silver[m])
      BY <2>2 DEF MetricsTypes
    <3>4. m # l => Carries(m)' = Carries(m) /\ (m \in late' <=> m \in late)
      BY <2>2, <3>3 DEF Carries
    <3> QED BY <2>2, <3>2, <3>3, <3>4 DEF Carries
  <2>4. /\ apply'.at = apply.at /\ apply'.todo = apply.todo /\ apply'.name = apply.name
        /\ apply'.line = apply.line
        /\ apply'.conflict => apply.conflict \/ apply.line = l
    BY <1>12, <2>1 DEF WriteSilver, MetricsTypes, ApplyState
  <2>5. applied = "ended" => AppliedReachesSilver'
    <3>1. ASSUME applied = "ended", NEW m \in Lines \ (late \cup reported)',
                 harvest[m].file # 0, harvest[m].name = upload.name
          PROVE  Carries(m)'
      <4>1. m # l => m \notin late \cup reported /\ Carries(m)
        BY <2>2, <2>3, <3>1 DEF ApplyInv, AppliedReachesSilver, Carries
      <4> QED BY <2>3, <3>1, <4>1
    <3> QED BY <2>2, <3>1 DEF AppliedReachesSilver
  <2>6. ASSUME applied = "begun"
        PROVE  /\ \A t \in apply.todo : t[2] = harvest[t[1]].file
               /\ apply.at = "update" /\ apply'.conflict => apply.line \in late' \/ Carries(apply.line)'
               /\ \A m \in Lines \ (late \cup reported)' : harvest[m].file # 0 /\ harvest[m].name = apply.name
                    => Carries(m)' \/ <<m, harvest[m].file>> \in apply.todo
    <3>1. /\ \A t \in apply.todo : t[2] = harvest[t[1]].file
          /\ apply.at = "update" /\ apply.conflict => apply.line \in late \/ Carries(apply.line)
          /\ \A m \in Lines \ (late \cup reported) : harvest[m].file # 0 /\ harvest[m].name = apply.name
               => Carries(m) \/ <<m, harvest[m].file>> \in apply.todo
      BY <2>6 DEF ApplyInv
    <3>2. PICK k \in Lines : k = apply.line
      BY DEF MetricsTypes, ApplyState
    <3>3. apply.at = "update" /\ apply'.conflict => k \in late' \/ Carries(k)'
      <4>1. apply.at = "update" => harvest[k].file # 0
        <5>1. ASSUME apply.at = "update" PROVE harvest[k].file # 0
          <6>1. PICK t \in apply.todo : t[1] = k
            BY <3>2, <5>1 DEF MetricsTypes
          <6>2. t[2] \in Versions
            BY DEF MetricsTypes, ApplyState
          <6> QED BY <3>1, <6>1, <6>2, MetricsConstants
        <5> QED BY <5>1
      <4> QED BY <2>3, <2>4, <3>1, <3>2, <4>1
    <3>4. \A m \in Lines \ (late \cup reported)' : harvest[m].file # 0 /\ harvest[m].name = apply.name
            => Carries(m)' \/ <<m, harvest[m].file>> \in apply.todo
      BY <2>2, <2>3, <3>1
    <3> QED BY <2>4, <3>1, <3>2, <3>3, <3>4
  <2> QED BY <2>2, <2>4, <2>5, <2>6 DEF ApplyInv
<1>13. CASE UNCHANGED metricsVars
  BY <1>1, <1>13 DEF metricsVars
<1> QED BY <1>3, <1>4, <1>5, <1>6, <1>7, <1>8, <1>9, <1>10, <1>11, <1>12, <1>13 DEF MetricsNext

\* When an apply that nothing was indexed during has ended, the silver document of every
\* line of the upload has the metrics of the line as it is indexed, or there is none, or
\* the report of the apply says that it could not be written, or a batch of the pipeline
\* wrote it afterwards, or in conflict, with metrics looked up before the line was indexed
\* (apply_global_metrics_upload_to_silver, update_silver_group_by_query).
THEOREM AppliedMetricsReachSilver == MetricsSpec => []AppliedReachesSilver
<1>1. MetricsInit => ApplyInv
  BY DEF MetricsInit, ApplyInv
<1>2. MetricsTypes /\ ApplyInv => AppliedReachesSilver
  BY DEF ApplyInv, AppliedReachesSilver
<1> QED BY <1>1, <1>2, MetricsInitType, MetricsNextType, MetricsNextApply, PTL DEF MetricsSpec

(***************************************************************************)
(* ArticleLoading: OpenAlex works that become rows of Article              *)
(***************************************************************************)

Works == Raws \cup {NoRaw}
Fields == {"journal", "licence"}
Author == [name : Nat, listed : {"known", "unknown", "none"}]
JournalRow == [id : Nat, issns : Seq(Nat), name : Nat]
ArticleRow == [id : Nat, doi : Int, title : Int, journal : Int, licence : Int,
               contributors : SUBSET Int, work : Works, hurt : SUBSET Fields, loads : SUBSET Works]
LoopStates == {"idle", "next", "journal", "newJournal", "saveJournal", "licence", "author",
               "create", "fill", "link"}
LoopVariables ==
  [at : LoopStates, ids : Seq(SourceIds), update : BOOLEAN, work : Works, journal : Int,
   issns : Seq(Nat), name : Nat, licence : Int, contributor : Int, left : Seq(Author),
   contributors : SUBSET (Int \ {Unbound}), row : Int, hurt : SUBSET Fields]

NoJournal(work, journal) == work.venue = "none" => journal = 0
OwnLicence(work, licence, hurt) ==
  work.venue # "none" /\ "licence" \notin hurt => licence = work.licence
OwnContributors(work, contributors) ==
  AllKnown(work) => contributors = NamesIn(work.authors)

RowIsOwn(a) ==
  /\ NoJournal(a.work, a.journal)
  /\ OwnLicence(a.work, a.licence, a.hurt)
  /\ (\A work \in a.loads : AllKnown(work)) =>
       a.contributors = UNION {NamesIn(work.authors) : work \in a.loads}

\* What is true of the variables of the loop at each of its steps.
LoopIsOwn(l) ==
  /\ l.at \in {"licence", "author", "create", "fill", "link"} => NoJournal(l.work, l.journal)
  /\ l.at \in {"author", "create", "fill", "link"} => OwnLicence(l.work, l.licence, l.hurt)
  /\ l.at \in {"newJournal", "saveJournal"} => l.work.venue # "none"
  /\ l.at = "author" =>
       /\ \A i \in DOMAIN l.left : \E j \in DOMAIN l.work.authors : l.left[i] = l.work.authors[j]
       /\ AllKnown(l.work) => l.contributors \cup NamesIn(l.left) = NamesIn(l.work.authors)
  /\ l.at \in {"create", "fill", "link"} => OwnContributors(l.work, l.contributors)

LoadingInv ==
  /\ raw \in [SourceIds -> Works]
  /\ \A slice \in slices : slice.ids \in Seq(SourceIds) /\ slice.update \in BOOLEAN
  /\ loader \in [Loaders -> LoopVariables]
  /\ journals \subseteq JournalRow /\ IsFiniteSet(journals)
  /\ articles \subseteq ArticleRow /\ IsFiniteSet(articles)
  /\ \A w \in Loaders : LoopIsOwn(loader[w])
  /\ \A a \in articles : RowIsOwn(a)

LEMMA NoRawIs == /\ NoRaw.authors = <<>> /\ NoRaw.venue = "none" /\ NoRaw.doi = 0
                 /\ NoRaw.title = 0 /\ NoRaw.licence = 0 /\ NoRaw.issns = <<>> /\ NoRaw.name = 0
BY DEF NoRaw

LEMMA WorksAre ==
  ASSUME NEW work \in Works
  PROVE  /\ work.doi \in Nat /\ work.title \in Nat /\ work.licence \in Nat
         /\ work.issns \in Seq(Nat) /\ work.name \in Nat /\ (work.venue = "journal" => work.issns # <<>>)
         /\ work.venue \in {"none", "bare", "unlisted", "journal"} /\ work.authors \in Seq(Author)
<1>1. CASE work \in Raws
  <2>1. work \in Raw
    BY <1>1, LoadingAssumption
  <2> QED BY <1>1, <2>1, LoadingAssumption DEF Raw, Author
<1>2. CASE work = NoRaw
  BY <1>2, NoRawIs
<1> QED BY <1>1, <1>2 DEF Works

LEMMA WaitsIs == Waits \in LoopVariables /\ LoopIsOwn(Waits)
<1>1. Waits \in LoopVariables
  BY DEF Waits, LoopVariables, LoopStates, Works, Unbound
<1>2. Waits.at = "idle"
  BY DEF Waits
<1> QED BY <1>1, <1>2 DEF LoopIsOwn

LEMMA LoadingInitInv == LoadingInit => LoadingInv
<1> SUFFICES ASSUME LoadingInit PROVE LoadingInv
  OBVIOUS
<1>1. raw \in [SourceIds -> Works] /\ slices = {} /\ articles = {} /\ journals = {}
  BY DEF LoadingInit, Works
<1>2. loader \in [Loaders -> LoopVariables] /\ \A w \in Loaders : loader[w] = Waits
  BY WaitsIs, Zenon DEF LoadingInit
<1> QED BY <1>1, <1>2, WaitsIs, FS_EmptySet DEF LoadingInv

\* A sequence without its first element.
LEMMA TailIs ==
  ASSUME NEW S, NEW s \in Seq(S), s # <<>>
  PROVE  /\ Tail(s) \in Seq(S) /\ Head(s) \in S /\ 1 \in DOMAIN s /\ Head(s) = s[1]
         /\ DOMAIN Tail(s) = 1 .. Len(s) - 1
         /\ \A i \in DOMAIN Tail(s) : i + 1 \in DOMAIN s /\ Tail(s)[i] = s[i + 1]
         /\ \A i \in DOMAIN s : i = 1 \/ (i - 1 \in DOMAIN Tail(s) /\ s[i] = Tail(s)[i - 1])
OBVIOUS

LEMMA NamesInTail ==
  ASSUME NEW s \in Seq(Author), s # <<>>
  PROVE  NamesIn(s) = NamesIn(Tail(s)) \cup ({Head(s).name} \ {0})
<1>1. ASSUME NEW n \in NamesIn(s) PROVE n \in NamesIn(Tail(s)) \cup ({Head(s).name} \ {0})
  <2>1. PICK i \in DOMAIN s : n = s[i].name /\ n # 0
    BY DEF NamesIn
  <2>2. CASE i = 1
    BY <2>1, <2>2, TailIs
  <2>3. CASE i # 1
    <3>1. i - 1 \in DOMAIN Tail(s) /\ s[i] = Tail(s)[i - 1]
      BY <2>3, TailIs
    <3> QED BY <2>1, <3>1 DEF NamesIn
  <2> QED BY <2>2, <2>3
<1>2. ASSUME NEW n \in NamesIn(Tail(s)) PROVE n \in NamesIn(s)
  <2>1. PICK i \in DOMAIN Tail(s) : n = Tail(s)[i].name /\ n # 0
    BY DEF NamesIn
  <2> QED BY <2>1, TailIs DEF NamesIn
<1>3. Head(s).name # 0 => Head(s).name \in NamesIn(s)
  BY TailIs DEF NamesIn
<1> QED BY <1>1, <1>2, <1>3

\* A step of the loop of one worker that leaves the rows alone.
LEMMA LoopStep ==
  ASSUME LoadingInv, NEW w \in Loaders, NEW l \in LoopVariables, Goes(w, l), LoopIsOwn(l),
         UNCHANGED <<raw, articles>>, slices' \subseteq slices,
         journals' \subseteq JournalRow, IsFiniteSet(journals')
  PROVE  LoadingInv'
<1>1. loader' \in [Loaders -> LoopVariables] /\ loader'[w] = l
      /\ \A v \in Loaders \ {w} : loader'[v] = loader[v]
  BY DEF LoadingInv, Goes
<1> QED BY <1>1 DEF LoadingInv

LEMMA SlicesStep ==
  ASSUME LoadingInv, UNCHANGED <<raw, loader, journals, articles>>,
         \A slice \in slices' \ slices : slice.ids \in Seq(SourceIds) /\ slice.update \in BOOLEAN
  PROVE  LoadingInv'
BY DEF LoadingInv

LEMMA SeqsOfRows ==
  ASSUME NEW rows \in SUBSET SourceIds, NEW ids \in SetToSeqs(rows)
  PROVE  ids \in Seq(SourceIds)
<1>1. IsFiniteSet(rows)
  BY LoadingAssumption, FS_Subset
<1>2. Cardinality(rows) \in Nat
  BY <1>1, FS_CardinalityType
<1>3. ids \in [1 .. Cardinality(rows) -> rows]
  BY DEF SetToSeqs
<1> QED BY <1>2, <1>3

LEMMA SendInv == ASSUME LoadingInv, SendSlices \/ CallUpdate PROVE LoadingInv'
<1>1. CASE SendSlices
  <2>1. PICK rows \in SUBSET Stored \ {{}} :
          LET n == Cardinality(rows)
              cuts == {f \in [1 .. n \div LoopSize + 1 -> UNION {SetToSeqs(part) : part \in SUBSET rows}] :
                         \A i \in DOMAIN f : Len(f[i]) = SliceSize(n, i)}
          IN \E cut \in cuts :
               slices' = slices \cup {[ids |-> cut[i], update |-> FALSE] : i \in DOMAIN cut}
    BY <1>1, Zenon DEF SendSlices
  <2>2. PICK cut \in [1 .. Cardinality(rows) \div LoopSize + 1 -> UNION {SetToSeqs(part) : part \in SUBSET rows}] :
          slices' = slices \cup {[ids |-> cut[i], update |-> FALSE] : i \in DOMAIN cut}
    BY <2>1
  <2>3. \A i \in DOMAIN cut : cut[i] \in Seq(SourceIds)
    BY SeqsOfRows DEF Stored
  <2>4. ASSUME NEW slice \in slices' \ slices PROVE slice.ids \in Seq(SourceIds) /\ slice.update \in BOOLEAN
    <3>1. PICK i \in DOMAIN cut : slice = [ids |-> cut[i], update |-> FALSE]
      BY <2>2
    <3> QED BY <2>3, <3>1
  <2> QED BY <1>1, <2>4, SlicesStep DEF SendSlices
<1>2. CASE CallUpdate
  <2>1. PICK rows \in SUBSET Stored : \E ids \in SetToSeqs(rows) :
          slices' = slices \cup {[ids |-> ids, update |-> TRUE]}
    BY <1>2 DEF CallUpdate
  <2>2. PICK ids \in SetToSeqs(rows) : slices' = slices \cup {[ids |-> ids, update |-> TRUE]}
    BY <2>1
  <2>3. ids \in Seq(SourceIds)
    BY SeqsOfRows DEF Stored
  <2>4. ASSUME NEW slice \in slices' \ slices PROVE slice.ids \in Seq(SourceIds) /\ slice.update \in BOOLEAN
    <3>1. slice = [ids |-> ids, update |-> TRUE]
      BY <2>2
    <3> QED BY <2>3, <3>1
  <2> QED BY <1>2, <2>4, SlicesStep DEF CallUpdate
<1> QED BY <1>1, <1>2

LEMMA LoopFields ==
  ASSUME NEW l \in LoopVariables
  PROVE  /\ l.at \in LoopStates /\ l.ids \in Seq(SourceIds) /\ l.update \in BOOLEAN /\ l.work \in Works
         /\ l.journal \in Int /\ l.issns \in Seq(Nat) /\ l.name \in Nat /\ l.licence \in Int /\ l.contributor \in Int
         /\ l.left \in Seq(Author) /\ l.contributors \subseteq Int \ {Unbound} /\ l.row \in Int
         /\ l.hurt \subseteq Fields
BY DEF LoopVariables

LEMMA TakeSliceInv ==
  ASSUME LoadingInv, NEW w \in Loaders, NEW slice \in slices, TakeSlice(w, slice)
  PROVE  LoadingInv'
<1> DEFINE l == [Waits EXCEPT !.at = "next", !.ids = slice.ids, !.update = slice.update]
<1>1. Goes(w, l) /\ UNCHANGED <<raw, journals, articles>> /\ slices' \subseteq slices
  BY Zenon DEF TakeSlice
<1>2. slice.ids \in Seq(SourceIds) /\ slice.update \in BOOLEAN
  BY DEF LoadingInv
<1>3. l \in LoopVariables /\ l.at = "next"
  BY <1>2, WaitsIs DEF LoopVariables, LoopStates
<1> HIDE DEF l
<1>4. LoopIsOwn(l)
  BY <1>3 DEF LoopIsOwn
<1> QED BY <1>1, <1>3, <1>4, LoopStep DEF LoadingInv

LEMMA BeginArticleInv ==
  ASSUME LoadingInv, NEW w \in Loaders, BeginArticle(w) PROVE LoadingInv'
<1> DEFINE o == loader[w]
           work == raw[Head(o.ids)]
<1>1. PICK s \in {"next", "journal"} :
        /\ o.ids # <<>> /\ UNCHANGED <<raw, journals, articles, slices>>
        /\ Goes(w, [o EXCEPT !.ids = Tail(o.ids), !.work = work, !.hurt = {}, !.at = s])
  BY DEF BeginArticle, Reads
<1>2. o \in LoopVariables /\ o.ids \in Seq(SourceIds) /\ raw \in [SourceIds -> Works]
  BY LoopFields DEF LoadingInv
<1>3. work \in Works /\ Tail(o.ids) \in Seq(SourceIds)
  BY <1>1, <1>2, TailIs
<1> DEFINE l == [o EXCEPT !.ids = Tail(o.ids), !.work = work, !.hurt = {}, !.at = s]
<1> HIDE DEF o, work
<1>4. l \in LoopVariables /\ l.at = s
  BY <1>2, <1>3 DEF LoopVariables, LoopStates
<1>5. Goes(w, l)
  BY <1>1
<1> HIDE DEF l
<1>6. LoopIsOwn(l)
  BY <1>4 DEF LoopIsOwn
<1> QED BY <1>1, <1>4, <1>5, <1>6, LoopStep DEF LoadingInv

LEMMA WithoutPlaceInv ==
  ASSUME LoadingInv, NEW w \in Loaders, WithoutPlace(w) PROVE LoadingInv'
<1> DEFINE o == loader[w]
           k == [o EXCEPT !.at = "licence"]
           l == [k EXCEPT !.journal = 0]
<1>1. UNCHANGED <<raw, journals, articles, slices>> /\ o.work.venue = "none" /\ Goes(w, l)
  BY Zenon DEF WithoutPlace, Reads
<1>2. o \in LoopVariables
  BY DEF LoadingInv
<1> HIDE DEF o
<1>3. l \in LoopVariables /\ l.at = "licence" /\ l.journal = 0
  <2>1. "licence" \in LoopStates /\ 0 \in Int
    BY DEF LoopStates
  <2>2. /\ k \in LoopVariables /\ k.at = "licence" /\ k.work = o.work /\ k.issns = o.issns
    BY <1>2, <2>1 DEF LoopVariables
  <2> HIDE DEF k
  <2> QED BY <1>2, <2>1, <2>2 DEF LoopVariables
<1> HIDE DEF l
<1>4. LoopIsOwn(l)
  BY <1>3 DEF LoopIsOwn, NoJournal
<1> QED BY <1>1, <1>3, <1>4, LoopStep DEF LoadingInv

\* What the journal's lookup makes of the variables of the loop.
LEMMA FindJournalIs ==
  ASSUME LoadingInv, NEW w \in Loaders, NEW raises \in BOOLEAN, FindJournal(w, raises)
  PROVE  \E l \in LoopVariables :
           /\ Goes(w, l) /\ l.work = loader[w].work /\ l.work.venue # "none"
           /\ \/ l.at = "licence" /\ "journal" \in l.hurt
              \/ /\ l.at \in {"newJournal", "saveJournal"} /\ l.issns # <<>>
                 /\ l.work.venue = "journal" => l.issns = l.work.issns
                 /\ l.at = "saveJournal" =>
                      \E j \in journals : j.id = l.row /\ l.issns \in SubSeqs(j.issns)
<1> DEFINE o == loader[w]
           issns == IF o.work.venue = "journal" THEN o.work.issns ELSE o.issns
           name == IF o.work.venue = "bare" THEN o.name ELSE o.work.name
           found == {j \in journals : issns \in SubSeqs(j.issns)}
           fails == raises \/ issns = <<>> \/ Cardinality(found) > 1
           l1 == [o EXCEPT !.at = "licence", !.issns = issns, !.name = name, !.hurt = o.hurt \cup {"journal"}]
           l2 == [o EXCEPT !.at = "newJournal", !.issns = issns, !.name = name]
           L3(j) == [o EXCEPT !.at = "saveJournal", !.issns = issns, !.name = name, !.row = j.id]
<1>1. o \in LoopVariables
  BY DEF LoadingInv
<1>2. /\ issns \in Seq(Nat) /\ name \in Nat /\ o.hurt \cup {"journal"} \subseteq Fields
      /\ o.work.venue = "journal" => issns = o.work.issns
  BY <1>1, LoopFields, WorksAre DEF Fields
<1>3. /\ o.work.venue # "none"
      /\ \/ Goes(w, l1)
         \/ ~fails /\ Goes(w, l2)
         \/ ~fails /\ \E j \in found : Goes(w, L3(j))
  BY Zenon DEF FindJournal
<1>4. ~fails => issns # <<>>
  OBVIOUS
<1>5. \A j \in found : j \in journals /\ issns \in SubSeqs(j.issns) /\ j.id \in Int
  BY DEF LoadingInv, JournalRow
<1> HIDE DEF o, issns, name, found, fails
<1>6. l1 \in LoopVariables /\ l1.at = "licence" /\ l1.work = o.work /\ "journal" \in l1.hurt
  BY <1>1, <1>2 DEF LoopVariables, LoopStates
<1>7. l2 \in LoopVariables /\ l2.at = "newJournal" /\ l2.work = o.work /\ l2.issns = issns
  BY <1>1, <1>2 DEF LoopVariables, LoopStates
<1>8. ASSUME NEW j \in found
      PROVE  /\ L3(j) \in LoopVariables /\ L3(j).at = "saveJournal" /\ L3(j).work = o.work
             /\ L3(j).issns = issns /\ L3(j).row = j.id
  BY <1>1, <1>2, <1>5 DEF LoopVariables, LoopStates
<1> HIDE DEF l1, l2, L3
<1>9. CASE Goes(w, l1)
  BY <1>3, <1>6, <1>9 DEF o
<1>10. CASE ~fails /\ Goes(w, l2)
  BY <1>2, <1>3, <1>4, <1>7, <1>10 DEF o
<1>11. ASSUME ~fails, NEW j \in found, Goes(w, L3(j))
       PROVE  \E l \in LoopVariables :
                /\ Goes(w, l) /\ l.work = o.work /\ l.work.venue # "none" /\ l.at = "saveJournal"
                /\ l.issns # <<>> /\ (l.work.venue = "journal" => l.issns = l.work.issns)
                /\ \E k \in journals : k.id = l.row /\ l.issns \in SubSeqs(k.issns)
  <2>1. L3(j) \in LoopVariables
    BY <1>8, <1>11
  <2> WITNESS L3(j) \in LoopVariables
  <2> QED BY <1>2, <1>3, <1>4, <1>5, <1>8, <1>11
<1> QED BY <1>3, <1>9, <1>10, <1>11 DEF o

LEMMA FindJournalInv ==
  ASSUME LoadingInv, NEW w \in Loaders, NEW raises \in BOOLEAN, FindJournal(w, raises)
  PROVE  LoadingInv'
<1>1. PICK l \in LoopVariables :
        /\ Goes(w, l) /\ l.work.venue # "none" /\ l.at \in {"licence", "newJournal", "saveJournal"}
  BY FindJournalIs
<1>2. UNCHANGED <<raw, journals, articles, slices>>
  BY DEF FindJournal, Reads
<1>3. LoopIsOwn(l)
  BY <1>1 DEF LoopIsOwn, NoJournal
<1> QED BY <1>1, <1>2, <1>3, LoopStep DEF LoadingInv

LEMMA MakeJournalInv ==
  ASSUME LoadingInv, NEW w \in Loaders, MakeJournal(w) PROVE LoadingInv'
<1> DEFINE o == loader[w]
           id == Cardinality(journals) + 1
           new == [id |-> id, issns |-> <<>>, name |-> 0]
           k == [o EXCEPT !.at = "saveJournal"]
           l == [k EXCEPT !.row = id]
<1>1. /\ o.at = "newJournal" /\ Goes(w, l) /\ UNCHANGED <<raw, articles, slices>>
      /\ journals' = journals \cup {new}
  BY Zenon DEF MakeJournal
<1>2. o \in LoopVariables /\ LoopIsOwn(o) /\ id \in Nat
  BY FS_CardinalityType DEF LoadingInv
<1> HIDE DEF o, id
<1>3. new \in JournalRow
  BY <1>2 DEF JournalRow
<1>4. journals' \subseteq JournalRow /\ IsFiniteSet(journals')
  BY <1>1, <1>3, FS_AddElement DEF LoadingInv
<1>5. l \in LoopVariables /\ l.at = "saveJournal" /\ l.work = o.work
  <2>1. "saveJournal" \in LoopStates /\ id \in Int
    BY <1>2 DEF LoopStates
  <2>2. /\ k \in LoopVariables /\ k.at = "saveJournal" /\ k.work = o.work /\ k.issns = o.issns
    BY <1>2, <2>1 DEF LoopVariables
  <2> HIDE DEF k
  <2> QED BY <1>2, <2>1, <2>2 DEF LoopVariables
<1> HIDE DEF l
<1>6. LoopIsOwn(l)
  BY <1>1, <1>2, <1>5 DEF LoopIsOwn
<1> QED BY <1>1, <1>4, <1>5, <1>6, LoopStep

\* Rows written in the place of others: the set stays finite.
LEMMA ImageOfRows ==
  ASSUME NEW S, IsFiniteSet(S), NEW f
  PROVE  IsFiniteSet({f[a] : a \in S})
<1> DEFINE T == {f[a] : a \in S}
           g == [a \in S |-> f[a]]
<1>1. g \in Surjection(S, T)
  BY DEF Surjection
<1> QED BY <1>1, FS_Surjection

\* The rows of journals after one was written.
LEMMA SavedJournals ==
  ASSUME LoadingInv, NEW w \in Loaders, SaveJournal(w)
  PROVE  \E f : /\ journals' = {f[j] : j \in journals}
                /\ \A j \in journals :
                     /\ f[j] \in JournalRow /\ f[j].id = j.id
                     /\ f[j].issns = IF j.id = loader[w].row THEN loader[w].issns ELSE j.issns
<1> DEFINE o == loader[w]
           f == [j \in journals |-> IF j.id # o.row THEN j ELSE [j EXCEPT !.issns = o.issns, !.name = o.name]]
<1>1. journals' = {f[j] : j \in journals}
  BY DEF SaveJournal
<1>2. o.issns \in Seq(Nat) /\ o.name \in Nat
  BY LoopFields DEF LoadingInv
<1> HIDE DEF o
<1>3. ASSUME NEW j \in journals
      PROVE  /\ f[j] \in JournalRow /\ f[j].id = j.id
             /\ f[j].issns = IF j.id = o.row THEN o.issns ELSE j.issns
  <2>1. j \in JournalRow
    BY DEF LoadingInv
  <2> QED BY <1>2, <2>1 DEF JournalRow
<1> HIDE DEF f
<1> QED BY <1>1, <1>3 DEF o

LEMMA SaveJournalInv ==
  ASSUME LoadingInv, NEW w \in Loaders, SaveJournal(w) PROVE LoadingInv'
<1> DEFINE o == loader[w]
           l == [o EXCEPT !.at = "licence", !.journal = o.row]
<1>1. o.at = "saveJournal" /\ Goes(w, l) /\ UNCHANGED <<raw, articles, slices>>
  BY Zenon DEF SaveJournal
<1>2. o \in LoopVariables /\ LoopIsOwn(o) /\ o.row \in Int
  BY LoopFields DEF LoadingInv
<1>3. journals' \subseteq JournalRow /\ IsFiniteSet(journals')
  <2>1. PICK f : journals' = {f[j] : j \in journals} /\ \A j \in journals : f[j] \in JournalRow
    BY SavedJournals
  <2> QED BY <2>1, ImageOfRows DEF LoadingInv
<1> HIDE DEF o
<1>4. l \in LoopVariables /\ l.at = "licence" /\ l.work = o.work
  BY <1>2 DEF LoopVariables, LoopStates
<1> HIDE DEF l
<1>5. LoopIsOwn(l)
  BY <1>1, <1>2, <1>4 DEF LoopIsOwn, NoJournal
<1> QED BY <1>1, <1>3, <1>4, <1>5, LoopStep

LEMMA JournalFailsInv ==
  ASSUME LoadingInv, NEW w \in Loaders, JournalFails(w) PROVE LoadingInv'
<1> DEFINE o == loader[w]
           l == [o EXCEPT !.at = "licence", !.hurt = o.hurt \cup {"journal"}]
<1>1. /\ o.at \in {"newJournal", "saveJournal"} /\ Goes(w, l)
      /\ UNCHANGED <<raw, journals, articles, slices>>
  BY Zenon DEF JournalFails, Reads
<1>2. o \in LoopVariables /\ LoopIsOwn(o) /\ o.hurt \cup {"journal"} \subseteq Fields
  BY LoopFields DEF LoadingInv, Fields
<1> HIDE DEF o
<1>3. l \in LoopVariables /\ l.at = "licence" /\ l.work = o.work
  BY <1>2 DEF LoopVariables, LoopStates
<1> HIDE DEF l
<1>4. LoopIsOwn(l)
  BY <1>1, <1>2, <1>3 DEF LoopIsOwn, NoJournal
<1> QED BY <1>1, <1>3, <1>4, LoopStep DEF LoadingInv

LEMMA FindLicenceInv ==
  ASSUME LoadingInv, NEW w \in Loaders, NEW raises \in BOOLEAN, FindLicence(w, raises)
  PROVE  LoadingInv'
<1> DEFINE o == loader[w]
           c == IF o.work.venue = "none" \/ raises THEN o.licence ELSE o.work.licence
           h == IF raises THEN o.hurt \cup {"licence"} ELSE o.hurt
           l == [o EXCEPT !.at = "author", !.left = o.work.authors, !.contributors = {},
                          !.licence = c, !.hurt = h]
<1>1. o \in LoopVariables /\ LoopIsOwn(o)
  BY DEF LoadingInv
<1>2. /\ o.work \in Works /\ o.licence \in Int /\ o.hurt \subseteq Fields
      /\ o.work.licence \in Nat /\ o.work.authors \in Seq(Author)
  BY <1>1, LoopFields, WorksAre
<1>3. UNCHANGED <<raw, journals, articles, slices>> /\ o.at = "licence" /\ Goes(w, l)
  BY Zenon DEF FindLicence, Reads
<1>4. c \in Int /\ h \subseteq Fields
  BY <1>2 DEF Fields
<1>5. OwnLicence(o.work, c, h)
  BY DEF OwnLicence
<1>6. NoJournal(o.work, o.journal)
  BY <1>1, <1>3 DEF LoopIsOwn
<1> HIDE DEF o, c, h
<1>7. /\ l \in LoopVariables /\ l.at = "author" /\ l.journal = o.journal /\ l.work = o.work
      /\ l.hurt = h /\ l.licence = c /\ l.left = o.work.authors /\ l.contributors = {}
  BY <1>1, <1>2, <1>4 DEF LoopVariables, LoopStates
<1> HIDE DEF l
<1>8. LoopIsOwn(l)
  BY <1>5, <1>6, <1>7 DEF LoopIsOwn
<1> QED BY <1>3, <1>7, <1>8, LoopStep DEF LoadingInv

LEMMA NextAuthorInv ==
  ASSUME LoadingInv, NEW w \in Loaders, NextAuthor(w)
  PROVE  LoadingInv'
<1> DEFINE o == loader[w]
           author == Head(o.left)
           contributor == IF author.listed = "known" THEN author.name ELSE o.contributor
           l == [o EXCEPT !.left = Tail(o.left)]
           m == [o EXCEPT !.left = Tail(o.left), !.contributor = contributor,
                          !.contributors = o.contributors \cup {contributor}]
<1>1. o \in LoopVariables /\ LoopIsOwn(o)
  BY DEF LoadingInv
<1>2. /\ o.left \in Seq(Author) /\ o.contributor \in Int /\ o.contributors \subseteq Int \ {Unbound}
  BY <1>1, LoopFields
<1>3. /\ UNCHANGED <<raw, journals, articles, slices>> /\ o.at = "author" /\ o.left # <<>>
      /\ \/ author.name = 0 /\ Goes(w, l)
         \/ author.name # 0 /\ author.listed # "unknown" /\ contributor # Unbound /\ Goes(w, m)
  BY Zenon DEF NextAuthor, Reads
<1>4. author \in Author /\ author.name \in Nat /\ Tail(o.left) \in Seq(Author)
  <2> HIDE DEF o
  <2>1. author \in Author /\ Tail(o.left) \in Seq(Author)
    BY <1>2, <1>3, TailIs
  <2> QED BY <2>1 DEF Author
<1>5. contributor \in Int
  BY <1>2, <1>4
<1>6. /\ NamesIn(o.left) = NamesIn(Tail(o.left)) \cup ({author.name} \ {0})
      /\ 0 \notin NamesIn(o.left)
  BY <1>2, <1>3, NamesInTail DEF NamesIn
<1>7. /\ AllKnown(o.work) => o.contributors \cup NamesIn(o.left) = NamesIn(o.work.authors)
      /\ \A i \in DOMAIN o.left : \E j \in DOMAIN o.work.authors : o.left[i] = o.work.authors[j]
  BY <1>1, <1>3 DEF LoopIsOwn
<1>8. \A i \in DOMAIN Tail(o.left) : \E j \in DOMAIN o.work.authors : Tail(o.left)[i] = o.work.authors[j]
  <2> HIDE DEF o
  <2>1. \A i \in DOMAIN Tail(o.left) : i + 1 \in DOMAIN o.left /\ Tail(o.left)[i] = o.left[i + 1]
    BY <1>2, <1>3, TailIs
  <2> QED BY <1>7, <2>1
<1>9. AllKnown(o.work) /\ author.name # 0 => contributor = author.name
  <2>1. \E j \in DOMAIN o.work.authors : author = o.work.authors[j]
    BY <1>2, <1>3, <1>7, TailIs
  <2> QED BY <2>1 DEF AllKnown
<1> HIDE DEF o, author, contributor
<1>10. CASE author.name = 0 /\ Goes(w, l)
  <2>1. /\ l \in LoopVariables /\ l.at = o.at /\ l.journal = o.journal /\ l.work = o.work
        /\ l.hurt = o.hurt /\ l.licence = o.licence /\ l.left = Tail(o.left)
        /\ l.contributors = o.contributors
    BY <1>1, <1>4 DEF LoopVariables
  <2> HIDE DEF l
  <2>2. LoopIsOwn(l)
    BY <1>1, <1>3, <1>6, <1>7, <1>8, <1>10, <2>1 DEF LoopIsOwn
  <2> QED BY <1>3, <1>10, <2>1, <2>2, LoopStep DEF LoadingInv
<1>11. CASE author.name # 0 /\ contributor # Unbound /\ Goes(w, m)
  <2>1. /\ m \in LoopVariables /\ m.at = o.at /\ m.journal = o.journal /\ m.work = o.work
        /\ m.hurt = o.hurt /\ m.licence = o.licence /\ m.left = Tail(o.left)
        /\ m.contributors = o.contributors \cup {contributor}
    <3>1. o.contributors \cup {contributor} \subseteq Int \ {Unbound}
      BY <1>2, <1>5, <1>11
    <3> QED BY <1>1, <1>2, <1>4, <1>5, <3>1 DEF LoopVariables
  <2> HIDE DEF m
  <2>2. AllKnown(o.work) => m.contributors \cup NamesIn(m.left) = NamesIn(o.work.authors)
    BY <1>6, <1>7, <1>9, <1>11, <2>1
  <2>3. LoopIsOwn(m)
    BY <1>1, <1>3, <1>8, <2>1, <2>2 DEF LoopIsOwn
  <2> QED BY <1>3, <1>11, <2>1, <2>3, LoopStep DEF LoadingInv
<1> QED BY <1>3, <1>10, <1>11

LEMMA FindArticleInv ==
  ASSUME LoadingInv, NEW w \in Loaders, FindArticle(w)
  PROVE  LoadingInv'
<1> DEFINE o == loader[w]
           found == FoundBy(o.work)
           n == IF found = {} THEN 0 ELSE (CHOOSE a \in found : TRUE).id
<1>1. PICK s \in {"create", "fill"} :
        /\ o.at = "author" /\ o.left = <<>> /\ UNCHANGED <<raw, journals, articles, slices>>
        /\ Goes(w, [o EXCEPT !.at = s, !.row = n])
  BY DEF FindArticle, Reads
<1> DEFINE l == [o EXCEPT !.at = s, !.row = n]
<1>2. o \in LoopVariables /\ LoopIsOwn(o)
  BY DEF LoadingInv
<1>3. n \in Int
  <2>1. CASE found # {}
    <3>1. (CHOOSE a \in found : TRUE) \in found
      BY <2>1
    <3>2. found \subseteq ArticleRow
      BY DEF FoundBy, LoadingInv
    <3>3. \A a \in ArticleRow : a.id \in Int
      BY DEF ArticleRow
    <3> QED BY <2>1, <3>1, <3>2, <3>3
  <2> QED BY <2>1
<1>4. Goes(w, l)
  BY <1>1
<1>5. OwnContributors(o.work, o.contributors)
  <2>1. NamesIn(o.left) = {}
    BY <1>1 DEF NamesIn
  <2> QED BY <1>1, <1>2, <2>1 DEF LoopIsOwn, OwnContributors
<1> HIDE DEF o, n
<1>6. /\ l \in LoopVariables /\ l.at = s /\ l.journal = o.journal /\ l.work = o.work
      /\ l.hurt = o.hurt /\ l.licence = o.licence /\ l.contributors = o.contributors
  BY <1>2, <1>3 DEF LoopVariables, LoopStates
<1> HIDE DEF l
<1>7. LoopIsOwn(l)
  BY <1>1, <1>2, <1>5, <1>6 DEF LoopIsOwn
<1> QED BY <1>1, <1>4, <1>6, <1>7, LoopStep DEF LoadingInv

\* A step of the loop of one worker that writes articles.
LEMMA RowsStep ==
  ASSUME LoadingInv, NEW w \in Loaders, NEW l \in LoopVariables, Goes(w, l), LoopIsOwn(l),
         UNCHANGED <<raw, journals, slices>>, articles' \subseteq ArticleRow, IsFiniteSet(articles'),
         \A a \in articles' : RowIsOwn(a)
  PROVE  LoadingInv'
<1>1. loader' \in [Loaders -> LoopVariables] /\ loader'[w] = l
      /\ \A v \in Loaders \ {w} : loader'[v] = loader[v]
  BY DEF LoadingInv, Goes
<1> QED BY <1>1 DEF LoadingInv

LEMMA CreateArticleInv ==
  ASSUME LoadingInv, NEW w \in Loaders, CreateArticle(w)
  PROVE  LoadingInv'
<1> DEFINE o == loader[w]
           id == Cardinality(articles) + 1
           l == [o EXCEPT !.at = "fill", !.row = id]
           new == [id |-> id, doi |-> 0, title |-> 0, journal |-> 0, licence |-> 0,
                   contributors |-> {}, work |-> NoRaw, hurt |-> {}, loads |-> {}]
<1>1. o.at = "create" /\ articles' = articles \cup {new} /\ Goes(w, l) /\ UNCHANGED <<raw, journals, slices>>
  BY Zenon DEF CreateArticle
<1>2. o \in LoopVariables /\ LoopIsOwn(o)
  BY DEF LoadingInv
<1>3. id \in Nat
  BY FS_CardinalityType DEF LoadingInv
<1> HIDE DEF o, id
<1>4. /\ l \in LoopVariables /\ l.at = "fill" /\ l.journal = o.journal /\ l.work = o.work
      /\ l.hurt = o.hurt /\ l.licence = o.licence /\ l.contributors = o.contributors
  <2>1. o \in LoopVariables /\ id \in Int /\ "fill" \in LoopStates
    BY <1>2, <1>3 DEF LoopStates
  <2> QED BY <2>1 DEF LoopVariables
<1>5. new \in ArticleRow
  BY <1>3 DEF ArticleRow, Works
<1>6. RowIsOwn(new)
  BY NoRawIs DEF RowIsOwn, NoJournal, OwnLicence
<1> HIDE DEF l, new
<1>7. LoopIsOwn(l)
  BY <1>1, <1>2, <1>4 DEF LoopIsOwn
<1>8. IsFiniteSet(articles')
  BY <1>1, FS_AddElement DEF LoadingInv
<1>9. articles' \subseteq ArticleRow /\ \A a \in articles' : RowIsOwn(a)
  BY <1>1, <1>5, <1>6 DEF LoadingInv
<1> QED BY <1>1, <1>4, <1>7, <1>8, <1>9, RowsStep

\* The rows of articles after one was filled.
LEMMA FilledArticles ==
  ASSUME LoadingInv, NEW w \in Loaders, FillArticle(w)
  PROVE  \E f : /\ articles' = {f[a] : a \in articles}
                /\ \A a \in articles :
                     /\ f[a] \in ArticleRow /\ f[a].id = a.id
                     /\ a.id # loader[w].row => f[a] = a
                     /\ a.id = loader[w].row =>
                          /\ f[a].journal = loader[w].journal /\ f[a].licence = loader[w].licence
                          /\ f[a].work = loader[w].work /\ f[a].hurt = loader[w].hurt
                          /\ f[a].contributors = a.contributors /\ f[a].loads = a.loads
<1> DEFINE o == loader[w]
           Filled(a) == [a EXCEPT !.doi = o.work.doi, !.title = o.work.title, !.journal = o.journal,
                                  !.licence = o.licence, !.work = o.work, !.hurt = o.hurt]
           f == [a \in articles |-> IF a.id # o.row THEN a ELSE Filled(a)]
<1>1. articles' = {f[a] : a \in articles}
  BY DEF FillArticle
<1>2. /\ o.work.doi \in Int /\ o.work.title \in Int /\ o.journal \in Int /\ o.licence \in Int
      /\ o.work \in Works /\ o.hurt \subseteq Fields
  <2>1. o \in LoopVariables
    BY DEF LoadingInv
  <2> QED BY <2>1, LoopFields, WorksAre
<1> HIDE DEF o
<1>3. ASSUME NEW a \in articles
      PROVE  /\ Filled(a) \in ArticleRow /\ Filled(a).id = a.id
             /\ Filled(a).journal = o.journal /\ Filled(a).licence = o.licence
             /\ Filled(a).work = o.work /\ Filled(a).hurt = o.hurt
             /\ Filled(a).contributors = a.contributors /\ Filled(a).loads = a.loads
  <2>1. a \in ArticleRow
    BY DEF LoadingInv
  <2> QED BY <1>2, <2>1 DEF ArticleRow
<1> HIDE DEF Filled
<1>4. \A a \in articles : f[a] = IF a.id # o.row THEN a ELSE Filled(a)
  OBVIOUS
<1> HIDE DEF f
<1>5. articles \subseteq ArticleRow
  BY DEF LoadingInv
<1> QED BY <1>1, <1>3, <1>4, <1>5 DEF o

LEMMA FillArticleInv ==
  ASSUME LoadingInv, NEW w \in Loaders, FillArticle(w)
  PROVE  LoadingInv'
<1> DEFINE o == loader[w]
           l == [o EXCEPT !.at = "link"]
<1>1. o.at = "fill" /\ Goes(w, l) /\ UNCHANGED <<raw, journals, slices>>
  BY Zenon DEF FillArticle
<1>2. o \in LoopVariables /\ LoopIsOwn(o)
  BY DEF LoadingInv
<1>3. PICK f : /\ articles' = {f[a] : a \in articles}
               /\ \A a \in articles :
                    /\ f[a] \in ArticleRow
                    /\ a.id # o.row => f[a] = a
                    /\ a.id = o.row =>
                         /\ f[a].journal = o.journal /\ f[a].licence = o.licence
                         /\ f[a].work = o.work /\ f[a].hurt = o.hurt
                         /\ f[a].contributors = a.contributors /\ f[a].loads = a.loads
  BY FilledArticles
<1> HIDE DEF o
<1>4. /\ l \in LoopVariables /\ l.at = "link" /\ l.journal = o.journal /\ l.work = o.work
      /\ l.hurt = o.hurt /\ l.licence = o.licence /\ l.contributors = o.contributors
  BY <1>2 DEF LoopVariables, LoopStates
<1> HIDE DEF l
<1>5. LoopIsOwn(l)
  BY <1>1, <1>2, <1>4 DEF LoopIsOwn
<1>6. IsFiniteSet(articles') /\ articles' \subseteq ArticleRow
  BY <1>3, ImageOfRows DEF LoadingInv
<1>7. ASSUME NEW a \in articles PROVE RowIsOwn(f[a])
  <2>1. RowIsOwn(a)
    BY DEF LoadingInv
  <2>2. NoJournal(o.work, o.journal) /\ OwnLicence(o.work, o.licence, o.hurt)
    BY <1>1, <1>2 DEF LoopIsOwn
  <2>3. CASE a.id = o.row
    BY <1>3, <2>1, <2>2, <2>3 DEF RowIsOwn
  <2> QED BY <1>3, <2>1, <2>3
<1>8. \A a \in articles' : RowIsOwn(a)
  BY <1>3, <1>7
<1> QED BY <1>1, <1>4, <1>5, <1>6, <1>8, RowsStep

\* The rows of articles after contributors were linked to one.
LEMMA LinkedArticles ==
  ASSUME LoadingInv, NEW w \in Loaders, LinkContributors(w)
  PROVE  \E f : /\ articles' = {f[a] : a \in articles}
                /\ \A a \in articles :
                     /\ f[a] \in ArticleRow /\ f[a].id = a.id
                     /\ f[a].journal = a.journal /\ f[a].licence = a.licence
                     /\ f[a].work = a.work /\ f[a].hurt = a.hurt
                     /\ \/ f[a].contributors = a.contributors /\ f[a].loads = a.loads
                        \/ /\ f[a].contributors = a.contributors \cup loader[w].contributors
                           /\ f[a].loads = a.loads \cup {loader[w].work}
<1> DEFINE o == loader[w]
           Linked(a) == [a EXCEPT !.contributors = a.contributors \cup o.contributors,
                                  !.loads = a.loads \cup {o.work}]
           f == [a \in articles |-> IF a.id # o.row THEN a ELSE Linked(a)]
<1>1. articles' = {f[a] : a \in articles}
  BY DEF LinkContributors
<1>2. o.work \in Works /\ o.contributors \subseteq Int
  <2>1. o \in LoopVariables
    BY DEF LoadingInv
  <2> QED BY <2>1, LoopFields
<1> HIDE DEF o
<1>3. ASSUME NEW a \in articles
      PROVE  /\ Linked(a) \in ArticleRow /\ Linked(a).id = a.id
             /\ Linked(a).journal = a.journal /\ Linked(a).licence = a.licence
             /\ Linked(a).work = a.work /\ Linked(a).hurt = a.hurt
             /\ Linked(a).contributors = a.contributors \cup o.contributors
             /\ Linked(a).loads = a.loads \cup {o.work}
  <2>1. a \in ArticleRow
    BY DEF LoadingInv
  <2>2. a.contributors \cup o.contributors \subseteq Int /\ a.loads \cup {o.work} \subseteq Works
    BY <1>2, <2>1 DEF ArticleRow
  <2> QED BY <2>1, <2>2 DEF ArticleRow
<1> HIDE DEF Linked
<1>4. \A a \in articles : f[a] = IF a.id # o.row THEN a ELSE Linked(a)
  OBVIOUS
<1> HIDE DEF f
<1>5. articles \subseteq ArticleRow
  BY DEF LoadingInv
<1> QED BY <1>1, <1>3, <1>4, <1>5 DEF o

LEMMA LinkContributorsInv ==
  ASSUME LoadingInv, NEW w \in Loaders, LinkContributors(w)
  PROVE  LoadingInv'
<1> DEFINE o == loader[w]
           l == [o EXCEPT !.at = "next"]
<1>1. o.at = "link" /\ Goes(w, l) /\ UNCHANGED <<raw, journals, slices>>
  BY Zenon DEF LinkContributors
<1>2. o \in LoopVariables /\ LoopIsOwn(o)
  BY DEF LoadingInv
<1>3. PICK f : /\ articles' = {f[a] : a \in articles}
               /\ \A a \in articles :
                    /\ f[a] \in ArticleRow
                    /\ f[a].journal = a.journal /\ f[a].licence = a.licence
                    /\ f[a].work = a.work /\ f[a].hurt = a.hurt
                    /\ \/ f[a].contributors = a.contributors /\ f[a].loads = a.loads
                       \/ /\ f[a].contributors = a.contributors \cup o.contributors
                          /\ f[a].loads = a.loads \cup {o.work}
  BY LinkedArticles
<1> HIDE DEF o
<1>4. l \in LoopVariables /\ l.at = "next"
  BY <1>2 DEF LoopVariables, LoopStates
<1> HIDE DEF l
<1>5. LoopIsOwn(l)
  BY <1>4 DEF LoopIsOwn
<1>6. IsFiniteSet(articles') /\ articles' \subseteq ArticleRow
  BY <1>3, ImageOfRows DEF LoadingInv
<1>7. ASSUME NEW a \in articles PROVE RowIsOwn(f[a])
  <2>1. RowIsOwn(a)
    BY DEF LoadingInv
  <2>2. AllKnown(o.work) => o.contributors = NamesIn(o.work.authors)
    BY <1>1, <1>2 DEF LoopIsOwn, OwnContributors
  <2>3. NoJournal(f[a].work, f[a].journal) /\ OwnLicence(f[a].work, f[a].licence, f[a].hurt)
    BY <1>3, <2>1 DEF RowIsOwn
  <2>4. (\A work \in f[a].loads : AllKnown(work)) =>
          f[a].contributors = UNION {NamesIn(work.authors) : work \in f[a].loads}
    <3>1. CASE f[a].contributors = a.contributors /\ f[a].loads = a.loads
      BY <2>1, <3>1 DEF RowIsOwn
    <3>2. CASE /\ f[a].contributors = a.contributors \cup o.contributors
               /\ f[a].loads = a.loads \cup {o.work}
      <4> DEFINE c == a.contributors
                 k == a.loads
      <4>1. (\A work \in k : AllKnown(work)) => c = UNION {NamesIn(work.authors) : work \in k}
        BY <2>1 DEF RowIsOwn
      <4> HIDE DEF c, k
      <4>2. (\A work \in k \cup {o.work} : AllKnown(work)) =>
              c \cup o.contributors = UNION {NamesIn(work.authors) : work \in k \cup {o.work}}
        <5> SUFFICES ASSUME \A work \in k \cup {o.work} : AllKnown(work)
                     PROVE  c \cup o.contributors = UNION {NamesIn(work.authors) : work \in k \cup {o.work}}
          OBVIOUS
        <5>1. c = UNION {NamesIn(work.authors) : work \in k} /\ o.contributors = NamesIn(o.work.authors)
          BY <2>2, <4>1
        <5> QED BY <5>1
      <4> QED BY <3>2, <4>2 DEF c, k
    <3> QED BY <1>3, <3>1, <3>2
  <2> QED BY <2>3, <2>4 DEF RowIsOwn
<1>8. \A a \in articles' : RowIsOwn(a)
  BY <1>3, <1>7
<1> QED BY <1>1, <1>4, <1>5, <1>6, <1>8, RowsStep

LEMMA LeaveArticleInv ==
  ASSUME LoadingInv, NEW w \in Loaders, LoadFails(w) \/ EndSlice(w) \/ LoseSlice(w)
  PROVE  LoadingInv'
<1> DEFINE l == [loader[w] EXCEPT !.at = "next"]
<1>1. UNCHANGED <<raw, journals, articles, slices>> /\ (Goes(w, l) \/ Goes(w, Waits))
  BY DEF LoadFails, EndSlice, LoseSlice, Reads
<1>2. loader[w] \in LoopVariables
  BY DEF LoadingInv
<1>3. l \in LoopVariables /\ l.at = "next"
  BY <1>2 DEF LoopVariables, LoopStates
<1> HIDE DEF l
<1>4. LoopIsOwn(l)
  BY <1>3 DEF LoopIsOwn
<1> QED BY <1>1, <1>3, <1>4, WaitsIs, LoopStep DEF LoadingInv

LEMMA LoadingNextInv == ASSUME LoadingInv, [LoadingNext]_loadingVars PROVE LoadingInv'
<1>1. ASSUME NEW s \in SourceIds, NEW r \in Raws, StoreWork(s, r) PROVE LoadingInv'
  BY <1>1 DEF StoreWork, LoadingInv, Works
<1>2. CASE UNCHANGED loadingVars
  BY <1>2 DEF loadingVars, LoadingInv
<1> QED BY <1>1, <1>2, SendInv, TakeSliceInv, WithoutPlaceInv, FindJournalInv, MakeJournalInv,
           SaveJournalInv, JournalFailsInv, FindLicenceInv, BeginArticleInv, NextAuthorInv,
           FindArticleInv, CreateArticleInv, FillArticleInv, LinkContributorsInv, LeaveArticleInv
           DEF LoadingNext

\* Rows are numbered as they are made.
Numbered(rows) ==
  /\ \A a \in rows : a.id <= Cardinality(rows)
  /\ \A a, b \in rows : a.id = b.id => a = b

\* Rows written in the place of others, whose ids they keep.
LEMMA NumbersKept ==
  ASSUME NEW rows, IsFiniteSet(rows), Numbered(rows), NEW f, NEW written,
         written = {f[a] : a \in rows}, \A a \in rows : f[a].id = a.id
  PROVE  Numbered(written)
<1> DEFINE g == [a \in rows |-> f[a]]
<1>1. g \in Surjection(rows, written) /\ g \in Injection(rows, written)
  <2>1. g \in [rows -> written] /\ \A b \in written : \E a \in rows : g[a] = b
    OBVIOUS
  <2>2. ASSUME NEW a \in rows, NEW b \in rows, g[a] = g[b] PROVE a = b
    <3>1. f[a] = f[b]
      BY <2>2
    <3> QED BY <3>1 DEF Numbered
  <2> HIDE DEF g
  <2>3. g \in Surjection(rows, written)
    BY <2>1 DEF Surjection
  <2>4. g \in Injection(rows, written)
    BY <2>1, <2>2, Zenon DEF Injection, IsInjective
  <2> QED BY <2>3, <2>4
<1>2. Cardinality(written) = Cardinality(rows)
  BY <1>1, FS_Surjection
<1>3. \A a, b \in rows : f[a].id = f[b].id => f[a] = f[b]
  BY DEF Numbered
<1>4. \A a \in rows : f[a].id <= Cardinality(written)
  BY <1>2 DEF Numbered
<1> QED BY <1>3, <1>4 DEF Numbered

LEMMA NumbersGrow ==
  ASSUME NEW rows, IsFiniteSet(rows), Numbered(rows), \A a \in rows : a.id \in Nat,
         NEW new, new.id = Cardinality(rows) + 1
  PROVE  Numbered(rows \cup {new})
<1>1. Cardinality(rows) \in Nat
  BY FS_CardinalityType
<1>2. new \notin rows
  BY <1>1 DEF Numbered
<1>3. Cardinality(rows \cup {new}) = Cardinality(rows) + 1
  BY <1>2, FS_AddElement
<1> QED BY <1>1, <1>3 DEF Numbered

RowIds == Numbered(articles) /\ Numbered(journals)

LEMMA RowIdsStep ==
  ASSUME LoadingInv, RowIds, [LoadingNext]_loadingVars PROVE RowIds'
<1>1. /\ IsFiniteSet(articles) /\ \A a \in articles : a.id \in Nat
      /\ IsFiniteSet(journals) /\ \A j \in journals : j.id \in Nat
  BY DEF LoadingInv, ArticleRow, JournalRow
<1>2. ASSUME NEW w \in Loaders, CreateArticle(w) PROVE RowIds'
  <2> DEFINE new == [id |-> Cardinality(articles) + 1, doi |-> 0, title |-> 0, journal |-> 0,
                     licence |-> 0, contributors |-> {}, work |-> NoRaw, hurt |-> {}, loads |-> {}]
  <2>1. articles' = articles \cup {new} /\ UNCHANGED journals /\ new.id = Cardinality(articles) + 1
    BY <1>2 DEF CreateArticle
  <2> HIDE DEF new
  <2> QED BY <1>1, <2>1, NumbersGrow DEF RowIds
<1>3. ASSUME NEW w \in Loaders, FillArticle(w) PROVE RowIds'
  <2>1. PICK f : articles' = {f[a] : a \in articles} /\ \A a \in articles : f[a].id = a.id
    BY <1>3, FilledArticles
  <2>2. UNCHANGED journals
    BY <1>3, Zenon DEF FillArticle
  <2> QED BY <1>1, <2>1, <2>2, NumbersKept DEF RowIds
<1>4. ASSUME NEW w \in Loaders, LinkContributors(w) PROVE RowIds'
  <2>1. PICK f : articles' = {f[a] : a \in articles} /\ \A a \in articles : f[a].id = a.id
    BY <1>4, LinkedArticles
  <2>2. UNCHANGED journals
    BY <1>4, Zenon DEF LinkContributors
  <2> QED BY <1>1, <2>1, <2>2, NumbersKept DEF RowIds
<1>5. ASSUME NEW w \in Loaders, MakeJournal(w) PROVE RowIds'
  <2> DEFINE new == [id |-> Cardinality(journals) + 1, issns |-> <<>>, name |-> 0]
  <2>1. journals' = journals \cup {new} /\ UNCHANGED articles /\ new.id = Cardinality(journals) + 1
    BY <1>5 DEF MakeJournal
  <2> HIDE DEF new
  <2> QED BY <1>1, <2>1, NumbersGrow DEF RowIds
<1>6. ASSUME NEW w \in Loaders, SaveJournal(w) PROVE RowIds'
  <2>1. PICK f : journals' = {f[j] : j \in journals} /\ \A j \in journals : f[j].id = j.id
    BY <1>6, SavedJournals
  <2>2. UNCHANGED articles
    BY <1>6, Zenon DEF SaveJournal
  <2> QED BY <1>1, <2>1, <2>2, NumbersKept DEF RowIds
<1>7. ASSUME NEW w \in Loaders,
             \/ \E slice \in slices : TakeSlice(w, slice)
             \/ \E raises \in BOOLEAN : FindJournal(w, raises) \/ FindLicence(w, raises)
             \/ WithoutPlace(w) \/ JournalFails(w) \/ BeginArticle(w) \/ NextAuthor(w)
             \/ FindArticle(w) \/ LoadFails(w) \/ EndSlice(w) \/ LoseSlice(w)
      PROVE  RowIds'
  <2>1. UNCHANGED <<articles, journals>>
    BY <1>7, Zenon DEF TakeSlice, FindJournal, FindLicence, WithoutPlace, JournalFails, BeginArticle,
                       NextAuthor, FindArticle, LoadFails, EndSlice, LoseSlice, Reads
  <2> QED BY <2>1 DEF RowIds
<1>8. CASE (\E s \in SourceIds, r \in Raws : StoreWork(s, r)) \/ SendSlices \/ CallUpdate
           \/ UNCHANGED loadingVars
  <2>1. UNCHANGED <<articles, journals>>
    BY <1>8, Zenon DEF StoreWork, SendSlices, CallUpdate, loadingVars
  <2> QED BY <2>1 DEF RowIds
<1> QED BY <1>2, <1>3, <1>4, <1>5, <1>6, <1>7, <1>8 DEF LoadingNext

LoadingCounts == reloads \in 0 .. MaxReloads /\ calls \in 0 .. MaxCalls

LEMMA CountsStep == ASSUME LoadingCounts, [LoadingNext]_loadingVars PROVE LoadingCounts'
<1>1. CASE (\E s \in SourceIds, r \in Raws : StoreWork(s, r)) \/ SendSlices \/ CallUpdate
  <2>1. \/ reloads < MaxReloads /\ reloads' = reloads + 1 /\ calls' = calls
        \/ calls < MaxCalls /\ calls' = calls + 1 /\ reloads' = reloads
    BY <1>1, Zenon DEF StoreWork, SendSlices, CallUpdate
  <2> QED BY <2>1, LoadingAssumption DEF LoadingCounts
<1>2. ASSUME NEW w \in Loaders,
             \/ \E slice \in slices : TakeSlice(w, slice)
             \/ \E raises \in BOOLEAN : FindJournal(w, raises) \/ FindLicence(w, raises)
             \/ WithoutPlace(w) \/ MakeJournal(w) \/ SaveJournal(w) \/ JournalFails(w)
             \/ BeginArticle(w) \/ NextAuthor(w) \/ FindArticle(w) \/ CreateArticle(w)
             \/ FillArticle(w) \/ LinkContributors(w) \/ LoadFails(w) \/ EndSlice(w) \/ LoseSlice(w)
      PROVE  LoadingCounts'
  <2>1. UNCHANGED <<reloads, calls>>
    BY <1>2, Zenon DEF TakeSlice, FindJournal, FindLicence, WithoutPlace, MakeJournal, SaveJournal,
                  JournalFails, BeginArticle, NextAuthor, FindArticle, CreateArticle, FillArticle, LinkContributors, LoadFails, EndSlice, LoseSlice, Reads
  <2> QED BY <2>1 DEF LoadingCounts
<1>3. CASE UNCHANGED loadingVars
  BY <1>3 DEF loadingVars, LoadingCounts
<1> QED BY <1>1, <1>2, <1>3 DEF LoadingNext

\* The types of the rows and of the variables of the loop.
THEOREM LoadingTypeCorrect == LoadingSpec => []LoadingTypeOK
<1>1. LoadingInit => RowIds /\ LoadingCounts
  BY LoadingAssumption DEF LoadingInit, RowIds, Numbered, LoadingCounts
<1>2. LoadingInv /\ RowIds /\ LoadingCounts => LoadingTypeOK
  <2> SUFFICES ASSUME LoadingInv, RowIds, LoadingCounts PROVE LoadingTypeOK
    OBVIOUS
  <2>1. ASSUME NEW w \in Loaders
        PROVE  /\ loader[w].at \in LoopStates /\ loader[w].hurt \subseteq Fields
               /\ Unbound \notin loader[w].contributors
    <3>1. loader[w] \in LoopVariables
      BY DEF LoadingInv
    <3> QED BY <3>1, LoopFields
  <2> QED BY <2>1 DEF LoadingInv, RowIds, Numbered, LoadingCounts, LoadingTypeOK, LoopStates, Fields, Works
<1> QED BY <1>1, <1>2, LoadingInitInv, LoadingNextInv, RowIdsStep, CountsStep, PTL DEF LoadingSpec

(***************************************************************************)
(* The journals of articles whose sources list ISSNs                       *)
(***************************************************************************)

\* A row found has the ISSNs the loop has among its own.
LoopFits(l) ==
  /\ l.at \in {"newJournal", "saveJournal"} =>
       l.issns # <<>> /\ (l.work.venue = "journal" => l.issns = l.work.issns)
  /\ l.at = "saveJournal" =>
       \E j \in journals : j.id = l.row /\ (j.issns = <<>> \/ ToSet(l.issns) \subseteq ToSet(j.issns))
  /\ l.at \in {"licence", "author", "create", "fill", "link"} /\ l.work.venue = "journal"
       /\ "journal" \notin l.hurt => Describes(l.journal, l.work)

RowFits(a) == a.work.venue = "journal" /\ "journal" \notin a.hurt => Describes(a.journal, a.work)

JournalsFit == (\A w \in Loaders : LoopFits(loader[w])) /\ \A a \in articles : RowFits(a)

LEMMA SubSeqsAreParts ==
  ASSUME NEW t \in Seq(Nat), NEW s \in SubSeqs(t)
  PROVE  ToSet(s) \subseteq ToSet(t)
<1>1. PICK i \in 0 .. Len(t), j \in 0 .. Len(t) : s = SubSeq(t, i + 1, j)
  BY DEF SubSeqs
<1>2. \A k \in DOMAIN s : i + k \in DOMAIN t /\ s[k] = t[i + k]
  <2>1. s = [k \in 1 .. j - (i + 1) + 1 |-> t[i + 1 + k - 1]]
    BY <1>1
  <2> QED BY <2>1
<1> QED BY <1>2 DEF ToSet

LEMMA DescribesKept ==
  ASSUME journals \subseteq journals', NEW id, NEW work, Describes(id, work)
  PROVE  Describes(id, work)'
BY DEF Describes

\* A step of the one loop that keeps the rows of journals, or adds some, and the articles.
LEMMA FitsStep ==
  ASSUME LoadingInv, OneLoader, JournalsFit, journals \subseteq journals', UNCHANGED articles,
         NEW w \in Loaders, NEW l \in LoopVariables, Goes(w, l), LoopFits(l)'
  PROVE  JournalsFit'
<1>1. \A a \in articles : RowFits(a)'
  BY DescribesKept DEF JournalsFit, RowFits
<1>2. loader'[w] = l /\ \A v \in Loaders : v = w
  BY DEF Goes, LoadingInv, OneLoader
<1>3. \A v \in Loaders : LoopFits(loader[v])'
  BY <1>2 DEF LoopFits
<1> QED BY <1>1, <1>3 DEF JournalsFit

LEMMA OneLoaderFits ==
  ASSUME OneLoader, NEW w \in Loaders, LoopFits(loader[w])', \A a \in articles' : RowFits(a)'
  PROVE  JournalsFit'
BY DEF OneLoader, JournalsFit

\* The journal that the loop has fits after a step that changes neither it nor the work.
LEMMA FitsOn ==
  ASSUME NEW o, LoopFits(o), journals \subseteq journals',
         o.at \in {"licence", "author", "create", "fill", "link"},
         NEW l, l.at \in {"author", "create", "fill", "link"},
         l.work = o.work, l.journal = o.journal, o.hurt \subseteq l.hurt
  PROVE  LoopFits(l)'
<1>1. o.work.venue = "journal" /\ "journal" \notin l.hurt => Describes(l.journal, l.work)'
  BY DescribesKept DEF LoopFits
<1> QED BY <1>1 DEF LoopFits

LEMMA FitsIdle ==
  ASSUME NEW l, \/ l.at \in {"idle", "next", "journal"}
                \/ l.at = "licence" /\ (l.work.venue = "none" \/ "journal" \in l.hurt)
  PROVE  LoopFits(l)'
BY DEF LoopFits

LEMMA JournalStepsFit ==
  ASSUME LoadingInv, OneLoader, JournalsFit, NEW w \in Loaders,
         WithoutPlace(w) \/ JournalFails(w) \/ \E raises \in BOOLEAN : FindJournal(w, raises)
  PROVE  JournalsFit'
<1>0. PICK o : o = loader[w]
  OBVIOUS
<1>1. o \in LoopVariables /\ o.hurt \subseteq Fields
  BY <1>0, LoopFields DEF LoadingInv
<1>2. UNCHANGED <<journals, articles>>
  BY Zenon DEF WithoutPlace, JournalFails, FindJournal, Reads
<1>3. CASE WithoutPlace(w)
  <2> DEFINE k == [o EXCEPT !.at = "licence"]
             l == [k EXCEPT !.journal = 0]
  <2>1. Goes(w, l) /\ o.work.venue = "none"
    BY <1>0, <1>3 DEF WithoutPlace
  <2>2. l \in LoopVariables /\ l.at = "licence" /\ l.work = o.work
    <3>1. "licence" \in LoopStates /\ 0 \in Int
      BY DEF LoopStates
    <3>2. /\ k \in LoopVariables /\ k.at = "licence" /\ k.work = o.work /\ k.issns = o.issns
      BY <1>1, <3>1 DEF LoopVariables
    <3> HIDE DEF k
    <3> QED BY <1>1, <3>1, <3>2 DEF LoopVariables
  <2> HIDE DEF l
  <2> QED BY <1>2, <2>1, <2>2, FitsIdle, FitsStep
<1>4. CASE JournalFails(w)
  <2> DEFINE l == [o EXCEPT !.at = "licence", !.hurt = o.hurt \cup {"journal"}]
  <2>1. Goes(w, l)
    BY <1>0, <1>4 DEF JournalFails
  <2>2. l \in LoopVariables /\ l.at = "licence" /\ "journal" \in l.hurt
    BY <1>1 DEF LoopVariables, LoopStates, Fields
  <2> HIDE DEF l
  <2> QED BY <1>2, <2>1, <2>2, FitsIdle, FitsStep
<1>5. ASSUME NEW raises \in BOOLEAN, FindJournal(w, raises) PROVE JournalsFit'
  <2>1. PICK l \in LoopVariables :
           /\ Goes(w, l) /\ l.work.venue # "none"
           /\ \/ l.at = "licence" /\ "journal" \in l.hurt
              \/ /\ l.at \in {"newJournal", "saveJournal"} /\ l.issns # <<>>
                 /\ l.work.venue = "journal" => l.issns = l.work.issns
                 /\ l.at = "saveJournal" =>
                      \E j \in journals : j.id = l.row /\ l.issns \in SubSeqs(j.issns)
    BY <1>5, FindJournalIs
  <2>2. \A j \in journals : l.issns \in SubSeqs(j.issns) => ToSet(l.issns) \subseteq ToSet(j.issns)
    BY SubSeqsAreParts DEF LoadingInv, JournalRow
  <2>3. CASE l.at = "licence"
    BY <1>2, <2>1, <2>3, FitsIdle, FitsStep
  <2>4. CASE l.at \in {"newJournal", "saveJournal"}
    <3>1. LoopFits(l)'
      BY <1>2, <2>1, <2>2, <2>4 DEF LoopFits
    <3> QED BY <1>2, <2>1, <3>1, FitsStep
  <2> QED BY <2>1, <2>3, <2>4
<1> QED BY <1>3, <1>4, <1>5

LEMMA MakeJournalFits ==
  ASSUME LoadingInv, OneLoader, JournalsFit, NEW w \in Loaders, MakeJournal(w)
  PROVE  JournalsFit'
<1>0. PICK o, id : o = loader[w] /\ id = Cardinality(journals) + 1
  OBVIOUS
<1> DEFINE new == [id |-> id, issns |-> <<>>, name |-> 0]
           k == [o EXCEPT !.at = "saveJournal"]
           l == [k EXCEPT !.row = id]
<1>1. o.at = "newJournal" /\ Goes(w, l) /\ UNCHANGED articles /\ journals' = journals \cup {new}
  BY <1>0 DEF MakeJournal
<1>2. o \in LoopVariables /\ LoopFits(o) /\ id \in Nat
  BY <1>0, FS_CardinalityType DEF LoadingInv, JournalsFit
<1>3. new.id = id /\ new.issns = <<>>
  OBVIOUS
<1> HIDE DEF new
<1>4. /\ l \in LoopVariables /\ l.at = "saveJournal" /\ l.work = o.work /\ l.issns = o.issns
      /\ l.row = id
  <2>1. "saveJournal" \in LoopStates /\ id \in Int
    BY <1>2 DEF LoopStates
  <2>2. /\ k \in LoopVariables /\ k.at = "saveJournal" /\ k.work = o.work /\ k.issns = o.issns
    BY <1>2, <2>1 DEF LoopVariables
  <2> HIDE DEF k
  <2> QED BY <1>2, <2>1, <2>2 DEF LoopVariables
<1> HIDE DEF l
<1>5. LoopFits(l)'
  <2>1. l.issns # <<>> /\ (l.work.venue = "journal" => l.issns = l.work.issns)
    BY <1>1, <1>2, <1>4 DEF LoopFits
  <2>2. new \in journals'
    BY <1>1
  <2> QED BY <1>3, <1>4, <2>1, <2>2 DEF LoopFits
<1> QED BY <1>1, <1>4, <1>5, FitsStep

\* A row that is written over keeps a part of the ISSNs it had.
LEMMA SaveJournalFits ==
  ASSUME LoadingInv, RowIds, OneLoader, JournalsFit, NEW w \in Loaders, SaveJournal(w)
  PROVE  JournalsFit'
<1>0. PICK o : o = loader[w]
  OBVIOUS
<1> DEFINE l == [o EXCEPT !.at = "licence", !.journal = o.row]
<1>1. o.at = "saveJournal" /\ Goes(w, l) /\ UNCHANGED articles
  BY <1>0 DEF SaveJournal
<1>2. o \in LoopVariables /\ LoopFits(o) /\ o.row \in Int
  BY <1>0, LoopFields DEF LoadingInv, JournalsFit
<1>3. PICK f : /\ journals' = {f[j] : j \in journals}
               /\ \A j \in journals :
                    /\ f[j].id = j.id
                    /\ f[j].issns = IF j.id = o.row THEN o.issns ELSE j.issns
  BY <1>0, SavedJournals
<1>4. PICK k \in journals : k.id = o.row /\ (k.issns = <<>> \/ ToSet(o.issns) \subseteq ToSet(k.issns))
  BY <1>1, <1>2 DEF LoopFits
<1>5. o.issns # <<>> /\ (o.work.venue = "journal" => o.issns = o.work.issns)
  BY <1>1, <1>2 DEF LoopFits
<1>6. ASSUME NEW id, NEW work, Describes(id, work) PROVE Describes(id, work)'
  <2>1. PICK j \in journals : j.id = id /\ j.issns # <<>> /\ ToSet(j.issns) \subseteq ToSet(work.issns)
    BY <1>6 DEF Describes
  <2>2. f[j] \in journals' /\ f[j].id = id
    BY <1>3, <2>1
  <2>3. CASE j.id = o.row
    <3>1. j = k
      BY <1>4, <2>3 DEF RowIds, Numbered
    <3>2. f[j].issns # <<>> /\ ToSet(f[j].issns) \subseteq ToSet(work.issns)
      BY <1>3, <1>4, <1>5, <2>1, <2>3, <3>1
    <3> QED BY <2>2, <3>2 DEF Describes
  <2>4. CASE j.id # o.row
    BY <1>3, <2>1, <2>2, <2>4 DEF Describes
  <2> QED BY <2>3, <2>4
<1>7. \A a \in articles : RowFits(a)'
  BY <1>1, <1>6 DEF JournalsFit, RowFits
<1>8. /\ l.at = "licence" /\ l.work = o.work /\ l.journal = o.row /\ l \in LoopVariables
  <2>1. "licence" \in LoopStates
    BY DEF LoopStates
  <2> QED BY <1>2, <2>1 DEF LoopVariables
<1> HIDE DEF l
<1>9. LoopFits(l)'
  <2>1. o.work.venue = "journal" => Describes(o.row, o.work)'
    <3>1. f[k] \in journals' /\ f[k].id = o.row /\ f[k].issns = o.issns
      BY <1>3, <1>4
    <3> QED BY <1>5, <3>1 DEF Describes
  <2> QED BY <1>8, <2>1 DEF LoopFits
<1>10. loader'[w] = l
  BY <1>1 DEF Goes, LoadingInv
<1>11. LoopFits(loader[w])'
  BY <1>9, <1>10 DEF LoopFits
<1> QED BY <1>1, <1>7, <1>11, OneLoaderFits

LEMMA LoopStepsFit ==
  ASSUME LoadingInv, OneLoader, JournalsFit, NEW w \in Loaders,
         \/ \E raises \in BOOLEAN : FindLicence(w, raises)
         \/ NextAuthor(w) \/ FindArticle(w)
  PROVE  JournalsFit'
<1>0. PICK o : o = loader[w]
  OBVIOUS
<1>1. o \in LoopVariables /\ LoopFits(o)
  BY <1>0 DEF LoadingInv, JournalsFit
<1>2. UNCHANGED <<journals, articles>>
  BY Zenon DEF FindLicence, NextAuthor, FindArticle, Reads
<1>3. loader'[w] \in LoopVariables
  BY FindLicenceInv, NextAuthorInv, FindArticleInv DEF LoadingInv
<1>4. PICK l \in LoopVariables : l = loader'[w]
  BY <1>3
<1>5. \A x : Goes(w, x) => l = x
  BY <1>4 DEF Goes, LoadingInv
<1>6. Goes(w, l)
  BY <1>5 DEF FindLicence, NextAuthor, FindArticle
<1> DEFINE Moves == /\ o.at \in {"licence", "author"} /\ l.at \in {"author", "create", "fill"}
                    /\ l.work = o.work /\ l.journal = o.journal /\ o.hurt \subseteq l.hurt
<1>7. ASSUME NEW raises \in BOOLEAN, FindLicence(w, raises) PROVE Moves
  <2>1. /\ o.at = "licence"
        /\ \E c, h : /\ o.hurt \subseteq h
                     /\ l = [o EXCEPT !.at = "author", !.left = o.work.authors, !.contributors = {},
                                      !.licence = c, !.hurt = h]
    BY <1>0, <1>5, <1>7 DEF FindLicence
  <2> QED BY <1>1, <2>1 DEF LoopVariables
<1>8. ASSUME NextAuthor(w) PROVE Moves
  <2> DEFINE author == Head(o.left)
             contributor == IF author.listed = "known" THEN author.name ELSE o.contributor
  <2>1. o.at = "author"
    BY <1>0, <1>8 DEF NextAuthor
  <2>2. \/ l = [o EXCEPT !.left = Tail(o.left)]
        \/ l = [o EXCEPT !.left = Tail(o.left), !.contributor = contributor,
                        !.contributors = o.contributors \cup {contributor}]
    BY <1>0, <1>5, <1>8 DEF NextAuthor
  <2> HIDE DEF author, contributor
  <2>3. CASE l = [o EXCEPT !.left = Tail(o.left)]
    <3> DEFINE m == [o EXCEPT !.left = Tail(o.left)]
    <3>1. m.at = o.at /\ m.work = o.work /\ m.journal = o.journal /\ m.hurt = o.hurt
      BY <1>1 DEF LoopVariables
    <3>2. l = m
      BY <2>3
    <3> HIDE DEF m
    <3> QED BY <2>1, <3>1, <3>2
  <2>4. CASE l = [o EXCEPT !.left = Tail(o.left), !.contributor = contributor,
                         !.contributors = o.contributors \cup {contributor}]
    <3> DEFINE m == [o EXCEPT !.left = Tail(o.left), !.contributor = contributor,
                              !.contributors = o.contributors \cup {contributor}]
    <3>1. m.at = o.at /\ m.work = o.work /\ m.journal = o.journal /\ m.hurt = o.hurt
      BY <1>1 DEF LoopVariables
    <3>2. l = m
      BY <2>4
    <3> HIDE DEF m
    <3> QED BY <2>1, <3>1, <3>2
  <2> QED BY <2>2, <2>3, <2>4
<1>9. ASSUME FindArticle(w) PROVE Moves
  <2> DEFINE found == FoundBy(o.work)
             s == IF found = {} THEN "create" ELSE "fill"
             n == IF found = {} THEN 0 ELSE (CHOOSE a \in found : TRUE).id
  <2>1. o.at = "author"
    BY <1>0, <1>9 DEF FindArticle
  <2>4. l = [o EXCEPT !.at = s, !.row = n]
    BY <1>0, <1>5, <1>9, Zenon DEF FindArticle
  <2>2. s \in {"create", "fill"}
    OBVIOUS
  <2> HIDE DEF s, n, found
  <2>3. l.at = s /\ l.work = o.work /\ l.journal = o.journal /\ l.hurt = o.hurt
    <3> DEFINE m == [o EXCEPT !.at = s, !.row = n]
    <3>1. m.at = s /\ m.work = o.work /\ m.journal = o.journal /\ m.hurt = o.hurt
      BY <1>1 DEF LoopVariables
    <3>2. l = m
      BY <2>4
    <3> HIDE DEF m
    <3> QED BY <3>1, <3>2
  <2> QED BY <2>1, <2>2, <2>3
<1> HIDE DEF Moves
<1>10. Moves
  BY <1>7, <1>8, <1>9
<1>11. LoopFits(l)'
  BY <1>1, <1>2, <1>10, FitsOn DEF Moves
<1> QED BY <1>2, <1>6, <1>11, FitsStep

LEMMA ArticleStepsFit ==
  ASSUME LoadingInv, OneLoader, JournalsFit, NEW w \in Loaders,
         CreateArticle(w) \/ FillArticle(w) \/ LinkContributors(w)
  PROVE  JournalsFit'
<1>0. PICK o : o = loader[w]
  OBVIOUS
<1>1. o \in LoopVariables /\ LoopFits(o)
  BY <1>0 DEF LoadingInv, JournalsFit
<1>2. UNCHANGED journals
  BY Zenon DEF CreateArticle, FillArticle, LinkContributors
<1>3. PICK l \in LoopVariables : l = loader'[w]
  <2>1. loader'[w] \in LoopVariables
    BY CreateArticleInv, FillArticleInv, LinkContributorsInv DEF LoadingInv
  <2> QED BY <2>1
<1>4. \A x : Goes(w, x) => l = x
  BY <1>3 DEF Goes, LoadingInv
<1>5. \A a \in articles : RowFits(a)'
  BY <1>2, DescribesKept DEF JournalsFit, RowFits
<1>6. CASE CreateArticle(w)
  <2> DEFINE id == Cardinality(articles) + 1
             new == [id |-> id, doi |-> 0, title |-> 0, journal |-> 0, licence |-> 0,
                     contributors |-> {}, work |-> NoRaw, hurt |-> {}, loads |-> {}]
  <2>1. o.at = "create" /\ articles' = articles \cup {new}
    BY <1>0, <1>6, Zenon DEF CreateArticle
  <2>6. l = [o EXCEPT !.at = "fill", !.row = id]
    BY <1>0, <1>4, <1>6, Zenon DEF CreateArticle
  <2>5. new.work = NoRaw /\ id \in Int
    BY FS_CardinalityType DEF LoadingInv
  <2> HIDE DEF new, id
  <2>2. \A a \in articles' : RowFits(a)'
    BY <1>5, <2>1, <2>5, NoRawIs DEF RowFits
  <2>3. l.at = "fill" /\ l.work = o.work /\ l.journal = o.journal /\ l.hurt = o.hurt
    <3> DEFINE m == [o EXCEPT !.at = "fill", !.row = id]
    <3>1. m.at = "fill" /\ m.work = o.work /\ m.journal = o.journal /\ m.hurt = o.hurt
      BY <1>1 DEF LoopVariables
    <3>2. l = m
      BY <2>6
    <3> HIDE DEF m
    <3> QED BY <3>1, <3>2
  <2>4. LoopFits(l)'
    BY <1>1, <1>2, <2>1, <2>3, FitsOn
  <2> QED BY <1>3, <2>2, <2>4, OneLoaderFits
<1>7. CASE FillArticle(w)
  <2>1. o.at = "fill"
    BY <1>0, <1>7 DEF FillArticle
  <2>8. l = [o EXCEPT !.at = "link"]
    BY <1>0, <1>4, <1>7 DEF FillArticle
  <2>2. PICK f : /\ articles' = {f[a] : a \in articles}
                 /\ \A a \in articles :
                      /\ a.id # o.row => f[a] = a
                      /\ a.id = o.row => /\ f[a].journal = o.journal /\ f[a].work = o.work
                                         /\ f[a].hurt = o.hurt
    BY <1>0, <1>7, FilledArticles
  <2>3. l.at = "link" /\ l.work = o.work /\ l.journal = o.journal /\ l.hurt = o.hurt
    <3> DEFINE m == [o EXCEPT !.at = "link"]
    <3>1. m.at = "link" /\ m.work = o.work /\ m.journal = o.journal /\ m.hurt = o.hurt
      BY <1>1 DEF LoopVariables
    <3>2. l = m
      BY <2>8
    <3> HIDE DEF m
    <3> QED BY <3>1, <3>2
  <2>4. LoopFits(l)'
    BY <1>1, <1>2, <2>1, <2>3, FitsOn
  <2>5. o.work.venue = "journal" /\ "journal" \notin o.hurt => Describes(o.journal, o.work)'
    <3>1. o.work.venue = "journal" /\ "journal" \notin o.hurt => Describes(o.journal, o.work)
      BY <1>1, <2>1 DEF LoopFits
    <3> QED BY <1>2, <3>1, DescribesKept
  <2>6. \A a \in articles : RowFits(f[a])'
    BY <1>5, <2>2, <2>5 DEF RowFits
  <2>7. \A a \in articles' : RowFits(a)'
    BY <2>2, <2>6
  <2> QED BY <1>3, <2>4, <2>7, OneLoaderFits
<1>8. CASE LinkContributors(w)
  <2>1. l = [o EXCEPT !.at = "next"]
    BY <1>0, <1>4, <1>8 DEF LinkContributors
  <2>2. PICK f : /\ articles' = {f[a] : a \in articles}
                 /\ \A a \in articles : /\ f[a].journal = a.journal /\ f[a].work = a.work
                                        /\ f[a].hurt = a.hurt
    BY <1>0, <1>8, LinkedArticles
  <2>3. LoopFits(l)'
    BY <1>1, <2>1, FitsIdle DEF LoopVariables
  <2>4. \A a \in articles : RowFits(f[a])'
    BY <1>5, <2>2 DEF RowFits
  <2>5. \A a \in articles' : RowFits(a)'
    BY <2>2, <2>4
  <2> QED BY <1>3, <2>3, <2>5, OneLoaderFits
<1> QED BY <1>6, <1>7, <1>8

LEMMA OtherStepsFit ==
  ASSUME LoadingInv, OneLoader, JournalsFit, NEW w \in Loaders,
         \/ \E slice \in slices : TakeSlice(w, slice)
         \/ BeginArticle(w) \/ LoadFails(w) \/ EndSlice(w) \/ LoseSlice(w)
  PROVE  JournalsFit'
<1>0. PICK o : o = loader[w]
  OBVIOUS
<1>1. o \in LoopVariables
  BY <1>0 DEF LoadingInv
<1>2. UNCHANGED <<journals, articles>>
  BY Zenon DEF TakeSlice, BeginArticle, LoadFails, EndSlice, LoseSlice, Reads
<1>3. loader'[w] \in LoopVariables
  BY TakeSliceInv, BeginArticleInv, LeaveArticleInv DEF LoadingInv
<1>4. PICK l \in LoopVariables : l = loader'[w]
  BY <1>3
<1>5. \A x : Goes(w, x) => l = x
  BY <1>4 DEF Goes, LoadingInv
<1>6. Goes(w, l)
  BY <1>5 DEF TakeSlice, BeginArticle, LoadFails, EndSlice, LoseSlice
<1>7. l.at \in {"idle", "next", "journal"}
  <2>1. CASE \E slice \in slices : TakeSlice(w, slice)
    <3>1. PICK slice \in slices : TakeSlice(w, slice)
      BY <2>1
    <3>2. l = [Waits EXCEPT !.at = "next", !.ids = slice.ids, !.update = slice.update]
      BY <1>5, <3>1 DEF TakeSlice
    <3> QED BY <3>2, WaitsIs DEF LoopVariables
  <2>2. CASE BeginArticle(w)
    <3>1. \E s \in {"next", "journal"} : \E i, x :
            l = [o EXCEPT !.ids = i, !.work = x, !.hurt = {}, !.at = s]
      BY <1>0, <1>5, <2>2 DEF BeginArticle
    <3> QED BY <1>1, <3>1 DEF LoopVariables
  <2>3. CASE LoadFails(w)
    <3>1. l = [o EXCEPT !.at = "next"]
      BY <1>0, <1>5, <2>3 DEF LoadFails
    <3> QED BY <1>1, <3>1 DEF LoopVariables
  <2>4. CASE EndSlice(w) \/ LoseSlice(w)
    BY <1>5, <2>4 DEF EndSlice, LoseSlice, Waits
  <2> QED BY <2>1, <2>2, <2>3, <2>4
<1>8. LoopFits(l)'
  BY <1>7, FitsIdle
<1> QED BY <1>2, <1>6, <1>8, FitsStep

LEMMA FitsNext ==
  ASSUME LoadingInv, RowIds, JournalsFit, OneLoader, [LoadingNext]_loadingVars
  PROVE  JournalsFit'
<1>1. CASE (\E s \in SourceIds, r \in Raws : StoreWork(s, r)) \/ SendSlices \/ CallUpdate
           \/ UNCHANGED loadingVars
  <2>1. UNCHANGED <<loader, journals, articles>>
    BY <1>1, Zenon DEF StoreWork, SendSlices, CallUpdate, loadingVars
  <2> QED BY <2>1 DEF JournalsFit, LoopFits, RowFits, Describes
<1> QED BY <1>1, JournalStepsFit, MakeJournalFits, SaveJournalFits, LoopStepsFit, ArticleStepsFit,
           OtherStepsFit DEF LoadingNext

\* Whatever the loop held from the articles before, for any works, slices and workers,
\* articles are saved with their own licence and contributors and none but their own
\* journal; and while one worker loads, a journal keeps only ISSNs of the source of each
\* article it was saved for, whatever works find, rename and write it over later
\* (load_openalex_article, Journal.create_or_update).
THEOREM SavedFieldsAreOwn == LoadingSpec => []FieldsAreOwn
<1> DEFINE Fit == RowIds /\ (OneLoader => JournalsFit)
<1>1. LoadingInit => Fit
  <2> SUFFICES ASSUME LoadingInit PROVE Fit
    OBVIOUS
  <2>1. articles = {} /\ journals = {} /\ \A w \in Loaders : loader[w].at = "idle"
    BY DEF LoadingInit, Waits
  <2>2. RowIds
    BY <2>1 DEF RowIds, Numbered
  <2> QED BY <2>1, <2>2 DEF JournalsFit, LoopFits
<1>2. LoadingInv /\ Fit /\ [LoadingNext]_loadingVars => Fit'
  BY RowIdsStep, FitsNext DEF OneLoader
<1>3. LoadingInv /\ Fit => FieldsAreOwn
  BY DEF LoadingInv, RowIsOwn, NoJournal, OwnLicence, JournalsFit, RowFits, FieldsAreOwn
<1> QED BY <1>1, <1>2, <1>3, LoadingInitInv, LoadingNextInv, PTL DEF LoadingSpec
================================================================================

---------------------------- MODULE OpenAlexFusion -----------------------------
(***************************************************************************)
(* What one group of SciELO records takes from OpenAlex                    *)
(* (etl/deduplicator/openalex.py, etl/transform/merger.py): the strategies *)
(* search for works one after the other, each hit is validated by a score, *)
(* hits that are one work are taken once, and the authors of the works     *)
(* that are left are merged into those of the group.  A search that fails  *)
(* is taken for one that found nothing.                                    *)
(***************************************************************************)
EXTENDS Integers, FiniteSetsExt, SequencesExt

CONSTANTS
  Cases,        \* <<record that represents the group, works there are>>, see Primary and Work
  Configs,      \* rules of the pipeline configurations (see Config)
  MaxHits       \* hits a search returns (size, max_candidates)

\* name, orcid, id: 0 when missing.  at: institutions, one for all that agree in
\* id, ROR or name.
Author == [name : Nat, orcid : Nat, id : Nat, at : SUBSET Nat]

\* inScope: of the type and years of the configuration.  doi, isbn, issn, titled: it
\* has one.
Primary == [inScope : BOOLEAN, doi : BOOLEAN, isbn : BOOLEAN, issn : BOOLEAN,
            titled : BOOLEAN, authors : Seq(Author)]

\* A work as the record sees it.  doi: none, the same, one that begins with the
\* record's, or another.  gap: years between them, -1 for a work without a year.
\* source: what the sources agree in.  alike: similarity of the titles in percent,
\* 0 without titles.
Work == [ids : SUBSET Nat, doi : {"none", "same", "longer", "other"}, isbn : BOOLEAN,
         gap : Nat \cup {-1}, source : {"issn", "title", "none"}, titled : BOOLEAN,
         alike : 0 .. 100, authors : Seq(Author)]

Strategy == {"doi", "isbn", "title"}

Config == [strategies : Seq(Strategy), tolerance : Nat, needSource : BOOLEAN,
           isbnNeedsTitle : BOOLEAN, isbnTitle : Nat, titleMatch : Nat, titleReject : Nat,
           min : Nat, strictMin : Nat, doi : Nat, yearExact : Nat, yearClose : Nat,
           isbn : Nat, sourceId : Nat, sourceTitle : Nat, title : Nat]

ASSUME FusionAssumption ==
  /\ Configs \subseteq Config /\ Configs # {} /\ MaxHits \in Nat \ {0}
  /\ \A c \in Cases : c[1] \in Primary /\ c[2] \subseteq Work /\ IsFiniteSet(c[2])

VARIABLES
  primary, works, config,   \* the record of the group, the works there are, the rules
  doing,        \* "idle", "search", "fuse" or "fused"
  next,         \* place of the strategy at hand in the configuration
  matches,      \* validated hits, in the order they were found
  doiAnswered,  \* auxiliary: the search by DOI was made and answered
  authors       \* authors of the fused document

fusionVars == <<primary, works, config, doing, next, matches, doiAnswered, authors>>

(***************************************************************************)
(* Validation                                                              *)
(***************************************************************************)

SameDoi(w) == primary.doi /\ w.doi = "same"
SharesIsbn(w) == primary.isbn /\ w.isbn
SharesIssn(w) == primary.issn /\ w.source = "issn"
SameSourceAs(w) == SharesIssn(w) \/ w.source = "title"
BothTitled(w) == primary.titled /\ w.titled
Alike(w) == IF BothTitled(w) THEN w.alike ELSE 0

If(test, score) == IF test THEN score ELSE 0

Score(w) ==
  If(SameDoi(w), config.doi) + If(w.gap = 0, config.yearExact)
    + If(w.gap \in 1 .. config.tolerance, config.yearClose) + If(SharesIsbn(w), config.isbn)
    + If(SharesIssn(w), config.sourceId) + If(w.source = "title", config.sourceTitle)
    + If(Alike(w) >= config.titleMatch, config.title)

\* Mutant of Valid: a work that is not alike is not turned down by its titles.
ValidByScore(w, least) ==
  /\ w.gap \in 0 .. config.tolerance
  /\ config.needSource => SameSourceAs(w)
  /\ Score(w) >= least

\* _validate_openalex_match: a year apart, titles that are not alike without a common
\* DOI, and an ISBN of the book around a chapter turn a work down whatever its score.
Valid(w, least) ==
  /\ w.gap \in 0 .. config.tolerance
  /\ config.needSource => SameSourceAs(w)
  /\ SharesIsbn(w) /\ config.isbnNeedsTitle => Alike(w) >= config.isbnTitle
  /\ Alike(w) >= config.titleMatch
       \/ /\ BothTitled(w) /\ Alike(w) < config.titleReject => SameDoi(w)
          /\ Score(w) >= config.min
  /\ Score(w) >= least

(***************************************************************************)
(* The searches                                                            *)
(***************************************************************************)

FusionInit ==
  /\ primary = [inScope |-> FALSE, doi |-> FALSE, isbn |-> FALSE, issn |-> FALSE,
                titled |-> FALSE, authors |-> <<>>]
  /\ config = CHOOSE c \in Configs : TRUE
  /\ works = {} /\ doing = "idle" /\ next = 1 /\ matches = <<>>
  /\ doiAnswered = FALSE /\ authors = <<>>

\* A group is matched, unless its record is of another type or years than the
\* configuration's, or that has no strategy.
BeginMatch(case, c) ==
  /\ doing = "idle"
  /\ doing' = IF case[1].inScope /\ c.strategies # <<>> THEN "search" ELSE "fuse"
  /\ primary' = case[1] /\ works' = case[2] /\ config' = c
  /\ UNCHANGED <<next, matches, doiAnswered, authors>>

Following ==
  /\ next' = next + 1
  /\ doing' = IF next = Len(config.strategies) THEN "fuse" ELSE "search"

\* What the query of the strategy selects: by year, and by a DOI or what begins
\* with it, by a common ISBN, or by words of the title and the ISSNs there are.
Selected(s) ==
  {w \in works :
     /\ w.gap \in 0 .. config.tolerance
     /\ s = "doi" => primary.doi /\ w.doi \in {"same", "longer"}
     /\ s = "isbn" => SharesIsbn(w)
     /\ s = "title" => /\ BothTitled(w) /\ w.alike > 0 /\ ~primary.isbn
                       /\ primary.issn => SharesIssn(w)}

\* Hits that are matches.  A hit by DOI has to have the very DOI.
Accepted(s, w) ==
  /\ s = "doi" => w.doi = "same"
  /\ Valid(w, IF s = "title" THEN config.strictMin ELSE config.min)

\* Mutant of IsTried: every strategy is.
IsAlwaysTried(s) == TRUE

\* The strategies after the DOI are for records without a match.
IsTried(s) == s # "doi" => matches = <<>>

Skip ==
  /\ doing = "search" /\ ~IsTried(config.strategies[next])
  /\ Following
  /\ UNCHANGED <<primary, works, config, matches, doiAnswered, authors>>

\* The hits come in any order, and those beyond MaxHits do not come.
Search(hits) ==
  LET s == config.strategies[next] IN
  /\ doing = "search" /\ IsTried(s)
  /\ hits \subseteq Selected(s) /\ Cardinality(hits) = Min({Cardinality(Selected(s)), MaxHits})
  /\ \E order \in SetToSeqs({w \in hits : Accepted(s, w)}) : matches' = matches \o order
  /\ Following
  /\ doiAnswered' = (doiAnswered \/ (s = "doi" /\ primary.doi))
  /\ UNCHANGED <<primary, works, config, authors>>

\* The search raises, which is logged.
SearchRaises ==
  /\ doing = "search" /\ IsTried(config.strategies[next])
  /\ Following
  /\ UNCHANGED <<primary, works, config, matches, doiAnswered, authors>>

(***************************************************************************)
(* Fusion                                                                  *)
(***************************************************************************)

\* _deduplicate_openalex_matches: a match that shares an id with one before it, be
\* that kept or not, is dropped.
Kept ==
  LET IsNew(k) == \A j \in 1 .. k - 1 : matches[j].ids \cap matches[k].ids = {} IN
  [k \in 1 .. Cardinality({m \in DOMAIN matches : IsNew(m)}) |->
     matches[CHOOSE m \in DOMAIN matches :
               IsNew(m) /\ Cardinality({j \in 1 .. m : IsNew(j)}) = k]]

\* _same_author: an agreement in any of the three is enough.
SameAuthor(a, b) ==
  \/ a.name # 0 /\ a.name = b.name
  \/ a.orcid # 0 /\ a.orcid = b.orcid
  \/ a.id # 0 /\ a.id = b.id

\* Mutant of Taken: an author of OpenAlex may be taken twice.
TakenAgain(own, found) ==
  [k \in DOMAIN own |-> Min({i \in DOMAIN found : SameAuthor(own[k], found[i])} \cup {Len(found) + 1})]

\* The author of OpenAlex that each author of SciELO takes: the first that is the same
\* and is not taken, and one past the end when there is none.
Taken(own, found) ==
  LET taken[k \in DOMAIN own] ==
        Min({i \in DOMAIN found : SameAuthor(own[k], found[i])
                                 /\ \A j \in 1 .. k - 1 : taken[j] # i} \cup {Len(found) + 1})
  IN taken

\* What a SciELO author lacks is filled in, and the institutions are joined.
Enriched(a, b) ==
  [a EXCEPT !.orcid = IF @ = 0 THEN b.orcid ELSE @, !.id = IF @ = 0 THEN b.id ELSE @,
            !.at = @ \cup b.at]

\* The authors of SciELO, each with what the author it takes adds.
OwnEnriched(own, found) ==
  LET taken == Taken(own, found) IN
  [k \in DOMAIN own |-> IF taken[k] \in DOMAIN found THEN Enriched(own[k], found[taken[k]])
                        ELSE own[k]]

\* _merge_authorships: authors of OpenAlex that nobody took follow, each unless the
\* same as one that is there.
MergedAuthors(own, found) ==
  LET taken == Taken(own, found)
      merged[i \in 0 .. Len(found)] ==
        IF i = 0 THEN OwnEnriched(own, found)
        ELSE IF \/ \E k \in DOMAIN own : taken[k] = i
                \/ \E a \in Range(merged[i - 1]) : SameAuthor(a, found[i])
             THEN merged[i - 1]
             ELSE Append(merged[i - 1], found[i])
  IN merged[Len(found)]

FoundAuthors == FlattenSeq([k \in DOMAIN Kept |-> Kept[k].authors])

\* _enrich_scielo_with_openalex: without authors of its own the document takes all.
Fuse ==
  /\ doing = "fuse" /\ doing' = "fused"
  /\ authors' = IF primary.authors = <<>> THEN FoundAuthors
                ELSE MergedAuthors(primary.authors, FoundAuthors)
  /\ UNCHANGED <<primary, works, config, next, matches, doiAnswered>>

FusionNext ==
  \/ \E case \in Cases, c \in Configs : BeginMatch(case, c)
  \/ Skip \/ SearchRaises \/ Fuse
  \/ \E hits \in SUBSET works : Search(hits)

FusionSpec == FusionInit /\ [][FusionNext]_fusionVars

(***************************************************************************)
(* Properties                                                              *)
(***************************************************************************)

\* Whatever strategy found it and whatever searches failed, a work that is fused is
\* near in year and has the same DOI, or titles that are not unlike and another
\* agreement; and no work is fused twice (find_matches, _validate_openalex_match).
MatchesAreConfirmed ==
  /\ \A k \in DOMAIN Kept :
       LET w == Kept[k] IN
       /\ w.gap \in 0 .. config.tolerance
       /\ \/ SameDoi(w)
          \/ /\ BothTitled(w) => w.alike >= config.titleReject
             /\ \/ SharesIsbn(w)
                \/ BothTitled(w) /\ (w.alike >= config.titleMatch \/ SameSourceAs(w))
  /\ \A j, k \in DOMAIN Kept : j < k => Kept[j].ids \cap Kept[k].ids = {}

\* Once the search by DOI has answered, a work with the DOI that is valid is among the
\* matches and works that only look alike are not, unless the DOIs that begin with
\* this one crowd the answer (find_matches, _try_openalex_by_doi).
DoiPrevails ==
  doing \in {"fuse", "fused"} /\ doiAnswered /\ Cardinality(Selected("doi")) <= MaxHits =>
    \A w \in works : SameDoi(w) /\ Valid(w, config.min) =>
      Kept # <<>> /\ \A k \in DOMAIN Kept : SameDoi(Kept[k])

\* The authors of SciELO stay in their order with the identifiers they have, an author
\* of OpenAlex is given to one of them only, homonyms or not, every author of a fused
\* work is one of the document or the same as one, and none is added who is there already
\* (_merge_authorships).
AuthorsAreKept ==
  doing = "fused" =>
    LET own == primary.authors
        Given(id) == {k \in DOMAIN own : own[k].id = 0 /\ authors[k].id = id}
        Offered(id) == {i \in DOMAIN FoundAuthors : FoundAuthors[i].id = id}
    IN
    /\ \A k \in DOMAIN own :
         /\ authors[k].name = own[k].name /\ own[k].at \subseteq authors[k].at
         /\ own[k].orcid # 0 => authors[k].orcid = own[k].orcid
         /\ own[k].id # 0 => authors[k].id = own[k].id
    /\ \A o \in Range(FoundAuthors) :
         /\ \E a \in Range(authors) : a = o \/ SameAuthor(a, o)
         /\ o.id # 0 => Cardinality(Given(o.id)) <= Cardinality(Offered(o.id))
    /\ own # <<>> =>
         \A k \in Len(own) + 1 .. Len(authors) :
           \A j \in 1 .. k - 1 : ~SameAuthor(authors[j], authors[k])

\* The types of the variables (OpenAlexMatcher, SilverMerger).
FusionTypeOK ==
  /\ primary \in Primary /\ config \in Configs /\ works \subseteq Work
  /\ doing \in {"idle", "search", "fuse", "fused"} /\ next \in 1 .. Len(config.strategies) + 1
  /\ Range(matches) \subseteq works /\ doiAnswered \in BOOLEAN /\ authors \in Seq(Author)
=============================================================================

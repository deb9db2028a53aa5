------------------------------- MODULE MCParts -------------------------------
(* The components that share no state, side by side: each behaviour is one   *)
(* of the component that `moving` names, and the others stay as they begin.  *)
EXTENDS GlobalMetrics, LookupBuild,
  MCSilverIdentity, ListingHarvest, OpenAlexFusion,
  DirectoryIndex, FreshnessCache, PlaceRegistry, ArticleLoading

CONSTANTS l1, l2, s1, s2

VARIABLE moving

partsVars == <<moving, metricsVars, lookupVars, identityVars, listingVars, fusionVars,
              directoryVars, freshnessVars, registryVars, loadingVars>>

PartsInit ==
  /\ moving \in {"metrics", "lookup", "identity", "listing", "fusion",
                "directory", "freshness", "registry", "loading"}
  /\ MetricsInit /\ LookupInit /\ IdentityInit /\ ListingInit /\ FusionInit
  /\ DirectoryInit /\ FreshnessInit /\ RegistryInit
  /\ LoadingInit
  /\ moving # "listing" => source = "article"

MetricsMoves ==
  /\ moving = "metrics" /\ MetricsNext
  /\ UNCHANGED <<moving, lookupVars, identityVars, listingVars,
                 fusionVars, directoryVars, freshnessVars, registryVars, loadingVars>>
LookupMoves ==
  /\ moving = "lookup" /\ LookupNext
  /\ UNCHANGED <<moving, metricsVars, identityVars, listingVars,
                 fusionVars, directoryVars, freshnessVars, registryVars, loadingVars>>
IdentityMoves ==
  /\ moving = "identity" /\ IdentityNext
  /\ UNCHANGED <<moving, metricsVars, lookupVars, listingVars,
                 fusionVars, directoryVars, freshnessVars, registryVars, loadingVars>>
ListingMoves ==
  /\ moving = "listing" /\ ListingNext
  /\ UNCHANGED <<moving, metricsVars, lookupVars, identityVars,
                 fusionVars, directoryVars, freshnessVars, registryVars, loadingVars>>
FusionMoves ==
  /\ moving = "fusion" /\ FusionNext
  /\ UNCHANGED <<moving, metricsVars, lookupVars, identityVars,
                 listingVars, directoryVars, freshnessVars, registryVars, loadingVars>>
DirectoryMoves ==
  /\ moving = "directory" /\ DirectoryNext
  /\ UNCHANGED <<moving, metricsVars, lookupVars, identityVars,
                 listingVars, fusionVars, freshnessVars, registryVars, loadingVars>>
FreshnessMoves ==
  /\ moving = "freshness" /\ FreshnessNext
  /\ UNCHANGED <<moving, metricsVars, lookupVars, identityVars,
                 listingVars, fusionVars, directoryVars, registryVars, loadingVars>>
RegistryMoves ==
  /\ moving = "registry" /\ RegistryNext
  /\ UNCHANGED <<moving, metricsVars, lookupVars, identityVars,
                 listingVars, fusionVars, directoryVars, freshnessVars, loadingVars>>
LoadingMoves ==
  /\ moving = "loading" /\ LoadingNext
  /\ UNCHANGED <<moving, metricsVars, lookupVars, identityVars, listingVars,
                 fusionVars, directoryVars, freshnessVars, registryVars>>

PartsNext ==
  \/ MetricsMoves
  \/ LookupMoves
  \/ IdentityMoves
  \/ ListingMoves
  \/ FusionMoves
  \/ DirectoryMoves
  \/ FreshnessMoves
  \/ RegistryMoves
  \/ LoadingMoves

PartsSpec == PartsInit /\ [][PartsNext]_partsVars

\* The types of the variables of the component that moves.
PartsTypeOK ==
  /\ moving = "metrics" => MetricsTypeOK
  /\ moving = "lookup" => LookupTypeOK
  /\ moving = "identity" => IdentityTypeOK
  /\ moving = "listing" => ListingTypeOK
  /\ moving = "fusion" => FusionTypeOK
  /\ moving = "directory" => DirectoryTypeOK
  /\ moving = "freshness" => FreshnessTypeOK
  /\ moving = "registry" => RegistryTypeOK
  /\ moving = "loading" => LoadingTypeOK

(* Metrics: the second spreadsheet lacks a line of the first. *)
Spreadsheets == <<{l1, l2}, {l1}>>
WithoutCountry == <<{l2}, {}>>

(* Lookups. *)
SourceAndFunder == <<"source", "funder">>
LookupValues == <<{1, 2}, {1}>>

(* Imports: lines that share a state, and that ask for one institution with and *)
(* without its place.                                                           *)
WholeLine == [country |-> "BR", state |-> "SP", city |-> "Campinas", institution |-> "Unicamp"]
StateLine == [country |-> "", state |-> "SP", city |-> "", institution |-> ""]
InstitutionLine == [country |-> "", state |-> "", city |-> "", institution |-> "Unicamp"]
TwoFiles == {<<StateLine, WholeLine>>, <<InstitutionLine, StateLine>>}

(* Loading: works of one title or DOI, with and without what a work may lack.   *)
Affiliated(name) == [name |-> name, listed |-> "known"]
Whole == [doi |-> 1, title |-> 1, venue |-> "journal", issns |-> <<1, 2>>, name |-> 1, licence |-> 1,
          authors |-> <<Affiliated(1)>>]
Bare == [doi |-> 2, title |-> 1, venue |-> "bare", issns |-> <<>>, name |-> 0, licence |-> 0,
         authors |-> <<Affiliated(2), [name |-> 3, listed |-> "none"]>>]
Homeless == [doi |-> 2, title |-> 0, venue |-> "none", issns |-> <<>>, name |-> 0, licence |-> 0,
             authors |-> <<[name |-> 3, listed |-> "none"], [name |-> 4, listed |-> "unknown"]>>]
Unlisted == [Homeless EXCEPT !.venue = "unlisted", !.name = 2, !.authors = <<Affiliated(4)>>]
OneIssn == [Whole EXCEPT !.doi = 3, !.title = 2, !.issns = <<2>>, !.name = 3]
TheRaws == {Whole, Bare, Homeless, Unlisted, OneIssn}

(* Fusion: lists of homonyms and of authors that share an ORCID, in works found *)
(* by DOI that may be one; and records with and without the fields a search     *)
(* uses against a single work, or a work with their DOI among look-alikes.      *)
Someone == [name |-> 1, orcid |-> 0, id |-> 0, at |-> {1}]
Homonym == [name |-> 1, orcid |-> 1, id |-> 2, at |-> {}]
Renamed == [name |-> 2, orcid |-> 1, id |-> 1, at |-> {2}]
Lister == [name |-> 2, orcid |-> 0, id |-> 1, at |-> {}]
Anonymous == [name |-> 0, orcid |-> 0, id |-> 0, at |-> {}]
AuthorLists == UNION {[1 .. k -> {Someone, Homonym, Renamed, Lister, Anonymous}] : k \in 0 .. 2}
SomeRecord == [inScope |-> TRUE, doi |-> TRUE, isbn |-> FALSE, issn |-> TRUE, titled |-> TRUE, authors |-> <<>>]
SomeWork == [ids |-> {1}, doi |-> "same", isbn |-> FALSE, gap |-> 0, source |-> "issn",
             titled |-> TRUE, alike |-> 90, authors |-> <<>>]
AuthorCases ==
  {<<[SomeRecord EXCEPT !.authors = own], {[SomeWork EXCEPT !.authors = theirs]}>> :
     own, theirs \in AuthorLists}
ThreeWorks ==
  {<<[SomeRecord EXCEPT !.inScope = within, !.authors = own],
     {[SomeWork EXCEPT !.authors = <<Someone, Renamed>>],
      [SomeWork EXCEPT !.ids = {i}, !.doi = d, !.authors = <<Homonym, Lister>>],
      [SomeWork EXCEPT !.ids = {3}, !.doi = e, !.authors = <<Lister>>]}>> :
   within \in BOOLEAN, own \in {<<>>, <<Homonym>>}, i \in {1, 2}, d, e \in {"same", "longer", "none"}}
OneWork ==
  [inScope : {TRUE}, doi : BOOLEAN, isbn : BOOLEAN, issn : BOOLEAN, titled : BOOLEAN, authors : {<<>>}]
  \X {{w} : w \in {w \in [ids : {{1}}, doi : {"none", "same"}, isbn : BOOLEAN, gap : {-1, 0, 1, 2},
                         source : {"issn", "none"}, titled : BOOLEAN, alike : {0, 10, 81, 90},
                         authors : {<<>>}] :
                     /\ ~w.titled <=> w.alike = 0
                     /\ w.gap \in {-1, 2} => w.alike = 90 /\ w.source = "issn"}}
TheCases == AuthorCases \cup ThreeWorks \cup OneWork

(* The rules of articles with the search by title added, and of chapters. *)
ArticleRules ==
  [strategies |-> <<"doi", "isbn", "title">>, tolerance |-> 1, needSource |-> FALSE,
   isbnNeedsTitle |-> FALSE, isbnTitle |-> 80, titleMatch |-> 85, titleReject |-> 80,
   min |-> 50, strictMin |-> 60, doi |-> 50, yearExact |-> 30, yearClose |-> 20,
   isbn |-> 35, sourceId |-> 40, sourceTitle |-> 30, title |-> 30]
ChapterRules == [ArticleRules EXCEPT !.strategies = <<"doi", "isbn">>, !.isbnNeedsTitle = TRUE]
TheConfigs == {ArticleRules, ChapterRules}
=============================================================================

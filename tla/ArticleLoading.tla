---------------------------- MODULE ArticleLoading -----------------------------
(***************************************************************************)
(* Loading OpenAlex works into the relational tables (article/tasks.py,    *)
(* article/models.py).  One task stores the works as SourceArticle rows, a *)
(* second one cuts these rows into slices, and for each slice a task makes *)
(* Article rows of them.  That task keeps what it last read of a source,   *)
(* and the journal, the licence and the contributor it last made, in       *)
(* variables of a loop over its articles, most of whose errors are only    *)
(* logged: a field that an article lacks may be that of the article        *)
(* before, and a row of Journal that is found is written over.             *)
(***************************************************************************)
EXTENDS Integers, FiniteSets, SequencesExt

CONSTANTS
  SourceIds,    \* rows of SourceArticle
  Raws,         \* what OpenAlex may say of a work
  Loaders,      \* Celery workers that run the tasks of slices
  LoopSize,     \* loop_size of the slices
  MaxReloads,   \* bound: times that a work is stored
  MaxCalls      \* bound: tasks that are started by hand or cut the rows into slices

\* doi, title, licence: 0 when missing.  venue: no primary location, one without a
\* source, one whose source has no ISSN, or a journal.  issns, name: of the source, the
\* name standing for its other fields.  authors: name, and what the table of
\* institutions has of those listed for the author.
Raw == [doi : Nat, title : Nat, venue : {"none", "bare", "unlisted", "journal"}, issns : Seq(Nat),
        name : Nat, licence : Nat,
        authors : Seq([name : Nat, listed : {"known", "unknown", "none"}])]
NoRaw == [doi |-> 0, title |-> 0, venue |-> "none", issns |-> <<>>, name |-> 0, licence |-> 0,
          authors |-> <<>>]

ASSUME LoadingAssumption ==
  /\ IsFiniteSet(SourceIds) /\ Raws \subseteq Raw \ {NoRaw} /\ Raws # {}
  /\ \A r \in Raws : r.venue = "journal" <=> r.issns # <<>>
  /\ LoopSize \in Nat \ {0} /\ MaxReloads \in Nat /\ MaxCalls \in Nat

VARIABLES
  raw,          \* raw[s]: the work in row s, NoRaw before there is one
  slices,       \* tasks in the queue: ids, and whether articles are to be updated
  loader,       \* loader[w]: the task of worker w and the variables of its loop
  journals,     \* rows of Journal; issns: <<>> when NULL
  articles,     \* rows of Article; auxiliary: the work and the failed lookups of the
                \* last save (work, hurt), the works whose contributors it has (loads)
  reloads, calls

loadingVars == <<raw, slices, loader, journals, articles, reloads, calls>>

\* A variable that nothing was assigned to; 0 stands for None, <<>> for ISSNs not seen.
Unbound == -1

Waits == [at |-> "idle", ids |-> <<>>, update |-> FALSE, work |-> NoRaw, journal |-> Unbound,
          issns |-> <<>>, name |-> 0, licence |-> Unbound, contributor |-> Unbound, left |-> <<>>,
          contributors |-> {}, row |-> 0, hurt |-> {}]

LoadingInit ==
  /\ raw = [s \in SourceIds |-> NoRaw] /\ slices = {} /\ loader = [w \in Loaders |-> Waits]
  /\ journals = {} /\ articles = {} /\ reloads = 0 /\ calls = 0

(***************************************************************************)
(* Works become rows, and rows slices                                      *)
(***************************************************************************)

\* load_openalex: create_or_update of one work; an error ends the task.
StoreWork(s, r) ==
  /\ reloads < MaxReloads /\ reloads' = reloads + 1
  /\ raw' = [raw EXCEPT ![s] = r] /\ UNCHANGED <<slices, loader, journals, articles, calls>>

Stored == {s \in SourceIds : raw[s] # NoRaw}

\* How many of n rows the i-th slice has; the last slice may be empty.
SliceSize(n, i) == IF i * LoopSize <= n THEN LoopSize ELSE n - (i - 1) * LoopSize

\* The rows that pass the filters are cut into slices.  Each slice is a query of its own,
\* without an order: a row may be in two of them.
SendSlices ==
  /\ calls < MaxCalls /\ calls' = calls + 1
  /\ \E rows \in SUBSET Stored \ {{}} :
       LET n == Cardinality(rows)
           cuts == {f \in [1 .. n \div LoopSize + 1 -> UNION {SetToSeqs(part) : part \in SUBSET rows}] :
                      \A i \in DOMAIN f : Len(f[i]) = SliceSize(n, i)}
       IN \E cut \in cuts :
            slices' = slices \cup {[ids |-> cut[i], update |-> FALSE] : i \in DOMAIN cut}
  /\ UNCHANGED <<raw, loader, journals, articles, reloads>>

\* The task of a slice may also be called for any rows, to update their articles.
CallUpdate ==
  /\ calls < MaxCalls /\ calls' = calls + 1
  /\ \E rows \in SUBSET Stored : \E ids \in SetToSeqs(rows) :
       slices' = slices \cup {[ids |-> ids, update |-> TRUE]}
  /\ UNCHANGED <<raw, loader, journals, articles, reloads>>

(***************************************************************************)
(* The task of a slice                                                     *)
(***************************************************************************)

Goes(w, state) == loader' = [loader EXCEPT ![w] = state]
Reads == UNCHANGED <<raw, slices, journals, articles, reloads, calls>>

TakeSlice(w, task) ==
  /\ loader[w].at = "idle" /\ slices' = slices \ {task}
  /\ Goes(w, [Waits EXCEPT !.at = "next", !.ids = task.ids, !.update = task.update])
  /\ UNCHANGED <<raw, journals, articles, reloads, calls>>

\* Articles of which there is one by DOI or by title are left as they are.
BeginArticle(w) ==
  LET l == loader[w]
      work == raw[Head(l.ids)]
      thereIs == \E a \in articles : \/ work.doi # 0 /\ a.doi = work.doi
                                     \/ work.title # 0 /\ a.title = work.title
  IN
  /\ l.at = "next" /\ l.ids # <<>>
  /\ Goes(w, [l EXCEPT !.ids = Tail(@), !.work = work, !.hurt = {},
                !.at = IF ~l.update /\ thereIs THEN "next" ELSE "journal"])
  /\ Reads

WithoutPlace(w) ==
  /\ loader[w].at = "journal" /\ loader[w].work.venue = "none"
  /\ Goes(w, [loader[w] EXCEPT !.at = "licence", !.journal = 0]) /\ Reads

\* Mutant of FindJournal: a row is found that has any of the ISSNs.
FindJournalByAny(w, raises) ==
  LET l == loader[w]
      issns == IF l.work.venue = "journal" THEN l.work.issns ELSE l.issns
      found == {j \in journals : ToSet(issns) \cap ToSet(j.issns) # {}}
  IN
  /\ l.at = "journal" /\ l.work.venue # "none" /\ ~raises /\ issns # <<>>
  /\ \/ found = {} /\ Goes(w, [l EXCEPT !.at = "newJournal", !.issns = issns])
     \/ \E j \in found : Goes(w, [l EXCEPT !.at = "saveJournal", !.issns = issns, !.row = j.id])
  /\ Reads

\* The loop keeps the ISSNs and the name that a source or a location lacks.  Journal.get
\* only asks for the ISSNs, as a part of those of a row; it raises when several rows
\* have them, and the loop before it while no ISSN was seen.  The journal then keeps its
\* value.
FindJournal(w, raises) ==
  LET l == loader[w]
      issns == IF l.work.venue = "journal" THEN l.work.issns ELSE l.issns
      name == IF l.work.venue = "bare" THEN l.name ELSE l.work.name
      found == {j \in journals : issns \in SubSeqs(j.issns)}
      fails == raises \/ issns = <<>> \/ Cardinality(found) > 1
  IN
  /\ l.at = "journal" /\ l.work.venue # "none"
  /\ \/ fails /\ Goes(w, [l EXCEPT !.at = "licence", !.issns = issns, !.name = name,
                            !.hurt = @ \cup {"journal"}])
     \/ ~fails /\ found = {}
        /\ Goes(w, [l EXCEPT !.at = "newJournal", !.issns = issns, !.name = name])
     \/ ~fails /\ \E j \in found :
          Goes(w, [l EXCEPT !.at = "saveJournal", !.issns = issns, !.name = name, !.row = j.id])
  /\ Reads

\* A row is made empty first.
MakeJournal(w) ==
  LET id == Cardinality(journals) + 1 IN
  /\ loader[w].at = "newJournal"
  /\ journals' = journals \cup {[id |-> id, issns |-> <<>>, name |-> 0]}
  /\ Goes(w, [loader[w] EXCEPT !.at = "saveJournal", !.row = id])
  /\ UNCHANGED <<raw, slices, articles, reloads, calls>>

\* The row made or found gets the ISSNs and the name the loop has.
SaveJournal(w) ==
  LET l == loader[w] IN
  /\ l.at = "saveJournal" /\ Goes(w, [l EXCEPT !.at = "licence", !.journal = l.row])
  /\ journals' = {IF j.id # l.row THEN j ELSE [j EXCEPT !.issns = l.issns, !.name = l.name] : j \in journals}
  /\ UNCHANGED <<raw, slices, articles, reloads, calls>>

\* The database refuses a statement: only logged.
JournalFails(w) ==
  /\ loader[w].at \in {"newJournal", "saveJournal"}
  /\ Goes(w, [loader[w] EXCEPT !.at = "licence", !.hurt = @ \cup {"journal"}]) /\ Reads

\* The licence of a work without a location is that of the work before.
FindLicence(w, raises) ==
  LET l == loader[w] IN
  /\ l.at = "licence" /\ (raises => l.work.venue # "none" /\ l.work.licence # 0)
  /\ Goes(w, [l EXCEPT !.at = "author", !.left = l.work.authors, !.contributors = {},
                !.licence = IF l.work.venue = "none" \/ raises THEN @ ELSE l.work.licence,
                !.hurt = IF raises THEN @ \cup {"licence"} ELSE @])
  /\ Reads

\* An author without institutions is taken for the contributor made last.
NextAuthor(w) ==
  LET l == loader[w]
      author == Head(l.left)
      contributor == IF author.listed = "known" THEN author.name ELSE l.contributor
  IN
  /\ l.at = "author" /\ l.left # <<>>
  /\ \/ author.name = 0 /\ Goes(w, [l EXCEPT !.left = Tail(@)])
     \/ /\ author.name # 0 /\ author.listed # "unknown" /\ contributor # Unbound
        /\ Goes(w, [l EXCEPT !.left = Tail(@), !.contributor = contributor,
                      !.contributors = @ \cup {contributor}])
  /\ Reads

\* Article.get: the title comes before the DOI.
FoundBy(work) ==
  {a \in articles : IF work.title # 0 THEN a.title = work.title ELSE a.doi = work.doi}

FindArticle(w) ==
  LET l == loader[w]
      found == FoundBy(l.work)
  IN
  /\ l.at = "author" /\ l.left = <<>> /\ Unbound \notin {l.journal, l.licence}
  /\ l.work.title # 0 \/ l.work.doi # 0
  /\ Cardinality(found) <= 1
  /\ Goes(w, [l EXCEPT !.at = IF found = {} THEN "create" ELSE "fill",
                !.row = IF found = {} THEN 0 ELSE (CHOOSE a \in found : TRUE).id])
  /\ Reads

\* A row is made empty first.
CreateArticle(w) ==
  LET id == Cardinality(articles) + 1 IN
  /\ loader[w].at = "create"
  /\ articles' = articles \cup
       {[id |-> id, doi |-> 0, title |-> 0, journal |-> 0, licence |-> 0, contributors |-> {},
         work |-> NoRaw, hurt |-> {}, loads |-> {}]}
  /\ Goes(w, [loader[w] EXCEPT !.at = "fill", !.row = id])
  /\ UNCHANGED <<raw, slices, journals, reloads, calls>>

FillArticle(w) ==
  LET l == loader[w] IN
  /\ l.at = "fill" /\ Goes(w, [l EXCEPT !.at = "link"])
  /\ articles' = {IF a.id # l.row THEN a ELSE
       [a EXCEPT !.doi = l.work.doi, !.title = l.work.title, !.journal = l.journal,
                 !.licence = l.licence, !.work = l.work, !.hurt = l.hurt] : a \in articles}
  /\ UNCHANGED <<raw, slices, journals, reloads, calls>>

\* Contributors are added to those the row has.
LinkContributors(w) ==
  LET l == loader[w] IN
  /\ l.at = "link" /\ Goes(w, [l EXCEPT !.at = "next"])
  /\ articles' = {IF a.id # l.row THEN a ELSE
       [a EXCEPT !.contributors = @ \cup l.contributors, !.loads = @ \cup {l.work}] : a \in articles}
  /\ UNCHANGED <<raw, slices, journals, reloads, calls>>

\* An error between the journal and the end of an article is logged, and the next one
\* begins: a lookup of an author's institutions fails, a variable was never assigned,
\* several rows are found, the database refuses a statement.
LoadFails(w) ==
  /\ loader[w].at \in {"author", "create", "fill", "link"}
  /\ Goes(w, [loader[w] EXCEPT !.at = "next"]) /\ Reads

EndSlice(w) ==
  /\ loader[w].at = "next" /\ loader[w].ids = <<>> /\ Goes(w, Waits) /\ Reads

\* The worker is killed, or a row of its slice was deleted.
LoseSlice(w) == loader[w].at # "idle" /\ Goes(w, Waits) /\ Reads

LoadingNext ==
  \/ \E s \in SourceIds, r \in Raws : StoreWork(s, r)
  \/ SendSlices \/ CallUpdate
  \/ \E w \in Loaders :
       \/ \E task \in slices : TakeSlice(w, task)
       \/ \E raises \in BOOLEAN : FindJournal(w, raises) \/ FindLicence(w, raises)
       \/ WithoutPlace(w) \/ MakeJournal(w) \/ SaveJournal(w) \/ JournalFails(w)
       \/ BeginArticle(w) \/ NextAuthor(w) \/ FindArticle(w) \/ CreateArticle(w)
       \/ FillArticle(w) \/ LinkContributors(w) \/ LoadFails(w) \/ EndSlice(w) \/ LoseSlice(w)

LoadingSpec == LoadingInit /\ [][LoadingNext]_loadingVars

(***************************************************************************)
(* Properties                                                              *)
(***************************************************************************)

OneLoader == \A v, w \in Loaders : v = w

\* Every author who has a name has known institutions.
AllKnown(work) ==
  \A i \in DOMAIN work.authors : work.authors[i].name # 0 => work.authors[i].listed = "known"
NamesIn(authors) == {authors[i].name : i \in DOMAIN authors} \ {0}

\* The row of a journal has ISSNs, and none but those of the work's source.
Describes(id, work) ==
  \E j \in journals : j.id = id /\ j.issns # <<>> /\ ToSet(j.issns) \subseteq ToSet(work.issns)

\* Whatever the loop held from other works before and after, the row of an article has
\* the licence of the work it was last saved from when that has a location, no journal
\* when it has none, and the contributors of the works linked to it when their
\* institutions were known; and its journal, if the source lists ISSNs, has ISSNs of
\* that source only, although works that lack a source borrow the row, rename it and
\* save it with theirs.  The last holds while one worker loads: a row is read, then
\* written.  A lookup that raised excuses its field (load_openalex_article, Journal).
FieldsAreOwn ==
  \A a \in articles :
    /\ a.work.venue # "none" /\ "licence" \notin a.hurt => a.licence = a.work.licence
    /\ a.work.venue = "none" => a.journal = 0
    /\ (\A work \in a.loads : AllKnown(work)) =>
         a.contributors = UNION {NamesIn(work.authors) : work \in a.loads}
    /\ OneLoader /\ a.work.venue = "journal" /\ "journal" \notin a.hurt => Describes(a.journal, a.work)

\* The types of the variables (SourceArticle, Article, load_openalex_article).
LoadingTypeOK ==
  /\ raw \in [SourceIds -> Raws \cup {NoRaw}] /\ reloads \in 0 .. MaxReloads /\ calls \in 0 .. MaxCalls
  /\ \A task \in slices : task.ids \in Seq(SourceIds) /\ task.update \in BOOLEAN
  /\ \A w \in Loaders :
       /\ loader[w].at \in {"idle", "next", "journal", "newJournal", "saveJournal", "licence",
                            "author", "create", "fill", "link"}
       /\ loader[w].hurt \subseteq {"journal", "licence"} /\ Unbound \notin loader[w].contributors
  /\ \A a, b \in articles : a.id = b.id => a = b
  /\ \A i, j \in journals : i.id = j.id => i = j
=============================================================================

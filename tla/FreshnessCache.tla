---------------------------- MODULE FreshnessCache -----------------------------
(***************************************************************************)
(* The dates that pages show for the indices (search_gateway/freshness.py): *)
(* one cached dictionary, which pages read, extend and store as a whole,   *)
(* and which every run of the ETL that indexed documents deletes at its    *)
(* end (etl/services.py).                                                  *)
(*                                                                         *)
(* A date is known by the version of what it was computed from: the rows   *)
(* of EtlItemProcess for the silver index, the documents of another one.   *)
(* The date itself may go back from one version to the next, as when rows  *)
(* lose their processed_at or the newest documents are deleted.            *)
(***************************************************************************)
EXTENDS Integers

CONSTANTS
  DatedIndices, SilverIndex,   \* indices, and the one that the ETL writes
  Pages, Tasks,                \* requests for pages, ETL tasks
  LastBasis                  \* bound: versions are 1 .. LastBasis

ASSUME FreshnessAssumption == SilverIndex \in DatedIndices /\ LastBasis \in Nat \ {0}

VARIABLES
  basis,      \* of each index, the version of what its date is computed from
  cached,       \* the dictionary, empty when the key is missing
  page, wants, found, value,   \* of each page: how far it is, its index, the dictionary
                               \* it read and the date it computed, 0 before
  ending,       \* of each task: "idle" or "marked"
  settled,      \* auxiliary: the versions when the dictionary was last deleted by a task
  behind, tainted  \* auxiliary: pages that hold something of before that deletion, and whether
                \* one of them has stored it

freshnessVars == <<basis, cached, page, wants, found, value, ending, settled, behind, tainted>>
pageVars == <<page, wants, found, value>>

FreshnessInit ==
  /\ basis = [x \in DatedIndices |-> 1] /\ cached = <<>>
  /\ page = [p \in Pages |-> "idle"] /\ wants = [p \in Pages |-> SilverIndex]
  /\ found = [p \in Pages |-> <<>>] /\ value = [p \in Pages |-> 0]
  /\ ending = [t \in Tasks |-> "idle"] /\ settled = basis /\ behind = {} /\ tainted = FALSE

Renew(x) == basis[x] < LastBasis /\ basis' = [basis EXCEPT ![x] = @ + 1]

\* Documents of another index are written or deleted.
Change(x) ==
  /\ x # SilverIndex /\ Renew(x)
  /\ UNCHANGED <<cached, pageVars, ending, settled, behind, tainted>>

\* Rows are requeued, or enqueued with a changed payload, which takes their
\* processed_at away; the dictionary stays.
Unmark ==
  /\ Renew(SilverIndex)
  /\ UNCHANGED <<cached, pageVars, ending, settled, behind, tainted>>

\* A task marks rows, whose latest processed_at is the date of the silver index, but
\* for those requeued meanwhile.  While it has indexed nothing it leaves the dictionary
\* alone.
Mark(t) ==
  /\ Renew(SilverIndex) \/ UNCHANGED basis
  /\ \E indexed \in BOOLEAN : ending' = [ending EXCEPT ![t] = IF indexed THEN "marked" ELSE @]
  /\ UNCHANGED <<cached, pageVars, settled, behind, tainted>>

UnderWay == {p \in Pages : page[p] # "idle"}

\* Mutant of Invalidate: the date of the silver index alone is taken out.
InvalidateOne(t) ==
  /\ ending[t] = "marked" /\ ending' = [ending EXCEPT ![t] = "idle"]
  /\ cached' = [x \in DOMAIN cached \ {SilverIndex} |-> cached[x]]
  /\ settled' = basis /\ behind' = UnderWay /\ tainted' = FALSE
  /\ UNCHANGED <<basis, pageVars>>

\* invalidate_freshness_cache
Invalidate(t) ==
  /\ ending[t] = "marked" /\ ending' = [ending EXCEPT ![t] = "idle"]
  /\ cached' = <<>> /\ settled' = basis /\ behind' = UnderWay /\ tainted' = FALSE
  /\ UNCHANGED <<basis, pageVars>>

\* The worker is killed, or the cache cannot be reached, which it does not report.
InvalidateFails(t) ==
  /\ ending[t] = "marked" /\ ending' = [ending EXCEPT ![t] = "idle"]
  /\ UNCHANGED <<basis, cached, pageVars, settled, behind, tainted>>

\* CACHE_TTL has passed.
Expire ==
  /\ cached # <<>> /\ cached' = <<>> /\ tainted' = FALSE
  /\ UNCHANGED <<basis, pageVars, ending, settled, behind>>

\* A page reads the dictionary, and goes on if it has no date of its index.
Look(p, x) ==
  /\ page[p] = "idle" /\ x \notin DOMAIN cached
  /\ page' = [page EXCEPT ![p] = "looked"] /\ wants' = [wants EXCEPT ![p] = x]
  /\ found' = [found EXCEPT ![p] = cached]
  /\ behind' = IF tainted THEN behind \cup {p} ELSE behind
  /\ UNCHANGED <<basis, cached, value, ending, settled, tainted>>

Compute(p) ==
  /\ page[p] = "looked" /\ page' = [page EXCEPT ![p] = "computed"]
  /\ value' = [value EXCEPT ![p] = basis[wants[p]]]
  /\ UNCHANGED <<basis, cached, wants, found, ending, settled, behind, tainted>>

WithDate(dictionary, x, date) ==
  [y \in DOMAIN dictionary \cup {x} |-> IF y = x THEN date ELSE dictionary[y]]

\* The dictionary it read, with its date, replaces the one there is by now; or is not
\* stored when the cache cannot be reached or the page fails.
Store(p) ==
  /\ page[p] # "idle" /\ page' = [page EXCEPT ![p] = "idle"]
  /\ \/ /\ page[p] = "computed" /\ cached' = WithDate(found[p], wants[p], value[p])
        /\ tainted' = (p \in behind)
     \/ UNCHANGED <<cached, tainted>>
  /\ found' = [found EXCEPT ![p] = <<>>] /\ value' = [value EXCEPT ![p] = 0]
  /\ behind' = behind \ {p}
  /\ UNCHANGED <<basis, wants, ending, settled>>

FreshnessNext ==
  \/ Unmark \/ \E x \in DatedIndices : Change(x)
  \/ \E t \in Tasks : Mark(t) \/ Invalidate(t) \/ InvalidateFails(t)
  \/ Expire
  \/ \E p \in Pages : (\E x \in DatedIndices : Look(p, x)) \/ Compute(p) \/ Store(p)

FreshnessSpec == FreshnessInit /\ [][FreshnessNext]_freshnessVars

(***************************************************************************)
(* Properties                                                              *)
(***************************************************************************)

\* Every date that pages show was computed from what there was when an ETL run last
\* deleted the dictionary, or from something newer, however pages overwrite and copy
\* each other's dictionaries; the exception is a page under way at the deletion, which
\* may store what it had, and what others then copy of it (get_index_freshness,
\* invalidate_freshness_cache).
DatesAreSettled ==
  /\ ~tainted => \A x \in DOMAIN cached : cached[x] >= settled[x]
  /\ \A p \in Pages \ behind : page[p] = "computed" =>
       /\ value[p] >= settled[wants[p]]
       /\ \A x \in DOMAIN found[p] : found[p][x] >= settled[x]

\* The types of the variables (the cached dictionary and what its readers hold).
FreshnessTypeOK ==
  LET Dictionary == UNION {[known -> 1 .. LastBasis] : known \in SUBSET DatedIndices} IN
  /\ {basis, settled} \subseteq [DatedIndices -> 1 .. LastBasis] /\ cached \in Dictionary
  /\ page \in [Pages -> {"idle", "looked", "computed"}] /\ wants \in [Pages -> DatedIndices]
  /\ found \in [Pages -> Dictionary] /\ value \in [Pages -> 0 .. LastBasis]
  /\ ending \in [Tasks -> {"idle", "marked"}] /\ behind \subseteq Pages /\ tainted \in BOOLEAN
=============================================================================

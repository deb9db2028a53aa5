----------------------------- MODULE LookupBuild ------------------------------
(***************************************************************************)
(* Building the lookup indices of the search pages                         *)
(* (search_gateway/lookup/base.py).  A build, started by a command or as a *)
(* task, checks that its target indices do not exist, collects the values  *)
(* of all its lookups from one scan of the source index, checks again,     *)
(* creates the indices and fills them one after the other.  Nothing keeps  *)
(* two builds from running at once.                                        *)
(***************************************************************************)
EXTENDS Integers, FiniteSets, Sequences

CONSTANTS
  Builds,      \* builds that may be started
  LookupOrder, \* the lookups selected, in order
  IndexNames,  \* names an index may be given with --lookup-index
  Values,      \* Values[l]: the values there may be for lookup l
  MaxDeletes   \* bound: indices deleted by hand

ASSUME LookupAssumption ==
  /\ Len(LookupOrder) \in Nat \ {0} /\ DOMAIN LookupOrder = 1 .. Len(LookupOrder)
  /\ IndexNames # {} /\ MaxDeletes \in Nat

VARIABLES
  build,       \* build[b]: where build b is, and what it has read and written
  exists,      \* names of the indices there are
  content,     \* content[n]: the documents of index n, <<build, value>>
  deletes      \* indices deleted by hand

lookupVars == <<build, exists, content, deletes>>

Lookups == DOMAIN LookupOrder
AnyValue == UNION {Values[l] : l \in Lookups}
AnyName == CHOOSE n \in IndexNames : TRUE

\* target: index_names; values: the entries of each builder; next: the lookup at hand;
\* todo: its entries still to be sent; done, failed: counts of the bulk; errors:
\* the entries reported as failed, of all lookups.
NewBuild == [at |-> "new", target |-> [l \in Lookups |-> AnyName],
             values |-> [l \in Lookups |-> {}], next |-> 1, todo |-> {}, done |-> 0,
             failed |-> 0, errors |-> {}]

LookupInit ==
  /\ build = [b \in Builds |-> NewBuild] /\ exists = {}
  /\ content = [n \in IndexNames |-> {}] /\ deletes = 0

Put(b, state) == build' = [build EXCEPT ![b] = state]
Go(b, at) == Put(b, [build[b] EXCEPT !.at = at])

\* resolve_index_names: two lookups may not share a name.
Resolve(b, target) ==
  /\ build[b].at = "new"
  /\ \A l, m \in Lookups : target[l] = target[m] => l = m
  /\ Put(b, [build[b] EXCEPT !.at = "validate", !.target = target])
  /\ UNCHANGED <<exists, content, deletes>>

Targets(b) == {build[b].target[l] : l \in Lookups}

\* validate_targets, before the scan and once more after it.
Validate(b) ==
  /\ build[b].at \in {"validate", "revalidate"}
  /\ Go(b, IF Targets(b) \cap exists # {} THEN "failed"
           ELSE IF build[b].at = "validate" THEN "collect" ELSE "create")
  /\ UNCHANGED <<exists, content, deletes>>

\* The scan: the values the source index has by then, cut to max_items.
CollectValues(b, values) ==
  /\ build[b].at = "collect" /\ \A l \in Lookups : values[l] \subseteq Values[l]
  /\ Put(b, [build[b] EXCEPT !.at = "revalidate", !.values = values])
  /\ UNCHANGED <<exists, content, deletes>>

\* Mutant of Create: an index that exists is taken as created.
CreateOrReuse(b) ==
  LET n == build[b].target[build[b].next] IN
  /\ build[b].at = "create"
  /\ exists' = exists \cup {n}
  /\ Put(b, IF build[b].next < Len(LookupOrder) THEN [build[b] EXCEPT !.next = @ + 1]
            ELSE [build[b] EXCEPT !.next = 1, !.at = "fill"])
  /\ UNCHANGED <<content, deletes>>

\* create_indices creates one after the other, and an index that exists by now makes
\* it raise; the ones created before are left.
Create(b) ==
  LET n == build[b].target[build[b].next] IN
  /\ build[b].at = "create"
  /\ exists' = exists \cup {n}
  /\ IF n \in exists THEN Go(b, "failed")
     ELSE Put(b, IF build[b].next < Len(LookupOrder) THEN [build[b] EXCEPT !.next = @ + 1]
                 ELSE [build[b] EXCEPT !.next = 1, !.at = "fill"])
  /\ UNCHANGED <<content, deletes>>

\* bulk_index of one lookup.
Fill(b) ==
  /\ build[b].at = "fill"
  /\ Put(b, [build[b] EXCEPT !.at = "bulk", !.todo = build[b].values[build[b].next],
                             !.done = 0, !.failed = 0])
  /\ UNCHANGED <<exists, content, deletes>>

\* An entry is indexed, under an id made of its value only, or fails.
BulkEntry(b, v) ==
  LET n == build[b].target[build[b].next] IN
  /\ build[b].at = "bulk" /\ v \in build[b].todo
  /\ \/ /\ content' = [content EXCEPT ![n] = {d \in @ : d[2] # v} \cup {<<b, v>>}]
        /\ Put(b, [build[b] EXCEPT !.todo = @ \ {v}, !.done = @ + 1])
     \/ /\ Put(b, [build[b] EXCEPT !.todo = @ \ {v}, !.failed = @ + 1,
                                   !.errors = @ \cup {<<build[b].next, v>>}])
        /\ UNCHANGED content
  /\ UNCHANGED <<exists, deletes>>

\* Mutant of Verify: the count is made while entries are still unanswered.
VerifyEarly(b) ==
  LET n == build[b].target[build[b].next] IN
  /\ build[b].at = "bulk"
  /\ Cardinality(content[n]) = build[b].done
  /\ Put(b, IF build[b].next < Len(LookupOrder)
            THEN [build[b] EXCEPT !.next = @ + 1, !.at = "fill"]
            ELSE [build[b] EXCEPT !.at = "returned"])
  /\ UNCHANGED <<exists, content, deletes>>

\* Mutant of Verify: one lookup more than there are.
VerifyPastLast(b) ==
  /\ build[b].at = "bulk" /\ build[b].todo = {}
  /\ Put(b, IF build[b].next <= Len(LookupOrder)
            THEN [build[b] EXCEPT !.next = @ + 1, !.at = "fill"]
            ELSE [build[b] EXCEPT !.at = "returned"])
  /\ UNCHANGED <<exists, content, deletes>>

\* After a refresh the index has to hold as many documents as were indexed, and as
\* many entries as were collected have to be accounted for.
Verify(b) ==
  LET n == build[b].target[build[b].next] IN
  /\ build[b].at = "bulk" /\ build[b].todo = {}
  /\ Put(b, IF \/ Cardinality(content[n]) # build[b].done
               \/ Cardinality(build[b].values[build[b].next]) # build[b].done + build[b].failed
            THEN [build[b] EXCEPT !.at = "failed"]
            ELSE IF build[b].next < Len(LookupOrder)
                 THEN [build[b] EXCEPT !.next = @ + 1, !.at = "fill"]
                 ELSE [build[b] EXCEPT !.at = "returned"])
  /\ UNCHANGED <<exists, content, deletes>>

\* OpenSearch is away, the source index does not exist, a bulk raises, or the process
\* is killed: what was created stays.
BuildFails(b) ==
  /\ build[b].at \notin {"new", "failed", "returned"}
  /\ Go(b, "failed")
  /\ UNCHANGED <<exists, content, deletes>>

Over(b) == build[b].at \in {"failed", "returned"}

\* "Delete the existing index first": by hand, once no running build writes it.
Delete(n) ==
  /\ n \in exists /\ deletes < MaxDeletes
  /\ \A b \in Builds : ~Over(b) /\ build[b].at \in {"create", "fill", "bulk"}
                         => n \notin Targets(b)
  /\ exists' = exists \ {n} /\ content' = [content EXCEPT ![n] = {}]
  /\ deletes' = deletes + 1
  /\ UNCHANGED build

LookupNext ==
  \/ \E b \in Builds :
       \/ \E target \in [Lookups -> IndexNames] : Resolve(b, target)
       \/ Validate(b) \/ Create(b) \/ Fill(b) \/ Verify(b) \/ BuildFails(b)
       \/ \E values \in [Lookups -> SUBSET AnyValue] : CollectValues(b, values)
       \/ \E v \in AnyValue : BulkEntry(b, v)
  \/ \E n \in IndexNames : Delete(n)

LookupSpec == LookupInit /\ [][LookupNext]_lookupVars

(***************************************************************************)
(* Properties                                                              *)
(***************************************************************************)

\* However the checks and creations of two builds interleave, no index has documents
\* of both (run, validate_targets, create_indices).
BuildsDoNotMix ==
  \A n \in IndexNames : \A d, e \in content[n] : d[1] = e[1]

\* A build that returns has filled every index of its own with the entries it
\* collected, but for those it reported as errors; an index with other documents, or
\* fewer, has been deleted and made anew by another build (bulk_index).
ReturnedIsComplete ==
  \A b \in Builds, l \in Lookups :
    LET n == build[b].target[l] IN
    build[b].at = "returned" =>
      \/ content[n] = {<<b, v>> : v \in {w \in build[b].values[l] : <<l, w>> \notin build[b].errors}}
      \/ deletes > 0 /\ \A d \in content[n] : d[1] # b

\* The types of the variables (LookupIndexBuildService).
LookupTypeOK ==
  /\ build \in [Builds ->
       [at : {"new", "validate", "collect", "revalidate", "create", "fill", "bulk",
              "failed", "returned"},
        target : [Lookups -> IndexNames], values : [Lookups -> SUBSET AnyValue],
        next : Lookups, todo : SUBSET AnyValue, done : Nat, failed : Nat,
        errors : SUBSET (Lookups \X AnyValue)]]
  /\ exists \subseteq IndexNames /\ deletes \in 0 .. MaxDeletes
  /\ content \in [IndexNames -> SUBSET (Builds \X AnyValue)]
==============================================================================

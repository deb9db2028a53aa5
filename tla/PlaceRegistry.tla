----------------------------- MODULE PlaceRegistry -----------------------------
(***************************************************************************)
(* Countries, states, cities, locations and institutions that imports of   *)
(* directories look up by name and make when they are missing              *)
(* (core/directory_import.py, get_or_create of usefulmodels, location and  *)
(* institution).  No table has a unique constraint and every import is one *)
(* transaction, which sees its own rows and those committed by others; a   *)
(* place of which there are two rows can no longer be looked up.           *)
(***************************************************************************)
EXTENDS Integers, FiniteSets, Sequences

CONSTANTS
  Importers,     \* requests that import a file
  ImportFiles,   \* files: sequences of lines, the names of [country, state, city,
                 \* institution] that a line asks for
  Missing,       \* stands for an empty cell
  MaxImports     \* bound on the imports

Parts == <<"country", "state", "city">>
RegistryTables == {"country", "state", "city", "location", "institution"}

ASSUME RegistryAssumption ==
  /\ MaxImports \in Nat /\ Importers # {} /\ "committed" \notin Importers
  /\ \A file \in ImportFiles : file \in Seq({file[i] : i \in DOMAIN file})

\* parts: ids of the places of a location.  place: id of the location of an institution.
\* by: the importer whose transaction made the row, "committed" once it has ended.

VARIABLES
  table,        \* rows [id, kind, name, parts, place, by]
  lastRow,      \* ids given so far
  importer,     \* of each importer: the lines left, and how far it is with its line
  asked,        \* auxiliary: names each importer has looked up in its transaction
  together,     \* auxiliary: names that two transactions looked up at once
  imports       \* imports begun

registryVars == <<table, lastRow, importer, asked, together, imports>>

Nobody == [at |-> "idle", left |-> <<>>, ask |-> [p \in {"country", "state", "city", "institution"} |-> Missing],
           next |-> 1, parts |-> <<0, 0, 0>>, place |-> 0]

RegistryInit ==
  /\ table = {} /\ lastRow = 0 /\ importer = [m \in Importers |-> Nobody]
  /\ asked = [m \in Importers |-> {}] /\ together = {} /\ imports = 0

\* Rows of a kind that the transaction of m sees.
Seen(m, kind) == {x \in table : x.kind = kind /\ x.by \in {m, "committed"}}

\* first(): the row with the lowest id.
FirstOf(rows) == CHOOSE x \in rows : \A y \in rows : x.id <= y.id

NameOf(id) == IF id = 0 THEN Missing ELSE (CHOOSE x \in table : x.id = id).name
NamesOf(parts) == [i \in 1 .. 3 |-> NameOf(parts[i])]

\* The names by which a row is looked up.
Sought(x) ==
  CASE x.kind = "location" -> <<"location", NamesOf(x.parts)>>
    [] x.kind = "institution" -> <<"institution", x.name, x.place>>
    [] OTHER -> <<x.kind, x.name>>

AskedPlaces(m) == [i \in 1 .. 3 |-> importer[m].ask[Parts[i]]]
Complete(m) == Missing \notin {AskedPlaces(m)[i] : i \in 1 .. 3}

LooksUp(m, what) ==
  /\ asked' = [asked EXCEPT ![m] = @ \cup {what}]
  /\ together' = IF \E o \in Importers \ {m} : what \in asked[o] THEN together \cup {what} ELSE together

Insert(m, kind, name, parts, place) ==
  /\ lastRow' = lastRow + 1
  /\ table' = table \cup {[id |-> lastRow + 1, kind |-> kind, name |-> name, parts |-> parts,
                           place |-> place, by |-> m]}

Becomes(m, state) == importer' = [importer EXCEPT ![m] = state]

(***************************************************************************)
(* An import                                                               *)
(***************************************************************************)

BeginImport(m, file) ==
  /\ importer[m].at = "idle" /\ imports < MaxImports /\ imports' = imports + 1
  /\ Becomes(m, [Nobody EXCEPT !.at = "between", !.left = file])
  /\ UNCHANGED <<table, lastRow, asked, together>>

\* build_institutions, build_location: an institution takes a location only when
\* country, state and city are all given.
NextLine(m) ==
  LET lines == importer[m].left
      ask == Head(lines)
      whole == Missing \notin {ask[Parts[i]] : i \in 1 .. 3}
  IN
  /\ importer[m].at = "between" /\ lines # <<>>
  /\ Becomes(m, [Nobody EXCEPT !.ask = ask, !.left = Tail(lines),
                   !.at = IF ask.institution = Missing \/ whole THEN "location" ELSE "institution"])
  /\ UNCHANGED <<table, lastRow, asked, together, imports>>

\* A location is looked up by its three names; an empty cell is a name no row has.
FindLocation(m) ==
  LET i == importer[m]
      rows == {x \in Seen(m, "location") : NamesOf(x.parts) = AskedPlaces(m)}
  IN
  /\ i.at = "location"
  /\ IF Complete(m) /\ rows # {}
     THEN Becomes(m, [i EXCEPT !.place = FirstOf(rows).id,
                        !.at = IF i.ask.institution = Missing THEN "between" ELSE "institution"])
     ELSE Becomes(m, [i EXCEPT !.at = "part"])
  /\ LooksUp(m, <<"location", AskedPlaces(m)>>)
  /\ UNCHANGED <<table, lastRow, imports>>

\* Mutant of CheckPart: states are looked up by the acronym alone, which no import gives.
CheckByAcronym(m) ==
  LET i == importer[m]
      kind == Parts[i.next]
  IN
  /\ i.at = "part" /\ i.next <= 3
  /\ IF i.ask[kind] = Missing
     THEN Becomes(m, [i EXCEPT !.next = @ + 1]) /\ UNCHANGED <<asked, together>>
     ELSE /\ LooksUp(m, <<kind, i.ask[kind]>>)
          /\ Becomes(m, [i EXCEPT !.at =
               IF kind # "state" /\ \E x \in Seen(m, kind) : x.name = i.ask[kind] THEN "get" ELSE "create"])
  /\ UNCHANGED <<table, lastRow, imports>>

\* get_or_create of a country, a state or a city first asks whether there is a row ...
CheckPart(m) ==
  LET i == importer[m]
      kind == Parts[i.next]
  IN
  /\ i.at = "part" /\ i.next <= 3
  /\ IF i.ask[kind] = Missing
     THEN Becomes(m, [i EXCEPT !.next = @ + 1]) /\ UNCHANGED <<asked, together>>
     ELSE /\ LooksUp(m, <<kind, i.ask[kind]>>)
          /\ Becomes(m, [i EXCEPT !.at =
               IF \E x \in Seen(m, kind) : x.name = i.ask[kind] THEN "get" ELSE "create"])
  /\ UNCHANGED <<table, lastRow, imports>>

\* ... and then gets it, which raises when there are several: the import ends there,
\* with what it has written.
GetPart(m) ==
  LET i == importer[m]
      kind == Parts[i.next]
      rows == {x \in Seen(m, kind) : x.name = i.ask[kind]}
  IN
  /\ i.at = "get"
  /\ IF Cardinality(rows) > 1 THEN Becomes(m, [i EXCEPT !.at = "raised"])
     ELSE Becomes(m, [i EXCEPT !.at = "part", !.next = @ + 1, !.parts[i.next] = FirstOf(rows).id])
  /\ UNCHANGED <<table, lastRow, asked, together, imports>>

CreatePart(m) ==
  LET i == importer[m]
      kind == Parts[i.next]
  IN
  /\ i.at = "create" /\ Insert(m, kind, i.ask[kind], <<>>, 0)
  /\ Becomes(m, [i EXCEPT !.at = "part", !.next = @ + 1, !.parts[i.next] = lastRow + 1])
  /\ UNCHANGED <<asked, together, imports>>

SaveLocation(m) ==
  LET i == importer[m] IN
  /\ i.at = "part" /\ i.next > 3 /\ Insert(m, "location", Missing, i.parts, 0)
  /\ Becomes(m, [i EXCEPT !.place = lastRow + 1,
                   !.at = IF i.ask.institution = Missing THEN "between" ELSE "institution"])
  /\ UNCHANGED <<asked, together, imports>>

\* Without a location any institution of the name will do.
FindInstitution(m) ==
  LET i == importer[m]
      rows == {x \in Seen(m, "institution") :
                 x.name = i.ask.institution /\ (i.place # 0 => x.place = i.place)}
  IN
  /\ i.at = "institution"
  /\ Becomes(m, [i EXCEPT !.at = IF rows = {} THEN "save" ELSE "between"])
  /\ LooksUp(m, <<"institution", i.ask.institution, i.place>>)
  /\ UNCHANGED <<table, lastRow, imports>>

SaveInstitution(m) ==
  LET i == importer[m] IN
  /\ i.at = "save" /\ Insert(m, "institution", i.ask.institution, <<>>, i.place)
  /\ Becomes(m, [i EXCEPT !.at = "between"])
  /\ UNCHANGED <<asked, together, imports>>

\* The request ends, and with it the transaction; an import that raised was reported.
EndImport(m) ==
  /\ \/ importer[m].at = "raised"
     \/ importer[m].at = "between" /\ importer[m].left = <<>>
  /\ Becomes(m, Nobody)
  /\ table' = {[x EXCEPT !.by = IF @ = m THEN "committed" ELSE @] : x \in table}
  /\ asked' = [asked EXCEPT ![m] = {}]
  /\ UNCHANGED <<lastRow, together, imports>>

\* The server process is killed, or the database refuses a statement.
AbortImport(m) ==
  /\ importer[m].at # "idle" /\ Becomes(m, Nobody)
  /\ table' = {x \in table : x.by # m}
  /\ asked' = [asked EXCEPT ![m] = {}]
  /\ UNCHANGED <<lastRow, together, imports>>

RegistryNext ==
  \E m \in Importers :
    \/ \E file \in ImportFiles : BeginImport(m, file)
    \/ NextLine(m)
    \/ FindLocation(m) \/ CheckPart(m) \/ GetPart(m) \/ CreatePart(m) \/ SaveLocation(m)
    \/ FindInstitution(m) \/ SaveInstitution(m) \/ EndImport(m) \/ AbortImport(m)

RegistrySpec == RegistryInit /\ [][RegistryNext]_registryVars

(***************************************************************************)
(* Properties                                                              *)
(***************************************************************************)

\* Unless two imports that were under way at once looked up a name, there is one row of
\* that name, which every import finds, and no import is refused for it; but for
\* locations without a country, state or city, of which every import makes a new one
\* (get_or_create of Country, State, City, Location and Institution).
OneRowPerName ==
  /\ \A x, y \in {x \in table : x.by = "committed"} :
       /\ x # y /\ Sought(x) = Sought(y)
       /\ x.kind = "location" => 0 \notin {x.parts[i] : i \in 1 .. 3}
       => Sought(x) \in together
  /\ \A m \in Importers : importer[m].at = "raised" =>
       LET kind == Parts[importer[m].next] IN <<kind, importer[m].ask[kind]>> \in together

\* The types of the variables (models of usefulmodels, location and institution).
RegistryTypeOK ==
  /\ imports \in 0 .. MaxImports /\ lastRow \in Nat
  /\ \A x \in table :
       /\ x.id \in 1 .. lastRow /\ x.kind \in RegistryTables /\ x.by \in Importers \cup {"committed"}
       /\ x.place \in 0 .. lastRow /\ x.parts \in {<<>>} \cup [1 .. 3 -> 0 .. lastRow]
  /\ \A x, y \in table : x.id = y.id => x = y
  /\ \A m \in Importers :
       /\ importer[m].next \in 1 .. 4 /\ importer[m].place \in 0 .. lastRow
       /\ importer[m].at \in {"idle", "between", "location", "part", "get", "create", "institution", "save", "raised"}
       /\ \A what \in asked[m] : what[1] \in RegistryTables
  /\ \A what \in together : what[1] \in RegistryTables
=============================================================================

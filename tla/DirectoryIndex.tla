---------------------------- MODULE DirectoryIndex -----------------------------
(***************************************************************************)
(* The documents of a directory in the index of the public search, beside  *)
(* the rows of its table (education_directory, event_directory,            *)
(* infrastructure_directory, policy_directory, usefulmodels/signals.py,    *)
(* core/scripts/opensearch_directory_indexer.py).  A request runs in one   *)
(* transaction and its signals write the index at once, whatever becomes   *)
(* of the transaction; an error of the index is only logged.  A sweep, over *)
(* the rows of a thematic area that is renamed or by the indexing script,  *)
(* reads rows first and writes their documents after, without a lock.      *)
(***************************************************************************)
EXTENDS Integers, FiniteSets

CONSTANTS
  DirectoryRows,     \* ids of rows
  OldRows,           \* those of rows that are published when the model begins
  Requests,          \* requests that are under way at once
  LastName,          \* the thematic area is renamed until it has this name
  MaxOpened,         \* bound on the rows that requests open
  MaxTroubles        \* bound on all failed writes of the index and transactions rolled back

ASSUME DirectoryAssumption ==
  {LastName, MaxOpened} \subseteq Nat \ {0} /\ MaxTroubles \in Nat
  /\ DirectoryRows # {} /\ OldRows \subseteq DirectoryRows

\* status stands for record_status and the other fields, "TO MODERATE" for any but
\* PUBLISHED.  tagged: the row has the thematic area.
Row == [status : {"PUBLISHED", "TO MODERATE"}, tagged : BOOLEAN]
NoRow == [status |-> "none", tagged |-> FALSE]

\* A document is the name of its thematic area, 0 without it.
NoDocument == -1

VARIABLES
  row,          \* committed rows
  unused,       \* ids never given to a row
  areaName,     \* committed name of the thematic area
  phase, at,    \* of each request: how far it is, and its row
  written,      \* of each request: rows written in its transaction
  opened,       \* times that a request opened a row
  troubles,     \* failed writes and transactions rolled back
  sweep,        \* "none", "rename" or "script"
  listed, left, \* rows as the sweep read them, and those it has still to write
  document,     \* documents of the index
  suspect       \* auxiliary: rows whose last write of the index failed, was rolled
                \* back or met a sweep

directoryVars == <<row, unused, areaName, phase, at, written, opened, troubles, sweep, listed, left,
                   document, suspect>>
requestVars == <<phase, at, written>>
sweepVars == <<areaName, sweep, listed, left>>

\* build_*_doc of a row that is published, with the name of the area as it is read.
DocumentOf(r, name) ==
  IF r.status # "PUBLISHED" THEN NoDocument ELSE IF r.tagged THEN name ELSE 0

DirectoryInit ==
  /\ row = [r \in DirectoryRows |->
              IF r \in OldRows THEN [status |-> "PUBLISHED", tagged |-> TRUE] ELSE NoRow]
  /\ unused = DirectoryRows \ OldRows
  /\ areaName = 1 /\ document = [r \in DirectoryRows |-> DocumentOf(row[r], 1)]
  /\ phase = [w \in Requests |-> "idle"] /\ at \in [Requests -> {CHOOSE r \in DirectoryRows : TRUE}]
  /\ written = [w \in Requests |-> <<>>] /\ opened = 0 /\ troubles = 0
  /\ sweep = "none" /\ listed = [r \in DirectoryRows |-> NoRow] /\ left = {} /\ suspect = {}

(***************************************************************************)
(* Requests: a form, a deletion or the import of a file                    *)
(***************************************************************************)

\* The row as the transaction of the request sees it.
Own(w, r) == IF r \in DOMAIN written[w] THEN written[w][r] ELSE row[r]

\* A request that changed a row keeps the others from changing it until it ends.
Lock(w, r) == \A v \in Requests \ {w} : r \notin DOMAIN written[v]

Trouble(rows) ==
  troubles < MaxTroubles /\ troubles' = troubles + 1 /\ suspect' = suspect \cup rows

\* index_directory_instance, delete_directory_instance: errors are only logged.
Sync(r, d) ==
  \/ /\ document' = [document EXCEPT ![r] = d] /\ troubles' = troubles
     /\ suspect' = IF sweep = "none" THEN suspect \ {r} ELSE suspect \cup {r}
  \/ Trouble({r}) /\ document' = document

\* A row is opened, or made; an import does so for each line of its file.
Open(w, r) ==
  /\ phase[w] \in {"idle", "related"} /\ opened < MaxOpened /\ opened' = opened + 1
  /\ Own(w, r) = NoRow => r \in unused
  /\ unused' = unused \ {r}
  /\ phase' = [phase EXCEPT ![w] = "open"] /\ at' = [at EXCEPT ![w] = r]
  /\ UNCHANGED <<row, written, sweepVars, document, suspect, troubles>>

\* The row is saved as it was read with what was changed, and made again when it was
\* deleted meanwhile; the signal follows.  Areas are not saved with it.
Save(w, status) ==
  LET r == at[w]
      new == [status |-> status, tagged |-> Own(w, r).tagged]
  IN
  /\ phase[w] = "open" /\ Lock(w, r)
  /\ phase' = [phase EXCEPT ![w] = "saved"]
  /\ written' = [written EXCEPT ![w] = [x \in DOMAIN @ \cup {r} |-> IF x = r THEN new ELSE @[x]]]
  /\ Sync(r, DocumentOf(new, areaName))
  /\ UNCHANGED <<row, unused, at, opened, sweepVars>>

\* The areas of the row are changed, or cleared and added again, with signals; the last
\* of them leaves the document as it is when all are done.
Relate(w, tagged) ==
  LET r == at[w]
      new == [written[w][r] EXCEPT !.tagged = tagged]
  IN
  /\ phase[w] = "saved" /\ phase' = [phase EXCEPT ![w] = "related"]
  /\ written' = [written EXCEPT ![w][r] = new]
  /\ \/ Sync(r, DocumentOf(new, areaName))
     \/ tagged = written[w][r].tagged /\ UNCHANGED <<document, suspect, troubles>>
  /\ UNCHANGED <<row, unused, at, opened, sweepVars>>

\* Mutant of Moderate: the status is set by an update, which sends no signal.
ModerateQuietly(w) ==
  LET r == at[w] IN
  /\ phase[w] = "related" /\ phase' = [phase EXCEPT ![w] = "moderated"]
  /\ written' = [written EXCEPT ![w][r].status = "TO MODERATE"]
  /\ UNCHANGED <<row, unused, at, opened, sweepVars, document, suspect, troubles>>

\* What a user who must be moderated saved is set to TO MODERATE and saved again.
Moderate(w) ==
  LET r == at[w] IN
  /\ phase[w] = "related" /\ phase' = [phase EXCEPT ![w] = "moderated"]
  /\ written' = [written EXCEPT ![w][r].status = "TO MODERATE"]
  /\ Sync(r, NoDocument)
  /\ UNCHANGED <<row, unused, at, opened, sweepVars>>

DeleteRow(w) ==
  LET r == at[w] IN
  /\ phase[w] = "open" /\ DOMAIN written[w] = {} /\ row[r] # NoRow /\ Lock(w, r)
  /\ phase' = [phase EXCEPT ![w] = "moderated"]
  /\ written' = [written EXCEPT ![w] = [x \in {r} |-> NoRow]]
  /\ Sync(r, NoDocument)
  /\ UNCHANGED <<row, unused, at, opened, sweepVars>>

\* An import that met an error in a line ends as well, with what it wrote.
Commit(w) ==
  /\ phase[w] # "idle" /\ phase' = [phase EXCEPT ![w] = "idle"]
  /\ row' = [r \in DirectoryRows |-> Own(w, r)]
  /\ written' = [written EXCEPT ![w] = <<>>]
  /\ UNCHANGED <<unused, at, opened, sweepVars, document, suspect, troubles>>

\* An exception, also of the database while an import writes: the rows stay as they
\* were and the documents do not.
RollBack(w) ==
  /\ phase[w] # "idle" /\ phase' = [phase EXCEPT ![w] = "idle"]
  /\ written' = [written EXCEPT ![w] = <<>>]
  /\ Trouble(DOMAIN written[w])
  /\ UNCHANGED <<row, unused, at, opened, sweepVars, document>>

(***************************************************************************)
(* Sweeps                                                                  *)
(***************************************************************************)

\* The thematic area is saved and the rows that have it are read, or the script reads
\* those that are published: as they are committed.
BeginSweep(kind) ==
  /\ sweep = "none" /\ sweep' = kind
  /\ kind = "rename" => areaName < LastName
  /\ left' = {r \in DirectoryRows : IF kind = "rename" THEN row[r].tagged ELSE row[r].status = "PUBLISHED"}
  /\ listed' = [r \in DirectoryRows |-> IF r \in left' THEN row[r] ELSE NoRow]
  /\ suspect' = suspect \cup UNION {DOMAIN written[w] : w \in Requests}
  /\ UNCHANGED <<row, unused, areaName, requestVars, opened, troubles, document>>

\* A document is built of the row that was listed, with the areas the row has now.
SweepRow(r) ==
  LET name == IF sweep = "rename" THEN areaName + 1 ELSE areaName IN
  /\ r \in left /\ left' = left \ {r}
  /\ \/ /\ document' = [document EXCEPT ![r] =
                          DocumentOf([listed[r] EXCEPT !.tagged = row[r].tagged], name)]
        /\ UNCHANGED <<suspect, troubles>>
     \/ document' = document /\ Trouble({r})
  /\ UNCHANGED <<row, unused, areaName, requestVars, opened, sweep, listed>>

\* The transaction that saved the area ends, or is rolled back when it raises.
EndSweep ==
  /\ sweep # "none" /\ sweep' = "none" /\ left' = {}
  /\ listed' = [r \in DirectoryRows |-> NoRow]
  /\ \/ left = {} /\ areaName' = (IF sweep = "rename" THEN areaName + 1 ELSE areaName)
        /\ UNCHANGED <<suspect, troubles>>
     \/ areaName' = areaName /\ Trouble({r \in DirectoryRows : listed[r] # NoRow})
  /\ UNCHANGED <<row, unused, requestVars, opened, document>>

DirectoryNext ==
  \/ \E w \in Requests :
       \/ \E r \in DirectoryRows : Open(w, r)
       \/ \E status \in {"PUBLISHED", "TO MODERATE"} : Save(w, status)
       \/ \E tagged \in BOOLEAN : Relate(w, tagged)
       \/ Moderate(w) \/ DeleteRow(w) \/ Commit(w) \/ RollBack(w)
  \/ \E kind \in {"rename", "script"} : BeginSweep(kind)
  \/ \E r \in DirectoryRows : SweepRow(r)
  \/ EndSweep

DirectorySpec == DirectoryInit /\ [][DirectoryNext]_directoryVars

(***************************************************************************)
(* Properties                                                              *)
(***************************************************************************)

\* However forms, deletions, imports, moderation and sweeps interleave, the index shows
\* a row as it is committed, and only if it is published, once nobody writes it; but
\* for rows whose last write failed, was rolled back, or met a sweep that wrote without
\* a lock (signals.py of the directories, _sync_*_instance).
IndexShowsTable ==
  sweep = "none" =>
    \A r \in DirectoryRows \ suspect :
      (\A w \in Requests : r \notin DOMAIN written[w]) => document[r] = DocumentOf(row[r], areaName)

\* The types of the variables (CommonDirectory models, index documents).
DirectoryTypeOK ==
  /\ row \in [DirectoryRows -> Row \cup {NoRow}] /\ unused \subseteq DirectoryRows
  /\ areaName \in 1 .. LastName /\ at \in [Requests -> DirectoryRows]
  /\ phase \in [Requests -> {"idle", "open", "saved", "related", "moderated"}]
  /\ \A w \in Requests :
       DOMAIN written[w] \subseteq DirectoryRows
         /\ \A r \in DOMAIN written[w] : written[w][r] \in Row \cup {NoRow}
  /\ opened \in 0 .. MaxOpened /\ troubles \in 0 .. MaxTroubles /\ sweep \in {"none", "rename", "script"}
  /\ listed \in [DirectoryRows -> Row \cup {NoRow}] /\ left \subseteq DirectoryRows
  /\ document \in [DirectoryRows -> NoDocument .. LastName] /\ suspect \subseteq DirectoryRows
=============================================================================

---------------------------- MODULE ListingHarvest -----------------------------
(***************************************************************************)
(* Harvests that go by the date of the latest record they have: articles   *)
(* from ArticleMeta (harvest/harvesters/article.py), paged by offset, with *)
(* the date inside the record fetched for each item; and preprints from    *)
(* OAI-PMH (harvest/harvesters/preprint.py), with the date in the list.    *)
(* What such a harvest misses it misses for good once a later record is    *)
(* saved.  The harvests of one source follow each other here.              *)
(***************************************************************************)
EXTENDS Integers, Sequences, FiniteSetsExt, SequencesExt

CONSTANTS
  LastId,      \* records are 1 .. LastId, in the order of the source within a day
  LastDay,     \* bound: days
  Limit,       \* limit of an article page
  MaxAborts    \* bound: harvests that end before their list does

Ids == 1 .. LastId
Days == 1 .. LastDay

ASSUME ListingAssumption ==
  /\ LastId \in Nat \ {0} /\ LastDay \in Nat \ {0} /\ Limit \in Nat \ {0} /\ MaxAborts \in Nat

VARIABLES
  source,      \* "article" or "preprint"
  today,
  record,      \* record[r]: date and quality of record r at the source (date 0: none)
  saved,       \* saved[r]: the row of record r
  reading,     \* the harvest or retry that runs
  excused,     \* auxiliary: records that a harvest cannot be blamed for
  aborts

listingVars == <<source, today, record, saved, reading, excused, aborts>>

\* whole: read without errors.  defect: an article without a date, a preprint
\* without a date or a language of its own.  poison: an empty article, a preprint with
\* an author without a name.
Qualities == {"whole", "defect", "poison"}

\* got: the version (date) of the record whose data the row has.  date: its datestamp.
Unsaved == [status |-> "none", got |-> 0, date |-> 0]
Resting == [at |-> "rest", from |-> 0, offset |-> 0, page |-> <<>>, retry |-> {}]

ListingInit ==
  /\ source \in {"article", "preprint"} /\ today = 1
  /\ record = [r \in Ids |-> [date |-> 0, quality |-> "whole"]]
  /\ saved = [r \in Ids |-> Unsaved] /\ reading = Resting /\ excused = {} /\ aborts = 0

(***************************************************************************)
(* The source                                                              *)
(***************************************************************************)

Visible == {r \in Ids : record[r].date >= Max({1, reading.from})}

\* Records are listed by date.
ListedBefore(r, s) ==
  record[r].date < record[s].date \/ (record[r].date = record[s].date /\ r < s)
Listed ==
  [i \in 1 .. Cardinality(Visible) |->
     CHOOSE r \in Visible : Cardinality({s \in Visible : s = r \/ ListedBefore(s, r)}) = i]

\* A record that is published or changed has the date of the day, or an earlier one if
\* it comes late.  One that is late, and those that change their place in the list
\* while it is read, may be missed.
Issue(r, day, quality) ==
  /\ day \in record[r].date + 1 .. today
  /\ record' = [record EXCEPT ![r] = [date |-> day, quality |-> quality]]
  /\ excused' = (IF day < today THEN excused \cup {r} ELSE excused \ {r})
                  \cup IF reading.at = "rest" THEN {} ELSE Visible \ {r}
  /\ UNCHANGED <<source, today, saved, reading, aborts>>

NextDay == today < LastDay /\ today' = today + 1
           /\ UNCHANGED <<source, record, saved, reading, excused, aborts>>

(***************************************************************************)
(* The harvest                                                             *)
(***************************************************************************)

Dates == {saved[r].date : r \in Ids} \ {0}

\* get_latest_article.
LatestArticle == Max(Dates \cup {0})

\* get_latest_preprint: rows without a date come first in descending order.
LatestPreprint ==
  IF \E r \in Ids : saved[r].status # "none" /\ saved[r].date = 0 THEN 0 ELSE Max(Dates \cup {0})

\* The first day to be listed, with no row the first of all.
Cursor == IF source = "article" THEN LatestArticle ELSE LatestPreprint

\* Mutant of BeginHarvest: the day of the latest record is not listed again.
BeginHarvestAfter(all) ==
  /\ reading.at = "rest"
  /\ source = "preprint" /\ ~all /\ Cursor = 0 => \A r \in Ids : saved[r].status = "none"
  /\ reading' = [Resting EXCEPT !.at = "list", !.from = IF all THEN 0 ELSE Cursor + 1]
  /\ UNCHANGED <<source, today, record, saved, excused, aborts>>

\* The task: from the latest record on, or all again (reprocess).  It raises when the
\* latest preprint has no date.
BeginHarvest(all) ==
  /\ reading.at = "rest"
  /\ source = "preprint" /\ ~all /\ Cursor = 0 => \A r \in Ids : saved[r].status = "none"
  /\ reading' = [Resting EXCEPT !.at = "list", !.from = IF all THEN 0 ELSE Cursor]
  /\ UNCHANGED <<source, today, record, saved, excused, aborts>>

\* The next page of articles, or the list of preprints.
FetchPage ==
  LET rest == SubSeq(Listed, reading.offset + 1, Len(Listed)) IN
  /\ reading.at = "list"
  /\ reading' = IF rest = <<>> THEN Resting
                ELSE [reading EXCEPT !.at = "items",
                       !.page = IF source = "preprint" THEN rest
                                ELSE SubSeq(rest, 1, Min({Limit, Len(rest)}))]
  /\ UNCHANGED <<source, today, record, saved, excused, aborts>>

\* A short page is the last one.
EndPage ==
  /\ reading.at = "items" /\ reading.page = <<>>
  /\ reading' = IF source = "preprint" \/ Len(Listed) < reading.offset + Limit THEN Resting
                ELSE [reading EXCEPT !.at = "list", !.offset = @ + Limit]
  /\ UNCHANGED <<source, today, record, saved, excused, aborts>>

\* A page that cannot be fetched ends the harvest; so does what an action below
\* says, and a killed worker.  What was not read by then may never be.
Abort ==
  /\ aborts < MaxAborts /\ aborts' = aborts + 1
  /\ reading' = Resting
  /\ excused' = excused \cup Visible

FetchPageFails ==
  /\ reading.at = "list" /\ Abort
  /\ UNCHANGED <<source, today, record, saved>>

Rest(r) == [reading EXCEPT !.page = Tail(@)]
AtItem(r) == reading.at = "items" /\ reading.page # <<>> /\ r = Head(reading.page)

\* record_article_failure, or persist_article with an empty payload.
SaveFailed(r) == [saved[r] EXCEPT !.status = "failed"]

\* The row that is saved with what the source has: persist_article, or harvest_preprint
\* and set_attrs_from_article_info.
SaveRead(r) ==
  LET q == record[r].quality  d == record[r].date IN
  [status |-> IF source = "preprint" /\ q = "defect" THEN "failed" ELSE "success",
   got |-> d, date |-> IF source = "article" /\ q = "defect" THEN 0 ELSE d]

Readable(r) == record[r].quality # "poison"

\* An item that is read and saved, its row marked by the errors met.
HarvestItem(r) ==
  /\ AtItem(r) /\ Readable(r)
  /\ saved' = [saved EXCEPT ![r] = SaveRead(r)]
  /\ reading' = Rest(r) /\ excused' = excused \ {r}
  /\ UNCHANGED <<source, today, record, aborts>>

\* An article that cannot be fetched, or is empty: its row fails, the next one follows.
ArticleFails(r) ==
  /\ AtItem(r) /\ source = "article"
  /\ saved' = [saved EXCEPT ![r] = SaveFailed(r)]
  /\ reading' = Rest(r)
  /\ UNCHANGED <<source, today, record, excused, aborts>>

\* An article whose row cannot be saved: the error is logged, and the next one follows.
ArticleRaises(r) ==
  /\ AtItem(r) /\ source = "article" /\ aborts < MaxAborts /\ aborts' = aborts + 1
  /\ reading' = Rest(r) /\ excused' = excused \cup {r}
  /\ UNCHANGED <<source, today, record, saved>>

InProgress(r) == [saved EXCEPT ![r].status = "in_progress"]

\* A preprint that cannot be parsed raises out of the task, its row left in progress; a
\* worker may be killed there with any item.
Stops(r) ==
  /\ AtItem(r) /\ Abort
  /\ saved' = InProgress(r)
  /\ UNCHANGED <<source, today, record>>

(***************************************************************************)
(* Retries of failed rows                                                  *)
(***************************************************************************)

BeginRetry ==
  /\ reading.at = "rest"
  /\ LET failed == {r \in Ids : saved[r].status = "failed"} IN
     failed # {} /\ reading' = [Resting EXCEPT !.at = "retry", !.retry = failed]
  /\ UNCHANGED <<source, today, record, saved, excused, aborts>>

RetryOthers(r) ==
  reading' = IF reading.retry = {r} THEN Resting ELSE [reading EXCEPT !.retry = @ \ {r}]

\* The record is fetched by its id and saved as above, or fails again.  One that has
\* changed since brings the date where the next harvest begins past records that no
\* harvest has listed yet.
RetryItem(r) ==
  /\ r \in reading.retry /\ RetryOthers(r)
  /\ \/ /\ Readable(r)
        /\ saved' = [saved EXCEPT ![r] = SaveRead(r)]
        /\ excused' = (excused \cup {s \in Ids : record[s].date < record[r].date}) \ {r}
     \/ UNCHANGED <<saved, excused>>
  /\ UNCHANGED <<source, today, record, aborts>>

RetryStops(r) ==
  /\ r \in reading.retry /\ aborts < MaxAborts /\ aborts' = aborts + 1
  /\ reading' = Resting /\ saved' = InProgress(r) /\ excused' = excused \cup {r}
  /\ UNCHANGED <<source, today, record>>

ListingNext ==
  \/ NextDay \/ FetchPage \/ EndPage \/ FetchPageFails \/ BeginRetry
  \/ \E all \in BOOLEAN : BeginHarvest(all)
  \/ \E r \in Ids :
       \/ \E day \in Days, quality \in Qualities : Issue(r, day, quality)
       \/ HarvestItem(r) \/ ArticleFails(r) \/ ArticleRaises(r) \/ Stops(r)
       \/ RetryItem(r) \/ RetryStops(r)

ListingSpec == ListingInit /\ [][ListingNext]_listingVars

(***************************************************************************)
(* Properties                                                              *)
(***************************************************************************)

\* Between harvests, a record from before the day where the next one begins is saved
\* as it is at the source, or has a failed row that the retry takes, whatever pages,
\* failures and retries there were; but for records that came late, that were on a
\* list changed while it was read or not read to its end, that a retry of a changed
\* record passed over, or whose error was only logged (harvest_articles, harvest_preprint, get_latest_article, get_latest_preprint).
CursorPassesOnlySaved ==
  reading.at = "rest" =>
    \A r \in Ids \ excused :
      record[r].date > 0 /\ record[r].date < Cursor =>
        saved[r].got = record[r].date \/ saved[r].status = "failed"

\* get_latest_preprint returns the row with the latest date of the headers.
LatestIsLatest == source = "preprint" => \A r \in Ids : saved[r].date <= LatestPreprint

\* The types of the variables (HarvestedArticle, HarvestedPreprint).
ListingTypeOK ==
  /\ source \in {"article", "preprint"} /\ today \in Days /\ aborts \in 0 .. MaxAborts
  /\ record \in [Ids -> [date : 0 .. LastDay, quality : Qualities]]
  /\ saved \in [Ids -> [status : {"none", "in_progress", "success", "failed"},
                        got : 0 .. LastDay, date : 0 .. LastDay]]
  /\ reading \in [at : {"rest", "list", "items", "retry"}, from : 0 .. LastDay + 1,
                  offset : Nat, page : Seq(Ids), retry : SUBSET Ids]
  /\ excused \subseteq Ids
==============================================================================

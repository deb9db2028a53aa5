-------------------------- MODULE BookHarvestProofs ---------------------------
(***************************************************************************)
(* The cursor of the book harvest, the greatest last_seq of the rows, is a *)
(* claim that a version has been fetched.  For any documents, processes    *)
(* and page size, whichever process handles the changes and whatever is    *)
(* killed, no row claims a version later than the one it holds.  The       *)
(* harvest that handles the changes itself also loses no change the cursor *)
(* has passed; of two tasks for one document either may run first, so the  *)
(* other mode has no such theorem.                                         *)
(***************************************************************************)
EXTENDS BookHarvest, FiniteSetTheorems, WellFoundedInduction, TLAPS

RowShape ==
  [harvest : HarvestStatus \cup {"absent"}, index : IndexStatus, data : Nat, seq : Nat]
ChangeShape == [doc : Docs, seq : Nat, deleted : BOOLEAN]
Steps ==
  {"idle", "delete", "deleteRaw", "fetch", "parent", "save", "data", "index", "indexed",
   "success", "parentSaved"}
WorkerShape ==
  [at : Steps, change : ChangeShape, data : Nat, target : Docs, saving : Nat,
   held : BOOLEAN, parentHeld : BOOLEAN]

\* Types, without the bounds TypeOK has.
Shape ==
  /\ seq \in Nat /\ latest \in [Docs -> Nat] /\ \A d \in Docs : latest[d] <= seq
  /\ row \in [Docs -> RowShape]
  /\ harvest = [at |-> harvest.at, since |-> harvest.since, page |-> harvest.page]
  /\ harvest.page \subseteq ChangeShape /\ tasks \subseteq ChangeShape
  /\ worker \in [Workers -> WorkerShape]

\* A change that waits was not made later than the last change of its document.
WaitingIsPast == \A c \in harvest.page \cup tasks : c.seq <= latest[c.doc]

Fetched == {"parent", "save", "data", "index", "indexed", "success", "parentSaved"}

\* A process in state w handles a change of the past; it has fetched a version
\* no older than the change, and saves that one unless it saves the monograph.
Handled(w) ==
  /\ w.change.seq <= latest[w.change.doc]
  /\ w.at \in Fetched => w.change.seq <= w.data
  /\ w.at \in Fetched /\ w.target = w.change.doc => w.saving = w.data
  /\ w.at = "parent" => w.change.doc \in Parts

ClaimInv == Shape /\ WaitingIsPast /\ (\A x \in Workers : Handled(worker[x])) /\ SeqIsCovered

LEMMA IdleShape == NoChange \in ChangeShape /\ Idle \in WorkerShape
BY DocsAssumption DEF NoChange, ChangeShape, Idle, WorkerShape, Steps

LEMMA IdleHandled == ASSUME Shape PROVE Handled(Idle)
BY IdleShape DEF Handled, Idle, NoChange, Fetched, Shape, ChangeShape

LEMMA HandlingHandled ==
  ASSUME Shape, NEW c \in ChangeShape, c.seq <= latest[c.doc]
  PROVE  Handling(c) \in WorkerShape /\ Handled(Handling(c))
<1>1. Handling(c) = [Idle EXCEPT !.at = IF c.deleted THEN "delete" ELSE "fetch",
                                 !.change = c, !.target = c.doc]
  BY DEF Handling
<1>2. c.doc \in Docs
  BY DEF ChangeShape
<1> QED BY <1>1, <1>2, IdleShape DEF WorkerShape, Handled, Fetched, Steps

\* Updating a process to a state that is in shape and handled keeps both.
LEMMA UpdateKeeps ==
  ASSUME ClaimInv, NEW x \in Workers, NEW w \in WorkerShape, Handled(w),
         Update(x, w), UNCHANGED <<seq, latest, gone>>
  PROVE  worker' \in [Workers -> WorkerShape] /\ \A y \in Workers : Handled(worker[y])'
BY DEF ClaimInv, Shape, Update, Handled, outside

LEMMA InitClaim == Init => ClaimInv
<1> SUFFICES ASSUME Init PROVE ClaimInv
  OBVIOUS
<1>1. NoRow \in RowShape
  BY DEF NoRow, RowShape, HarvestStatus, IndexStatus
<1>2. latest \in [Docs -> Nat] /\ \A d \in Docs : latest[d] <= seq
  BY FeedAssumption DEF Init
<1>3. Shape
  BY <1>1, <1>2, IdleShape, FeedAssumption DEF Init, Shape
<1>4. \A x \in Workers : Handled(worker[x])
  BY <1>3, IdleHandled DEF Init
<1>5. WaitingIsPast /\ SeqIsCovered
  BY DEF Init, WaitingIsPast, SeqIsCovered, NoRow
<1> QED BY <1>3, <1>4, <1>5 DEF ClaimInv

LEMMA ChangeClaim ==
  ASSUME ClaimInv, NEW d \in Docs, Change(d)
  PROVE  ClaimInv'
<1>1. /\ latest' \in [Docs -> Nat] /\ seq' \in Nat
      /\ \A e \in Docs : latest'[e] <= seq' /\ latest[e] <= latest'[e]
  BY DEF ClaimInv, Shape, Change
<1>2. Shape'
  BY <1>1 DEF ClaimInv, Shape, Change
<1>3. WaitingIsPast'
  <2> SUFFICES ASSUME NEW c \in harvest.page \cup tasks PROVE c.seq <= latest'[c.doc]
    BY DEF WaitingIsPast, Change
  <2>1. c.doc \in Docs /\ c.seq \in Nat /\ c.seq <= latest[c.doc]
    BY DEF ClaimInv, Shape, ChangeShape, WaitingIsPast
  <2> QED BY <2>1, <1>1 DEF ClaimInv, Shape
<1>4. \A x \in Workers : Handled(worker[x])'
  <2> SUFFICES ASSUME NEW x \in Workers PROVE Handled(worker[x])'
    OBVIOUS
  <2>1. worker[x].change.doc \in Docs /\ worker[x].change.seq \in Nat
    BY DEF ClaimInv, Shape, WorkerShape, ChangeShape
  <2>2. worker[x].change.seq <= latest'[worker[x].change.doc]
    BY <2>1, <1>1 DEF ClaimInv, Shape, Handled
  <2> QED BY <2>2 DEF Change, ClaimInv, Handled
<1> QED BY <1>2, <1>3, <1>4 DEF ClaimInv, SeqIsCovered, Change

\* The pages of the feed list past changes.
LEMMA PageIsPast ==
  ASSUME Shape, NEW s, NEW c \in Changes(s)
  PROVE  c \in ChangeShape /\ c.seq <= latest[c.doc]
<1>1. PICK d \in Docs : c = [doc |-> d, seq |-> latest[d], deleted |-> d \in gone]
  BY DEF Changes
<1>2. latest[d] \in Nat /\ (d \in gone) \in BOOLEAN
  BY DEF Shape
<1> QED BY <1>1, <1>2 DEF ChangeShape, Shape

LEMMA HarvestClaim ==
  ASSUME ClaimInv, Start \/ FetchPage \/ FetchPageFails
  PROVE  ClaimInv'
<1>1. UNCHANGED <<row, tasks, worker, seq, latest>>
  BY DEF Start, FetchPage, FetchPageFails, outside
<1>2. /\ harvest' = [at |-> harvest'.at, since |-> harvest'.since, page |-> harvest'.page]
      /\ harvest'.page \subseteq harvest.page \cup Changes(harvest.since)
  <2>1. CASE Start
    BY <2>1 DEF Start
  <2>2. CASE FetchPageFails
    BY <2>2 DEF FetchPageFails, ClaimInv, Shape
  <2>3. CASE FetchPage
    <3>1. harvest' \in {[harvest EXCEPT !.at = "idle"],
                        [harvest EXCEPT !.page = Changes(harvest.since),
                           !.since = Max(SeqsOf(Changes(harvest.since)))]}
      BY <2>3 DEF FetchPage
    <3> QED BY <3>1 DEF ClaimInv, Shape
  <2> QED BY <2>1, <2>2, <2>3
<1>3. Shape'
  BY <1>1, <1>2, PageIsPast DEF ClaimInv, Shape
<1>4. WaitingIsPast'
  BY <1>1, <1>2, PageIsPast DEF ClaimInv, WaitingIsPast
<1>5. \A x \in Workers : Handled(worker[x])'
  BY <1>1 DEF ClaimInv, Handled
<1> QED BY <1>1, <1>3, <1>4, <1>5 DEF ClaimInv, SeqIsCovered

LEMMA SendTaskClaim ==
  ASSUME ClaimInv, SendTask
  PROVE  ClaimInv'
<1>1. UNCHANGED <<row, worker, seq, latest>>
  BY DEF SendTask, outside
<1>2. /\ harvest' = [at |-> harvest'.at, since |-> harvest'.since, page |-> harvest'.page]
      /\ harvest'.page \subseteq harvest.page /\ tasks' \subseteq tasks \cup harvest.page
  BY DEF SendTask, NextChange, ClaimInv, Shape
<1>3. Shape' /\ WaitingIsPast'
  BY <1>1, <1>2 DEF ClaimInv, Shape, WaitingIsPast
<1>4. \A x \in Workers : Handled(worker[x])'
  BY <1>1 DEF ClaimInv, Handled
<1> QED BY <1>1, <1>3, <1>4 DEF ClaimInv, SeqIsCovered

LEMMA TakeClaim ==
  ASSUME ClaimInv, NEW x \in Workers, Handle(x) \/ TakeTask(x)
  PROVE  ClaimInv'
<1>1. UNCHANGED <<row, seq, latest>> /\ UNCHANGED <<seq, latest, gone>>
  BY DEF Handle, TakeTask, outside
<1>2. PICK c \in harvest.page \cup tasks : Update(x, Handling(c))
  BY DEF Handle, TakeTask
<1>3. /\ harvest' = [at |-> harvest'.at, since |-> harvest'.since, page |-> harvest'.page]
      /\ harvest'.page \subseteq harvest.page /\ tasks' \subseteq tasks
  BY DEF Handle, TakeTask, NextChange, ClaimInv, Shape
<1>4. c \in ChangeShape /\ c.seq <= latest[c.doc]
  BY DEF ClaimInv, Shape, WaitingIsPast
<1>5. worker' \in [Workers -> WorkerShape] /\ \A y \in Workers : Handled(worker[y])'
  BY <1>1, <1>2, <1>4, HandlingHandled, UpdateKeeps DEF ClaimInv
<1>6. Shape' /\ WaitingIsPast'
  BY <1>1, <1>3, <1>5 DEF ClaimInv, Shape, WaitingIsPast
<1> QED BY <1>1, <1>5, <1>6 DEF ClaimInv, SeqIsCovered

\* A step of process x that leaves tasks alone, keeps or empties the page, and
\* whose new state and rows are in order.
LEMMA StepClaim ==
  ASSUME ClaimInv, NEW x \in Workers, NEW w \in WorkerShape, Handled(w), Update(x, w),
         harvest' \in {harvest, [at |-> "idle", since |-> 0, page |-> {}]},
         tasks' = tasks, UNCHANGED <<seq, latest, gone>>,
         row' \in [Docs -> RowShape], SeqIsCovered'
  PROVE  ClaimInv'
<1>1. worker' \in [Workers -> WorkerShape] /\ \A y \in Workers : Handled(worker[y])'
  BY UpdateKeeps
<1>2. UNCHANGED <<seq, latest>>
  BY DEF outside
<1>3. /\ harvest' = [at |-> harvest'.at, since |-> harvest'.since, page |-> harvest'.page]
      /\ harvest'.page \subseteq harvest.page
  BY DEF ClaimInv, Shape
<1>4. Shape' /\ WaitingIsPast'
  BY <1>1, <1>2, <1>3 DEF ClaimInv, Shape, WaitingIsPast
<1> QED BY <1>1, <1>4 DEF ClaimInv

\* A row whose version and last_seq are kept, or are both none, is covered.
LEMMA KeptRows ==
  ASSUME ClaimInv, NEW d \in Docs, NEW r \in RowShape,
         (r.data = row[d].data /\ r.seq = row[d].seq) \/ r = NoRow,
         row' = [row EXCEPT ![d] = r]
  PROVE  row' \in [Docs -> RowShape] /\ SeqIsCovered'
BY DEF ClaimInv, Shape, RowShape, SeqIsCovered, NoRow

LEMMA GotShape ==
  ASSUME ClaimInv, NEW d \in Docs, NEW status \in HarvestStatus
  PROVE  /\ Got(d, status) \in RowShape
         /\ Got(d, status).data = row[d].data /\ Got(d, status).seq = row[d].seq
BY DEF ClaimInv, Shape, RowShape, Got

LEMMA MarkedShape ==
  ASSUME ClaimInv, NEW d \in Docs, NEW status \in IndexStatus
  PROVE  /\ Marked(d, status) \in RowShape
         /\ Marked(d, status).data = row[d].data /\ Marked(d, status).seq = row[d].seq
BY DEF ClaimInv, Shape, RowShape, Marked, HarvestStatus

\* The process returns, or raises, having changed no row or one row's statuses.
LEMMA EndClaim ==
  ASSUME ClaimInv, NEW x \in Workers, Return(x) \/ Raise(x), tasks' = tasks,
         UNCHANGED <<seq, latest, gone>>, row' \in [Docs -> RowShape], SeqIsCovered'
  PROVE  ClaimInv'
<1>1. Update(x, Idle)
  BY DEF Return, Raise
<1>2. harvest' \in {harvest, [at |-> "idle", since |-> 0, page |-> {}]}
  BY DEF Return, Raise
<1>3. Handled(Idle) /\ Idle \in WorkerShape
  BY IdleHandled, IdleShape DEF ClaimInv
<1> QED BY <1>1, <1>2, <1>3, StepClaim

LEMMA DeleteRowClaim ==
  ASSUME ClaimInv, NEW x \in Workers, DeleteRow(x)
  PROVE  ClaimInv'
<1> DEFINE d == worker[x].change.doc
<1>1. UNCHANGED <<harvest, tasks, seq, latest, gone>>
  BY DEF DeleteRow, outside
<1>2. d \in Docs
  BY DEF ClaimInv, Shape, WorkerShape, ChangeShape
<1>3. row' \in [Docs -> RowShape] /\ SeqIsCovered'
  <2>1. NoRow \in RowShape
    BY DEF NoRow, RowShape, HarvestStatus, IndexStatus
  <2>2. row' = [row EXCEPT ![d] = NoRow]
    BY DEF DeleteRow
  <2> QED BY <1>2, <2>1, <2>2, KeptRows
<1>4. \A y \in Workers :
        /\ worker'[y] \in WorkerShape
        /\ worker'[y].change = worker[y].change /\ worker'[y].data = worker[y].data
        /\ worker'[y].target = worker[y].target /\ worker'[y].saving = worker[y].saving
        /\ worker'[y].at \in {worker[y].at, "deleteRaw"}
  <2> SUFFICES ASSUME NEW y \in Workers
               PROVE  /\ worker'[y] \in WorkerShape
                      /\ worker'[y].change = worker[y].change
                      /\ worker'[y].data = worker[y].data
                      /\ worker'[y].target = worker[y].target
                      /\ worker'[y].saving = worker[y].saving
                      /\ worker'[y].at \in {worker[y].at, "deleteRaw"}
    OBVIOUS
  <2>1. worker[y] \in WorkerShape /\ worker[x] \in WorkerShape
    BY DEF ClaimInv, Shape
  <2>2. CASE y = x
    <3>1. worker'[x] = [worker[x] EXCEPT !.at = "deleteRaw"]
      BY DEF DeleteRow
    <3> QED BY <2>1, <2>2, <3>1 DEF WorkerShape, Steps
  <2>3. CASE y # x
    <3>1. PICK h, g : worker'[y] = [worker[y] EXCEPT !.held = worker[y].held /\ h,
                                                     !.parentHeld = worker[y].parentHeld /\ g]
      BY <2>3 DEF DeleteRow
    <3>2. (worker[y].held /\ h) \in BOOLEAN /\ (worker[y].parentHeld /\ g) \in BOOLEAN
      OBVIOUS
    <3> QED BY <2>1, <3>1, <3>2 DEF WorkerShape
  <2> QED BY <2>2, <2>3
<1>5. DOMAIN worker' = Workers /\ worker' = [y \in Workers |-> worker'[y]]
  BY DEF DeleteRow
<1>6. \A y \in Workers : Handled(worker[y])'
  BY <1>1, <1>4 DEF ClaimInv, Handled, Fetched
<1>7. worker' \in [Workers -> WorkerShape]
  BY <1>4, <1>5
<1> QED BY <1>1, <1>3, <1>6, <1>7 DEF ClaimInv, Shape, WaitingIsPast

LEMMA DeleteClaim ==
  ASSUME ClaimInv, NEW x \in Workers, DeleteRaw(x) \/ DeleteUnknown(x)
  PROVE  ClaimInv'
<1>1. Return(x) /\ row' = row /\ tasks' = tasks /\ UNCHANGED <<seq, latest, gone>>
  BY DEF DeleteRaw, DeleteUnknown, outside
<1>2. row' \in [Docs -> RowShape] /\ SeqIsCovered'
  BY <1>1 DEF ClaimInv, Shape, SeqIsCovered
<1> QED BY <1>1, <1>2, EndClaim

\* Moving on after the fetch keeps a process handled, whatever rows it holds.
LEMMA MoveOn ==
  ASSUME ClaimInv, NEW x \in Workers, worker[x].at \in Fetched,
         NEW at \in Fetched \ {"parent"}, NEW held \in BOOLEAN, NEW parentHeld \in BOOLEAN
  PROVE  LET w == [worker[x] EXCEPT !.at = at, !.held = held, !.parentHeld = parentHeld]
         IN  w \in WorkerShape /\ Handled(w)
<1>1. worker[x] \in WorkerShape /\ Handled(worker[x])
  BY DEF ClaimInv, Shape
<1> QED BY <1>1 DEF WorkerShape, Handled, Fetched, Steps

\* A step after the fetch that changes statuses only.
LEMMA MoveOnClaim ==
  ASSUME ClaimInv, NEW x \in Workers, worker[x].at \in Fetched,
         NEW at \in Fetched \ {"parent"}, NEW held \in BOOLEAN, NEW parentHeld \in BOOLEAN,
         Update(x, [worker[x] EXCEPT !.at = at, !.held = held, !.parentHeld = parentHeld]),
         UNCHANGED <<harvest, tasks>>, UNCHANGED <<seq, latest, gone>>,
         row' \in [Docs -> RowShape], SeqIsCovered'
  PROVE  ClaimInv'
BY MoveOn, StepClaim

LEMMA FetchDocClaim ==
  ASSUME ClaimInv, NEW x \in Workers, FetchDoc(x)
  PROVE  ClaimInv'
<1> DEFINE d == worker[x].change.doc
           w == [worker[x] EXCEPT !.at = IF d \in Parts THEN "parent" ELSE "save",
                                  !.data = latest[d], !.saving = latest[d]]
<1>1. worker[x] \in WorkerShape /\ Handled(worker[x]) /\ d \in Docs /\ latest[d] \in Nat
  BY DEF ClaimInv, Shape, WorkerShape, ChangeShape
<1>2. w \in WorkerShape
  BY <1>1 DEF WorkerShape, Steps
<1>3. Handled(w)
  BY <1>1 DEF WorkerShape, Handled, Fetched
<1>4. Update(x, w) /\ UNCHANGED <<row, harvest, tasks>> /\ UNCHANGED <<seq, latest, gone>>
  BY DEF FetchDoc, outside
<1>5. row' \in [Docs -> RowShape] /\ SeqIsCovered'
  BY <1>4 DEF ClaimInv, Shape, SeqIsCovered
<1> HIDE DEF w
<1> QED BY <1>2, <1>3, <1>4, <1>5, StepClaim

LEMMA FetchFailsClaim ==
  ASSUME ClaimInv, NEW x \in Workers, FetchFails(x) \/ FetchParentFails(x)
  PROVE  ClaimInv'
<1>1. worker[x] \in WorkerShape /\ Handled(worker[x])
  BY DEF ClaimInv, Shape
<1>2. PICK d \in Docs : row' = [row EXCEPT ![d] = Got(d, "failed")]
  <2>1. CASE FetchFails(x)
    BY <1>1, <2>1 DEF FetchFails, WorkerShape, ChangeShape
  <2>2. CASE FetchParentFails(x)
    <3>1. ParentOf(x) \in Docs
      BY <1>1, <2>2, DocsAssumption DEF FetchParentFails, Handled, ParentOf, Docs
    <3> QED BY <2>2, <3>1 DEF FetchParentFails
  <2> QED BY <2>1, <2>2
<1>3. row' \in [Docs -> RowShape] /\ SeqIsCovered'
  <2>1. "failed" \in HarvestStatus
    BY DEF HarvestStatus
  <2> QED BY <1>2, <2>1, GotShape, KeptRows
<1>4. (Return(x) \/ Raise(x)) /\ tasks' = tasks /\ UNCHANGED <<seq, latest, gone>>
  BY DEF FetchFails, FetchParentFails, outside
<1> QED BY <1>3, <1>4, EndClaim

LEMMA ParentClaim ==
  ASSUME ClaimInv, NEW x \in Workers, FindParent(x) \/ FetchParent(x)
  PROVE  ClaimInv'
<1>1. worker[x] \in WorkerShape /\ Handled(worker[x])
  BY DEF ClaimInv, Shape
<1>2. UNCHANGED <<row, harvest, tasks>> /\ UNCHANGED <<seq, latest, gone>>
  BY DEF FindParent, FetchParent, outside
<1>3. row' \in [Docs -> RowShape] /\ SeqIsCovered'
  BY <1>2 DEF ClaimInv, Shape, SeqIsCovered
<1>4. CASE FindParent(x)
  <2>1. /\ Update(x, [worker[x] EXCEPT !.at = "save", !.held = worker[x].held,
                                       !.parentHeld = TRUE])
        /\ worker[x].at \in Fetched /\ worker[x].held \in BOOLEAN
    BY <1>1, <1>4 DEF FindParent, Update, Fetched, WorkerShape
  <2>2. "save" \in Fetched \ {"parent"}
    BY DEF Fetched
  <2> QED BY <1>2, <1>3, <2>1, <2>2, MoveOnClaim
<1>5. CASE FetchParent(x)
  <2> DEFINE m == ParentOf(x)
             w == [worker[x] EXCEPT !.at = "save", !.target = m, !.saving = latest[m]]
  <2>1. worker[x].at = "parent" /\ Update(x, w)
    BY <1>5 DEF FetchParent
  <2>2. m \in Docs /\ m # worker[x].change.doc /\ latest[m] \in Nat
    <3>1. worker[x].change.doc \in Parts
      BY <1>1, <2>1 DEF Handled
    <3>2. m \in Monographs
      BY <3>1, DocsAssumption DEF ParentOf
    <3> QED BY <3>1, <3>2, DocsAssumption DEF Docs, ClaimInv, Shape
  <2>3. w \in WorkerShape
    BY <1>1, <2>2 DEF WorkerShape, Steps
  <2>4. Handled(w)
    BY <1>1, <2>1, <2>2 DEF WorkerShape, Handled, Fetched
  <2> HIDE DEF w
  <2> QED BY <1>2, <1>3, <2>1, <2>3, <2>4, StepClaim
<1> QED BY <1>4, <1>5

LEMMA BackToPartClaim ==
  ASSUME ClaimInv, NEW x \in Workers, BackToPart(x)
  PROVE  ClaimInv'
<1>1. worker[x] \in WorkerShape /\ Handled(worker[x])
  BY DEF ClaimInv, Shape
<1>2. UNCHANGED <<row, tasks>> /\ UNCHANGED <<seq, latest, gone>> /\ worker[x].at = "parentSaved"
  BY DEF BackToPart, outside
<1>3. row' \in [Docs -> RowShape] /\ SeqIsCovered'
  BY <1>2 DEF ClaimInv, Shape, SeqIsCovered
<1>4. CASE Return(x)
  BY <1>2, <1>3, <1>4, EndClaim
<1>5. CASE ~Return(x)
  <2> DEFINE w == [worker[x] EXCEPT !.at = "save", !.target = worker[x].change.doc,
                                    !.saving = worker[x].data, !.parentHeld = TRUE]
  <2>1. Update(x, w) /\ UNCHANGED harvest
    BY <1>5 DEF BackToPart
  <2>2. w \in WorkerShape
    BY <1>1 DEF WorkerShape, ChangeShape, Steps
  <2>3. Handled(w)
    BY <1>1, <1>2 DEF WorkerShape, Handled, Fetched
  <2> HIDE DEF w
  <2> QED BY <1>2, <1>3, <2>1, <2>2, <2>3, StepClaim
<1> QED BY <1>4, <1>5

\* The row is saved: a chapter's turn, or the end.
LEMMA SavedClaim ==
  ASSUME ClaimInv, NEW x \in Workers, Saved(x), worker[x].at \in Fetched, tasks' = tasks,
         UNCHANGED <<seq, latest, gone>>, row' \in [Docs -> RowShape], SeqIsCovered'
  PROVE  ClaimInv'
<1>1. CASE Return(x)
  BY <1>1, EndClaim
<1>2. CASE ~Return(x)
  <2>1. worker[x] \in WorkerShape
    BY DEF ClaimInv, Shape
  <2>2. /\ Update(x, [worker[x] EXCEPT !.at = "parentSaved", !.held = FALSE,
                                       !.parentHeld = worker[x].parentHeld])
        /\ worker[x].parentHeld \in BOOLEAN /\ UNCHANGED harvest
    BY <1>2, <2>1 DEF Saved, Update, WorkerShape
  <2>3. "parentSaved" \in Fetched \ {"parent"}
    BY DEF Fetched
  <2> QED BY <2>2, <2>3, MoveOnClaim
<1> QED BY <1>1, <1>2

\* The steps of _persist_harvested_book that write statuses.
LEMMA StatusClaim ==
  ASSUME ClaimInv, NEW x \in Workers,
         GetRow(x) \/ IndexRawFails(x) \/ MarkIndexed(x) \/ SaveDataFails(x) \/ MarkSuccess(x)
  PROVE  ClaimInv'
<1> DEFINE d == worker[x].target
<1>1. worker[x] \in WorkerShape /\ d \in Docs
  BY DEF ClaimInv, Shape, WorkerShape
<1>2. tasks' = tasks /\ UNCHANGED <<seq, latest, gone>> /\ worker[x].at \in Fetched
  BY DEF GetRow, IndexRawFails, MarkIndexed, SaveDataFails, MarkSuccess, outside, Fetched
<1>3. row' \in [Docs -> RowShape] /\ SeqIsCovered'
  <2>1. CASE GetRow(x) \/ SaveDataFails(x) \/ MarkSuccess(x)
    <3>1. PICK status \in HarvestStatus : row' = [row EXCEPT ![d] = Got(d, status)]
      BY <2>1 DEF GetRow, SaveDataFails, MarkSuccess, HarvestStatus
    <3> QED BY <1>1, <3>1, GotShape, KeptRows
  <2>2. CASE IndexRawFails(x) \/ MarkIndexed(x)
    <3>1. PICK status \in IndexStatus : row' = [row EXCEPT ![d] = Marked(d, status)]
      BY <2>2 DEF IndexRawFails, MarkIndexed, IndexStatus
    <3> QED BY <1>1, <3>1, MarkedShape, KeptRows
  <2> QED BY <2>1, <2>2
<1>4. CASE SaveDataFails(x) \/ MarkSuccess(x)
  <2>1. Saved(x)
    BY <1>4 DEF SaveDataFails, MarkSuccess
  <2> QED BY <1>2, <1>3, <2>1, SavedClaim
<1>5. CASE GetRow(x) \/ IndexRawFails(x) \/ MarkIndexed(x)
  <2>1. PICK at \in {"data", "success"}, held \in BOOLEAN :
          Update(x, [worker[x] EXCEPT !.at = at, !.held = held,
                                      !.parentHeld = worker[x].parentHeld])
    <3>1. CASE GetRow(x)
      <4>1. Update(x, [worker[x] EXCEPT !.at = "data", !.held = TRUE,
                                        !.parentHeld = worker[x].parentHeld])
        BY <1>1, <3>1 DEF GetRow, Update, WorkerShape
      <4> QED BY <4>1
    <3>2. CASE IndexRawFails(x) \/ MarkIndexed(x)
      <4>1. Update(x, [worker[x] EXCEPT !.at = "success", !.held = worker[x].held,
                                        !.parentHeld = worker[x].parentHeld])
        BY <1>1, <3>2 DEF IndexRawFails, MarkIndexed, Update, WorkerShape
      <4>2. worker[x].held \in BOOLEAN
        BY <1>1 DEF WorkerShape
      <4> QED BY <4>1, <4>2
    <3> QED BY <1>5, <3>1, <3>2
  <2>2. UNCHANGED <<harvest, tasks>> /\ worker[x].parentHeld \in BOOLEAN
    BY <1>1, <1>5 DEF GetRow, IndexRawFails, MarkIndexed, WorkerShape
  <2>3. at \in Fetched \ {"parent"}
    BY DEF Fetched
  <2> QED BY <1>2, <1>3, <2>1, <2>2, <2>3, MoveOnClaim
<1> QED BY <1>4, <1>5

LEMMA WrittenRow ==
  ASSUME NEW r \in RowShape, NEW data \in Nat, NEW last \in Nat, last <= data,
         NEW written, written = [r EXCEPT !.data = data, !.seq = last]
  PROVE  written \in RowShape /\ written.seq <= written.data
<1>1. written.data = data /\ written.seq = last
  BY DEF RowShape
<1>2. written \in RowShape
  BY DEF RowShape
<1> QED BY <1>1, <1>2

\* The version and last_seq are written together: last_seq is the change's only
\* when the version is the one fetched for it.
LEMMA SaveDataClaim ==
  ASSUME ClaimInv, NEW x \in Workers, SaveData(x)
  PROVE  ClaimInv'
<1> DEFINE d == worker[x].target
<1>1. /\ worker[x] \in WorkerShape /\ Handled(worker[x]) /\ d \in Docs
      /\ worker[x].at = "data" /\ worker[x].at \in Fetched
  BY DEF ClaimInv, Shape, WorkerShape, SaveData, Fetched
<1>2. NewData(x) \in RowShape /\ NewData(x).seq <= NewData(x).data
  <2>1. row[d] \in RowShape
    BY <1>1 DEF ClaimInv, Shape
  <2>2. CASE SavesParent(x)
    <3>1. NewData(x) = [row[d] EXCEPT !.data = worker[x].saving, !.seq = 0]
      BY <2>2 DEF NewData
    <3>2. worker[x].saving \in Nat
      BY <1>1 DEF WorkerShape
    <3>3. 0 \in Nat /\ 0 <= worker[x].saving
      BY <3>2
    <3> HIDE DEF d
    <3> QED BY <2>1, <3>1, <3>2, <3>3, WrittenRow
  <2>3. CASE ~SavesParent(x)
    <3>1. worker[x].change.seq \in Nat /\ worker[x].change.seq <= worker[x].saving
      BY <1>1, <2>3 DEF SavesParent, Handled, WorkerShape, ChangeShape
    <3>2. NewData(x) = [row[d] EXCEPT !.data = worker[x].saving,
                                      !.seq = worker[x].change.seq]
      BY <2>3 DEF NewData
    <3>3. worker[x].saving \in Nat
      BY <1>1 DEF WorkerShape
    <3> HIDE DEF d
    <3> QED BY <2>1, <3>1, <3>2, <3>3, WrittenRow
  <2> QED BY <2>2, <2>3
<1>3. row' \in [Docs -> RowShape] /\ SeqIsCovered'
  <2>1. row' = [row EXCEPT ![d] = NewData(x)]
    BY DEF SaveData
  <2> HIDE DEF d
  <2> QED BY <1>1, <1>2, <2>1 DEF ClaimInv, Shape, SeqIsCovered
<1>4. /\ Update(x, [worker[x] EXCEPT !.at = "index", !.held = worker[x].held,
                                     !.parentHeld = worker[x].parentHeld])
      /\ worker[x].held \in BOOLEAN /\ worker[x].parentHeld \in BOOLEAN
      /\ UNCHANGED <<harvest, tasks>> /\ UNCHANGED <<seq, latest, gone>>
  BY <1>1 DEF SaveData, Update, WorkerShape, outside
<1>5. "index" \in Fetched \ {"parent"}
  BY DEF Fetched
<1> QED BY <1>1, <1>3, <1>4, <1>5, MoveOnClaim

LEMMA IndexRawClaim ==
  ASSUME ClaimInv, NEW x \in Workers, IndexRaw(x)
  PROVE  ClaimInv'
<1>1. worker[x] \in WorkerShape /\ worker[x].at \in Fetched
  BY DEF ClaimInv, Shape, IndexRaw, Fetched
<1>2. /\ Update(x, [worker[x] EXCEPT !.at = "indexed", !.held = worker[x].held,
                                     !.parentHeld = worker[x].parentHeld])
      /\ worker[x].held \in BOOLEAN /\ worker[x].parentHeld \in BOOLEAN
      /\ UNCHANGED <<row, harvest, tasks>> /\ UNCHANGED <<seq, latest, gone>>
  BY <1>1 DEF IndexRaw, Update, WorkerShape, outside
<1>3. row' \in [Docs -> RowShape] /\ SeqIsCovered'
  BY <1>2 DEF ClaimInv, Shape, SeqIsCovered
<1>4. "indexed" \in Fetched \ {"parent"}
  BY DEF Fetched
<1> QED BY <1>1, <1>2, <1>3, <1>4, MoveOnClaim

LEMMA RaiseClaim ==
  ASSUME ClaimInv, NEW x \in Workers, RowIsGone(x) \/ Kill(x)
  PROVE  ClaimInv'
<1>1. Raise(x) /\ row' = row /\ tasks' = tasks /\ UNCHANGED <<seq, latest, gone>>
  BY DEF RowIsGone, Kill, outside
<1>2. row' \in [Docs -> RowShape] /\ SeqIsCovered'
  BY <1>1 DEF ClaimInv, Shape, SeqIsCovered
<1> QED BY <1>1, <1>2, EndClaim

LEMMA UnchangedClaim ==
  ASSUME ClaimInv, UNCHANGED vars
  PROVE  ClaimInv'
<1>1. UNCHANGED <<seq, latest, gone, row, harvest, tasks, worker>>
  BY DEF vars
<1> QED BY <1>1 DEF ClaimInv, Shape, WaitingIsPast, Handled, SeqIsCovered

LEMMA NextClaim == ClaimInv /\ [Next]_vars => ClaimInv'
<1> SUFFICES ASSUME ClaimInv, [Next]_vars PROVE ClaimInv'
  OBVIOUS
<1>1. ASSUME NEW d \in Docs, Change(d) PROVE ClaimInv'
  BY <1>1, ChangeClaim
<1>2. CASE Start \/ FetchPage \/ FetchPageFails
  BY <1>2, HarvestClaim
<1>3. CASE SendTask
  BY <1>3, SendTaskClaim
<1>4. CASE RetryFailed \/ UNCHANGED vars
  BY <1>4, UnchangedClaim DEF RetryFailed
<1>5. ASSUME NEW x \in Workers, Step(x) PROVE ClaimInv'
  BY <1>5, TakeClaim, DeleteRowClaim, DeleteClaim, FetchDocClaim, ParentClaim, StatusClaim,
     SaveDataClaim, IndexRawClaim, RaiseClaim, BackToPartClaim DEF Step
<1>6. ASSUME NEW x \in Workers, Outage(x) PROVE ClaimInv'
  BY <1>6, FetchFailsClaim, StatusClaim DEF Outage
<1>7. ASSUME NEW x \in Workers, Kill(x) PROVE ClaimInv'
  BY <1>7, RaiseClaim
<1> QED BY <1>1, <1>2, <1>3, <1>4, <1>5, <1>6, <1>7 DEF Next

\* No row claims a last_seq later than the version it holds.
THEOREM ClaimsAreCovered == Spec => []SeqIsCovered
<1>1. ClaimInv => SeqIsCovered
  BY DEF ClaimInv
<1> QED BY <1>1, InitClaim, NextClaim, PTL DEF Spec

(***************************************************************************)
(* The harvest that handles the changes itself                             *)
(***************************************************************************)

Saving == {"data", "index", "indexed", "success"}
Stored == {"index", "indexed", "success"}

\* d needs no more: its row shows it, or it was given up.
Settled(d) == Reflected(d) \/ LastChange(d) \in skipped

\* Change c of the page is still the last of its document, or a later page has
\* the document once more.
Current(c) == c = LastChange(c.doc) \/ latest[c.doc] > harvest.since

\* A later step of this harvest handles d.
Ahead(d) == LastChange(d) \in harvest.page \/ latest[d] > harvest.since

\* The sequence numbers of the feed and of the rows.
InOrder ==
  /\ harvest.since \in Nat /\ harvest.since <= seq /\ tasks = {} /\ raw \in [Docs -> Nat]
  /\ \A d, e \in Docs : d # e /\ latest[d] = latest[e] => latest[d] = 0
  /\ \A d \in Docs : row[d].seq <= seq
  /\ \A c \in harvest.page :
       Current(c) /\ c.seq <= harvest.since /\ \A d \in Docs : row[d].seq < c.seq
  /\ \A c, e \in harvest.page : c.seq = e.seq => c = e
  /\ \A c \in skipped : c.doc \in Parts

\* How far a process in state w has got with its change.
Stage(w) ==
  /\ w.at \in {"delete", "deleteRaw"} <=> w.change.deleted
  /\ w.at = "deleteRaw" => row[w.change.doc] = NoRow
  /\ w.at \in Saving => w.held /\ row[w.target].harvest = "in_progress"
  /\ w.at \in Stored => row[w.target].data = w.saving
  /\ w.at = "indexed" => raw[w.target] = w.saving
  /\ w.at = "success" /\ row[w.target].index = "success" => raw[w.target] = w.saving
  /\ w.at \in Fetched => w.data <= latest[w.change.doc]
  /\ w.target # w.change.doc =>
       /\ w.change.doc \in Parts /\ w.target = Monograph[w.change.doc]
       /\ w.at \in Saving \cup {"save", "parentSaved"}
  /\ w.at = "parentSaved" => w.change.doc \in Parts

\* Process x, which is handling a change: changes of the page come later than
\* its own, a row claims its own change only once it stores it, and the
\* monograph it saves for its chapter is handled once more later.
Handles(x) ==
  LET w == worker[x]  c == w.change IN
  /\ Stage(w)
  /\ Current(c) /\ c.seq <= harvest.since /\ \A e \in harvest.page : c.seq < e.seq
  /\ w.target # c.doc => Ahead(w.target)
  /\ \A d \in Docs : /\ row[d].seq <= c.seq
                     /\ row[d].seq = c.seq => w.at \in Stored /\ w.target = c.doc

\* Before a harvest the documents up to the cursor need no more; during one, the
\* documents up to the last page, except those it has still to handle.
ReadInv ==
  /\ harvest.at = "idle" =>
       /\ harvest.page = {} /\ \A x \in Workers : Free(x)
       /\ \A d, e \in Docs : 0 < latest[d] /\ latest[d] <= row[e].seq => Settled(d)
  /\ harvest.at # "idle" =>
       /\ \A d \in Docs : row[d].seq <= harvest.since
       /\ \A d \in Docs : 0 < latest[d] /\ latest[d] <= harvest.since =>
            \/ Settled(d) \/ LastChange(d) \in harvest.page
            \/ \E x \in Workers : ~Free(x) /\ worker[x].change.doc = d
  /\ \A x \in Workers : ~Free(x) => Handles(x)

InlineInv == ClaimInv /\ InOrder /\ ReadInv /\ SuccessIsIndexed

LEMMA BusyIs ==
  ASSUME InlineInv, NEW x \in Workers, ~Free(x)
  PROVE  /\ worker[x] \in WorkerShape /\ worker[x].change \in ChangeShape
         /\ worker[x].change.doc \in Docs /\ worker[x].target \in Docs
         /\ worker[x].change.seq \in Nat /\ worker[x].saving \in Nat /\ worker[x].data \in Nat
         /\ Handled(worker[x]) /\ Handles(x) /\ harvest.at # "idle"
BY DEF InlineInv, ClaimInv, Shape, WorkerShape, ChangeShape, ReadInv

LEMMA RowsAre ==
  ASSUME InlineInv
  PROVE  /\ seq \in Nat /\ harvest.since \in Nat /\ harvest.since <= seq
         /\ raw \in [Docs -> Nat]
         /\ row \in [Docs -> RowShape] /\ worker \in [Workers -> WorkerShape]
         /\ \A d \in Docs : latest[d] \in Nat /\ row[d].seq \in Nat /\ row[d].data \in Nat
         /\ \A c \in harvest.page : c.seq \in Nat /\ c.doc \in Docs
BY DEF InlineInv, ClaimInv, Shape, RowShape, InOrder, ChangeShape

\* What a step does not touch stays settled.
LEMMA StillSettled ==
  ASSUME NEW d, Settled(d), row'[d] = row[d], UNCHANGED <<latest, gone>>,
         skipped \subseteq skipped'
  PROVE  Settled(d)'
BY DEF Settled, Reflected, Harvested, LastChange

\* Process x touches the row of the document it handles, or of one that a later
\* step handles or that then needs no more, and either goes on with its change or is done with it.
LEMMA TouchInline ==
  ASSUME InlineInv, \A y, z \in Workers : y = z, NEW x \in Workers, ~Free(x),
         NEW own \in Docs, own = worker[x].change.doc,
         UNCHANGED <<seq, latest, gone, harvest, tasks>>,
         skipped' \in {skipped, skipped \cup {worker[x].change}},
         skipped' # skipped => own \in Parts,
         NEW t \in Docs, t = own \/ Ahead(t) \/ Settled(t)',
         \A d \in Docs : d # t => row'[d] = row[d],
         raw' \in [Docs -> Nat], row'[t].seq \in Nat, row'[t].seq <= worker[x].change.seq,
         \/ worker'[x].at # "idle" /\ worker'[x].change = worker[x].change /\ Handles(x)'
         \/ worker'[x].at = "idle" /\ (latest[own] <= harvest.since => Settled(own)')
  PROVE  InOrder' /\ ReadInv'
<1> DEFINE c == worker[x].change
<1>1. /\ c.doc \in Docs /\ c.seq \in Nat /\ Handles(x) /\ harvest.at # "idle"
      /\ c.seq <= harvest.since /\ \A e \in harvest.page : c.seq < e.seq
  BY BusyIs DEF Handles
<1>2. \A d \in Docs : row'[d].seq \in Nat /\ row'[d].seq <= c.seq
  BY <1>1, RowsAre DEF Handles
<1>3. InOrder'
  <2>1. \A d \in Docs : row'[d].seq <= seq'
    BY <1>1, <1>2, RowsAre
  <2>2. \A e \in harvest.page, d \in Docs : row'[d].seq < e.seq
    BY <1>1, <1>2, RowsAre
  <2>3. \A e \in harvest.page : Current(e)'
    BY DEF Current, LastChange, InlineInv, InOrder
  <2>4. \A e \in skipped' : e.doc \in Parts
    BY DEF InlineInv, InOrder
  <2> QED BY <2>1, <2>2, <2>3, <2>4 DEF InlineInv, InOrder
<1>4. \A d \in Docs : row'[d].seq <= harvest'.since
  BY <1>1, <1>2, RowsAre
<1>5. ASSUME NEW d \in Docs, 0 < latest'[d], latest'[d] <= harvest'.since
      PROVE  \/ Settled(d)' \/ (LastChange(d) \in harvest.page)'
             \/ \E y \in Workers : (~Free(y) /\ worker[y].change.doc = d)'
  <2>1. LastChange(d)' = LastChange(d)
    BY DEF LastChange
  <2>2. CASE d = own
    <3>1. CASE worker'[x].at = "idle"
      BY <1>5, <2>2, <3>1
    <3>2. CASE worker'[x].at # "idle"
      BY <2>2, <3>2 DEF Free
    <3> QED BY <3>1, <3>2
  <2>3. CASE d # own
    <3>1. \/ Settled(d) \/ LastChange(d) \in harvest.page
      BY <1>1, <1>5, <2>3 DEF InlineInv, ReadInv
    <3>2. CASE d = t
      BY <1>5, <2>1, <2>3, <3>2, RowsAre DEF Ahead
    <3>3. CASE d # t
      <4>1. row'[d] = row[d] /\ skipped \subseteq skipped'
        BY <3>3
      <4> QED BY <2>1, <3>1, <4>1, StillSettled
    <3> QED BY <3>2, <3>3
  <2> QED BY <2>2, <2>3
<1>6. \A y \in Workers : ~Free(y)' => Handles(y)'
  BY DEF Free
<1> QED BY <1>1, <1>3, <1>4, <1>5, <1>6 DEF ReadInv

\* When all processes are idle, the documents up to the cursor need no more,
\* were the rest of the page dropped.
LEMMA DroppedPage ==
  ASSUME InlineInv, \A x \in Workers : Free(x),
         NEW d \in Docs, NEW e \in Docs, 0 < latest[d], latest[d] <= row[e].seq
  PROVE  Settled(d)
<1>1. CASE harvest.at = "idle"
  BY <1>1 DEF InlineInv, ReadInv
<1>2. CASE harvest.at # "idle"
  <2>1. row[e].seq <= harvest.since
    BY <1>2 DEF InlineInv, ReadInv
  <2>2. latest[d] <= harvest.since
    BY <2>1, RowsAre
  <2>3. Settled(d) \/ LastChange(d) \in harvest.page
    BY <1>2, <2>2 DEF InlineInv, ReadInv
  <2>4. LastChange(d) \notin harvest.page
    <3> SUFFICES ASSUME LastChange(d) \in harvest.page PROVE FALSE
      OBVIOUS
    <3>1. row[e].seq < LastChange(d).seq
      BY DEF InlineInv, InOrder
    <3> QED BY <3>1, RowsAre DEF LastChange
  <2> QED BY <2>3, <2>4
<1> QED BY <1>1, <1>2

\* The same for the process that is killed or raises: if the cursor has reached
\* its change, the row holds the version fetched for it.
LEMMA DroppedChange ==
  ASSUME InlineInv, \A y, z \in Workers : y = z, NEW x \in Workers, ~Free(x),
         NEW d \in Docs, NEW e \in Docs, 0 < latest[d], latest[d] <= row[e].seq
  PROVE  Settled(d) /\ (d = worker[x].change.doc => worker[x].at \in Stored)
<1> DEFINE w == worker[x]
           c == worker[x].change
<1>1. /\ c \in ChangeShape /\ c.doc \in Docs /\ c.seq \in Nat /\ Handles(x) /\ Handled(w)
      /\ w.saving \in Nat /\ w.data \in Nat /\ harvest.at # "idle"
  BY BusyIs
<1>2. row[e].seq <= c.seq /\ c.seq <= harvest.since /\ Current(c)
      /\ \A f \in harvest.page : c.seq < f.seq
  BY <1>1 DEF Handles
<1>3. latest[d] <= c.seq /\ latest[d] <= harvest.since
  BY <1>1, <1>2, RowsAre
<1>4. LastChange(d) \notin harvest.page
  <2> SUFFICES ASSUME LastChange(d) \in harvest.page PROVE FALSE
    OBVIOUS
  <2>1. c.seq < LastChange(d).seq
    BY <1>2
  <2> QED BY <1>1, <1>3, <2>1, RowsAre DEF LastChange
<1>5. CASE d # c.doc
  BY <1>1, <1>3, <1>4, <1>5 DEF InlineInv, ReadInv
<1>6. CASE d = c.doc
  <2>1. c = LastChange(d)
    BY <1>2, <1>3, <1>6, RowsAre DEF Current
  <2>2. c.seq = latest[d] /\ c.deleted = (d \in gone)
    BY <2>1 DEF LastChange
  <2>3. row[e].seq = c.seq
    BY <1>1, <1>2, <2>2, RowsAre
  <2>4. w.at \in Stored /\ w.target = c.doc
    BY <1>1, <2>3 DEF Handles
  <2>5. /\ w.at \in Fetched /\ w.at \notin {"delete", "deleteRaw"}
        /\ w.data <= latest[c.doc] /\ row[d].data = w.saving
    BY <1>1, <1>6, <2>4 DEF Handles, Stage, Stored, Fetched
  <2>6. d \notin gone
    BY <1>1, <2>2, <2>5 DEF Handles, Stage
  <2>7. w.saving = w.data /\ c.seq <= w.data
    BY <1>1, <2>4, <2>5 DEF Handled
  <2>8. row[d].data = latest[d]
    BY <1>1, <1>6, <2>2, <2>5, <2>7, RowsAre
  <2> QED BY <2>4, <2>6, <2>8 DEF Settled, Reflected, Harvested
<1> QED BY <1>5, <1>6

\* Of the intervals n .. last, n in S, one is minimal for inclusion: that of the
\* greatest n.
LEMMA MaxIs ==
  ASSUME NEW S \in SUBSET Nat, S # {}, NEW last \in Nat, \A n \in S : n <= last
  PROVE  Max(S) \in S /\ \A n \in S : n <= Max(S)
<1> DEFINE Above == {n .. last : n \in S}
<1>1. \A n \in Nat : n .. last \in FiniteSubsetsOf(Nat)
  BY FS_Interval DEF FiniteSubsetsOf
<1>2. PICK T \in Above : \A U \in Above : <<U, T>> \notin StrictSubsetOrdering(Nat)
  <2>1. Above \subseteq FiniteSubsetsOf(Nat) /\ Above # {}
    BY <1>1
  <2> HIDE DEF Above
  <2> QED BY <2>1, FS_StrictSubsetOrderingWellFounded, WFMin
<1>3. PICK x \in S : T = x .. last
  OBVIOUS
<1>4. \A n \in S : x >= n
  <2> SUFFICES ASSUME NEW n \in S, x < n PROVE FALSE
    OBVIOUS
  <2>1. n .. last \in Above /\ n .. last \subseteq T /\ x \in T /\ x \notin n .. last
    BY <1>3
  <2>2. n .. last \in SUBSET Nat /\ T \in SUBSET Nat /\ n .. last # T
    BY <1>3, <2>1
  <2> QED BY <1>2, <2>1, <2>2 DEF StrictSubsetOrdering
<1>5. Max(S) \in S /\ \A n \in S : Max(S) >= n
  BY <1>4 DEF Max
<1> QED BY <1>5

LEMMA CursorIs ==
  ASSUME InlineInv
  PROVE  /\ Cursor \in Nat /\ Cursor <= seq /\ \A d \in Docs : row[d].seq <= Cursor
         /\ Cursor = 0 \/ \E d \in Docs : Cursor = row[d].seq
<1> DEFINE S == {row[d].seq : d \in Docs} \cup {0}
<1>1. S \in SUBSET Nat /\ S # {} /\ seq \in Nat /\ \A n \in S : n <= seq
  BY RowsAre DEF InlineInv, InOrder
<1>2. Cursor \in S /\ \A n \in S : n <= Cursor
  <2> HIDE DEF S
  <2>1. Max(S) \in S /\ \A n \in S : n <= Max(S)
    BY <1>1, MaxIs
  <2> QED BY <2>1 DEF Cursor, S
<1> QED BY <1>1, <1>2

\* A page misses no document changed since s and no later than its last change.
LEMMA PageIs ==
  ASSUME InlineInv, NEW s \in Nat, Changes(s) # {}
  PROVE  LET last == Max(SeqsOf(Changes(s))) IN
         /\ last \in Nat /\ s < last /\ last <= seq
         /\ \A c \in Changes(s) : /\ c.doc \in Docs /\ c = LastChange(c.doc)
                                  /\ s < c.seq /\ c.seq <= last
         /\ \A d \in Docs : s < latest[d] /\ latest[d] <= last => LastChange(d) \in Changes(s)
<1> DEFINE after == {d \in Docs : latest[d] > s}
           before(d) == {e \in after : latest[e] < latest[d]}
           first == {d \in after : Cardinality(before(d)) < Limit}
           last == Max(SeqsOf(Changes(s)))
<1>1. Changes(s) = {LastChange(d) : d \in first}
  BY DEF Changes, LastChange
<1>2. \A d \in first : d \in Docs /\ s < latest[d] /\ latest[d] <= seq /\ latest[d] \in Nat
  BY RowsAre DEF InlineInv, ClaimInv, Shape
<1>3. \A d : LastChange(d).doc = d /\ LastChange(d).seq = latest[d]
  BY DEF LastChange
<1>4. \A c \in Changes(s) : /\ c.doc \in first /\ c = LastChange(c.doc) /\ c.seq = latest[c.doc]
  <2> HIDE DEF first
  <2> QED BY <1>1, <1>3
<1>5. /\ SeqsOf(Changes(s)) \in SUBSET Nat /\ SeqsOf(Changes(s)) # {}
      /\ \A n \in SeqsOf(Changes(s)) : n <= seq
  <2> HIDE DEF first
  <2> QED BY <1>2, <1>4 DEF SeqsOf
<1>6. last \in SeqsOf(Changes(s)) /\ \A n \in SeqsOf(Changes(s)) : n <= last
  BY <1>5, RowsAre, MaxIs
<1> HIDE DEF last
<1>7. PICK f \in first : last = latest[f]
  <2> HIDE DEF first
  <2> QED BY <1>4, <1>6 DEF SeqsOf
<1>8. ASSUME NEW d \in Docs, s < latest[d], latest[d] <= last
      PROVE  LastChange(d) \in Changes(s)
  <2>1. before(d) \subseteq before(f) /\ before(f) \subseteq Docs
    BY <1>7, <1>8, RowsAre
  <2>2. IsFiniteSet(before(f)) /\ IsFiniteSet(before(d))
    BY <2>1, DocsAssumption, FS_Subset
  <2>3. /\ Cardinality(before(d)) <= Cardinality(before(f))
        /\ Cardinality(before(d)) \in Nat /\ Cardinality(before(f)) \in Nat
    BY <2>1, <2>2, FS_Subset, FS_CardinalityType
  <2>4. Cardinality(before(d)) < Limit
    <3>1. Cardinality(before(f)) < Limit /\ Limit \in Nat
      BY <1>7, FeedAssumption
    <3> HIDE DEF before
    <3> QED BY <2>3, <3>1
  <2>5. d \in first
    BY <1>8, <2>4
  <2> HIDE DEF first
  <2> QED BY <1>1, <2>5
<1>9. \A c \in Changes(s) : c.seq <= last
  BY <1>6 DEF SeqsOf
<1> HIDE DEF first
<1> QED BY <1>2, <1>4, <1>7, <1>8, <1>9 DEF last

LEMMA RaiseInline ==
  ASSUME InlineInv, Inline, \A y, z \in Workers : y = z, NEW x \in Workers, Raise(x),
         UNCHANGED <<seq, latest, gone, tasks, skipped, raw>>,
         NEW own \in Docs, own = worker[x].change.doc,
         \A d \in Docs : d # own => row'[d] = row[d],
         row'[own].seq = row[own].seq,
         row'[own] = row[own] \/ (~Free(x) /\ worker[x].at \notin Stored)
  PROVE  InOrder' /\ ReadInv'
<1>1. /\ harvest' = [at |-> "idle", since |-> 0, page |-> {}]
      /\ \A y \in Workers : worker'[y] = Idle
  BY RowsAre DEF Raise, Update
<1>2. /\ \A d \in Docs : row'[d].seq = row[d].seq
      /\ \A y \in Workers : worker'[y].at = "idle"
  BY <1>1 DEF Idle
<1>3. InOrder'
  BY <1>1, <1>2, RowsAre DEF InlineInv, InOrder
<1>4. ASSUME NEW d \in Docs, NEW e \in Docs, 0 < latest'[d], latest'[d] <= row'[e].seq
      PROVE  Settled(d)'
  <2>1. 0 < latest[d] /\ latest[d] <= row[e].seq
    BY <1>2, <1>4
  <2>2. Settled(d) /\ (d = own => row'[own] = row[own])
    <3>1. CASE Free(x)
      <4>1. Settled(d)
        BY <2>1, <3>1, DroppedPage
      <4> QED BY <3>1, <4>1
    <3>2. CASE ~Free(x)
      BY <2>1, <3>2, DroppedChange
    <3> QED BY <3>1, <3>2
  <2>3. row'[d] = row[d]
    BY <2>2
  <2> QED BY <2>2, <2>3, StillSettled
<1>5. ReadInv'
  <2>1. harvest'.at = "idle" /\ harvest'.page = {} /\ \A y \in Workers : Free(y)'
    BY <1>1, <1>2 DEF Free
  <2> QED BY <1>4, <2>1 DEF ReadInv
<1> QED BY <1>3, <1>5

LEMMA ChangeInline ==
  ASSUME InlineInv, NEW d \in Docs, Change(d)
  PROVE  InOrder' /\ ReadInv'
<1>1. /\ seq' = seq + 1 /\ latest'[d] = seq + 1
      /\ \A e \in Docs \ {d} : latest'[e] = latest[e] /\ ((e \in gone') <=> (e \in gone))
      /\ UNCHANGED <<row, raw, harvest, tasks, worker, skipped>>
  BY DEF Change, InlineInv, ClaimInv, Shape
<1>2. /\ \A e \in Docs : latest[e] \in Nat /\ latest[e] <= seq /\ row[e].seq <= seq
      /\ seq \in Nat /\ harvest.since \in Nat /\ harvest.since <= seq
  BY RowsAre DEF InlineInv, ClaimInv, Shape, InOrder
<1>3. \A e \in Docs \ {d} : LastChange(e)' = LastChange(e) /\ (Settled(e) => Settled(e)')
  <2> SUFFICES ASSUME NEW e \in Docs \ {d}
               PROVE  LastChange(e)' = LastChange(e) /\ (Settled(e) => Settled(e)')
    OBVIOUS
  <2>1. LastChange(e)' = LastChange(e)
    BY <1>1 DEF LastChange
  <2> QED BY <1>1, <2>1 DEF Settled, Reflected, Harvested
<1>4. latest'[d] > harvest'.since /\ \A e \in Docs : latest[e] <= latest'[e]
  BY <1>1, <1>2
<1>5. ASSUME NEW c, c.doc \in Docs, Current(c) PROVE Current(c)'
  BY <1>1, <1>3, <1>4, <1>5 DEF Current
<1>6. ASSUME NEW e \in Docs, Ahead(e) PROVE Ahead(e)'
  BY <1>1, <1>3, <1>4, <1>6 DEF Ahead
<1>7. InOrder'
  <2>1. \A c \in harvest'.page : Current(c)'
    BY <1>1, <1>5, RowsAre DEF InlineInv, InOrder
  <2>2. \A e, f \in Docs : e # f /\ latest'[e] = latest'[f] => latest'[e] = 0
    BY <1>1, <1>2 DEF InlineInv, InOrder
  <2>3. harvest'.since <= seq' /\ \A e \in Docs : row'[e].seq <= seq'
    BY <1>1, <1>2, RowsAre
  <2> QED BY <1>1, <1>2, <2>1, <2>2, <2>3 DEF InlineInv, InOrder
<1>8. \A x \in Workers : ~Free(x)' => Handles(x)'
  <2> SUFFICES ASSUME NEW x \in Workers, ~Free(x) PROVE Handles(x)'
    BY <1>1 DEF Free
  <2>1. /\ worker[x].change.doc \in Docs /\ worker[x].target \in Docs
        /\ worker[x].data \in Nat /\ Handles(x)
    BY BusyIs
  <2>2. Current(worker[x].change) /\ worker'[x] = worker[x]
    BY <1>1, <2>1 DEF Handles
  <2> DEFINE c == worker[x].change
             t == worker[x].target
  <2>3. PICK change : change = c
    OBVIOUS
  <2>4. Current(change)' /\ worker'[x].change = change
    BY <1>5, <2>1, <2>2, <2>3
  <2>5. PICK target \in Docs : target = t
    BY <2>1
  <2>6. t # c.doc => Ahead(target)' /\ worker'[x].target = target
    BY <1>6, <2>1, <2>2, <2>5 DEF Handles
  <2>7. worker[x].at \in Fetched => worker[x].data <= latest'[c.doc]
    <3>1. latest[c.doc] \in Nat /\ latest'[c.doc] \in Nat /\ latest[c.doc] <= latest'[c.doc]
      BY <1>1, <1>2, <1>4, <2>1
    <3> QED BY <2>1, <3>1 DEF Handles, Stage
  <2> QED BY <1>1, <2>1, <2>2, <2>3, <2>4, <2>5, <2>6, <2>7 DEF Handles, Stage
<1>9. ReadInv'
  <2>1. ASSUME harvest.at = "idle", NEW e \in Docs, NEW f \in Docs,
               0 < latest'[e], latest'[e] <= row'[f].seq
        PROVE  Settled(e)'
    <3>1. e # d
      BY <1>1, <1>2, <2>1, RowsAre
    <3>2. Settled(e)
      BY <1>1, <2>1, <3>1 DEF InlineInv, ReadInv
    <3> QED BY <1>3, <3>1, <3>2
  <2>2. ASSUME harvest.at # "idle", NEW e \in Docs, 0 < latest'[e], latest'[e] <= harvest'.since
        PROVE  \/ Settled(e)' \/ (LastChange(e) \in harvest.page)'
               \/ \E x \in Workers : (~Free(x) /\ worker[x].change.doc = e)'
    <3>1. e # d
      BY <1>4, <2>2, <1>1, <1>2
    <3>2. \/ Settled(e) \/ LastChange(e) \in harvest.page
          \/ \E x \in Workers : ~Free(x) /\ worker[x].change.doc = e
      BY <1>1, <2>2, <3>1 DEF InlineInv, ReadInv
    <3> QED BY <1>1, <1>3, <3>1, <3>2 DEF Free
  <2>3. \A x \in Workers : Free(x)' = Free(x)
    BY <1>1 DEF Free
  <2>4. harvest.at # "idle" => \A e \in Docs : row'[e].seq <= harvest'.since
    BY <1>1 DEF InlineInv, ReadInv
  <2>5. harvest.at = "idle" => harvest'.page = {} /\ \A x \in Workers : Free(x)'
    BY <1>1, <2>3 DEF InlineInv, ReadInv
  <2>6. harvest' = harvest
    BY <1>1
  <2> QED BY <1>8, <2>1, <2>2, <2>4, <2>5, <2>6 DEF ReadInv
<1> QED BY <1>7, <1>9

\* What Harvest Books does between changes: rows, documents and processes stay,
\* and so is settled what was settled.
LEMMA HarvestInline ==
  ASSUME InlineInv, Inline, Start \/ FetchPage \/ FetchPageFails
  PROVE  InOrder' /\ ReadInv'
<1>1. /\ UNCHANGED <<seq, latest, gone, row, raw, tasks, worker, skipped>>
      /\ \A x \in Workers : Free(x)
  BY DEF Start, FetchPage, FetchPageFails, outside
<1>2. \A d \in Docs : LastChange(d)' = LastChange(d) /\ (Settled(d) => Settled(d)')
  BY <1>1 DEF LastChange, Settled, Reflected, Harvested
<1>3. \A x \in Workers : Free(x)'
  BY <1>1 DEF Free
<1>4. ASSUME harvest'.at = "idle", harvest'.page = {}, harvest'.since = harvest.since
      PROVE  InOrder' /\ ReadInv'
  <2>1. InOrder'
    BY <1>1, <1>4 DEF InlineInv, InOrder
  <2>2. \A d, e \in Docs : 0 < latest'[d] /\ latest'[d] <= row'[e].seq => Settled(d)'
    BY <1>1, <1>2, DroppedPage
  <2>3. ReadInv'
    BY <1>3, <1>4, <2>2 DEF ReadInv
  <2> QED BY <2>1, <2>3
<1>5. CASE Start
  <2>1. /\ harvest.at = "idle"
        /\ harvest'.at = "changes" /\ harvest'.since = Cursor /\ harvest'.page = {}
    BY <1>5 DEF Start
  <2>2. InOrder'
    BY <1>1, <2>1, CursorIs DEF InlineInv, InOrder
  <2>3. ASSUME NEW d \in Docs, 0 < latest'[d], latest'[d] <= harvest'.since
        PROVE  Settled(d)'
    <3>1. PICK e \in Docs : latest[d] <= row[e].seq
      BY <1>1, <2>1, <2>3, CursorIs, RowsAre
    <3>2. 0 < latest[d]
      BY <1>1, <2>3
    <3>3. Settled(d)
      BY <1>1, <3>1, <3>2, DroppedPage
    <3> QED BY <1>2, <3>3
  <2>4. \A d \in Docs : row'[d].seq <= harvest'.since
    BY <1>1, <2>1, CursorIs
  <2> QED BY <1>3, <2>1, <2>2, <2>3, <2>4 DEF ReadInv
<1>6. CASE FetchPageFails
  <2>1. harvest'.at = "idle" /\ harvest'.page = {} /\ harvest'.since = harvest.since
    BY <1>6 DEF FetchPageFails, InlineInv, ClaimInv, Shape
  <2> QED BY <1>4, <2>1
<1>7. CASE FetchPage
  <2> DEFINE page == Changes(harvest.since)
             last == Max(SeqsOf(page))
  <2>1. CASE page = {}
    <3>1. harvest'.at = "idle" /\ harvest'.page = {} /\ harvest'.since = harvest.since
      BY <1>7, <2>1 DEF FetchPage, InlineInv, ClaimInv, Shape
    <3> QED BY <1>4, <3>1
  <2>2. CASE page # {}
    <3>1. /\ harvest.at = "changes" /\ harvest'.at = "changes" /\ harvest.page = {}
          /\ harvest'.page = page /\ harvest'.since = last
      BY <1>7, <2>2 DEF FetchPage, InlineInv, ClaimInv, Shape
    <3>2. /\ last \in Nat /\ harvest.since < last /\ last <= seq
          /\ \A c \in page : /\ c.doc \in Docs /\ c = LastChange(c.doc)
                             /\ harvest.since < c.seq /\ c.seq <= last
          /\ \A d \in Docs : harvest.since < latest[d] /\ latest[d] <= last =>
               LastChange(d) \in page
      BY <2>2, RowsAre, PageIs
    <3> HIDE DEF page, last
    <3>3. \A d \in Docs : row[d].seq <= harvest.since
      BY <3>1 DEF InlineInv, ReadInv
    <3>4. InOrder'
      <4>1. \A c \in page : /\ Current(c)' /\ c.seq <= last
                            /\ \A d \in Docs : row[d].seq < c.seq
        <5> SUFFICES ASSUME NEW c \in page
                     PROVE  Current(c)' /\ c.seq <= last /\ \A d \in Docs : row[d].seq < c.seq
          OBVIOUS
        <5>1. c.doc \in Docs /\ c = LastChange(c.doc) /\ c.seq = latest[c.doc]
          BY <3>2 DEF LastChange
        <5>2. Current(c)'
          BY <1>2, <5>1 DEF Current
        <5>3. \A d \in Docs : row[d].seq < c.seq
          BY <3>2, <3>3, <5>1, RowsAre
        <5> QED BY <3>2, <5>2, <5>3
      <4>2. \A c, e \in page : c.seq = e.seq => c = e
        <5> SUFFICES ASSUME NEW c \in page, NEW e \in page, c.seq = e.seq PROVE c = e
          OBVIOUS
        <5>1. /\ c.doc \in Docs /\ c = LastChange(c.doc) /\ latest[c.doc] = c.seq
              /\ e.doc \in Docs /\ e = LastChange(e.doc) /\ latest[e.doc] = c.seq /\ c.seq # 0
          BY <3>2, RowsAre DEF LastChange
        <5>2. c.doc = e.doc
          BY <5>1 DEF InlineInv, InOrder
        <5> QED BY <5>1, <5>2
      <4>3. \A d \in Docs : row'[d].seq <= seq'
        BY <1>1 DEF InlineInv, InOrder
      <4> QED BY <1>1, <3>1, <3>2, <4>1, <4>2, <4>3 DEF InlineInv, InOrder
    <3>5. ASSUME NEW d \in Docs, 0 < latest'[d], latest'[d] <= harvest'.since
          PROVE  Settled(d)' \/ (LastChange(d) \in harvest.page)'
      <4>1. latest[d] \in Nat /\ latest'[d] = latest[d] /\ harvest.since \in Nat
        BY <1>1, RowsAre
      <4>2. CASE latest[d] <= harvest.since
        <5>1. Settled(d)
          BY <1>1, <3>1, <3>5, <4>1, <4>2 DEF InlineInv, ReadInv
        <5> QED BY <1>2, <5>1
      <4>3. CASE harvest.since < latest[d]
        BY <1>2, <3>1, <3>2, <3>5, <4>1, <4>3
      <4> QED BY <4>1, <4>2, <4>3
    <3>6. \A d \in Docs : row'[d].seq <= harvest'.since
      BY <1>1, <3>1, <3>2, <3>3, RowsAre
    <3> QED BY <1>3, <3>1, <3>4, <3>5, <3>6 DEF ReadInv
  <2> QED BY <2>1, <2>2
<1> QED BY <1>5, <1>6, <1>7

LEMMA HandleInline ==
  ASSUME InlineInv, \A y, z \in Workers : y = z, NEW x \in Workers, Handle(x)
  PROVE  InOrder' /\ ReadInv'
<1>1. UNCHANGED <<seq, latest, gone, row, raw, tasks, skipped>> /\ Free(x)
  BY DEF Handle, outside
<1>2. PICK c \in harvest.page : NextChange(c) /\ Update(x, Handling(c))
  BY DEF Handle
<1>3. /\ harvest.at = "changes" /\ \A e \in harvest.page : c.seq <= e.seq
      /\ harvest'.at = "changes" /\ harvest'.since = harvest.since
      /\ harvest'.page = harvest.page \ {c}
  BY <1>2 DEF NextChange, InlineInv, ClaimInv, Shape
<1>4. c \in ChangeShape /\ c.seq \in Nat /\ c.doc \in Docs /\ Current(c) /\ c.seq <= harvest.since
      /\ \A d \in Docs : row[d].seq < c.seq
  BY RowsAre DEF InlineInv, InOrder, ClaimInv, Shape
<1>5. /\ worker'[x].at = IF c.deleted THEN "delete" ELSE "fetch"
      /\ worker'[x].change = c /\ worker'[x].target = c.doc
  <2>1. worker'[x] = Handling(c)
    BY <1>2, RowsAre DEF Update
  <2> QED BY <2>1 DEF Handling, Idle
<1>6. \A d \in Docs : LastChange(d)' = LastChange(d) /\ (Settled(d) => Settled(d)')
  BY <1>1 DEF LastChange, Settled, Reflected, Harvested
<1>7. \A e : e.doc \in Docs /\ Current(e) => Current(e)'
  BY <1>1, <1>3, <1>6 DEF Current
<1>8. InOrder'
  <2>1. \A e \in harvest'.page : Current(e)' /\ e.seq <= harvest'.since
                                 /\ \A d \in Docs : row'[d].seq < e.seq
    BY <1>1, <1>3, <1>7, RowsAre DEF InlineInv, InOrder
  <2> QED BY <1>1, <1>3, <2>1 DEF InlineInv, InOrder
<1>9. Handles(x)'
  <2>1. Current(c)' /\ c.seq <= harvest'.since /\ \A e \in harvest'.page : c.seq < e.seq
    <3>1. \A e \in harvest'.page : c.seq < e.seq
      <4> SUFFICES ASSUME NEW e \in harvest'.page PROVE c.seq < e.seq
        OBVIOUS
      <4>1. e \in harvest.page /\ e # c /\ e.seq \in Nat
        BY <1>3, RowsAre
      <4>2. e.seq # c.seq
        BY <4>1 DEF InlineInv, InOrder
      <4> QED BY <1>3, <1>4, <4>1, <4>2
    <3> QED BY <1>3, <1>4, <1>7, <3>1
  <2>2. \A d \in Docs : row'[d].seq <= c.seq /\ row'[d].seq # c.seq
    BY <1>1, <1>4, RowsAre
  <2>3. c.deleted \in BOOLEAN
    BY <1>4 DEF ChangeShape
  <2>4. worker'[x].at \notin Saving \cup Stored \cup Fetched \cup {"deleteRaw"}
    BY <1>5 DEF Saving, Stored, Fetched
  <2>5. worker'[x].at \in {"delete", "deleteRaw"} <=> c.deleted
    BY <1>5, <2>3
  <2>6. Current(worker[x].change)'
    BY <1>5, <2>1 DEF Current, LastChange
  <2>7. worker'[x].at \notin {"indexed", "success", "parentSaved"}
    BY <1>5
  <2> QED BY <1>5, <2>1, <2>2, <2>4, <2>5, <2>6, <2>7 DEF Handles, Stage
<1>10. ReadInv'
  <2>1. \A d \in Docs : row'[d].seq <= harvest'.since
    BY <1>1, <1>3 DEF InlineInv, ReadInv
  <2>2. ASSUME NEW d \in Docs, 0 < latest'[d], latest'[d] <= harvest'.since
        PROVE  \/ Settled(d)' \/ (LastChange(d) \in harvest.page)'
               \/ \E y \in Workers : (~Free(y) /\ worker[y].change.doc = d)'
    <3>1. Settled(d) \/ LastChange(d) \in harvest.page
      BY <1>1, <1>3, <2>2 DEF InlineInv, ReadInv
    <3>2. CASE LastChange(d) = c
      <4>1. c.doc = d /\ worker'[x].at # "idle"
        BY <1>5, <3>2 DEF LastChange
      <4> QED BY <1>5, <4>1 DEF Free
    <3> QED BY <1>3, <1>6, <3>1, <3>2
  <2>3. \A y \in Workers : ~Free(y)' => Handles(y)'
    BY <1>9
  <2> QED BY <1>3, <2>1, <2>2, <2>3 DEF ReadInv
<1> QED BY <1>8, <1>10

\* A move of process x to state w with the same change.
LEMMA MoveInline ==
  ASSUME InlineInv, \A y, z \in Workers : y = z, NEW x \in Workers, ~Free(x),
         UNCHANGED <<seq, latest, gone, harvest, tasks, skipped>>,
         NEW w \in WorkerShape, worker'[x] = w, w.at # "idle", w.change = worker[x].change,
         Stage(w)', w.target = w.change.doc \/ Ahead(w.target),
         NEW t \in Docs, t = w.change.doc \/ Ahead(t),
         \A d \in Docs : d # t => row'[d] = row[d] /\ raw'[d] = raw[d],
         raw' \in [Docs -> Nat], row'[t].seq \in Nat, row'[t].seq <= w.change.seq,
         row'[t].seq = w.change.seq => w.at \in Stored /\ w.target = w.change.doc,
         worker[x].at \in Stored /\ worker[x].target = w.change.doc =>
           w.at \in Stored /\ w.target = w.change.doc,
         row'[t].harvest = "success" /\ row'[t].index = "success" => raw'[t] = row'[t].data
  PROVE  InOrder' /\ ReadInv' /\ SuccessIsIndexed'
<1>1. /\ w.change.doc \in Docs /\ w.change.seq \in Nat /\ w.target \in Docs /\ Handles(x)
      /\ harvest.at # "idle"
  BY BusyIs DEF WorkerShape
<1>2. \A d \in Docs : LastChange(d)' = LastChange(d)
  BY DEF LastChange
<1>3. Current(w.change)' /\ (w.target # w.change.doc => Ahead(w.target)')
  BY <1>1, <1>2 DEF Handles, Current, Ahead
<1>4. \A d \in Docs : /\ row'[d].seq <= w.change.seq
                      /\ row'[d].seq = w.change.seq => w.at \in Stored /\ w.target = w.change.doc
  BY <1>1, RowsAre DEF Handles
<1>5. Handles(x)'
  <2>1. Stage(worker[x])'
    BY DEF Stage
  <2>2. Current(worker[x].change)'
    BY <1>3 DEF Current, LastChange
  <2>3. worker'[x].target # worker'[x].change.doc => Ahead(worker[x].target)'
    BY <1>3 DEF Ahead, LastChange
  <2>4. w.change.seq <= harvest'.since /\ \A e \in harvest'.page : w.change.seq < e.seq
    BY <1>1 DEF Handles
  <2> QED BY <1>4, <2>1, <2>2, <2>3, <2>4 DEF Handles
<1>6. InOrder' /\ ReadInv'
  <2>1. PICK own \in Docs : own = w.change.doc
    BY <1>1
  <2> QED BY <1>1, <1>5, <2>1, TouchInline
<1>7. SuccessIsIndexed'
  BY DEF InlineInv, SuccessIsIndexed
<1> QED BY <1>6, <1>7

\* Process x has done with its change.
LEMMA ReturnInline ==
  ASSUME InlineInv, \A y, z \in Workers : y = z, NEW x \in Workers, ~Free(x), Return(x),
         UNCHANGED <<seq, latest, gone, tasks>>,
         skipped' \in {skipped, skipped \cup {worker[x].change}},
         NEW own \in Docs, own = worker[x].change.doc, skipped' # skipped => own \in Parts,
         NEW t \in Docs, t = own \/ Ahead(t) \/ Settled(t)',
         \A d \in Docs : d # t => row'[d] = row[d] /\ raw'[d] = raw[d],
         raw' \in [Docs -> Nat], row'[t].seq \in Nat, row'[t].seq <= worker[x].change.seq,
         row'[t].harvest = "success" /\ row'[t].index = "success" => raw'[t] = row'[t].data,
         latest[own] <= harvest.since => Settled(own)'
  PROVE  InOrder' /\ ReadInv' /\ SuccessIsIndexed'
<1>1. worker'[x].at = "idle" /\ harvest' = harvest
  BY RowsAre DEF Return, Update, Idle
<1>2. InOrder' /\ ReadInv'
  BY <1>1, TouchInline
<1>3. SuccessIsIndexed'
  BY DEF InlineInv, SuccessIsIndexed
<1> QED BY <1>2, <1>3

\* A later page does not have the document of x: its change is the last one.
LEMMA OwnIs ==
  ASSUME InlineInv, NEW x \in Workers, ~Free(x), NEW own \in Docs,
         own = worker[x].change.doc, latest[own] <= harvest.since
  PROVE  /\ worker[x].change = LastChange(own) /\ latest[own] = worker[x].change.seq
         /\ own \in gone => worker[x].change.deleted
         /\ worker[x].change.deleted => own \in gone
<1>1. Current(worker[x].change)
  BY BusyIs DEF Handles
<1>2. ~(latest[own] > harvest.since)
  BY RowsAre
<1>3. worker[x].change = LastChange(own)
  BY <1>1, <1>2 DEF Current
<1>4. LastChange(own).seq = latest[own] /\ LastChange(own).deleted = (own \in gone)
  BY DEF LastChange
<1> QED BY <1>3, <1>4

LEMMA RowIs ==
  ASSUME InlineInv, NEW d \in Docs
  PROVE  /\ \A status \in HarvestStatus :
              /\ Got(d, status).harvest = status /\ Got(d, status).index = row[d].index
              /\ Got(d, status).data = row[d].data /\ Got(d, status).seq = row[d].seq
         /\ \A status \in IndexStatus :
              /\ Marked(d, status).harvest = "in_progress" /\ Marked(d, status).index = status
              /\ Marked(d, status).data = row[d].data /\ Marked(d, status).seq = row[d].seq
<1>1. row[d] \in RowShape
  BY RowsAre
<1>2. \A status \in HarvestStatus :
        /\ Got(d, status).harvest = status /\ Got(d, status).index = row[d].index
        /\ Got(d, status).data = row[d].data /\ Got(d, status).seq = row[d].seq
  BY <1>1 DEF RowShape, Got
<1>3. \A status \in IndexStatus :
        /\ Marked(d, status).harvest = "in_progress" /\ Marked(d, status).index = status
        /\ Marked(d, status).data = row[d].data /\ Marked(d, status).seq = row[d].seq
  BY <1>1 DEF RowShape, Marked
<1> QED BY <1>2, <1>3

LEMMA DeleteInline ==
  ASSUME InlineInv, \A y, z \in Workers : y = z, NEW x \in Workers,
         DeleteRow(x) \/ DeleteRaw(x) \/ DeleteUnknown(x)
  PROVE  InOrder' /\ ReadInv' /\ SuccessIsIndexed'
<1>1. PICK w : w = worker[x]
  OBVIOUS
<1>2. PICK own : own = w.change.doc
  OBVIOUS
<1>3. /\ w.at \in {"delete", "deleteRaw"} /\ ~Free(x)
      /\ UNCHANGED <<seq, latest, gone, harvest, tasks, skipped>>
  BY <1>1, Zenon DEF DeleteRow, DeleteRaw, DeleteUnknown, Return, Free, outside
<1>4. /\ w \in WorkerShape /\ own \in Docs /\ Handles(x) /\ w.change.seq \in Nat
  BY <1>1, <1>2, <1>3, BusyIs
<1>5. w.change.deleted /\ w.target = own /\ (w.at = "deleteRaw" => row[own] = NoRow)
  BY <1>1, <1>2, <1>3, <1>4 DEF Handles, Stage, Saving
<1>6. NoRow.seq = 0 /\ NoRow.data = 0 /\ NoRow.harvest = "absent"
  BY DEF NoRow
<1>7. CASE DeleteRow(x)
  <2> DEFINE v == [w EXCEPT !.at = "deleteRaw"]
  <2>1. /\ w.at = "delete" /\ worker'[x] = v /\ row' = [row EXCEPT ![own] = NoRow]
        /\ raw' \in [Docs -> Nat] /\ \A d \in Docs : d # own => raw'[d] = raw[d]
    <3>1. PICK kept \in {0, raw[own]} : raw' = [raw EXCEPT ![own] = kept]
      BY <1>1, <1>2, <1>7, Zenon DEF DeleteRow
    <3>2. w.at = "delete" /\ worker'[x] = v /\ row' = [row EXCEPT ![own] = NoRow]
      BY <1>1, <1>2, <1>7, Zenon DEF DeleteRow
    <3>3. kept \in Nat
      BY <1>4, <3>1, RowsAre
    <3> QED BY <3>1, <3>2, <3>3, RowsAre
  <2>2. /\ v \in WorkerShape /\ v.at = "deleteRaw" /\ v.change = w.change
        /\ v.target = own /\ row'[own] = NoRow /\ \A d \in Docs : d # own => row'[d] = row[d]
    BY <1>4, <1>5, <2>1, RowsAre DEF WorkerShape, Steps
  <2> HIDE DEF v
  <2>3. Stage(v)'
    BY <1>2, <1>5, <2>2 DEF Stage, Saving, Stored, Fetched
  <2>4. w.change.seq # 0 /\ worker[x].at \notin Stored
    <3>1. row[own].seq <= w.change.seq /\ row[own].seq \in Nat /\ w.at = "delete"
      BY <1>1, <1>4, <2>1, RowsAre DEF Handles
    <3>2. row[own].seq # w.change.seq
      BY <1>1, <1>4, <3>1 DEF Handles, Stored
    <3> QED BY <1>1, <1>4, <3>1, <3>2 DEF Stored
  <2> QED BY <1>1, <1>2, <1>3, <1>4, <1>6, <2>1, <2>2, <2>3, <2>4, MoveInline
<1>8. CASE DeleteRaw(x) \/ DeleteUnknown(x)
  <2>1. /\ Return(x) /\ row' = row /\ row[own] = NoRow
        /\ raw' \in [Docs -> Nat] /\ \A d \in Docs : d # own => raw'[d] = raw[d]
    <3>1. CASE DeleteRaw(x)
      <4>1. PICK kept \in {0, raw[own]} : raw' = [raw EXCEPT ![own] = kept]
        BY <1>1, <1>2, <3>1 DEF DeleteRaw
      <4>2. Return(x) /\ row' = row /\ w.at = "deleteRaw"
        BY <1>1, <3>1 DEF DeleteRaw
      <4>3. kept \in Nat
        BY <1>4, <4>1, RowsAre
      <4> QED BY <1>5, <4>1, <4>2, <4>3, RowsAre
    <3>2. CASE DeleteUnknown(x)
      BY <1>1, <1>2, <3>2, RowsAre DEF DeleteUnknown, Exists
    <3> QED BY <1>8, <3>1, <3>2
  <2>2. latest[own] <= harvest.since => Settled(own)'
    <3> SUFFICES ASSUME latest[own] <= harvest.since PROVE Settled(own)'
      OBVIOUS
    <3>1. own \in gone' /\ row'[own].data = 0
      BY <1>1, <1>2, <1>3, <1>4, <1>5, <1>6, <2>1, OwnIs
    <3> QED BY <3>1 DEF Settled, Reflected, Harvested
  <2>3. row'[own].seq = 0 /\ row'[own].harvest = "absent"
    BY <1>6, <2>1
  <2>4. worker[x].change.seq \in Nat /\ own = worker[x].change.doc
    BY <1>1, <1>2, <1>4
  <2> QED BY <1>3, <1>4, <2>1, <2>2, <2>3, <2>4, ReturnInline
<1> QED BY <1>7, <1>8

\* A step that changes neither rows nor the raw index.
LEMMA QuietInline ==
  ASSUME InlineInv, \A y, z \in Workers : y = z, NEW x \in Workers, ~Free(x),
         UNCHANGED <<seq, latest, gone, harvest, tasks, skipped, row, raw>>,
         worker[x].at \notin Stored,
         NEW w \in WorkerShape, worker'[x] = w, w.at # "idle", w.change = worker[x].change,
         Stage(w), w.target = w.change.doc \/ Ahead(w.target)
  PROVE  InOrder' /\ ReadInv' /\ SuccessIsIndexed'
<1>1. PICK own \in Docs : own = w.change.doc
  BY BusyIs
<1>2. Stage(w)'
  BY DEF Stage
<1>3. /\ row[own].seq \in Nat /\ row[own].seq <= w.change.seq /\ row[own].seq # w.change.seq
  BY <1>1, BusyIs, RowsAre DEF Handles
<1>4. row'[own].harvest = "success" /\ row'[own].index = "success" => raw'[own] = row'[own].data
  BY <1>1 DEF InlineInv, SuccessIsIndexed
<1>5. raw' \in [Docs -> Nat]
  BY RowsAre
<1> QED BY <1>1, <1>2, <1>3, <1>4, <1>5, MoveInline

LEMMA FetchInline ==
  ASSUME InlineInv, \A y, z \in Workers : y = z, NEW x \in Workers,
         FetchDoc(x) \/ FindParent(x) \/ FetchParent(x)
  PROVE  InOrder' /\ ReadInv' /\ SuccessIsIndexed'
<1>1. PICK w : w = worker[x]
  OBVIOUS
<1>2. PICK own : own = w.change.doc
  OBVIOUS
<1>3. /\ w.at \in {"fetch", "parent"} /\ ~Free(x)
      /\ UNCHANGED <<seq, latest, gone, harvest, tasks, skipped, row, raw>>
  BY <1>1, Zenon DEF FetchDoc, FindParent, FetchParent, Free, outside
<1>4. /\ w \in WorkerShape /\ own \in Docs /\ Handles(x) /\ Handled(w) /\ harvest.at # "idle"
      /\ latest[own] \in Nat
  BY <1>1, <1>2, <1>3, BusyIs, RowsAre
<1>5. Stage(w) /\ ~w.change.deleted /\ w.target = own /\ w.at \notin Stored
      /\ (w.at = "parent" => own \in Parts /\ w.data <= latest[own])
  BY <1>1, <1>2, <1>3, <1>4 DEF Handles, Stage, Saving, Stored, Handled, Fetched
<1>6. CASE FetchDoc(x)
  <2> DEFINE v == [w EXCEPT !.at = IF own \in Parts THEN "parent" ELSE "save",
                            !.data = latest[own], !.saving = latest[own]]
  <2>1. worker'[x] = v
    BY <1>1, <1>2, <1>6, RowsAre DEF FetchDoc, Update
  <2>2. /\ v \in WorkerShape /\ v.at \in {"parent", "save"} /\ v.change = w.change
        /\ v.target = own /\ v.data = latest[own]
    BY <1>4, <1>5 DEF WorkerShape, Steps
  <2> HIDE DEF v
  <2>3. Stage(v)
    BY <1>2, <1>4, <1>5, <2>2 DEF Stage, Saving, Stored, Fetched
  <2> QED BY <1>1, <1>2, <1>3, <1>5, <2>1, <2>2, <2>3, QuietInline
<1>7. CASE FindParent(x)
  <2> DEFINE v == [w EXCEPT !.at = "save", !.parentHeld = TRUE]
  <2>1. worker'[x] = v /\ w.at = "parent"
    BY <1>1, <1>7, RowsAre DEF FindParent, Update
  <2>2. /\ v \in WorkerShape /\ v.at = "save" /\ v.change = w.change
        /\ v.target = own /\ v.data = w.data
    BY <1>4, <1>5 DEF WorkerShape, Steps
  <2> HIDE DEF v
  <2>3. Stage(v)
    BY <1>2, <1>4, <1>5, <2>1, <2>2 DEF Stage, Saving, Stored, Fetched
  <2> QED BY <1>1, <1>2, <1>3, <1>5, <2>1, <2>2, <2>3, QuietInline
<1>8. CASE FetchParent(x)
  <2> DEFINE m == Monograph[own]
             v == [w EXCEPT !.at = "save", !.target = m, !.saving = latest[m]]
  <2>1. worker'[x] = v /\ w.at = "parent" /\ ~Exists(m) /\ Fetchable(m)
    BY <1>1, <1>2, <1>8, RowsAre DEF FetchParent, ParentOf, Update
  <2>2. own \in Parts /\ m \in Monographs /\ m \in Docs /\ m \notin Parts /\ m # own
    BY <1>5, <2>1, DocsAssumption DEF Docs
  <2>3. latest[m] \in Nat
    BY <2>2, RowsAre
  <2>4. /\ v \in WorkerShape /\ v.at = "save" /\ v.change = w.change
        /\ v.target = m /\ v.data = w.data
    BY <1>4, <1>5, <2>2, <2>3 DEF WorkerShape, Steps
  <2>5. Ahead(m)
    <3>1. SUFFICES ASSUME latest[m] <= harvest.since PROVE LastChange(m) \in harvest.page
      BY <2>3, RowsAre DEF Ahead
    <3>2. 0 < latest[m] /\ m \notin gone /\ row[m] = NoRow
      BY <2>1 DEF Exists, Fetchable
    <3>3. ~Settled(m)
      <4>1. row[m].data # latest[m] /\ row[m].harvest # "failed"
        BY <3>2, <2>3 DEF NoRow
      <4>2. LastChange(m) \notin skipped
        BY <2>2 DEF InlineInv, InOrder, LastChange
      <4> QED BY <3>2, <4>1, <4>2 DEF Settled, Reflected, Harvested
    <3>4. \A y \in Workers : worker[y].change.doc # m
      BY <1>1, <1>2, <2>2
    <3> QED BY <1>4, <2>2, <3>1, <3>2, <3>3, <3>4 DEF InlineInv, ReadInv
  <2> HIDE DEF v, m
  <2>6. Stage(v)
    BY <1>2, <1>4, <1>5, <2>1, <2>2, <2>4 DEF Stage, Saving, Stored, Fetched, m
  <2> QED BY <1>1, <1>2, <1>3, <1>5, <2>1, <2>4, <2>5, <2>6, QuietInline
<1> QED BY <1>6, <1>7, <1>8

\* Where the document that is being saved stands.
LEMMA TargetIs ==
  ASSUME InlineInv, NEW x \in Workers, worker[x].at \in Saving \cup {"save"}
  PROVE  /\ ~Free(x) /\ worker[x].target \in Docs /\ worker[x].change.doc \in Docs
         /\ worker[x].target = worker[x].change.doc \/ Ahead(worker[x].target)
         /\ worker[x].at \in Fetched /\ ~worker[x].change.deleted /\ Stage(worker[x])
         /\ worker[x].at \in Saving => worker[x].held
         /\ row[worker[x].target].seq \in Nat /\ worker[x].change.seq \in Nat
         /\ row[worker[x].target].seq <= worker[x].change.seq
         /\ row[worker[x].target].seq = worker[x].change.seq =>
              worker[x].at \in Stored /\ worker[x].target = worker[x].change.doc
<1>1. ~Free(x) /\ worker[x].at \in Fetched /\ worker[x].at \notin {"delete", "deleteRaw"}
  BY DEF Free, Saving, Fetched
<1>2. Handles(x) /\ worker[x].target \in Docs /\ worker[x].change.doc \in Docs
      /\ worker[x].change.seq \in Nat
  BY <1>1, BusyIs
<1>3. row[worker[x].target].seq \in Nat
  BY <1>2, RowsAre
<1>4. Stage(worker[x])
  BY <1>2 DEF Handles
<1>5. ~worker[x].change.deleted /\ (worker[x].at \in Saving => worker[x].held)
  BY <1>1, <1>4 DEF Stage
<1> QED BY <1>1, <1>2, <1>3, <1>4, <1>5 DEF Handles

\* The same document is saved on: process x goes to state v, in which only at and
\* held may have changed.
LEMMA SaveOn ==
  ASSUME InlineInv, \A y, z \in Workers : y = z, NEW x \in Workers,
         worker[x].at \in Saving \cup {"save"},
         UNCHANGED <<seq, latest, gone, harvest, tasks, skipped>>,
         NEW t \in Docs, t = worker[x].target,
         NEW v \in WorkerShape, worker'[x] = v, v.at \in Saving, v.held,
         v.change = worker[x].change, v.target = t,
         v.data = worker[x].data, v.saving = worker[x].saving,
         \A d \in Docs : d # t => row'[d] = row[d] /\ raw'[d] = raw[d],
         raw' \in [Docs -> Nat], row'[t].seq \in Nat, row'[t].seq <= v.change.seq,
         row'[t].seq = v.change.seq => v.at \in Stored /\ t = v.change.doc,
         worker[x].at \in Stored => v.at \in Stored,
         row'[t].harvest = "in_progress",
         v.at \in Stored => row'[t].data = v.saving,
         v.at = "indexed" => raw'[t] = v.saving,
         v.at = "success" /\ row'[t].index = "success" => raw'[t] = v.saving
  PROVE  InOrder' /\ ReadInv' /\ SuccessIsIndexed'
<1>1. /\ ~Free(x) /\ v.change.doc \in Docs
      /\ t = v.change.doc \/ Ahead(t)
      /\ worker[x].at \in Fetched /\ ~v.change.deleted /\ Stage(worker[x])
  BY TargetIs
<1>2. /\ v.data <= latest[v.change.doc]
      /\ t # v.change.doc => v.change.doc \in Parts /\ t = Monograph[v.change.doc]
  BY <1>1 DEF Stage
<1>3. v.at \in Fetched /\ v.at # "idle" /\ v.at \notin {"delete", "deleteRaw", "parentSaved"}
  BY DEF Saving, Fetched
<1>4. Stage(v)'
  BY <1>1, <1>2, <1>3 DEF Stage
<1>5. row'[t].harvest # "success"
  OBVIOUS
<1> QED BY <1>1, <1>3, <1>4, <1>5, MoveInline

\* GetRow, SaveData, IndexRaw, IndexRawFails, MarkIndexed: the same document is
\* saved on.
LEMMA SaveOnInline ==
  ASSUME InlineInv, \A y, z \in Workers : y = z, NEW x \in Workers,
         GetRow(x) \/ SaveData(x) \/ IndexRaw(x) \/ IndexRawFails(x) \/ MarkIndexed(x)
  PROVE  InOrder' /\ ReadInv' /\ SuccessIsIndexed'
<1>1. PICK w : w = worker[x]
  OBVIOUS
<1>2. PICK t : t = w.target
  OBVIOUS
<1>3. /\ w.at \in {"save", "data", "index", "indexed"} /\ w.at \in Saving \cup {"save"}
      /\ UNCHANGED <<seq, latest, gone, harvest, tasks, skipped>>
  BY <1>1, Zenon DEF GetRow, SaveData, IndexRaw, IndexRawFails, MarkIndexed, Saving, outside
<1>4. /\ ~Free(x) /\ t \in Docs /\ w.change.doc \in Docs /\ w.change.seq \in Nat
      /\ t = w.change.doc \/ Ahead(t)
      /\ w.at \in Fetched /\ ~w.change.deleted /\ Stage(w)
      /\ w.at \in Saving => w.held
      /\ row[t].seq \in Nat /\ row[t].seq <= w.change.seq
      /\ row[t].seq = w.change.seq => w.at \in Stored /\ t = w.change.doc
  BY <1>1, <1>2, <1>3, TargetIs
<1>5. /\ w \in WorkerShape /\ row \in [Docs -> RowShape] /\ raw \in [Docs -> Nat]
      /\ worker \in [Workers -> WorkerShape]
  BY <1>1, RowsAre
<1>6. ASSUME w.at \in Saving
      PROVE  row[t].harvest = "in_progress" /\ (w.at \in Stored => row[t].data = w.saving)
             /\ (w.at = "indexed" => raw[t] = w.saving)
  BY <1>2, <1>4, <1>6 DEF Stage
<1>7. PICK v \in WorkerShape :
        /\ worker'[x] = v /\ v.held /\ v.change = w.change /\ v.target = t
        /\ v.data = w.data /\ v.saving = w.saving
        /\ v.at = CASE w.at = "save" -> "data" [] w.at = "data" -> "index"
                    [] w.at = "index" /\ IndexRaw(x) -> "indexed" [] OTHER -> "success"
  <2>1. CASE GetRow(x)
    <3>1. w.at = "save" /\ worker'[x] = [w EXCEPT !.at = "data", !.held = TRUE]
      BY <1>1, <1>5, <2>1 DEF GetRow, Update
    <3> QED BY <1>2, <1>5, <3>1 DEF WorkerShape, Steps
  <2>2. CASE SaveData(x)
    <3>1. w.at = "data" /\ worker'[x] = [w EXCEPT !.at = "index"] /\ w.held
      BY <1>1, <1>5, <2>2 DEF SaveData, Update
    <3> QED BY <1>2, <1>5, <3>1 DEF WorkerShape, Steps
  <2>3. CASE IndexRaw(x)
    <3>1. w.at = "index" /\ worker'[x] = [w EXCEPT !.at = "indexed"]
      BY <1>1, <1>5, <2>3 DEF IndexRaw, Update
    <3>2. w.held
      BY <1>4, <3>1 DEF Saving
    <3> QED BY <1>2, <1>5, <2>3, <3>1, <3>2 DEF WorkerShape, Steps
  <2>4. CASE ~IndexRaw(x) /\ (IndexRawFails(x) \/ MarkIndexed(x))
    <3>1. w.at \in {"index", "indexed"} /\ worker'[x] = [w EXCEPT !.at = "success"] /\ w.held
      BY <1>1, <1>5, <2>4 DEF IndexRawFails, MarkIndexed, Update
    <3> QED BY <1>2, <1>5, <2>4, <3>1 DEF WorkerShape, Steps
  <2> QED BY <2>1, <2>2, <2>3, <2>4
<1>8. /\ v.at \in Saving /\ (w.at \in Stored => v.at \in Stored)
      /\ (v.at \in Stored => w.at # "save")
  BY <1>3, <1>7 DEF Saving, Stored
<1>9. CASE GetRow(x)
  <2>1. w.at = "save" /\ raw' = raw /\ row' = [row EXCEPT ![t] = Got(t, "in_progress")]
    BY <1>1, <1>2, <1>9 DEF GetRow
  <2>2. /\ row'[t].harvest = "in_progress" /\ row'[t].seq = row[t].seq
        /\ \A d \in Docs : d # t => row'[d] = row[d]
    BY <1>4, <1>5, <2>1, RowIs DEF HarvestStatus
  <2>3. w.at \notin Stored /\ v.at \notin Stored /\ v.at \notin {"indexed", "success"}
    BY <1>7, <2>1 DEF Stored
  <2>4. /\ \A d \in Docs : d # t => row'[d] = row[d] /\ raw'[d] = raw[d]
        /\ row'[t].seq \in Nat /\ row'[t].seq <= v.change.seq /\ raw' \in [Docs -> Nat]
        /\ row'[t].seq # v.change.seq
    BY <1>4, <1>5, <1>7, <2>1, <2>2, <2>3
  <2> QED BY <1>1, <1>2, <1>3, <1>4, <1>7, <1>8, <2>2, <2>3, <2>4, SaveOn
<1>10. CASE SaveData(x)
  <2>1. w.at = "data" /\ raw' = raw /\ row' = [row EXCEPT ![t] = NewData(x)]
    BY <1>1, <1>2, <1>10 DEF SaveData
  <2>2. /\ row'[t] = NewData(x) /\ \A d \in Docs : d # t => row'[d] = row[d]
        /\ row[t].harvest = "in_progress"
    BY <1>4, <1>5, <1>6, <2>1 DEF Saving
  <2>3. /\ NewData(x).data = w.saving /\ NewData(x).harvest = row[t].harvest
        /\ NewData(x).seq = IF t # w.change.doc THEN 0 ELSE w.change.seq
    <3>1. row[t] \in RowShape
      BY <1>4, <1>5
    <3>2. NewData(x) = [row[t] EXCEPT !.data = w.saving,
                          !.seq = IF t # w.change.doc THEN 0 ELSE w.change.seq]
      BY <1>1, <1>2 DEF NewData, SavesParent
    <3> QED BY <3>1, <3>2 DEF RowShape
  <2>4. /\ w.at \notin Stored /\ w.change.seq # 0
        /\ v.at \in Stored /\ v.at \notin {"indexed", "success"}
    BY <1>4, <1>7, <2>1 DEF Stored
  <2>5. /\ \A d \in Docs : d # t => row'[d] = row[d] /\ raw'[d] = raw[d]
        /\ row'[t].seq \in Nat /\ row'[t].seq <= v.change.seq /\ raw' \in [Docs -> Nat]
        /\ row'[t].seq = v.change.seq => t = v.change.doc
        /\ row'[t].harvest = "in_progress" /\ row'[t].data = v.saving
    BY <1>4, <1>5, <1>7, <2>1, <2>2, <2>3, <2>4
  <2> QED BY <1>1, <1>2, <1>3, <1>4, <1>7, <1>8, <2>4, <2>5, SaveOn
<1>11. CASE IndexRaw(x)
  <2>1. w.at = "index" /\ row' = row /\ raw' = [raw EXCEPT ![t] = w.saving]
    BY <1>1, <1>2, <1>11 DEF IndexRaw
  <2>2. w.at \in Saving /\ w.at \in Stored /\ v.at \in Stored
    BY <1>8, <2>1 DEF Saving, Stored
  <2>3. /\ \A d \in Docs : d # t => row'[d] = row[d] /\ raw'[d] = raw[d]
        /\ row'[t].seq \in Nat /\ row'[t].seq <= v.change.seq /\ raw' \in [Docs -> Nat]
        /\ row'[t].seq = v.change.seq => t = v.change.doc
        /\ row'[t].harvest = "in_progress" /\ row'[t].data = v.saving /\ raw'[t] = v.saving
    BY <1>4, <1>5, <1>6, <1>7, <2>1, <2>2 DEF WorkerShape
  <2> QED BY <1>1, <1>2, <1>3, <1>4, <1>7, <1>8, <2>2, <2>3, SaveOn
<1>12. CASE ~IndexRaw(x) /\ (IndexRawFails(x) \/ MarkIndexed(x))
  <2>1. PICK status \in IndexStatus :
          /\ row' = [row EXCEPT ![t] = Marked(t, status)] /\ raw' = raw
          /\ w.at \in {"index", "indexed"} /\ (status = "success" => w.at = "indexed")
    <3>1. CASE IndexRawFails(x)
      BY <1>1, <1>2, <3>1 DEF IndexRawFails, IndexStatus
    <3>2. CASE MarkIndexed(x)
      BY <1>1, <1>2, <3>2 DEF MarkIndexed, IndexStatus
    <3> QED BY <1>12, <3>1, <3>2
  <2>2. /\ row'[t].harvest = "in_progress" /\ row'[t].index = status
        /\ row'[t].seq = row[t].seq /\ row'[t].data = row[t].data
        /\ \A d \in Docs : d # t => row'[d] = row[d]
    BY <1>4, <1>5, <2>1, RowIs
  <2>3. w.at \in Saving /\ w.at \in Stored /\ v.at \in Stored /\ v.at = "success"
    BY <1>7, <1>8, <1>12, <2>1 DEF Saving, Stored
  <2>4. /\ \A d \in Docs : d # t => row'[d] = row[d] /\ raw'[d] = raw[d]
        /\ row'[t].seq \in Nat /\ row'[t].seq <= v.change.seq /\ raw' \in [Docs -> Nat]
        /\ row'[t].seq = v.change.seq => t = v.change.doc
        /\ row'[t].data = v.saving
        /\ row'[t].index = "success" => raw'[t] = v.saving
    BY <1>4, <1>5, <1>6, <1>7, <2>1, <2>2, <2>3
  <2>5. v.at # "indexed"
    BY <2>3
  <2> QED BY <1>1, <1>2, <1>3, <1>4, <1>7, <1>8, <2>2, <2>3, <2>4, <2>5, SaveOn
<1> QED BY <1>9, <1>10, <1>11, <1>12

\* MarkSuccess, SaveDataFails: the row is saved, or refused and marked as failed.
LEMMA SavedInline ==
  ASSUME InlineInv, \A y, z \in Workers : y = z, NEW x \in Workers,
         MarkSuccess(x) \/ SaveDataFails(x)
  PROVE  InOrder' /\ ReadInv' /\ SuccessIsIndexed'
<1>1. PICK w : w = worker[x]
  OBVIOUS
<1>2. PICK t : t = w.target
  OBVIOUS
<1>3. PICK own : own = w.change.doc
  OBVIOUS
<1>4. PICK status \in {"success", "failed"} :
        /\ w.at = IF status = "success" THEN "success" ELSE "data"
        /\ Saved(x) /\ row' = [row EXCEPT ![t] = Got(t, status)]
        /\ UNCHANGED <<seq, latest, gone, raw, tasks, skipped>>
  <2>1. CASE MarkSuccess(x)
    <3>1. /\ w.at = "success" /\ Saved(x) /\ row' = [row EXCEPT ![t] = Got(t, "success")]
          /\ UNCHANGED <<seq, latest, gone, raw, tasks, skipped>>
      BY <1>1, <1>2, <2>1, Zenon DEF MarkSuccess, outside
    <3> QED BY <3>1
  <2>2. CASE SaveDataFails(x)
    <3>1. /\ w.at = "data" /\ Saved(x) /\ row' = [row EXCEPT ![t] = Got(t, "failed")]
          /\ UNCHANGED <<seq, latest, gone, raw, tasks, skipped>>
      BY <1>1, <1>2, <2>2, Zenon DEF SaveDataFails, outside
    <3> QED BY <3>1
  <2> QED BY <2>1, <2>2
<1>5. /\ ~Free(x) /\ t \in Docs /\ own \in Docs /\ w.change.seq \in Nat
      /\ t = own \/ Ahead(t)
      /\ w.at \in Fetched /\ ~w.change.deleted /\ Stage(w)
      /\ row[t].seq \in Nat /\ row[t].seq <= w.change.seq
      /\ row[t].seq = w.change.seq => t = own
  <2>1. w.at \in Saving \cup {"save"}
    BY <1>4 DEF Saving
  <2> QED BY <1>1, <1>2, <1>3, <2>1, TargetIs
<1>6. /\ w \in WorkerShape /\ row \in [Docs -> RowShape] /\ raw \in [Docs -> Nat]
      /\ worker \in [Workers -> WorkerShape] /\ latest[own] \in Nat
      /\ w.data \in Nat /\ w.saving \in Nat /\ Handled(w)
  BY <1>1, <1>3, <1>5, RowsAre, BusyIs
<1>7. /\ row'[t].harvest = status /\ row'[t].index = row[t].index
      /\ row'[t].data = row[t].data /\ row'[t].seq = row[t].seq
      /\ \A d \in Docs : d # t => row'[d] = row[d] /\ raw'[d] = raw[d]
      /\ raw' \in [Docs -> Nat]
  BY <1>4, <1>5, <1>6, RowIs DEF HarvestStatus
<1>8. w.at = "success" => row[t].data = w.saving /\ (row[t].index = "success" => raw[t] = w.saving)
  BY <1>2, <1>5 DEF Stage, Stored
<1>9. row'[t].harvest = "success" /\ row'[t].index = "success" => raw'[t] = row'[t].data
  BY <1>4, <1>7, <1>8
<1>10. CASE t = own
  <2>1. Return(x)
    BY <1>1, <1>2, <1>3, <1>4, <1>10 DEF Saved, SavesParent
  <2>2. latest[own] <= harvest.since => Settled(own)'
    <3> SUFFICES ASSUME latest[own] <= harvest.since PROVE Settled(own)'
      OBVIOUS
    <3>1. own \notin gone' /\ latest'[own] = w.change.seq
      BY <1>1, <1>3, <1>4, <1>5, OwnIs
    <3>2. CASE status = "failed"
      BY <1>7, <1>10, <3>1, <3>2 DEF Settled, Reflected, Harvested
    <3>3. CASE status = "success"
      <4>1. w.data <= latest[own] /\ row'[own].data = w.saving
        BY <1>3, <1>4, <1>5, <1>7, <1>8, <1>10, <3>3 DEF Stage
      <4>2. w.saving = w.data /\ w.change.seq <= w.data
        BY <1>2, <1>3, <1>5, <1>6, <1>10 DEF Handled
      <4>3. row'[own].data = latest'[own]
        BY <1>4, <1>5, <1>6, <3>1, <4>1, <4>2
      <4> QED BY <3>1, <4>3 DEF Settled, Reflected, Harvested
    <3> QED BY <3>2, <3>3
  <2>3. UNCHANGED <<seq, latest, gone, tasks, skipped>> /\ own = worker[x].change.doc
        /\ row'[t].seq \in Nat /\ row'[t].seq <= worker[x].change.seq
    BY <1>1, <1>3, <1>4, <1>5, <1>7
  <2> HIDE <1>1, <1>2, <1>3, <1>4
  <2> QED BY <1>5, <1>7, <1>9, <1>10, <2>1, <2>2, <2>3, ReturnInline
<1>11. CASE t # own
  <2> DEFINE v == [w EXCEPT !.at = "parentSaved", !.held = FALSE]
  <2>1. worker'[x] = v /\ harvest' = harvest
    BY <1>1, <1>2, <1>3, <1>4, <1>6, <1>11 DEF Saved, SavesParent, Update
  <2>2. /\ v \in WorkerShape /\ v.at = "parentSaved" /\ v.change = w.change
        /\ v.target = t /\ v.data = w.data
    BY <1>2, <1>6 DEF WorkerShape, Steps
  <2> HIDE DEF v
  <2>3. w.data <= latest[own] /\ own \in Parts /\ t = Monograph[own]
    BY <1>2, <1>3, <1>5, <1>11 DEF Stage
  <2>4. Stage(v)'
    BY <1>3, <1>4, <1>5, <2>2, <2>3 DEF Stage, Saving, Stored, Fetched
  <2>5. row'[t].seq \in Nat /\ row'[t].seq <= v.change.seq /\ row'[t].seq # v.change.seq
    BY <1>5, <1>7, <1>11, <2>2
  <2> QED BY <1>1, <1>2, <1>3, <1>4, <1>5, <1>7, <1>9, <1>11, <2>1, <2>2, <2>4, <2>5, MoveInline
<1> QED BY <1>10, <1>11

\* BackToPart, FetchParentFails: the chapter is next, or is given up.
LEMMA PartInline ==
  ASSUME InlineInv, \A y, z \in Workers : y = z, NEW x \in Workers,
         BackToPart(x) \/ FetchParentFails(x)
  PROVE  InOrder' /\ ReadInv' /\ SuccessIsIndexed'
<1>1. PICK w : w = worker[x]
  OBVIOUS
<1>2. PICK own : own = w.change.doc
  OBVIOUS
<1>3. w.at \in {"parent", "parentSaved"} /\ ~Free(x) /\ UNCHANGED <<seq, latest, gone, raw, tasks>>
  BY <1>1, Zenon DEF BackToPart, FetchParentFails, Free, outside
<1>4. /\ w \in WorkerShape /\ own \in Docs /\ Handles(x) /\ Handled(w)
      /\ latest[own] \in Nat /\ w.change.seq \in Nat
      /\ row \in [Docs -> RowShape] /\ raw \in [Docs -> Nat]
      /\ worker \in [Workers -> WorkerShape]
  BY <1>1, <1>2, <1>3, BusyIs, RowsAre
<1>5. /\ Stage(w) /\ ~w.change.deleted /\ w.at \notin Stored /\ own \in Parts
      /\ w.data <= latest[own]
      /\ \A d \in Docs : row[d].seq \in Nat /\ row[d].seq <= w.change.seq
  BY <1>1, <1>2, <1>3, <1>4, RowsAre DEF Handles, Stage, Stored, Handled, Fetched
<1>6. ASSUME w.change \in skipped' PROVE latest[own] <= harvest.since => Settled(own)'
  <2> SUFFICES ASSUME latest[own] <= harvest.since PROVE Settled(own)'
    OBVIOUS
  <2>1. w.change = LastChange(own)
    BY <1>1, <1>2, <1>3, <1>4, OwnIs
  <2>2. LastChange(own)' = LastChange(own)
    BY <1>3 DEF LastChange
  <2> QED BY <1>6, <2>1, <2>2 DEF Settled
<1>7. CASE BackToPart(x) /\ Exists(Monograph[own])
  <2> DEFINE v == [w EXCEPT !.at = "save", !.target = own, !.saving = w.data, !.parentHeld = TRUE]
  <2>1. worker'[x] = v /\ UNCHANGED <<harvest, skipped, row>>
    BY <1>1, <1>2, <1>4, <1>7 DEF BackToPart, Update
  <2>2. /\ v \in WorkerShape /\ v.at = "save" /\ v.change = w.change
        /\ v.target = own /\ v.data = w.data
    BY <1>4 DEF WorkerShape, Steps
  <2> HIDE DEF v
  <2>3. Stage(v)
    BY <1>2, <1>5, <2>2 DEF Stage, Saving, Stored, Fetched
  <2> QED BY <1>1, <1>2, <1>3, <1>5, <2>1, <2>2, <2>3, QuietInline
<1>8. CASE BackToPart(x) /\ ~Exists(Monograph[own])
  <2>1. Return(x) /\ row' = row /\ skipped' = skipped \cup {w.change}
    BY <1>1, <1>2, <1>8 DEF BackToPart
  <2>2. /\ \A d \in Docs : d # own => row'[d] = row[d] /\ raw'[d] = raw[d]
        /\ row'[own].seq \in Nat /\ row'[own].seq <= w.change.seq /\ raw' \in [Docs -> Nat]
        /\ row'[own].harvest = "success" /\ row'[own].index = "success" =>
             raw'[own] = row'[own].data
    BY <1>3, <1>4, <1>5, <2>1 DEF InlineInv, SuccessIsIndexed
  <2>3. latest[own] <= harvest.since => Settled(own)'
    BY <1>6, <2>1
  <2> QED BY <1>1, <1>2, <1>3, <1>4, <1>5, <2>1, <2>2, <2>3, ReturnInline
<1>9. CASE FetchParentFails(x)
  <2>1. PICK m : m = Monograph[own]
    OBVIOUS
  <2>2. /\ Return(x) /\ row' = [row EXCEPT ![m] = Got(m, "failed")] /\ row[m] = NoRow
        /\ skipped' = skipped \cup {w.change}
    BY <1>1, <1>2, <1>9, <2>1 DEF FetchParentFails, ParentOf, Exists
  <2>3. m \in Docs
    BY <1>5, <2>1, DocsAssumption DEF Docs
  <2>4. /\ row'[m].harvest = "failed" /\ row'[m].data = 0 /\ row'[m].seq = row[m].seq
        /\ \A d \in Docs : d # m => row'[d] = row[d] /\ raw'[d] = raw[d]
        /\ raw' \in [Docs -> Nat]
    BY <1>3, <1>4, <2>2, <2>3, RowIs DEF HarvestStatus, NoRow
  <2>5. Settled(m)'
    BY <2>4 DEF Settled, Reflected, Harvested
  <2>6. latest[own] <= harvest.since => Settled(own)'
    BY <1>6, <2>2
  <2>7. row'[m].seq \in Nat /\ row'[m].seq <= w.change.seq
    BY <1>5, <2>3, <2>4
  <2>8. ~(row'[m].harvest = "success" /\ row'[m].index = "success")
    BY <2>4
  <2> QED BY <1>1, <1>2, <1>3, <1>4, <1>5, <2>2, <2>3, <2>4, <2>5, <2>6, <2>7, <2>8, ReturnInline
<1> QED BY <1>7, <1>8, <1>9

\* The fetch of the document fails, or the process is killed, and the harvest with it.
LEMMA EndInline ==
  ASSUME InlineInv, Inline, \A y, z \in Workers : y = z, NEW x \in Workers,
         FetchFails(x) \/ Kill(x)
  PROVE  InOrder' /\ ReadInv' /\ SuccessIsIndexed'
<1>1. PICK own : own = worker[x].change.doc
  OBVIOUS
<1>2. Raise(x) /\ UNCHANGED <<seq, latest, gone, tasks, skipped, raw>>
  BY DEF FetchFails, Kill, outside
<1>3. own \in Docs
  BY <1>1, RowsAre DEF WorkerShape, ChangeShape
<1>4. CASE Kill(x)
  <2>1. row' = row
    BY <1>4 DEF Kill
  <2>2. SuccessIsIndexed'
    BY <1>2, <2>1 DEF InlineInv, SuccessIsIndexed
  <2> QED BY <1>1, <1>2, <1>3, <2>1, <2>2, RaiseInline
<1>5. CASE FetchFails(x)
  <2>1. worker[x].at = "fetch" /\ row' = [row EXCEPT ![own] = Got(own, "failed")]
    BY <1>1, <1>5 DEF FetchFails
  <2>2. /\ row'[own].harvest = "failed" /\ row'[own].seq = row[own].seq
        /\ \A d \in Docs : d # own => row'[d] = row[d]
    BY <1>3, <2>1, RowsAre, RowIs DEF HarvestStatus
  <2>3. ~Free(x) /\ worker[x].at \notin Stored
    BY <2>1 DEF Free, Stored
  <2>4. SuccessIsIndexed'
    BY <1>2, <1>3, <2>2 DEF InlineInv, SuccessIsIndexed
  <2> QED BY <1>1, <1>2, <1>3, <2>2, <2>3, <2>4, RaiseInline
<1> QED BY <1>4, <1>5

LEMMA UnchangedInline ==
  ASSUME InlineInv, UNCHANGED vars
  PROVE  InOrder' /\ ReadInv' /\ SuccessIsIndexed'
<1>1. /\ UNCHANGED <<seq, latest, gone, row, raw, harvest, tasks, worker, skipped>>
  BY DEF vars
<1>2. InOrder'
  BY <1>1 DEF InlineInv, InOrder, Current, LastChange
<1>3. \A d \in Docs : LastChange(d)' = LastChange(d) /\ Settled(d)' = Settled(d)
  BY <1>1 DEF LastChange, Settled, Reflected, Harvested
<1>4. \A x \in Workers : Free(x)' = Free(x) /\ (Handles(x) => Handles(x)')
  <2> SUFFICES ASSUME NEW x \in Workers
               PROVE  Free(x)' = Free(x) /\ (Handles(x) => Handles(x)')
    OBVIOUS
  <2>1. Stage(worker[x]) => Stage(worker[x])'
    BY <1>1 DEF Stage
  <2>2. /\ Current(worker[x].change) => Current(worker[x].change)'
        /\ Ahead(worker[x].target) => Ahead(worker[x].target)'
    BY <1>1 DEF Current, Ahead, LastChange
  <2> QED BY <1>1, <2>1, <2>2 DEF Free, Handles
<1>5. ReadInv'
  BY <1>1, <1>3, <1>4 DEF InlineInv, ReadInv
<1> QED BY <1>1, <1>2, <1>5 DEF InlineInv, SuccessIsIndexed

LEMMA InitInline == Init => InlineInv
<1> SUFFICES ASSUME Init PROVE InlineInv
  OBVIOUS
<1>1. ClaimInv
  BY InitClaim
<1>2. \A d \in Docs : row[d].seq = 0 /\ row[d].harvest = "absent" /\ latest[d] \in Nat
  BY <1>1 DEF Init, NoRow, ClaimInv, Shape
<1>3. InOrder
  BY <1>2, FeedAssumption DEF Init, InOrder
<1>4. ReadInv
  BY <1>2 DEF Init, ReadInv, Free, Idle
<1> QED BY <1>1, <1>2, <1>3, <1>4 DEF InlineInv, SuccessIsIndexed

LEMMA NextInline ==
  ASSUME InlineInv, Inline, [Next]_vars
  PROVE  InlineInv'
<1>1. \A y, z \in Workers : y = z
  BY WorkersAssumption
<1>2. ClaimInv'
  BY NextClaim DEF InlineInv
<1>3. CASE UNCHANGED vars
  BY <1>2, <1>3, UnchangedInline DEF InlineInv
<1>4. ASSUME NEW d \in Docs, Change(d) PROVE InlineInv'
  <2>1. SuccessIsIndexed'
    BY <1>4 DEF InlineInv, SuccessIsIndexed, Change
  <2> QED BY <1>2, <1>4, <2>1, ChangeInline DEF InlineInv
<1>5. CASE Start \/ FetchPage \/ FetchPageFails
  <2>1. SuccessIsIndexed'
    BY <1>5 DEF InlineInv, SuccessIsIndexed, Start, FetchPage, FetchPageFails
  <2> QED BY <1>2, <1>5, <2>1, HarvestInline DEF InlineInv
<1>6. CASE SendTask \/ RetryFailed
  BY <1>2, <1>6, UnchangedInline DEF SendTask, RetryFailed, InlineInv
<1>7. ASSUME NEW x \in Workers, Step(x) \/ Outage(x) \/ Kill(x) PROVE InlineInv'
  <2>1. CASE Handle(x)
    <3>1. SuccessIsIndexed'
      BY <2>1 DEF InlineInv, SuccessIsIndexed, Handle
    <3> QED BY <1>1, <1>2, <2>1, <3>1, HandleInline DEF InlineInv
  <2>2. ~TakeTask(x)
    BY DEF TakeTask
  <2>3. ~RowIsGone(x)
    <3> SUFFICES ASSUME RowIsGone(x) PROVE FALSE
      OBVIOUS
    <3>1. worker[x].at \in Saving /\ ~worker[x].held
      BY DEF RowIsGone, Saving
    <3> QED BY <3>1, TargetIs
  <2>4. CASE DeleteRow(x) \/ DeleteRaw(x) \/ DeleteUnknown(x)
    BY <1>1, <1>2, <2>4, DeleteInline DEF InlineInv
  <2>5. CASE FetchDoc(x) \/ FindParent(x) \/ FetchParent(x)
    BY <1>1, <1>2, <2>5, FetchInline DEF InlineInv
  <2>6. CASE GetRow(x) \/ SaveData(x) \/ IndexRaw(x) \/ IndexRawFails(x) \/ MarkIndexed(x)
    BY <1>1, <1>2, <2>6, SaveOnInline DEF InlineInv
  <2>7. CASE MarkSuccess(x) \/ SaveDataFails(x)
    BY <1>1, <1>2, <2>7, SavedInline DEF InlineInv
  <2>8. CASE BackToPart(x) \/ FetchParentFails(x)
    BY <1>1, <1>2, <2>8, PartInline DEF InlineInv
  <2>9. CASE FetchFails(x) \/ Kill(x)
    BY <1>1, <1>2, <2>9, EndInline DEF InlineInv
  <2> QED BY <1>7, <2>1, <2>2, <2>3, <2>4, <2>5, <2>6, <2>7, <2>8, <2>9 DEF Step, Outage
<1> QED BY <1>3, <1>4, <1>5, <1>6, <1>7 DEF Next

LEMMA InlineInvHolds == ASSUME Inline PROVE Spec => []InlineInv
<1>1. Init => InlineInv
  BY InitInline
<1>2. InlineInv /\ [Next]_vars => InlineInv'
  BY NextInline
<1> QED BY <1>1, <1>2, PTL DEF Spec

\* The harvest that handles the changes itself silently loses none, whatever
\* fails or is killed, however many documents change while it reads: once the
\* cursor has passed the last change of a document, its row shows the change, or
\* says that it failed, or a chapter was given up for want of its monograph.
THEOREM HarvestLosesNothing == ASSUME Inline PROVE Spec => []NothingSilentlyLost
<1>1. InlineInv => NothingSilentlyLost
  <2> SUFFICES ASSUME InlineInv, NEW d \in Docs, Passed(d)
               PROVE  Reflected(d) \/ LastChange(d) \in skipped
    BY DEF NothingSilentlyLost
  <2>1. /\ 0 < latest[d] /\ latest[d] <= Cursor /\ LastChange(d) \notin harvest.page
        /\ \A x \in Workers : Free(x) \/ worker[x].change.doc # d
    BY DEF Passed
  <2>2. PICK e \in Docs : latest[d] <= row[e].seq
    BY <2>1, CursorIs, RowsAre
  <2>3. CASE harvest.at = "idle"
    BY <2>1, <2>2, <2>3 DEF InlineInv, ReadInv, Settled
  <2>4. CASE harvest.at # "idle"
    <3>1. row[e].seq <= harvest.since
      BY <2>4 DEF InlineInv, ReadInv
    <3>2. latest[d] <= harvest.since
      BY <2>2, <3>1, RowsAre
    <3> QED BY <2>1, <2>4, <3>2 DEF InlineInv, ReadInv, Settled
  <2> QED BY <2>3, <2>4
<1> QED BY <1>1, InlineInvHolds, PTL

\* That harvest never leaves a row which says it was harvested and indexed while
\* the raw index has another version of the document, or none.
THEOREM SuccessOfBooksIsIndexed == ASSUME Inline PROVE Spec => []SuccessIsIndexed
<1>1. InlineInv => SuccessIsIndexed
  BY DEF InlineInv
<1> QED BY <1>1, InlineInvHolds, PTL
=============================================================================

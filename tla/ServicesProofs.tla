--------------------------- MODULE ServicesProofs ---------------------------
(***************************************************************************)
(* Theorems about the services beside the path of a call: the archive job, *)
(* the image templates, the pager, the catalogs, the events and the rows   *)
(* of usage with the reports over them.                                    *)
(*                                                                         *)
(* What each invariant lacks to be inductive: of the archive, what each run *)
(* holds (a page is whole between the cursor it was read from and its last *)
(* row, but for rows that have left since or came late, and a cursor, of   *)
(* the store or of a run, is a row that was read, so that what appears     *)
(* below it later is known late); of the templates, that the configuration *)
(* that is saved names only pictures that are there as well, and each only *)
(* its own, since a boot puts it in force; of the pager, what a page under *)
(* way says against what the state file had said before; of the catalogs,  *)
(* how far a sweep has read each login, in whole pages; of the events, what *)
(* each message's books add up to and how old what was heard is; of the    *)
(* rows, what the answer being read has stated so far.                     *)
(* Books and reports are sums over finite sets: the lemmas on sums below   *)
(* go by the least number of members, not by induction over data.          *)
(***************************************************************************)
EXTENDS Archive, ImageTemplates, Catalog, Monitoring, Ledger, FiniteSetTheorems, WellFoundedInduction, TLAPS

(* Numbers. *)

\* Less-than as a relation.
Below == {ss \in Nat \X Nat : ss[1] < ss[2]}

\* A set of natural numbers has a least one.
LEMMA LeastNumber ==
    ASSUME NEW S \in SUBSET Nat, S # {}
    PROVE  \E n \in S : \A m \in S : n <= m
<1>1. IsWellFoundedOn(Below, Nat)
  BY NatLessThanWellFounded DEF OpToRel, Below
<1>2. PICK n \in S : \A m \in S : ~(<<m, n>> \in Below)
  BY <1>1, WFMin
<1>3. ASSUME NEW m \in S PROVE n <= m
  <2>1. m \in Nat /\ n \in Nat /\ ~(<<m, n>> \in Below)
    BY <1>2
  <2> QED
    BY <2>1 DEF Below
<1> QED
  BY <1>3

\* ... which Min finds.
LEMMA MinIsLeast ==
    ASSUME NEW S \in SUBSET Nat, S # {}
    PROVE  Min(S) \in S /\ \A m \in S : Min(S) <= m
<1>1. PICK n \in S : \A m \in S : n <= m
  BY LeastNumber
<1> QED
  BY <1>1 DEF Min

\* A finite set of them has a greatest one, which Max finds.
LEMMA MaxIsGreatest ==
    ASSUME NEW S \in SUBSET Nat, IsFiniteSet(S), S # {}
    PROVE  Max(S) \in S /\ \A m \in S : m <= Max(S)
<1> DEFINE HasMax(T) == \E x \in T : \A y \in T : y <= x
           Without == {T \in SUBSET S : T # {} /\ ~HasMax(T)}
<1>1. HasMax(S)
  <2> SUFFICES ASSUME ~HasMax(S) PROVE FALSE
    OBVIOUS
  <2>1. PICK T \in Without : \A U \in Without : ~(<<U, T>> \in StrictSubsetOrdering(S))
    <3>0. S \in Without
      OBVIOUS
    <3>1. Without \subseteq SUBSET S /\ Without # {}
      BY <3>0
    <3>2. IsWellFoundedOn(StrictSubsetOrdering(S), SUBSET S)
      BY FS_StrictSubsetOrderingWellFounded, FS_FiniteSubsetsOfFinite
    <3> HIDE DEF Without
    <3> QED
      BY <3>1, <3>2, WFMin
  <2>2. PICK x \in T : TRUE
    BY <2>1
  <2>3. T \ {x} \notin Without
    BY <2>1, <2>2 DEF StrictSubsetOrdering
  <2>4. CASE T \ {x} = {}
    BY <2>1, <2>2, <2>4
  <2>5. CASE T \ {x} # {}
    <3>1. PICK z \in T \ {x} : \A y \in T \ {x} : y <= z
      BY <2>1, <2>3, <2>5
    <3>2. x \in Nat /\ z \in Nat /\ T \subseteq Nat
      BY <2>1, <2>2, <3>1
    <3>3. CASE x <= z
      BY <2>1, <3>1, <3>3
    <3>4. CASE ~(x <= z)
      <4>1. \A y \in T : y <= x
        BY <3>1, <3>2, <3>4
      <4> QED
        BY <2>1, <2>2, <4>1
    <3> QED
      BY <3>3, <3>4
  <2> QED
    BY <2>4, <2>5
<1>2. PICK x \in S : \A y \in S : y <= x
  BY <1>1
<1>3. \E z \in S : \A y \in S : z >= y
  BY <1>2
<1> QED
  BY <1>3 DEF Max

(* The inductive invariant. *)

\* A row that was seen stays or is gone.
Visible(i) == row[i] \in {"there", "gone"}

\* Rows that count: in the log, and not late.
OnTime == There \ late

\* A cursor is a row that was read.
Seen(c) == c \in RowIds \cup {0} /\ c <= readTo /\ (c # 0 => Visible(c))

\* All up to a cursor was archived at some time.
Covers(c) == \A i \in OnTime : i <= c => i \in ever

\* What holds of a run.
RunSound(x) ==
    /\ x = [pc |-> x.pc, cursor |-> x.cursor, page |-> x.page, todo |-> x.todo]
    /\ x.pc \in {"idle", "paging", "putting"} /\ x.page \subseteq RowIds
    /\ x.pc # "idle" => Seen(x.cursor) /\ Covers(x.cursor)
    /\ x.pc = "putting" =>
         /\ x.page # {} /\ \A i \in x.page : Visible(i) /\ x.cursor < i /\ i <= readTo
         /\ \A i \in OnTime : \A j \in x.page : x.cursor < i /\ i <= j => i \in x.page
         /\ \A i \in x.page : log.part[i] \in x.todo \/ i \in ever
         /\ x.todo \subseteq Parts(x.page)

\* What holds of an object.
ObjectSound(o) ==
    /\ o.ids # {} /\ o.ids \subseteq ever
    /\ \A i \in o.ids : log.part[i] = o.part /\ o.from <= i /\ i <= o.to

\* The inductive invariant: cursors cover what was archived, runs hold whole pages, objects are true.
ArchiveInductive ==
    /\ book \in DOMAIN Logs
    /\ row \in [RowIds -> {"unused", "flying", "there", "lost", "gone"}]
    /\ readTo \in RowIds \cup {0}
    /\ late \subseteq RowIds /\ ever \subseteq {i \in RowIds : Visible(i)}
    /\ run = [r \in Runs |-> run[r]]
    /\ \A o \in bucket : ObjectSound(o)
    /\ Seen(lastId) /\ Covers(lastId)
    /\ KeptWhileLogged
    /\ \A r \in Runs : RunSound(run[r])

\* Ids are numbers from 1 on.
LEMMA Numbers == RowIds \subseteq Nat \ {0} /\ (RowIds \cup {0}) \subseteq Nat
BY ArchiveAssumption

\* The invariant of the run follows.
LEMMA InductiveSound == ArchiveInductive => ArchiveInv
<1> SUFFICES ASSUME ArchiveInductive PROVE ArchiveInv
  OBVIOUS
<1>1. ArchiveTypeOK
  BY DEF ArchiveInductive, ArchiveTypeOK, ObjectSound, Seen, RunSound
<1>2. CursorCovers
  BY DEF ArchiveInductive, CursorCovers, Covers, OnTime, KeptWhileLogged, There
<1> QED
  BY <1>1, <1>2 DEF ArchiveInv, ArchiveInductive

(* What every step does. *)

\* Rows that were seen stay seen, those that come below what was read are late, and nothing
\* is unread or forgotten.
Grows ==
    /\ book' = book
    /\ \A i \in RowIds : Visible(i) => Visible(i)'
    /\ \A i \in OnTime' : i \in OnTime \/ (i >= readTo /\ ~Visible(i))
    /\ readTo <= readTo'
    /\ ever \subseteq ever'

\* A cursor stays good through every step.
LEMMA CursorGrows ==
    ASSUME readTo \in RowIds \cup {0}, readTo' \in RowIds \cup {0}, Grows, NEW c, Seen(c), Covers(c)
    PROVE  Seen(c)' /\ Covers(c)'
<1>1. Seen(c)'
  BY Numbers DEF Seen, Grows
<1>2. ASSUME NEW i \in OnTime', i <= c PROVE i \in ever'
  <2>1. i \in RowIds
    BY DEF OnTime, There
  <2>2. CASE i \in OnTime
    BY <1>2, <2>2 DEF Covers, Grows
  <2>3. CASE i \notin OnTime
    <3>1. i >= readTo /\ ~Visible(i)
      BY <2>3 DEF Grows
    <3>2. i = c /\ c # 0
      BY <1>2, <2>1, <3>1, Numbers DEF Seen
    <3> QED
      BY <3>1, <3>2 DEF Seen
  <2> QED
    BY <2>2, <2>3
<1> QED
  BY <1>1, <1>2 DEF Covers

\* So does a run that does not take the step itself.
LEMMA RunGrows ==
    ASSUME readTo \in RowIds \cup {0}, readTo' \in RowIds \cup {0}, Grows, NEW x, RunSound(x)
    PROVE  RunSound(x)'
<1>1. x.pc # "idle" => Seen(x.cursor)' /\ Covers(x.cursor)'
  BY CursorGrows DEF RunSound
<1>2. ASSUME x.pc = "putting"
      PROVE  /\ x.page # {} /\ \A i \in x.page : Visible(i)' /\ x.cursor < i /\ i <= readTo'
             /\ \A i \in OnTime' : \A j \in x.page : x.cursor < i /\ i <= j => i \in x.page
             /\ \A i \in x.page : log'.part[i] \in x.todo \/ i \in ever'
             /\ x.todo \subseteq Parts(x.page)'
  <2>1. ASSUME NEW i \in x.page PROVE Visible(i)' /\ x.cursor < i /\ i <= readTo'
    <3>1. Visible(i) /\ i \in RowIds /\ x.cursor < i /\ i <= readTo
      BY <1>2 DEF RunSound
    <3>2. Visible(i)'
      BY <3>1 DEF Grows
    <3>3. i <= readTo'
      <4>1. readTo <= readTo'
        BY DEF Grows
      <4> QED
        BY <3>1, <4>1, Numbers
    <3> QED
      BY <3>1, <3>2, <3>3
  <2>2. ASSUME NEW i \in OnTime', NEW j \in x.page, x.cursor < i, i <= j PROVE i \in x.page
    <3>1. i \in RowIds /\ j \in RowIds /\ Visible(j) /\ j <= readTo
      BY <1>2 DEF RunSound, OnTime, There
    <3>2. CASE i \in OnTime
      BY <1>2, <2>2, <3>2 DEF RunSound
    <3>3. CASE i \notin OnTime
      <4>1. i >= readTo /\ ~Visible(i)
        BY <3>3 DEF Grows
      <4> QED
        BY <2>2, <3>1, <4>1, Numbers
    <3> QED
      BY <3>2, <3>3
  <2>3. log' = log
    BY DEF Grows, log
  <2> QED
    BY <1>2, <2>1, <2>2, <2>3 DEF RunSound, Grows, Parts
<1> QED
  BY <1>1, <1>2 DEF RunSound

(* Steps of the log. *)

\* A step of the log leaves the runs, the objects and the cursor alone.
LEMMA LogStep ==
    ASSUME ArchiveInductive, Grows, UNCHANGED <<bucket, lastId, run, readTo, ever>>, late \subseteq late', late' \subseteq RowIds,
           row' \in [RowIds -> {"unused", "flying", "there", "lost", "gone"}],
           \A i \in RowIds : row[i] = "gone" => row'[i] = "gone"
    PROVE  ArchiveInductive'
<1>1. readTo \in RowIds \cup {0} /\ readTo' \in RowIds \cup {0} /\ log' = log
  BY DEF ArchiveInductive, Grows, log
<1>2. \A r \in Runs : RunSound(run[r])'
  BY <1>1, RunGrows DEF ArchiveInductive
<1>3. Seen(lastId)' /\ Covers(lastId)'
  BY <1>1, CursorGrows DEF ArchiveInductive
<1>4. KeptWhileLogged'
  BY DEF ArchiveInductive, KeptWhileLogged, Archived
<1>5. \A o \in bucket' : ObjectSound(o)'
  BY <1>1 DEF ArchiveInductive, ObjectSound
<1>6. ever' \subseteq {i \in RowIds : Visible(i)}'
  BY DEF ArchiveInductive, Grows
<1> QED
  BY <1>1, <1>2, <1>3, <1>4, <1>5, <1>6 DEF ArchiveInductive, Grows

\* An insert that starts or fails keeps the invariant.
LEMMA InsertStep ==
    ASSUME ArchiveInductive, NEW i \in RowIds, Insert(i) \/ RowLost(i)
    PROVE  ArchiveInductive'
<1>1. /\ UNCHANGED <<book, bucket, lastId, run, readTo, late, ever>> /\ row[i] \in {"unused", "flying"}
      /\ \E v \in {"flying", "lost"} : row' = [row EXCEPT ![i] = v]
  BY DEF Insert, RowLost
<1>2. row \in [RowIds -> {"unused", "flying", "there", "lost", "gone"}]
  BY DEF ArchiveInductive
<1>3. Grows
  BY <1>1, <1>2, Numbers DEF Grows, Visible, OnTime, There, ArchiveInductive
<1> QED
  BY <1>1, <1>2, <1>3, LogStep DEF ArchiveInductive

\* A row that commits keeps it: below what was read it is late.
LEMMA CommitsStep ==
    ASSUME ArchiveInductive, NEW i \in RowIds, RowCommits(i)
    PROVE  ArchiveInductive'
<1>1. /\ UNCHANGED <<book, bucket, lastId, run, readTo, ever>> /\ row[i] = "flying"
      /\ row' = [row EXCEPT ![i] = "there"] /\ late' = IF i < readTo THEN late \cup {i} ELSE late
  BY DEF RowCommits
<1>2. row \in [RowIds -> {"unused", "flying", "there", "lost", "gone"}] /\ readTo \in RowIds \cup {0}
  BY DEF ArchiveInductive
<1>3. Grows
  <2>1. \A j \in OnTime' : j \in OnTime \/ (j >= readTo /\ ~Visible(j))
    BY <1>1, <1>2, Numbers DEF Visible, OnTime, There
  <2> QED
    BY <1>1, <1>2, <2>1, Numbers DEF Grows, Visible
<1> QED
  BY <1>1, <1>2, <1>3, LogStep DEF ArchiveInductive

\* Rows that leave the log keep it.
LEMMA LeaveStep ==
    ASSUME ArchiveInductive, PruneLog \/ ClearLog
    PROVE  ArchiveInductive'
<1>1. UNCHANGED <<book, bucket, lastId, run, readTo, late, ever>>
  BY DEF PruneLog, ClearLog
<1>2. row \in [RowIds -> {"unused", "flying", "there", "lost", "gone"}]
  BY DEF ArchiveInductive
<1>3. PICK S \in SUBSET There : row' = [i \in RowIds |-> IF i \in S THEN "gone" ELSE row[i]]
  <2>1. CASE PruneLog
    BY <2>1 DEF PruneLog, Prunable
  <2>2. CASE ClearLog
    <3>1. row' = [i \in RowIds |-> IF i \in There THEN "gone" ELSE row[i]]
      BY <2>2 DEF ClearLog, There
    <3> QED
      BY <3>1
  <2> QED
    BY <2>1, <2>2
<1>4. Grows
  BY <1>1, <1>2, <1>3, Numbers DEF Grows, Visible, OnTime, There, ArchiveInductive
<1> QED
  BY <1>1, <1>2, <1>3, <1>4, LogStep DEF ArchiveInductive

(* Steps of a run. *)

\* A step of run r that leaves the log and the objects alone.
LEMMA RunStep ==
    ASSUME ArchiveInductive, NEW r \in Runs, NEW y, run' = [run EXCEPT ![r] = y], RunSound(y)',
           UNCHANGED <<book, row, bucket, late, ever>>, readTo' \in RowIds \cup {0}, readTo <= readTo',
           Seen(lastId)', Covers(lastId)'
    PROVE  ArchiveInductive'
<1>1. readTo \in RowIds \cup {0} /\ log' = log
  BY DEF ArchiveInductive, log
<1>2. Grows
  BY DEF Grows, Visible, OnTime, There
<1>3. run' = [q \in Runs |-> run'[q]] /\ run'[r] = y /\ \A q \in Runs \ {r} : run'[q] = run[q]
  BY DEF ArchiveInductive
<1>4. ASSUME NEW q \in Runs PROVE RunSound(run[q])'
  <2>1. CASE q = r
    BY <1>3, <2>1
  <2>2. CASE q # r
    <3>1. PICK x : x = run[q]
      OBVIOUS
    <3>2. RunSound(x)'
      BY <1>1, <1>2, <3>1, RunGrows DEF ArchiveInductive
    <3> QED
      BY <1>3, <2>2, <3>1, <3>2
  <2> QED
    BY <2>1, <2>2
<1>5. KeptWhileLogged' /\ \A o \in bucket' : ObjectSound(o)'
  BY <1>1 DEF ArchiveInductive, KeptWhileLogged, Archived, ObjectSound
<1>6. ever' \subseteq {i \in RowIds : Visible(i)}'
  BY DEF ArchiveInductive, Visible
<1> QED
  BY <1>3, <1>4, <1>5, <1>6 DEF ArchiveInductive

\* A run that starts at a cursor.
StartedAt(c) == [Idle EXCEPT !.pc = "paging", !.cursor = c]

\* ... and that has read a page.
WithPage(x, batch) == [x EXCEPT !.pc = "putting", !.page = batch, !.todo = Parts(batch)]

\* A run at rest is sound.
LEMMA IdleSound == RunSound(Idle)
BY DEF Idle, RunSound

\* The fields of a run that starts.
LEMMA Started ==
    ASSUME NEW c
    PROVE  StartedAt(c) = [pc |-> "paging", cursor |-> c, page |-> {}, todo |-> {}]
<1> DEFINE u == [Idle EXCEPT !.pc = "paging"]
<1>1. StartedAt(c) = [u EXCEPT !.cursor = c]
  BY DEF StartedAt
<1>2. u = [pc |-> "paging", cursor |-> 0, page |-> {}, todo |-> {}]
  BY DEF Idle
<1> HIDE DEF u
<1> QED
  BY <1>1, <1>2

\* The fields of a run that holds a page.
LEMMA Held ==
    ASSUME NEW x, RunSound(x), NEW batch
    PROVE  WithPage(x, batch) = [pc |-> "putting", cursor |-> x.cursor, page |-> batch, todo |-> Parts(batch)]
<1> DEFINE z == [pc |-> x.pc, cursor |-> x.cursor, page |-> x.page, todo |-> x.todo]
           u == [z EXCEPT !.pc = "putting"]
           v == [u EXCEPT !.page = batch]
<1>1. x = z
  BY DEF RunSound
<1>2. WithPage(x, batch) = [v EXCEPT !.todo = Parts(batch)]
  BY <1>1 DEF WithPage
<1>3. u = [pc |-> "putting", cursor |-> x.cursor, page |-> x.page, todo |-> x.todo]
  OBVIOUS
<1> HIDE DEF u
<1>4. v = [pc |-> "putting", cursor |-> x.cursor, page |-> batch, todo |-> x.todo]
  BY <1>3
<1> HIDE DEF v
<1> QED
  BY <1>2, <1>4

\* A start keeps it, from the cursor or from 0.
LEMMA StartStep ==
    ASSUME ArchiveInductive, NEW r \in Runs, NEW c \in {0, lastId}, StartAt(r, c)
    PROVE  ArchiveInductive'
<1>1. run' = [run EXCEPT ![r] = StartedAt(c)] /\ UNCHANGED <<book, row, bucket, lastId, readTo, late, ever>>
  BY DEF StartAt, StartedAt
<1>2. readTo \in RowIds \cup {0} /\ readTo <= readTo
  BY Numbers DEF ArchiveInductive
<1>3. Seen(lastId)' /\ Covers(lastId)'
  BY <1>1 DEF ArchiveInductive, Seen, Visible, Covers, OnTime, There
<1>4. Seen(c) /\ Covers(c)
  <2>1. Seen(0) /\ Covers(0)
    BY <1>2, Numbers DEF Seen, Covers, OnTime, There
  <2> QED
    BY <2>1 DEF ArchiveInductive
<1>5. PICK y : y = StartedAt(c)
  OBVIOUS
<1>6. y = [pc |-> "paging", cursor |-> c, page |-> {}, todo |-> {}]
  BY <1>5, Started
<1>7. Seen(c)' /\ Covers(c)'
  BY <1>1, <1>4 DEF Seen, Visible, Covers, OnTime, There
<1>8. RunSound(y)'
  BY <1>6, <1>7 DEF RunSound
<1> QED
  BY <1>1, <1>2, <1>3, <1>5, <1>8, RunStep

\* So does a run that dies.
LEMMA StopStep ==
    ASSUME ArchiveInductive, NEW r \in Runs, Stop(r)
    PROVE  ArchiveInductive'
<1>1. run' = [run EXCEPT ![r] = Idle] /\ UNCHANGED <<book, row, bucket, lastId, readTo, late, ever>>
  BY DEF Stop
<1>2. readTo \in RowIds \cup {0} /\ readTo <= readTo
  BY Numbers DEF ArchiveInductive
<1>3. Seen(lastId)' /\ Covers(lastId)'
  BY <1>1 DEF ArchiveInductive, Seen, Visible, Covers, OnTime, There
<1>4. RunSound(Idle)'
  BY IdleSound DEF Idle, RunSound
<1> QED
  BY <1>1, <1>2, <1>3, <1>4, RunStep

(* A page. *)

\* A page holds all that was there between the cursor and any of its rows.
LEMMA PageIsWhole ==
    ASSUME book \in DOMAIN Logs, NEW c \in Nat
    PROVE  /\ PageAfter(c) \subseteq There /\ \A i \in PageAfter(c) : c < i
           /\ \A i \in There : \A j \in PageAfter(c) : c < i /\ i <= j => i \in PageAfter(c)
<1> DEFINE above == {i \in There : i > c}
           upTo(i) == {j \in above : j < i}
<1>1. PageAfter(c) = {i \in above : Cardinality(upTo(i)) < log.pageSize}
  BY DEF PageAfter
<1>2. There \subseteq RowIds /\ above \subseteq RowIds
  BY DEF There
<1>3. \A i \in above : i \in Nat /\ c < i
  BY <1>2, Numbers
<1>4. ASSUME NEW i \in There, NEW j \in PageAfter(c), c < i, i <= j
      PROVE  i \in PageAfter(c)
  <2>1. i \in above /\ j \in above /\ i \in Nat /\ j \in Nat
    BY <1>1, <1>2, <1>4, Numbers
  <2>2. upTo(i) \subseteq upTo(j)
    <3>1. \A k \in above : k < i => k < j
      BY <1>3, <1>4, <2>1
    <3> HIDE DEF above
    <3> QED
      BY <3>1
  <2>3. IsFiniteSet(upTo(j))
    <3>1. upTo(j) \subseteq RowIds
      BY <1>2
    <3> QED
      BY <3>1, FS_Subset, ArchiveAssumption
  <2> HIDE DEF upTo, above
  <2>4. Cardinality(upTo(i)) <= Cardinality(upTo(j)) /\ IsFiniteSet(upTo(i))
    BY <2>2, <2>3, FS_Subset
  <2>5. Cardinality(upTo(i)) \in Nat /\ Cardinality(upTo(j)) \in Nat
    BY <2>3, <2>4, FS_CardinalityType
  <2>6. log.pageSize \in Int
    BY ArchiveAssumption DEF log
  <2> QED
    BY <1>1, <2>1, <2>4, <2>5, <2>6
<1> QED
  BY <1>1, <1>3, <1>4

\* A page that is read keeps it.
LEMMA ReadStep ==
    ASSUME ArchiveInductive, NEW r \in Runs, ReadPage(r)
    PROVE  ArchiveInductive'
<1> DEFINE x == run[r]
           batch == PageAfter(x.cursor)
           top == Max({readTo} \cup batch)
<1>1. /\ x.pc = "paging" /\ UNCHANGED <<book, row, bucket, lastId, late, ever>> /\ readTo' = top
      /\ run' = [run EXCEPT ![r] = IF batch = {} THEN Idle ELSE WithPage(x, batch)]
  BY DEF ReadPage, WithPage
<1>2. /\ book \in DOMAIN Logs /\ readTo \in RowIds \cup {0} /\ RunSound(x)
      /\ row \in [RowIds -> {"unused", "flying", "there", "lost", "gone"}]
  BY DEF ArchiveInductive
<1>3. Seen(x.cursor) /\ Covers(x.cursor) /\ x.cursor \in Nat
  BY <1>1, <1>2, Numbers DEF RunSound, Seen
<1>4. /\ batch \subseteq There /\ \A i \in batch : x.cursor < i
      /\ \A i \in There : \A j \in batch : x.cursor < i /\ i <= j => i \in batch
  BY <1>2, <1>3, PageIsWhole
<1>5. There \subseteq RowIds
  BY DEF There
<1> HIDE DEF batch
<1>6. top \in {readTo} \cup batch /\ \A m \in {readTo} \cup batch : m <= top
  <2>1. IsFiniteSet(batch)
    BY <1>4, <1>5, FS_Subset, ArchiveAssumption
  <2>2. IsFiniteSet({readTo} \cup batch)
    BY <2>1, FS_AddElement
  <2>3. ({readTo} \cup batch) \in SUBSET Nat
    BY <1>2, <1>4, <1>5, Numbers
  <2> QED
    BY <2>2, <2>3, MaxIsGreatest
<1> HIDE DEF top
<1>7. readTo' \in RowIds \cup {0} /\ readTo <= readTo'
  BY <1>1, <1>2, <1>4, <1>5, <1>6
<1>8. Grows
  BY <1>1, <1>7 DEF Grows, Visible, OnTime, There
<1>9. Seen(lastId)' /\ Covers(lastId)'
  BY <1>1, <1>2, <1>7, <1>8, CursorGrows DEF ArchiveInductive
<1>10. PICK y : y = IF batch = {} THEN Idle ELSE WithPage(x, batch)
  OBVIOUS
<1>11. PICK c, S : c = x.cursor /\ S = batch
  OBVIOUS
<1>12. Seen(c)' /\ Covers(c)'
  <2>1. Seen(c) /\ Covers(c)
    BY <1>3, <1>11
  <2> QED
    BY <1>2, <1>7, <1>8, <2>1, CursorGrows
<1>13. S \subseteq RowIds /\ (\A i \in S : Visible(i)' /\ c < i /\ i <= readTo')
  BY <1>1, <1>4, <1>5, <1>6, <1>11 DEF Visible, There
<1>14. \A i \in OnTime' : \A j \in S : c < i /\ i <= j => i \in S
  BY <1>1, <1>4, <1>11 DEF OnTime, There
<1>15. Parts(S)' = Parts(S)
  BY <1>1 DEF Parts, log
<1>16. y = IF S = {} THEN Idle ELSE [pc |-> "putting", cursor |-> c, page |-> S, todo |-> Parts(S)]
  BY <1>2, <1>10, <1>11, Held
<1>17. RunSound(y)'
  <2>1. CASE S = {}
    BY <1>16, <2>1 DEF Idle, RunSound
  <2>2. CASE S # {}
    <3>1. PICK todo : todo = Parts(S)
      OBVIOUS
    <3>2. y = [pc |-> "putting", cursor |-> c, page |-> S, todo |-> todo]
      BY <1>16, <2>2, <3>1
    <3>3. \A i \in S : log'.part[i] \in todo
      BY <1>1, <3>1 DEF Parts, log
    <3>4. todo \subseteq Parts(S)'
      BY <1>15, <3>1
    <3> QED
      BY <1>12, <1>13, <1>14, <2>2, <3>2, <3>3, <3>4 DEF RunSound
  <2> QED
    BY <2>1, <2>2
<1> QED
  BY <1>1, <1>7, <1>9, <1>10, <1>17, RunStep

(* The cursor. *)

\* A run whose page is stored covers it, and may go on behind it.
LEMMA BatchDone ==
    ASSUME ArchiveInductive, NEW r \in Runs, run[r].pc = "putting", run[r].todo = {}
    PROVE  LET c == Max(run[r].page) IN
           /\ Seen(c) /\ Covers(c)
           /\ \A y \in AfterBatch(r) : RunSound(y)
<1> DEFINE x == run[r]
           c == Max(x.page)
<1>1. RunSound(x) /\ readTo \in RowIds \cup {0}
  BY DEF ArchiveInductive
<1>2. /\ x.page \subseteq RowIds /\ x.page # {} /\ Covers(x.cursor) /\ x.cursor \in Nat
      /\ \A i \in x.page : Visible(i) /\ x.cursor < i /\ i <= readTo
      /\ \A i \in OnTime : \A j \in x.page : x.cursor < i /\ i <= j => i \in x.page
      /\ x.page \subseteq ever
  BY <1>1, Numbers DEF RunSound, Seen
<1>3. c \in x.page /\ \A i \in x.page : i <= c
  <2>1. IsFiniteSet(x.page) /\ x.page \in SUBSET Nat
    BY <1>2, FS_Subset, Numbers, ArchiveAssumption
  <2> QED
    BY <1>2, <2>1, MaxIsGreatest
<1> HIDE DEF c
<1>4. Seen(c)
  BY <1>2, <1>3 DEF Seen
<1>5. Covers(c)
  <2> SUFFICES ASSUME NEW i \in OnTime, i <= c PROVE i \in ever
    BY DEF Covers
  <2>1. i \in Nat
    BY Numbers DEF OnTime, There
  <2>2. CASE i <= x.cursor
    BY <1>2, <2>2 DEF Covers
  <2>3. CASE ~(i <= x.cursor)
    BY <1>2, <1>3, <2>1, <2>3
  <2> QED
    BY <2>2, <2>3
<1>6. \A y \in AfterBatch(r) : y = Idle \/ y = StartedAt(c)
  BY DEF AfterBatch, StartedAt, c
<1>7. RunSound(StartedAt(c))
  <2>1. PICK y : y = StartedAt(c)
    OBVIOUS
  <2>2. y = [pc |-> "paging", cursor |-> c, page |-> {}, todo |-> {}]
    BY <2>1, Started
  <2>3. RunSound(y)
    BY <1>4, <1>5, <2>2 DEF RunSound
  <2> QED
    BY <2>1, <2>3
<1> QED
  BY <1>4, <1>5, <1>6, <1>7, IdleSound DEF c

\* A cursor that is written, or dropped by the store, keeps it, also where it moves back.
LEMMA CommitStep ==
    ASSUME ArchiveInductive, NEW r \in Runs, CommitCursor(r) \/ CommitDropped(r)
    PROVE  ArchiveInductive'
<1>1. /\ run[r].pc = "putting" /\ run[r].todo = {} /\ UNCHANGED <<book, row, bucket, readTo, late, ever>>
      /\ lastId' \in {lastId, Max(run[r].page)}
  BY DEF CommitCursor, CommitDropped
<1>2. PICK y \in AfterBatch(r) : run' = [run EXCEPT ![r] = y]
  BY DEF CommitCursor, CommitDropped
<1>3. RunSound(y) /\ Seen(Max(run[r].page)) /\ Covers(Max(run[r].page))
  BY <1>1, BatchDone
<1>4. readTo \in RowIds \cup {0} /\ readTo' \in RowIds \cup {0} /\ readTo <= readTo' /\ readTo <= readTo
  BY <1>1, Numbers DEF ArchiveInductive
<1>5. Grows
  BY <1>1, <1>4 DEF Grows, Visible, OnTime, There
<1>6. RunSound(y)'
  BY <1>3, <1>4, <1>5, RunGrows
<1>7. Seen(lastId)' /\ Covers(lastId)'
  <2>1. PICK c : c = lastId'
    OBVIOUS
  <2>2. Seen(c) /\ Covers(c)
    BY <1>1, <1>3, <2>1 DEF ArchiveInductive
  <2>3. Seen(c)' /\ Covers(c)'
    BY <1>4, <1>5, <2>2, CursorGrows
  <2> QED
    BY <2>1, <2>3 DEF Seen, Covers
<1> QED
  BY <1>1, <1>2, <1>4, <1>6, <1>7, RunStep

(* An object. *)

\* A run with one part less to write.
Wrote(x, p) == [x EXCEPT !.todo = x.todo \ {p}]

\* Its fields.
LEMMA WroteFields ==
    ASSUME NEW x, RunSound(x), NEW p
    PROVE  Wrote(x, p) = [pc |-> x.pc, cursor |-> x.cursor, page |-> x.page, todo |-> x.todo \ {p}]
<1> DEFINE z == [pc |-> x.pc, cursor |-> x.cursor, page |-> x.page, todo |-> x.todo]
<1>1. x = z
  BY DEF RunSound
<1>2. Wrote(x, p) = [z EXCEPT !.todo = x.todo \ {p}]
  BY <1>1 DEF Wrote
<1> QED
  BY <1>2

\* The object of a part of a page that a run holds.
LEMMA NewObject ==
    ASSUME ArchiveInductive, NEW r \in Runs, run[r].pc = "putting", NEW p \in run[r].todo
    PROVE  LET batch == run[r].page
               new == ObjectOf(batch, p)
           IN /\ new.part = p /\ new.ids = {i \in batch : log.part[i] = p} /\ new.ids # {}
              /\ new.from \in new.ids /\ new.to \in new.ids
              /\ \A i \in new.ids : new.from <= i /\ i <= new.to
<1> DEFINE batch == run[r].page
           ids == {i \in batch : log.part[i] = p}
<1>1. RunSound(run[r])
  BY DEF ArchiveInductive
<1>2. batch \subseteq RowIds /\ ids # {}
  BY <1>1 DEF RunSound, Parts
<1>3. IsFiniteSet(ids) /\ ids \in SUBSET Nat
  BY <1>2, FS_Subset, Numbers, ArchiveAssumption
<1>4. ObjectOf(batch, p) = [part |-> p, from |-> Min(ids), to |-> Max(ids), ids |-> ids]
  BY DEF ObjectOf
<1> HIDE DEF ids
<1>5. Min(ids) \in ids /\ Max(ids) \in ids /\ \A i \in ids : Min(ids) <= i /\ i <= Max(ids)
  BY <1>2, <1>3, MinIsLeast, MaxIsGreatest
<1> QED
  BY <1>2, <1>4, <1>5 DEF ids

\* A part that is written keeps it: what the object it replaces held besides is gone or late.
LEMMA PutStep ==
    ASSUME ArchiveInductive, NEW r \in Runs, NEW p \in run[r].todo, PutPart(r, p)
    PROVE  ArchiveInductive'
<1> DEFINE x == run[r]
           new == ObjectOf(x.page, p)
<1>1. /\ x.pc = "putting" /\ UNCHANGED <<book, row, lastId, readTo, late>>
      /\ bucket' = {o \in bucket : ~ SameKey(o, new)} \cup {new}
      /\ ever' = ever \cup new.ids
      /\ run' = [run EXCEPT ![r] = Wrote(x, p)]
  BY DEF PutPart, Wrote, ArchiveInductive
<1>2. /\ new.part = p /\ new.ids = {i \in x.page : log.part[i] = p} /\ new.ids # {}
      /\ new.from \in new.ids /\ new.to \in new.ids
      /\ \A i \in new.ids : new.from <= i /\ i <= new.to
  BY <1>1, NewObject
<1> HIDE DEF new
<1>3. /\ RunSound(x) /\ readTo \in RowIds \cup {0} /\ readTo' \in RowIds \cup {0} /\ readTo <= readTo'
  BY <1>1, Numbers DEF ArchiveInductive
<1>4. Grows
  BY <1>1, <1>3 DEF Grows, Visible, OnTime, There
<1>5. /\ x.page \subseteq RowIds /\ x.cursor \in Nat
      /\ \A i \in x.page : Visible(i) /\ x.cursor < i
      /\ \A i \in OnTime : \A j \in x.page : x.cursor < i /\ i <= j => i \in x.page
  BY <1>1, <1>3, Numbers DEF RunSound, Seen
<1>6. new.ids \subseteq x.page
  BY <1>2
<1>7. Seen(lastId)' /\ Covers(lastId)'
  BY <1>1, <1>3, <1>4, CursorGrows DEF ArchiveInductive
<1>8. log' = log
  BY <1>1 DEF log
<1>9. \A o \in bucket' : ObjectSound(o)'
  <2>1. \A o \in bucket : ObjectSound(o)'
    BY <1>1, <1>8 DEF ArchiveInductive, ObjectSound
  <2>2. PICK n : n = new
    OBVIOUS
  <2>3. ObjectSound(n)'
    BY <1>1, <1>2, <1>8, <2>2 DEF ObjectSound
  <2> QED
    BY <1>1, <2>1, <2>2, <2>3
<1>10. ever' \subseteq {i \in RowIds : Visible(i)}'
  <2>1. ever \subseteq {i \in RowIds : Visible(i)}
    BY DEF ArchiveInductive
  <2> QED
    BY <1>1, <1>5, <1>6, <2>1 DEF Visible
<1>11. KeptWhileLogged'
  <2> SUFFICES ASSUME NEW i \in ever', i \notin Archived' PROVE row[i] = "gone" \/ i \in late
    BY <1>1 DEF KeptWhileLogged
  <2>1. i \notin new.ids /\ i \in ever
    BY <1>1 DEF Archived
  <2>2. CASE i \notin Archived
    BY <2>1, <2>2 DEF ArchiveInductive, KeptWhileLogged
  <2>3. CASE i \in Archived
    <3>1. PICK o \in bucket : i \in o.ids
      BY <2>3 DEF Archived
    <3>2. SameKey(o, new)
      BY <1>1, <3>1 DEF Archived
    <3>3. log.part[i] = p /\ new.from <= i /\ i <= new.to
      BY <1>2, <3>1, <3>2 DEF ArchiveInductive, ObjectSound, SameKey
    <3>4. i \in RowIds /\ i \in Nat /\ Visible(i) /\ new.from \in Nat /\ new.to \in Nat
      BY <1>2, <1>5, <1>6, <2>1, Numbers DEF ArchiveInductive
    <3>5. x.cursor < i
      <4>1. x.cursor < new.from
        BY <1>2, <1>5, <1>6
      <4> QED
        BY <1>5, <3>3, <3>4, <4>1
    <3>6. i \notin x.page
      BY <1>2, <2>1, <3>3
    <3>7. i \notin OnTime
      BY <1>2, <1>5, <1>6, <3>3, <3>5, <3>6
    <3> QED
      BY <3>4, <3>7 DEF OnTime, There, Visible
  <2> QED
    BY <2>2, <2>3
<1>12. ASSUME NEW q \in Runs PROVE RunSound(run[q])'
  <2>1. run'[q] = IF q = r THEN Wrote(x, p) ELSE run[q]
    BY <1>1 DEF ArchiveInductive
  <2>2. PICK z : z = run[q]
    OBVIOUS
  <2>3. RunSound(z) /\ RunSound(z)'
    BY <1>3, <1>4, <2>2, RunGrows DEF ArchiveInductive
  <2>4. CASE q # r
    BY <2>1, <2>2, <2>3, <2>4
  <2>5. CASE q = r
    <3>1. PICK y : y = Wrote(x, p)
      OBVIOUS
    <3>2. y = [pc |-> z.pc, cursor |-> z.cursor, page |-> z.page, todo |-> z.todo \ {p}] /\ z.pc = "putting"
      BY <1>1, <1>3, <2>2, <2>5, <3>1, WroteFields
    <3>3. \A i \in z.page : log'.part[i] \in y.todo \/ i \in ever'
      BY <1>1, <1>2, <1>8, <2>2, <2>3, <2>5, <3>2 DEF RunSound
    <3>4. RunSound(y)'
      BY <2>3, <3>2, <3>3 DEF RunSound
    <3> QED
      BY <2>1, <2>5, <3>1, <3>4
  <2> QED
    BY <2>4, <2>5
<1>13. run' = [q \in Runs |-> run'[q]]
  BY <1>1 DEF ArchiveInductive
<1>14. /\ book' \in DOMAIN Logs /\ late' \subseteq RowIds
       /\ row' \in [RowIds -> {"unused", "flying", "there", "lost", "gone"}]
  BY <1>1 DEF ArchiveInductive
<1> QED
  BY <1>3, <1>7, <1>9, <1>10, <1>11, <1>12, <1>13, <1>14 DEF ArchiveInductive

(* The specification. *)

\* It holds at the start.
LEMMA ArchiveStart == ArchiveInit => ArchiveInductive
<1> SUFFICES ASSUME ArchiveInit PROVE ArchiveInductive
  OBVIOUS
<1>1. Seen(0) /\ Covers(0)
  BY Numbers DEF ArchiveInit, Seen, Covers, OnTime, There
<1>2. \A r \in Runs : RunSound(run[r])
  BY IdleSound DEF ArchiveInit
<1> QED
  BY <1>1, <1>2, Numbers DEF ArchiveInit, ArchiveInductive, KeptWhileLogged

\* Every step keeps it.
LEMMA ArchiveStep == ArchiveInductive /\ [ArchiveNext]_archiveVars => ArchiveInductive'
<1> SUFFICES ASSUME ArchiveInductive, [ArchiveNext]_archiveVars PROVE ArchiveInductive'
  OBVIOUS
<1>1. ASSUME NEW i \in RowIds, Insert(i) \/ RowCommits(i) \/ RowLost(i) PROVE ArchiveInductive'
  BY <1>1, InsertStep, CommitsStep
<1>2. CASE PruneLog \/ ClearLog
  BY <1>2, LeaveStep
<1>3. ASSUME NEW r \in Runs, StartCron(r) \/ StartUnread(r) \/ StartByHand(r) PROVE ArchiveInductive'
  <2>1. \E c \in {0, lastId} : StartAt(r, c)
    BY <1>3 DEF StartCron, StartUnread, StartByHand
  <2> QED
    BY <2>1, StartStep
<1>4. ASSUME NEW r \in Runs,
             ReadPage(r) \/ (\E p \in run[r].todo : PutPart(r, p)) \/ CommitCursor(r) \/ CommitDropped(r) \/ Stop(r)
      PROVE  ArchiveInductive'
  BY <1>4, ReadStep, PutStep, CommitStep, StopStep
<1>5. CASE UNCHANGED archiveVars
  <2>1. UNCHANGED <<book, row, bucket, lastId, run, readTo, late, ever>>
    BY <1>5 DEF archiveVars
  <2>2. Grows
    BY <2>1, Numbers DEF Grows, Visible, OnTime, There, ArchiveInductive
  <2> QED
    BY <2>1, <2>2, LogStep DEF ArchiveInductive
<1> QED
  BY <1>1, <1>2, <1>3, <1>4, <1>5 DEF ArchiveNext

\* The invariant holds, for any log and any runs (db.js, archive/archiver.js).
THEOREM ArchiveHolds == ArchiveSpec => []ArchiveInductive
BY ArchiveStart, ArchiveStep, PTL DEF ArchiveSpec

\* The cursor never passes a row that is not stored, and what was archived stays so while the log
\* has it, whatever runs were killed or raced and whatever was pruned (archive/archiver.js).
THEOREM ArchiveSound == ArchiveSpec => []ArchiveInv
BY ArchiveHolds, InductiveSound, PTL

(* Image templates. *)

\* A handler that waits owes its row, one that has answered has left it.
HandlerSound(q) ==
    /\ q.pc \in {"free", "fetching", "proxied", "rendering", "answered"}
    /\ q = Job(q.pc, q.slug, q.instr, q.paid, q.rows)
    /\ q.paid \in 0..1
    /\ q.rows = IF q.pc = "answered" THEN 1 ELSE 0
    /\ q.pc = "fetching" => q.slug \in Slugs /\ q.instr \in BOOLEAN

\* The pictures that the templates of c name are there.
PicturesThere(c, files, but) ==
    \A s \in Slugs : c[s] # NoTemplate /\ c[s].ref # NoFile =>
        /\ c[s].ref \in {s} \X al.exts
        /\ s \notin but => c[s].ref \in files

\* The types.
ImageShapes ==
    /\ album \in DOMAIN Albums
    /\ shelf \in [Slugs -> Templates \cup {NoTemplate}] /\ saved \in [Slugs -> Templates \cup {NoTemplate}]
    /\ disk \subseteq Files /\ hurt \subseteq Slugs /\ deleted \subseteq Slugs
    /\ volume \in {"ok", "full", "readonly"}

\* The inductive invariant of the templates.
ImageInductive ==
    /\ ImageShapes
    /\ DOMAIN job = al.jobs /\ \A j \in al.jobs : HandlerSound(job[j])
    /\ ~al.names => PicturesThere(shelf, disk, hurt) /\ PicturesThere(saved, disk, hurt)
    /\ \A s \in deleted : shelf[s] = NoTemplate /\ saved[s] = NoTemplate

\* The invariant of the run follows.
LEMMA ImageSound == ImageInductive => ImagesInv
<1> SUFFICES ASSUME ImageInductive PROVE ImagesInv
  OBVIOUS
<1>1. ImageTypeOK
  <2>1. \A j \in al.jobs : job[j].paid \in 0..1 /\ job[j].rows \in 0..1
    BY DEF ImageInductive, HandlerSound
  <2> QED
    BY <2>1 DEF ImageInductive, ImageShapes, ImageTypeOK
<1>2. PictureOnDisk
  BY DEF ImageInductive, PictureOnDisk, PicturesThere, Registered, Readable
<1>3. PaidIsBooked
  BY DEF ImageInductive, HandlerSound, PaidIsBooked
<1>4. StaysDeleted
  BY DEF ImageInductive, StaysDeleted, Registered
<1> QED
  BY <1>1, <1>2, <1>3, <1>4 DEF ImagesInv

\* A seed's picture is its own.
LEMMA SeedOwned ==
    ASSUME album \in DOMAIN Albums, NEW s \in DOMAIN al.seed
    PROVE  al.seed[s] # NoFile => al.seed[s] \in {s} \X al.exts
  BY ImagesAssumption DEF al

\* The seed fills an empty store with templates and their own pictures, and leaves any other alone.
LEMMA SeededSound ==
    ASSUME album \in DOMAIN Albums, NEW c \in [Slugs -> Templates \cup {NoTemplate}], NEW ok \in BOOLEAN
    PROVE  /\ Seeded(c, ok) \in [Slugs -> Templates \cup {NoTemplate}]
           /\ RefsOf(Seeded(c, ok)) \subseteq Files
           /\ (\E s \in Slugs : c[s] # NoTemplate) => Seeded(c, ok) = c
           /\ (\A s \in Slugs : c[s] = NoTemplate) =>
                  \A s \in Slugs : Seeded(c, ok)[s] # NoTemplate /\ Seeded(c, ok)[s].ref # NoFile =>
                      /\ Seeded(c, ok)[s].ref \in {s} \X al.exts
                      /\ Seeded(c, ok)[s].ref \in RefsOf(Seeded(c, ok))
<1> DEFINE d == Seeded(c, ok)
<1>1. \A s \in Slugs \cap DOMAIN al.seed : Seedling(s, ok) \in Templates
                                           /\ (Seedling(s, ok).ref # NoFile => Seedling(s, ok).ref \in {s} \X al.exts)
  <2> TAKE s \in Slugs \cap DOMAIN al.seed
  <2>1. al.seed[s] # NoFile => al.seed[s] \in {s} \X al.exts
    BY SeedOwned
  <2>2. Seedling(s, ok).ref \in Files \cup {NoFile} /\ Seedling(s, ok).instr = TRUE
        /\ (Seedling(s, ok).ref # NoFile => Seedling(s, ok).ref \in {s} \X al.exts)
    BY <2>1 DEF Seedling, Files
  <2>3. Seedling(s, ok) \in [instr : BOOLEAN, ref : Files \cup {NoFile}]
    BY <2>2 DEF Seedling
  <2> QED
    BY <2>2, <2>3 DEF Templates
<1>2. CASE \E s \in Slugs : c[s] # NoTemplate
  <2>1. d = c
    BY <1>2 DEF Seeded
  <2>2. RefsOf(c) \subseteq Files
    BY DEF RefsOf, Templates
  <2> QED
    BY <1>2, <2>1, <2>2
<1>3. CASE \A s \in Slugs : c[s] = NoTemplate
  <2>1. d = [s \in Slugs |-> IF s \in DOMAIN al.seed THEN Seedling(s, ok) ELSE NoTemplate]
    BY <1>3 DEF Seeded
  <2>2. d \in [Slugs -> Templates \cup {NoTemplate}]
    BY <1>1, <2>1
  <2>3. RefsOf(d) \subseteq Files
    BY <2>2 DEF RefsOf, Templates
  <2>4. \A s \in Slugs : d[s] # NoTemplate /\ d[s].ref # NoFile => d[s].ref \in {s} \X al.exts
    BY <1>1, <2>1
  <2>5. \A s \in Slugs : d[s] # NoTemplate /\ d[s].ref # NoFile => d[s].ref \in RefsOf(d)
    BY DEF RefsOf
  <2> QED
    BY <1>3, <2>2, <2>3, <2>4, <2>5
<1> QED
  BY <1>2, <1>3

\* A handler that is not touched, in an instance that is not.
LEMMA HandlersStay ==
    ASSUME ImageInductive, UNCHANGED album, DOMAIN job' = al.jobs,
           \A j \in al.jobs : HandlerSound(job'[j])
    PROVE  DOMAIN job' = al'.jobs /\ \A j \in al'.jobs : HandlerSound(job[j])'
<1>1. al' = al /\ Slugs' = Slugs
  BY DEF al, Slugs
<1>2. ASSUME NEW j \in al.jobs PROVE HandlerSound(job[j])'
  <2>1. PICK n : n = job'[j]
    OBVIOUS
  <2>2. HandlerSound(n)
    BY <2>1
  <2>3. HandlerSound(n)'
    BY <2>2, <1>1 DEF HandlerSound, Job
  <2> QED
    BY <2>1, <2>3
<1> QED
  BY <1>1, <1>2

\* Nothing but the handlers changes.
LEMMA HandlerStep ==
    ASSUME ImageInductive, UNCHANGED <<album, shelf, saved, disk, volume, hurt, deleted>>,
           NEW j \in al.jobs, NEW q, HandlerSound(q), job' = [job EXCEPT ![j] = q]
    PROVE  ImageInductive'
<1>1. al' = al /\ Slugs' = Slugs /\ Files' = Files /\ Templates' = Templates
  BY DEF al, Slugs, Files, Templates
<1>2. ImageShapes'
  BY <1>1 DEF ImageInductive, ImageShapes
<1>3. DOMAIN job' = al.jobs /\ \A i \in al.jobs : job'[i] = IF i = j THEN q ELSE job[i]
  BY DEF ImageInductive
<1>4. DOMAIN job' = al'.jobs /\ \A i \in al'.jobs : HandlerSound(job[i])'
  <2>1. \A i \in al.jobs : HandlerSound(job'[i])
    BY <1>3 DEF ImageInductive
  <2> QED
    BY <2>1, <1>3, HandlersStay
<1>5. (~al.names => PicturesThere(shelf, disk, hurt) /\ PicturesThere(saved, disk, hurt))'
  BY <1>1 DEF ImageInductive, PicturesThere
<1>6. (\A s \in deleted : shelf[s] = NoTemplate /\ saved[s] = NoTemplate)'
  BY DEF ImageInductive
<1> QED
  BY <1>1, <1>2, <1>3, <1>4, <1>5, <1>6 DEF ImageInductive

\* A save writes a record onto the shelf, with its picture on the volume.
LEMMA PutRecordStep ==
    ASSUME ImageInductive, UNCHANGED <<album, volume>>, NEW s \in Slugs, NEW t \in Templates, PutTemplate(s, t),
           DOMAIN job' = al.jobs, \A j \in al.jobs : HandlerSound(job'[j]),
           disk' \subseteq Files, hurt' \subseteq Slugs, volume = "readonly" => disk \subseteq disk' /\ hurt \subseteq hurt',
           ~al.names => /\ \A f \in disk : f \in {s} \X al.exts \/ f \in disk'
                        /\ hurt \ {s} \subseteq hurt'
                        /\ t.ref # NoFile => t.ref \in {s} \X al.exts /\ (s \notin hurt' => t.ref \in disk')
    PROVE  ImageInductive'
<1>1. al' = al /\ Slugs' = Slugs /\ Files' = Files /\ Templates' = Templates
  BY DEF al, Slugs, Files, Templates
<1>2. /\ shelf' = [shelf EXCEPT ![s] = t]
      /\ saved' = IF volume = "readonly" THEN saved ELSE shelf'
      /\ deleted' = deleted \ {s}
  BY DEF PutTemplate, Persist
<1>3. ImageShapes'
  BY <1>1, <1>2 DEF ImageInductive, ImageShapes
<1>4. DOMAIN job' = al'.jobs /\ \A j \in al'.jobs : HandlerSound(job[j])'
  BY HandlersStay
<1>5. ASSUME ~al.names PROVE PicturesThere(shelf', disk', hurt') /\ PicturesThere(saved', disk', hurt')
  <2>1. PicturesThere(shelf', disk', hurt')
    <3> SUFFICES ASSUME NEW m \in Slugs, shelf'[m] # NoTemplate, shelf'[m].ref # NoFile
                 PROVE  /\ shelf'[m].ref \in {m} \X al.exts
                        /\ m \notin hurt' => shelf'[m].ref \in disk'
      BY DEF PicturesThere
    <3>1. CASE m = s
      <4>1. shelf'[m] = t
        BY <3>1, <1>2 DEF ImageInductive, ImageShapes
      <4> QED
        BY <4>1, <3>1, <1>5
    <3>2. CASE m # s
      <4>1. shelf'[m] = shelf[m]
        BY <3>2, <1>2 DEF ImageInductive, ImageShapes
      <4>2. shelf[m].ref \in {m} \X al.exts /\ (m \notin hurt => shelf[m].ref \in disk)
        BY <4>1, <1>5 DEF ImageInductive, PicturesThere
      <4>3. shelf[m].ref \notin {s} \X al.exts
        BY <4>2, <3>2
      <4> QED
        BY <4>1, <4>2, <4>3, <3>2, <1>5
    <3> QED
      BY <3>1, <3>2
  <2>2. CASE volume = "readonly"
    <3>1. PicturesThere(saved, disk, hurt) /\ saved' = saved
      BY <1>2, <1>5, <2>2 DEF ImageInductive
    <3> QED
      BY <2>1, <2>2, <3>1 DEF PicturesThere
  <2> QED
    BY <2>1, <2>2, <1>2
<1>6. \A m \in deleted' : shelf'[m] = NoTemplate /\ saved'[m] = NoTemplate
  BY <1>2 DEF ImageInductive, ImageShapes
<1>7. (~al.names => PicturesThere(shelf, disk, hurt) /\ PicturesThere(saved, disk, hurt))'
  BY <1>1, <1>5 DEF PicturesThere
<1> QED
  BY <1>3, <1>4, <1>6, <1>7 DEF ImageInductive

\* A save without a picture.
LEMMA SaveTextStep ==
    ASSUME ImageInductive, NEW s, NEW b \in BOOLEAN, NEW f \in Files \cup {NoFile}, SaveText(s, b, f)
    PROVE  ImageInductive'
<1>1. PICK t : t = [instr |-> b, ref |-> IF Registered(s) THEN shelf[s].ref ELSE f]
  OBVIOUS
<1>2. s \in Slugs /\ t \in Templates /\ PutTemplate(s, t) /\ UNCHANGED <<album, disk, volume, job, hurt>>
      /\ (f = NoFile \/ al.names)
  BY <1>1 DEF SaveText
<1>3. DOMAIN job' = al.jobs /\ \A j \in al.jobs : HandlerSound(job'[j])
  BY <1>2 DEF ImageInductive
<1>4. ~al.names => (t.ref # NoFile => t.ref \in {s} \X al.exts /\ (s \notin hurt' => t.ref \in disk'))
  BY <1>1, <1>2 DEF ImageInductive, PicturesThere, Registered
<1>5. disk' \subseteq Files /\ hurt' \subseteq Slugs
  BY <1>2 DEF ImageInductive, ImageShapes
<1> QED
  BY <1>2, <1>3, <1>4, <1>5, PutRecordStep

\* A picture is written, or the write throws.
LEMMA PictureStep ==
    ASSUME ImageInductive, NEW s \in Slugs, NEW x \in al.exts, NEW b \in BOOLEAN,
           Stored(s, x, b) \/ WriteThrows(s, x),
           DOMAIN job' = al.jobs, \A j \in al.jobs : HandlerSound(job'[j])
    PROVE  ImageInductive'
<1>1. CASE Stored(s, x, b)
  <2>1. PICK t : t = [instr |-> b, ref |-> <<s, x>>]
    OBVIOUS
  <2>2. <<s, x>> \in Files
    BY DEF Files
  <2>3. CASE <<s, x>> # NoFile
    <3>1. t \in Templates
      BY <2>1, <2>2, <2>3 DEF Templates
    <3>2. /\ volume = "ok" /\ PutTemplate(s, t) /\ UNCHANGED <<album, volume>>
          /\ disk' = (disk \ Others(s, x)) \cup {<<s, x>>} /\ hurt' = hurt \ {s}
      BY <1>1, <2>1 DEF Stored
    <3>3. disk' \subseteq Files /\ hurt' \subseteq Slugs
      BY <3>2, <2>2 DEF ImageInductive, ImageShapes
    <3>4. \A f \in disk : f \in {s} \X al.exts \/ f \in disk'
      BY <3>2 DEF Others, Files
    <3>5. t.ref \in {s} \X al.exts /\ t.ref \in disk'
      BY <2>1, <3>2
    <3> QED
      BY <3>1, <3>2, <3>3, <3>4, <3>5, PutRecordStep
  <2>4. CASE <<s, x>> = NoFile
    BY <2>4, ImagesAssumption, <2>2 DEF ImageInductive, ImageShapes, Files, Slugs, al
  <2> QED
    BY <2>3, <2>4
<1>2. CASE WriteThrows(s, x)
  <2>1. al' = al /\ Slugs' = Slugs /\ Files' = Files /\ Templates' = Templates
    BY <1>2 DEF al, Slugs, Files, Templates, WriteThrows
  <2>2. UNCHANGED <<album, shelf, saved, volume, deleted>>
    BY <1>2 DEF WriteThrows
  <2>3. hurt \subseteq hurt' /\ hurt' \subseteq Slugs /\ disk' \subseteq disk
        /\ \A f \in disk : f \in disk' \/ f[1] \in hurt'
    BY <1>2 DEF WriteThrows, ImageInductive, ImageShapes
  <2>4. ImageShapes'
    BY <2>1, <2>2, <2>3 DEF ImageInductive, ImageShapes
  <2>5. ASSUME NEW c, PicturesThere(c, disk, hurt) PROVE PicturesThere(c, disk', hurt')
    BY <2>3, <2>5 DEF PicturesThere
  <2>6. (~al.names => PicturesThere(shelf, disk, hurt) /\ PicturesThere(saved, disk, hurt))'
    <3>1. ~al.names => PicturesThere(shelf, disk', hurt') /\ PicturesThere(saved, disk', hurt')
      BY <2>5 DEF ImageInductive
    <3> QED
      BY <3>1, <2>1, <2>2 DEF PicturesThere
  <2>7. DOMAIN job' = al'.jobs /\ \A j \in al'.jobs : HandlerSound(job[j])'
    BY <2>2, HandlersStay
  <2>8. (\A m \in deleted : shelf[m] = NoTemplate /\ saved[m] = NoTemplate)'
    BY <2>2 DEF ImageInductive
  <2> QED
    BY <2>4, <2>6, <2>7, <2>8 DEF ImageInductive
<1> QED
  BY <1>1, <1>2

\* A removal takes the picture of that template and of no other.
LEMMA RemoveStep ==
    ASSUME ImageInductive, NEW s, RemoveTemplate(s)
    PROVE  ImageInductive'
<1>1. al' = al /\ Slugs' = Slugs /\ Files' = Files /\ Templates' = Templates
  BY DEF al, Slugs, Files, Templates, RemoveTemplate
<1>2. /\ s \in Slugs /\ shelf[s] # NoTemplate /\ shelf' = [shelf EXCEPT ![s] = NoTemplate]
      /\ disk' = IF volume = "readonly" THEN disk ELSE disk \ {shelf[s].ref}
      /\ saved' = IF volume = "readonly" THEN saved ELSE shelf'
      /\ deleted' = IF volume = "readonly" THEN deleted ELSE deleted \cup {s}
      /\ UNCHANGED <<album, volume, job, hurt>>
  BY DEF RemoveTemplate, Registered, Persist
<1>3. ImageShapes'
  BY <1>1, <1>2 DEF ImageInductive, ImageShapes
<1>4. DOMAIN job' = al'.jobs /\ \A j \in al'.jobs : HandlerSound(job[j])'
  <2>1. DOMAIN job' = al.jobs /\ \A j \in al.jobs : HandlerSound(job'[j])
    BY <1>2 DEF ImageInductive
  <2> QED
    BY <2>1, <1>2, HandlersStay
<1>5. ASSUME ~al.names PROVE PicturesThere(shelf', disk', hurt') /\ PicturesThere(saved', disk', hurt')
  <2>1. PicturesThere(shelf, disk, hurt) /\ PicturesThere(saved, disk, hurt)
    BY <1>5 DEF ImageInductive
  <2>2. PicturesThere(shelf', disk', hurt')
    <3> SUFFICES ASSUME NEW m \in Slugs, shelf'[m] # NoTemplate, shelf'[m].ref # NoFile
                 PROVE  /\ shelf'[m].ref \in {m} \X al.exts
                        /\ m \notin hurt' => shelf'[m].ref \in disk'
      BY DEF PicturesThere
    <3>1. m # s /\ shelf'[m] = shelf[m]
      BY <1>2 DEF ImageInductive, ImageShapes
    <3>2. shelf[m].ref \in {m} \X al.exts /\ (m \notin hurt => shelf[m].ref \in disk)
      BY <2>1, <3>1 DEF PicturesThere
    <3>3. shelf[s].ref # NoFile => shelf[s].ref \in {s} \X al.exts
      BY <2>1, <1>2 DEF PicturesThere
    <3>4. shelf[m].ref # shelf[s].ref
      BY <3>1, <3>2, <3>3
    <3> QED
      BY <3>1, <3>2, <3>4, <1>2
  <2>3. CASE volume = "readonly"
    BY <2>1, <2>2, <2>3, <1>2
  <2> QED
    BY <2>2, <2>3, <1>2
<1>6. \A m \in deleted' : shelf'[m] = NoTemplate /\ saved'[m] = NoTemplate
  BY <1>2 DEF ImageInductive, ImageShapes
<1>7. (~al.names => PicturesThere(shelf, disk, hurt) /\ PicturesThere(saved, disk, hurt))'
  BY <1>1, <1>5 DEF PicturesThere
<1> QED
  BY <1>3, <1>4, <1>6, <1>7 DEF ImageInductive

\* A handler that does nothing owes nothing.
LEMMA FreeSound == HandlerSound(Free)
  BY DEF HandlerSound, Free, Job

\* A boot after which the files of the slugs that were lost may be gone.
LEMMA BootStep ==
    ASSUME ImageInductive, NEW files \in SUBSET Files, NEW lost \in SUBSET Slugs, Boot(files, lost),
           ~al.names => \A f \in disk : f \in files \/ f[1] \in lost
    PROVE  ImageInductive'
<1>1. al' = al /\ Slugs' = Slugs /\ Files' = Files /\ Templates' = Templates
  BY DEF al, Slugs, Files, Templates, Boot
<1> DEFINE ok == volume = "ok"
<1>2. /\ shelf' = Seeded(saved, ok)
      /\ saved' = IF volume = "readonly" THEN saved ELSE shelf'
      /\ disk' = files \cup (IF shelf' = saved THEN {} ELSE RefsOf(shelf'))
      /\ hurt' = hurt \cup lost
      /\ job' = [j \in al.jobs |-> Free]
      /\ deleted' = IF \A s \in Slugs : saved[s] = NoTemplate THEN {} ELSE deleted
      /\ UNCHANGED <<album, volume>>
  BY DEF Boot, Persist
<1>3. saved \in [Slugs -> Templates \cup {NoTemplate}] /\ ok \in BOOLEAN /\ ImageShapes
  BY DEF ImageInductive, ImageShapes
<1> HIDE DEF ok
<1>4. /\ shelf' \in [Slugs -> Templates \cup {NoTemplate}]
      /\ RefsOf(shelf') \subseteq Files
      /\ (\E s \in Slugs : saved[s] # NoTemplate) => shelf' = saved
      /\ (\A s \in Slugs : saved[s] = NoTemplate) =>
             \A s \in Slugs : shelf'[s] # NoTemplate /\ shelf'[s].ref # NoFile =>
                 shelf'[s].ref \in {s} \X al.exts /\ shelf'[s].ref \in RefsOf(shelf')
  BY <1>2, <1>3, SeededSound DEF ImageShapes
<1>5. ImageShapes'
  BY <1>1, <1>2, <1>3, <1>4 DEF ImageShapes
<1>6. DOMAIN job' = al'.jobs /\ \A j \in al'.jobs : HandlerSound(job[j])'
  <2>1. DOMAIN job' = al.jobs /\ \A j \in al.jobs : HandlerSound(job'[j])
    BY <1>2, FreeSound
  <2> QED
    BY <2>1, <1>2, HandlersStay
<1>7. ASSUME ~al.names PROVE PicturesThere(shelf', disk', hurt') /\ PicturesThere(saved', disk', hurt')
  <2>1. PicturesThere(saved, disk', hurt')
    BY <1>2, <1>7 DEF ImageInductive, PicturesThere
  <2>2. CASE \E s \in Slugs : saved[s] # NoTemplate
    BY <2>1, <2>2, <1>2, <1>4
  <2>3. CASE \A s \in Slugs : saved[s] = NoTemplate
    <3>1. PicturesThere(shelf', disk', hurt')
      BY <2>3, <1>2, <1>4 DEF PicturesThere
    <3> QED
      BY <3>1, <2>1, <1>2
  <2> QED
    BY <2>2, <2>3
<1>8. \A m \in deleted' : shelf'[m] = NoTemplate /\ saved'[m] = NoTemplate
  <2>1. CASE \E s \in Slugs : saved[s] # NoTemplate
    BY <2>1, <1>2, <1>4 DEF ImageInductive
  <2>2. CASE \A s \in Slugs : saved[s] = NoTemplate
    BY <2>2, <1>2
  <2> QED
    BY <2>1, <2>2
<1>9. (~al.names => PicturesThere(shelf, disk, hurt) /\ PicturesThere(saved, disk, hurt))'
  BY <1>1, <1>7 DEF PicturesThere
<1> QED
  BY <1>5, <1>6, <1>8, <1>9 DEF ImageInductive

\* The volume fails or recovers.
LEMMA RemountStep ==
    ASSUME ImageInductive, NEW v, Remounted(v)
    PROVE  ImageInductive'
<1>1. al' = al /\ Slugs' = Slugs /\ Files' = Files /\ Templates' = Templates
  BY DEF al, Slugs, Files, Templates, Remounted
<1>2. v \in {"ok", "full", "readonly"}
  BY ImagesAssumption DEF Remounted, ImageInductive, ImageShapes, al
<1>3. volume' = v /\ UNCHANGED <<album, shelf, saved, disk, job, hurt, deleted>>
  BY DEF Remounted
<1>4. ImageShapes'
  BY <1>1, <1>2, <1>3 DEF ImageInductive, ImageShapes
<1>5. DOMAIN job' = al'.jobs /\ \A j \in al'.jobs : HandlerSound(job[j])'
  <2>1. DOMAIN job' = al.jobs /\ \A j \in al.jobs : HandlerSound(job'[j])
    BY <1>3 DEF ImageInductive
  <2> QED
    BY <2>1, <1>3, HandlersStay
<1>6. (~al.names => PicturesThere(shelf, disk, hurt) /\ PicturesThere(saved, disk, hurt))'
  BY <1>1, <1>3 DEF ImageInductive, PicturesThere
<1>7. (\A s \in deleted : shelf[s] = NoTemplate /\ saved[s] = NoTemplate)'
  BY <1>3 DEF ImageInductive
<1> QED
  BY <1>4, <1>5, <1>6, <1>7 DEF ImageInductive

\* The first boot.
LEMMA ImageStart == ImageInit => ImageInductive
<1> SUFFICES ASSUME ImageInit PROVE ImageInductive
  OBVIOUS
<1> DEFINE none == [s \in Slugs |-> NoTemplate]
<1>1. /\ album \in DOMAIN Albums /\ volume = "ok" /\ hurt = {} /\ deleted = {}
      /\ shelf = Seeded(none, TRUE) /\ saved = shelf /\ disk = RefsOf(shelf)
      /\ job = [j \in al.jobs |-> Free]
  BY DEF ImageInit
<1>2. none \in [Slugs -> Templates \cup {NoTemplate}] /\ \A s \in Slugs : none[s] = NoTemplate
  OBVIOUS
<1> HIDE DEF none
<1>3. /\ Seeded(none, TRUE) \in [Slugs -> Templates \cup {NoTemplate}]
      /\ RefsOf(Seeded(none, TRUE)) \subseteq Files
      /\ \A s \in Slugs : Seeded(none, TRUE)[s] # NoTemplate /\ Seeded(none, TRUE)[s].ref # NoFile =>
             /\ Seeded(none, TRUE)[s].ref \in {s} \X al.exts
             /\ Seeded(none, TRUE)[s].ref \in RefsOf(Seeded(none, TRUE))
  BY <1>1, <1>2, SeededSound
<1>4. ImageShapes
  BY <1>1, <1>3 DEF ImageShapes
<1>5. PicturesThere(shelf, disk, hurt) /\ PicturesThere(saved, disk, hurt)
  BY <1>1, <1>3 DEF PicturesThere
<1> QED
  BY <1>1, <1>4, <1>5, FreeSound DEF ImageInductive

\* Every step keeps the invariant.
LEMMA ImageStep == ImageInductive /\ [ImageNext]_imageVars => ImageInductive'
<1> SUFFICES ASSUME ImageInductive, [ImageNext]_imageVars PROVE ImageInductive'
  OBVIOUS
<1> DEFINE Keep == UNCHANGED <<album, shelf, saved, disk, volume, hurt, deleted>>
<1>1. ASSUME NEW s \in Slugs, NEW b \in BOOLEAN, NEW f \in Files \cup {NoFile}, SaveText(s, b, f)
      PROVE ImageInductive'
  BY <1>1, SaveTextStep
<1>2. ASSUME NEW s \in Slugs, NEW b \in BOOLEAN, NEW x \in al.exts, SavePicture(s, x, b)
      PROVE ImageInductive'
  <2>1. Stored(s, x, b) \/ WriteThrows(s, x)
    BY <1>2 DEF SavePicture
  <2>2. DOMAIN job' = al.jobs /\ \A j \in al.jobs : HandlerSound(job'[j])
    BY <1>2 DEF SavePicture, ImageInductive
  <2> QED
    BY <2>1, <2>2, PictureStep
<1>3. ASSUME NEW s \in Slugs, NEW b \in BOOLEAN, NEW j \in al.jobs, SaveUrl(j, s, b)
      PROVE ImageInductive'
  <2>1. HandlerSound(Fetching(s, b))
    BY DEF HandlerSound, Fetching, Job
  <2>2. Keep /\ job' = [job EXCEPT ![j] = Fetching(s, b)]
    BY <1>3 DEF SaveUrl
  <2> QED
    BY <2>1, <2>2, HandlerStep
<1>4. ASSUME NEW j \in al.jobs, NEW q, Keep, job' = [job EXCEPT ![j] = q], HandlerSound(q)
      PROVE ImageInductive'
  BY <1>4, HandlerStep
<1>5. HandlerSound(Answered(0, 1)) /\ HandlerSound(Waiting("proxied")) /\ HandlerSound(Waiting("rendering"))
  BY DEF HandlerSound, Answered, Waiting, Job
<1>6. ASSUME NEW j \in al.jobs, NEW s \in Slugs, Generate(j, s) PROVE ImageInductive'
  <2>1. Keep /\ \E q \in {Answered(0, 1), Waiting("proxied")} : job' = [job EXCEPT ![j] = q]
    BY <1>6 DEF Generate
  <2> QED
    BY <2>1, <1>4, <1>5
<1>7. ASSUME NEW j \in al.jobs, NEW s \in Slugs, Render(j, s) PROVE ImageInductive'
  BY <1>4, <1>5, <1>7 DEF Render
<1>8. ASSUME NEW s \in Slugs, NEW x \in al.exts, CrashInSave(s, x) PROVE ImageInductive'
  <2> DEFINE files == (disk \ Others(s, x)) \cup {<<s, x>>}
  <2>1. Boot(files, {s})
    BY <1>8 DEF CrashInSave
  <2>2. files \in SUBSET Files /\ \A f \in disk : f \in files \/ f[1] \in {s}
    BY DEF ImageInductive, ImageShapes, Others, Files
  <2> HIDE DEF files
  <2> QED
    BY <2>1, <2>2, BootStep
<1>9. ASSUME NEW s \in Slugs, RemoveTemplate(s) PROVE ImageInductive'
  BY <1>9, RemoveStep
<1>10. ASSUME NEW s \in Slugs, CrashInRemove(s) PROVE ImageInductive'
  <2> DEFINE files == disk \ {shelf[s].ref}
  <2>1. Boot(files, {s}) /\ shelf[s] # NoTemplate
    BY <1>10 DEF CrashInRemove, Registered
  <2>2. files \in SUBSET Files
    BY DEF ImageInductive, ImageShapes
  <2>3. ASSUME ~al.names PROVE \A f \in disk : f \in files \/ f[1] \in {s}
    <3>1. CASE shelf[s].ref = NoFile
      BY <3>1, ImagesAssumption DEF ImageInductive, ImageShapes, Files, Slugs, al
    <3>2. CASE shelf[s].ref # NoFile
      <4>1. shelf[s].ref \in {s} \X al.exts
        BY <2>1, <2>3, <3>2 DEF ImageInductive, PicturesThere
      <4> QED
        BY <4>1
    <3> QED
      BY <3>1, <3>2
  <2> HIDE DEF files
  <2> QED
    BY <2>1, <2>2, <2>3, BootStep
<1>11. ASSUME NEW j \in al.jobs, NEW x \in al.exts, Fetched(j, x) PROVE ImageInductive'
  <2>1. PICK s : s = job[j].slug
    OBVIOUS
  <2>2. PICK b : b = job[j].instr
    OBVIOUS
  <2>3. s \in Slugs /\ b \in BOOLEAN /\ (Stored(s, x, b) \/ WriteThrows(s, x)) /\ job' = [job EXCEPT ![j] = Free]
    BY <1>11, <2>1, <2>2 DEF Fetched, ImageInductive, HandlerSound
  <2>4. DOMAIN job' = al.jobs /\ \A i \in al.jobs : HandlerSound(job'[i])
    BY <2>3, FreeSound DEF ImageInductive
  <2> QED
    BY <2>3, <2>4, PictureStep
<1>12. ASSUME NEW j \in al.jobs, job[j].pc # "answered" PROVE HandlerSound(Answered(job[j].paid, job[j].rows + 1))
  <2>1. job[j].paid \in 0..1 /\ job[j].rows = 0
    BY <1>12 DEF ImageInductive, HandlerSound
  <2> QED
    BY <2>1 DEF HandlerSound, Answered, Job
<1>13. ASSUME NEW j \in al.jobs, NEW how, Rendered(j, how) PROVE ImageInductive'
  <2>1. Keep /\ job[j].pc # "answered" /\ job' = [job EXCEPT ![j] = Answered(job[j].paid, job[j].rows + 1)]
    BY <1>13 DEF Rendered, ImageInductive
  <2> QED
    BY <2>1, <1>4, <1>12
<1>14. ASSUME NEW j \in al.jobs, Proxied(j) PROVE ImageInductive'
  <2>1. Keep /\ job[j].pc # "answered" /\ job' = [job EXCEPT ![j] = Answered(job[j].paid, job[j].rows + 1)]
    BY <1>14 DEF Proxied, ImageInductive
  <2> QED
    BY <2>1, <1>4, <1>12
<1>15. ASSUME NEW j \in al.jobs, FetchFails(j) \/ Refuse(j) \/ Forget(j) PROVE ImageInductive'
  <2>1. Keep /\ \E q \in {Free, Answered(0, 1)} : job' = [job EXCEPT ![j] = q]
    BY <1>15 DEF FetchFails, Refuse, Forget
  <2> QED
    BY <2>1, <1>4, <1>5, FreeSound
<1>16. ASSUME NEW v \in al.volumes, Remounted(v) PROVE ImageInductive'
  BY <1>16, RemountStep
<1>17. CASE Reboot
  <2>1. Boot(disk, {}) /\ disk \in SUBSET Files
    BY <1>17 DEF Reboot, ImageInductive, ImageShapes
  <2> QED
    BY <2>1, BootStep
<1>18. CASE UNCHANGED imageVars
  <2>1. al' = al /\ Slugs' = Slugs /\ Files' = Files /\ Templates' = Templates /\ Keep /\ job' = job
    BY <1>18 DEF al, Slugs, Files, Templates, imageVars
  <2>2. ImageShapes'
    BY <2>1 DEF ImageInductive, ImageShapes
  <2>3. DOMAIN job' = al'.jobs /\ \A j \in al'.jobs : HandlerSound(job[j])'
    <3>1. DOMAIN job' = al.jobs /\ \A j \in al.jobs : HandlerSound(job'[j])
      BY <2>1 DEF ImageInductive
    <3> QED
      BY <3>1, <2>1, HandlersStay
  <2>4. (~al.names => PicturesThere(shelf, disk, hurt) /\ PicturesThere(saved, disk, hurt))'
    BY <2>1 DEF ImageInductive, PicturesThere
  <2>5. (\A s \in deleted : shelf[s] = NoTemplate /\ saved[s] = NoTemplate)'
    BY <2>1 DEF ImageInductive
  <2> QED
    BY <2>2, <2>3, <2>4, <2>5 DEF ImageInductive
<1> QED
  BY <1>1, <1>2, <1>3, <1>6, <1>7, <1>8, <1>9, <1>10, <1>11, <1>13, <1>14, <1>15, <1>16, <1>17, <1>18
  DEF ImageNext

\* ImageInductive holds of imagetemplates.js, for any slugs, picture types, handlers and volumes.
THEOREM ImagesHold == ImageSpec => []ImageInductive
  BY ImageStart, ImageStep, PTL DEF ImageSpec

\* A named picture is on the volume, what was paid for is in the log, and a template that was
\* removed stays away (imagetemplates.js 84-146, 280-435).
THEOREM ImagesSound == ImageSpec => []ImagesInv
  BY ImagesHold, ImageSound, PTL

(* The pager. *)

\* What people were last told of, as the page under way will find it.
Told == IF pc = "paging" THEN (DOMAIN file \ page.fresh) \cup page.cleared ELSE DOMAIN file

\* A page says how what was found differs from what the state file knew.
PageTrue ==
    /\ page.fresh \cap page.cleared = {}
    /\ pc = "saving" =>
           /\ page.fresh = DOMAIN next \ DOMAIN file
           /\ page.cleared = DOMAIN file \ DOMAIN next
           /\ page.remind \subseteq DOMAIN next \cap DOMAIN file
    /\ pc = "paging" => page.fresh \cup page.remind \subseteq DOMAIN file /\ page.cleared \cap DOMAIN file = {}

\* The types.
WatchShapes ==
    /\ pc \in {"idle", "checking", "saving", "paging"}
    /\ \A c \in DOMAIN file : file[c] \in 0..Remind
    /\ pc = "saving" => \A c \in DOMAIN next : next[c] \in 0..Remind
    /\ hot \subseteq po.conditions /\ restarted \subseteq po.containers /\ counted \subseteq po.containers

\* The inductive invariant of the pager.
WatchInductive ==
    /\ WatchShapes
    /\ PageTrue
    /\ (belief \ Told) \cup (Told \ belief) \subseteq missed

\* What people know follows from it, between two runs.
LEMMA WatchIsSound == WatchInductive => WatchInv
  BY DEF WatchInductive, WatchShapes, PageTrue, Told, WatchInv, WatchTypeOK, BeliefFollowsFile

\* The first run.
LEMMA WatchStart == WatchInit => WatchInductive
  BY DEF WatchInit, WatchInductive, WatchShapes, PageTrue, Told, Nothing, NoPage, po

\* A round passes.
LEMMA RoundStep ==
    ASSUME WatchInductive, TimerFires
    PROVE  WatchInductive'
<1>1. /\ pc = "idle" /\ pc' = "checking" /\ po' = po /\ hot' \subseteq po.conditions
      /\ file' = [c \in DOMAIN file |-> IF file[c] = Remind THEN Remind ELSE file[c] + 1]
      /\ UNCHANGED <<counted, page, belief, missed>>
      /\ restarted' \subseteq restarted \cup po.containers
  BY DEF TimerFires, po
<1>2. DOMAIN file' = DOMAIN file /\ \A c \in DOMAIN file : file'[c] \in 0..Remind
  BY <1>1, WatchAssumption DEF WatchInductive, WatchShapes
<1>3. WatchShapes'
  BY <1>1, <1>2 DEF WatchInductive, WatchShapes
<1>4. PageTrue'
  BY <1>1 DEF WatchInductive, PageTrue
<1>5. Told' = Told
  BY <1>1, <1>2 DEF Told
<1> QED
  BY <1>1, <1>3, <1>4, <1>5 DEF WatchInductive

\* What is found becomes the page and the next state.
LEMMA SampleStep ==
    ASSUME WatchInductive, NEW fail, Sample(fail)
    PROVE  WatchInductive'
<1>1. PICK conds : conds = OfRouter(fail) \cup OfHost
  OBVIOUS
<1>2. /\ pc = "checking" /\ pc' = "saving"
      /\ next' = [c \in conds |-> IF c \in DOMAIN file THEN StillHot(c) ELSE 0]
      /\ page' = [fresh |-> conds \ DOMAIN file, remind |-> {c \in conds \cap DOMAIN file : file[c] >= Remind},
                  cleared |-> DOMAIN file \ conds]
      /\ counted' = IF po.host THEN po.containers ELSE counted
      /\ restarted' = IF po.host THEN {} ELSE restarted
      /\ UNCHANGED <<hot, file, belief, missed>> /\ po' = po
  BY <1>1 DEF Sample, po
<1>3. \A c \in DOMAIN file : StillHot(c) \in 0..Remind
  BY WatchAssumption DEF WatchInductive, WatchShapes, StillHot
<1>4. WatchShapes'
  <2>1. DOMAIN next' = conds /\ \A c \in conds : next'[c] \in 0..Remind
    BY <1>2, <1>3, WatchAssumption
  <2> QED
    BY <1>2, <2>1 DEF WatchInductive, WatchShapes
<1>5. PageTrue'
  BY <1>2 DEF PageTrue
<1>6. Told' = Told
  BY <1>2 DEF Told
<1> QED
  BY <1>2, <1>4, <1>5, <1>6 DEF WatchInductive

\* Saving the state turns what it knows into what the page is about to say.
LEMMA SaveStep ==
    ASSUME WatchInductive, Save
    PROVE  WatchInductive'
<1>1. /\ pc = "saving" /\ file' = next /\ pc' = IF page = NoPage THEN "idle" ELSE "paging"
      /\ UNCHANGED <<hot, restarted, counted, next, page, belief, missed>> /\ po' = po
  BY DEF Save, po
<1>2. WatchShapes'
  BY <1>1 DEF WatchInductive, WatchShapes
<1>3. PageTrue'
  BY <1>1 DEF WatchInductive, PageTrue
<1>4. Told' = Told
  <2>1. CASE page = NoPage
    BY <2>1, <1>1 DEF WatchInductive, PageTrue, Told, NoPage
  <2>2. CASE page # NoPage
    BY <2>2, <1>1 DEF WatchInductive, PageTrue, Told
  <2> QED
    BY <2>1, <2>2
<1> QED
  BY <1>1, <1>2, <1>3, <1>4 DEF WatchInductive

\* The page arrives, or it does not.
LEMMA PageStep ==
    ASSUME WatchInductive, PageArrives \/ PageLost \/ SaveFails
    PROVE  WatchInductive'
<1>1. pc' = "idle" /\ UNCHANGED <<hot, restarted, counted, file, page>> /\ po' = po
  BY DEF PageArrives, PageLost, SaveFails, po
<1>2. WatchShapes'
  BY <1>1 DEF WatchInductive, WatchShapes
<1>3. PageTrue'
  BY <1>1 DEF WatchInductive, PageTrue
<1>4. CASE PageArrives
  BY <1>1, <1>2, <1>3, <1>4 DEF PageArrives, WatchInductive, PageTrue, Told, Mentioned, Holding
<1>5. CASE PageLost
  BY <1>1, <1>2, <1>3, <1>5 DEF PageLost, WatchInductive, PageTrue, Told, Holding
<1>6. CASE SaveFails
  BY <1>1, <1>2, <1>3, <1>6 DEF SaveFails, WatchInductive, Told
<1> QED
  BY <1>4, <1>5, <1>6

\* Every step keeps the invariant.
LEMMA WatchStep == WatchInductive /\ [WatchNext]_watchVars => WatchInductive'
<1> SUFFICES ASSUME WatchInductive, [WatchNext]_watchVars PROVE WatchInductive'
  OBVIOUS
<1>1. CASE UNCHANGED watchVars
  <2>1. po' = po
    BY <1>1 DEF watchVars, po
  <2> QED
    BY <1>1, <2>1 DEF watchVars, WatchInductive, WatchShapes, PageTrue, Told
<1> QED
  BY <1>1, RoundStep, SampleStep, SaveStep, PageStep DEF WatchNext

\* WatchInductive holds of monitor/throttle-watch.py, for any conditions, logins and failures.
THEOREM WatchHolds == WatchSpec => []WatchInductive
  BY WatchStart, WatchStep, PTL DEF WatchSpec

\* Between two runs people know what the state file knows, but for conditions whose last page
\* did not reach them (throttle-watch.py 405-445).
THEOREM WatchSound == WatchSpec => []WatchInv
  BY WatchHolds, WatchIsSound, PTL

(* Catalogs. *)

\* What a sweep may look like.
Sweeps ==
    [runs : BOOLEAN, pool : SUBSET sh.logins, at : [sh.logins -> Nat], pages : [sh.logins -> Nat],
     got : [sh.logins -> SUBSET sh.ids], done : SUBSET sh.logins, failed : SUBSET sh.logins]

\* How far a login has been read: whatever it has listed all the while is read up to there, in
\* whole pages.
LoginRead(q, a, listed) ==
    /\ \A i \in q.got[a] : i <= q.at[a]
    /\ \A i \in listed : i <= q.at[a] => i \in q.got[a]
    /\ a \in q.done => listed \subseteq q.got[a]
    /\ a \notin q.done => q.pages[a] < sh.maxPages /\ Cardinality(q.got[a]) = q.pages[a] * sh.pageSize

\* A sweep and the ids it has to account for.
SweepSound(q, listed) ==
    /\ q \in Sweeps
    /\ q.done \subseteq q.pool
    /\ \A a \in q.pool : LoginRead(q, a, listed[a])

\* The sweeps, and what they have left.
SweepsSound ==
    /\ shop \in DOMAIN Shops
    /\ disabled \subseteq sh.logins /\ listing \in [sh.logins -> SUBSET sh.ids]
    /\ advertised \subseteq sh.ids /\ sh.floor \subseteq advertised
    /\ DOMAIN sweep = sh.sweeps /\ steady \in [sh.sweeps -> [sh.logins -> SUBSET sh.ids]]
    /\ \A w \in sh.sweeps : /\ \A a \in sh.logins : steady[w][a] \subseteq listing[a]
                            /\ SweepSound(sweep[w], steady[w])

\* The readings, and openrouter.
ReadingsSound ==
    /\ orTable \in [sh.orIds -> {"absent", "free", "paid"}] /\ orConfig \in sh.orConfigs
    /\ clock \in Nat /\ inserts \subseteq 1..clock
    /\ {cache, stored, prime.row} \subseteq {Unknown} \cup 1..clock
    /\ cache # Unknown /\ prime.pc # "over" => cache = clock
    /\ DOMAIN lastReply = sh.keys /\ DOMAIN quota \subseteq sh.keys
    /\ \A k \in DOMAIN quota : quota[k] = lastReply[k]

\* The inductive invariant of the catalogs.
CatalogInductive == SweepsSound /\ ReadingsSound

\* The assumptions, of the instance that runs.
LEMMA ShopFacts ==
    ASSUME shop \in DOMAIN Shops
    PROVE  /\ sh.ids \subseteq Nat \ {0} /\ IsFiniteSet(sh.ids) /\ sh.floor \subseteq sh.ids
           /\ sh.listed \in [sh.logins -> SUBSET sh.ids]
           /\ sh.pageSize \in Nat \ {0} /\ sh.maxPages \in Nat \ {0}
           /\ Cardinality(sh.ids) <= sh.maxPages * sh.pageSize
           /\ \A c \in sh.orConfigs : c.key \in BOOLEAN /\ c.freeOnly \in BOOLEAN /\ c.listed \subseteq sh.orIds
  BY CatalogAssumption DEF sh

\* The invariant of the run follows.
LEMMA CatalogIsSound == CatalogInductive => CatalogInv
<1> SUFFICES ASSUME CatalogInductive PROVE CatalogInv
  OBVIOUS
<1>1. CatalogTypeOK
  BY DEF CatalogInductive, SweepsSound, ReadingsSound, SweepSound, CatalogTypeOK, Read
<1>2. orConfig.key \in BOOLEAN /\ orConfig.freeOnly \in BOOLEAN /\ orConfig.listed \subseteq sh.orIds
  BY ShopFacts DEF CatalogInductive, SweepsSound, ReadingsSound
<1>3. AdvertisedIsRouted
  <2>1. ASSUME NEW id \in sh.orIds PROVE id \in OrEntries <=> OrTarget(id)
    BY <1>2, <2>1 DEF OrEntries, OrTarget, On, Has
  <2>2. OrEntries \subseteq sh.orIds
    BY <1>2 DEF OrEntries
  <2>3. ASSUME NEW id \in OrEntries PROVE orConfig.freeOnly => orTable[id] = "free" \/ id \in orConfig.listed
    BY <1>2, <2>3 DEF OrEntries
  <2> QED
    BY <2>1, <2>2, <2>3 DEF AdvertisedIsRouted
<1>4. FloorKept
  BY DEF CatalogInductive, SweepsSound, FloorKept
<1>5. ReadingsAreReal
  BY DEF CatalogInductive, ReadingsSound, ReadingsAreReal
<1> QED
  BY <1>1, <1>3, <1>4, <1>5 DEF CatalogInv

\* The head of a set of numbers.
HeadOf(R, n) == {i \in R : Cardinality({k \in R : k < i}) < n}

\* It is empty only if they are none; it is closed downward; and where it is not all of them, it is full.
LEMMA HeadIsWhole ==
    ASSUME NEW R \in SUBSET Nat, IsFiniteSet(R), NEW n \in Nat \ {0}
    PROVE  LET head == HeadOf(R, n) IN
           /\ head \subseteq R /\ IsFiniteSet(head)
           /\ head = {} => R = {}
           /\ \A i \in R : \A j \in head : i <= j => i \in head
           /\ (\E i \in R : \A j \in head : j < i) => Cardinality(head) = n
<1> DEFINE head == HeadOf(R, n)
           below(i) == {k \in R : k < i}
<1>0. \A i \in R : i \in Nat
  OBVIOUS
<1>1. head \subseteq R /\ IsFiniteSet(head) /\ \A i \in R : i \in head <=> Cardinality(below(i)) < n
  <2>1. head \subseteq R
    BY DEF HeadOf
  <2> QED
    BY <2>1, FS_Subset DEF HeadOf
<1>2. \A i \in R : below(i) \subseteq R /\ IsFiniteSet(below(i)) /\ Cardinality(below(i)) \in Nat
  BY FS_Subset, FS_CardinalityType
<1>3. ASSUME R # {} PROVE head # {}
  <2>1. PICK i \in R : \A m \in R : i <= m
    BY <1>3, LeastNumber
  <2>2. below(i) = {}
    <3>1. \A k \in R : ~(k < i)
      BY <2>1, <1>0
    <3> QED
      BY <3>1
  <2>3. Cardinality(below(i)) = 0
    BY <2>2, FS_EmptySet
  <2> HIDE DEF below, head
  <2>4. i \in head
    BY <1>1, <2>1, <2>3
  <2> QED
    BY <2>4
<1>4. ASSUME NEW i \in R, NEW j \in head, i <= j PROVE i \in head
  <2>1. j \in R /\ i \in Nat /\ j \in Nat
    BY <1>0, <1>1, <1>4
  <2>2. below(i) \subseteq below(j)
    <3>1. \A k \in R : k < i => k < j
      BY <1>0, <1>4, <2>1
    <3> QED
      BY <3>1
  <2> HIDE DEF below, head
  <2>3. Cardinality(below(i)) <= Cardinality(below(j))
    BY <2>1, <2>2, <1>2, FS_Subset
  <2> QED
    BY <1>1, <1>2, <1>4, <2>1, <2>3
<1>5. ASSUME NEW b \in R, \A j \in head : j < b PROVE Cardinality(head) = n
  <2> DEFINE rest == R \ head
  <2>0. \A j \in head : j \in Nat
    BY <1>0, <1>1
  <2>1. rest \in SUBSET Nat /\ rest # {}
    <3>1. b \in rest
      <4>1. b \notin head
        BY <1>0, <1>5
      <4> HIDE DEF head
      <4> QED
        BY <4>1
    <3> QED
      BY <3>1
  <2>2. PICK i \in rest : \A m \in rest : i <= m
    <3> HIDE DEF rest
    <3> QED
      BY <2>1, LeastNumber
  <2>3. below(i) = head
    <3> HIDE DEF head
    <3>0. i \in R /\ i \in Nat /\ i \notin head
      BY <2>2, <1>0
    <3>1. ASSUME NEW k \in R, k < i PROVE k \in head
      BY <3>1, <2>2, <1>0
    <3>2. ASSUME NEW k \in head PROVE k \in R /\ k < i
      <4>1. k \in R /\ k \in Nat
        BY <1>1, <2>0
      <4>2. ~(i <= k)
        BY <1>4, <3>0
      <4> QED
        BY <4>1, <4>2, <3>0
    <3> HIDE DEF head, rest
    <3> QED
      BY <3>1, <3>2
  <2>4. ~(Cardinality(head) < n)
    BY <1>1, <2>2, <2>3
  <2>5. head # {}
    BY <1>3, <1>5
  <2>6. Max(head) \in head /\ \A m \in head : m <= Max(head)
    <3>1. head \in SUBSET Nat
      BY <1>1
    <3> HIDE DEF head
    <3> QED
      BY <3>1, <1>1, <2>5, MaxIsGreatest
  <2>7. PICK z : z = Max(head)
    OBVIOUS
  <2>8. below(z) = head \ {z}
    <3> HIDE DEF head
    <3>0. z \in head /\ z \in Nat /\ \A m \in head : m <= z
      BY <2>0, <2>6, <2>7
    <3>1. ASSUME NEW k \in R, k < z PROVE k \in head \ {z}
      <4>1. k \in Nat /\ k <= z /\ k # z
        BY <1>0, <3>0, <3>1
      <4> QED
        BY <4>1, <3>0, <1>4
    <3>2. ASSUME NEW k \in head \ {z} PROVE k \in R /\ k < z
      <4>1. k \in R /\ k \in Nat /\ k <= z /\ k # z
        BY <2>0, <1>1, <3>0
      <4> QED
        BY <4>1, <3>0
    <3> QED
      BY <3>1, <3>2
  <2>9. Cardinality(head \ {z}) < n
    <3>1. z \in R /\ z \in head
      BY <1>1, <2>6, <2>7
    <3>2. Cardinality(below(z)) < n
      BY <1>1, <3>1
    <3> QED
      BY <3>2, <2>8
  <2> HIDE DEF head
  <2>10. Cardinality(head \ {z}) = Cardinality(head) - 1
    BY <1>1, <2>6, <2>7, FS_RemoveElement
  <2>11. Cardinality(head) \in Nat
    BY <1>1, FS_CardinalityType
  <2> QED
    BY <2>4, <2>9, <2>10, <2>11
<1> HIDE DEF head
<1> QED
  BY <1>1, <1>3, <1>4, <1>5 DEF head

\* One more page: a login is over when its last id was read, and ten pages are more than it can list.
LEMMA PagedSound ==
    ASSUME shop \in DOMAIN Shops, listing \in [sh.logins -> SUBSET sh.ids],
           NEW q, NEW st \in [sh.logins -> SUBSET sh.ids], SweepSound(q, st),
           NEW a \in q.pool, a \notin q.done, st[a] \subseteq listing[a],
           NEW found, found = PageOf(a, q.at[a]), NEW over, over = NoMore(a, found, q.pages[a] + 1), NEW p, p = Paged(q, a, found, over)
    PROVE  SweepSound(p, st) /\ p.runs = q.runs
<1> DEFINE rest == {i \in listing[a] : i > q.at[a]}
           last == IF found = {} THEN q.at[a] ELSE Max(found)
<1>0. a \in sh.logins /\ q \in Sweeps /\ q.done \subseteq q.pool /\ \A b \in q.pool : LoginRead(q, b, st[b])
  BY DEF SweepSound, Sweeps
<1>1. /\ q.at \in [sh.logins -> Nat] /\ q.pages \in [sh.logins -> Nat] /\ q.got \in [sh.logins -> SUBSET sh.ids]
      /\ q.runs \in BOOLEAN /\ q.pool \subseteq sh.logins /\ q.done \subseteq sh.logins /\ q.failed \subseteq sh.logins
  BY <1>0 DEF Sweeps
<1>2. q.at[a] \in Nat /\ q.pages[a] \in Nat /\ q.got[a] \subseteq sh.ids /\ listing[a] \subseteq sh.ids
  BY <1>0, <1>1
<1>3. sh.ids \subseteq Nat /\ IsFiniteSet(sh.ids) /\ sh.pageSize \in Nat \ {0} /\ sh.maxPages \in Nat \ {0}
      /\ Cardinality(sh.ids) <= sh.maxPages * sh.pageSize
  BY ShopFacts
<1>4. found = HeadOf(rest, sh.pageSize)
  BY DEF PageOf, HeadOf
<1>5. rest \in SUBSET Nat /\ IsFiniteSet(rest) /\ rest \subseteq sh.ids /\ \A i \in rest : i \in Nat /\ q.at[a] < i
  <2>1. rest \subseteq sh.ids
    BY <1>2
  <2>2. \A i \in rest : i \in Nat /\ q.at[a] < i
    BY <1>2, <1>3
  <2> HIDE DEF rest
  <2> QED
    BY <2>1, <2>2, <1>3, FS_Subset
<1>6. \A i \in listing[a] : i \in Nat /\ (i <= q.at[a] \/ i \in rest)
  BY <1>2, <1>3
<1> HIDE DEF rest
<1>7. /\ found \subseteq rest /\ IsFiniteSet(found)
      /\ found = {} => rest = {}
      /\ \A i \in rest : \A j \in found : i <= j => i \in found
      /\ (\E i \in rest : \A j \in found : j < i) => Cardinality(found) = sh.pageSize
  BY <1>3, <1>4, <1>5, HeadIsWhole
<1>8. found \subseteq sh.ids /\ found \in SUBSET Nat
  BY <1>5, <1>7
<1>9. found # {} => Max(found) \in found /\ \A m \in found : m <= Max(found)
  BY <1>7, <1>8, MaxIsGreatest
<1>10. last \in Nat /\ q.at[a] <= last /\ \A i \in found : i <= last
  <2>1. CASE found = {}
    BY <2>1, <1>2
  <2>2. CASE found # {}
    <3>1. last \in found /\ \A m \in found : m <= last
      BY <1>9, <2>2
    <3>2. last \in Nat /\ q.at[a] < last
      BY <3>1, <1>5, <1>7
    <3> QED
      BY <3>1, <3>2, <1>2
  <2> QED
    BY <2>1, <2>2
<1>11. \A i \in rest : i <= last => i \in found
  <2>1. CASE found = {}
    BY <2>1, <1>7
  <2>2. CASE found # {}
    <3>1. last \in found
      BY <1>9, <2>2
    <3> HIDE DEF last
    <3> QED
      BY <3>1, <1>7
  <2> QED
    BY <2>1, <2>2
<1> DEFINE at == [q.at EXCEPT ![a] = last]
           pages == [q.pages EXCEPT ![a] = q.pages[a] + 1]
           got == [q.got EXCEPT ![a] = q.got[a] \cup found]
           done == IF over THEN q.done \cup {a} ELSE q.done
<1>12. p = [runs |-> q.runs, pool |-> q.pool, failed |-> q.failed, at |-> at, pages |-> pages, got |-> got, done |-> done]
  BY DEF Paged
<1>13. over <=> found = {} \/ ~(\E i \in listing[a] : i > last) \/ q.pages[a] + 1 = sh.maxPages
  BY DEF NoMore
<1> HIDE DEF last
<1>14. at \in [sh.logins -> Nat] /\ pages \in [sh.logins -> Nat] /\ got \in [sh.logins -> SUBSET sh.ids] /\ done \subseteq q.pool
  BY <1>0, <1>1, <1>2, <1>8, <1>10
<1>15. /\ at[a] = last /\ pages[a] = q.pages[a] + 1 /\ got[a] = q.got[a] \cup found /\ (a \in done <=> over)
       /\ \A b \in sh.logins \ {a} : at[b] = q.at[b] /\ pages[b] = q.pages[b] /\ got[b] = q.got[b]
                                     /\ (b \in done <=> b \in q.done)
  BY <1>0, <1>1
<1> HIDE DEF at, pages, got, done
<1>16. p \in Sweeps /\ p.done \subseteq p.pool /\ p.pool = q.pool /\ p.runs = q.runs
  <2>1. p.runs \in BOOLEAN /\ p.pool \subseteq sh.logins /\ p.failed \subseteq sh.logins /\ p.done \subseteq sh.logins
    BY <1>1, <1>12, <1>14
  <2> QED
    BY <2>1, <1>12, <1>14 DEF Sweeps
<1>17. p.at = at /\ p.pages = pages /\ p.got = got /\ p.done = done
  BY <1>12
<1>18. (\A i \in q.got[a] : i <= q.at[a]) /\ (\A i \in st[a] : i <= q.at[a] => i \in q.got[a])
       /\ q.pages[a] < sh.maxPages /\ Cardinality(q.got[a]) = q.pages[a] * sh.pageSize
  BY <1>0 DEF LoginRead
<1>19. \A i \in got[a] : i \in Nat /\ i <= last
  <2> TAKE i \in got[a]
  <2>1. CASE i \in found
    BY <2>1, <1>8, <1>10
  <2>2. CASE i \in q.got[a]
    <3>1. i \in Nat /\ i <= q.at[a]
      BY <2>2, <1>2, <1>3, <1>18
    <3> QED
      BY <3>1, <1>2, <1>10
  <2> QED
    BY <2>1, <2>2, <1>15
<1>20. \A i \in st[a] : i \in Nat /\ (i <= last => i \in got[a])
  <2> TAKE i \in st[a]
  <2>1. i \in listing[a] /\ i \in Nat
    BY <1>6
  <2>2. CASE i <= q.at[a]
    BY <2>1, <2>2, <1>15, <1>18
  <2>3. CASE i \in rest
    BY <2>1, <2>3, <1>11, <1>15
  <2> QED
    BY <2>1, <2>2, <2>3, <1>6
<1>21. ASSUME NEW i \in listing[a], i > last, found # {}
       PROVE  Cardinality(got[a]) = pages[a] * sh.pageSize
  <2>1. i \in Nat /\ ~(i <= q.at[a])
    BY <1>2, <1>6, <1>10, <1>21
  <2>2. i \in rest /\ \A j \in found : j < i
    <3>1. \A j \in found : j \in Nat /\ j <= last
      BY <1>8, <1>10
    <3> QED
      BY <2>1, <3>1, <1>6, <1>10, <1>21
  <2>3. Cardinality(found) = sh.pageSize
    BY <2>2, <1>7
  <2>4. q.got[a] \cap found = {}
    <3> SUFFICES ASSUME NEW k \in q.got[a], k \in found PROVE FALSE
      OBVIOUS
    <3>1. k \in Nat /\ q.at[a] < k /\ k <= q.at[a]
      BY <1>5, <1>7, <1>18
    <3> QED
      BY <3>1, <1>2
  <2>5. IsFiniteSet(q.got[a])
    BY <1>2, <1>3, FS_Subset
  <2>6. Cardinality(q.got[a] \cup found) = Cardinality(q.got[a]) + Cardinality(found) - Cardinality(q.got[a] \cap found)
    BY <2>5, <1>7, FS_Union
  <2>7. Cardinality(q.got[a] \cap found) = 0
    BY <2>4, FS_EmptySet
  <2>8. PICK n \in Nat : n = q.pages[a]
    BY <1>2
  <2>9. PICK s \in Nat : s = sh.pageSize
    BY <1>3
  <2>10. n * s \in Nat /\ (n + 1) * s = n * s + s
    OBVIOUS
  <2> QED
    BY <2>3, <2>6, <2>7, <2>8, <2>9, <2>10, <1>15, <1>18
<1>22. over => st[a] \subseteq got[a]
  <2> SUFFICES ASSUME over, NEW i \in st[a] PROVE i \in got[a]
    OBVIOUS
  <2>1. i \in listing[a] /\ i \in Nat
    BY <1>6
  <2>2. CASE found = {}
    <3>1. i <= q.at[a]
      BY <2>1, <2>2, <1>6, <1>7
    <3> QED
      BY <3>1, <1>15, <1>18
  <2>3. CASE ~(\E k \in listing[a] : k > last)
    BY <2>1, <2>3, <1>10, <1>20
  <2>4. CASE found # {} /\ i > last /\ q.pages[a] + 1 = sh.maxPages
    <3>1. Cardinality(got[a]) = sh.maxPages * sh.pageSize
      BY <2>1, <2>4, <1>15, <1>21
    <3>2. got[a] \subseteq sh.ids
      BY <1>0, <1>14
    <3>3. i \in sh.ids \ got[a]
      <4>1. i \notin got[a]
        BY <2>1, <2>4, <1>10, <1>19
      <4> QED
        BY <4>1, <2>1, <1>2
    <3>4. Cardinality(got[a]) <= Cardinality(sh.ids \ {i}) /\ IsFiniteSet(sh.ids \ {i})
      <4>1. got[a] \subseteq sh.ids \ {i}
        BY <3>2, <3>3
      <4>2. IsFiniteSet(sh.ids \ {i})
        BY <1>3, FS_RemoveElement
      <4> QED
        BY <4>1, <4>2, FS_Subset
    <3>5. Cardinality(sh.ids \ {i}) = Cardinality(sh.ids) - 1
      BY <1>3, <3>3, FS_RemoveElement
    <3>6. Cardinality(sh.ids) \in Nat
      BY <1>3, FS_CardinalityType
    <3>7. PICK n : n = Cardinality(got[a])
      OBVIOUS
    <3>8. n <= Cardinality(sh.ids) - 1 /\ Cardinality(sh.ids) <= n
      BY <3>1, <3>4, <3>5, <3>7, <1>3
    <3>9. n \in Int
      BY <3>1, <3>7, <1>3
    <3> QED
      BY <3>6, <3>8, <3>9
  <2>5. i > last \/ i <= last
    BY <2>1, <1>10
  <2> QED
    BY <2>2, <2>3, <2>4, <2>5, <1>13, <1>20
<1>23. ~over => pages[a] < sh.maxPages /\ Cardinality(got[a]) = pages[a] * sh.pageSize
  <2> SUFFICES ASSUME ~over PROVE pages[a] < sh.maxPages /\ Cardinality(got[a]) = pages[a] * sh.pageSize
    OBVIOUS
  <2>1. found # {} /\ (\E i \in listing[a] : i > last) /\ q.pages[a] + 1 # sh.maxPages
    BY <1>13
  <2>2. pages[a] < sh.maxPages
    BY <2>1, <1>2, <1>3, <1>15, <1>18
  <2> QED
    BY <2>1, <2>2, <1>21
<1>24. LoginRead(p, a, st[a])
  BY <1>15, <1>17, <1>19, <1>20, <1>22, <1>23 DEF LoginRead
<1>25. ASSUME NEW b \in q.pool \ {a} PROVE LoginRead(p, b, st[b])
  <2>1. LoginRead(q, b, st[b]) /\ b \in sh.logins
    BY <1>0, <1>1
  <2> QED
    BY <2>1, <1>15, <1>17 DEF LoginRead
<1> QED
  BY <1>16, <1>24, <1>25 DEF SweepSound

\* A sweep that begins.
LEMMA FreshSound ==
    ASSUME shop \in DOMAIN Shops, NEW runs \in BOOLEAN, NEW pool \in SUBSET sh.logins,
           NEW st \in [sh.logins -> SUBSET sh.ids], NEW q, q = Fresh(runs, pool)
    PROVE  SweepSound(q, st) /\ q.runs = runs
<1>1. sh.ids \subseteq Nat \ {0} /\ sh.pageSize \in Nat \ {0} /\ sh.maxPages \in Nat \ {0}
  BY ShopFacts
<1>2. q \in Sweeps /\ q.runs = runs /\ q.pool = pool /\ q.done = {}
  BY DEF Fresh, Sweeps
<1>3. ASSUME NEW a \in pool PROVE LoginRead(q, a, st[a])
  <2>1. q.at[a] = 0 /\ q.pages[a] = 0 /\ q.got[a] = {}
    BY DEF Fresh
  <2>2. \A i \in st[a] : i \in Nat \ {0}
    BY <1>1
  <2>3. Cardinality(q.got[a]) = 0
    BY <2>1, FS_EmptySet
  <2> QED
    BY <1>1, <1>2, <2>1, <2>2, <2>3 DEF LoginRead
<1> QED
  BY <1>2, <1>3 DEF SweepSound

\* Fewer ids to account for.
LEMMA LessListed ==
    ASSUME shop \in DOMAIN Shops, NEW q, NEW st, SweepSound(q, st), NEW less, \A a \in sh.logins : less[a] \subseteq st[a]
    PROVE  SweepSound(q, less)
<1>1. q \in Sweeps /\ q.done \subseteq q.pool /\ q.pool \subseteq sh.logins
  BY DEF SweepSound, Sweeps
<1>2. ASSUME NEW a \in q.pool PROVE LoginRead(q, a, less[a])
  <2>1. LoginRead(q, a, st[a]) /\ less[a] \subseteq st[a]
    BY <1>1 DEF SweepSound
  <2> QED
    BY <2>1 DEF LoginRead
<1> QED
  BY <1>1, <1>2 DEF SweepSound

\* A step that leaves the instance: what is sound stays so.
LEMMA SameShop ==
    ASSUME UNCHANGED shop, NEW q, NEW st, SweepSound(q, st)
    PROVE  sh' = sh /\ SweepSound(q, st)'
  BY DEF sh, SweepSound, Sweeps, LoginRead

\* One sweep moves on.
LEMMA OneSweep ==
    ASSUME SweepsSound, UNCHANGED <<shop, listing, disabled>>, advertised' \subseteq sh.ids, sh.floor \subseteq advertised',
           NEW w \in sh.sweeps, NEW q, NEW st \in [sh.logins -> SUBSET sh.ids], SweepSound(q, st),
           \A a \in sh.logins : st[a] \subseteq listing[a],
           sweep' = [sweep EXCEPT ![w] = q], steady' = [steady EXCEPT ![w] = st]
    PROVE  SweepsSound'
<1>1. sh' = sh
  BY DEF sh
<1>2. DOMAIN sweep' = sh.sweeps /\ steady' \in [sh.sweeps -> [sh.logins -> SUBSET sh.ids]]
  BY DEF SweepsSound
<1>3. ASSUME NEW v \in sh.sweeps
      PROVE  /\ \A a \in sh.logins : steady'[v][a] \subseteq listing[a]
             /\ SweepSound(sweep'[v], steady'[v])
  <2>1. CASE v = w
    <3>1. sweep'[v] = q /\ steady'[v] = st
      BY <2>1 DEF SweepsSound
    <3> QED
      BY <3>1
  <2>2. CASE v # w
    <3>1. sweep'[v] = sweep[v] /\ steady'[v] = steady[v]
      BY <2>2 DEF SweepsSound
    <3> QED
      BY <3>1 DEF SweepsSound
  <2> QED
    BY <2>1, <2>2
<1>4. ASSUME NEW v \in sh.sweeps PROVE SweepSound(sweep[v], steady[v])'
  <2>1. PICK x, y : x = sweep'[v] /\ y = steady'[v]
    OBVIOUS
  <2>2. SweepSound(x, y)'
    BY <1>3, <2>1, SameShop
  <2> QED
    BY <2>1, <2>2
<1> QED
  BY <1>1, <1>2, <1>3, <1>4 DEF SweepsSound

\* Nothing of the sweeps changes.
LEMMA NoSweep ==
    ASSUME SweepsSound, UNCHANGED <<shop, listing, advertised, sweep, steady>>, disabled' \subseteq sh.logins
    PROVE  SweepsSound'
<1>1. sh' = sh
  BY DEF sh
<1>4. ASSUME NEW v \in sh.sweeps PROVE SweepSound(sweep[v], steady[v])'
  <2>1. PICK x, y : x = sweep[v] /\ y = steady[v]
    OBVIOUS
  <2>2. SweepSound(x, y)'
    BY <2>1, SameShop DEF SweepsSound
  <2> QED
    BY <2>1, <2>2
<1> QED
  BY <1>1, <1>4 DEF SweepsSound

\* The readings stay as they are.
LEMMA ReadingsStay ==
    ASSUME ReadingsSound, UNCHANGED shop, UNCHANGED OtherVars
    PROVE  ReadingsSound'
<1>1. sh' = sh
  BY DEF sh
<1> QED
  BY <1>1 DEF ReadingsSound, OtherVars

\* A sweep begins.
LEMMA StartSweepStep ==
    ASSUME CatalogInductive, NEW w, StartSweep(w)
    PROVE  CatalogInductive'
<1>1. PICK q : q = Fresh(TRUE, sh.logins \ disabled)
  OBVIOUS
<1>2. /\ w \in sh.sweeps /\ sweep' = [sweep EXCEPT ![w] = q] /\ steady' = [steady EXCEPT ![w] = listing]
      /\ UNCHANGED <<shop, listing, disabled, advertised>> /\ UNCHANGED OtherVars
  BY <1>1 DEF StartSweep
<1>3. SweepsSound /\ shop \in DOMAIN Shops /\ listing \in [sh.logins -> SUBSET sh.ids]
      /\ advertised' \subseteq sh.ids /\ sh.floor \subseteq advertised'
  BY <1>2 DEF CatalogInductive, SweepsSound
<1>4. PICK st : st = listing
  OBVIOUS
<1>5. SweepSound(q, st)
  BY <1>1, <1>3, <1>4, FreshSound
<1>6. SweepsSound'
  BY <1>2, <1>3, <1>4, <1>5, OneSweep
<1> QED
  BY <1>2, <1>6, ReadingsStay DEF CatalogInductive

\* A page is read.
LEMMA ModelsPageStep ==
    ASSUME CatalogInductive, NEW w, NEW a, ModelsPage(w, a)
    PROVE  CatalogInductive'
<1>1. PICK q : q = sweep[w]
  OBVIOUS
<1>2. PICK found : found = PageOf(a, q.at[a])
  OBVIOUS
<1>3. PICK over : over = NoMore(a, found, q.pages[a] + 1)
  OBVIOUS
<1>4. PICK p : p = Paged(q, a, found, over)
  OBVIOUS
<1>5. PICK st : st = steady[w]
  OBVIOUS
<1>6. /\ w \in sh.sweeps /\ a \in q.pool /\ a \notin q.done /\ sweep' = [sweep EXCEPT ![w] = p]
      /\ UNCHANGED <<shop, listing, disabled, advertised, steady>> /\ UNCHANGED OtherVars
  BY <1>1, <1>2, <1>3, <1>4 DEF ModelsPage, Asking
<1>7. /\ SweepsSound /\ shop \in DOMAIN Shops /\ listing \in [sh.logins -> SUBSET sh.ids]
      /\ advertised' \subseteq sh.ids /\ sh.floor \subseteq advertised'
      /\ st \in [sh.logins -> SUBSET sh.ids] /\ SweepSound(q, st) /\ \A b \in sh.logins : st[b] \subseteq listing[b]
      /\ steady' = [steady EXCEPT ![w] = st]
  BY <1>1, <1>5, <1>6 DEF CatalogInductive, SweepsSound
<1>8. a \in sh.logins
  BY <1>6, <1>7 DEF SweepSound, Sweeps
<1>9. SweepSound(p, st)
  BY <1>2, <1>3, <1>4, <1>6, <1>7, <1>8, PagedSound
<1>10. SweepsSound'
  BY <1>6, <1>7, <1>9, OneSweep
<1> QED
  BY <1>6, <1>10, ReadingsStay DEF CatalogInductive

\* A login does not answer.
LEMMA ModelsFailStep ==
    ASSUME CatalogInductive, NEW w, NEW a, ModelsFail(w, a)
    PROVE  CatalogInductive'
<1>1. PICK q : q = sweep[w]
  OBVIOUS
<1>2. PICK p : p = [q EXCEPT !.failed = q.failed \cup {a}]
  OBVIOUS
<1>3. PICK st : st = steady[w]
  OBVIOUS
<1>4. /\ w \in sh.sweeps /\ a \in q.pool /\ sweep' = [sweep EXCEPT ![w] = p]
      /\ UNCHANGED <<shop, listing, disabled, advertised, steady>> /\ UNCHANGED OtherVars
  BY <1>1, <1>2 DEF ModelsFail, Asking
<1>5. /\ SweepsSound /\ advertised' \subseteq sh.ids /\ sh.floor \subseteq advertised'
      /\ st \in [sh.logins -> SUBSET sh.ids] /\ SweepSound(q, st) /\ \A b \in sh.logins : st[b] \subseteq listing[b]
      /\ steady' = [steady EXCEPT ![w] = st]
  BY <1>1, <1>3, <1>4 DEF CatalogInductive, SweepsSound
<1>6. /\ p \in Sweeps /\ p.done = q.done /\ p.pool = q.pool /\ p.got = q.got /\ p.at = q.at /\ p.pages = q.pages
  BY <1>2, <1>4, <1>5 DEF SweepSound, Sweeps
<1>7. SweepSound(p, st)
  BY <1>5, <1>6 DEF SweepSound, LoginRead
<1>8. SweepsSound'
  BY <1>4, <1>5, <1>7, OneSweep
<1> QED
  BY <1>4, <1>8, ReadingsStay DEF CatalogInductive

\* A sweep ends.
LEMMA EndSweepStep ==
    ASSUME CatalogInductive, NEW w, EndSweep(w)
    PROVE  CatalogInductive'
<1>1. PICK q : q = Fresh(FALSE, {})
  OBVIOUS
<1>2. PICK st : st = NothingListed
  OBVIOUS
<1>3. /\ w \in sh.sweeps /\ sweep' = [sweep EXCEPT ![w] = q] /\ steady' = [steady EXCEPT ![w] = st]
      /\ UNCHANGED <<shop, listing, disabled>> /\ UNCHANGED OtherVars
      /\ advertised' = advertised \/ advertised' = Union(w)
  BY <1>1, <1>2 DEF EndSweep, Resting
<1>4. SweepsSound /\ shop \in DOMAIN Shops /\ advertised \subseteq sh.ids /\ sh.floor \subseteq advertised
      /\ SweepSound(sweep[w], steady[w])
  BY <1>3 DEF CatalogInductive, SweepsSound
<1>5. Union(w) \subseteq sh.ids /\ sh.floor \subseteq Union(w)
  <2>1. sweep[w].got \in [sh.logins -> SUBSET sh.ids] /\ sweep[w].done \subseteq sh.logins
    BY <1>4 DEF SweepSound, Sweeps
  <2>2. \A a \in Read(w) : sweep[w].got[a] \subseteq sh.ids
    BY <2>1 DEF Read
  <2>3. sh.floor \subseteq sh.ids
    BY <1>4, ShopFacts
  <2>4. ASSUME NEW i \in Union(w) PROVE i \in sh.ids
    <3>1. CASE i \in sh.floor
      BY <3>1, <2>3
    <3>2. ASSUME NEW a \in Read(w), i \in sweep[w].got[a] PROVE i \in sh.ids
      BY <3>2, <2>2
    <3> QED
      BY <3>1, <3>2 DEF Union
  <2>5. sh.floor \subseteq Union(w)
    BY DEF Union
  <2> QED
    BY <2>4, <2>5
<1>6. st \in [sh.logins -> SUBSET sh.ids] /\ \A a \in sh.logins : st[a] \subseteq listing[a]
  BY <1>2 DEF NothingListed
<1>7. SweepSound(q, st)
  BY <1>1, <1>4, <1>6, FreshSound
<1>8. SweepsSound'
  BY <1>3, <1>4, <1>5, <1>6, <1>7, OneSweep
<1> QED
  BY <1>3, <1>8, ReadingsStay DEF CatalogInductive

\* A login lists other ids.
LEMMA ListStep ==
    ASSUME CatalogInductive, NEW a, ListChanges(a)
    PROVE  CatalogInductive'
<1>1. PICK new \in SUBSET sh.ids : listing' = [listing EXCEPT ![a] = new]
  BY DEF ListChanges
<1>2. /\ a \in sh.logins /\ steady' = [w \in sh.sweeps |-> [steady[w] EXCEPT ![a] = @ \cap listing'[a]]]
      /\ UNCHANGED <<shop, disabled, sweep, advertised>> /\ UNCHANGED OtherVars /\ sh' = sh
  BY DEF ListChanges, sh
<1>3. SweepsSound /\ shop \in DOMAIN Shops /\ listing \in [sh.logins -> SUBSET sh.ids]
  BY DEF CatalogInductive, SweepsSound
<1>4. listing' \in [sh.logins -> SUBSET sh.ids] /\ listing'[a] = new
      /\ \A b \in sh.logins \ {a} : listing'[b] = listing[b]
  BY <1>1, <1>2, <1>3
<1>5. ASSUME NEW w \in sh.sweeps
      PROVE  /\ steady'[w] \in [sh.logins -> SUBSET sh.ids]
             /\ \A b \in sh.logins : steady'[w][b] \subseteq listing'[b]
             /\ SweepSound(sweep[w], steady[w])'
  <2>1. /\ steady[w] \in [sh.logins -> SUBSET sh.ids] /\ SweepSound(sweep[w], steady[w])
        /\ \A b \in sh.logins : steady[w][b] \subseteq listing[b]
    BY <1>3 DEF SweepsSound
  <2>2. PICK less : less = [steady[w] EXCEPT ![a] = steady[w][a] \cap new]
    OBVIOUS
  <2>3. steady'[w] = less
    BY <1>2, <1>4, <2>2
  <2>4. less \in [sh.logins -> SUBSET sh.ids] /\ less[a] = steady[w][a] \cap new
        /\ \A b \in sh.logins \ {a} : less[b] = steady[w][b]
    BY <1>2, <2>1, <2>2
  <2>5. \A b \in sh.logins : less[b] \subseteq steady[w][b] /\ less[b] \subseteq listing'[b]
    BY <1>4, <2>1, <2>4
  <2>6. PICK q : q = sweep[w]
    OBVIOUS
  <2>7. SweepSound(q, less)
    BY <1>3, <2>1, <2>5, <2>6, LessListed
  <2>8. SweepSound(q, less)'
    BY <1>2, <2>7, SameShop
  <2>9. sweep'[w] = q
    BY <1>2, <2>6
  <2> QED
    BY <2>3, <2>4, <2>5, <2>8, <2>9
<1>6. SweepsSound'
  <2>1. steady' \in [sh.sweeps -> [sh.logins -> SUBSET sh.ids]]
    BY <1>2, <1>5
  <2> QED
    BY <1>2, <1>3, <1>4, <1>5, <2>1 DEF SweepsSound
<1> QED
  BY <1>2, <1>6, ReadingsStay DEF CatalogInductive

\* The readings, and openrouter.
LEMMA ReadingsStep ==
    ASSUME CatalogInductive,
           (\E rows : OrRefresh(rows)) \/ (\E c : OrSaved(c)) \/ Harvest \/ (\E n : UpsertLands(n))
             \/ PrimeReads \/ PrimeCaches \/ RebootCaches \/ (\E k : QuotaReply(k))
    PROVE  CatalogInductive' /\ UNCHANGED sweep
<1>1. UNCHANGED shop /\ UNCHANGED SweepVars /\ sh' = sh
  BY DEF OrRefresh, OrSaved, Harvest, UpsertLands, PrimeReads, PrimeCaches, RebootCaches, QuotaReply, sh
<1>2. UNCHANGED <<listing, disabled, sweep, steady, advertised>>
  BY <1>1 DEF SweepVars
<1>3. SweepsSound'
  <2>1. SweepsSound /\ disabled' \subseteq sh.logins
    BY <1>2 DEF CatalogInductive, SweepsSound
  <2> QED
    BY <2>1, <1>1, <1>2, NoSweep
<1>4. ReadingsSound
  BY DEF CatalogInductive
<1>5. ASSUME NEW rows, OrRefresh(rows) PROVE ReadingsSound'
  BY <1>1, <1>4, <1>5 DEF OrRefresh, ReadingsSound
<1>6. ASSUME NEW c, OrSaved(c) PROVE ReadingsSound'
  BY <1>1, <1>4, <1>6 DEF OrSaved, ReadingsSound
<1>7. ASSUME Harvest PROVE ReadingsSound'
  <2>1. /\ clock' = clock + 1 /\ cache' = clock' /\ inserts' = inserts \cup {clock'}
        /\ UNCHANGED <<orTable, orConfig, stored, prime, quota, lastReply>>
    BY <1>7 DEF Harvest
  <2>2. clock \in Nat /\ clock' \in Nat /\ clock' \in 1..clock' /\ 1..clock \subseteq 1..clock'
    BY <2>1, <1>4 DEF ReadingsSound
  <2>3. inserts' \subseteq 1..clock' /\ {cache', stored', prime'.row} \subseteq {Unknown} \cup 1..clock'
    BY <2>1, <2>2, <1>4 DEF ReadingsSound
  <2> QED
    BY <2>1, <2>2, <2>3, <1>1, <1>4 DEF ReadingsSound
<1>8. ASSUME NEW n, UpsertLands(n) PROVE ReadingsSound'
  BY <1>1, <1>4, <1>8 DEF UpsertLands, ReadingsSound
<1>9. ASSUME PrimeReads PROVE ReadingsSound'
  BY <1>1, <1>4, <1>9 DEF PrimeReads, ReadingsSound
<1>10. ASSUME PrimeCaches PROVE ReadingsSound'
  BY <1>1, <1>4, <1>10 DEF PrimeCaches, ReadingsSound
<1>11. ASSUME RebootCaches PROVE ReadingsSound'
  BY <1>1, <1>4, <1>11 DEF RebootCaches, NotPrimed, ReadingsSound
<1>12. ASSUME NEW k, QuotaReply(k) PROVE ReadingsSound'
  <2>1. /\ k \in sh.keys /\ lastReply' = [lastReply EXCEPT ![k] = lastReply[k] + 1]
        /\ quota' = IF TakesQuota(k) THEN [j \in DOMAIN quota \cup {k} |-> IF j = k THEN lastReply'[k] ELSE quota[j]]
                    ELSE quota
        /\ UNCHANGED <<orTable, orConfig, clock, cache, inserts, stored, prime>>
    BY <1>12 DEF QuotaReply
  <2>2. DOMAIN lastReply = sh.keys /\ DOMAIN quota \subseteq sh.keys /\ \A j \in DOMAIN quota : quota[j] = lastReply[j]
    BY <1>4 DEF ReadingsSound
  <2>3. DOMAIN lastReply' = sh.keys /\ \A j \in sh.keys \ {k} : lastReply'[j] = lastReply[j]
    BY <2>1, <2>2
  <2>4. DOMAIN quota' \subseteq sh.keys /\ \A j \in DOMAIN quota' : quota'[j] = lastReply'[j]
    <3>1. CASE TakesQuota(k)
      BY <3>1, <2>1, <2>2, <2>3
    <3>2. CASE ~TakesQuota(k)
      <4>1. k \notin DOMAIN quota
        BY <3>2 DEF TakesQuota
      <4> QED
        BY <4>1, <3>2, <2>1, <2>2, <2>3
    <3> QED
      BY <3>1, <3>2
  <2> QED
    BY <2>1, <2>3, <2>4, <1>1, <1>4 DEF ReadingsSound
<1> QED
  BY <1>2, <1>3, <1>5, <1>6, <1>7, <1>8, <1>9, <1>10, <1>11, <1>12 DEF CatalogInductive

\* The first state.
LEMMA CatalogStart == CatalogInit => CatalogInductive
<1> SUFFICES ASSUME CatalogInit PROVE CatalogInductive
  OBVIOUS
<1>1. shop \in DOMAIN Shops
  BY DEF CatalogInit
<1>2. PICK q : q = Resting
  OBVIOUS
<1>3. PICK st : st = NothingListed
  OBVIOUS
<1>4. st \in [sh.logins -> SUBSET sh.ids] /\ \A a \in sh.logins : st[a] = {}
  BY <1>3 DEF NothingListed
<1>5. SweepSound(q, st)
  BY <1>1, <1>2, <1>4, FreshSound DEF Resting
<1>6. sweep = [w \in sh.sweeps |-> q] /\ steady = [w \in sh.sweeps |-> st]
  BY <1>2, <1>3 DEF CatalogInit
<1>7. SweepsSound
  <2>1. disabled = {} /\ listing = sh.listed /\ advertised = sh.floor
    BY DEF CatalogInit
  <2>2. listing \in [sh.logins -> SUBSET sh.ids] /\ sh.floor \subseteq sh.ids
    BY <2>1, <1>1, ShopFacts
  <2> QED
    BY <1>1, <1>4, <1>5, <1>6, <2>1, <2>2 DEF SweepsSound
<1>8. ReadingsSound
  BY DEF CatalogInit, ReadingsSound, NotPrimed
<1> QED
  BY <1>7, <1>8 DEF CatalogInductive

\* Every step keeps the invariant.
LEMMA CatalogStep == CatalogInductive /\ [CatalogNext]_catalogVars => CatalogInductive'
<1> SUFFICES ASSUME CatalogInductive, [CatalogNext]_catalogVars PROVE CatalogInductive'
  OBVIOUS
<1>1. ASSUME NEW a, Toggled(a) PROVE CatalogInductive'
  <2>1. UNCHANGED <<shop, listing, sweep, steady, advertised>> /\ UNCHANGED OtherVars
        /\ disabled' \in {disabled \ {a}, disabled \cup {a}} /\ a \in sh.logins
    BY <1>1 DEF Toggled
  <2>2. SweepsSound /\ disabled' \subseteq sh.logins
    BY <2>1 DEF CatalogInductive, SweepsSound
  <2>3. SweepsSound'
    BY <2>1, <2>2, NoSweep
  <2> QED
    BY <2>1, <2>3, ReadingsStay DEF CatalogInductive
<1>2. CASE UNCHANGED catalogVars
  <2>1. UNCHANGED <<shop, listing, disabled, sweep, steady, advertised>> /\ UNCHANGED OtherVars
    BY <1>2 DEF catalogVars, OtherVars
  <2>2. SweepsSound /\ disabled' \subseteq sh.logins
    BY <2>1 DEF CatalogInductive, SweepsSound
  <2>3. SweepsSound'
    BY <2>1, <2>2, NoSweep
  <2> QED
    BY <2>1, <2>3, ReadingsStay DEF CatalogInductive
<1> QED
  BY <1>1, <1>2, StartSweepStep, ModelsPageStep, ModelsFailStep, EndSweepStep, ListStep, ReadingsStep DEF CatalogNext

\* CatalogInductive holds of claudecode.js, openrouter.js, db.js and quota.js, for any logins,
\* ids, pages, sweeps and readings.
THEOREM CatalogHolds == CatalogSpec => []CatalogInductive
  BY CatalogStart, CatalogStep, PTL DEF CatalogSpec

\* What is advertised for openrouter is routed there, the floor is kept, and readings are real
\* (openrouter.js 80-130, claudecode.js 96-128, db.js 92-112, quota.js 52-91).
THEOREM CatalogSound == CatalogSpec => []CatalogInv
  BY CatalogHolds, CatalogIsSound, PTL

\* Only the end of a sweep ends it.
LEMMA WhoEnds ==
    ASSUME CatalogInductive, [CatalogNext]_catalogVars, NEW w \in sh.sweeps, sweep[w].runs, ~sweep'[w].runs
    PROVE  EndSweep(w)
<1>1. DOMAIN sweep = sh.sweeps /\ \A v \in sh.sweeps : SweepSound(sweep[v], steady[v])
  BY DEF CatalogInductive, SweepsSound
<1>2. ASSUME sweep' = sweep PROVE FALSE
  BY <1>2
<1>3. ASSUME NEW v, NEW q, q.runs, sweep' = [sweep EXCEPT ![v] = q] PROVE FALSE
  BY <1>1, <1>3
<1>4. ASSUME NEW v, StartSweep(v) PROVE FALSE
  <2>1. PICK q : q = Fresh(TRUE, sh.logins \ disabled)
    OBVIOUS
  <2>2. q.runs
    BY <2>1 DEF Fresh
  <2>3. sweep' = [sweep EXCEPT ![v] = q]
    BY <2>1, <1>4 DEF StartSweep
  <2> QED
    BY <2>2, <2>3, <1>3
<1>5. ASSUME NEW v, NEW a, ModelsPage(v, a) PROVE FALSE
  <2>1. PICK over : over = NoMore(a, PageOf(a, sweep[v].at[a]), sweep[v].pages[a] + 1)
    OBVIOUS
  <2>2. PICK q : q = Paged(sweep[v], a, PageOf(a, sweep[v].at[a]), over)
    OBVIOUS
  <2>3. q.runs = sweep[v].runs
    BY <2>2 DEF Paged
  <2>4. sweep[v].runs /\ sweep' = [sweep EXCEPT ![v] = q]
    BY <2>1, <2>2, <1>5 DEF ModelsPage
  <2> QED
    BY <2>3, <2>4, <1>3
<1>6. ASSUME NEW v, NEW a, ModelsFail(v, a) PROVE FALSE
  <2>1. PICK x : x = sweep[v]
    OBVIOUS
  <2>2. PICK q : q = [x EXCEPT !.failed = x.failed \cup {a}]
    OBVIOUS
  <2>3. v \in sh.sweeps /\ x.runs /\ sweep' = [sweep EXCEPT ![v] = q]
    BY <2>1, <2>2, <1>6 DEF ModelsFail
  <2>4. x \in Sweeps
    BY <2>1, <2>3, <1>1 DEF SweepSound
  <2>5. q.runs
    BY <2>2, <2>3, <2>4 DEF Sweeps
  <2> QED
    BY <2>3, <2>5, <1>3
<1>7. ASSUME NEW v, EndSweep(v), v # w PROVE FALSE
  <2>1. sweep' = [sweep EXCEPT ![v] = Resting]
    BY <1>7 DEF EndSweep
  <2>2. sweep'[w] = sweep[w]
    BY <2>1, <1>1, <1>7
  <2> QED
    BY <2>2
<1>8. ASSUME NEW a, ListChanges(a) \/ Toggled(a) PROVE FALSE
  BY <1>2, <1>8 DEF ListChanges, Toggled
<1>9. CASE UNCHANGED catalogVars
  BY <1>2, <1>9 DEF catalogVars
<1> QED
  BY <1>2, <1>4, <1>5, <1>6, <1>7, <1>8, <1>9, ReadingsStep DEF CatalogNext

\* What it leaves was listed all the while.
LEMMA WholeStep ==
    ASSUME CatalogInductive, [CatalogNext]_catalogVars
    PROVE  \A w \in sh.sweeps : sweep[w].runs /\ ~sweep'[w].runs /\ Read(w) # {} =>
              \A a \in Read(w) : \A i \in steady[w][a] : i \in advertised' /\ a \in catalog'[i]
<1> SUFFICES ASSUME NEW w \in sh.sweeps, sweep[w].runs, ~sweep'[w].runs,
                    NEW a \in Read(w), NEW i \in steady[w][a]
             PROVE  i \in advertised' /\ a \in catalog'[i]
  OBVIOUS
<1>1. EndSweep(w)
  BY WhoEnds
<1>2. SweepSound(sweep[w], steady[w])
  BY DEF CatalogInductive, SweepsSound
<1>3. a \in sweep[w].done /\ a \in sweep[w].pool
  BY <1>2 DEF Read, SweepSound
<1>4. i \in sweep[w].got[a]
  BY <1>2, <1>3 DEF SweepSound, LoginRead
<1>5. /\ advertised' = Union(w)
      /\ catalog' = [k \in UNION {sweep[w].got[b] : b \in Read(w)} |-> {b \in Read(w) : k \in sweep[w].got[b]}]
  BY <1>1 DEF EndSweep
<1>6. i \in UNION {sweep[w].got[b] : b \in Read(w)}
  BY <1>4
<1> QED
  BY <1>4, <1>5, <1>6 DEF Union

\* At the end of a sweep, all that a login which answered has listed since it began is
\* advertised with that login (claudecode.js 56-128).
THEOREM SweepsWhole == CatalogSpec => SweepsAreWhole
<1>1. CatalogInductive /\ [CatalogNext]_catalogVars =>
        [\A w \in sh.sweeps : sweep[w].runs /\ ~sweep'[w].runs /\ Read(w) # {} =>
          \A a \in Read(w) : \A i \in steady[w][a] : i \in advertised' /\ a \in catalog'[i]]_catalogVars
  BY WholeStep
<1> QED
  BY <1>1, CatalogHolds, PTL DEF CatalogSpec, SweepsAreWhole

(* Sums. *)

\* g sums the weights w of the subsets of S, as the folds of the library do it: one chosen element
\* after the other.
Summing(g, w, S) ==
    /\ g \in [SUBSET S -> Nat]
    /\ \A s \in SUBSET S :
          g[s] = IF s = {} THEN 0 ELSE w[CHOOSE x \in s : TRUE] + g[s \ {CHOOSE x \in s : TRUE}]

\* Induction on the size of a finite set: what holds of no smallest counterexample holds.
LEMMA SmallestFails ==
    ASSUME NEW S, IsFiniteSet(S), NEW Bad \in SUBSET (SUBSET S), Bad # {}
    PROVE  \E s \in Bad : \A t \in Bad : Cardinality(s) <= Cardinality(t)
<1>1. \A s \in SUBSET S : IsFiniteSet(s) /\ Cardinality(s) \in Nat
  BY FS_Subset, FS_CardinalityType
<1> DEFINE N == {Cardinality(s) : s \in Bad}
<1>2. N \in SUBSET Nat /\ N # {}
  BY <1>1
<1>3. PICK n \in N : \A m \in N : n <= m
  <2> HIDE DEF N
  <2> QED
    BY <1>2, LeastNumber
<1> QED
  BY <1>3

\* Every finite set of numbers has its sums.
LEMMA SumsExist ==
    ASSUME NEW S, IsFiniteSet(S), NEW w \in [S -> Nat]
    PROVE  \E g : Summing(g, w, S)
<1> DEFINE Pick(s) == CHOOSE x \in s : TRUE
           Right(g, s) == g[s] = IF s = {} THEN 0 ELSE w[Pick(s)] + g[s \ {Pick(s)}]
           UpTo(n) == \E g \in [SUBSET S -> Nat] : \A s \in SUBSET S : Cardinality(s) <= n => Right(g, s)
           Wrong == {n \in Nat : ~UpTo(n)}
<1>1. \A s \in SUBSET S : IsFiniteSet(s) /\ Cardinality(s) \in Nat
  BY FS_Subset, FS_CardinalityType
<1>2. \A s \in SUBSET S : s # {} => Pick(s) \in s
  OBVIOUS
<1>3. \A s \in SUBSET S : s # {} => Cardinality(s \ {Pick(s)}) = Cardinality(s) - 1 /\ Cardinality(s) # 0
  BY <1>1, <1>2, FS_RemoveElement, FS_EmptySet
<1>4. UpTo(0)
  <2>1. [s \in SUBSET S |-> 0] \in [SUBSET S -> Nat]
    OBVIOUS
  <2>2. ASSUME NEW s \in SUBSET S, Cardinality(s) <= 0 PROVE s = {}
    <3>1. Cardinality(s) = 0 /\ IsFiniteSet(s)
      BY <1>1, <2>2
    <3> QED
      BY <3>1, FS_EmptySet
  <2> QED
    BY <2>1, <2>2
<1>5. ASSUME NEW n \in Nat, UpTo(n) PROVE UpTo(n + 1)
  <2>1. PICK g \in [SUBSET S -> Nat] : \A s \in SUBSET S : Cardinality(s) <= n => Right(g, s)
    BY <1>5
  <2> DEFINE h == [s \in SUBSET S |-> IF Cardinality(s) <= n THEN g[s] ELSE w[Pick(s)] + g[s \ {Pick(s)}]]
  <2>2. h \in [SUBSET S -> Nat]
    <3>1. ASSUME NEW s \in SUBSET S, ~(Cardinality(s) <= n) PROVE w[Pick(s)] + g[s \ {Pick(s)}] \in Nat
      <4>1. s # {}
        <5>1. s = {} => Cardinality(s) = 0
          BY FS_EmptySet
        <5> QED
          BY <3>1, <5>1
      <4>2. Pick(s) \in S /\ (s \ {Pick(s)}) \in SUBSET S
        BY <4>1, <1>2
      <4> HIDE DEF Pick
      <4> QED
        BY <4>2
    <3> QED
      BY <3>1
  <2>3. ASSUME NEW s \in SUBSET S, Cardinality(s) <= n + 1 PROVE Right(h, s)
    <3>1. CASE s = {}
      <4>1. Right(g, s) /\ Cardinality(s) <= n
        BY <3>1, <2>1, FS_EmptySet
      <4> QED
        BY <3>1, <4>1
    <3>2. CASE s # {}
      <4>1. (s \ {Pick(s)}) \in SUBSET S /\ Cardinality(s \ {Pick(s)}) <= n
        BY <3>2, <1>1, <1>3, <2>3
      <4>2. h[s \ {Pick(s)}] = g[s \ {Pick(s)}]
        BY <4>1
      <4>3. h[s] = w[Pick(s)] + g[s \ {Pick(s)}]
        <5>1. Cardinality(s) <= n => Right(g, s)
          BY <2>1
        <5> QED
          BY <5>1, <3>2
      <4> QED
        BY <4>2, <4>3, <3>2
    <3> QED
      BY <3>1, <3>2
  <2> HIDE DEF h, Right
  <2> QED
    BY <2>2, <2>3
<1>6. Wrong = {}
  <2>1. SUFFICES ASSUME Wrong # {} PROVE FALSE
    OBVIOUS
  <2>2. PICK n \in Wrong : \A m \in Wrong : n <= m
    <3>1. Wrong \in SUBSET Nat
      OBVIOUS
    <3> HIDE DEF Wrong
    <3> QED
      BY <2>1, <3>1, LeastNumber
  <2>3. n \in Nat /\ ~UpTo(n) /\ n # 0
    <3> HIDE DEF UpTo
    <3> QED
      BY <1>4
  <2>4. n - 1 \in Nat /\ ~(n <= n - 1) /\ (n - 1) + 1 = n
    BY <2>3
  <2>5. UpTo(n - 1)
    <3> HIDE DEF UpTo
    <3> QED
      BY <2>2, <2>4
  <2>6. UpTo((n - 1) + 1)
    <3> HIDE DEF UpTo
    <3> QED
      BY <2>4, <2>5, <1>5
  <2> HIDE DEF UpTo
  <2> QED
    BY <2>3, <2>4, <2>6
<1>7. Cardinality(S) \in Nat
  BY FS_CardinalityType
<1>8. UpTo(Cardinality(S))
  <2> HIDE DEF UpTo
  <2> QED
    BY <1>6, <1>7
<1>9. PICK g \in [SUBSET S -> Nat] : \A s \in SUBSET S : Cardinality(s) <= Cardinality(S) => Right(g, s)
  BY <1>8
<1>10. \A s \in SUBSET S : Cardinality(s) <= Cardinality(S)
  BY FS_Subset
<1> QED
  BY <1>9, <1>10 DEF Summing

\* Where an element is taken out first does not matter.
LEMMA SumsAdd ==
    ASSUME NEW S, IsFiniteSet(S), NEW w \in [S -> Nat], NEW g, Summing(g, w, S),
           NEW s \in SUBSET S, NEW x \in S \ s
    PROVE  g[s \cup {x}] = w[x] + g[s]
<1> DEFINE Good(t) == \A y \in S \ t : g[t \cup {y}] = w[y] + g[t]
           Bad == {t \in SUBSET S : ~Good(t)}
<1>1. \A t \in SUBSET S : IsFiniteSet(t) /\ Cardinality(t) \in Nat
  BY FS_Subset, FS_CardinalityType
<1>2. \A t \in SUBSET S : \A y \in t : Cardinality(t \ {y}) < Cardinality(t)
  <2>1. ASSUME NEW t \in SUBSET S, NEW y \in t PROVE Cardinality(t \ {y}) < Cardinality(t)
    <3>1. IsFiniteSet(t) /\ Cardinality(t) \in Nat
      BY <1>1
    <3>2. Cardinality(t \ {y}) = Cardinality(t) - 1
      BY <3>1, FS_RemoveElement
    <3> QED
      BY <3>1, <3>2
  <2> QED
    BY <2>1
<1>3. Bad = {}
  <2>1. SUFFICES ASSUME Bad # {} PROVE FALSE
    OBVIOUS
  <2>2. PICK t \in Bad : \A u \in Bad : Cardinality(t) <= Cardinality(u)
    <3> HIDE DEF Good
    <3>1. Bad \in SUBSET (SUBSET S)
      OBVIOUS
    <3> HIDE DEF Bad
    <3> QED
      BY <2>1, <3>1, SmallestFails
  <2>3. \A u \in SUBSET S : Cardinality(u) < Cardinality(t) => Good(u)
    <3>1. t \in SUBSET S
      OBVIOUS
    <3>2. ASSUME NEW u \in SUBSET S, Cardinality(u) < Cardinality(t) PROVE Good(u)
      <4>1. Cardinality(u) \in Nat /\ Cardinality(t) \in Nat
        BY <1>1, <3>1
      <4>2. u \notin Bad
        BY <2>2, <3>2, <4>1
      <4> QED
        BY <4>2
    <3> QED
      BY <3>2
  <2>4. PICK y \in S \ t : g[t \cup {y}] # w[y] + g[t]
    OBVIOUS
  <2>5. t \in SUBSET S /\ (t \cup {y}) \in SUBSET S
    OBVIOUS
  <2> DEFINE d == CHOOSE z \in t \cup {y} : TRUE
  <2>6. d \in t \cup {y} /\ g[t \cup {y}] = w[d] + g[(t \cup {y}) \ {d}]
    <3>1. t \cup {y} # {}
      OBVIOUS
    <3>2. d \in t \cup {y}
      BY <3>1
    <3> QED
      BY <2>5, <3>1, <3>2 DEF Summing
  <2> HIDE DEF d
  <2>7. CASE d = y
    <3>1. (t \cup {y}) \ {d} = t
      BY <2>7, <2>4
    <3> QED
      BY <2>4, <2>6, <2>7, <3>1
  <2>8. CASE d # y
    <3>1. d \in t /\ d \in S
      BY <2>5, <2>6, <2>8
    <3> DEFINE u == t \ {d}
    <3>2. u \in SUBSET S /\ Cardinality(u) < Cardinality(t)
      BY <1>2, <2>5, <3>1
    <3>3. Good(u)
      <4> HIDE DEF u, Good
      <4> QED
        BY <2>3, <3>2
    <3>4. g[u \cup {y}] = w[y] + g[u]
      <4>1. y \in S \ u
        BY <2>4
      <4> QED
        BY <3>3, <4>1
    <3>5. g[u \cup {d}] = w[d] + g[u]
      <4>1. d \in S \ u
        BY <3>1
      <4> QED
        BY <3>3, <4>1
    <3>6. u \cup {d} = t /\ (t \cup {y}) \ {d} = u \cup {y}
      BY <3>1, <2>8, <2>4
    <3>7. g[u] \in Nat /\ w[d] \in Nat /\ w[y] \in Nat
      BY <3>1, <3>2, <2>4 DEF Summing
    <3> HIDE DEF u
    <3>8. g[t \cup {y}] = w[d] + (w[y] + g[u])
      BY <2>6, <3>4, <3>6
    <3>9. g[t] = w[d] + g[u]
      BY <3>5, <3>6
    <3>10. g[t \cup {y}] = w[y] + g[t]
      BY <3>7, <3>8, <3>9
    <3> QED
      BY <2>4, <3>10
  <2> QED
    BY <2>7, <2>8
<1> QED
  BY <1>3

\* The sums of a smaller set are those of the larger.
LEMMA SumsAgree ==
    ASSUME NEW S, IsFiniteSet(S), NEW T \in SUBSET S, NEW w \in [S -> Nat], NEW v \in [T -> Nat],
           \A x \in T : v[x] = w[x],
           NEW g, Summing(g, w, S), NEW h, Summing(h, v, T)
    PROVE  \A s \in SUBSET T : g[s] = h[s]
<1> DEFINE Bad == {s \in SUBSET T : g[s] # h[s]}
<1>1. \A s \in SUBSET S : IsFiniteSet(s) /\ Cardinality(s) \in Nat
  BY FS_Subset, FS_CardinalityType
<1>2. Bad = {}
  <2>1. SUFFICES ASSUME Bad # {} PROVE FALSE
    OBVIOUS
  <2>2. PICK t \in Bad : \A u \in Bad : Cardinality(t) <= Cardinality(u)
    <3>1. Bad \in SUBSET (SUBSET S)
      OBVIOUS
    <3> HIDE DEF Bad
    <3> QED
      BY <2>1, <3>1, SmallestFails
  <2>3. t \in SUBSET T /\ t \in SUBSET S /\ g[t] # h[t]
    OBVIOUS
  <2> DEFINE d == CHOOSE z \in t : TRUE
  <2>4. t # {}
    BY <2>3 DEF Summing
  <2>5. d \in t
    BY <2>4
  <2>6. g[t] = w[d] + g[t \ {d}] /\ h[t] = v[d] + h[t \ {d}]
    BY <2>3, <2>4 DEF Summing
  <2> HIDE DEF d
  <2>7. (t \ {d}) \in SUBSET T /\ (t \ {d}) \in SUBSET S /\ v[d] = w[d]
    BY <2>3, <2>5
  <2>8. Cardinality(t \ {d}) < Cardinality(t)
    <3>1. IsFiniteSet(t) /\ Cardinality(t) \in Nat
      BY <1>1, <2>3
    <3>2. Cardinality(t \ {d}) = Cardinality(t) - 1
      BY <3>1, <2>5, FS_RemoveElement
    <3> QED
      BY <3>1, <3>2
  <2>9. g[t \ {d}] = h[t \ {d}]
    <3>1. Cardinality(t \ {d}) \in Nat /\ Cardinality(t) \in Nat
      BY <1>1, <2>3, <2>7
    <3>2. (t \ {d}) \notin Bad
      BY <2>2, <2>8, <3>1
    <3> QED
      BY <2>7, <3>2
  <2> QED
    BY <2>3, <2>6, <2>7, <2>9
<1> QED
  BY <1>2

\* The library's sum over a set is the one of these sums that there is.
LEMMA SumIsSum ==
    ASSUME NEW S, IsFiniteSet(S), NEW f, \A x \in S : f[x] \in Nat
    PROVE  \E g : Summing(g, [x \in S |-> f[x]], S) /\ SumFunctionOnSet(f, S) = g[S]
<1> DEFINE w == [x \in S |-> f[x]]
           Body(it) == [s \in SUBSET S |->
               IF s = {} THEN 0 ELSE f[CHOOSE x \in s : TRUE] + it[s \ {CHOOSE x \in s : TRUE}]]
           iter == CHOOSE it : it = Body(it)
<1>1. w \in [S -> Nat]
  OBVIOUS
<1>2. ASSUME NEW s \in SUBSET S, s # {} PROVE w[CHOOSE x \in s : TRUE] = f[CHOOSE x \in s : TRUE]
  <2>1. (CHOOSE x \in s : TRUE) \in S
    BY <1>2
  <2> QED
    BY <2>1
<1>3. PICK g : Summing(g, w, S)
  <2> HIDE DEF w
  <2> QED
    BY <1>1, SumsExist
<1>4. g = Body(g)
  <2>1. g = [s \in SUBSET S |-> g[s]]
    BY <1>3 DEF Summing
  <2>2. \A s \in SUBSET S : g[s] = Body(g)[s]
    <3> HIDE DEF w
    <3> QED
      BY <1>2, <1>3 DEF Summing
  <2> QED
    BY <2>1, <2>2
<1>5. iter = Body(iter)
  <2> HIDE DEF Body
  <2> QED
    BY <1>4
<1>6. SumFunctionOnSet(f, S) = iter[S]
  BY DEF SumFunctionOnSet, FoldFunctionOnSet, MapThenFoldSet
<1>7. \A s \in SUBSET S : iter[s] = Body(iter)[s] /\ g[s] = Body(g)[s]
  <2> HIDE DEF Body
  <2> QED
    BY <1>4, <1>5
<1> DEFINE Bad == {s \in SUBSET S : iter[s] # g[s]}
<1>8. Bad = {}
  <2>1. SUFFICES ASSUME Bad # {} PROVE FALSE
    OBVIOUS
  <2>2. PICK t \in Bad : \A u \in Bad : Cardinality(t) <= Cardinality(u)
    <3>1. Bad \in SUBSET (SUBSET S)
      OBVIOUS
    <3> HIDE DEF Bad
    <3> QED
      BY <2>1, <3>1, SmallestFails
  <2> HIDE DEF iter
  <2>3. t \in SUBSET S /\ iter[t] # g[t]
    OBVIOUS
  <2>4. t # {}
    BY <1>7, <2>3
  <2> DEFINE d == CHOOSE x \in t : TRUE
  <2>5. d \in t
    BY <2>4
  <2>6. iter[t] = f[d] + iter[t \ {d}] /\ g[t] = f[d] + g[t \ {d}]
    BY <1>7, <2>3, <2>4
  <2> HIDE DEF d
  <2>7. iter[t \ {d}] = g[t \ {d}]
    <3>1. IsFiniteSet(t) /\ Cardinality(t) \in Nat
      BY <2>3, FS_Subset, FS_CardinalityType
    <3>2. Cardinality(t \ {d}) = Cardinality(t) - 1
      BY <2>5, <3>1, FS_RemoveElement
    <3>3. ~(Cardinality(t) <= Cardinality(t \ {d})) /\ (t \ {d}) \in SUBSET S
      BY <2>3, <3>1, <3>2
    <3> QED
      BY <2>2, <3>3
  <2> QED
    BY <2>3, <2>6, <2>7
<1>9. iter[S] = g[S]
  <2> HIDE DEF iter
  <2> QED
    BY <1>8
<1> QED
  BY <1>3, <1>6, <1>9

\* A sum looks at its summands only.
LEMMA SumSame ==
    ASSUME NEW S, IsFiniteSet(S), NEW f, NEW e, \A x \in S : f[x] \in Nat /\ e[x] = f[x]
    PROVE  SumFunctionOnSet(e, S) = SumFunctionOnSet(f, S) /\ SumFunctionOnSet(f, S) \in Nat
<1> DEFINE w == [x \in S |-> f[x]]
           v == [x \in S |-> e[x]]
<1>1. PICK g : Summing(g, w, S) /\ SumFunctionOnSet(f, S) = g[S]
  BY SumIsSum
<1>2. PICK h : Summing(h, v, S) /\ SumFunctionOnSet(e, S) = h[S]
  BY SumIsSum
<1>3. w \in [S -> Nat] /\ v = w
  OBVIOUS
<1> HIDE DEF v, w
<1>4. \A s \in SUBSET S : g[s] = h[s]
  BY <1>1, <1>2, <1>3, SumsAgree
<1>5. g[S] \in Nat
  BY <1>1 DEF Summing
<1> QED
  BY <1>1, <1>2, <1>4, <1>5

\* One summand more.
LEMMA SumMore ==
    ASSUME NEW S, IsFiniteSet(S), NEW x, x \notin S, NEW f, \A y \in S \cup {x} : f[y] \in Nat
    PROVE  SumFunctionOnSet(f, S \cup {x}) = f[x] + SumFunctionOnSet(f, S) /\ SumFunctionOnSet(f, S) \in Nat
<1> DEFINE T == S \cup {x}
           v == [y \in S |-> f[y]]
           w == [y \in T |-> f[y]]
<1>1. IsFiniteSet(T) /\ \A y \in T : f[y] \in Nat
  BY FS_AddElement
<1>2. PICK h : Summing(h, v, S) /\ SumFunctionOnSet(f, S) = h[S]
  BY SumIsSum
<1>3. PICK g : Summing(g, w, T) /\ SumFunctionOnSet(f, T) = g[T]
  <2> HIDE DEF T
  <2> QED
    BY <1>1, SumIsSum
<1>4. v \in [S -> Nat] /\ w \in [T -> Nat] /\ w[x] = f[x] /\ S \in SUBSET T /\ x \in T \ S
      /\ \A y \in S : v[y] = w[y]
  BY <1>1
<1> HIDE DEF T, v, w
<1>5. g[S] = h[S]
  BY <1>1, <1>2, <1>3, <1>4, SumsAgree
<1>6. g[S \cup {x}] = w[x] + g[S]
  BY <1>1, <1>3, <1>4, SumsAdd
<1>7. h[S] \in Nat
  BY <1>2 DEF Summing
<1> QED
  BY <1>2, <1>3, <1>4, <1>5, <1>6, <1>7 DEF T

\* One summand less.
LEMMA SumLess ==
    ASSUME NEW S, IsFiniteSet(S), NEW x \in S, NEW f, \A y \in S : f[y] \in Nat
    PROVE  SumFunctionOnSet(f, S) = f[x] + SumFunctionOnSet(f, S \ {x}) /\ SumFunctionOnSet(f, S \ {x}) \in Nat
<1>1. IsFiniteSet(S \ {x}) /\ (S \ {x}) \cup {x} = S
  BY FS_RemoveElement
<1> DEFINE R == S \ {x}
<1>2. x \notin R /\ IsFiniteSet(R) /\ R \cup {x} = S
  BY <1>1
<1> HIDE DEF R
<1>3. SumFunctionOnSet(f, R \cup {x}) = f[x] + SumFunctionOnSet(f, R) /\ SumFunctionOnSet(f, R) \in Nat
  BY <1>2, SumMore
<1> QED
  BY <1>2, <1>3 DEF R

\* Nothing sums to nothing.
LEMMA SumNone == ASSUME NEW f PROVE SumFunctionOnSet(f, {}) = 0
<1>1. IsFiniteSet({})
  BY FS_EmptySet
<1>2. PICK g : Summing(g, [x \in {} |-> f[x]], {}) /\ SumFunctionOnSet(f, {}) = g[{}]
  BY <1>1, SumIsSum
<1> QED
  BY <1>2 DEF Summing


\* Sums of two kinds of summands over one set add up.
LEMMA SumBoth ==
    ASSUME NEW S, IsFiniteSet(S), NEW f, NEW e, NEW w,
           \A x \in S : f[x] \in Nat /\ e[x] \in Nat /\ w[x] = f[x] + e[x]
    PROVE  SumFunctionOnSet(w, S) = SumFunctionOnSet(f, S) + SumFunctionOnSet(e, S)
<1> DEFINE Good(s) == SumFunctionOnSet(w, s) = SumFunctionOnSet(f, s) + SumFunctionOnSet(e, s)
           Bad == {s \in SUBSET S : ~Good(s)}
<1>1. Bad = {}
  <2>1. SUFFICES ASSUME Bad # {} PROVE FALSE
    OBVIOUS
  <2>2. PICK t \in Bad : \A u \in Bad : Cardinality(t) <= Cardinality(u)
    <3> HIDE DEF Good
    <3>1. Bad \in SUBSET (SUBSET S)
      OBVIOUS
    <3> HIDE DEF Bad
    <3> QED
      BY <2>1, <3>1, SmallestFails
  <2>3. t \in SUBSET S /\ ~Good(t) /\ IsFiniteSet(t)
    BY FS_Subset
  <2>4. t # {}
    <3>1. SumFunctionOnSet(w, {}) = 0 /\ SumFunctionOnSet(f, {}) = 0 /\ SumFunctionOnSet(e, {}) = 0
      BY SumNone
    <3>2. Good({})
      BY <3>1
    <3> HIDE DEF Good
    <3> QED
      BY <2>3, <3>2
  <2>5. PICK x \in t : TRUE
    BY <2>4
  <2> DEFINE u == t \ {x}
  <2>6. IsFiniteSet(u) /\ Cardinality(t) \in Nat /\ Cardinality(u) = Cardinality(t) - 1
    BY <2>3, FS_RemoveElement, FS_CardinalityType
  <2>7. u \in SUBSET S /\ u \notin Bad
    <3> HIDE DEF Good
    <3> QED
      BY <2>2, <2>3, <2>6
  <2>8. Good(u)
    <3> HIDE DEF Good, u
    <3> QED
      BY <2>7
  <2>9. \A y \in t : f[y] \in Nat /\ e[y] \in Nat /\ w[y] \in Nat /\ w[y] = f[y] + e[y]
    BY <2>3
  <2>10. /\ SumFunctionOnSet(w, t) = w[x] + SumFunctionOnSet(w, u)
         /\ SumFunctionOnSet(f, t) = f[x] + SumFunctionOnSet(f, u) /\ SumFunctionOnSet(f, u) \in Nat
         /\ SumFunctionOnSet(e, t) = e[x] + SumFunctionOnSet(e, u) /\ SumFunctionOnSet(e, u) \in Nat
    BY <2>3, <2>5, <2>9, SumLess
  <2> HIDE DEF u
  <2> QED
    BY <2>3, <2>5, <2>8, <2>9, <2>10
<1> QED
  BY <1>1

\* A factor may be taken out of a sum.
LEMMA SumTimes ==
    ASSUME NEW S, IsFiniteSet(S), NEW f, NEW k \in Nat, NEW w, \A x \in S : f[x] \in Nat /\ w[x] = k * f[x]
    PROVE  SumFunctionOnSet(w, S) = k * SumFunctionOnSet(f, S)
<1> DEFINE Good(s) == SumFunctionOnSet(w, s) = k * SumFunctionOnSet(f, s)
           Bad == {s \in SUBSET S : ~Good(s)}
<1>1. Bad = {}
  <2>1. SUFFICES ASSUME Bad # {} PROVE FALSE
    OBVIOUS
  <2>2. PICK t \in Bad : \A u \in Bad : Cardinality(t) <= Cardinality(u)
    <3> HIDE DEF Good
    <3>1. Bad \in SUBSET (SUBSET S)
      OBVIOUS
    <3> HIDE DEF Bad
    <3> QED
      BY <2>1, <3>1, SmallestFails
  <2>3. t \in SUBSET S /\ ~Good(t) /\ IsFiniteSet(t)
    BY FS_Subset
  <2>4. t # {}
    <3>1. SumFunctionOnSet(w, {}) = 0 /\ SumFunctionOnSet(f, {}) = 0
      BY SumNone
    <3>2. Good({})
      BY <3>1
    <3> HIDE DEF Good
    <3> QED
      BY <2>3, <3>2
  <2>5. PICK x \in t : TRUE
    BY <2>4
  <2> DEFINE u == t \ {x}
  <2>6. IsFiniteSet(u) /\ Cardinality(t) \in Nat /\ Cardinality(u) = Cardinality(t) - 1
    BY <2>3, FS_RemoveElement, FS_CardinalityType
  <2>7. u \in SUBSET S /\ u \notin Bad
    <3> HIDE DEF Good
    <3> QED
      BY <2>2, <2>3, <2>6
  <2>8. Good(u)
    <3> HIDE DEF Good, u
    <3> QED
      BY <2>7
  <2>9. \A y \in t : f[y] \in Nat /\ w[y] \in Nat /\ w[y] = k * f[y]
    <3>1. \A y \in t : f[y] \in Nat /\ k * f[y] \in Nat /\ w[y] = k * f[y]
      BY <2>3
    <3> QED
      BY <3>1
  <2>10. /\ SumFunctionOnSet(w, t) = w[x] + SumFunctionOnSet(w, u)
         /\ SumFunctionOnSet(f, t) = f[x] + SumFunctionOnSet(f, u) /\ SumFunctionOnSet(f, u) \in Nat
    BY <2>3, <2>5, <2>9, SumLess
  <2> HIDE DEF u
  <2>11. k * (f[x] + SumFunctionOnSet(f, u)) = k * f[x] + k * SumFunctionOnSet(f, u)
    BY <2>5, <2>9, <2>10
  <2> QED
    BY <2>3, <2>5, <2>8, <2>9, <2>10, <2>11
<1> QED
  BY <1>1

\* The sum of the groups that g makes of S.
LEMMA SumOfFibers ==
    ASSUME NEW S, IsFiniteSet(S), NEW f, \A x \in S : f[x] \in Nat, NEW g
    PROVE  \E D, G : /\ IsFiniteSet(D) /\ \A v : v \in D <=> \E x \in S : g[x] = v
                     /\ \A v \in D : /\ G[v] \in Nat
                                     /\ \A I \in SUBSET S :
                                           (\A x \in S : x \in I <=> g[x] = v) => G[v] = SumFunctionOnSet(f, I)
                     /\ SumFunctionOnSet(G, D) = SumFunctionOnSet(f, S)
<1> DEFINE In(s, v) == {x \in s : g[x] = v}
           Values(s) == {g[x] : x \in s}
           Groups(s) == [v \in Values(s) |-> SumFunctionOnSet(f, In(s, v))]
           Good(s) == SumFunctionOnSet(Groups(s), Values(s)) = SumFunctionOnSet(f, s)
           Bad == {s \in SUBSET S : ~Good(s)}
<1>0. \A s \in SUBSET S : IsFiniteSet(s) /\ IsFiniteSet(Values(s)) /\ \A v : IsFiniteSet(In(s, v))
  <2>1. ASSUME NEW s \in SUBSET S PROVE IsFiniteSet(s) /\ IsFiniteSet(Values(s)) /\ \A v : IsFiniteSet(In(s, v))
    <3>1. IsFiniteSet(s)
      BY FS_Subset
    <3>2. \A v : In(s, v) \in SUBSET s
      OBVIOUS
    <3>3. \A v : IsFiniteSet(In(s, v))
      <4> HIDE DEF In
      <4> QED
        BY <3>1, <3>2, FS_Subset
    <3>4. IsFiniteSet(Values(s))
      <4> DEFINE h == [x \in s |-> g[x]]
      <4>1. h \in Surjection(s, Values(s))
        BY DEF Surjection
      <4> HIDE DEF h, Values
      <4> QED
        BY <3>1, <4>1, FS_Surjection
    <3> QED
      BY <3>1, <3>3, <3>4
  <2> QED
    BY <2>1
<1>1. Bad = {}
  <2>1. SUFFICES ASSUME Bad # {} PROVE FALSE
    OBVIOUS
  <2>2. PICK t \in Bad : \A u \in Bad : Cardinality(t) <= Cardinality(u)
    <3> HIDE DEF Good
    <3>1. Bad \in SUBSET (SUBSET S)
      OBVIOUS
    <3> HIDE DEF Bad
    <3> QED
      BY <2>1, <3>1, SmallestFails
  <2>3. t \in SUBSET S /\ ~Good(t)
    <3> HIDE DEF Good
    <3> QED
      OBVIOUS
  <2>4. t # {}
    <3>1. Values({}) = {} /\ In({}, 0) = {}
      OBVIOUS
    <3> QED
      BY <2>3, <3>1, SumNone
  <2>5. PICK x \in t : TRUE
    BY <2>4
  <2> DEFINE u == t \ {x}
  <2>6. IsFiniteSet(t) /\ IsFiniteSet(u) /\ Cardinality(t) \in Nat /\ Cardinality(u) = Cardinality(t) - 1
    <3>1. IsFiniteSet(t)
      BY <2>3, FS_Subset
    <3> QED
      BY <3>1, FS_RemoveElement, FS_CardinalityType
  <2>7. u \in SUBSET S /\ u \notin Bad
    <3> HIDE DEF Good
    <3> QED
      BY <2>2, <2>3, <2>6
  <2>8. Good(u)
    <3> HIDE DEF Good, u
    <3> QED
      BY <2>7
  <2> DEFINE a == g[x]
  <2>9. SumFunctionOnSet(f, t) = f[x] + SumFunctionOnSet(f, u) /\ SumFunctionOnSet(f, u) \in Nat
    BY <2>3, <2>5, <2>6, SumLess
  <2>10. \A v \in Values(t) \ {a} : v \in Values(u) /\ In(t, v) = In(u, v)
    OBVIOUS
  <2>11. Values(t) = Values(u) \cup {a} /\ In(t, a) = In(u, a) \cup {x} /\ x \notin In(u, a) /\ a \in Values(t)
    BY <2>5
  <2>12. \A s \in SUBSET S : \A v : SumFunctionOnSet(f, In(s, v)) \in Nat
    <3>1. ASSUME NEW s \in SUBSET S, NEW v PROVE SumFunctionOnSet(f, In(s, v)) \in Nat
      <4>1. IsFiniteSet(In(s, v))
        <5> HIDE DEF In
        <5> QED
          BY <1>0
      <4>2. \A y \in In(s, v) : f[y] \in Nat
        OBVIOUS
      <4> HIDE DEF In
      <4> QED
        BY <4>1, <4>2, SumSame
    <3> HIDE DEF In
    <3> QED
      BY <3>1
  <2>13. SumFunctionOnSet(f, In(t, a)) = f[x] + SumFunctionOnSet(f, In(u, a))
    <3>1. IsFiniteSet(In(u, a)) /\ \A y \in In(u, a) \cup {x} : f[y] \in Nat
      <4>1. IsFiniteSet(In(u, a))
        <5> HIDE DEF In, u, a
        <5> QED
          BY <1>0, <2>7
      <4> QED
        BY <2>3, <2>5, <4>1
    <3> DEFINE I == In(u, a)
    <3>2. IsFiniteSet(I) /\ x \notin I /\ \A y \in I \cup {x} : f[y] \in Nat
      <4> HIDE DEF In, u, a
      <4> QED
        BY <2>11, <3>1
    <3>3. In(t, a) = I \cup {x}
      <4> HIDE DEF In, u, a
      <4> QED
        BY <2>11
    <3> HIDE DEF I
    <3>4. SumFunctionOnSet(f, I \cup {x}) = f[x] + SumFunctionOnSet(f, I)
      BY <3>2, SumMore
    <3> HIDE DEF In, u, a
    <3> QED
      BY <3>3, <3>4 DEF I
  <2> DEFINE R == Values(t) \ {a}
             G == Groups(t)
             H == Groups(u)
  <2>14. IsFiniteSet(R) /\ IsFiniteSet(Values(t)) /\ IsFiniteSet(Values(u))
    <3>1. IsFiniteSet(Values(t)) /\ IsFiniteSet(Values(u))
      <4> HIDE DEF Values, u
      <4> QED
        BY <1>0, <2>3, <2>7
    <3> QED
      BY <3>1, FS_Subset
  <2>15. (\A v \in Values(t) : G[v] \in Nat) /\ (\A v \in Values(u) : H[v] \in Nat)
    <3> HIDE DEF In, Values, u
    <3> QED
      BY <2>3, <2>7, <2>12
  <2>16. G[a] = f[x] + SumFunctionOnSet(f, In(u, a)) /\ \A v \in R : G[v] = H[v] /\ v \in Values(u)
    <3> HIDE DEF In, Values, u, a
    <3> QED
      BY <2>10, <2>11, <2>13
  <2>17. SumFunctionOnSet(G, Values(t)) = G[a] + SumFunctionOnSet(G, R) /\ SumFunctionOnSet(G, R) \in Nat
    <3>1. IsFiniteSet(Values(t)) /\ a \in Values(t) /\ \A v \in Values(t) : G[v] \in Nat
      BY <2>11, <2>14, <2>15
    <3> HIDE DEF Values, G, a
    <3> QED
      BY <3>1, SumLess
  <2>18. SumFunctionOnSet(G, R) = SumFunctionOnSet(H, R)
    <3>1. \A v \in R : H[v] \in Nat /\ G[v] = H[v]
      <4> HIDE DEF G, H, R, Values
      <4> QED
        BY <2>15, <2>16
    <3> HIDE DEF G, H, R
    <3> QED
      BY <2>14, <3>1, SumSame
  <2>19. CASE a \in Values(u)
    <3>1. Values(u) \ {a} = R /\ H[a] = SumFunctionOnSet(f, In(u, a))
      <4>1. H[a] = SumFunctionOnSet(f, In(u, a))
        <5> HIDE DEF In, Values, u, a
        <5> QED
          BY <2>19
      <4> HIDE DEF Values, a, u
      <4> QED
        BY <2>11, <4>1
    <3>2. SumFunctionOnSet(H, Values(u)) = H[a] + SumFunctionOnSet(H, R)
      <4> HIDE DEF Values, H, a, u, R
      <4> QED
        BY <2>14, <2>15, <2>19, <3>1, SumLess
    <3>3. H[a] \in Nat /\ f[x] \in Nat
      <4>1. H[a] \in Nat
        <5> HIDE DEF Values, H, a, u
        <5> QED
          BY <2>15, <2>19
      <4> QED
        BY <4>1, <2>3, <2>5
    <3>4. SumFunctionOnSet(H, Values(u)) = SumFunctionOnSet(f, u) /\ SumFunctionOnSet(G, Values(t)) # SumFunctionOnSet(f, t)
      <4> HIDE DEF Values, In, u
      <4> QED
        BY <2>3, <2>8
    <3> HIDE DEF Values, In, u, a, R, G, H, Groups, Good
    <3> QED
      BY <2>9, <2>16, <2>17, <2>18, <3>1, <3>2, <3>3, <3>4
  <2>20. CASE a \notin Values(u)
    <3>1. Values(u) = R /\ In(u, a) = {}
      <4>1. In(u, a) = {}
        BY <2>20
      <4> HIDE DEF Values, a, u
      <4> QED
        BY <2>11, <2>20, <4>1
    <3>2. SumFunctionOnSet(f, In(u, a)) = 0
      <4> HIDE DEF In, u, a
      <4> QED
        BY <3>1, SumNone
    <3>3. f[x] \in Nat
      BY <2>3, <2>5
    <3>4. SumFunctionOnSet(H, Values(u)) = SumFunctionOnSet(f, u) /\ SumFunctionOnSet(G, Values(t)) # SumFunctionOnSet(f, t)
      <4> HIDE DEF Values, In, u
      <4> QED
        BY <2>3, <2>8
    <3> HIDE DEF Values, In, u, a, R, G, H, Groups, Good
    <3> QED
      BY <2>9, <2>16, <2>17, <2>18, <3>1, <3>2, <3>3, <3>4
  <2> HIDE DEF Values, u, a
  <2> QED
    BY <2>19, <2>20
<1>2. Good(S)
  <2> HIDE DEF Good
  <2> QED
    BY <1>1
<1>3. \A v : SumFunctionOnSet(f, In(S, v)) \in Nat
  <2>1. ASSUME NEW v PROVE SumFunctionOnSet(f, In(S, v)) \in Nat
    <3>1. IsFiniteSet(In(S, v))
      <4> HIDE DEF In
      <4> QED
        BY <1>0
    <3>2. \A y \in In(S, v) : f[y] \in Nat
      OBVIOUS
    <3> HIDE DEF In
    <3> QED
      BY <3>1, <3>2, SumSame
  <2> HIDE DEF In
  <2> QED
    BY <2>1
<1>4. IsFiniteSet(Values(S))
  <2> HIDE DEF Values
  <2> QED
    BY <1>0
<1> DEFINE D == Values(S)
           G == Groups(S)
<1>5. \A v : v \in D <=> \E x \in S : g[x] = v
  OBVIOUS
<1>6. \A v \in D : G[v] = SumFunctionOnSet(f, In(S, v))
  <2> HIDE DEF In, Values
  <2> QED
    OBVIOUS
<1>7. \A v : \A I \in SUBSET S : (\A x \in S : x \in I <=> g[x] = v) => I = In(S, v)
  OBVIOUS
<1>8. IsFiniteSet(D) /\ SumFunctionOnSet(G, D) = SumFunctionOnSet(f, S)
  BY <1>2, <1>4
<1> HIDE DEF D, G, In
<1>9. \A v \in D : /\ G[v] \in Nat
                   /\ \A I \in SUBSET S : (\A x \in S : x \in I <=> g[x] = v) => G[v] = SumFunctionOnSet(f, I)
  BY <1>3, <1>6, <1>7
<1> QED
  BY <1>5, <1>8, <1>9

\* Groups lose nothing and repeat nothing: what the groups of S sum to is what S sums to.  W has the groups, g
\* says of each element which it is in, P what each group sums to.
LEMMA SumOfGroups ==
    ASSUME NEW S, IsFiniteSet(S), NEW f, \A x \in S : f[x] \in Nat, NEW g, NEW W, NEW P,
           DOMAIN P = DOMAIN W, \A v : v \in DOMAIN W <=> \E x \in S : g[x] = v,
           \A v \in DOMAIN W : W[v] \in SUBSET S /\ \A x \in S : x \in W[v] <=> g[x] = v,
           \A v \in DOMAIN W : P[v] = SumFunctionOnSet(f, W[v])
    PROVE  SumFunction(P) = SumFunctionOnSet(f, S)
<1>1. PICK D, G : /\ IsFiniteSet(D) /\ \A v : v \in D <=> \E x \in S : g[x] = v
                  /\ \A v \in D : /\ G[v] \in Nat
                                  /\ \A I \in SUBSET S :
                                        (\A x \in S : x \in I <=> g[x] = v) => G[v] = SumFunctionOnSet(f, I)
                  /\ SumFunctionOnSet(G, D) = SumFunctionOnSet(f, S)
  BY SumOfFibers
<1>2. DOMAIN P = D
  BY <1>1
<1>3. \A v \in D : G[v] \in Nat /\ P[v] = G[v]
  BY <1>1, <1>2
<1>4. SumFunctionOnSet(P, D) = SumFunctionOnSet(G, D)
  BY <1>1, <1>3, SumSame
<1> QED
  BY <1>1, <1>2, <1>4 DEF SumFunction

\* A part sums to no more than the whole.
LEMMA SumOfPart ==
    ASSUME NEW S, IsFiniteSet(S), NEW T \in SUBSET S, NEW f, \A x \in S : f[x] \in Nat
    PROVE  SumFunctionOnSet(f, T) <= SumFunctionOnSet(f, S)
<1> DEFINE Rest == S \ T
           Bad == {s \in SUBSET Rest : ~(SumFunctionOnSet(f, T) <= SumFunctionOnSet(f, T \cup s))}
<1>1. IsFiniteSet(Rest) /\ IsFiniteSet(T) /\ \A s \in SUBSET Rest : IsFiniteSet(s) /\ IsFiniteSet(T \cup s)
  <2>1. IsFiniteSet(Rest) /\ IsFiniteSet(T) /\ \A s \in SUBSET Rest : (T \cup s) \in SUBSET S
    BY FS_Subset
  <2> QED
    BY <2>1, FS_Subset
<1>2. \A s \in SUBSET Rest : SumFunctionOnSet(f, T \cup s) \in Nat
  <2>1. ASSUME NEW s \in SUBSET Rest PROVE SumFunctionOnSet(f, T \cup s) \in Nat
    <3>1. IsFiniteSet(T \cup s) /\ \A x \in T \cup s : f[x] \in Nat
      BY <1>1
    <3> QED
      BY <3>1, SumSame
  <2> QED
    BY <2>1
<1>3. Bad = {}
  <2>1. SUFFICES ASSUME Bad # {} PROVE FALSE
    OBVIOUS
  <2>2. PICK t \in Bad : \A u \in Bad : Cardinality(t) <= Cardinality(u)
    <3>1. Bad \in SUBSET (SUBSET Rest)
      OBVIOUS
    <3> HIDE DEF Bad, Rest
    <3> QED
      BY <1>1, <2>1, <3>1, SmallestFails
  <2>3. t \in SUBSET Rest /\ IsFiniteSet(t) /\ ~(SumFunctionOnSet(f, T) <= SumFunctionOnSet(f, T \cup t))
    BY <1>1
  <2>4. t # {}
    <3>1. T \cup {} = T /\ SumFunctionOnSet(f, T) \in Nat
      <4>1. {} \in SUBSET Rest
        OBVIOUS
      <4>2. SumFunctionOnSet(f, T \cup {}) \in Nat
        BY <1>2, <4>1
      <4>3. T \cup {} = T
        OBVIOUS
      <4> QED
        BY <4>2, <4>3
    <3> QED
      BY <2>3, <3>1
  <2>5. PICK x \in t : TRUE
    BY <2>4
  <2> DEFINE u == t \ {x}
  <2>6. Cardinality(t) \in Nat /\ Cardinality(u) = Cardinality(t) - 1 /\ u \in SUBSET Rest
    BY <2>3, FS_RemoveElement, FS_CardinalityType
  <2>7. u \notin Bad
    BY <2>2, <2>6
  <2>8. SumFunctionOnSet(f, T) <= SumFunctionOnSet(f, T \cup u)
    BY <2>6, <2>7
  <2>9. x \notin T \cup u /\ (T \cup u) \cup {x} = T \cup t /\ \A y \in (T \cup u) \cup {x} : f[y] \in Nat
    BY <2>3, <2>5
  <2>10. IsFiniteSet(T \cup u)
    BY <1>1, <2>6
  <2>11. SumFunctionOnSet(f, (T \cup u) \cup {x}) = f[x] + SumFunctionOnSet(f, T \cup u)
         /\ SumFunctionOnSet(f, T \cup u) \in Nat
    <3> HIDE DEF u
    <3> QED
      BY <2>9, <2>10, SumMore
  <2>12. f[x] \in Nat /\ SumFunctionOnSet(f, T) \in Nat
    <3>1. {} \in SUBSET Rest /\ T \cup {} = T
      OBVIOUS
    <3>2. SumFunctionOnSet(f, T \cup {}) \in Nat
      BY <1>2, <3>1
    <3> QED
      BY <2>9, <3>1, <3>2
  <2>13. SumFunctionOnSet(f, T \cup t) = f[x] + SumFunctionOnSet(f, T \cup u)
    <3>1. (T \cup u) \cup {x} = T \cup t
      BY <2>9
    <3> HIDE DEF u
    <3> QED
      BY <2>11, <3>1
  <2>14. ~(SumFunctionOnSet(f, T) <= SumFunctionOnSet(f, T \cup t)) /\ SumFunctionOnSet(f, T \cup u) \in Nat
    BY <2>3, <2>11
  <2> HIDE DEF u, Bad
  <2> QED
    BY <2>8, <2>12, <2>13, <2>14
<1>4. Rest \in SUBSET Rest /\ T \cup Rest = S
  OBVIOUS
<1>5. SumFunctionOnSet(f, T) <= SumFunctionOnSet(f, T \cup Rest)
  BY <1>3
<1> QED
  BY <1>4, <1>5

\* A set has as many members as it has ones.
LEMMA SumOfOnes ==
    ASSUME NEW S, IsFiniteSet(S), NEW f, \A x \in S : f[x] = 1
    PROVE  SumFunctionOnSet(f, S) = Cardinality(S)
<1> DEFINE Good(s) == SumFunctionOnSet(f, s) = Cardinality(s)
           Bad == {s \in SUBSET S : ~Good(s)}
<1>1. Bad = {}
  <2>1. SUFFICES ASSUME Bad # {} PROVE FALSE
    OBVIOUS
  <2>2. PICK t \in Bad : \A u \in Bad : Cardinality(t) <= Cardinality(u)
    <3> HIDE DEF Good
    <3>1. Bad \in SUBSET (SUBSET S)
      OBVIOUS
    <3> HIDE DEF Bad
    <3> QED
      BY <2>1, <3>1, SmallestFails
  <2>3. t \in SUBSET S /\ ~Good(t) /\ IsFiniteSet(t)
    BY FS_Subset
  <2>4. t # {}
    <3>1. SumFunctionOnSet(f, {}) = 0 /\ Cardinality({}) = 0
      BY SumNone, FS_EmptySet
    <3>2. Good({})
      BY <3>1
    <3> HIDE DEF Good
    <3> QED
      BY <2>3, <3>2
  <2>5. PICK x \in t : TRUE
    BY <2>4
  <2> DEFINE u == t \ {x}
  <2>6. IsFiniteSet(u) /\ Cardinality(t) \in Nat /\ Cardinality(u) = Cardinality(t) - 1
    BY <2>3, FS_RemoveElement, FS_CardinalityType
  <2>7. u \in SUBSET S /\ u \notin Bad
    <3> HIDE DEF Good
    <3> QED
      BY <2>2, <2>3, <2>6
  <2>8. Good(u)
    <3> HIDE DEF Good, u
    <3> QED
      BY <2>7
  <2>9. \A y \in t : f[y] \in Nat
    BY <2>3
  <2>10. SumFunctionOnSet(f, t) = f[x] + SumFunctionOnSet(f, u)
    BY <2>3, <2>5, <2>9, SumLess
  <2>11. f[x] = 1
    BY <2>3, <2>5
  <2> HIDE DEF u
  <2> QED
    BY <2>3, <2>6, <2>8, <2>10, <2>11
<1> QED
  BY <1>1


(* Events and the waste watcher. *)

Tallies == [happened : Nat, told : Nat, undelivered : Nat, forgotten : Nat, at : Nat, sentAt : Nat]
Entries == [at : Nat, suppressed : Nat]
Deliveries == [n : Nat, says : Nat]

SignalShapes ==
    /\ desk \in DOMAIN Desks
    /\ window \in Nat /\ fails \in Nat
    /\ heard \in [Messages -> {Unheard} \cup Entries]
    /\ wire \in [Messages -> SUBSET Deliveries]
    /\ tally \in [Messages -> Tallies]
    /\ fired \in [Findings -> {Unheard} \cup Nat]

\* What an entry of the map has counted and not told.
Counting(h) == IF h = Unheard THEN 0 ELSE h.suppressed

\* A message with its entry h, its deliveries ds and its tally t: the books are balanced, the
\* deliveries under way are told apart by what had happened before them, and an entry is of the window
\* in which the message last left.
MessageSound(s, h, ds, t, w, f) ==
    /\ IsFiniteSet(ds)
    /\ \A d \in ds : d.n < t.happened
    /\ t.happened <= dk.occurrences[s]
    /\ t.happened = t.told + t.undelivered + t.forgotten + SumOf(ds) + Counting(h)
    /\ t.undelivered > 0 => f > 0
    /\ t.happened > 0 => t.at = t.sentAt
    /\ h # Unheard => h.at = t.sentAt /\ t.happened > 0 /\ h.at <= w /\ h.suppressed <= t.happened

Books == \A s \in Messages : MessageSound(s, heard[s], wire[s], tally[s], window, fails)

\* The ages of the findings run up to their cooldown.
AgesTrue == \A f \in Findings : fired[f] # Unheard => fired[f] <= Cooldown[f[1]]

\* The inductive invariant of the events.
SignalsInductive == SignalShapes /\ Books /\ AgesTrue /\ untold = {}

\* What the deliveries of a message say together is a number, and nothing without deliveries.
LEMMA SaysNumber ==
    ASSUME NEW S, IsFiniteSet(S), \A d \in S : d.says \in Nat
    PROVE  SumOf(S) \in Nat
<1> DEFINE f == [d \in S |-> d.says]
<1>1. \A d \in S : f[d] \in Nat
  OBVIOUS
<1> HIDE DEF f
<1>2. SumFunctionOnSet(f, S) \in Nat
  BY <1>1, SumSame
<1> QED
  BY <1>2 DEF SumOf, f

\* No deliveries say nothing.
LEMMA SaysNone == SumOf({}) = 0
BY SumNone DEF SumOf

\* One more delivery.
LEMMA SaysMore ==
    ASSUME NEW S, IsFiniteSet(S), \A d \in S : d.says \in Nat, NEW x, x \notin S, x.says \in Nat
    PROVE  SumOf(S) \in Nat /\ SumOf(S \cup {x}) = x.says + SumOf(S)
<1> DEFINE T == S \cup {x}
           f == [d \in T |-> d.says]
           e == [d \in S |-> d.says]
<1>1. /\ \A d \in S \cup {x} : f[d] \in Nat
      /\ \A d \in S : e[d] \in Nat /\ f[d] = e[d]
      /\ f[x] = x.says
  OBVIOUS
<1> HIDE DEF f, e
<1>2. SumFunctionOnSet(f, S \cup {x}) = f[x] + SumFunctionOnSet(f, S)
  BY <1>1, SumMore
<1>3. SumFunctionOnSet(f, S) = SumFunctionOnSet(e, S) /\ SumFunctionOnSet(e, S) \in Nat
  BY <1>1, SumSame
<1> QED
  BY <1>1, <1>2, <1>3 DEF SumOf, f, e

\* One delivery less.
LEMMA SaysLess ==
    ASSUME NEW S, IsFiniteSet(S), \A d \in S : d.says \in Nat, NEW x \in S
    PROVE  SumOf(S) = x.says + SumOf(S \ {x}) /\ SumOf(S \ {x}) \in Nat
<1>1. IsFiniteSet(S \ {x}) /\ (S \ {x}) \cup {x} = S
  BY FS_RemoveElement
<1> QED
  BY <1>1, SaysMore

\* What the desk says of a message is typed.
LEMMA DeskTyped ==
    ASSUME desk \in DOMAIN Desks
    PROVE  /\ Unheard \notin Nat /\ Unheard \notin Entries
           /\ dk.occurrences \in [Messages -> Nat] /\ dk.windows \subseteq Nat /\ dk.pauses \subseteq Nat
  BY SignalsAssumption DEF dk, Messages, Entries

\* A record of a tally, field by field.
LEMMA TallyFields ==
    ASSUME NEW q \in Tallies, NEW v
    PROVE  /\ [q EXCEPT !.told = v] = [happened |-> q.happened, told |-> v, undelivered |-> q.undelivered,
                                      forgotten |-> q.forgotten, at |-> q.at, sentAt |-> q.sentAt]
           /\ [q EXCEPT !.undelivered = v] = [happened |-> q.happened, told |-> q.told, undelivered |-> v,
                                      forgotten |-> q.forgotten, at |-> q.at, sentAt |-> q.sentAt]
           /\ [q EXCEPT !.forgotten = v] = [happened |-> q.happened, told |-> q.told, undelivered |-> q.undelivered,
                                      forgotten |-> v, at |-> q.at, sentAt |-> q.sentAt]
<1>1. q = [happened |-> q.happened, told |-> q.told, undelivered |-> q.undelivered,
           forgotten |-> q.forgotten, at |-> q.at, sentAt |-> q.sentAt]
  BY DEF Tallies
<1>2. [q EXCEPT !.told = v] = [happened |-> q.happened, told |-> v, undelivered |-> q.undelivered,
                               forgotten |-> q.forgotten, at |-> q.at, sentAt |-> q.sentAt]
  BY <1>1
<1>3. [q EXCEPT !.undelivered = v] = [happened |-> q.happened, told |-> q.told, undelivered |-> v,
                                      forgotten |-> q.forgotten, at |-> q.at, sentAt |-> q.sentAt]
  BY <1>1
<1>4. [q EXCEPT !.forgotten = v] = [happened |-> q.happened, told |-> q.told, undelivered |-> q.undelivered,
                                    forgotten |-> v, at |-> q.at, sentAt |-> q.sentAt]
  BY <1>1
<1> QED
  BY <1>2, <1>3, <1>4

\* A router that has just started has sent nothing and owes nothing.
LEMMA SignalsStart == SignalsInit => SignalsInductive
<1> SUFFICES ASSUME SignalsInit PROVE SignalsInductive
  OBVIOUS
<1>1. NothingYet \in Tallies /\ SignalShapes
  BY DEF SignalsInit, SignalShapes, NothingYet, Tallies
<1>2. Books
  <2> SUFFICES ASSUME NEW s \in Messages PROVE MessageSound(s, Unheard, {}, NothingYet, 0, 0)
    BY DEF Books, SignalsInit
  <2>1. dk.occurrences[s] \in Nat
    BY <1>1, DeskTyped DEF SignalShapes
  <2>2. IsFiniteSet({})
    BY FS_EmptySet
  <2> QED
    BY <2>1, <2>2, SaysNone DEF MessageSound, NothingYet, Counting
<1>3. AgesTrue /\ untold = {}
  BY DEF SignalsInit, AgesTrue
<1> QED
  BY <1>1, <1>2, <1>3 DEF SignalsInductive

\* The sums of the deliveries under way.
LEMMA WireSums ==
    ASSUME SignalShapes, Books, NEW s \in Messages
    PROVE  /\ IsFiniteSet(wire[s]) /\ (\A d \in wire[s] : d.says \in Nat)
           /\ SumOf(wire[s]) \in Nat
<1>1. IsFiniteSet(wire[s]) /\ \A d \in wire[s] : d.says \in Nat
  BY DEF SignalShapes, Books, MessageSound, Deliveries
<1>2. SumOf(wire[s]) \in Nat
  BY <1>1, SaysNumber
<1> QED
  BY <1>1, <1>2

\* A repeat: one more has happened, and one more is counted.
LEMMA SuppressedStep ==
    ASSUME SignalsInductive, NEW s \in Messages, Suppressed(s)
    PROVE  SignalsInductive'
<1> DEFINE e == [at |-> heard[s].at, suppressed |-> heard[s].suppressed + 1]
           t == [happened |-> tally[s].happened + 1, told |-> tally[s].told, undelivered |-> tally[s].undelivered,
                 forgotten |-> tally[s].forgotten, at |-> window, sentAt |-> tally[s].sentAt]
<1>1. heard[s] \in Entries /\ tally[s] \in Tallies /\ heard[s].at = window /\ heard[s] # Unheard
      /\ tally[s].happened < dk.occurrences[s]
  BY DEF SignalsInductive, SignalShapes, Suppressed, Repeats
<1>2. heard' = [heard EXCEPT ![s] = e]
  <2>1. heard' = [heard EXCEPT ![s] = [heard[s] EXCEPT !.suppressed = heard[s].suppressed + 1]]
    BY DEF Suppressed
  <2>2. [heard[s] EXCEPT !.suppressed = heard[s].suppressed + 1] = e
    BY <1>1 DEF Entries
  <2> QED
    BY <2>1, <2>2
<1>3. tally' = [tally EXCEPT ![s] = t]
  BY DEF Suppressed, Happens
<1>4. e \in Entries /\ t \in Tallies
  BY <1>1 DEF Entries, Tallies, SignalsInductive, SignalShapes
<1>5. Messages' = Messages /\ Findings' = Findings /\ dk' = dk
  BY DEF Suppressed, Messages, Findings, dk
<1>6. SignalShapes'
  <2> HIDE DEF e, t
  <2>1. heard' \in [Messages -> {Unheard} \cup Entries] /\ tally' \in [Messages -> Tallies]
    BY <1>2, <1>3, <1>4 DEF SignalsInductive, SignalShapes
  <2> QED
    BY <1>5, <2>1 DEF SignalsInductive, SignalShapes, Suppressed
<1>7. Books'
  <2> SUFFICES ASSUME NEW m \in Messages
               PROVE  MessageSound(m, heard'[m], wire[m], tally'[m], window, fails)
    BY <1>5 DEF Books, Suppressed, MessageSound
  <2>1. MessageSound(m, heard[m], wire[m], tally[m], window, fails)
    BY DEF SignalsInductive, Books
  <2>2. CASE m # s
    BY <1>2, <1>3, <2>1, <2>2 DEF SignalsInductive, SignalShapes
  <2>3. CASE m = s
    <3>1. heard'[m] = e /\ tally'[m] = t
      BY <1>2, <1>3, <2>3 DEF SignalsInductive, SignalShapes
    <3>2. SumOf(wire[m]) \in Nat
      BY WireSums DEF SignalsInductive
    <3>3. dk.occurrences[m] \in Nat /\ Unheard \notin Entries
      BY DeskTyped DEF SignalsInductive, SignalShapes
    <3>4. wire[m] \subseteq Deliveries
      BY DEF SignalsInductive, SignalShapes
    <3>5. MessageSound(m, e, wire[m], t, window, fails)
      BY <1>1, <1>4, <2>1, <2>3, <3>2, <3>3, <3>4 DEF MessageSound, Counting, Tallies, Entries, Deliveries
    <3> QED
      BY <3>1, <3>5
  <2> QED
    BY <2>2, <2>3
<1>8. AgesTrue' /\ untold' = {}
  BY <1>5 DEF SignalsInductive, AgesTrue, Suppressed
<1> QED
  BY <1>6, <1>7, <1>8 DEF SignalsInductive

\* A delivery ends: what it said is told, or noted as lost.
LEMMA EndedStep ==
    ASSUME SignalsInductive, NEW s \in Messages, Delivered(s) \/ Undelivered(s)
    PROVE  SignalsInductive'
<1>1. PICK d \in wire[s], t \in Tallies :
          /\ wire' = [wire EXCEPT ![s] = @ \ {d}]
          /\ tally' = [tally EXCEPT ![s] = t]
          /\ t.happened = tally[s].happened /\ t.forgotten = tally[s].forgotten
          /\ t.told + t.undelivered = tally[s].told + tally[s].undelivered + d.says
          /\ t.at = tally[s].at /\ t.sentAt = tally[s].sentAt
          /\ fails' \in Nat /\ fails' >= fails
          /\ t.undelivered > tally[s].undelivered => fails' > 0
  <2>1. tally[s] \in Tallies /\ fails \in Nat /\ wire[s] \subseteq Deliveries
    BY DEF SignalsInductive, SignalShapes
  <2> DEFINE q == tally[s]
  <2>2. CASE Delivered(s)
    <3>1. PICK d \in wire[s] : /\ wire' = [wire EXCEPT ![s] = @ \ {d}] /\ fails' = fails
                               /\ tally' = [tally EXCEPT ![s] = [q EXCEPT !.told = q.told + d.says]]
      BY <2>2 DEF Delivered
    <3> DEFINE t == [happened |-> q.happened, told |-> q.told + d.says, undelivered |-> q.undelivered,
                     forgotten |-> q.forgotten, at |-> q.at, sentAt |-> q.sentAt]
    <3>2. tally' = [tally EXCEPT ![s] = t] /\ d.says \in Nat
      BY <2>1, <3>1, TallyFields DEF Deliveries
    <3>3. t \in Tallies
      BY <2>1, <3>2 DEF Tallies
    <3>4. /\ t.happened = tally[s].happened /\ t.forgotten = tally[s].forgotten
          /\ t.at = tally[s].at /\ t.sentAt = tally[s].sentAt
      OBVIOUS
    <3>5. t.told + t.undelivered = tally[s].told + tally[s].undelivered + d.says
      BY <2>1, <3>2 DEF Tallies
    <3>6. fails' \in Nat /\ fails' >= fails /\ (t.undelivered > tally[s].undelivered => fails' > 0)
      BY <2>1, <3>1 DEF Tallies
    <3> HIDE DEF t
    <3> QED
      BY <3>1, <3>2, <3>3, <3>4, <3>5, <3>6
  <2>3. CASE Undelivered(s)
    <3>1. PICK d \in wire[s] : /\ wire' = [wire EXCEPT ![s] = @ \ {d}] /\ fails' = fails + 1
                               /\ tally' = [tally EXCEPT ![s] = [q EXCEPT !.undelivered = q.undelivered + d.says]]
      BY <2>3 DEF Undelivered
    <3> DEFINE t == [happened |-> q.happened, told |-> q.told, undelivered |-> q.undelivered + d.says,
                     forgotten |-> q.forgotten, at |-> q.at, sentAt |-> q.sentAt]
    <3>2. tally' = [tally EXCEPT ![s] = t] /\ d.says \in Nat
      BY <2>1, <3>1, TallyFields DEF Deliveries
    <3>3. t \in Tallies
      BY <2>1, <3>2 DEF Tallies
    <3>4. /\ t.happened = tally[s].happened /\ t.forgotten = tally[s].forgotten
          /\ t.at = tally[s].at /\ t.sentAt = tally[s].sentAt
      OBVIOUS
    <3>5. t.told + t.undelivered = tally[s].told + tally[s].undelivered + d.says
      BY <2>1, <3>2 DEF Tallies
    <3>6. fails' \in Nat /\ fails' >= fails /\ (t.undelivered > tally[s].undelivered => fails' > 0)
      BY <2>1, <3>1 DEF Tallies
    <3> HIDE DEF t
    <3> QED
      BY <3>1, <3>2, <3>3, <3>4, <3>5, <3>6
  <2> QED
    BY <2>2, <2>3
<1>2. /\ Messages' = Messages /\ Findings' = Findings /\ dk' = dk
      /\ UNCHANGED <<desk, window, heard, fired, untold>>
  BY DEF Delivered, Undelivered, Messages, Findings, dk
<1>3. SignalShapes'
  BY <1>1, <1>2 DEF SignalsInductive, SignalShapes
<1>4. Books'
  <2> SUFFICES ASSUME NEW m \in Messages
               PROVE  MessageSound(m, heard[m], wire'[m], tally'[m], window, fails')
    BY <1>2 DEF Books, MessageSound
  <2>1. MessageSound(m, heard[m], wire[m], tally[m], window, fails)
    BY DEF SignalsInductive, Books
  <2>2. fails \in Nat /\ tally[m] \in Tallies /\ wire[m] \subseteq Deliveries
    BY DEF SignalsInductive, SignalShapes
  <2>3. CASE m # s
    <3>1. wire'[m] = wire[m] /\ tally'[m] = tally[m]
      BY <1>1, <2>3 DEF SignalsInductive, SignalShapes
    <3> QED
      BY <1>1, <2>1, <2>2, <3>1 DEF MessageSound, Tallies
  <2>4. CASE m = s
    <3>1. wire'[m] = wire[m] \ {d} /\ tally'[m] = t
      BY <1>1, <2>4 DEF SignalsInductive, SignalShapes
    <3>2. IsFiniteSet(wire[m] \ {d})
      BY <2>1, FS_RemoveElement DEF MessageSound
    <3>3. SumOf(wire[m]) = d.says + SumOf(wire[m] \ {d}) /\ SumOf(wire[m] \ {d}) \in Nat /\ d.says \in Nat
      <4>1. IsFiniteSet(wire[m]) /\ \A x \in wire[m] : x.says \in Nat
        BY WireSums DEF SignalsInductive
      <4> QED
        BY <4>1, <1>1, <2>4, SaysLess
    <3>4. heard[m] \in {Unheard} \cup Entries /\ Unheard \notin Entries /\ dk.occurrences[m] \in Nat
      BY DeskTyped DEF SignalsInductive, SignalShapes
    <3>5. t.happened = t.told + t.undelivered + t.forgotten + SumOf(wire[m] \ {d}) + Counting(heard[m])
      BY <1>1, <2>1, <2>2, <2>4, <3>3, <3>4 DEF MessageSound, Tallies, Counting, Entries
    <3>6. t.undelivered > 0 => fails' > 0
      BY <1>1, <2>1, <2>2, <2>4 DEF MessageSound, Tallies
    <3>7. MessageSound(m, heard[m], wire[m] \ {d}, t, window, fails')
      BY <1>1, <2>1, <2>4, <3>2, <3>5, <3>6 DEF MessageSound
    <3> QED
      BY <3>1, <3>7
  <2> QED
    BY <2>3, <2>4
<1>5. AgesTrue' /\ untold' = {}
  BY <1>2 DEF SignalsInductive, AgesTrue
<1> QED
  BY <1>3, <1>4, <1>5 DEF SignalsInductive

\* The entries that go with a pruning are of another time.
LEMMA StaleAreOther ==
    ASSUME NEW h \in [Messages -> {Unheard} \cup Entries], window \in Nat, NEW s \in Messages, h[s].at = window
    PROVE  s \notin Stale(h) /\ Stale(h) \subseteq Known(h)
  BY DEF Stale, Known, KeepWindows, Entries

\* The first of a window: it leaves with what was counted, and what a pruning drops is forgotten.
LEMMA ShippedStep ==
    ASSUME SignalsInductive, NEW s \in Messages, Shipped(s)
    PROVE  SignalsInductive'
<1> DEFINE says == 1 + Counting(heard[s])
           noted == [heard EXCEPT ![s] = [at |-> window, suppressed |-> 0]]
           new == [n |-> tally[s].happened, says |-> says]
           gone(m) == [tally[m] EXCEPT !.forgotten = @ + noted[m].suppressed]
           lost(m) == [happened |-> tally[m].happened, told |-> tally[m].told,
                       undelivered |-> tally[m].undelivered, forgotten |-> tally[m].forgotten + noted[m].suppressed,
                       at |-> tally[m].at, sentAt |-> tally[m].sentAt]
<1>1. /\ window \in Nat /\ fails \in Nat
      /\ heard \in [Messages -> {Unheard} \cup Entries]
      /\ wire \in [Messages -> SUBSET Deliveries]
      /\ tally \in [Messages -> Tallies]
      /\ Unheard \notin Entries /\ dk.occurrences \in [Messages -> Nat]
  BY DeskTyped DEF SignalsInductive, SignalShapes
<1>2. /\ tally[s].happened < dk.occurrences[s]
      /\ wire' = [wire EXCEPT ![s] = wire[s] \cup {new}]
      /\ heard' = [m \in Messages |-> IF m \in Stale(noted) THEN Unheard ELSE noted[m]]
      /\ tally' = [m \in Messages |-> IF m = s THEN Happens(tally[m], TRUE)
                                      ELSE IF m \in Stale(noted) THEN gone(m) ELSE tally[m]]
      /\ UNCHANGED <<desk, window, fails, hour, fired, untold>>
  BY DEF Shipped, Counting
<1>3. noted \in [Messages -> {Unheard} \cup Entries] /\ noted[s] = [at |-> window, suppressed |-> 0]
      /\ \A m \in Messages : m # s => noted[m] = heard[m]
  BY <1>1 DEF Entries
<1>4. s \notin Stale(noted) /\ Stale(noted) \subseteq Known(noted)
  <2> HIDE DEF noted
  <2> QED
    BY <1>1, <1>3, StaleAreOther
<1>5. says \in Nat /\ new \in Deliveries
  BY <1>1 DEF Counting, Entries, Deliveries, Tallies
<1>6. /\ Messages' = Messages /\ Findings' = Findings /\ dk' = dk
  BY <1>2 DEF Messages, Findings, dk
<1>7. Happens(tally[s], TRUE) \in Tallies
  BY <1>1 DEF Happens, Tallies
<1>8. ASSUME NEW m \in Messages, m \in Stale(noted)
      PROVE  m # s /\ noted[m] = heard[m] /\ noted[m] \in Entries /\ gone(m) = lost(m) /\ lost(m) \in Tallies
  <2>1. m # s /\ noted[m] \in Entries /\ noted[m] = heard[m]
    <3> HIDE DEF noted
    <3> QED
      BY <1>3, <1>4, <1>8 DEF Known
  <2>2. gone(m) = lost(m)
    <3> HIDE DEF noted
    <3> QED
      BY <1>1, TallyFields
  <2>3. lost(m) \in Tallies
    <3> HIDE DEF noted
    <3> QED
      BY <1>1, <2>1 DEF Tallies, Entries
  <2> QED
    BY <2>1, <2>2, <2>3
<1> HIDE DEF noted, gone, lost, new, says
<1>9. SignalShapes'
  <2>1. heard' \in [Messages -> {Unheard} \cup Entries]
    BY <1>2, <1>3
  <2>2. wire' \in [Messages -> SUBSET Deliveries]
    BY <1>1, <1>2, <1>5
  <2>3. tally' \in [Messages -> Tallies]
    BY <1>1, <1>2, <1>7, <1>8
  <2> QED
    BY <1>2, <1>6, <2>1, <2>2, <2>3 DEF SignalsInductive, SignalShapes
<1>10. Books'
  <2> SUFFICES ASSUME NEW m \in Messages
               PROVE  MessageSound(m, heard'[m], wire'[m], tally'[m], window, fails)
    BY <1>2, <1>6 DEF Books, MessageSound
  <2>1. MessageSound(m, heard[m], wire[m], tally[m], window, fails)
    BY DEF SignalsInductive, Books
  <2>2. SumOf(wire[m]) \in Nat /\ IsFiniteSet(wire[m]) /\ \A d \in wire[m] : d.says \in Nat
    BY WireSums DEF SignalsInductive
  <2>3. CASE m = s
    <3>1. heard'[m] = [at |-> window, suppressed |-> 0] /\ tally'[m] = Happens(tally[m], TRUE)
          /\ wire'[m] = wire[m] \cup {new}
      BY <1>1, <1>2, <1>3, <1>4, <2>3
    <3>2. new \notin wire[m] /\ new.n = tally[m].happened /\ new.says = 1 + Counting(heard[m])
      <4>1. new.n = tally[m].happened /\ new.says = 1 + Counting(heard[m])
        BY <2>3 DEF new, says
      <4>2. tally[m].happened \in Nat
        BY <1>1 DEF Tallies
      <4> QED
        BY <2>1, <4>1, <4>2 DEF MessageSound
    <3>3. SumOf(wire[m] \cup {new}) = new.says + SumOf(wire[m]) /\ IsFiniteSet(wire[m] \cup {new})
      <4>1. new.says \in Nat
        BY <1>5 DEF Deliveries
      <4> QED
        BY <2>2, <3>2, <4>1, SaysMore, FS_AddElement
    <3> DEFINE t == Happens(tally[m], TRUE)
               e == [at |-> window, suppressed |-> 0]
    <3>4. /\ t.happened = tally[m].happened + 1 /\ t.told = tally[m].told /\ t.undelivered = tally[m].undelivered
          /\ t.forgotten = tally[m].forgotten /\ t.at = window /\ t.sentAt = window
          /\ e.at = window /\ e.suppressed = 0 /\ e # Unheard
      <4>1. e \in Entries
        BY <1>1 DEF Entries
      <4> QED
        BY <1>1, <4>1 DEF Happens
    <3>5. tally[m] \in Tallies /\ heard[m] \in {Unheard} \cup Entries
      BY <1>1
    <3>6. Counting(heard[m]) \in Nat /\ Counting(e) = 0
      BY <3>4, <3>5 DEF Counting, Entries
    <3> HIDE DEF t, e
    <3>7. t.happened = t.told + t.undelivered + t.forgotten + SumOf(wire[m] \cup {new}) + Counting(e)
      BY <2>1, <2>2, <3>2, <3>3, <3>4, <3>5, <3>6 DEF MessageSound, Tallies
    <3>8. t.happened <= dk.occurrences[m] /\ \A d \in wire[m] \cup {new} : d.n < t.happened
      <4>1. \A d \in wire[m] : d.n \in Nat
        BY <1>1 DEF Deliveries
      <4> QED
        BY <1>1, <1>2, <2>1, <2>3, <3>2, <3>4, <3>5, <4>1 DEF MessageSound, Tallies
    <3>9. MessageSound(m, e, wire[m] \cup {new}, t, window, fails)
      BY <1>1, <2>1, <3>3, <3>4, <3>5, <3>7, <3>8 DEF MessageSound, Tallies
    <3> QED
      BY <3>1, <3>9 DEF t, e
  <2>4. CASE m # s
    <3>1. wire'[m] = wire[m]
      BY <1>1, <1>2, <2>4
    <3>2. CASE m \in Stale(noted)
      <4>1. heard'[m] = Unheard /\ tally'[m] = lost(m)
        BY <1>2, <1>8, <2>4, <3>2
      <4>2. heard[m] \in Entries /\ tally[m] \in Tallies /\ heard[m] # Unheard /\ noted[m] = heard[m]
        BY <1>1, <1>8, <3>2
      <4>3. MessageSound(m, Unheard, wire[m], lost(m), window, fails)
        BY <2>1, <2>2, <4>2 DEF MessageSound, Counting, lost, Tallies, Entries
      <4> QED
        BY <3>1, <4>1, <4>3
    <3>3. CASE m \notin Stale(noted)
      <4>1. heard'[m] = heard[m] /\ tally'[m] = tally[m]
        BY <1>2, <1>3, <2>4, <3>3
      <4> QED
        BY <2>1, <3>1, <4>1
    <3> QED
      BY <3>2, <3>3
  <2> QED
    BY <2>3, <2>4
<1>11. AgesTrue' /\ untold' = {}
  BY <1>2, <1>6 DEF SignalsInductive, AgesTrue
<1> QED
  BY <1>9, <1>10, <1>11 DEF SignalsInductive

\* The clock moves on.
LEMMA WindowStep ==
    ASSUME SignalsInductive, NextWindow
    PROVE  SignalsInductive'
<1>1. /\ Messages' = Messages /\ Findings' = Findings /\ dk' = dk
      /\ UNCHANGED <<desk, heard, wire, fails, tally, hour, fired, untold>>
  BY DEF NextWindow, Messages, Findings, dk
<1>2. window \in Nat /\ window' \in Nat /\ window' > window
  BY DeskTyped DEF NextWindow, SignalsInductive, SignalShapes
<1>3. SignalShapes'
  BY <1>1, <1>2 DEF SignalsInductive, SignalShapes
<1>4. Books'
  <2> SUFFICES ASSUME NEW s \in Messages
               PROVE  MessageSound(s, heard[s], wire[s], tally[s], window', fails)
    BY <1>1 DEF Books, MessageSound
  <2>1. MessageSound(s, heard[s], wire[s], tally[s], window, fails) /\ heard[s] \in {Unheard} \cup Entries
    BY DEF SignalsInductive, Books, SignalShapes
  <2> QED
    BY <1>2, <2>1 DEF MessageSound, Entries
<1>5. AgesTrue' /\ untold' = {}
  BY <1>1 DEF SignalsInductive, AgesTrue
<1> QED
  BY <1>3, <1>4, <1>5 DEF SignalsInductive

\* A cooldown is a number of quarters, and not none.
LEMMA Cooldowns == \A f \in Findings : Cooldown[f[1]] \in Nat \ {0}
<1> SUFFICES ASSUME NEW f \in Findings PROVE Cooldown[f[1]] \in Nat \ {0}
  OBVIOUS
<1>1. f[1] \in Kinds
  BY DEF Findings
<1> QED
  BY <1>1 DEF Kinds, Cooldown

\* An age grows, up to the cooldown of the finding.
LEMMA LaterTrue ==
    ASSUME NEW f \in Findings, NEW n \in Nat, NEW age \in {Unheard} \cup Nat
    PROVE  /\ Later(age, n, f) \in {Unheard} \cup Nat
           /\ Unheard \notin Nat /\ Later(age, n, f) # Unheard => Later(age, n, f) <= Cooldown[f[1]]
<1>1. Cooldown[f[1]] \in Nat
  BY Cooldowns
<1>2. CASE age = Unheard
  BY <1>2 DEF Later
<1>3. CASE age # Unheard
  <2> DEFINE S == {age + n, Cooldown[f[1]]}
  <2>1. S \in SUBSET Nat /\ S # {} /\ Cooldown[f[1]] \in S
    BY <1>1, <1>3
  <2>2. Min(S) \in S /\ \A m \in S : Min(S) <= m
    <3> HIDE DEF S
    <3> QED
      BY <2>1, MinIsLeast
  <2>3. Later(age, n, f) = Min(S)
    BY <1>3 DEF Later
  <2> HIDE DEF S
  <2> QED
    BY <2>1, <2>2, <2>3
<1> QED
  BY <1>2, <1>3

\* A scan leaves nothing untold: what it does not ship is within its cooldown.
LEMMA TickStep ==
    ASSUME SignalsInductive, Tick
    PROVE  SignalsInductive'
<1>1. /\ Messages' = Messages /\ Findings' = Findings /\ dk' = dk
      /\ UNCHANGED <<desk, window, heard, wire, fails, tally>>
  BY DEF Tick, Messages, Findings, dk
<1>2. PICK n \in dk.pauses : Scan(n) \/ ScanUnread(n)
  BY DEF Tick
<1>3. n \in Nat /\ Unheard \notin Nat /\ fired \in [Findings -> {Unheard} \cup Nat]
  BY DeskTyped DEF SignalsInductive, SignalShapes
<1>4. /\ fired' \in [Findings -> {Unheard} \cup Nat] /\ untold' = {}
      /\ \A f \in Findings : fired'[f] # Unheard => fired'[f] <= Cooldown[f[1]]
  <2>1. CASE Scan(n)
    <3> DEFINE ago(f) == IF Holds(f) /\ Arms(f) THEN 0 ELSE fired[f]
    <3>1. fired' = [f \in Findings |-> Later(ago(f), n, f)]
      BY <2>1 DEF Scan
    <3>2. untold' = {f \in Findings : Holds(f) /\ (ago(f) = Unheard \/ ago(f) >= Cooldown[f[1]])}
      BY <2>1 DEF Scan
    <3>3. \A f \in Findings : ago(f) \in {Unheard} \cup Nat
      BY <1>3
    <3>4. \A f \in Findings : Holds(f) => ago(f) # Unheard /\ ~(ago(f) >= Cooldown[f[1]])
      <4>1. \A f \in Findings : Holds(f) /\ Arms(f) => ago(f) = 0
        OBVIOUS
      <4>2. \A f \in Findings : ~Arms(f) => ago(f) = fired[f] /\ fired[f] # Unheard /\ ~(fired[f] >= Cooldown[f[1]])
        BY DEF Arms
      <4> HIDE DEF ago
      <4> QED
        BY <1>3, <4>1, <4>2, Cooldowns
    <3> HIDE DEF ago
    <3> QED
      BY <1>3, <3>1, <3>2, <3>3, <3>4, LaterTrue
  <2>2. CASE ScanUnread(n)
    <3>1. fired' = [f \in Findings |-> Later(fired[f], n, f)] /\ untold' = untold
      BY <2>2 DEF ScanUnread
    <3> QED
      BY <1>3, <3>1, LaterTrue DEF SignalsInductive
  <2> QED
    BY <1>2, <2>1, <2>2
<1>5. SignalShapes' /\ AgesTrue'
  BY <1>1, <1>4 DEF SignalsInductive, SignalShapes, AgesTrue
<1>6. Books'
  BY <1>1 DEF SignalsInductive, Books, MessageSound
<1> QED
  BY <1>4, <1>5, <1>6 DEF SignalsInductive

\* A restart forgets what was heard and what was suppressed; the wire and the books stand.
LEMMA RestartStep ==
    ASSUME SignalsInductive, Restarted
    PROVE  SignalsInductive'
<1>1. /\ Messages' = Messages /\ Findings' = Findings /\ dk' = dk /\ UNCHANGED <<desk, window>>
  BY DEF Restarted, Messages, Findings, dk
<1>2. /\ heard' = [s \in Messages |-> Unheard] /\ tally' = [s \in Messages |-> NothingYet]
      /\ wire' = [s \in Messages |-> {}] /\ fails' = 0
      /\ fired' = [f \in Findings |-> Unheard] /\ untold' = {}
  BY DEF Restarted
<1>3. NothingYet \in Tallies
  BY DEF NothingYet, Tallies
<1>4. SignalShapes'
  BY <1>1, <1>2, <1>3 DEF SignalsInductive, SignalShapes
<1>5. Books'
  <2> SUFFICES ASSUME NEW s \in Messages PROVE MessageSound(s, Unheard, {}, NothingYet, window, 0)
    BY <1>1, <1>2 DEF Books, MessageSound
  <2>1. dk.occurrences[s] \in Nat
    BY DeskTyped DEF SignalsInductive, SignalShapes
  <2>2. IsFiniteSet({})
    BY FS_EmptySet
  <2> QED
    BY <2>1, <2>2, SaysNone DEF MessageSound, NothingYet, Counting
<1>6. AgesTrue'
  BY <1>1, <1>2 DEF AgesTrue
<1> QED
  BY <1>2, <1>4, <1>5, <1>6 DEF SignalsInductive

\* Nothing happens.
LEMMA SignalsStutter ==
    ASSUME SignalsInductive, UNCHANGED signalVars
    PROVE  SignalsInductive'
<1>1. /\ Messages' = Messages /\ Findings' = Findings /\ dk' = dk
      /\ UNCHANGED <<desk, window, heard, wire, fails, tally, hour, fired, untold>>
  BY DEF signalVars, Messages, Findings, dk
<1>2. SignalShapes' /\ AgesTrue'
  BY <1>1 DEF SignalsInductive, SignalShapes, AgesTrue
<1>3. Books'
  BY <1>1 DEF SignalsInductive, Books, MessageSound
<1> QED
  BY <1>1, <1>2, <1>3 DEF SignalsInductive

\* Every step of the events keeps SignalsInductive.
LEMMA SignalsStep ==
    ASSUME SignalsInductive, [SignalNext]_signalVars
    PROVE  SignalsInductive'
<1>1. CASE \E s \in Messages : Suppressed(s) \/ Shipped(s) \/ Delivered(s) \/ Undelivered(s)
  BY <1>1, SuppressedStep, ShippedStep, EndedStep
<1>2. CASE NextWindow
  BY <1>2, WindowStep
<1>3. CASE Tick
  BY <1>3, TickStep
<1>4. CASE Restarted
  BY <1>4, RestartStep
<1>5. CASE UNCHANGED signalVars
  BY <1>5, SignalsStutter
<1> QED
  BY <1>1, <1>2, <1>3, <1>4, <1>5 DEF SignalNext

\* The inductive invariant implies the one the run checks.
LEMMA SignalsSays == SignalsInductive => SignalsInv
<1> SUFFICES ASSUME SignalsInductive PROVE SignalsInv
  OBVIOUS
<1>1. SignalsTypeOK
  <2>1. ASSUME NEW s \in Known(heard)
        PROVE  heard[s].at \in 0..window /\ heard[s].suppressed \in 0..dk.occurrences[s]
    <3>1. s \in Messages /\ heard[s] \in Entries /\ heard[s] # Unheard /\ tally[s] \in Tallies /\ window \in Nat
      BY <2>1 DEF Known, SignalsInductive, SignalShapes
    <3>2. MessageSound(s, heard[s], wire[s], tally[s], window, fails)
      BY <3>1 DEF SignalsInductive, Books
    <3>3. dk.occurrences[s] \in Nat
      BY <3>1, DeskTyped DEF SignalsInductive, SignalShapes
    <3> QED
      BY <3>1, <3>2, <3>3 DEF MessageSound, Entries, Tallies
  <2>2. \A f \in Findings : fired[f] \in {Unheard} \cup 0..Cooldown[f[1]]
    BY Cooldowns DEF SignalsInductive, SignalShapes, AgesTrue
  <2> QED
    BY <2>1, <2>2 DEF SignalsTypeOK
<1>2. NothingUnaccounted
  BY DEF NothingUnaccounted, SignalsInductive, Books, MessageSound, Counting
<1>3. NeverHeldBack /\ StandingFindingsTold
  BY DEF NeverHeldBack, StandingFindingsTold, SignalsInductive, Books, MessageSound
<1> QED
  BY <1>1, <1>2, <1>3 DEF SignalsInv

\* SignalsInductive holds of the events, for any messages, map sizes, windows, findings and pauses.
THEOREM SignalsHold == SignalSpec => []SignalsInductive
  BY SignalsStart, SignalsStep, PTL DEF SignalSpec

\* SignalsInv holds of the events (telemetry.js, waste.js): every event is sent or counted as suppressed,
\* nothing is held back, and a finding that stands is told.
THEOREM SignalsSound == SignalSpec => []SignalsInv
  BY SignalsHold, SignalsSays, PTL

\* MonitoringInv holds of the router's events and the pager beside it, whatever the order of their steps.
THEOREM MonitoringSound == MonitoringSpec => []MonitoringInv
<1>1. MonitoringInit => SignalsInductive /\ WatchInductive
  BY SignalsStart, WatchStart DEF MonitoringInit
<1>2. ASSUME SignalsInductive, WatchInductive, [MonitoringNext]_MonitoringVars
      PROVE  (SignalsInductive /\ WatchInductive)'
  <2>1. [SignalNext]_signalVars /\ [WatchNext]_watchVars
    BY <1>2 DEF MonitoringNext, MonitoringVars
  <2> QED
    BY <1>2, <2>1, SignalsStep, WatchStep
<1>3. SignalsInductive /\ WatchInductive => MonitoringInv
  BY SignalsSays, WatchIsSound DEF MonitoringInv
<1> QED
  BY <1>1, <1>2, <1>3, PTL DEF MonitoringSpec

(* Usage and the reports over it. *)

Counts == {"input", "output", "read", "write"}
Words == {"prompt", "completion", "total"}
Columns == {"prompt", "completion", "total", "read", "write"}
Usages == UNION {[D -> Nat] : D \in SUBSET Fields}
Cells == Nat \cup {Nil}

RowShapes ==
    [asked : {c.asked : c \in LedgerCalls}, sent : {c.sent : c \in LedgerCalls},
     provider : {c.provider : c \in LedgerCalls}, caller : {c.caller : c \in LedgerCalls}, direct : BOOLEAN,
     prompt : Cells, completion : Cells, total : Cells, read : Cells, write : Cells, said : Usages]

\* The words a call's usage comes in.
WordsOf(c) == IF c.dialect = "anthropic" THEN Counts ELSE Words

\* A row on which the upstream had stated s, in Anthropic's words: each class is in the prompt once, and the
\* breakdown is there as a whole or not at all.
Stated(r, s) ==
    /\ Counts \subseteq DOMAIN s
    /\ r.prompt = s.input + s.read + s.write /\ r.completion = s.output /\ r.total = r.prompt + s.output
    /\ (r.read = s.read /\ r.write = s.write) \/ (r.read = Nil /\ r.write = Nil)

RowSound(r) ==
    /\ r \in RowShapes
    /\ ~r.direct => IF "input" \in DOMAIN r.said THEN Stated(r, r.said)
                    ELSE r.provider = "claudecode" => DOMAIN r.said = {} /\ \A f \in Columns : r[f] = Nil

\* The answer being read: what has come of it is nothing, or all the words of its dialect.
FeedSound ==
    feed = NoFeed \/ \E c \in LedgerCalls, u \in Usages, fs \in Seq(Usages) :
        /\ feed = [call |-> c, frames |-> fs, usage |-> u]
        /\ c.dialect # "otel" /\ DOMAIN u \in {{}, WordsOf(c)}
        /\ DOMAIN u = {} => fs # <<>> /\ DOMAIN Head(fs) = WordsOf(c)
        /\ \A k \in DOMAIN fs : DOMAIN fs[k] \subseteq WordsOf(c)

\* The inductive invariant of the rows.
LedgerInductive == ledger \in Seq(RowShapes) /\ (\A i \in Rows : RowSound(ledger[i])) /\ FeedSound

\* Usages are functions on the fields that were stated.
LEMMA UsageFields ==
    ASSUME NEW u \in Usages
    PROVE  DOMAIN u \subseteq Fields /\ u \in [DOMAIN u -> Nat]
<1>1. PICK D \in SUBSET Fields : u \in [D -> Nat]
  BY DEF Usages
<1> QED
  BY <1>1

\* One usage over another states what either did.
LEMMA OverUsage ==
    ASSUME NEW u \in Usages, NEW v \in Usages
    PROVE  Over(u, v) \in Usages /\ DOMAIN Over(u, v) = DOMAIN u \cup DOMAIN v
<1>1. u \in [DOMAIN u -> Nat] /\ v \in [DOMAIN v -> Nat] /\ (DOMAIN u \cup DOMAIN v) \in SUBSET Fields
  BY UsageFields
<1> DEFINE D == DOMAIN u \cup DOMAIN v
<1>2. Over(u, v) \in [D -> Nat]
  BY <1>1 DEF Over
<1>3. D \in SUBSET Fields
  BY <1>1
<1> HIDE DEF D
<1>4. Over(u, v) \in Usages
  BY <1>2, <1>3 DEF Usages
<1> QED
  BY <1>2, <1>4 DEF D

\* The frames of an answer.
LEMMA FramesTyped ==
    ASSUME NEW c \in LedgerCalls
    PROVE  /\ Frames(c) \in Seq(Usages) /\ Frames(c) # <<>> /\ DOMAIN Head(Frames(c)) = WordsOf(c)
           /\ \A k \in DOMAIN Frames(c) : DOMAIN Frames(c)[k] \subseteq WordsOf(c)
<1> DEFINE a == c.used.input
           b == c.used.read
           d == c.used.write
           o == c.used.output
<1>1. a \in Nat /\ b \in Nat /\ d \in Nat /\ o \in Nat /\ a + o \in Nat
  BY LedgerAssumption
<1> HIDE DEF a, b, d, o
<1>2. ASSUME NEW n \in Nat
      PROVE  /\ [input |-> a, read |-> b, write |-> d, output |-> n] \in Usages
             /\ DOMAIN [input |-> a, read |-> b, write |-> d, output |-> n] = Counts
  <2>1. [input |-> a, read |-> b, write |-> d, output |-> n] \in [Counts -> Nat]
    BY <1>1, <1>2 DEF Counts
  <2>2. Counts \in SUBSET Fields
    BY DEF Counts, Fields
  <2> QED
    BY <2>1, <2>2 DEF Usages
<1>3. [output |-> o] \in Usages /\ DOMAIN [output |-> o] \subseteq Counts
  <2>1. [output |-> o] \in [{"output"} -> Nat]
    BY <1>1
  <2>2. {"output"} \in SUBSET Fields /\ {"output"} \subseteq Counts
    BY DEF Counts, Fields
  <2> QED
    BY <2>1, <2>2 DEF Usages
<1>4. /\ [prompt |-> a, completion |-> o, total |-> a + o] \in Usages
      /\ DOMAIN [prompt |-> a, completion |-> o, total |-> a + o] = Words
  <2>1. [prompt |-> a, completion |-> o, total |-> a + o] \in [Words -> Nat]
    BY <1>1 DEF Words
  <2>2. Words \in SUBSET Fields
    BY DEF Words, Fields
  <2> QED
    BY <2>1, <2>2 DEF Usages
<1>5. CASE c.dialect = "anthropic" /\ c.stream
  <2> DEFINE x == [input |-> a, read |-> b, write |-> d, output |-> 1]
             y == [output |-> o]
  <2>1. Frames(c) = <<x, y>>
    BY <1>5 DEF Frames, a, b, d, o
  <2>2. x \in Usages /\ DOMAIN x = Counts /\ y \in Usages /\ DOMAIN y \subseteq Counts
    BY <1>2, <1>3
  <2> HIDE DEF x, y
  <2> QED
    BY <1>5, <2>1, <2>2 DEF WordsOf
<1>6. CASE c.dialect = "anthropic" /\ ~ c.stream
  <2> DEFINE x == [input |-> a, read |-> b, write |-> d, output |-> o]
  <2>1. Frames(c) = <<x>>
    BY <1>6 DEF Frames, a, b, d, o
  <2>2. x \in Usages /\ DOMAIN x = Counts
    BY <1>1, <1>2
  <2> HIDE DEF x
  <2> QED
    BY <1>6, <2>1, <2>2 DEF WordsOf
<1>7. CASE c.dialect # "anthropic"
  <2> DEFINE x == [prompt |-> a, completion |-> o, total |-> a + o]
  <2>1. Frames(c) = <<x>>
    BY <1>7 DEF Frames, a, b, d, o
  <2>2. x \in Usages /\ DOMAIN x = Words
    BY <1>4
  <2> HIDE DEF x
  <2> QED
    BY <1>7, <2>1, <2>2 DEF WordsOf
<1> QED
  BY <1>5, <1>6, <1>7


\* A row keeps what it was given, column by column.
LEMMA RowColumns ==
    ASSUME NEW c \in LedgerCalls, NEW u \in Usages, NEW s \in Usages
    PROVE  /\ RowOf(c, u, s) \in RowShapes
           /\ \A f \in Columns : RowOf(c, u, s)[f] = Column(u, f)
<1>1. \A f \in Columns : Column(u, f) \in Cells
  BY UsageFields DEF Column, Cells
<1>2. /\ Column(u, "prompt") \in Cells /\ Column(u, "completion") \in Cells /\ Column(u, "total") \in Cells
      /\ Column(u, "read") \in Cells /\ Column(u, "write") \in Cells
  BY <1>1 DEF Columns
<1>3. RowOf(c, u, s) \in RowShapes
  BY <1>2 DEF RowOf, RowShapes
<1>4. \A f \in Columns : RowOf(c, u, s)[f] = Column(u, f)
  BY DEF RowOf, Columns
<1> QED
  BY <1>3, <1>4

\* The counts that an answer of a dialect leaves, by name.
LEMMA OfUsage ==
    ASSUME NEW u \in Usages, NEW f
    PROVE  Of(u, f) \in Nat /\ (f \in DOMAIN u => Of(u, f) = u[f])
  BY UsageFields DEF Of

\* The row of an answer that was not translated, read to its end or not.
LEMMA NormalizedRow ==
    ASSUME NEW c \in LedgerCalls, c.dialect # "otel", NEW u \in Usages, DOMAIN u \in {{}, WordsOf(c)},
           NEW r, r = RowOf(c, NormalizeUsage(u), u)
    PROVE  RowSound(r)
<1>1. r.direct = FALSE /\ r.said = u /\ r.provider = c.provider
  BY DEF RowOf
<1>2. CASE DOMAIN u = {}
  <2>1. NormalizeUsage(u) = u
    BY <1>2 DEF NormalizeUsage
  <2>2. r \in RowShapes /\ \A f \in Columns : r[f] = Nil
    BY <1>2, <2>1, RowColumns DEF Column
  <2> QED
    BY <1>1, <1>2, <2>2 DEF RowSound
<1>3. CASE DOMAIN u = Counts
  <2> DEFINE inp == Of(u, "input") + Of(u, "write") + Of(u, "read")
             out == Of(u, "output")
             w == [prompt |-> inp, completion |-> out, total |-> inp + out]
             n == NormalizeUsage(u)
  <2>1. u.input \in Nat /\ u.write \in Nat /\ u.read \in Nat /\ u.output \in Nat
        /\ inp = u.input + u.write + u.read /\ out = u.output
    <3>1. "input" \in DOMAIN u /\ "write" \in DOMAIN u /\ "read" \in DOMAIN u /\ "output" \in DOMAIN u
      BY <1>3 DEF Counts
    <3> QED
      BY <3>1, OfUsage, UsageFields
  <2>2. n = Over(w, u)
    BY <1>3 DEF NormalizeUsage, Counts
  <2>3. w \in Usages /\ DOMAIN w = Words
    <3>1. w \in [Words -> Nat]
      BY <2>1 DEF Words
    <3>2. Words \in SUBSET Fields
      BY DEF Words, Fields
    <3> QED
      BY <3>1, <3>2 DEF Usages
  <2>4. n \in Usages /\ DOMAIN n = Words \cup Counts
    <3> HIDE DEF w, n
    <3> QED
      BY <1>3, <2>2, <2>3, OverUsage
  <2>5. n.prompt = inp /\ n.completion = out /\ n.total = inp + out /\ n.read = u.read /\ n.write = u.write
    <3>1. \A f \in Words \cup Counts : n[f] = IF f \in Words THEN w[f] ELSE u[f]
      <4> HIDE DEF w, n
      <4> QED
        BY <1>3, <2>2, <2>3 DEF Over
    <3>2. w.prompt = inp /\ w.completion = out /\ w.total = inp + out
      OBVIOUS
    <3> HIDE DEF w, n, inp, out
    <3> QED
      BY <3>1, <3>2 DEF Words, Counts
  <2>6. r \in RowShapes /\ r.prompt = inp /\ r.completion = out /\ r.total = inp + out
        /\ r.read = u.read /\ r.write = u.write
    <3>1. \A f \in Columns : r[f] = Column(n, f) /\ r \in RowShapes
      <4> HIDE DEF n
      <4>1. r = RowOf(c, n, u)
        BY DEF n
      <4> QED
        BY <2>4, <4>1, RowColumns
    <3> HIDE DEF n, inp, out, w
    <3> QED
      BY <2>4, <2>5, <3>1 DEF Columns, Column, Words, Counts
  <2>7. Stated(r, u)
    <3> HIDE DEF n, w
    <3> QED
      BY <1>3, <2>1, <2>6 DEF Stated
  <2> HIDE DEF n, inp, out, w
  <2> QED
    BY <1>1, <1>3, <2>6, <2>7 DEF RowSound, Counts
<1>4. CASE DOMAIN u = Words /\ c.dialect # "anthropic"
  <2>1. NormalizeUsage(u) = u
    BY <1>4 DEF NormalizeUsage, Words
  <2>2. r \in RowShapes
    BY <2>1, RowColumns
  <2>3. c.provider # "claudecode"
    BY <1>4, LedgerAssumption
  <2>4. "input" \notin DOMAIN u
    BY <1>4 DEF Words
  <2> QED
    BY <1>1, <2>2, <2>3, <2>4 DEF RowSound
<1> QED
  BY <1>2, <1>3, <1>4 DEF WordsOf

\* The row of an answer that was translated: the three counts, and the breakdown unless it was streamed.
LEMMA TranslatedRow ==
    ASSUME NEW c \in LedgerCalls, c.dialect # "otel", NEW u \in Usages, DOMAIN u = WordsOf(c), NEW t,
           t = UsageToOpenai(u) \/ t = [f \in {"prompt", "completion", "total"} |-> UsageToOpenai(u)[f]],
           NEW r, r = RowOf(c, t, u)
    PROVE  RowSound(r)
<1> DEFINE inp == Of(u, "input") + Of(u, "read") + Of(u, "write")
           out == Of(u, "output")
           a == UsageToOpenai(u)
<1>1. r.direct = FALSE /\ r.said = u /\ r.provider = c.provider
  BY DEF RowOf
<1>2. inp \in Nat /\ out \in Nat /\ Of(u, "read") \in Nat /\ Of(u, "write") \in Nat
  BY OfUsage
<1>3. /\ a.prompt = inp /\ a.completion = out /\ a.total = inp + out
      /\ a.read = Of(u, "read") /\ a.write = Of(u, "write")
      /\ a \in [Words \cup {"read", "write"} -> Nat]
  BY <1>2 DEF UsageToOpenai, Words
<1>4. /\ t \in Usages /\ t.prompt = inp /\ t.completion = out /\ t.total = inp + out /\ Words \subseteq DOMAIN t
      /\ \/ "read" \in DOMAIN t /\ "write" \in DOMAIN t /\ t.read = Of(u, "read") /\ t.write = Of(u, "write")
         \/ "read" \notin DOMAIN t /\ "write" \notin DOMAIN t
  <2> HIDE DEF a, inp, out
  <2>1. CASE t = a
    <3>1. (Words \cup {"read", "write"}) \in SUBSET Fields
      BY DEF Words, Fields
    <3>2. t \in Usages
      BY <1>3, <2>1, <3>1 DEF Usages
    <3> QED
      BY <1>3, <2>1, <3>2
  <2>2. CASE t = [f \in Words |-> a[f]]
    <3>1. t \in [Words -> Nat]
      BY <1>3, <2>2
    <3>2. Words \in SUBSET Fields
      BY DEF Words, Fields
    <3>3. t \in Usages
      BY <3>1, <3>2 DEF Usages
    <3> QED
      BY <1>3, <2>2, <3>1, <3>3 DEF Words
  <2> QED
    BY <2>1, <2>2 DEF a, Words
<1>5. r \in RowShapes /\ r.prompt = inp /\ r.completion = out /\ r.total = inp + out
      /\ \/ r.read = Of(u, "read") /\ r.write = Of(u, "write")
         \/ r.read = Nil /\ r.write = Nil
  <2>1. r \in RowShapes /\ \A f \in Columns : r[f] = Column(t, f)
    BY <1>4, RowColumns
  <2> HIDE DEF inp, out
  <2> QED
    BY <1>4, <2>1 DEF Columns, Column, Words
<1>6. CASE DOMAIN u = Counts
  <2>1. "input" \in DOMAIN u /\ "write" \in DOMAIN u /\ "read" \in DOMAIN u /\ "output" \in DOMAIN u
    BY <1>6 DEF Counts
  <2>2. inp = u.input + u.read + u.write /\ out = u.output /\ Of(u, "read") = u.read /\ Of(u, "write") = u.write
    BY <2>1, OfUsage
  <2>3. Stated(r, u)
    <3> HIDE DEF inp, out
    <3> QED
      BY <1>2, <1>5, <1>6, <2>2 DEF Stated
  <2> HIDE DEF inp, out
  <2> QED
    BY <1>1, <1>5, <2>1, <2>3 DEF RowSound
<1>7. CASE DOMAIN u = Words /\ c.dialect # "anthropic"
  <2>1. c.provider # "claudecode"
    BY <1>7, LedgerAssumption
  <2>2. "input" \notin DOMAIN u
    BY <1>7 DEF Words
  <2> QED
    BY <1>1, <1>5, <2>1, <2>2 DEF RowSound
<1> QED
  BY <1>6, <1>7 DEF WordsOf

\* The row of a call that a client reported.
LEMMA ReportedRow ==
    ASSUME NEW c \in LedgerCalls, NEW r,
           r = [RowOf(c, [prompt |-> c.used.input, completion |-> c.used.output,
                          total |-> c.used.input + c.used.output, read |-> c.used.read, write |-> c.used.write],
                      c.used) EXCEPT !.direct = TRUE]
    PROVE  RowSound(r)
<1> DEFINE u == [prompt |-> c.used.input, completion |-> c.used.output,
                 total |-> c.used.input + c.used.output, read |-> c.used.read, write |-> c.used.write]
<1>1. /\ c.used.input \in Nat /\ c.used.output \in Nat /\ c.used.read \in Nat /\ c.used.write \in Nat
      /\ c.used.input + c.used.output \in Nat /\ c.used \in [input : Nat, output : Nat, read : Nat, write : Nat]
  BY LedgerAssumption
<1>2. u \in Usages
  <2>1. u \in [Words \cup {"read", "write"} -> Nat]
    BY <1>1 DEF Words
  <2>2. (Words \cup {"read", "write"}) \in SUBSET Fields
    BY DEF Words, Fields
  <2> QED
    BY <2>1, <2>2 DEF Usages
<1>3. c.used \in Usages
  <2>1. c.used \in [Counts -> Nat]
    BY <1>1 DEF Counts
  <2>2. Counts \in SUBSET Fields
    BY DEF Counts, Fields
  <2> QED
    BY <2>1, <2>2 DEF Usages
<1>4. RowOf(c, u, c.used) \in RowShapes
  <2> HIDE DEF u
  <2> QED
    BY <1>2, <1>3, RowColumns
<1>5. r \in RowShapes /\ r.direct
  <2> HIDE DEF u
  <2>1. r = [RowOf(c, u, c.used) EXCEPT !.direct = TRUE]
    BY DEF u
  <2> QED
    BY <1>4, <2>1 DEF RowShapes
<1> QED
  BY <1>5 DEF RowSound


\* An empty log.
LEMMA LedgerStart == LedgerInit => LedgerInductive
  BY DEF LedgerInit, LedgerInductive, Rows, FeedSound

\* A sound row more.
LEMMA LoggedStep ==
    ASSUME LedgerInductive, NEW r, RowSound(r), ledger' = Append(ledger, r), FeedSound'
    PROVE  LedgerInductive'
<1>1. r \in RowShapes /\ ledger \in Seq(RowShapes)
  BY DEF RowSound, LedgerInductive
<1>2. /\ ledger' \in Seq(RowShapes) /\ DOMAIN ledger' = 1..Len(ledger) + 1 /\ Len(ledger) \in Nat
      /\ \A i \in 1..Len(ledger) : ledger'[i] = ledger[i]
      /\ ledger'[Len(ledger) + 1] = r
  BY <1>1
<1>3. ASSUME NEW i \in Rows' PROVE RowSound(ledger[i])'
  <2>1. CASE i \in 1..Len(ledger)
    <3>1. i \in Rows
      BY <1>1, <2>1 DEF Rows
    <3>2. RowSound(ledger[i])
      BY <3>1 DEF LedgerInductive
    <3>3. ledger'[i] = ledger[i]
      BY <1>2, <2>1
    <3> QED
      BY <3>2, <3>3 DEF RowSound, Stated
  <2>2. CASE i = Len(ledger) + 1
    BY <1>2, <2>2 DEF RowSound, Stated
  <2> QED
    BY <1>2, <2>1, <2>2 DEF Rows
<1> QED
  BY <1>2, <1>3 DEF LedgerInductive

\* An answer under way.
LEMMA UnderWay ==
    ASSUME LedgerInductive, feed # NoFeed
    PROVE  \E c \in LedgerCalls, u \in Usages, fs \in Seq(Usages) :
               /\ feed = [call |-> c, frames |-> fs, usage |-> u]
               /\ c.dialect # "otel" /\ DOMAIN u \in {{}, WordsOf(c)}
               /\ DOMAIN u = {} => fs # <<>> /\ DOMAIN Head(fs) = WordsOf(c)
               /\ \A k \in DOMAIN fs : DOMAIN fs[k] \subseteq WordsOf(c)
  BY DEF LedgerInductive, FeedSound

\* A usage of which nothing is stated.
LEMMA NoUsageTyped == NoUsage \in Usages /\ DOMAIN NoUsage = {}
<1>1. NoUsage \in [{} -> Nat]
  BY DEF NoUsage
<1>2. {} \in SUBSET Fields
  OBVIOUS
<1> QED
  BY <1>1, <1>2 DEF Usages

\* An answer begins.
LEMMA AnswerStep ==
    ASSUME LedgerInductive, NEW c \in LedgerCalls, Answer(c)
    PROVE  LedgerInductive'
<1>1. /\ feed' = [call |-> c, frames |-> Frames(c), usage |-> NoUsage] /\ ledger' = ledger /\ c.dialect # "otel"
  BY DEF Answer
<1>2. FeedSound'
  BY <1>1, FramesTyped, NoUsageTyped DEF FeedSound, WordsOf
<1> QED
  BY <1>1, <1>2 DEF LedgerInductive, Rows, RowSound, Stated

\* A frame arrives.
LEMMA UsageFrameStep ==
    ASSUME LedgerInductive, UsageFrame
    PROVE  LedgerInductive'
<1>1. PICK c \in LedgerCalls, u \in Usages, fs \in Seq(Usages) :
               /\ feed = [call |-> c, frames |-> fs, usage |-> u]
               /\ c.dialect # "otel" /\ DOMAIN u \in {{}, WordsOf(c)}
               /\ DOMAIN u = {} => fs # <<>> /\ DOMAIN Head(fs) = WordsOf(c)
               /\ \A k \in DOMAIN fs : DOMAIN fs[k] \subseteq WordsOf(c)
  BY UnderWay DEF UsageFrame
<1> DEFINE v == Over(Head(fs), u)
           gs == Tail(fs)
<1>2. fs # <<>> /\ ledger' = ledger /\ feed' = [call |-> c, frames |-> gs, usage |-> v]
  BY <1>1 DEF UsageFrame
<1>3. Head(fs) \in Usages /\ Head(fs) = fs[1] /\ 1 \in DOMAIN fs /\ gs \in Seq(Usages)
      /\ \A k \in DOMAIN gs : k + 1 \in DOMAIN fs /\ gs[k] = fs[k + 1]
  BY <1>1, <1>2
<1>4. v \in Usages /\ DOMAIN v = DOMAIN Head(fs) \cup DOMAIN u
  BY <1>3, OverUsage
<1>5. DOMAIN v = WordsOf(c)
  BY <1>1, <1>3, <1>4
<1>6. WordsOf(c) # {}
  BY DEF WordsOf, Counts, Words
<1>7. \A k \in DOMAIN gs : DOMAIN gs[k] \subseteq WordsOf(c)
  BY <1>1, <1>3
<1> HIDE DEF v, gs
<1>8. FeedSound'
  BY <1>1, <1>2, <1>3, <1>4, <1>5, <1>6, <1>7 DEF FeedSound, WordsOf
<1> QED
  BY <1>2, <1>8 DEF LedgerInductive, Rows, RowSound, Stated

\* The answer is over.
LEMMA EndedLedgerStep ==
    ASSUME LedgerInductive, Ended
    PROVE  LedgerInductive'
<1>1. PICK c \in LedgerCalls, u \in Usages, fs \in Seq(Usages) :
               /\ feed = [call |-> c, frames |-> fs, usage |-> u]
               /\ c.dialect # "otel" /\ DOMAIN u \in {{}, WordsOf(c)}
               /\ DOMAIN u = {} => fs # <<>> /\ DOMAIN Head(fs) = WordsOf(c)
               /\ \A k \in DOMAIN fs : DOMAIN fs[k] \subseteq WordsOf(c)
  BY UnderWay DEF Ended
<1> DEFINE t == UsageToOpenai(u)
           w == CASE ~c.translated -> NormalizeUsage(u)
                  [] c.translated /\ c.stream -> [f \in {"prompt", "completion", "total"} |-> t[f]]
                  [] OTHER -> t
           r == RowOf(c, w, u)
<1>2. fs = <<>> /\ DOMAIN u = WordsOf(c)
  BY <1>1 DEF Ended
<1>3. ledger' = Append(ledger, r) /\ feed' = NoFeed
  BY <1>1 DEF Ended, Logged
<1>4. RowSound(r)
  <2>1. CASE ~c.translated
    <3>1. w = NormalizeUsage(u)
      BY <2>1
    <3> HIDE DEF w
    <3>2. r = RowOf(c, NormalizeUsage(u), u)
      BY <3>1
    <3> HIDE DEF r
    <3> QED
      BY <1>1, <3>2, NormalizedRow
  <2>2. CASE c.translated
    <3>1. w = t \/ w = [f \in {"prompt", "completion", "total"} |-> t[f]]
      BY <2>2
    <3> HIDE DEF w
    <3> QED
      BY <1>1, <1>2, <3>1, TranslatedRow
  <2>3. c.translated \in BOOLEAN
    BY LedgerAssumption
  <2> HIDE DEF r
  <2> QED
    BY <2>1, <2>2, <2>3
<1> HIDE DEF r
<1>5. FeedSound'
  BY <1>3 DEF FeedSound
<1> QED
  BY <1>3, <1>4, <1>5, LoggedStep

\* The upstream breaks off.
LEMMA BreaksOffStep ==
    ASSUME LedgerInductive, BreaksOff
    PROVE  LedgerInductive'
<1>1. PICK c \in LedgerCalls, u \in Usages, fs \in Seq(Usages) :
               /\ feed = [call |-> c, frames |-> fs, usage |-> u]
               /\ c.dialect # "otel" /\ DOMAIN u \in {{}, WordsOf(c)}
               /\ DOMAIN u = {} => fs # <<>> /\ DOMAIN Head(fs) = WordsOf(c)
               /\ \A k \in DOMAIN fs : DOMAIN fs[k] \subseteq WordsOf(c)
  BY UnderWay DEF BreaksOff
<1>2. CASE c.translated
  <2>1. feed' = NoFeed /\ ledger' = ledger
    BY <1>1, <1>2 DEF BreaksOff
  <2> QED
    BY <2>1 DEF LedgerInductive, Rows, RowSound, Stated, FeedSound
<1>3. CASE ~c.translated
  <2> DEFINE v == IF c.stream THEN u ELSE NoUsage
             r == RowOf(c, NormalizeUsage(v), v)
  <2>1. ledger' = Append(ledger, r) /\ feed' = NoFeed
    BY <1>1, <1>3 DEF BreaksOff, Logged
  <2>2. v \in Usages /\ DOMAIN v \in {{}, WordsOf(c)}
    BY <1>1, NoUsageTyped
  <2> HIDE DEF v
  <2>3. RowSound(r)
    BY <1>1, <2>2, NormalizedRow
  <2> HIDE DEF r
  <2>4. FeedSound'
    BY <2>1 DEF FeedSound
  <2> QED
    BY <2>1, <2>3, <2>4, LoggedStep
<1> QED
  BY <1>2, <1>3

\* A client reports a call.
LEMMA IngestStep ==
    ASSUME LedgerInductive, NEW c \in LedgerCalls, Ingest(c)
    PROVE  LedgerInductive'
<1> DEFINE r == [RowOf(c, [prompt |-> c.used.input, completion |-> c.used.output,
                          total |-> c.used.input + c.used.output, read |-> c.used.read, write |-> c.used.write],
                      c.used) EXCEPT !.direct = TRUE]
<1>1. ledger' = Append(ledger, r) /\ feed' = feed
  BY DEF Ingest
<1>2. RowSound(r)
  BY ReportedRow
<1>3. FeedSound'
  BY <1>1 DEF LedgerInductive, FeedSound, WordsOf
<1> HIDE DEF r
<1> QED
  BY <1>1, <1>2, <1>3, LoggedStep

\* Every step of the log keeps LedgerInductive.
LEMMA LedgerStep ==
    ASSUME LedgerInductive, [LedgerNext]_ledgerVars
    PROVE  LedgerInductive'
<1>1. CASE \E c \in LedgerCalls : Answer(c) \/ Ingest(c)
  BY <1>1, AnswerStep, IngestStep
<1>2. CASE UsageFrame \/ Ended \/ BreaksOff
  BY <1>2, UsageFrameStep, EndedLedgerStep, BreaksOffStep
<1>3. CASE ClearLedger
  BY <1>3 DEF ClearLedger, LedgerInductive, Rows, FeedSound, WordsOf
<1>4. CASE UNCHANGED ledgerVars
  BY <1>4 DEF ledgerVars, LedgerInductive, Rows, FeedSound, WordsOf, RowSound, Stated
<1> QED
  BY <1>1, <1>2, <1>3, <1>4 DEF LedgerNext

\* LedgerInductive holds of the log, for any calls, prices, directory and bound on the rows.
THEOREM LedgerHolds == LedgerSpec => []LedgerInductive
  BY LedgerStart, LedgerStep, PTL DEF LedgerSpec


\* The rows are finitely many, and each sums to a number.
LEMMA RowsTyped ==
    ASSUME LedgerInductive
    PROVE  /\ Rows = 1..Len(ledger) /\ IsFiniteSet(Rows) /\ \A S \in SUBSET Rows : IsFiniteSet(S)
           /\ \A i \in Rows : ledger[i] \in RowShapes /\ RowSound(ledger[i])
<1>1. ledger \in Seq(RowShapes) /\ \A i \in Rows : RowSound(ledger[i])
  BY DEF LedgerInductive
<1>2. Rows = 1..Len(ledger) /\ Len(ledger) \in Nat
  BY <1>1 DEF Rows
<1>3. IsFiniteSet(Rows)
  BY <1>2, FS_Interval
<1> QED
  BY <1>1, <1>2, <1>3, FS_Subset DEF RowSound

\* The invariant has the types of the log.
LEMMA LedgerTyped == LedgerInductive => LedgerTypeOK
<1> SUFFICES ASSUME LedgerInductive PROVE LedgerTypeOK
  OBVIOUS
<1>1. ASSUME NEW i \in Rows
      PROVE  /\ {ledger[i][f] : f \in {"prompt", "completion", "total", "read", "write"}} \subseteq Nat \cup {Nil}
             /\ DOMAIN ledger[i].said \subseteq Fields
  <2>1. ledger[i] \in RowShapes
    BY RowsTyped
  <2> QED
    BY <2>1, UsageFields DEF RowShapes, Cells
<1>2. feed # NoFeed => DOMAIN feed.usage \subseteq Fields
  BY UnderWay, UsageFields
<1> QED
  BY <1>1, <1>2 DEF LedgerTypeOK

\* A row that the upstream answered natively counts each token once.
LEMMA OnceIsOnce == LedgerInductive => RowsCountOnce
<1> SUFFICES ASSUME LedgerInductive, NEW i \in Rows, ~ledger[i].direct, "input" \in DOMAIN ledger[i].said
             PROVE  LET r == ledger[i] IN
                    /\ r.prompt = r.said.input + r.said.read + r.said.write
                    /\ r.total = r.prompt + r.said.output
  BY DEF RowsCountOnce
<1>1. RowSound(ledger[i])
  BY RowsTyped
<1> QED
  BY <1>1 DEF RowSound, Stated

\* A premium model that served a call of a line is in one of its groups.
LEMMA PremiumIsSeen == PremiumShows
<1> SUFFICES ASSUME NEW i \in Rows, SentOf(i) \in Premium PROVE FoldServedByModel(Line(i)).premium
  BY DEF PremiumShows
<1> DEFINE l == Line(i)
           groups == Where({k \in Rows : Line(k) = l}, LAMBDA k : <<ledger[k].sent, ledger[k].caller>>)
           model(g) == IF g[1] = Nil THEN l[1] ELSE g[1]
           g0 == <<ledger[i].sent, ledger[i].caller>>
<1>1. g0 \in DOMAIN groups
  BY DEF Where
<1>2. model(g0) = SentOf(i)
  BY DEF SentOf, Line
<1>3. FoldServedByModel(l).premium = \E g \in DOMAIN groups : model(g) \in Premium
  BY DEF FoldServedByModel
<1> QED
  BY <1>1, <1>2, <1>3

\* The facets and the filters of the log.
LEMMA FiltersDoSplit == LedgerInductive => FiltersSplit
<1> SUFFICES ASSUME LedgerInductive PROVE FiltersSplit
  OBVIOUS
<1>1. \A i \in Rows : ledger[i].read \in Nat \cup {Nil}
  BY RowsTyped DEF RowShapes, Cells
<1>2. Cached(TRUE) \cup Cached(FALSE) = Rows /\ Cached(TRUE) \cap Cached(FALSE) = {}
  BY <1>1, LedgerAssumption DEF Cached, Zero
<1>3. OfProject(Nil) = Rows \ Named
  BY DEF OfProject, Named
<1>4. ASSUME NEW i \in Named
      PROVE  LET c == ConsumerOf(i) IN
             OfProject(<<c, "bare">>) = OfProject(<<c, "jobless">>)
                                        \cup UNION {OfProject(<<c, j>>) : j \in DOMAIN JobsOf(c)}
  <2> DEFINE c == ConsumerOf(i)
  <2>1. \A k \in Named : /\ ledger[k].caller = <<ConsumerOf(k), JobOf(k)>> /\ JobOf(k) \notin {"bare", "jobless"}
                         /\ Nil \notin {ConsumerOf(k)} \X {"bare", "jobless", Nil}
                         /\ k \in Rows /\ ledger[k].caller # Nil
    <3>1. ASSUME NEW k \in Named PROVE \E d \in LedgerCalls : d.caller = ledger[k].caller /\ d.caller # Nil
      BY <3>1, RowsTyped DEF Named, RowShapes
    <3> QED
      BY <3>1, LedgerAssumption DEF ConsumerOf, JobOf, Named
  <2>2. OfProject(<<c, "bare">>) = {k \in Named : ConsumerOf(k) = c}
    BY <2>1 DEF OfProject, Named
  <2>3. OfProject(<<c, "jobless">>) = {k \in Rows : ledger[k].caller = <<c, Nil>>}
    BY <2>1 DEF OfProject
  <2>4. ByConsumer[c] = {k \in Named : ConsumerOf(k) = c}
    BY DEF ByConsumer, Where
  <2>5. DOMAIN JobsOf(c) = {JobOf(k) : k \in {k \in Named : ConsumerOf(k) = c /\ JobOf(k) # Nil}}
    BY <2>4 DEF JobsOf, Where
  <2>6. ASSUME NEW k \in Named, ConsumerOf(k) = c, JobOf(k) # Nil
        PROVE  OfProject(<<c, JobOf(k)>>) = {n \in Rows : ledger[n].caller = <<c, JobOf(k)>>}
    <3>1. JobOf(k) # "bare" /\ JobOf(k) # "jobless" /\ <<c, JobOf(k)>> # Nil
      BY <2>1, <2>6
    <3> HIDE DEF c
    <3> QED
      BY <3>1 DEF OfProject
  <2>7. ASSUME NEW n \in Rows, NEW j, ledger[n].caller = <<c, j>>, <<c, j>> # Nil
        PROVE  n \in Named /\ ConsumerOf(n) = c /\ JobOf(n) = j
    BY <2>7 DEF Named, ConsumerOf, JobOf
  <2>8. <<c, Nil>> # Nil /\ \A j : j # Nil => \A k \in Named : c = ConsumerOf(k) /\ j = JobOf(k) => <<c, j>> # Nil
    BY <2>1
  <2> HIDE DEF c
  <2>9. ASSUME NEW n \in OfProject(<<c, "bare">>)
        PROVE  n \in OfProject(<<c, "jobless">>) \cup UNION {OfProject(<<c, j>>) : j \in DOMAIN JobsOf(c)}
    <3>1. n \in Named /\ ConsumerOf(n) = c
      BY <2>2, <2>9
    <3>2. CASE JobOf(n) = Nil
      BY <2>1, <2>3, <3>1, <3>2
    <3>3. CASE JobOf(n) # Nil
      <4>1. JobOf(n) \in DOMAIN JobsOf(c)
        BY <2>5, <3>1, <3>3
      <4>2. n \in OfProject(<<c, JobOf(n)>>)
        BY <2>1, <2>6, <3>1, <3>3
      <4> QED
        BY <4>1, <4>2
    <3> QED
      BY <3>2, <3>3
  <2>10. ASSUME NEW n \in OfProject(<<c, "jobless">>) PROVE n \in OfProject(<<c, "bare">>)
    BY <2>2, <2>3, <2>7, <2>8
  <2>11. ASSUME NEW j \in DOMAIN JobsOf(c), NEW n \in OfProject(<<c, j>>) PROVE n \in OfProject(<<c, "bare">>)
    <3>1. PICK k \in Named : ConsumerOf(k) = c /\ JobOf(k) = j /\ j # Nil
      BY <2>5
    <3>2. n \in Rows /\ ledger[n].caller = <<c, j>> /\ <<c, j>> # Nil
      BY <2>6, <2>8, <2>11, <3>1
    <3> QED
      BY <2>2, <2>7, <3>2
  <2> QED
    BY <2>9, <2>10, <2>11 DEF c
<1> QED
  BY <1>2, <1>3, <1>4 DEF FiltersSplit


\* What is counted of a row is a number.
LEMMA CountsTyped ==
    ASSUME LedgerInductive, NEW count \in {One, Billable}, NEW i \in Rows
    PROVE  count[i] \in Nat
<1>1. One[i] \in Nat
  BY DEF One
<1>2. Billable[i] \in Nat
  <2>1. ledger[i].total \in Nat \cup {Nil} /\ ledger[i].read \in Nat \cup {Nil}
    BY RowsTyped DEF RowShapes, Cells
  <2> QED
    BY <2>1 DEF Billable, AtLeast0
<1> QED
  BY <1>1, <1>2

\* The rollups of one answer hold the same rows.
LEMMA RollupsDoConserve == LedgerInductive => RollupsConserve
<1> SUFFICES ASSUME LedgerInductive PROVE RollupsConserve
  OBVIOUS
<1>0. IsFiniteSet(Rows) /\ \A S \in SUBSET Rows : IsFiniteSet(S)
  BY RowsTyped
<1>1. ASSUME NEW count \in {One, Billable}
      PROVE  LET all(by) == SumFunction([v \in DOMAIN by |-> SumFunctionOnSet(count, by[v])])
             IN  /\ all(ByKind) = all(ByConsumer)
                 /\ \A c \in DOMAIN ByConsumer : all(JobsOf(c)) <= SumFunctionOnSet(count, ByConsumer[c])
  <2> DEFINE all(by) == SumFunction([v \in DOMAIN by |-> SumFunctionOnSet(count, by[v])])
  <2>1. \A i \in Rows : count[i] \in Nat
    BY <1>1, CountsTyped
  <2> HIDE DEF all
  <2>2. Named \in SUBSET Rows
    BY DEF Named
  <2>3. all(ByKind) = SumFunctionOnSet(count, Named)
    <3> DEFINE g == [i \in Named |-> KindOf(i)]
               W == ByKind
               P == [v \in DOMAIN W |-> SumFunctionOnSet(count, W[v])]
    <3>1. /\ \A v : v \in DOMAIN W <=> \E x \in Named : g[x] = v
          /\ \A v \in DOMAIN W : W[v] \in SUBSET Named /\ \A x \in Named : x \in W[v] <=> g[x] = v
      BY DEF ByKind, Where
    <3>2. IsFiniteSet(Named) /\ \A x \in Named : count[x] \in Nat
      BY <1>0, <2>1, <2>2
    <3> HIDE DEF g, W
    <3>3. DOMAIN P = DOMAIN W /\ \A v \in DOMAIN W : P[v] = SumFunctionOnSet(count, W[v])
      OBVIOUS
    <3> HIDE DEF P
    <3>4. SumFunction(P) = SumFunctionOnSet(count, Named)
      BY <3>1, <3>2, <3>3, SumOfGroups
    <3> QED
      BY <3>4 DEF all, W, P
  <2>4. all(ByConsumer) = SumFunctionOnSet(count, Named)
    <3> DEFINE g == [i \in Named |-> ConsumerOf(i)]
               W == ByConsumer
               P == [v \in DOMAIN W |-> SumFunctionOnSet(count, W[v])]
    <3>1. /\ \A v : v \in DOMAIN W <=> \E x \in Named : g[x] = v
          /\ \A v \in DOMAIN W : W[v] \in SUBSET Named /\ \A x \in Named : x \in W[v] <=> g[x] = v
      BY DEF ByConsumer, Where
    <3>2. IsFiniteSet(Named) /\ \A x \in Named : count[x] \in Nat
      BY <1>0, <2>1, <2>2
    <3> HIDE DEF g, W
    <3>3. DOMAIN P = DOMAIN W /\ \A v \in DOMAIN W : P[v] = SumFunctionOnSet(count, W[v])
      OBVIOUS
    <3> HIDE DEF P
    <3>4. SumFunction(P) = SumFunctionOnSet(count, Named)
      BY <3>1, <3>2, <3>3, SumOfGroups
    <3> QED
      BY <3>4 DEF all, W, P
  <2>5. ASSUME NEW c \in DOMAIN ByConsumer
        PROVE  all(JobsOf(c)) <= SumFunctionOnSet(count, ByConsumer[c])
    <3> DEFINE S == {i \in ByConsumer[c] : JobOf(i) # Nil}
               g == [i \in S |-> JobOf(i)]
               W == JobsOf(c)
               P == [v \in DOMAIN W |-> SumFunctionOnSet(count, W[v])]
    <3>1. ByConsumer[c] \in SUBSET Named
      BY DEF ByConsumer, Where
    <3>2. /\ \A v : v \in DOMAIN W <=> \E x \in S : g[x] = v
          /\ \A v \in DOMAIN W : W[v] \in SUBSET S /\ \A x \in S : x \in W[v] <=> g[x] = v
      BY DEF JobsOf, Where
    <3>3. S \in SUBSET ByConsumer[c] /\ IsFiniteSet(S) /\ IsFiniteSet(ByConsumer[c])
          /\ \A x \in ByConsumer[c] : count[x] \in Nat
      <4>1. S \in SUBSET Rows /\ ByConsumer[c] \in SUBSET Rows
        BY <2>2, <3>1
      <4> QED
        BY <1>0, <2>1, <4>1
    <3>4. \A x \in S : count[x] \in Nat
      BY <3>3
    <3> HIDE DEF g, W, S
    <3>5. DOMAIN P = DOMAIN W /\ \A v \in DOMAIN W : P[v] = SumFunctionOnSet(count, W[v])
      OBVIOUS
    <3> HIDE DEF P
    <3>7. SumFunction(P) = SumFunctionOnSet(count, S)
      BY <3>2, <3>3, <3>4, <3>5, SumOfGroups
    <3>6. SumFunctionOnSet(count, S) <= SumFunctionOnSet(count, ByConsumer[c])
      BY <3>3, SumOfPart
    <3> QED
      BY <3>6, <3>7 DEF all, W, P
  <2> QED
    BY <2>3, <2>4, <2>5 DEF all
<1>2. LET series == Where(Owned, SeriesKey)
      IN  Cardinality(Rows) = Cardinality(Excluded) + SumFunction([k \in DOMAIN series |-> Cardinality(series[k])])
  <2> DEFINE W == Where(Owned, SeriesKey)
             g == [i \in Owned |-> SeriesKey(i)]
  <2>1. Owned \in SUBSET Rows /\ Excluded = Rows \ Owned
    BY DEF Owned, Named, Excluded
  <2>2. IsFiniteSet(Owned) /\ IsFiniteSet(Excluded)
    BY <1>0, <2>1
  <2>3. /\ \A v : v \in DOMAIN W <=> \E x \in Owned : g[x] = v
        /\ \A v \in DOMAIN W : W[v] \in SUBSET Owned /\ \A x \in Owned : x \in W[v] <=> g[x] = v
    BY DEF Where
  <2>4. \A k \in DOMAIN W : W[k] \in SUBSET Owned
    BY <2>3
  <2> HIDE DEF W, g
  <2>5. SumFunction([v \in DOMAIN W |-> SumFunctionOnSet(One, W[v])]) = SumFunctionOnSet(One, Owned)
    <3> DEFINE P == [v \in DOMAIN W |-> SumFunctionOnSet(One, W[v])]
    <3>1. \A x \in Owned : One[x] \in Nat
      BY <2>1 DEF One
    <3>2. DOMAIN P = DOMAIN W /\ \A v \in DOMAIN W : P[v] = SumFunctionOnSet(One, W[v])
      OBVIOUS
    <3> HIDE DEF P
    <3>3. SumFunction(P) = SumFunctionOnSet(One, Owned)
      BY <2>2, <2>3, <3>1, <3>2, SumOfGroups
    <3> QED
      BY <3>3 DEF P
  <2>6. \A s \in SUBSET Owned : SumFunctionOnSet(One, s) = Cardinality(s)
    <3>1. ASSUME NEW s \in SUBSET Owned PROVE SumFunctionOnSet(One, s) = Cardinality(s)
      <4>1. IsFiniteSet(s) /\ \A x \in s : One[x] = 1
        BY <1>0, <2>1 DEF One
      <4> QED
        BY <4>1, SumOfOnes
    <3> QED
      BY <3>1
  <2>7. [v \in DOMAIN W |-> SumFunctionOnSet(One, W[v])] = [v \in DOMAIN W |-> Cardinality(W[v])]
    BY <2>4, <2>6
  <2>8. SumFunctionOnSet(One, Owned) = Cardinality(Owned)
    BY <2>6
  <2>9. Cardinality(Rows) = Cardinality(Excluded) + Cardinality(Owned)
    <3>1. Excluded \cup Owned = Rows /\ Excluded \cap Owned = {}
      BY <2>1
    <3>2. /\ Cardinality(Excluded \cup Owned)
               = Cardinality(Excluded) + Cardinality(Owned) - Cardinality(Excluded \cap Owned)
          /\ Cardinality({}) = 0 /\ Cardinality(Excluded) \in Nat /\ Cardinality(Owned) \in Nat
      BY <2>2, FS_Union, FS_EmptySet, FS_CardinalityType
    <3>3. /\ Cardinality(Rows) = Cardinality(Excluded \cup Owned)
          /\ Cardinality(Excluded \cap Owned) = 0
      BY <3>1, <3>2
    <3> QED
      BY <3>2, <3>3
  <2> QED
    BY <2>5, <2>7, <2>8, <2>9 DEF W
<1> QED
  BY <1>1, <1>2 DEF RollupsConserve


\* What a group of calls is priced at is what they are priced at one by one: where no call has read and written
\* more of the cache than it was prompted with, the price is linear in the four counts.
LEMMA SumOfCosts ==
    ASSUME NEW S, IsFiniteSet(S), NEW p, NEW c, NEW r, NEW w, NEW cost, NEW x \in Nat, NEW y \in Nat,
           \A k \in S : /\ p[k] \in Nat /\ c[k] \in Nat /\ r[k] \in Nat /\ w[k] \in Nat /\ r[k] + w[k] <= p[k]
                        /\ cost[k] = AtLeast0(p[k] - r[k] - w[k]) * 20 * x + r[k] * 2 * x + w[k] * 25 * x
                                     + c[k] * 20 * y
    PROVE  /\ \A k \in S : cost[k] \in Nat
           /\ SumFunctionOnSet(cost, S)
              = AtLeast0(SumFunctionOnSet(p, S) - SumFunctionOnSet(r, S) - SumFunctionOnSet(w, S)) * 20 * x
                + SumFunctionOnSet(r, S) * 2 * x + SumFunctionOnSet(w, S) * 25 * x + SumFunctionOnSet(c, S) * 20 * y
<1> DEFINE q == [k \in S |-> p[k] - r[k] - w[k]]
           rw == [k \in S |-> r[k] + w[k]]
           xq == [k \in S |-> (20 * x) * q[k]]
           xr == [k \in S |-> (2 * x) * r[k]]
           xw == [k \in S |-> (25 * x) * w[k]]
           yc == [k \in S |-> (20 * y) * c[k]]
           two == [k \in S |-> xq[k] + xr[k]]
           three == [k \in S |-> two[k] + xw[k]]
<1>1. \A k \in S : q[k] \in Nat /\ p[k] = q[k] + rw[k] /\ rw[k] = r[k] + w[k] /\ rw[k] \in Nat
                   /\ AtLeast0(p[k] - r[k] - w[k]) = q[k]
  BY DEF AtLeast0
<1>2. 20 * x \in Nat /\ 2 * x \in Nat /\ 25 * x \in Nat /\ 20 * y \in Nat
  OBVIOUS
<1>3. \A k \in S : /\ xq[k] = (20 * x) * q[k] /\ xr[k] = (2 * x) * r[k] /\ xw[k] = (25 * x) * w[k]
                   /\ yc[k] = (20 * y) * c[k] /\ two[k] = xq[k] + xr[k] /\ three[k] = two[k] + xw[k]
  OBVIOUS
<1> HIDE DEF q, rw, xq, xr, xw, yc, two, three
<1>4. \A a \in Nat, b \in Nat : a * b \in Nat /\ b * 20 * a = (20 * a) * b /\ b * 2 * a = (2 * a) * b
                                /\ b * 25 * a = (25 * a) * b
  OBVIOUS
<1>5. \A k \in S : xq[k] \in Nat /\ xr[k] \in Nat /\ xw[k] \in Nat /\ yc[k] \in Nat
  BY <1>1, <1>2, <1>3, <1>4
<1>6. \A k \in S : two[k] \in Nat /\ three[k] \in Nat
  BY <1>3, <1>5
<1>7. \A k \in S : cost[k] = three[k] + yc[k] /\ cost[k] \in Nat
  <2>1. ASSUME NEW k \in S PROVE cost[k] = three[k] + yc[k]
    <3>1. cost[k] = q[k] * 20 * x + r[k] * 2 * x + w[k] * 25 * x + c[k] * 20 * y
      BY <1>1
    <3>2. q[k] * 20 * x = xq[k] /\ r[k] * 2 * x = xr[k] /\ w[k] * 25 * x = xw[k] /\ c[k] * 20 * y = yc[k]
      BY <1>1, <1>3, <1>4
    <3> QED
      BY <1>3, <1>5, <3>1, <3>2
  <2> QED
    BY <1>5, <1>6, <2>1
<1>8. SumFunctionOnSet(p, S) = SumFunctionOnSet(q, S) + SumFunctionOnSet(rw, S)
  BY <1>1, SumBoth
<1>9. SumFunctionOnSet(rw, S) = SumFunctionOnSet(r, S) + SumFunctionOnSet(w, S)
  BY <1>1, SumBoth
<1>10. /\ SumFunctionOnSet(xq, S) = (20 * x) * SumFunctionOnSet(q, S)
       /\ SumFunctionOnSet(xr, S) = (2 * x) * SumFunctionOnSet(r, S)
       /\ SumFunctionOnSet(xw, S) = (25 * x) * SumFunctionOnSet(w, S)
       /\ SumFunctionOnSet(yc, S) = (20 * y) * SumFunctionOnSet(c, S)
  <2>1. SumFunctionOnSet(xq, S) = (20 * x) * SumFunctionOnSet(q, S)
    BY <1>1, <1>2, <1>3, SumTimes
  <2>2. SumFunctionOnSet(xr, S) = (2 * x) * SumFunctionOnSet(r, S)
    BY <1>2, <1>3, SumTimes
  <2>3. SumFunctionOnSet(xw, S) = (25 * x) * SumFunctionOnSet(w, S)
    BY <1>2, <1>3, SumTimes
  <2>4. SumFunctionOnSet(yc, S) = (20 * y) * SumFunctionOnSet(c, S)
    BY <1>2, <1>3, SumTimes
  <2> QED
    BY <2>1, <2>2, <2>3, <2>4
<1>11. SumFunctionOnSet(two, S) = SumFunctionOnSet(xq, S) + SumFunctionOnSet(xr, S)
  BY <1>3, <1>5, SumBoth
<1>12. SumFunctionOnSet(three, S) = SumFunctionOnSet(two, S) + SumFunctionOnSet(xw, S)
  BY <1>3, <1>5, <1>6, SumBoth
<1>13. SumFunctionOnSet(cost, S) = SumFunctionOnSet(three, S) + SumFunctionOnSet(yc, S)
  BY <1>5, <1>6, <1>7, SumBoth
<1>14. /\ SumFunctionOnSet(q, S) \in Nat /\ SumFunctionOnSet(r, S) \in Nat /\ SumFunctionOnSet(w, S) \in Nat
       /\ SumFunctionOnSet(c, S) \in Nat
  <2>1. SumFunctionOnSet(q, S) \in Nat
    BY <1>1, SumSame
  <2>2. SumFunctionOnSet(r, S) \in Nat
    BY SumSame
  <2>3. SumFunctionOnSet(w, S) \in Nat
    BY SumSame
  <2>4. SumFunctionOnSet(c, S) \in Nat
    BY SumSame
  <2> QED
    BY <2>1, <2>2, <2>3, <2>4
<1> DEFINE Q == SumFunctionOnSet(q, S)
           R == SumFunctionOnSet(r, S)
           U == SumFunctionOnSet(w, S)
           C == SumFunctionOnSet(c, S)
<1>15. AtLeast0(SumFunctionOnSet(p, S) - R - U) = Q
  <2>1. SumFunctionOnSet(p, S) = Q + (R + U)
    BY <1>8, <1>9
  <2> HIDE DEF Q, R, U
  <2>2. Q \in Nat /\ R \in Nat /\ U \in Nat
    BY <1>14 DEF Q, R, U
  <2> QED
    BY <2>1, <2>2 DEF AtLeast0
<1>16. SumFunctionOnSet(cost, S) = (20 * x) * Q + (2 * x) * R + (25 * x) * U + (20 * y) * C
  BY <1>10, <1>11, <1>12, <1>13
<1>17. Q * 20 * x = (20 * x) * Q /\ R * 2 * x = (2 * x) * R /\ U * 25 * x = (25 * x) * U /\ C * 20 * y = (20 * y) * C
  BY <1>4, <1>14
<1> HIDE DEF Q, R, U, C
<1>18. SumFunctionOnSet(cost, S)
       = AtLeast0(SumFunctionOnSet(p, S) - R - U) * 20 * x + R * 2 * x + U * 25 * x + C * 20 * y
  BY <1>15, <1>16, <1>17
<1> QED
  BY <1>7, <1>18 DEF R, U, C

\* What the row of a call of claudecode is priced at is what the call costs.
LEMMA RowCost ==
    ASSUME LedgerInductive, NEW k \in Rows, ledger[k].provider = "claudecode", ~ledger[k].direct
    PROVE  LET it == ledger[k]
               p == Zero(it.prompt)
               c == Zero(it.completion)
               r == Zero(it.read)
               w == Zero(it.write)
           IN  /\ p \in Nat /\ c \in Nat /\ r \in Nat /\ w \in Nat /\ r + w <= p
               /\ CallCost(k) = ListCost(SentOf(k), p, c, r, w)
<1> DEFINE it == ledger[k]
           s == it.said
<1>1. it \in RowShapes /\ RowSound(it)
  BY RowsTyped
<1>2. s \in Usages /\ s \in [DOMAIN s -> Nat] /\ Nil \notin Nat
  BY <1>1, UsageFields, LedgerAssumption DEF RowShapes
<1>3. CASE "input" \in DOMAIN s
  <2>1. Stated(it, s)
    BY <1>1, <1>3 DEF RowSound
  <2>2. /\ s.input \in Nat /\ s.read \in Nat /\ s.write \in Nat /\ s.output \in Nat
        /\ Of(s, "input") = s.input /\ Of(s, "read") = s.read /\ Of(s, "write") = s.write
        /\ Of(s, "output") = s.output
    BY <1>2, <2>1 DEF Stated, Counts, Of
  <2>3. /\ it.prompt = s.input + s.read + s.write /\ it.prompt \in Nat /\ it.completion = s.output
        /\ (it.read = s.read /\ it.write = s.write) \/ (it.read = Nil /\ it.write = Nil)
    BY <2>1, <2>2 DEF Stated
  <2>4. Zero(it.prompt) = it.prompt /\ Zero(it.completion) = s.output
    BY <1>2, <2>2, <2>3 DEF Zero
  <2>5. CASE it.read = s.read /\ it.write = s.write
    <3>1. Zero(it.read) = s.read /\ Zero(it.write) = s.write
      BY <1>2, <2>2, <2>5 DEF Zero
    <3>2. CallCost(k) = ListCost(SentOf(k), s.input + s.read + s.write, s.output, s.read, s.write)
      BY <1>2, <2>2, <2>5 DEF CallCost
    <3> QED
      BY <2>2, <2>3, <2>4, <3>1, <3>2
  <2>6. CASE it.read = Nil /\ it.write = Nil
    <3>1. Zero(it.read) = 0 /\ Zero(it.write) = 0
      BY <2>6 DEF Zero
    <3>2. CallCost(k) = ListCost(SentOf(k), s.input + s.read + s.write, s.output, 0, 0)
      BY <2>2, <2>6 DEF CallCost
    <3> QED
      BY <2>2, <2>3, <2>4, <3>1, <3>2
  <2> QED
    BY <2>3, <2>5, <2>6
<1>4. CASE "input" \notin DOMAIN s
  <2>1. DOMAIN s = {} /\ \A f \in Columns : it[f] = Nil
    BY <1>1, <1>4 DEF RowSound
  <2>2. it.prompt = Nil /\ it.completion = Nil /\ it.read = Nil /\ it.write = Nil
    BY <2>1 DEF Columns
  <2>3. Of(s, "input") = 0 /\ Of(s, "read") = 0 /\ Of(s, "write") = 0 /\ Of(s, "output") = 0
    BY <2>1 DEF Of
  <2>4. CallCost(k) = ListCost(SentOf(k), 0, 0, 0, 0)
    BY <2>2, <2>3 DEF CallCost
  <2> QED
    BY <2>2, <2>4 DEF Zero
<1> QED
  BY <1>3, <1>4

\* The calls of one group of a line ran on one model: their price together is the sum of their prices.
LEMMA GroupCost ==
    ASSUME LedgerInductive, NEW m \in DOMAIN ListPrice, NEW S \in SUBSET Rows,
           \A k \in S : SentOf(k) = m /\ ledger[k].provider = "claudecode" /\ ~ledger[k].direct
    PROVE  /\ \A k \in S : CallCost(k) \in Nat
           /\ CostOf(m, S) = SumFunctionOnSet([k \in Rows |-> CallCost(k)], S)
<1> DEFINE p == [i \in Rows |-> Zero(ledger[i]["prompt"])]
           c == [i \in Rows |-> Zero(ledger[i]["completion"])]
           r == [i \in Rows |-> Zero(ledger[i]["read"])]
           w == [i \in Rows |-> Zero(ledger[i]["write"])]
           cost == [k \in Rows |-> CallCost(k)]
           x == ListPrice[m].in
           y == ListPrice[m].out
<1>1. x \in Nat /\ y \in Nat /\ IsFiniteSet(S)
  BY LedgerAssumption, RowsTyped
<1>2. \A k \in S : /\ p[k] \in Nat /\ c[k] \in Nat /\ r[k] \in Nat /\ w[k] \in Nat /\ r[k] + w[k] <= p[k]
                   /\ CallCost(k) = ListCost(m, p[k], c[k], r[k], w[k]) /\ cost[k] = CallCost(k)
  BY RowCost
<1> HIDE DEF p, c, r, w, cost
<1>3. \A a, b, d, e : ListCost(m, a, b, d, e) = AtLeast0(a - d - e) * 20 * x + d * 2 * x + e * 25 * x + b * 20 * y
  BY DEF ListCost
<1> HIDE DEF x, y
<1>4. \A k \in S : cost[k] = AtLeast0(p[k] - r[k] - w[k]) * 20 * x + r[k] * 2 * x + w[k] * 25 * x + c[k] * 20 * y
  BY <1>2, <1>3
<1>5. /\ \A k \in S : cost[k] \in Nat
      /\ SumFunctionOnSet(cost, S)
         = AtLeast0(SumFunctionOnSet(p, S) - SumFunctionOnSet(r, S) - SumFunctionOnSet(w, S)) * 20 * x
           + SumFunctionOnSet(r, S) * 2 * x + SumFunctionOnSet(w, S) * 25 * x + SumFunctionOnSet(c, S) * 20 * y
  BY <1>1, <1>2, <1>4, SumOfCosts
<1>6. CostOf(m, S) = ListCost(m, SumFunctionOnSet(p, S), SumFunctionOnSet(c, S), SumFunctionOnSet(r, S),
                              SumFunctionOnSet(w, S))
  BY DEF CostOf, Sum, p, c, r, w
<1>7. CostOf(m, S) = SumFunctionOnSet(cost, S)
  BY <1>3, <1>5, <1>6
<1> QED
  BY <1>2, <1>5, <1>7 DEF cost

\* The price of a line is the price of its calls, or none where a model has none.
LEMMA PricesAreExact == LedgerInductive => ListCostIsExact
<1> SUFFICES ASSUME LedgerInductive, NEW i \in Rows, Line(i)[2] = "claudecode",
                    \A k \in {n \in Rows : Line(n) = Line(i)} : ~ledger[k].direct
             PROVE  LET l == Line(i)
                        rows == {k \in Rows : Line(k) = l}
                        cost == FoldServedByModel(l).listUsd
                    IN  IF \E k \in rows : SentOf(k) \notin DOMAIN ListPrice THEN cost = Nil
                        ELSE cost = SumFunctionOnSet([k \in Rows |-> CallCost(k)], rows)
  BY DEF ListCostIsExact
<1> DEFINE l == Line(i)
           rows == {k \in Rows : Line(k) = l}
           key(k) == <<ledger[k].sent, ledger[k].caller>>
           groups == Where(rows, key)
           model(g) == IF g[1] = Nil THEN l[1] ELSE g[1]
           costs == [g \in DOMAIN groups |-> CostOf(model(g), groups[g])]
           f == [k \in Rows |-> CallCost(k)]
           usd == FoldServedByModel(l).listUsd
<1>1. usd = IF \E g \in DOMAIN groups : costs[g] = Nil THEN Nil ELSE SumFunction(costs)
  BY DEF FoldServedByModel
<1>2. \A k \in rows : /\ k \in Rows /\ ledger[k].provider = "claudecode" /\ ~ledger[k].direct
                      /\ key(k) \in DOMAIN groups /\ model(key(k)) = SentOf(k)
  <2>1. \A k \in rows : /\ k \in Rows /\ ledger[k].provider = "claudecode" /\ ~ledger[k].direct
                        /\ key(k) \in DOMAIN groups
    BY DEF Line, Where
  <2>2. \A k \in rows : ledger[k].asked = l[1]
    BY DEF Line
  <2> QED
    BY <2>1, <2>2 DEF SentOf
<1>3. /\ \A v : v \in DOMAIN groups <=> \E x \in rows : key(x) = v
      /\ \A v \in DOMAIN groups : groups[v] \in SUBSET rows /\ \A x \in rows : x \in groups[v] <=> key(x) = v
  BY DEF Where
<1>4. \A g \in DOMAIN groups : costs[g] = CostOf(model(g), groups[g])
  OBVIOUS
<1>5. rows \in SUBSET Rows /\ IsFiniteSet(rows)
  BY RowsTyped
<1>6. CASE \E k \in rows : SentOf(k) \notin DOMAIN ListPrice
  <2>1. PICK k \in rows : SentOf(k) \notin DOMAIN ListPrice
    BY <1>6
  <2>2. CostOf(model(key(k)), groups[key(k)]) = Nil
    <3>1. model(key(k)) \notin DOMAIN ListPrice
      BY <1>2, <2>1
    <3> HIDE DEF model, key, groups
    <3> QED
      BY <3>1 DEF CostOf, ListCost
  <2>3. usd = Nil
    <3> HIDE DEF groups, key, costs, model, usd, rows
    <3> QED
      BY <1>1, <1>2, <1>4, <2>1, <2>2
  <2> QED
    BY <1>6, <2>3
<1>7. CASE ~ \E k \in rows : SentOf(k) \notin DOMAIN ListPrice
  <2>1. ASSUME NEW v \in DOMAIN groups
        PROVE  /\ \A k \in groups[v] : CallCost(k) \in Nat
               /\ costs[v] = SumFunctionOnSet(f, groups[v]) /\ costs[v] \in Nat
    <3>1. PICK x \in rows : key(x) = v
      BY <1>3
    <3>2. \A k \in groups[v] : k \in rows /\ key(k) = v
      BY <1>3
    <3>3. model(v) = SentOf(x) /\ SentOf(x) \in DOMAIN ListPrice
      BY <1>2, <1>7, <3>1
    <3> HIDE DEF groups, key, costs, model, rows, usd
    <3>4. \A k \in groups[v] : SentOf(k) = model(v) /\ ledger[k].provider = "claudecode" /\ ~ledger[k].direct
      BY <1>2, <3>2
    <3>5. groups[v] \in SUBSET Rows /\ IsFiniteSet(groups[v])
      BY <1>3, <1>5, RowsTyped
    <3> DEFINE m == model(v)
               S == groups[v]
    <3>6. /\ m \in DOMAIN ListPrice /\ S \in SUBSET Rows /\ IsFiniteSet(S)
          /\ \A k \in S : SentOf(k) = m /\ ledger[k].provider = "claudecode" /\ ~ledger[k].direct
      BY <3>3, <3>4, <3>5
    <3>7. costs[v] = CostOf(m, S)
      BY <1>4
    <3> HIDE DEF m, S, f
    <3>8. (\A k \in S : CallCost(k) \in Nat) /\ CostOf(m, S) = SumFunctionOnSet([k \in Rows |-> CallCost(k)], S)
      BY <3>6, GroupCost
    <3>9. \A k \in S : f[k] = CallCost(k)
      BY <3>6 DEF f
    <3>10. SumFunctionOnSet(f, S) \in Nat
      BY <3>6, <3>8, <3>9, SumSame
    <3> QED
      BY <3>7, <3>8, <3>10 DEF S, f
  <2>2. \A k \in rows : f[k] \in Nat
    <3>1. ASSUME NEW k \in rows PROVE f[k] \in Nat
      <4>1. k \in Rows /\ k \in groups[key(k)] /\ key(k) \in DOMAIN groups
        BY <1>2, <1>3
      <4>2. CallCost(k) \in Nat
        BY <2>1, <4>1
      <4> QED
        BY <4>1, <4>2
    <3> QED
      BY <3>1
  <2> DEFINE g == [k \in rows |-> key(k)]
  <2>3. /\ \A v : v \in DOMAIN groups <=> \E x \in rows : g[x] = v
        /\ \A v \in DOMAIN groups : groups[v] \in SUBSET rows /\ \A x \in rows : x \in groups[v] <=> g[x] = v
    <3> HIDE DEF groups, key, rows
    <3> QED
      BY <1>3
  <2>4. DOMAIN costs = DOMAIN groups
    OBVIOUS
  <2> HIDE DEF groups, costs, g, f, rows, model, key, usd
  <2>5. SumFunction(costs) = SumFunctionOnSet(f, rows)
    BY <1>5, <2>1, <2>2, <2>3, <2>4, SumOfGroups
  <2>6. usd = SumFunction(costs)
    BY <1>1, <2>1, LedgerAssumption
  <2> QED
    BY <1>7, <2>5, <2>6 DEF f, rows, usd
<1> QED
  BY <1>6, <1>7

\* What the inductive invariant says is what the run checks.
LEMMA LedgerSays == LedgerInductive => LedgerInv
BY LedgerTyped, OnceIsOnce, PricesAreExact, PremiumIsSeen, RollupsDoConserve, FiltersDoSplit DEF LedgerInv

\* What the panel reads out of the log is what the upstreams stated: every token of a native answer once, the list
\* price of a line exactly what its calls cost, the premium models shown, the rollups and the filters conserving
\* the rows.
THEOREM LedgerSound == LedgerSpec => []LedgerInv
<1>1. LedgerSpec => []LedgerInductive
  BY LedgerHolds
<1> QED
  BY <1>1, LedgerSays, PTL
=============================================================================

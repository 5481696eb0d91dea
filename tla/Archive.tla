------------------------------ MODULE Archive ------------------------------
(***************************************************************************)
(* The call log (db.js, calllog.js) and the job that copies it to object   *)
(* storage (archive/archiver.js, run.sh).                                  *)
(*                                                                         *)
(* A row takes its id when its INSERT starts and is seen when it commits;  *)
(* several inserts are under way at once, so rows appear out of order.     *)
(* A run of the job pages through the rows above a cursor, writes one      *)
(* object for each partition of the page, and then commits the cursor.     *)
(* It may stop at any instant: killed, or after its retries.  The hourly   *)
(* runs exclude each other by a lock; a run started by hand takes no lock. *)
(***************************************************************************)
EXTENDS Naturals, FiniteSets, FiniteSetsExt

CONSTANTS RowIds,   \* ids of the log, 1 .. n
          Logs,     \* instances: the partition of each row, the rows of the claudecode provider (never
                    \* pruned), CFG.logging.retain, PAGE_SIZE, the runs there are; how many of them
                    \* stop early, are started by hand, fail to read the cursor
          Crons,    \* runs of the schedule, under the lock
          ByHand    \* runs started from a shell

ASSUME ArchiveAssumption ==
    /\ RowIds \subseteq Nat \ {0} /\ IsFiniteSet(RowIds)
    /\ \A k \in DOMAIN Logs : Logs[k].pageSize \in Nat \ {0} /\ Logs[k].retain \in Nat
    /\ Crons \cap ByHand = {}

Runs == Crons \cup ByHand

VARIABLES
    book,      \* the instance (by number)
    row,       \* of each id: "unused", "flying" (its insert is under way), "there", "lost", "gone"
    bucket,    \* the objects stored, by key: partition, lowest and highest id
    lastId,    \* _state.json: the cursor
    run,       \* where each run is, its cursor, its page, the partitions it has yet to write
    readTo,    \* the highest id a run has read (history)
    late,      \* rows that committed below readTo (history)
    ever,      \* rows that were in the archive at some time (history)
    spent      \* of the bounds: stops, runs by hand, failed reads

archiveVars == <<book, row, bucket, lastId, run, readTo, late, ever, spent>>

Idle == [pc |-> "idle", cursor |-> 0, page |-> {}, todo |-> {}]

log == Logs[book]

ArchiveInit ==
    /\ book \in DOMAIN Logs
    /\ row = [i \in RowIds |-> "unused"]
    /\ bucket = {} /\ lastId = 0
    /\ run = [r \in Runs |-> Idle]
    /\ readTo = 0 /\ late = {} /\ ever = {}
    /\ spent = [stops |-> 0, hand |-> 0, badReads |-> 0]

There == {i \in RowIds : row[i] = "there"}
Archived == UNION {o.ids : o \in bucket}

(***************************************************************************)
(* The log.                                                                *)
(***************************************************************************)
\* recordCall: the insert takes the next id of the sequence and goes to one of the pooled connections.
Insert(i) ==
    /\ row[i] = "unused" /\ \A j \in RowIds : j < i => row[j] # "unused"
    /\ row' = [row EXCEPT ![i] = "flying"]
    /\ UNCHANGED <<book, bucket, lastId, run, readTo, late, ever, spent>>

\* The insert commits, in whatever order the connections do.
RowCommits(i) ==
    /\ row[i] = "flying"
    /\ row' = [row EXCEPT ![i] = "there"]
    /\ late' = IF i < readTo THEN late \cup {i} ELSE late
    /\ UNCHANGED <<book, bucket, lastId, run, readTo, ever, spent>>

\* The insert fails: dbWrite counts it, the row is lost.
RowLost(i) ==
    /\ row[i] = "flying"
    /\ row' = [row EXCEPT ![i] = "lost"]
    /\ UNCHANGED <<book, bucket, lastId, run, readTo, late, ever, spent>>

\* The prune of recordCall: rows of other providers than claudecode, beyond the newest of them.
Prunable == {i \in There \ log.chats : Cardinality({j \in There \ log.chats : j > i}) >= log.retain}
PruneLog ==
    /\ log.retain > 0 /\ Prunable # {}
    /\ row' = [i \in RowIds |-> IF i \in Prunable THEN "gone" ELSE row[i]]
    /\ UNCHANGED <<book, bucket, lastId, run, readTo, late, ever, spent>>

\* POST calls/clear.
ClearLog ==
    /\ There # {}
    /\ row' = [i \in RowIds |-> IF row[i] = "there" THEN "gone" ELSE row[i]]
    /\ UNCHANGED <<book, bucket, lastId, run, readTo, late, ever, spent>>

(***************************************************************************)
(* A run of the job.                                                       *)
(***************************************************************************)
\* run.sh: an hourly run that finds another one holding the lock leaves.
LockFree(r) == r \in Crons => \A q \in Crons : run[q].pc = "idle"

\* readState: the cursor of the bucket; 0 for a backfill, and when the read fails.
StartAt(r, c) ==
    /\ r \in log.runs /\ run[r].pc = "idle" /\ LockFree(r)
    /\ run' = [run EXCEPT ![r] = [Idle EXCEPT !.pc = "paging", !.cursor = c]]
    /\ UNCHANGED <<book, row, bucket, lastId, readTo, late, ever>>

StartCron(r) == r \in Crons /\ StartAt(r, lastId) /\ UNCHANGED spent

StartUnread(r) ==
    /\ r \in Crons /\ spent.badReads < log.badReads
    /\ StartAt(r, 0)
    /\ spent' = [spent EXCEPT !.badReads = @ + 1]

StartByHand(r) ==
    /\ r \in ByHand /\ spent.hand < log.hand
    /\ \E c \in {0, lastId} : StartAt(r, c)
    /\ spent' = [spent EXCEPT !.hand = @ + 1]

\* GET export: the first rows above the cursor, of those that are visible now.
PageAfter(c) ==
    LET above == {i \in There : i > c}
    IN  {i \in above : Cardinality({j \in above : j < i}) < log.pageSize}

Parts(page) == {log.part[i] : i \in page}

\* Defect: a page that is not full ends the run before it is written.
DefectReadPage(r) ==
    /\ run[r].pc = "paging"
    /\ LET page == PageAfter(run[r].cursor) IN
       /\ run' = [run EXCEPT ![r] = IF Cardinality(page) < log.pageSize THEN Idle
                                    ELSE [@ EXCEPT !.pc = "putting", !.page = page, !.todo = Parts(page)]]
       /\ readTo' = Max({readTo} \cup page)
    /\ UNCHANGED <<book, row, bucket, lastId, late, ever, spent>>

ReadPage(r) ==
    /\ run[r].pc = "paging"
    /\ LET page == PageAfter(run[r].cursor) IN
       /\ run' = [run EXCEPT ![r] = IF page = {} THEN Idle
                                    ELSE [@ EXCEPT !.pc = "putting", !.page = page, !.todo = Parts(page)]]
       /\ readTo' = Max({readTo} \cup page)
    /\ UNCHANGED <<book, row, bucket, lastId, late, ever, spent>>

\* An object is named after the ids it begins and ends with; a put replaces the object of that name.
ObjectOf(page, p) ==
    LET ids == {i \in page : log.part[i] = p}
    IN  [part |-> p, from |-> Min(ids), to |-> Max(ids), ids |-> ids]
SameKey(o, n) == o.part = n.part /\ o.from = n.from /\ o.to = n.to

PutPart(r, p) ==
    /\ run[r].pc = "putting" /\ p \in run[r].todo
    /\ LET new == ObjectOf(run[r].page, p) IN
       /\ bucket' = {o \in bucket : ~ SameKey(o, new)} \cup {new}
       /\ ever' = ever \cup new.ids
    /\ run' = [run EXCEPT ![r].todo = @ \ {p}]
    /\ UNCHANGED <<book, row, lastId, readTo, late, spent>>

\* The end of a batch: a page that is not full was the last one, and MAX_BATCHES may end the run as well.
AfterBatch(r) ==
    LET next == [Idle EXCEPT !.pc = "paging", !.cursor = Max(run[r].page)]
    IN  IF Cardinality(run[r].page) < log.pageSize THEN {Idle} ELSE {Idle, next}

\* Defect: the cursor is committed when the page is read, before its parts are stored.
DefectCommitCursor(r) ==
    /\ run[r].pc = "putting" /\ lastId < Max(run[r].page)
    /\ lastId' = Max(run[r].page)
    /\ UNCHANGED <<book, row, bucket, run, readTo, late, ever, spent>>

\* writeState: only when each part of the page is stored and verified.
CommitCursor(r) ==
    /\ run[r].pc = "putting" /\ run[r].todo = {}
    /\ lastId' = Max(run[r].page)
    /\ \E after \in AfterBatch(r) : run' = [run EXCEPT ![r] = after]
    /\ UNCHANGED <<book, row, bucket, readTo, late, ever, spent>>

\* The cursor is written without being verified: the store acknowledges it and drops it.
CommitDropped(r) ==
    /\ run[r].pc = "putting" /\ run[r].todo = {} /\ spent.stops < log.stops
    /\ \E after \in AfterBatch(r) : run' = [run EXCEPT ![r] = after]
    /\ spent' = [spent EXCEPT !.stops = @ + 1]
    /\ UNCHANGED <<book, row, bucket, lastId, readTo, late, ever>>

\* The run is killed, or gives up after its retries: the export, a put that is never verified, the cursor.
Stop(r) ==
    /\ run[r].pc # "idle" /\ spent.stops < log.stops
    /\ run' = [run EXCEPT ![r] = Idle]
    /\ spent' = [spent EXCEPT !.stops = @ + 1]
    /\ UNCHANGED <<book, row, bucket, lastId, readTo, late, ever>>

\* A step a scheduled run takes by itself.
CronStep(r) == r \in Crons /\ (ReadPage(r) \/ (\E p \in run[r].todo : PutPart(r, p)) \/ CommitCursor(r))

ArchiveNext ==
    \/ \E i \in RowIds : Insert(i) \/ RowCommits(i) \/ RowLost(i)
    \/ PruneLog \/ ClearLog
    \/ \E r \in Runs :
          \/ StartCron(r) \/ StartUnread(r) \/ StartByHand(r) \/ ReadPage(r)
          \/ \E p \in run[r].todo : PutPart(r, p)
          \/ CommitCursor(r) \/ CommitDropped(r) \/ Stop(r)

ArchiveSpec == ArchiveInit /\ [][ArchiveNext]_archiveVars

ArchiveTypeOK ==
    /\ row \in [RowIds -> {"unused", "flying", "there", "lost", "gone"}]
    /\ \A o \in bucket : o.ids # {} /\ o.ids \subseteq RowIds /\ \A i \in o.ids : log.part[i] = o.part
    /\ {lastId, readTo} \subseteq RowIds \cup {0}
    /\ \A r \in Runs : run[r].pc \in {"idle", "paging", "putting"} /\ run[r].page \subseteq RowIds
    /\ late \cup ever \subseteq RowIds

(***************************************************************************)
(* Properties.                                                             *)
(***************************************************************************)
\* The cursor never passes a row that is not stored: each row of the log at or below it is in an object of
\* the bucket, whatever runs were killed and whichever raced, unless the row committed after a run had read
\* rows above it (the commit of the cursor after the last part, archiver.js:157-161).
CursorCovers == \A i \in There : i <= lastId /\ i \notin late => i \in Archived

\* What was archived stays archived while the log has it: an object is only replaced by one of the same
\* name that lacks a row when that row has left the log, or came late (part keys, archiver.js:147).
KeptWhileLogged == \A i \in ever \ Archived : row[i] = "gone" \/ i \in late

\* The archive is true to the log.
ArchiveInv == ArchiveTypeOK /\ CursorCovers /\ KeptWhileLogged

\* Again and again nothing of the log is left to archive but what came late, when the schedule keeps starting
\* runs and only so many of them die: a short last page is written like any other.
Backlog == {i \in There \ late : i \notin ever}
ArchivedInTheEnd == []<>(Backlog = {})

\* archiver.js:22-23: running again overwrites the same deterministic part keys, it does not duplicate.
NoRowTwice == \A o, n \in bucket : o # n => o.ids \cap n.ids = {}
=============================================================================

--------------------------- MODULE ImageTemplates ---------------------------
(***************************************************************************)
(* The image templates (imagetemplates.js): records of the configuration,  *)
(* each naming a reference picture that is a file on the volume, and the   *)
(* paid renders that send the picture along.                               *)
(*                                                                         *)
(* A record and its picture are written one after the other, and a picture *)
(* that is given as a URL is fetched first; other handlers run meanwhile.  *)
(* A file is named after the slug and the type of its bytes.               *)
(***************************************************************************)
EXTENDS Naturals, FiniteSets

CONSTANTS Albums,   \* instances: the slugs, the picture types, the handlers that wait, the states of the
                    \* volume, the templates of the repository's seed, whether callers name files themselves
          NoFile,   \* no reference
          NoTemplate

\* A picture of the seed is a file of the template that names it.
ASSUME ImagesAssumption ==
    \A k \in DOMAIN Albums : LET a == Albums[k] IN
        /\ NoFile \notin a.slugs \X a.exts
        /\ a.volumes \subseteq {"ok", "full", "readonly"}
        /\ \A s \in DOMAIN a.seed : a.seed[s] = NoFile \/ a.seed[s] \in {s} \X a.exts

VARIABLES
    album,     \* the instance (by number)
    shelf,     \* CFG.imageTemplates
    saved,     \* the same in config.json
    disk,      \* the files of TPL_DIR
    volume,    \* "ok"; "full": files cannot be written; "readonly": nor removed, nor config.json
    job,       \* saves that fetch a picture, renders that wait for the upstream
    hurt,      \* slugs whose picture was lost to a failed write or a crash (history)
    deleted    \* slugs whose removal is in config.json, since they were last saved (history)

imageVars == <<album, shelf, saved, disk, volume, job, hurt, deleted>>

al == Albums[album]
Slugs == al.slugs
Files == Slugs \X al.exts
Templates == {t \in [instr : BOOLEAN, ref : Files \cup {NoFile}] : t.instr \/ t.ref # NoFile}
\* A handler that waits: for what, and what it leaves.
Job(pc, slug, instr, paid, rows) == [pc |-> pc, slug |-> slug, instr |-> instr, paid |-> paid, rows |-> rows]
Free == Job("free", NoFile, FALSE, 0, 0)
Fetching(s, instr) == Job("fetching", s, instr, 0, 0)
Waiting(pc) == Job(pc, NoFile, FALSE, 1, 0)
Answered(paid, rows) == Job("answered", NoFile, FALSE, paid, rows)

\* templateFor.
Registered(s) == shelf[s] # NoTemplate
\* readReference: the bytes are there.
Readable(t) == t.ref \in disk

\* seedImageTemplates: only into a store that is empty; a picture that cannot be copied is left out.
Seedling(s, ok) == [instr |-> TRUE, ref |-> IF ok THEN al.seed[s] ELSE NoFile]
Seeded(c, ok) == IF \A s \in Slugs : c[s] = NoTemplate
                 THEN [s \in Slugs |-> IF s \in DOMAIN al.seed THEN Seedling(s, ok) ELSE NoTemplate]
                 ELSE c
RefsOf(c) == {c[s].ref : s \in {t \in Slugs : c[t] # NoTemplate}} \ {NoFile}

ImageInit ==
    /\ album \in DOMAIN Albums
    /\ shelf = Seeded([s \in Slugs |-> NoTemplate], TRUE)
    /\ saved = shelf
    /\ disk = RefsOf(shelf)
    /\ volume = "ok"
    /\ job = [j \in al.jobs |-> Free]
    /\ hurt = {} /\ deleted = {}

\* persistConfig.
Persist(new) == saved' = IF volume = "readonly" THEN saved ELSE new

(***************************************************************************)
(* Editing.                                                                *)
(***************************************************************************)
\* The record a save leaves, and the answer 400 when it would say nothing.
PutTemplate(s, t) ==
    /\ shelf' = [shelf EXCEPT ![s] = t]
    /\ Persist(shelf')
    /\ deleted' = deleted \ {s}

\* saveTemplate without a picture: the one it has is kept, whatever the caller names; a new template
\* takes the file the caller names.
SaveText(s, instr, named) ==
    /\ s \in Slugs /\ (named = NoFile \/ (al.names /\ ~Registered(s)))
    /\ LET t == [instr |-> instr, ref |-> IF Registered(s) THEN shelf[s].ref ELSE named] IN
       /\ t \in Templates
       /\ PutTemplate(s, t)
    /\ UNCHANGED <<album, disk, volume, job, hurt>>

\* storeReference: the files of the other types go first, then the new one is written.
Others(s, x) == {f \in Files : f[1] = s /\ f[2] # x}

\* The picture is stored, and the record merged into the one the save had found.
Stored(s, x, instr) ==
    /\ volume = "ok"
    /\ disk' = (disk \ Others(s, x)) \cup {<<s, x>>}
    /\ PutTemplate(s, [instr |-> instr, ref |-> <<s, x>>])
    /\ hurt' = hurt \ {s}
    /\ UNCHANGED <<album, volume>>

\* The write throws, and the save is answered 400: on a volume that is full the other types are gone by then,
\* and the file of this one is cut off; on a read-only one nothing has changed.
WriteThrows(s, x) ==
    /\ volume # "ok"
    /\ IF volume = "readonly" THEN UNCHANGED <<disk, hurt>>
       ELSE /\ disk' = disk \ {f \in Files : f[1] = s}
            /\ hurt' = hurt \cup {s}
    /\ UNCHANGED <<album, shelf, saved, volume, deleted>>

\* A picture that comes with the request: no other handler runs in between.
SavePicture(s, x, instr) ==
    /\ s \in Slugs
    /\ Stored(s, x, instr) \/ WriteThrows(s, x)
    /\ UNCHANGED job

\* A picture that is a URL: the record is merged into what is there now, and written when the fetch is over.
SaveUrl(j, s, instr) ==
    /\ j \in al.jobs /\ s \in Slugs /\ job[j].pc = "free"
    /\ job' = [job EXCEPT ![j] = Fetching(s, instr)]
    /\ UNCHANGED <<album, shelf, saved, disk, volume, hurt, deleted>>

Fetched(j, x) ==
    /\ j \in al.jobs /\ job[j].pc = "fetching"
    /\ Stored(job[j].slug, x, job[j].instr) \/ WriteThrows(job[j].slug, x)
    /\ job' = [job EXCEPT ![j] = Free]

\* The URL does not answer, or what it answers is no picture: 400.
FetchFails(j) ==
    /\ j \in al.jobs /\ job[j].pc = "fetching"
    /\ job' = [job EXCEPT ![j] = Free]
    /\ UNCHANGED <<album, shelf, saved, disk, volume, hurt, deleted>>

\* Defect: the removal is not persisted.
DefectRemoveTemplate(s) ==
    /\ s \in Slugs /\ Registered(s)
    /\ disk' = IF volume = "readonly" THEN disk ELSE disk \ {shelf[s].ref}
    /\ shelf' = [shelf EXCEPT ![s] = NoTemplate]
    /\ deleted' = deleted \cup {s}
    /\ UNCHANGED <<album, saved, volume, job, hurt>>

\* removeTemplate: the file it names, then the record.
RemoveTemplate(s) ==
    /\ s \in Slugs /\ Registered(s)
    /\ disk' = IF volume = "readonly" THEN disk ELSE disk \ {shelf[s].ref}
    /\ shelf' = [shelf EXCEPT ![s] = NoTemplate]
    /\ Persist(shelf')
    /\ deleted' = IF volume = "readonly" THEN deleted ELSE deleted \cup {s}
    /\ UNCHANGED <<album, volume, job, hurt>>

(***************************************************************************)
(* Rendering.                                                              *)
(***************************************************************************)
\* The public route: key, client, model and prompt in order, each refusal leaving a row; then a picture that
\* is named and not there refuses the call, with a row too.
Refuse(j) ==
    /\ j \in al.jobs /\ job[j].pc = "free" /\ \E s \in Slugs : Registered(s)
    /\ job' = [job EXCEPT ![j] = Answered(0, 1)]
    /\ UNCHANGED <<album, shelf, saved, disk, volume, hurt, deleted>>

Generate(j, s) ==
    /\ j \in al.jobs /\ s \in Slugs /\ job[j].pc = "free" /\ Registered(s)
    /\ job' = [job EXCEPT ![j] = IF shelf[s].ref # NoFile /\ ~Readable(shelf[s])
                                 THEN Answered(0, 1) ELSE Waiting("proxied")]
    /\ UNCHANGED <<album, shelf, saved, disk, volume, hurt, deleted>>

\* proxy leaves the row when the answer ends (module Pipeline).
Proxied(j) ==
    /\ j \in al.jobs /\ job[j].pc = "proxied"
    /\ job' = [job EXCEPT ![j] = Answered(@.paid, @.rows + 1)]
    /\ UNCHANGED <<album, shelf, saved, disk, volume, hurt, deleted>>

\* The panel's route asks the upstream itself; it does not look whether the picture is there.
Render(j, s) ==
    /\ j \in al.jobs /\ s \in Slugs /\ job[j].pc = "free" /\ Registered(s)
    /\ job' = [job EXCEPT ![j] = Waiting("rendering")]
    /\ UNCHANGED <<album, shelf, saved, disk, volume, hurt, deleted>>

\* Defect: an answer without an image is not booked.
DefectRendered(j, how) ==
    /\ j \in al.jobs /\ job[j].pc = "rendering"
    /\ job' = [job EXCEPT ![j] = Answered(@.paid, IF how = "no image" THEN @.rows ELSE @.rows + 1)]
    /\ UNCHANGED <<album, shelf, saved, disk, volume, hurt, deleted>>

\* An image, an error status, a 200 without an image, no answer at all: one row each.
Rendered(j, how) ==
    /\ j \in al.jobs /\ job[j].pc = "rendering"
    /\ job' = [job EXCEPT ![j] = Answered(@.paid, @.rows + 1)]
    /\ UNCHANGED <<album, shelf, saved, disk, volume, hurt, deleted>>

Forget(j) ==
    /\ j \in al.jobs /\ job[j].pc = "answered"
    /\ job' = [job EXCEPT ![j] = Free]
    /\ UNCHANGED <<album, shelf, saved, disk, volume, hurt, deleted>>

(***************************************************************************)
(* The process and its volume.                                             *)
(***************************************************************************)
Remounted(v) ==
    /\ v \in al.volumes \ {volume}
    /\ volume' = v
    /\ UNCHANGED <<album, shelf, saved, disk, job, hurt, deleted>>

\* loadConfig and the seed; handlers under way are gone.
Boot(files, lost) ==
    /\ shelf' = Seeded(saved, volume = "ok")
    /\ Persist(shelf')
    /\ disk' = files \cup (IF shelf' = saved THEN {} ELSE RefsOf(shelf'))
    /\ hurt' = hurt \cup lost
    /\ job' = [j \in al.jobs |-> Free]
    /\ deleted' = IF \A s \in Slugs : saved[s] = NoTemplate THEN {} ELSE deleted
    /\ UNCHANGED <<album, volume>>

Reboot == Boot(disk, {})

\* A crash after the files were changed and before config.json was: by a save of type x, or by a removal.
CrashInSave(s, x) ==
    /\ s \in Slugs /\ volume = "ok"
    /\ Boot((disk \ Others(s, x)) \cup {<<s, x>>}, {s})
CrashInRemove(s) ==
    /\ s \in Slugs /\ Registered(s) /\ volume # "readonly"
    /\ Boot(disk \ {shelf[s].ref}, {s})

ImageNext ==
    \/ \E s \in Slugs :
          \/ \E b \in BOOLEAN :
                \/ \E f \in Files \cup {NoFile} : SaveText(s, b, f)
                \/ \E x \in al.exts : SavePicture(s, x, b)
                \/ \E j \in al.jobs : SaveUrl(j, s, b)
          \/ \E j \in al.jobs : Generate(j, s) \/ Render(j, s)
          \/ \E x \in al.exts : CrashInSave(s, x)
          \/ RemoveTemplate(s) \/ CrashInRemove(s)
    \/ \E j \in al.jobs :
          \/ \E x \in al.exts : Fetched(j, x)
          \/ \E how \in {"image", "no image"} : Rendered(j, how)
          \/ FetchFails(j) \/ Refuse(j) \/ Proxied(j) \/ Forget(j)
    \/ \E v \in al.volumes : Remounted(v)
    \/ Reboot

ImageSpec == ImageInit /\ [][ImageNext]_imageVars

ImageTypeOK ==
    /\ shelf \in [Slugs -> Templates \cup {NoTemplate}] /\ saved \in [Slugs -> Templates \cup {NoTemplate}]
    /\ disk \subseteq Files /\ hurt \cup deleted \subseteq Slugs
    /\ volume \in {"ok", "full", "readonly"}
    /\ \A j \in al.jobs : job[j].paid \in 0..1 /\ job[j].rows \in 0..1

(***************************************************************************)
(* Properties.                                                             *)
(***************************************************************************)
\* A picture a template names is on the volume, however saves, fetches, removals and boots interleave; only a
\* failed write, a crash in between, or a caller that named the file himself can part the two.
PictureOnDisk ==
    ~al.names => \A s \in Slugs : Registered(s) /\ shelf[s].ref # NoFile /\ s \notin hurt => Readable(shelf[s])

\* What was paid for is in the log: each answered render left one row, whichever way it ended.
PaidIsBooked == \A j \in al.jobs : job[j].pc = "answered" => job[j].rows = 1

\* A template that was removed stays away, also after a boot: only a save brings it back, or a boot that finds
\* no template at all (imagetemplates.js:118-120).
StaysDeleted == \A s \in deleted : ~Registered(s)

ImagesInv == ImageTypeOK /\ PictureOnDisk /\ PaidIsBooked /\ StaysDeleted
=============================================================================

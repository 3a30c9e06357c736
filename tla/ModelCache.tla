----------------------------- MODULE ModelCache -----------------------------
(***************************************************************************)
(* The control plane's model cache (orchestration/models/model_cache): one *)
(* model, its row in model_cache, and its weights on disk.  Pre-warm tasks *)
(* of the DownloadManager and mirror requests of workers both download     *)
(* into the same `.part` file and rename it; the delete endpoint and the   *)
(* eviction loop remove directory and row.  Everything runs on one event   *)
(* loop: a step here is the code between two awaits.                       *)
(*                                                                         *)
(* The weights are one file of two chunks.  An inode is named after the    *)
(* writer whose open() created it and holds the set of chunks written.     *)
(* Other models only matter as disk pressure, which comes and goes.        *)
(***************************************************************************)
EXTENDS Naturals

CONSTANTS
    Tasks,      \* pre-warm tasks, in the order start() creates them
    Reqs,       \* GETs of workers that were pointed at the mirror
    None,       \* no task, no inode, no row
    Named,      \* inference_model of the deployment is the row's model_id (not so for name:tag)
    MaxFaults   \* failed statements and crashes

Writers == Tasks \union Reqs
Chunks == {1, 2}

VARIABLES
    row,      \* the row of model_cache: id (the task that inserted it), status
    at,       \* the next step of every task and request
    cid,      \* the row id a task writes to
    current,  \* DownloadManager._tasks[key]
    cancel,   \* tasks that were cancelled and have not unwound
    awaits,   \* the task a request waits for
    disk,     \* the inodes named target and target.part
    ino,      \* the chunks in every inode
    fd,       \* the inode a writer has open
    pos,      \* the chunks a writer has written
    del,      \* the delete endpoint
    evict,    \* the eviction loop
    faults,
    excused   \* why rows and files may disagree

vars == <<row, at, cid, current, cancel, awaits, disk, ino, fd, pos, del, evict,
          faults, excused>>

NoRow == [id |-> None, status |-> "none"]
Live(t) == at[t] \notin {"none", "done"} /\ t \notin cancel
Downloading(w) == at[w] = "write"

TypeOK ==
    /\ row \in [id : Tasks \union {None},
                status : {"none", "pending", "downloading", "cached", "error"}]
    /\ row.id = None <=> row.status = "none"
    /\ at \in [Writers -> {"none", "lookup", "upsert", "list", "file", "write", "mark",
                           "await", "done"}]
    /\ cid \in [Tasks -> Tasks \union {None}]
    /\ current \in Tasks \union {None} /\ cancel \subseteq Tasks
    /\ awaits \in [Reqs -> Tasks \union {None}]
    /\ disk \in [target : Writers \union {None}, part : Writers \union {None}]
    /\ ino \in [Writers -> SUBSET Chunks]
    /\ fd \in [Writers -> Writers \union {None}]
    /\ pos \in [Writers -> 0..2]
    /\ del \in [at : {"idle", "row"}, id : Tasks \union {None}]
    /\ evict \in [at : {"idle", "run", "remove", "row"}, id : Tasks \union {None},
                  seen : BOOLEAN, failed : BOOLEAN, held : BOOLEAN]
    /\ faults \in 0..MaxFaults
    /\ excused \subseteq {"overlap", "apart", "stuck"}

NoTick == [at |-> "idle", id |-> None, seen |-> FALSE, failed |-> FALSE, held |-> FALSE]

Init ==
    /\ row = NoRow /\ current = None /\ cancel = {}
    /\ at = [w \in Writers |-> "none"] /\ cid = [t \in Tasks |-> None]
    /\ awaits = [r \in Reqs |-> None]
    /\ disk = [target |-> None, part |-> None]
    /\ ino = [w \in Writers |-> {}] /\ fd = [w \in Writers |-> None]
    /\ pos = [w \in Writers |-> 0]
    /\ del = [at |-> "idle", id |-> None] /\ evict = NoTick
    /\ faults = 0 /\ excused = {}

Go(w, step) == at' = [at EXCEPT ![w] = step]
Files == <<disk, ino, fd, pos>>
Removers == <<del, evict>>
Fault == faults < MaxFaults /\ faults' = faults + 1
Because(cond, why) == excused' = excused \union (IF cond THEN {why} ELSE {})

(* UPDATE model_cache ... WHERE id = cid: nothing when the row is gone. *)
SetStatus(t, s) == IF row.id = cid[t] /\ row.id # None THEN [row EXCEPT !.status = s] ELSE row

-----------------------------------------------------------------------------
(* Starting a download *)

(* start(): a running task is joined, otherwise a new one takes the key. *)
StartTask ==
    IF current # None /\ at[current] # "done"
    THEN UNCHANGED <<at, current>>
    ELSE LET t == CHOOSE t \in Tasks : at[t] = "none"
         IN /\ \E u \in Tasks : at[u] = "none"
            /\ Go(t, "upsert") /\ current' = t

(* POST of the Models tab, and the pre-warm of deploy_model. *)
AddModel ==
    /\ StartTask
    /\ UNCHANGED <<row, cid, cancel, awaits, Files, Removers, faults, excused>>

(* resolve_and_apply_mirror: the load spec names the mirror when the row   *)
(* is cached or on its way, otherwise the worker goes to the origin.       *)
ChooseFetchSource(r) ==
    /\ at[r] = "none"
    /\ Go(r, IF row.status \in {"cached", "downloading", "pending"} THEN "lookup" ELSE "done")
    /\ UNCHANGED <<row, cid, current, cancel, awaits, Files, Removers, faults, excused>>

-----------------------------------------------------------------------------
(* Writing the shared .part file *)

(* open(tmp, "wb") truncates a .part that exists and keeps its inode. *)
Open(w) ==
    LET i == IF disk.part = None THEN w ELSE disk.part
    IN /\ disk' = [disk EXCEPT !.part = i]
       /\ ino' = [ino EXCEPT ![i] = {}]
       /\ fd' = [fd EXCEPT ![w] = i]
       /\ pos' = [pos EXCEPT ![w] = 0]
       /\ Because(\E v \in Writers \ {w} : Downloading(v), "overlap")

WriteChunk(w) ==
    /\ at[w] = "write" /\ w \notin cancel /\ pos[w] < 2
    /\ ino' = [ino EXCEPT ![fd[w]] = @ \union {pos[w] + 1}]
    /\ pos' = [pos EXCEPT ![w] = @ + 1]
    /\ UNCHANGED <<row, at, cid, current, cancel, awaits, disk, fd, Removers, faults, excused>>

(* The writer's file is closed. *)
Close(w) == fd' = [fd EXCEPT ![w] = None] /\ pos' = [pos EXCEPT ![w] = 0]

(* os.replace(tmp, target) *)
Publish == disk' = [target |-> disk.part, part |-> None]

(* The .part of a failed download is removed, whoever wrote it. *)
RemovePart == disk' = [disk EXCEPT !.part = None]

-----------------------------------------------------------------------------
(* A pre-warm task *)

Upserted(t) == IF row.id = None THEN [id |-> t, status |-> "pending"] ELSE row

Upsert(t) ==
    /\ at[t] = "upsert" /\ Live(t)
    /\ row' = Upserted(t) /\ cid' = [cid EXCEPT ![t] = Upserted(t).id]
    /\ Go(t, "list")
    /\ Because("row" \in {del.at, evict.at}, "apart")
    /\ UNCHANGED <<current, cancel, awaits, Files, Removers, faults>>

(* The except clause of prewarm; the statement that records it may fail. *)
PrewarmFails(t) ==
    /\ Go(t, "done")
    /\ \/ row' = SetStatus(t, "error") /\ UNCHANGED <<faults, excused>>
       \/ Fault /\ excused' = excused \union {"stuck"} /\ UNCHANGED row

List(t) ==
    /\ at[t] = "list" /\ Live(t)
    /\ \/ Go(t, "file") /\ row' = SetStatus(t, "downloading") /\ UNCHANGED <<faults, excused>>
       \/ PrewarmFails(t)
    /\ UNCHANGED <<cid, current, cancel, awaits, Files, Removers>>

(* _hf_file, _ollama_file: a file that exists is taken as it is. *)
FetchFile(t) ==
    /\ at[t] = "file" /\ Live(t)
    /\ \/ /\ disk.target # None
          /\ Go(t, "mark") /\ UNCHANGED <<row, Files, faults, excused>>
       \/ /\ disk.target = None
          /\ Go(t, "write") /\ Open(t) /\ UNCHANGED <<row, faults>>
       \/ /\ disk.target = None
          /\ PrewarmFails(t) /\ UNCHANGED Files
    /\ UNCHANGED <<cid, current, cancel, awaits, Removers>>

(* A mutant: a stream that ended early is published. *)
PublishTaskEarly(t) ==
    /\ at[t] = "write" /\ Live(t) /\ pos[t] >= 1
    /\ \/ disk.part # None /\ Publish /\ Go(t, "mark") /\ UNCHANGED <<row, faults, excused>>
       \/ disk.part = None /\ PrewarmFails(t) /\ UNCHANGED disk
    /\ Close(t)
    /\ UNCHANGED <<cid, current, cancel, awaits, ino, Removers>>

PublishTask(t) ==
    /\ at[t] = "write" /\ Live(t) /\ pos[t] = 2
    /\ \/ disk.part # None /\ Publish /\ Go(t, "mark") /\ UNCHANGED <<row, faults, excused>>
       \/ disk.part = None /\ PrewarmFails(t) /\ UNCHANGED disk
    /\ Close(t)
    /\ UNCHANGED <<cid, current, cancel, awaits, ino, Removers>>

StreamFails(t) ==
    /\ at[t] = "write" /\ Live(t) /\ pos[t] < 2
    /\ RemovePart /\ PrewarmFails(t)
    /\ Close(t)
    /\ UNCHANGED <<cid, current, cancel, awaits, ino, Removers>>

Mark(t) ==
    /\ at[t] = "mark" /\ Live(t)
    /\ row' = SetStatus(t, "cached") /\ Go(t, "done")
    /\ UNCHANGED <<cid, current, cancel, awaits, Files, Removers, faults, excused>>

(* CancelledError: no status is written.  A statement on its way to the    *)
(* database may still take effect.                                         *)
Unwind(t) ==
    /\ t \in cancel
    /\ cancel' = cancel \ {t} /\ Go(t, "done")
    /\ IF at[t] = "write" /\ pos[t] < 2 THEN RemovePart ELSE UNCHANGED disk
    /\ \/ UNCHANGED row
       \/ at[t] = "upsert" /\ row' = Upserted(t)
    /\ Close(t)
    /\ UNCHANGED <<cid, current, awaits, ino, Removers, faults, excused>>

-----------------------------------------------------------------------------
(* A mirror request: resolve_file, get_blob *)

Lookup(r) ==
    /\ at[r] = "lookup"
    /\ IF disk.target # None
       THEN Go(r, "done") /\ UNCHANGED awaits
       ELSE /\ Go(r, "await")
            /\ awaits' = [awaits EXCEPT ![r] = IF current # None /\ at[current] # "done"
                                               THEN current ELSE None]
    /\ UNCHANGED <<row, cid, current, cancel, Files, Removers, faults, excused>>


(* The awaited task is over; the file is there, or the origin is asked. *)
Joined(r) ==
    /\ at[r] = "await"
    /\ awaits[r] # None => at[awaits[r]] = "done"
    /\ awaits' = [awaits EXCEPT ![r] = None]
    /\ \/ disk.target # None /\ Go(r, "done") /\ UNCHANGED <<Files, excused>>
       \/ disk.target = None /\ Go(r, "done") /\ UNCHANGED <<Files, excused>>
       \/ disk.target = None /\ Go(r, "write") /\ Open(r)
    /\ UNCHANGED <<row, cid, current, cancel, Removers, faults>>

PublishReq(r) ==
    /\ at[r] = "write" /\ pos[r] = 2
    /\ Go(r, "done")
    /\ \/ /\ disk.part # None /\ Publish
          /\ Because(row.id = None \/ "row" \in {del.at, evict.at}, "apart")
       \/ disk.part = None /\ UNCHANGED <<disk, excused>>
    /\ Close(r)
    /\ UNCHANGED <<row, cid, current, cancel, awaits, ino, Removers, faults>>

(* An upstream error removes the .part; a worker that disconnects closes   *)
(* the generator, which `except Exception` does not see.                   *)
ReqFails(r) ==
    /\ at[r] = "write" /\ pos[r] < 2
    /\ Go(r, "done")
    /\ RemovePart \/ UNCHANGED disk
    /\ Close(r)
    /\ UNCHANGED <<row, cid, current, cancel, awaits, ino, Removers, faults, excused>>

-----------------------------------------------------------------------------
(* Removing a model *)

Rmtree == disk' = [target |-> None, part |-> None]
Raced(id) == row.id # id \/ \E t \in Tasks : Live(t)


(* The delete endpoint reads the row, cancels the task, drops the key and  *)
(* removes the directory without an await in between.                      *)
DeleteModel ==
    /\ del.at = "idle" /\ row.id # None
    /\ del' = [at |-> "row", id |-> row.id]
    /\ cancel' = cancel \union {t \in {current} \ {None} : Live(t)}
    /\ current' = None
    /\ Rmtree
    /\ Because(\E t \in Tasks \ {current} : Live(t), "apart")
    /\ UNCHANGED <<row, at, cid, awaits, ino, fd, pos, evict, faults>>

(* A mutant: the row stays. *)
DeleteRowKept ==
    /\ del.at = "row"
    /\ del' = [at |-> "idle", id |-> None]
    /\ UNCHANGED <<row, at, cid, current, cancel, awaits, Files, evict, faults, excused>>

DeleteRow ==
    /\ del.at = "row"
    /\ del' = [at |-> "idle", id |-> None]
    /\ \/ /\ row' = IF row.id = del.id THEN NoRow ELSE row
          /\ Because(Raced(del.id), "apart") /\ UNCHANGED faults
       \/ Fault /\ excused' = excused \union {"apart", "stuck"} /\ UNCHANGED row
    /\ UNCHANGED <<at, cid, current, cancel, awaits, Files, evict>>

(* The eviction loop: the models in use, an empty set when the query fails. *)
Tick ==
    /\ evict.at = "idle"
    /\ \E used \in BOOLEAN :
          \/ /\ evict' = [NoTick EXCEPT !.at = "run", !.seen = used /\ Named, !.held = used]
             /\ UNCHANGED faults
          \/ /\ Fault
             /\ evict' = [NoTick EXCEPT !.at = "run", !.failed = TRUE, !.held = used]
    /\ UNCHANGED <<row, at, cid, current, cancel, awaits, Files, del, excused>>

(* The last deployment that used the model reaches a terminal state. *)
Undeploy ==
    /\ evict.held
    /\ evict' = [evict EXCEPT !.held = FALSE]
    /\ UNCHANGED <<row, at, cid, current, cancel, awaits, Files, del, faults, excused>>


(* lru_candidates *)
Candidate == row.status = "cached" /\ ~evict.seen

(* Over the cap, the candidates are read; this row's turn may come. *)
RunOnce ==
    /\ evict.at = "run"
    /\ \/ evict' = NoTick
       \/ Candidate /\ evict' = [evict EXCEPT !.at = "remove", !.id = row.id]
    /\ UNCHANGED <<row, at, cid, current, cancel, awaits, Files, del, faults, excused>>

EvictDir ==
    /\ evict.at = "remove"
    /\ evict' = [NoTick EXCEPT !.at = "row", !.id = evict.id]
    /\ Rmtree
    /\ Because(Raced(evict.id), "apart")
    /\ UNCHANGED <<row, at, cid, current, cancel, awaits, ino, fd, pos, del, faults>>

(* The next row's turn, or the end of the pass; a failed statement ends it. *)
EvictRow ==
    /\ evict.at = "row"
    /\ evict' = NoTick
    /\ \/ /\ row' = IF row.id = evict.id THEN NoRow ELSE row
          /\ Because(Raced(evict.id), "apart") /\ UNCHANGED faults
       \/ Fault /\ excused' = excused \union {"apart", "stuck"} /\ UNCHANGED row
    /\ UNCHANGED <<at, cid, current, cancel, awaits, Files, del>>

(* A mutant of Reconciled: orphaned downloads are left alone. *)
ReconciledNothing == row

(* reconcile_orphaned_downloads *)
Reconciled == IF row.status = "downloading" THEN [row EXCEPT !.status = "error"] ELSE row

(* The process stops and starts again.  The startup statement may fail. *)
Restart ==
    /\ Fault
    /\ at' = [w \in Writers |-> IF at[w] = "none" THEN "none" ELSE "done"]
    /\ current' = None /\ cancel' = {} /\ awaits' = [r \in Reqs |-> None]
    /\ fd' = [w \in Writers |-> None] /\ pos' = [w \in Writers |-> 0]
    /\ del' = [at |-> "idle", id |-> None] /\ evict' = NoTick
    /\ LET why == IF "row" \in {del.at, evict.at} THEN {"apart"} ELSE {}
       IN \/ row' = Reconciled /\ excused' = excused \union why
          \/ row' = row /\ excused' = excused \union why \union {"stuck"}
    /\ UNCHANGED <<cid, disk, ino>>

-----------------------------------------------------------------------------
TaskStep(t) ==
    Upsert(t) \/ List(t) \/ FetchFile(t) \/ PublishTask(t) \/ StreamFails(t) \/ Mark(t) \/ Unwind(t)

ReqStep(r) == Lookup(r) \/ Joined(r) \/ PublishReq(r) \/ ReqFails(r)

Next ==
    \/ AddModel \/ Undeploy \/ Restart
    \/ \E w \in Writers : WriteChunk(w)
    \/ \E t \in Tasks : TaskStep(t)
    \/ \E r \in Reqs : ChooseFetchSource(r) \/ ReqStep(r)
    \/ DeleteModel \/ DeleteRow
    \/ Tick \/ RunOnce \/ EvictDir \/ EvictRow

Spec == Init /\ [][Next]_vars

(* The event loop resumes every task and handler that can run; HTTP        *)
(* transfers end by their data, an error or the client's timeout.          *)
Fairness ==
    /\ \A t \in Tasks : WF_vars(TaskStep(t) \/ WriteChunk(t))
    /\ \A r \in Reqs : WF_vars(ReqStep(r) \/ WriteChunk(r))
    /\ WF_vars(DeleteRow) /\ WF_vars(EvictRow)

FairSpec == Spec /\ Fairness

-----------------------------------------------------------------------------
(* A file under its final name is complete unless two downloads of it ran  *)
(* at the same time: they share the .part file (downloader.py:_hf_file,    *)
(* mirror_hf.py:resolve_file), so one may rename what the other truncated. *)
IncompleteHasCause ==
    disk.target # None /\ ino[disk.target] # Chunks => "overlap" \in excused

(* A row says cached only while the weights are on disk, except between    *)
(* the two steps of a removal, after a removal raced with a new download,  *)
(* and when its second step failed or was lost in a restart.               *)
CachedIsOnDisk ==
    row.status = "cached" /\ disk.target = None /\ "row" \notin {del.at, evict.at}
        => "apart" \in excused

(* Weights on disk have a row, which the Models tab and the eviction see,  *)
(* unless a mirror request fetched them without one or a removal raced     *)
(* with the download.                                                      *)
WeightsHaveRow ==
    disk.target # None /\ row.id = None /\ (\A t \in Tasks : ~Live(t))
        => "apart" \in excused

(* The eviction loop does not remove a model whose deployment was there    *)
(* from the tick's query on, if the query answered and the deployment      *)
(* names the model as the cache does.                                      *)
InUseKept ==
    EvictDir /\ evict.held => evict.failed \/ ~Named

(* A downloading row leaves that status: the task ends, the model is       *)
(* removed, or the restart resets it (reconcile_orphaned_downloads).       *)
DownloadSettles ==
    row.status = "downloading" ~>
        row.status # "downloading" \/ "stuck" \in excused

(* A worker's request ends although it waits for a task that may be        *)
(* cancelled, fail or die (await_key).                                     *)
MirrorAnswers == \A r \in Reqs : at[r] = "lookup" ~> at[r] = "done"
=============================================================================

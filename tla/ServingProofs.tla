--------------------------- MODULE ServingProofs ----------------------------
(***************************************************************************)
(* The model cache, API keys and the permissions of a bearer token, for    *)
(* any number of tasks, requests, services, changes and faults: rows and   *)
(* files of the cache disagree only for a known reason, the eviction keeps *)
(* what a deployment uses, and what a cached context says was so while it  *)
(* was resolved.                                                           *)
(***************************************************************************)
EXTENDS Naturals, TLAPS

CONSTANTS
  Tasks, MirrorReqs, None, Named,   \* ModelCache
  MaxFaults,                        \* ModelCache, ApiKeys
  Services, Kinds, MaxKeyChanges,   \* ApiKeys
  Reqs, Custom, MaxChanges          \* TokenContext

-----------------------------------------------------------------------------
\* The model cache and its mirror (ModelCache)
VARIABLES
  row, at, cid, current, cancel, awaits, disk, ino, fd, pos, del, evict,
  cacheFaults, cacheExcused
Cache == INSTANCE ModelCache WITH
  faults <- cacheFaults, excused <- cacheExcused, Reqs <- MirrorReqs

CacheConstants ==
  /\ MaxFaults \in Nat /\ Named \in BOOLEAN
  /\ None \notin Cache!Writers /\ Tasks \cap MirrorReqs = {}

(* Unless two downloads overlapped: there is one at a time, of a file that *)
(* is not there yet, and the .part file holds what it has written.         *)
Downloads ==
  "overlap" \notin cacheExcused =>
    /\ \A v, w \in Cache!Writers : Cache!Downloading(v) /\ Cache!Downloading(w) => v = w
    /\ \A w \in Cache!Writers : Cache!Downloading(w) =>
         /\ disk.target = None /\ fd[w] \in Cache!Writers
         /\ disk.part \in {None, fd[w]} /\ ino[fd[w]] = 1 .. pos[w]
    /\ disk.target # None => ino[disk.target] = Cache!Chunks

(* Unless a removal came apart: a task at work has its row, a removal that *)
(* still has to delete the row meets no file and no task at work, and rows *)
(* and files agree otherwise.                                              *)
Working == {"list", "file", "write", "mark"}

Agreement ==
  "apart" \notin cacheExcused =>
    /\ \A t \in Tasks : Cache!Live(t) /\ at[t] \in Working => row.id # None
    /\ \A t \in Tasks : Cache!Live(t) /\ at[t] = "mark" => disk.target # None
    /\ "row" \in {del.at, evict.at} =>
         disk.target = None /\ \A t \in Tasks : Cache!Live(t) => at[t] \notin Working
    /\ disk.target # None => row.id # None
    /\ row.status = "cached" /\ disk.target = None => "row" \in {del.at, evict.at}

(* What the tick's query found decides.                                    *)
Ticks ==
  /\ evict.at = "run" /\ evict.held /\ Named => evict.failed \/ evict.seen
  /\ evict.at = "remove" /\ evict.held /\ Named => evict.failed

Caching == Cache!TypeOK /\ Downloads /\ Agreement /\ Ticks

EvictionTick ==
  [at : {"idle", "run", "remove", "row"}, id : Tasks \union {None},
   seen : BOOLEAN, failed : BOOLEAN, held : BOOLEAN]

(* An update of the row by its id keeps the id.                            *)
LEMMA SetStatusTyped ==
  ASSUME Cache!TypeOK, NEW t \in Tasks,
         NEW s \in {"pending", "downloading", "cached", "error"}
  PROVE  /\ Cache!SetStatus(t, s) \in [id : Tasks \union {None},
                status : {"none", "pending", "downloading", "cached", "error"}]
         /\ Cache!SetStatus(t, s).id = row.id
         /\ Cache!SetStatus(t, s).id = None <=> Cache!SetStatus(t, s).status = "none"
         /\ Cache!SetStatus(t, s).status \in {row.status, s}
  BY DEF Cache!TypeOK, Cache!SetStatus

(* An upsert leaves a row, the one that is there if there is one.          *)
LEMMA UpsertedTyped ==
  ASSUME CacheConstants, Cache!TypeOK, NEW t \in Tasks
  PROVE  /\ Cache!Upserted(t) \in [id : Tasks \union {None},
                status : {"none", "pending", "downloading", "cached", "error"}]
         /\ Cache!Upserted(t).id # None /\ Cache!Upserted(t).status # "none"
         /\ Cache!Upserted(t) = row \/ (row.id = None /\ Cache!Upserted(t).status = "pending")
  BY DEF Cache!TypeOK, Cache!Upserted, CacheConstants, Cache!Writers

(* Steps of a mirror request keep the types.                               *)
LEMMA RequestTyped ==
  ASSUME CacheConstants, Cache!TypeOK, NEW r \in MirrorReqs,
         Cache!ChooseFetchSource(r) \/ Cache!ReqStep(r)
  PROVE  Cache!TypeOK'
<1> USE DEF Cache!Files, Cache!Removers, Cache!Writers
<1>1. CASE Cache!ChooseFetchSource(r) \/ Cache!Lookup(r)
  <2>1. PICK step \in {"lookup", "done", "await"} : Cache!Go(r, step)
    BY <1>1 DEF Cache!ChooseFetchSource, Cache!Lookup
  <2>2. at' \in [Cache!Writers -> {"none", "lookup", "upsert", "list", "file", "write", "mark",
                             "await", "done"}]
    BY <2>1 DEF Cache!TypeOK, Cache!Go
  <2>3. awaits' \in [MirrorReqs -> Tasks \union {None}]
    BY <1>1 DEF Cache!TypeOK, Cache!ChooseFetchSource, Cache!Lookup
  <2>4. UNCHANGED <<row, cid, current, cancel, Cache!Files, Cache!Removers, cacheFaults, cacheExcused>>
    BY <1>1 DEF Cache!ChooseFetchSource, Cache!Lookup
  <2> QED
    BY <2>2, <2>3, <2>4 DEF Cache!TypeOK
<1>2. CASE Cache!Joined(r)
  <2>1. CASE Cache!Go(r, "done") /\ UNCHANGED <<Cache!Files, cacheExcused>>
    BY <1>2, <2>1 DEF Cache!TypeOK, Cache!Joined, Cache!Go
  <2>2. CASE Cache!Go(r, "write") /\ Cache!Open(r)
    <3>1. cacheExcused' \subseteq {"overlap", "apart", "stuck"}
      BY <2>2 DEF Cache!TypeOK, Cache!Open, Cache!Because
    <3> QED
      BY <1>2, <2>2, <3>1 DEF Cache!TypeOK, Cache!Joined, Cache!Go, Cache!Open
  <2> QED
    BY <1>2, <2>1, <2>2 DEF Cache!Joined
<1>3. CASE Cache!PublishReq(r)
  <2>1. cacheExcused' \subseteq {"overlap", "apart", "stuck"}
    BY <1>3, Zenon DEF Cache!TypeOK, Cache!PublishReq, Cache!Because
  <2>2. disk' \in [target : Cache!Writers \union {None}, part : Cache!Writers \union {None}]
    BY <1>3 DEF Cache!TypeOK, Cache!PublishReq, Cache!Publish
  <2> QED
    BY <1>3, <2>1, <2>2 DEF Cache!TypeOK, Cache!PublishReq, Cache!Go, Cache!Close
<1>4. CASE Cache!ReqFails(r)
  BY <1>4 DEF Cache!TypeOK, Cache!ReqFails, Cache!Go, Cache!RemovePart, Cache!Close
<1> QED
  BY <1>1, <1>2, <1>3, <1>4 DEF Cache!ReqStep

(* Steps of a pre-warm task keep the types.                                *)
LEMMA TaskTyped ==
  ASSUME CacheConstants, Cache!TypeOK, NEW t \in Tasks, Cache!TaskStep(t)
  PROVE  Cache!TypeOK'
<1> USE DEF Cache!Files, Cache!Removers, Cache!Writers
<1>0. ASSUME Cache!PrewarmFails(t)
      PROVE  /\ Cache!Go(t, "done") /\ cacheExcused' \subseteq {"overlap", "apart", "stuck"}
             /\ cacheFaults' \in 0 .. MaxFaults
             /\ row' \in [id : Tasks \union {None},
                    status : {"none", "pending", "downloading", "cached", "error"}]
             /\ row'.id = None <=> row'.status = "none"
  <2>1. CASE row' = Cache!SetStatus(t, "error") /\ UNCHANGED <<cacheFaults, cacheExcused>>
    BY <1>0, <2>1, SetStatusTyped DEF Cache!PrewarmFails, Cache!TypeOK
  <2>2. CASE Cache!Fault /\ cacheExcused' = cacheExcused \union {"stuck"} /\ UNCHANGED row
    BY <1>0, <2>2 DEF Cache!PrewarmFails, Cache!Fault, Cache!TypeOK, CacheConstants
  <2> QED
    BY <1>0, <2>1, <2>2 DEF Cache!PrewarmFails
<1>1. CASE Cache!Upsert(t)
  <2>1. cacheExcused' \subseteq {"overlap", "apart", "stuck"}
    BY <1>1 DEF Cache!TypeOK, Cache!Upsert, Cache!Because
  <2>2. Cache!Upserted(t).id \in Tasks \union {None}
    BY UpsertedTyped
  <2> QED
    BY <1>1, <2>1, <2>2, UpsertedTyped DEF Cache!TypeOK, Cache!Upsert, Cache!Go
<1>2. CASE Cache!List(t)
  <2>1. CASE Cache!PrewarmFails(t)
    BY <1>0, <1>2, <2>1 DEF Cache!TypeOK, Cache!List, Cache!Go
  <2>2. CASE /\ Cache!Go(t, "file") /\ row' = Cache!SetStatus(t, "downloading")
             /\ UNCHANGED <<cacheFaults, cacheExcused>>
    BY <1>2, <2>2, SetStatusTyped DEF Cache!TypeOK, Cache!List, Cache!Go
  <2> QED
    BY <1>2, <2>1, <2>2 DEF Cache!List
<1>3. CASE Cache!FetchFile(t)
  <2>1. CASE Cache!PrewarmFails(t) /\ UNCHANGED Cache!Files
    BY <1>0, <1>3, <2>1 DEF Cache!TypeOK, Cache!FetchFile, Cache!Go
  <2>2. CASE Cache!Go(t, "mark") /\ UNCHANGED <<row, Cache!Files, cacheFaults, cacheExcused>>
    BY <1>3, <2>2 DEF Cache!TypeOK, Cache!FetchFile, Cache!Go
  <2>3. CASE Cache!Go(t, "write") /\ Cache!Open(t) /\ UNCHANGED <<row, cacheFaults>>
    BY <1>3, <2>3 DEF Cache!TypeOK, Cache!FetchFile, Cache!Go, Cache!Open, Cache!Because
  <2> QED
    BY <1>3, <2>1, <2>2, <2>3 DEF Cache!FetchFile
<1>4. CASE Cache!PublishTask(t)
  <2>1. CASE Cache!PrewarmFails(t) /\ UNCHANGED disk
    BY <1>0, <1>4, <2>1 DEF Cache!TypeOK, Cache!PublishTask, Cache!Close, Cache!Go
  <2>2. CASE Cache!Publish /\ Cache!Go(t, "mark") /\ UNCHANGED <<row, cacheFaults, cacheExcused>>
    BY <1>4, <2>2 DEF Cache!TypeOK, Cache!PublishTask, Cache!Publish, Cache!Close,
         Cache!Go
  <2> QED
    BY <1>4, <2>1, <2>2 DEF Cache!PublishTask
<1>5. CASE Cache!StreamFails(t)
  BY <1>0, <1>5 DEF Cache!TypeOK, Cache!StreamFails, Cache!RemovePart, Cache!Close,
       Cache!Go
<1>6. CASE Cache!Mark(t)
  BY <1>6, SetStatusTyped DEF Cache!TypeOK, Cache!Mark, Cache!Go
<1>7. CASE Cache!Unwind(t)
  BY <1>7, UpsertedTyped DEF Cache!TypeOK, Cache!Unwind, Cache!RemovePart,
       Cache!Close, Cache!Go
<1> QED
  BY <1>1, <1>2, <1>3, <1>4, <1>5, <1>6, <1>7 DEF Cache!TaskStep

(* Removals and a restart keep the types.                                  *)
LEMMA RemovalTyped ==
  ASSUME CacheConstants, Cache!TypeOK,
         Cache!DeleteModel \/ Cache!DeleteRow \/ Cache!EvictDir \/ Cache!EvictRow \/ Cache!Restart
  PROVE  Cache!TypeOK'
<1> USE DEF Cache!Files, Cache!Removers, Cache!Writers, CacheConstants
<1>1. CASE Cache!DeleteModel
  <2>1. cacheExcused' \subseteq {"overlap", "apart", "stuck"}
    BY <1>1 DEF Cache!TypeOK, Cache!DeleteModel, Cache!Because
  <2>2. cancel' \subseteq Tasks
    BY <1>1 DEF Cache!TypeOK, Cache!DeleteModel
  <2> QED
    BY <1>1, <2>1, <2>2 DEF Cache!TypeOK, Cache!DeleteModel, Cache!Rmtree
<1>2. CASE Cache!DeleteRow
  <2>1. cacheExcused' \subseteq {"overlap", "apart", "stuck"}
    BY <1>2, Zenon DEF Cache!TypeOK, Cache!DeleteRow, Cache!Because
  <2>2. cacheFaults' \in 0 .. MaxFaults
    BY <1>2 DEF Cache!TypeOK, Cache!DeleteRow, Cache!Fault
  <2>3. row' = row \/ row' = Cache!NoRow
    BY <1>2 DEF Cache!DeleteRow
  <2> QED
    BY <1>2, <2>1, <2>2, <2>3 DEF Cache!TypeOK, Cache!DeleteRow, Cache!NoRow
<1>3. CASE Cache!EvictDir
  <2>1. cacheExcused' \subseteq {"overlap", "apart", "stuck"}
    BY <1>3 DEF Cache!TypeOK, Cache!EvictDir, Cache!Because
  <2> QED
    BY <1>3, <2>1, Zenon DEF Cache!TypeOK, Cache!EvictDir, Cache!Rmtree, Cache!NoTick
<1>4. CASE Cache!EvictRow
  <2>1. cacheExcused' \subseteq {"overlap", "apart", "stuck"}
    BY <1>4, Zenon DEF Cache!TypeOK, Cache!EvictRow, Cache!Because
  <2>2. cacheFaults' \in 0 .. MaxFaults
    BY <1>4 DEF Cache!TypeOK, Cache!EvictRow, Cache!Fault
  <2>3. row' = row \/ row' = Cache!NoRow
    BY <1>4 DEF Cache!EvictRow
  <2> QED
    BY <1>4, <2>1, <2>2, <2>3 DEF Cache!TypeOK, Cache!EvictRow, Cache!NoRow,
         Cache!NoTick
<1>5. CASE Cache!Restart
  BY <1>5 DEF Cache!TypeOK, Cache!Restart, Cache!Reconciled, Cache!NoTick, Cache!Fault
<1> QED
  BY <1>1, <1>2, <1>3, <1>4, <1>5

(* So do new tasks, chunks and the steps of the eviction loop that remove  *)
(* nothing.                                                                *)
LEMMA OtherTyped ==
  ASSUME CacheConstants, Cache!TypeOK,
         Cache!AddModel \/ Cache!Undeploy \/ Cache!Tick \/ Cache!RunOnce
         \/ (\E w \in Cache!Writers : Cache!WriteChunk(w))
         \/ UNCHANGED Cache!vars
  PROVE  Cache!TypeOK'
<1> USE DEF Cache!Files, Cache!Removers, CacheConstants
<1>1. CASE Cache!AddModel
  <2>1. CASE UNCHANGED <<at, current>>
    BY <1>1, <2>1 DEF Cache!TypeOK, Cache!AddModel
  <2>2. CASE ~UNCHANGED <<at, current>>
    <3>1. PICK t \in Tasks : Cache!Go(t, "upsert") /\ current' = t
      BY <1>1, <2>2, Zenon DEF Cache!AddModel, Cache!StartTask
    <3> QED
      BY <1>1, <3>1 DEF Cache!TypeOK, Cache!AddModel, Cache!Go, Cache!Writers
  <2> QED
    BY <2>1, <2>2
<1>2. CASE Cache!Undeploy
  BY <1>2, Zenon DEF Cache!TypeOK, Cache!Undeploy
<1>3. CASE Cache!Tick
  <2>1. PICK used \in BOOLEAN :
          \/ evict' = [Cache!NoTick EXCEPT !.at = "run", !.seen = used /\ Named, !.held = used]
          \/ evict' = [Cache!NoTick EXCEPT !.at = "run", !.failed = TRUE, !.held = used]
    BY <1>3, Zenon DEF Cache!Tick
  <2>2. (used /\ Named) \in BOOLEAN
    BY Zenon
  <2>3. \A a, c \in BOOLEAN :
          /\ [Cache!NoTick EXCEPT !.at = "run", !.seen = a, !.held = c] \in EvictionTick
          /\ [Cache!NoTick EXCEPT !.at = "run", !.failed = a, !.held = c] \in EvictionTick
    BY Zenon DEF Cache!NoTick, EvictionTick
  <2>4. evict' \in EvictionTick
    BY <2>1, <2>2, <2>3, Zenon
  <2>5. cacheFaults' = cacheFaults \/ (cacheFaults < MaxFaults /\ cacheFaults' = cacheFaults + 1)
    BY <1>3, Zenon DEF Cache!Tick, Cache!Fault
  <2>6. cacheFaults' \in 0 .. MaxFaults
    BY <2>5 DEF Cache!TypeOK
  <2> QED
    BY <1>3, <2>4, <2>6, Zenon DEF Cache!TypeOK, Cache!Tick, EvictionTick
<1>4. CASE Cache!RunOnce
  <2>1. Cache!NoTick \in EvictionTick
    BY Zenon DEF Cache!NoTick, EvictionTick
  <2>2. [evict EXCEPT !.at = "remove", !.id = row.id] \in EvictionTick
    BY Zenon DEF Cache!TypeOK, EvictionTick
  <2>3. evict' \in EvictionTick
    BY <1>4, <2>1, <2>2 DEF Cache!RunOnce
  <2> QED
    BY <1>4, <2>3 DEF Cache!TypeOK, Cache!RunOnce, EvictionTick
<1>5. ASSUME NEW w \in Cache!Writers, Cache!WriteChunk(w) PROVE Cache!TypeOK'
  <2>1. pos[w] + 1 \in Cache!Chunks /\ pos[w] + 1 \in 0 .. 2
    BY <1>5 DEF Cache!TypeOK, Cache!WriteChunk, Cache!Chunks
  <2>2. ino' \in [Cache!Writers -> SUBSET Cache!Chunks]
    BY <1>5, <2>1, Zenon DEF Cache!TypeOK, Cache!WriteChunk
  <2> QED
    BY <1>5, <2>1, <2>2 DEF Cache!TypeOK, Cache!WriteChunk
<1>6. CASE UNCHANGED Cache!vars
  BY <1>6 DEF Cache!TypeOK, Cache!vars
<1> QED
  BY <1>1, <1>2, <1>3, <1>4, <1>5, <1>6

(* One download at a time: who opens, writes, publishes and fails.         *)
LEMMA DownloadsKept ==
  ASSUME Cache!TypeOK, Downloads, UNCHANGED <<disk, ino, fd, pos>>,
         \A w \in Cache!Writers : Cache!Downloading(w)' => Cache!Downloading(w),
         cacheExcused \subseteq cacheExcused'
  PROVE  Downloads'
  BY DEF Downloads

(* A writer that is through with its file.                                 *)
LEMMA WriterLeaves ==
  ASSUME CacheConstants, Cache!TypeOK, Downloads, NEW w \in Cache!Writers, NEW step, step # "write",
         Cache!Go(w, step), Cache!Close(w), ino' = ino, cacheExcused \subseteq cacheExcused',
         \/ disk' = disk \/ Cache!RemovePart
         \/ Cache!Publish /\ Cache!Downloading(w) /\ pos[w] = 2 /\ disk.part # None
  PROVE  Downloads'
<1> SUFFICES ASSUME "overlap" \notin cacheExcused' PROVE Downloads'
  BY DEF Downloads
<1>1. "overlap" \notin cacheExcused
  OBVIOUS
<1>2. \A v \in Cache!Writers : /\ Cache!Downloading(v)' => Cache!Downloading(v) /\ v # w
                               /\ v # w => fd'[v] = fd[v] /\ pos'[v] = pos[v]
  BY DEF Cache!Downloading, Cache!Go, Cache!Close, Cache!TypeOK
<1>3. CASE Cache!Publish /\ Cache!Downloading(w) /\ pos[w] = 2 /\ disk.part # None
  <2>1. \A v \in Cache!Writers : ~Cache!Downloading(v)'
    BY <1>1, <1>2, <1>3 DEF Downloads
  <2>2. disk'.target = disk.part /\ disk.part = fd[w]
    BY <1>1, <1>3 DEF Downloads, Cache!Publish
  <2>3. ino[fd[w]] = 1 .. 2
    BY <1>1, <1>3 DEF Downloads
  <2>4. 1 .. 2 = Cache!Chunks
    BY DEF Cache!Chunks
  <2> QED
    BY <2>1, <2>2, <2>3, <2>4 DEF Downloads
<1>4. CASE disk' = disk \/ Cache!RemovePart
  <2>1. disk'.target = disk.target /\ disk'.part \in {disk.part, None}
    BY <1>4 DEF Cache!TypeOK, Cache!RemovePart
  <2> QED
    BY <1>1, <1>2, <2>1 DEF Downloads
<1> QED
  BY <1>3, <1>4

(* A writer that opens the .part file of a file that is not there.         *)
LEMMA WriterOpens ==
  ASSUME CacheConstants, Cache!TypeOK, Downloads, NEW w \in Cache!Writers, at[w] # "write",
         Cache!Go(w, "write"), Cache!Open(w), disk.target = None
  PROVE  Downloads'
<1> SUFFICES ASSUME "overlap" \notin cacheExcused' PROVE Downloads'
  BY DEF Downloads
<1>1. "overlap" \notin cacheExcused /\ \A v \in Cache!Writers \ {w} : ~Cache!Downloading(v)
  BY DEF Cache!Open, Cache!Because
<1>2. \A v \in Cache!Writers : Cache!Downloading(v)' => v = w
  BY <1>1 DEF Cache!Downloading, Cache!Go, Cache!TypeOK
<1>3. PICK i \in Cache!Writers : /\ disk' = [disk EXCEPT !.part = i]
                         /\ ino' = [ino EXCEPT ![i] = {}]
                         /\ fd' = [fd EXCEPT ![w] = i] /\ pos' = [pos EXCEPT ![w] = 0]
  BY Zenon DEF Cache!Open, Cache!TypeOK
<1>4. disk'.target = None /\ disk'.part = i /\ ino'[i] = {} /\ fd'[w] = i /\ pos'[w] = 0
  BY <1>3 DEF Cache!TypeOK
<1>5. {} = 1 .. 0
  OBVIOUS
<1> QED
  BY <1>2, <1>4, <1>5, Zenon DEF Downloads

(* The invariant of the downloads is inductive.                            *)
LEMMA DownloadsStep ==
  ASSUME CacheConstants, Cache!TypeOK, Downloads, [Cache!Next]_(Cache!vars) PROVE Downloads'
<1>1. ASSUME NEW w \in Cache!Writers, Cache!WriteChunk(w) PROVE Downloads'
  <2> SUFFICES ASSUME "overlap" \notin cacheExcused PROVE Downloads'
    BY <1>1, Zenon DEF Downloads, Cache!WriteChunk
  <2>1. /\ disk' = disk /\ fd' = fd /\ Cache!Downloading(w)
        /\ \A v \in Cache!Writers : Cache!Downloading(v)' => v = w
        /\ disk.target = None /\ fd[w] \in Cache!Writers /\ disk.part \in {None, fd[w]}
        /\ ino[fd[w]] = 1 .. pos[w] /\ pos[w] \in {0, 1}
    BY <1>1 DEF Cache!WriteChunk, Downloads, Cache!Downloading, Cache!TypeOK
  <2>2. ino'[fd[w]] = (1 .. pos[w]) \union {pos[w] + 1} /\ pos'[w] = pos[w] + 1
    BY <1>1, <2>1 DEF Cache!WriteChunk, Cache!TypeOK
  <2>3. (1 .. pos[w]) \union {pos[w] + 1} = 1 .. pos[w] + 1
    BY <2>1
  <2> QED
    BY <2>1, <2>2, <2>3, Zenon DEF Downloads
<1>2. ASSUME NEW t \in Tasks, Cache!TaskStep(t) PROVE Downloads'
  <2> USE DEF Cache!Files, Cache!Removers
  <2>0. t \in Cache!Writers
    BY DEF Cache!Writers
  <2>1. CASE Cache!Upsert(t)
    BY <1>2, <2>0, <2>1, DownloadsKept DEF Cache!Upsert, Cache!Go, Cache!Downloading,
         Cache!TypeOK, Cache!Because
  <2>2. CASE Cache!List(t)
    BY <1>2, <2>0, <2>2, DownloadsKept DEF Cache!List, Cache!PrewarmFails, Cache!Go,
         Cache!Downloading, Cache!TypeOK
  <2>3. CASE Cache!Mark(t)
    BY <1>2, <2>0, <2>3, DownloadsKept DEF Cache!Mark, Cache!Go, Cache!Downloading,
         Cache!TypeOK
  <2>4. CASE Cache!FetchFile(t)
    <3>1. CASE Cache!Go(t, "write") /\ Cache!Open(t) /\ disk.target = None
      BY <2>0, <2>4, <3>1, WriterOpens DEF Cache!FetchFile
    <3>2. CASE /\ Cache!Go(t, "mark") \/ Cache!Go(t, "done")
               /\ UNCHANGED Cache!Files /\ cacheExcused \subseteq cacheExcused'
      BY <2>0, <2>4, <3>2, DownloadsKept DEF Cache!Go, Cache!Downloading, Cache!TypeOK
    <3> QED
      BY <2>4, <3>1, <3>2 DEF Cache!FetchFile, Cache!PrewarmFails
  <2>5. CASE Cache!PublishTask(t)
    <3>1. PICK step \in {"mark", "done"} : Cache!Go(t, step)
      BY <2>5 DEF Cache!PublishTask, Cache!PrewarmFails
    <3>2. cacheExcused \subseteq cacheExcused'
      BY <2>5 DEF Cache!PublishTask, Cache!PrewarmFails
    <3> QED
      BY <2>0, <2>5, <3>1, <3>2, WriterLeaves DEF Cache!PublishTask, Cache!Downloading
  <2>6. CASE Cache!StreamFails(t)
    <3>1. Cache!Go(t, "done") /\ cacheExcused \subseteq cacheExcused'
      BY <2>6 DEF Cache!StreamFails, Cache!PrewarmFails
    <3> QED
      BY <2>0, <2>6, <3>1, WriterLeaves DEF Cache!StreamFails
  <2>7. CASE Cache!Unwind(t)
    BY <2>0, <2>7, WriterLeaves DEF Cache!Unwind
  <2> QED
    BY <1>2, <2>1, <2>2, <2>3, <2>4, <2>5, <2>6, <2>7 DEF Cache!TaskStep
<1>3. ASSUME NEW r \in MirrorReqs, Cache!ChooseFetchSource(r) \/ Cache!ReqStep(r) PROVE Downloads'
  <2> USE DEF Cache!Files, Cache!Removers
  <2>0. r \in Cache!Writers
    BY DEF Cache!Writers
  <2>1. CASE Cache!ChooseFetchSource(r)
    BY <2>0, <2>1, DownloadsKept DEF Cache!ChooseFetchSource, Cache!Go,
         Cache!Downloading, Cache!TypeOK
  <2>2. CASE Cache!Lookup(r)
    BY <2>0, <2>2, DownloadsKept DEF Cache!Lookup, Cache!Go, Cache!Downloading,
         Cache!TypeOK
  <2>3. CASE Cache!Joined(r)
    <3>1. CASE Cache!Go(r, "write") /\ Cache!Open(r) /\ disk.target = None
      BY <2>0, <2>3, <3>1, WriterOpens DEF Cache!Joined
    <3>2. CASE Cache!Go(r, "done") /\ UNCHANGED <<Cache!Files, cacheExcused>>
      BY <2>0, <2>3, <3>2, DownloadsKept DEF Cache!Go, Cache!Downloading, Cache!TypeOK
    <3> QED
      BY <2>3, <3>1, <3>2 DEF Cache!Joined
  <2>4. CASE Cache!PublishReq(r)
    <3>1. cacheExcused \subseteq cacheExcused'
      BY <2>4 DEF Cache!PublishReq, Cache!Because
    <3> QED
      BY <2>0, <2>4, <3>1, WriterLeaves DEF Cache!PublishReq, Cache!Downloading
  <2>5. CASE Cache!ReqFails(r)
    BY <2>0, <2>5, WriterLeaves DEF Cache!ReqFails
  <2> QED
    BY <1>3, <2>1, <2>2, <2>3, <2>4, <2>5 DEF Cache!ReqStep
<1>4. CASE Cache!DeleteModel \/ Cache!EvictDir
  <2>1. /\ Cache!Rmtree /\ cacheExcused \subseteq cacheExcused' /\ UNCHANGED <<at, ino, fd, pos>>
    BY <1>4 DEF Cache!DeleteModel, Cache!EvictDir, Cache!Because
  <2> QED
    BY <2>1 DEF Downloads, Cache!Downloading, Cache!Rmtree
<1>5. CASE Cache!DeleteRow \/ Cache!EvictRow \/ Cache!Tick \/ Cache!RunOnce \/ Cache!Undeploy
  <2>1. UNCHANGED <<at, disk, ino, fd, pos>> /\ cacheExcused \subseteq cacheExcused'
    BY <1>5, Zenon DEF Cache!DeleteRow, Cache!EvictRow, Cache!Tick, Cache!RunOnce,
         Cache!Undeploy, Cache!Files, Cache!Because
  <2> QED
    BY <2>1, DownloadsKept DEF Cache!Downloading
<1>6. CASE Cache!AddModel
  <2>1. UNCHANGED <<disk, ino, fd, pos, cacheExcused>>
    BY <1>6 DEF Cache!AddModel, Cache!Files
  <2>2. at' = at \/ \E t \in Tasks : Cache!Go(t, "upsert")
    BY <1>6 DEF Cache!AddModel, Cache!StartTask
  <2> QED
    BY <2>1, <2>2, DownloadsKept DEF Cache!Downloading, Cache!Go, Cache!TypeOK
<1>7. CASE Cache!Restart
  <2>1. /\ \A w \in Cache!Writers : ~Cache!Downloading(w)'
        /\ UNCHANGED <<disk, ino>> /\ cacheExcused \subseteq cacheExcused'
    BY <1>7 DEF Cache!Restart, Cache!Downloading
  <2> QED
    BY <2>1 DEF Downloads
<1>8. CASE UNCHANGED Cache!vars
  BY <1>8, DownloadsKept DEF Cache!vars, Cache!Downloading
<1> QED
  BY <1>1, <1>2, <1>3, <1>4, <1>5, <1>6, <1>7, <1>8 DEF Cache!Next

(* Rows and files.                                                         *)
LEMMA AgreementKept ==
  ASSUME Cache!TypeOK, Agreement, cacheExcused \subseteq cacheExcused',
         disk'.target = disk.target, row'.id = row.id,
         row'.status = "cached" => row.status = "cached",
         del' = del, evict'.at = "row" <=> evict.at = "row",
         \A t \in Tasks : Cache!Live(t)' /\ at'[t] \in Working =>
            Cache!Live(t) /\ at[t] \in Working /\ (at'[t] = "mark" => at[t] = "mark")
  PROVE  Agreement'
  BY DEF Agreement, Working

(* A request does not touch the tasks.                                     *)
LEMMA RequestAgrees ==
  ASSUME CacheConstants, Cache!TypeOK, Agreement, NEW r \in MirrorReqs,
         Cache!ChooseFetchSource(r) \/ Cache!ReqStep(r)
  PROVE  Agreement'
<1> USE DEF Cache!Files, Cache!Removers
<1>1. \A t \in Tasks : at'[t] = at[t] /\ (Cache!Live(t)' <=> Cache!Live(t))
  <2>1. PICK step : Cache!Go(r, step)
    BY DEF Cache!ReqStep, Cache!ChooseFetchSource, Cache!Lookup, Cache!Joined,
         Cache!PublishReq, Cache!ReqFails
  <2>2. cancel' = cancel
    BY DEF Cache!ReqStep, Cache!ChooseFetchSource, Cache!Lookup, Cache!Joined,
         Cache!PublishReq, Cache!ReqFails
  <2> QED
    BY <2>1, <2>2 DEF Cache!Go, Cache!Live, Cache!TypeOK, CacheConstants, Cache!Writers
<1>2. row' = row /\ del' = del /\ evict' = evict /\ cacheExcused \subseteq cacheExcused'
  BY DEF Cache!ReqStep, Cache!ChooseFetchSource, Cache!Lookup, Cache!Joined,
       Cache!Open, Cache!Because, Cache!PublishReq, Cache!ReqFails
<1>3. CASE disk'.target = disk.target
  BY <1>1, <1>2, <1>3, AgreementKept
<1>4. CASE disk'.target # disk.target
  <2>1. Cache!PublishReq(r) /\ Cache!Publish /\ disk.part # None
        /\ Cache!Because(row.id = None \/ "row" \in {del.at, evict.at}, "apart")
    BY <1>4, Zenon DEF Cache!ReqStep, Cache!ChooseFetchSource, Cache!Lookup,
         Cache!Joined, Cache!Open, Cache!PublishReq, Cache!ReqFails,
                Cache!RemovePart, Cache!TypeOK
  <2>2. disk'.target # None
    BY <2>1 DEF Cache!Publish
  <2>3. "apart" \notin cacheExcused' => row.id # None /\ "row" \notin {del.at, evict.at}
    BY <2>1 DEF Cache!Because
  <2> QED
    BY <1>1, <1>2, <2>2, <2>3 DEF Agreement
<1> QED
  BY <1>3, <1>4

(* A task writes, publishes and marks only what agrees with its row, and   *)
(* ends without touching the files of another.                             *)
LEMMA TaskAgrees ==
  ASSUME CacheConstants, Cache!TypeOK, Agreement, NEW t \in Tasks, Cache!TaskStep(t)
  PROVE  Agreement'
<1> USE DEF Cache!Files, Cache!Removers
<1>0. t \in Cache!Writers /\ \A u \in Tasks : u \in Cache!Writers
  BY DEF Cache!Writers
<1>1. ASSUME NEW step, Cache!Go(t, step)
      PROVE  at'[t] = step /\ \A u \in Tasks \ {t} : at'[u] = at[u]
  BY <1>0, <1>1 DEF Cache!Go, Cache!TypeOK
<1>2. ASSUME Cache!PrewarmFails(t), cancel' = cancel, del' = del, evict' = evict,
             disk'.target = disk.target
      PROVE  Agreement'
  <2>1. row'.id = row.id /\ (row'.status = "cached" => row.status = "cached")
        /\ cacheExcused \subseteq cacheExcused'
    BY <1>2, SetStatusTyped DEF Cache!PrewarmFails
  <2>2. at'[t] = "done" /\ \A u \in Tasks \ {t} : at'[u] = at[u]
    BY <1>1, <1>2 DEF Cache!PrewarmFails
  <2> QED
    BY <1>2, <2>1, <2>2, AgreementKept DEF Cache!Live, Working
<1>3. CASE Cache!Upsert(t)
  <2>1. /\ row' = Cache!Upserted(t) /\ row'.id # None /\ (row'.status = "cached" => row' = row)
        /\ row.id # None => row' = row
    BY <1>3, UpsertedTyped DEF Cache!Upsert, Cache!Upserted
  <2>2. /\ at'[t] = "list" /\ \A u \in Tasks \ {t} : at'[u] = at[u]
        /\ UNCHANGED <<disk, del, evict, cancel>>
    BY <1>1, <1>3 DEF Cache!Upsert
  <2>3. /\ cacheExcused \subseteq cacheExcused'
        /\ "apart" \notin cacheExcused' => "row" \notin {del.at, evict.at}
    BY <1>3 DEF Cache!Upsert, Cache!Because
  <2> QED
    BY <2>1, <2>2, <2>3 DEF Agreement, Cache!Live
<1>4. CASE Cache!List(t)
  <2>1. CASE Cache!PrewarmFails(t)
    BY <1>2, <1>4, <2>1 DEF Cache!List
  <2>2. CASE /\ Cache!Go(t, "file") /\ row' = Cache!SetStatus(t, "downloading")
             /\ UNCHANGED <<cacheFaults, cacheExcused>>
    <3>1. row'.id = row.id /\ (row'.status = "cached" => row.status = "cached")
      BY <2>2, SetStatusTyped
    <3>2. at'[t] = "file" /\ at[t] = "list" /\ \A u \in Tasks \ {t} : at'[u] = at[u]
      BY <1>1, <1>4, <2>2 DEF Cache!List
    <3> QED
      BY <1>4, <2>2, <3>1, <3>2, AgreementKept DEF Cache!Live, Working, Cache!List
  <2> QED
    BY <1>4, <2>1, <2>2 DEF Cache!List
<1>5. CASE Cache!FetchFile(t)
  <2>1. CASE Cache!PrewarmFails(t) /\ UNCHANGED Cache!Files
    BY <1>2, <1>5, <2>1 DEF Cache!FetchFile
  <2>2. CASE /\ disk.target # None /\ Cache!Go(t, "mark")
             /\ UNCHANGED <<row, Cache!Files, cacheFaults, cacheExcused>>
    <3>1. at'[t] = "mark" /\ at[t] = "file" /\ \A u \in Tasks \ {t} : at'[u] = at[u]
      BY <1>1, <1>5, <2>2 DEF Cache!FetchFile
    <3> QED
      BY <1>5, <2>2, <3>1 DEF Agreement, Cache!Live, Working, Cache!FetchFile
  <2>3. CASE Cache!Go(t, "write") /\ Cache!Open(t) /\ UNCHANGED <<row, cacheFaults>>
    <3>1. at'[t] = "write" /\ at[t] = "file" /\ \A u \in Tasks \ {t} : at'[u] = at[u]
      BY <1>1, <1>5, <2>3 DEF Cache!FetchFile
    <3>2. disk'.target = disk.target /\ cacheExcused \subseteq cacheExcused'
      BY <2>3 DEF Cache!Open, Cache!Because, Cache!TypeOK
    <3> QED
      BY <1>5, <2>3, <3>1, <3>2, AgreementKept DEF Cache!Live, Working, Cache!FetchFile
  <2> QED
    BY <1>5, <2>1, <2>2, <2>3 DEF Cache!FetchFile
<1>6. CASE Cache!PublishTask(t)
  <2>1. CASE Cache!PrewarmFails(t) /\ UNCHANGED disk
    BY <1>2, <1>6, <2>1 DEF Cache!PublishTask
  <2>2. CASE /\ disk.part # None /\ Cache!Publish /\ Cache!Go(t, "mark")
             /\ UNCHANGED <<row, cacheFaults, cacheExcused>>
    <3>1. at'[t] = "mark" /\ at[t] = "write" /\ \A u \in Tasks \ {t} : at'[u] = at[u]
      BY <1>1, <1>6, <2>2 DEF Cache!PublishTask
    <3>2. disk'.target # None
      BY <2>2 DEF Cache!Publish
    <3> QED
      BY <1>6, <2>2, <3>1, <3>2 DEF Agreement, Cache!Live, Working, Cache!PublishTask
  <2> QED
    BY <1>6, <2>1, <2>2 DEF Cache!PublishTask
<1>7. CASE Cache!StreamFails(t)
  <2>1. disk'.target = disk.target
    BY <1>7 DEF Cache!StreamFails, Cache!RemovePart, Cache!TypeOK
  <2> QED
    BY <1>2, <1>7, <2>1 DEF Cache!StreamFails
<1>8. CASE Cache!Mark(t)
  <2>1. row'.id = row.id
    BY <1>8, SetStatusTyped DEF Cache!Mark
  <2>2. at'[t] = "done" /\ at[t] = "mark" /\ \A u \in Tasks \ {t} : at'[u] = at[u]
    BY <1>1, <1>8 DEF Cache!Mark
  <2>3. "apart" \notin cacheExcused => disk.target # None
    BY <1>8 DEF Cache!Mark, Agreement
  <2> QED
    BY <1>8, <2>1, <2>2, <2>3 DEF Agreement, Cache!Live, Working, Cache!Mark
<1>9. CASE Cache!Unwind(t)
  <2>1. at'[t] = "done" /\ \A u \in Tasks \ {t} : at'[u] = at[u]
    BY <1>1, <1>9 DEF Cache!Unwind
  <2>2. disk'.target = disk.target /\ UNCHANGED <<del, evict, cacheExcused>> /\ cancel' = cancel \ {t}
    BY <1>9 DEF Cache!Unwind, Cache!RemovePart, Cache!TypeOK
  <2>3. \/ row' = row
        \/ row.id = None /\ row'.id # None /\ row'.status = "pending"
    BY <1>9, UpsertedTyped DEF Cache!Unwind
  <2> QED
    BY <2>1, <2>2, <2>3 DEF Agreement, Cache!Live, Working
<1> QED
  BY <1>3, <1>4, <1>5, <1>6, <1>7, <1>8, <1>9 DEF Cache!TaskStep

(* A removal that meets a task at work, or that is cut short, is on        *)
(* record.                                                                 *)
LEMMA RemovalAgrees ==
  ASSUME CacheConstants, Cache!TypeOK, Agreement,
         Cache!DeleteModel \/ Cache!DeleteRow \/ Cache!EvictDir \/ Cache!EvictRow \/ Cache!Restart
  PROVE  Agreement'
<1> USE DEF Cache!Files, Cache!Removers
<1>1. CASE Cache!DeleteModel
  <2>1. /\ disk'.target = None /\ del'.at = "row" /\ row' = row /\ at' = at /\ evict' = evict
        /\ cacheExcused \subseteq cacheExcused'
    BY <1>1 DEF Cache!DeleteModel, Cache!Rmtree, Cache!Because
  <2>2. "apart" \notin cacheExcused' => \A t \in Tasks : Cache!Live(t) => t = current
    BY <1>1 DEF Cache!DeleteModel, Cache!Because
  <2>3. \A t \in Tasks : Cache!Live(t)' => Cache!Live(t) /\ t # current
    BY <1>1 DEF Cache!DeleteModel, Cache!Live, CacheConstants, Cache!Writers
  <2> QED
    BY <2>1, <2>2, <2>3 DEF Agreement
<1>2. CASE Cache!EvictDir
  <2>1. /\ disk'.target = None /\ evict'.at = "row" /\ row' = row /\ at' = at /\ del' = del
        /\ cacheExcused \subseteq cacheExcused' /\ cancel' = cancel
    BY <1>2 DEF Cache!EvictDir, Cache!Rmtree, Cache!Because, Cache!NoTick
  <2>2. "apart" \notin cacheExcused' => \A t \in Tasks : ~Cache!Live(t)
    BY <1>2 DEF Cache!EvictDir, Cache!Because, Cache!Raced
  <2> QED
    BY <2>1, <2>2 DEF Agreement, Cache!Live
<1>3. CASE Cache!DeleteRow \/ Cache!EvictRow
  <2>1. UNCHANGED <<disk, at, cancel>> /\ cacheExcused \subseteq cacheExcused'
    BY <1>3 DEF Cache!DeleteRow, Cache!EvictRow, Cache!Because
  <2>2. "row" \in {del.at, evict.at}
    BY <1>3 DEF Cache!DeleteRow, Cache!EvictRow
  <2>3. "apart" \notin cacheExcused' => row' = Cache!NoRow /\ \A t \in Tasks : ~Cache!Live(t)
    BY <1>3 DEF Cache!DeleteRow, Cache!EvictRow, Cache!Because, Cache!Raced
  <2> QED
    BY <2>1, <2>2, <2>3 DEF Agreement, Cache!Live, Cache!NoRow
<1>4. CASE Cache!Restart
  <2>1. \A t \in Tasks : ~Cache!Live(t)'
    BY <1>4 DEF Cache!Restart, Cache!Live, Cache!Writers
  <2>2. /\ disk' = disk /\ row'.id = row.id /\ (row'.status = "cached" => row.status = "cached")
        /\ del'.at = "idle" /\ evict'.at = "idle"
    BY <1>4 DEF Cache!Restart, Cache!Reconciled, Cache!NoTick, Cache!TypeOK
  <2>3. cacheExcused \subseteq cacheExcused'
        /\ ("apart" \notin cacheExcused' => "row" \notin {del.at, evict.at})
    BY <1>4 DEF Cache!Restart
  <2> QED
    BY <2>1, <2>2, <2>3 DEF Agreement
<1> QED
  BY <1>1, <1>2, <1>3, <1>4

(* New tasks, chunks and ticks change neither row nor file.                *)
LEMMA OtherAgrees ==
  ASSUME CacheConstants, Cache!TypeOK, Agreement,
         Cache!AddModel \/ Cache!Undeploy \/ Cache!Tick \/ Cache!RunOnce
         \/ (\E w \in Cache!Writers : Cache!WriteChunk(w))
         \/ UNCHANGED Cache!vars
  PROVE  Agreement'
<1> USE DEF Cache!Files, Cache!Removers
<1>1. UNCHANGED <<disk, row, del, cancel, cacheExcused>>
  BY Zenon DEF Cache!AddModel, Cache!Undeploy, Cache!Tick, Cache!RunOnce,
       Cache!WriteChunk, Cache!vars
<1>2. evict'.at = "row" <=> evict.at = "row"
  <2>1. CASE Cache!Undeploy \/ Cache!RunOnce
    <3>1. CASE Cache!Undeploy
      BY <3>1 DEF Cache!Undeploy, Cache!TypeOK
    <3>2. CASE Cache!RunOnce
      <4>1. Cache!NoTick.at = "idle" /\ [evict EXCEPT !.at = "remove", !.id = row.id].at = "remove"
        BY DEF Cache!NoTick, Cache!TypeOK
      <4> QED
        BY <3>2, <4>1, Zenon DEF Cache!RunOnce
    <3> QED
      BY <2>1, <3>1, <3>2
  <2>2. CASE Cache!Tick
    <3>1. evict.at = "idle" /\ evict'.at = "run"
      BY <2>2, Zenon DEF Cache!Tick, Cache!NoTick
    <3> QED
      BY <3>1
  <2> QED
    BY <2>1, <2>2 DEF Cache!AddModel, Cache!WriteChunk, Cache!vars
<1>3. at' = at \/ \E t \in Tasks : Cache!Go(t, "upsert")
  <2>1. CASE Cache!AddModel
    BY <2>1 DEF Cache!AddModel, Cache!StartTask
  <2> QED
    BY <2>1, Zenon DEF Cache!Undeploy, Cache!Tick, Cache!RunOnce, Cache!WriteChunk,
         Cache!vars
<1>4. \A t \in Tasks : at'[t] = at[t] \/ at'[t] = "upsert"
  BY <1>3 DEF Cache!Go, Cache!TypeOK, Cache!Writers
<1> QED
  BY <1>1, <1>2, <1>4, AgreementKept DEF Cache!Live, Working

(* The eviction loop.                                                      *)
LEMMA TicksStep ==
  ASSUME CacheConstants, Cache!TypeOK, Ticks, [Cache!Next]_(Cache!vars)
  PROVE  Ticks' /\ Cache!InUseKept
<1> USE DEF Cache!Files, Cache!Removers
<1>0. Cache!InUseKept
  BY DEF Cache!InUseKept, Cache!EvictDir, Ticks
<1> SUFFICES Ticks'
  BY <1>0
<1>1. CASE Cache!Tick
  <2>1. PICK used \in BOOLEAN :
          \/ evict' = [Cache!NoTick EXCEPT !.at = "run", !.seen = used /\ Named, !.held = used]
          \/ evict' = [Cache!NoTick EXCEPT !.at = "run", !.failed = TRUE, !.held = used]
    BY <1>1, Zenon DEF Cache!Tick
  <2>2. CASE evict' = [Cache!NoTick EXCEPT !.at = "run", !.seen = used /\ Named, !.held = used]
    <3>1. evict'.at = "run" /\ (evict'.held = used) /\ (evict'.seen = (used /\ Named))
      BY <2>2, Zenon DEF Cache!NoTick
    <3> QED
      BY <3>1, Zenon DEF Ticks
  <2>3. CASE evict' = [Cache!NoTick EXCEPT !.at = "run", !.failed = TRUE, !.held = used]
    <3>1. evict'.at = "run" /\ evict'.failed = TRUE
      BY <2>3, Zenon DEF Cache!NoTick
    <3> QED
      BY <3>1, Zenon DEF Ticks
  <2> QED
    BY <2>1, <2>2, <2>3
<1>2. CASE Cache!Undeploy
  <2>1. evict'.held = FALSE
    BY <1>2 DEF Cache!Undeploy, Cache!TypeOK
  <2> QED
    BY <2>1, Zenon DEF Ticks
<1>3. CASE Cache!RunOnce
  <2>1. CASE evict' = Cache!NoTick
    <3>1. evict'.at = "idle"
      BY <2>1 DEF Cache!NoTick
    <3> QED
      BY <3>1 DEF Ticks
  <2>2. CASE /\ evict.at = "run" /\ ~evict.seen
             /\ evict' = [evict EXCEPT !.at = "remove", !.id = row.id]
    <3>1. evict'.at = "remove" /\ evict'.held = evict.held /\ evict'.failed = evict.failed
      BY <2>2 DEF Cache!TypeOK
    <3> QED
      BY <2>2, <3>1, Zenon DEF Ticks
  <2> QED
    BY <1>3, <2>1, <2>2 DEF Cache!RunOnce, Cache!Candidate
<1>4. CASE Cache!EvictDir \/ Cache!EvictRow \/ Cache!Restart
  <2>1. evict'.at \in {"row", "idle"}
    <3>1. CASE Cache!EvictDir
      BY <3>1 DEF Cache!EvictDir, Cache!NoTick
    <3>2. CASE Cache!EvictRow \/ Cache!Restart
      BY <3>2 DEF Cache!EvictRow, Cache!Restart, Cache!NoTick
    <3> QED
      BY <1>4, <3>1, <3>2
  <2> QED
    BY <2>1 DEF Ticks
<1>5. CASE UNCHANGED evict
  BY <1>5, Zenon DEF Ticks
<1>6. CASE \/ Cache!AddModel \/ (\E w \in Cache!Writers : Cache!WriteChunk(w))
           \/ (\E t \in Tasks : Cache!TaskStep(t))
           \/ (\E r \in MirrorReqs : Cache!ChooseFetchSource(r) \/ Cache!ReqStep(r))
           \/ Cache!DeleteModel \/ Cache!DeleteRow \/ UNCHANGED Cache!vars
  BY <1>5, <1>6, Zenon DEF Cache!AddModel, Cache!WriteChunk, Cache!TaskStep,
       Cache!Upsert, Cache!List, Cache!FetchFile, Cache!PublishTask,
       Cache!StreamFails, Cache!Mark, Cache!Unwind, Cache!ChooseFetchSource,
       Cache!ReqStep, Cache!Lookup, Cache!Joined, Cache!PublishReq,
       Cache!ReqFails, Cache!DeleteModel, Cache!DeleteRow, Cache!vars
<1> QED
  BY <1>1, <1>2, <1>3, <1>4, <1>6 DEF Cache!Next

(* All of it is inductive, and the eviction keeps to what its query found. *)
LEMMA CachingStep ==
  ASSUME CacheConstants, Caching, [Cache!Next]_(Cache!vars) PROVE Caching' /\ Cache!InUseKept
<1>1. Cache!TypeOK'
  BY RequestTyped, TaskTyped, RemovalTyped, OtherTyped DEF Caching, Cache!Next
<1>2. Agreement'
  BY RequestAgrees, TaskAgrees, RemovalAgrees, OtherAgrees DEF Caching, Cache!Next
<1> QED
  BY <1>1, <1>2, DownloadsStep, TicksStep DEF Caching

(* The cache is sound, by the invariant Caching.                           *)
LEMMA CacheIsSafe ==
  ASSUME CacheConstants
  PROVE  Cache!Spec => [](/\ Cache!TypeOK /\ Cache!IncompleteHasCause
                          /\ Cache!CachedIsOnDisk /\ Cache!WeightsHaveRow)
                 /\ [][Cache!InUseKept]_(Cache!vars)
<1>1. ASSUME Cache!Init PROVE Caching
  <2>1. Cache!TypeOK
    BY <1>1 DEF Cache!Init, Cache!TypeOK, CacheConstants, Cache!NoRow, Cache!NoTick
  <2>2. Downloads /\ Agreement /\ Ticks
    BY <1>1 DEF Cache!Init, Downloads, Agreement, Ticks, Cache!Downloading,
         Cache!Live, Cache!NoRow, Cache!NoTick, Cache!Writers
  <2> QED
    BY <2>1, <2>2 DEF Caching
<1>2. Caching => /\ Cache!TypeOK /\ Cache!IncompleteHasCause
                 /\ Cache!CachedIsOnDisk /\ Cache!WeightsHaveRow
  BY DEF Caching, Downloads, Agreement, Cache!IncompleteHasCause,
       Cache!CachedIsOnDisk, Cache!WeightsHaveRow
<1> QED
  BY <1>1, <1>2, CachingStep, PTL DEF Cache!Spec

-----------------------------------------------------------------------------
\* API keys and the caches of what they resolve to (ApiKeys)
VARIABLES
  kind, key, clock, past, gateway, service, call, keyFaults
Key == INSTANCE ApiKeys WITH
  faults <- keyFaults, MaxChanges <- MaxKeyChanges

KeyConstants == MaxKeyChanges \in Nat /\ MaxFaults \in Nat

(* What a context says held at a change between its first and the last one *)
(* given.                                                                  *)
Ran(c, last) == \E t \in c.from .. last : past[t].running
HadToken(c, last) == c.token # Key!Nothing => \E t \in c.from .. last : past[t].token = c.token
HadPolicy(c, last) == c.policy # Key!Nothing => \E t \in c.from .. last : past[t].policy = c.policy

(* A context that is complete.                                             *)
Whole(c) ==
    /\ c \in Key!Contexts /\ c.to <= clock
    /\ Ran(c, c.to) /\ HadToken(c, c.to) /\ HadPolicy(c, c.to)
    /\ c.token = Key!Nothing => kind = "sandbox" /\ keyFaults > 0

(* A resolution under way: what it has read was so since it began.         *)
Begun == {"gateway", "verify", "deployment", "token", "policies"}

Partial(k) ==
    /\ k.at \in Begun \cup {"idle", "answer"} /\ k.context \in Key!Contexts
    /\ k = [at |-> k.at, context |-> k.context]
    /\ k.at \in Begun => k.context.from <= clock /\ k.context.policy = Key!Nothing
    /\ k.at \in Begun \ {"policies"} => k.context.token = Key!Nothing
    /\ k.at \in {"token", "policies"} => Ran(k.context, clock)
    /\ k.at = "policies" =>
          HadToken(k.context, clock) /\ (k.context.token = Key!Nothing => keyFaults > 0)
    /\ k.at = "answer" => Whole(k.context)

History ==
    /\ clock \in 0 .. MaxKeyChanges /\ past \in [0 .. MaxKeyChanges -> Key!Truths]
    /\ \A t \in 0 .. MaxKeyChanges : past[t].token <= clock + 1 /\ past[t].policy <= clock + 1

Answering ==
    /\ kind \in Kinds /\ key \in {"none", "active", "revoked"} /\ keyFaults \in 0 .. MaxFaults
    /\ History
    /\ \A c \in gateway : Whole(c)
    /\ service = [s \in Services |-> service[s]]
    /\ \A s \in Services : \A c \in service[s] : Whole(c)
    /\ call = [s \in Services |-> call[s]]
    /\ \A s \in Services : Partial(call[s])

(* What was in force stays on record.                                      *)
LEMMA RecordStays ==
  ASSUME KeyConstants, Answering, kind' = kind, keyFaults' \in Nat, keyFaults <= keyFaults',
         clock' \in 0 .. MaxKeyChanges, clock <= clock',
         \A t \in 0 .. clock : past'[t] = past[t]
  PROVE  /\ \A c : Whole(c) => Whole(c)'
         /\ \A k : Partial(k) => Partial(k)'
<1>1. clock \in 0 .. MaxKeyChanges /\ keyFaults \in Nat /\ MaxKeyChanges \in Nat
  BY DEF Answering, History, KeyConstants
<1>2. ASSUME NEW c \in Key!Contexts, NEW last \in 0 .. clock
      PROVE  /\ Ran(c, last) => Ran(c, last)' /\ Ran(c, clock)'
             /\ HadToken(c, last) => HadToken(c, last)' /\ HadToken(c, clock)'
             /\ HadPolicy(c, last) => HadPolicy(c, last)'
  <2>1. c.from \in Nat
    BY <1>1, <1>2 DEF Key!Contexts
  <2>2. \A t \in c.from .. last : t \in c.from .. clock' /\ past'[t] = past[t]
    BY <1>1, <2>1
  <2> QED
    BY <2>2 DEF Ran, HadToken, HadPolicy
<1>3. ASSUME NEW c, Whole(c) PROVE Whole(c)'
  <2>1. c \in Key!Contexts /\ c.to \in 0 .. clock
    BY <1>1, <1>3 DEF Whole, Key!Contexts
  <2> QED
    BY <1>1, <1>2, <1>3, <2>1 DEF Whole
<1>4. ASSUME NEW k, Partial(k) PROVE Partial(k)'
  <2>1. clock \in 0 .. clock
    BY <1>1
  <2>2. k.at = "answer" => Whole(k.context)'
    BY <1>3, <1>4 DEF Partial
  <2>3. k.at \in {"token", "policies"} => Ran(k.context, clock)'
    BY <1>2, <1>4, <2>1 DEF Partial, Ran
  <2>4. k.at = "policies" =>
          HadToken(k.context, clock)' /\ (k.context.token = Key!Nothing => keyFaults' > 0)
    BY <1>1, <1>2, <1>4, <2>1 DEF Partial, HadToken
  <2>5. k.at \in Begun => k.context.from <= clock'
    BY <1>1, <1>4 DEF Partial, Key!Contexts
  <2> QED
    BY <1>4, <2>2, <2>3, <2>4, <2>5 DEF Partial
<1> QED
  BY <1>3, <1>4

(* A step of one resolution keeps the others.                              *)
LEMMA ResolutionKeeps ==
  ASSUME KeyConstants, Answering, NEW s \in Services, NEW k, UNCHANGED Key!Outside,
         call' = [call EXCEPT ![s] = k], Partial(k)',
         keyFaults' \in 0 .. MaxFaults, keyFaults <= keyFaults',
         \A c \in gateway' : Whole(c) \/ Whole(c)',
         service' = [r \in Services |-> service'[r]],
         \A r \in Services : \A c \in service'[r] : Whole(c)
  PROVE  Answering'
<1>1. /\ \A c : Whole(c) => Whole(c)'
      /\ \A j : Partial(j) => Partial(j)'
  <2>1. kind' = kind /\ clock' = clock /\ past' = past /\ clock \in 0 .. MaxKeyChanges
    BY DEF Key!Outside, Answering, History
  <2>2. keyFaults' \in Nat /\ clock <= clock'
    BY <2>1 DEF KeyConstants
  <2> QED
    BY <2>1, <2>2, RecordStays
<1>2. \A r \in Services : call'[r] = IF r = s THEN k ELSE call[r]
  BY DEF Answering
<1>3. call' = [r \in Services |-> call'[r]]
  BY DEF Answering
<1>4. ASSUME NEW r \in Services PROVE Partial(call[r])'
  <2>1. CASE r = s
    BY <1>2, <2>1 DEF Partial
  <2>2. CASE r # s
    <3>1. call'[r] = call[r] /\ Partial(call[r])
      BY <1>2, <2>2 DEF Answering
    <3> HIDE DEF Partial
    <3>2. \A j : j = call'[r] => Partial(j)'
      BY <1>1, <3>1
    <3> QED
      BY <3>2 DEF Partial
  <2> QED
    BY <2>1, <2>2
<1>5. History'
  BY DEF Key!Outside, Answering, History
<1>6. kind' \in Kinds /\ key' \in {"none", "active", "revoked"}
  BY DEF Key!Outside, Answering
<1> QED
  BY <1>1, <1>3, <1>4, <1>5, <1>6 DEF Answering

(* The rows and caches of the management API.                              *)
LEMMA ManagementKeeps ==
  ASSUME KeyConstants, Answering,
         Key!CreateApiKey \/ Key!RevokeApiKey \/ Key!ContextCacheExpires
         \/ (\E s \in Services : Key!ClientCacheExpires(s)) \/ UNCHANGED Key!vars
  PROVE  Answering'
<1>1. /\ kind' = kind /\ clock' = clock /\ past' = past /\ keyFaults' = keyFaults /\ call' = call
      /\ key' \in {"none", "active", "revoked"}
      /\ gateway' \subseteq gateway
      /\ service' = [s \in Services |-> service'[s]]
      /\ \A s \in Services : service'[s] \subseteq service[s]
  BY DEF Answering, Key!CreateApiKey, Key!RevokeApiKey, Key!ContextCacheExpires,
       Key!ClientCacheExpires, Key!vars, Key!Outside
<1>2. \A c : Whole(c)' <=> Whole(c)
  BY <1>1 DEF Whole, Ran, HadToken, HadPolicy
<1>3. \A s \in Services : Partial(call[s])'
  BY <1>1, <1>2 DEF Answering, Partial, Ran, HadToken
<1>4. History'
  BY <1>1 DEF Answering, History
<1> QED
  BY <1>1, <1>2, <1>3, <1>4 DEF Answering

(* A change of what is read is put on record.                              *)
LEMMA EditKeeps ==
  ASSUME KeyConstants, Answering, NEW b \in BOOLEAN,
         NEW v \in {Key!Now.token, Key!Now.token + 1}, NEW w \in {Key!Now.policy, Key!Now.policy + 1},
         Key!Change([running |-> b, token |-> v, policy |-> w])
  PROVE  Answering'
<1> DEFINE truth == [running |-> b, token |-> v, policy |-> w]
<1>1. /\ clock \in 0 .. MaxKeyChanges /\ clock' \in 0 .. MaxKeyChanges /\ clock' = clock + 1
      /\ MaxKeyChanges \in Nat /\ keyFaults \in Nat
  BY DEF Key!Change, Answering, History, KeyConstants
<1>2. /\ past' = [t \in 0 .. MaxKeyChanges |-> IF t > clock THEN truth ELSE past[t]]
      /\ UNCHANGED <<kind, key, gateway, service, call, keyFaults>>
  BY DEF Key!Change
<1>3. \A t \in 0 .. clock : past'[t] = past[t]
  BY <1>1, <1>2
<1>4. /\ \A c : Whole(c) => Whole(c)'
      /\ \A k : Partial(k) => Partial(k)'
  BY <1>1, <1>2, <1>3, RecordStays
<1>5. History'
  <2>1. Key!Now \in Key!Truths /\ Key!Now.token <= clock + 1 /\ Key!Now.policy <= clock + 1
    BY <1>1 DEF Key!Now, Answering, History
  <2>2. truth \in Key!Truths /\ truth.token <= clock + 2 /\ truth.policy <= clock + 2
    BY <1>1, <2>1 DEF Key!Truths, Key!Versions, Key!Nothing
  <2>3. ASSUME NEW t \in 0 .. MaxKeyChanges
        PROVE  past'[t] \in Key!Truths /\ past'[t].token <= clock + 2 /\ past'[t].policy <= clock + 2
    <3>1. past'[t] = truth \/ past'[t] = past[t]
      BY <1>2
    <3>2. /\ past[t] \in Key!Truths /\ past[t].token <= clock + 1 /\ past[t].policy <= clock + 1
      BY DEF Answering, History
    <3>3. past[t].token \in Nat /\ past[t].policy \in Nat
      BY <1>1, <3>2 DEF Key!Truths, Key!Versions
    <3>4. past[t].token <= clock + 2 /\ past[t].policy <= clock + 2
      BY <1>1, <3>2, <3>3
    <3> QED
      BY <2>2, <3>1, <3>2, <3>4
  <2>4. past' \in [0 .. MaxKeyChanges -> Key!Truths]
    BY <1>2, <2>3
  <2>5. clock' + 1 = clock + 2
    BY <1>1
  <2> QED
    BY <1>1, <2>3, <2>4, <2>5 DEF History
<1>6. \A s \in Services : Partial(call[s])'
  BY <1>2, <1>4 DEF Answering, Partial
<1> QED
  BY <1>2, <1>4, <1>5, <1>6 DEF Answering

(* The steps of a resolution before its answer is complete.                *)
LEMMA ResolutionStep ==
  ASSUME KeyConstants, Answering, NEW s \in Services, Key!ResolveContext(s) \/ Key!Resolve(s)
  PROVE  Answering'
<1> SUFFICES ASSUME NEW k, k = call[s] PROVE Answering'
  OBVIOUS
<1>1. /\ Partial(k) /\ clock \in 0 .. MaxKeyChanges /\ keyFaults \in 0 .. MaxFaults
      /\ MaxKeyChanges \in Nat /\ MaxFaults \in Nat /\ keyFaults <= keyFaults
  BY DEF Answering, History, KeyConstants
<1>2. /\ k.context \in Key!Contexts
      /\ \A n \in Key!Contexts : n.from \in Nat /\ n.to \in Nat
      /\ Key!Now \in Key!Truths /\ Key!Now.token # Key!Nothing /\ Key!Now.policy # Key!Nothing
      /\ Key!Now.token \in Key!Versions /\ Key!Now.policy \in Key!Versions
      /\ Key!Nothing \in Key!Versions
  <2>1. k.context \in Key!Contexts
    BY <1>1 DEF Partial
  <2>2. \A n \in Key!Contexts : n.from \in Nat /\ n.to \in Nat
    BY <1>1 DEF Key!Contexts
  <2>3. Key!Now \in Key!Truths
    BY <1>1 DEF Key!Now, Answering, History
  <2>4. \A n \in Key!Truths : /\ n.token \in Key!Versions \ {Key!Nothing}
                             /\ n.policy \in Key!Versions \ {Key!Nothing}
    BY DEF Key!Truths
  <2>5. Key!Nothing \in Key!Versions
    BY <1>1 DEF Key!Versions, Key!Nothing
  <2> QED
    BY <2>1, <2>2, <2>3, <2>4, <2>5
<1>3. ASSUME NEW j, UNCHANGED Key!Outside, keyFaults' = keyFaults, UNCHANGED <<gateway, service>>,
             call' = [call EXCEPT ![s] = j], Partial(j)
      PROVE  Answering'
  <2>1. Partial(j)'
    BY <1>3 DEF Key!Outside, Partial, Whole, Ran, HadToken, HadPolicy
  <2> QED
    BY <1>1, <1>3, <2>1, ResolutionKeeps DEF Answering
<1>4. Partial(Key!Idle)
  BY <1>1 DEF Partial, Key!Idle, Key!Empty, Key!Contexts, Begun, Key!Versions,
       Key!Nothing
<1>5. CASE Key!ResolveContext(s)
  <2> DEFINE c == [Key!Empty EXCEPT !.from = clock]
  <2>1. c \in Key!Contexts /\ c.from = clock /\ c.policy = Key!Nothing /\ c.token = Key!Nothing
    BY <1>1 DEF Key!Empty, Key!Contexts, Key!Versions, Key!Nothing
  <2>2. call' = [call EXCEPT ![s] = [at |-> "gateway", context |-> c]]
    BY <1>5 DEF Key!ResolveContext, Key!To
  <2> HIDE DEF c
  <2>3. Partial([at |-> "gateway", context |-> c])
    BY <1>1, <2>1 DEF Partial, Begun
  <2> QED
    BY <1>3, <1>5, <2>2, <2>3, Zenon DEF Key!ResolveContext, Key!Outside
<1>6. CASE Key!ResolveInferenceContext(s)
  <2>1. k.at = "gateway" /\ UNCHANGED <<Key!Outside, keyFaults, gateway, service>>
    BY <1>6 DEF Key!ResolveInferenceContext, Key!Continue
  <2>2. CASE gateway = {}
    <3>1. call' = [call EXCEPT ![s] = [at |-> "verify", context |-> k.context]]
      BY <1>6, <2>2 DEF Key!ResolveInferenceContext, Key!Continue, Key!To
    <3>2. Partial([at |-> "verify", context |-> k.context])
      BY <1>1, <2>1 DEF Partial, Begun
    <3> QED
      BY <1>3, <2>1, <3>1, <3>2, Zenon
  <2>3. CASE gateway # {}
    <3>1. PICK c \in gateway : call' = [call EXCEPT ![s] = [at |-> "answer", context |-> c]]
      BY <1>6, <2>3 DEF Key!ResolveInferenceContext, Key!To
    <3>2. Whole(c) /\ c \in Key!Contexts
      BY DEF Answering, Whole
    <3>3. Partial([at |-> "answer", context |-> c])
      BY <3>2 DEF Partial, Begun
    <3> QED
      BY <1>3, <2>1, <3>1, <3>3, Zenon
  <2> QED
    BY <2>2, <2>3
<1>7. CASE Key!VerifyApiKey(s) \/ (kind = "sandbox" /\ Key!ResolveSandboxContext(s) /\ k.at = "verify")
  <2>1. k.at = "verify" /\ UNCHANGED <<Key!Outside, keyFaults, gateway, service>>
    BY <1>7 DEF Key!VerifyApiKey, Key!ResolveSandboxContext, Key!Continue, Key!Refuse
  <2>2. \/ call' = [call EXCEPT ![s] = Key!Idle]
        \/ call' = [call EXCEPT ![s] = [at |-> "deployment", context |-> k.context]]
    BY <1>7, <2>1 DEF Key!VerifyApiKey, Key!ResolveSandboxContext, Key!Continue,
         Key!Refuse, Key!To
  <2>3. Partial([at |-> "deployment", context |-> k.context])
    BY <1>1, <2>1 DEF Partial, Begun
  <2> QED
    BY <1>3, <1>4, <2>1, <2>2, <2>3
<1>8. CASE Key!ResolveDeployment(s)
  <2>1. k.at = "deployment" /\ UNCHANGED <<Key!Outside, keyFaults, gateway, service>>
    BY <1>8 DEF Key!ResolveDeployment, Key!Continue, Key!Refuse
  <2>2. \/ call' = [call EXCEPT ![s] = Key!Idle]
        \/ /\ Key!Serving
           /\ call' = [call EXCEPT ![s] = [at |-> "token", context |-> k.context]]
    BY <1>8 DEF Key!ResolveDeployment, Key!Continue, Key!Refuse, Key!To
  <2>3. Key!Serving => Ran(k.context, clock)
    BY <1>1, <1>2, <2>1 DEF Key!Serving, Key!Now, Ran, Partial, Begun
  <2>4. Key!Serving => Partial([at |-> "token", context |-> k.context])
    BY <1>1, <2>1, <2>3 DEF Partial, Begun
  <2> QED
    BY <1>3, <1>4, <2>1, <2>2, <2>4
<1>9. CASE Key!FetchInferenceToken(s)
  <2>1. k.at = "token" /\ UNCHANGED <<Key!Outside, gateway, service>>
    BY <1>9 DEF Key!FetchInferenceToken
  <2>2. CASE /\ keyFaults' = keyFaults
             /\ Key!To(s, "policies", [k.context EXCEPT !.token = Key!Now.token])
    <3> DEFINE c == [k.context EXCEPT !.token = Key!Now.token]
    <3>1. /\ c \in Key!Contexts /\ c.token = Key!Now.token /\ c.from = k.context.from
          /\ c.policy = k.context.policy
      BY <1>2 DEF Key!Contexts
    <3>2. call' = [call EXCEPT ![s] = [at |-> "policies", context |-> c]]
      BY <2>2 DEF Key!To
    <3> HIDE DEF c
    <3>3. HadToken(c, clock) /\ Ran(c, clock)
      <4>1. /\ k.context.from <= clock /\ k.context.from \in Nat /\ Ran(k.context, clock)
        BY <1>1, <1>2, <2>1 DEF Partial, Begun
      <4>2. clock \in c.from .. clock /\ past[clock].token = c.token
        BY <1>1, <3>1, <4>1 DEF Key!Now
      <4> QED
        BY <3>1, <4>1, <4>2 DEF HadToken, Ran
    <3>4. Partial([at |-> "policies", context |-> c])
      BY <1>1, <1>2, <2>1, <3>1, <3>3 DEF Partial, Begun
    <3> QED
      BY <1>3, <2>1, <2>2, <3>2, <3>4, Zenon
  <2>3. CASE keyFaults < MaxFaults /\ keyFaults' = keyFaults + 1 /\ Key!Continue(s, "policies")
    <3> DEFINE j == [at |-> "policies", context |-> k.context]
    <3>1. call' = [call EXCEPT ![s] = j]
      BY <2>3 DEF Key!Continue, Key!To
    <3>2. keyFaults' \in 0 .. MaxFaults /\ keyFaults' > 0 /\ keyFaults <= keyFaults'
      BY <1>1, <2>3
    <3>3. Partial(j)'
      <4>1. Partial(k)
        BY <1>1
      <4>2. Ran(k.context, clock) /\ k.context.token = Key!Nothing /\ k.context.policy = Key!Nothing
            /\ k.context.from <= clock /\ k.context \in Key!Contexts
        BY <2>1, <4>1 DEF Partial, Begun
      <4>3. clock' = clock /\ past' = past
        BY <2>1 DEF Key!Outside
      <4>4. Ran(k.context, clock)' /\ HadToken(k.context, clock)'
        BY <4>2, <4>3 DEF Ran, HadToken
      <4> QED
        BY <3>2, <4>2, <4>3, <4>4 DEF Partial, Begun
    <3> QED
      BY <1>1, <2>1, <3>1, <3>2, <3>3, ResolutionKeeps DEF Answering
  <2> QED
    BY <1>9, <2>2, <2>3 DEF Key!FetchInferenceToken
<1>10. CASE /\ k.at = "policies" /\ UNCHANGED <<Key!Outside, keyFaults>>
            /\ \/ call' = [call EXCEPT ![s] = Key!Idle] /\ UNCHANGED <<gateway, service>>
               \/ \E p \in {Key!Nothing, Key!Now.policy} :
                    /\ k.context.token = Key!Nothing => kind = "sandbox"
                    /\ Key!Complete(s, [k.context EXCEPT !.to = clock, !.policy = p])
  <2>1. CASE call' = [call EXCEPT ![s] = Key!Idle] /\ UNCHANGED <<gateway, service>>
    BY <1>3, <1>4, <1>10, <2>1, Zenon
  <2>2. ASSUME NEW p \in {Key!Nothing, Key!Now.policy}, k.context.token = Key!Nothing => kind = "sandbox",
               Key!Complete(s, [k.context EXCEPT !.to = clock, !.policy = p])
        PROVE  Answering'
    <3> PICK c : c = [k.context EXCEPT !.to = clock, !.policy = p]
      OBVIOUS
    <3>1. /\ c \in Key!Contexts /\ c.token = k.context.token /\ c.from = k.context.from
          /\ c.policy = p /\ c.to = clock
      BY <1>1, <1>2, Zenon DEF Key!Contexts
    <3>2. /\ call' = [call EXCEPT ![s] = [at |-> "answer", context |-> c]]
          /\ gateway' = {c} /\ service' = service
      BY <2>2 DEF Key!Complete, Key!To
    <3>3. Ran(k.context, clock) /\ HadToken(k.context, clock) /\ k.context.from <= clock
          /\ (k.context.token = Key!Nothing => keyFaults > 0)
      BY <1>1, <1>10 DEF Partial, Begun
    <3>4. Ran(c, clock) /\ HadToken(c, clock) /\ HadPolicy(c, clock)
      <4>1. clock \in c.from .. clock /\ past[clock].policy = Key!Now.policy
        BY <1>1, <1>2, <3>1, <3>3 DEF Key!Now
      <4> QED
        BY <2>2, <3>1, <3>3, <4>1 DEF Ran, HadToken, HadPolicy
    <3>5. Whole(c)
      BY <1>1, <2>2, <3>1, <3>3, <3>4 DEF Whole
    <3>6. Partial([at |-> "answer", context |-> c])
      BY <3>1, <3>5 DEF Partial, Begun
    <3>7. Partial([at |-> "answer", context |-> c])'
      BY <1>10, <3>6 DEF Key!Outside, Partial, Whole, Ran, HadToken, HadPolicy, Begun
    <3> QED
      BY <1>1, <1>10, <3>2, <3>5, <3>7, ResolutionKeeps, Zenon DEF Answering
  <2> QED
    BY <1>10, <2>1, <2>2
<1>11. CASE Key!ApplyPolicies(s)
  BY <1>10, <1>11 DEF Key!ApplyPolicies, Key!Refuse
<1>12. CASE Key!ResolveSandboxContext(s)
  <2>1. CASE k.at = "verify"
    BY <1>7, <1>12, <2>1 DEF Key!ResolveSandboxContext
  <2>2. CASE k.at # "verify"
    <3>1. k.at = "policies" /\ kind = "sandbox" /\ UNCHANGED <<Key!Outside, keyFaults>>
          /\ Key!Complete(s, [k.context EXCEPT !.to = clock])
      BY <1>12, <2>2 DEF Key!ResolveSandboxContext
    <3>2. k.context.policy = Key!Nothing
      BY <1>1, <3>1 DEF Partial, Begun
    <3>3. [k.context EXCEPT !.to = clock] = [k.context EXCEPT !.to = clock, !.policy = Key!Nothing]
      BY <1>2, <3>2, Zenon DEF Key!Contexts
    <3> QED
      BY <1>10, <3>1, <3>3
  <2> QED
    BY <2>1, <2>2
<1>13. CASE Key!ResolveContextUncached(s)
  <2>1. k.at = "answer" /\ UNCHANGED <<Key!Outside, gateway, keyFaults>>
        /\ call' = [call EXCEPT ![s] = Key!Idle] /\ service' = [service EXCEPT ![s] = {k.context}]
    BY <1>13 DEF Key!ResolveContextUncached
  <2>2. Whole(k.context)
    BY <1>1, <2>1 DEF Partial
  <2>3. /\ service' = [r \in Services |-> service'[r]]
        /\ \A r \in Services : \A c \in service'[r] : Whole(c)
    BY <2>1, <2>2 DEF Answering
  <2>4. Partial(Key!Idle)'
    BY <1>4, <2>1 DEF Key!Outside, Partial, Whole, Ran, HadToken, HadPolicy,
         Key!Idle, Key!Empty, Begun
  <2> QED
    BY <1>1, <2>1, <2>3, <2>4, ResolutionKeeps, Zenon DEF Answering
<1> QED
  BY <1>5, <1>6, <1>7, <1>8, <1>9, <1>11, <1>12, <1>13 DEF Key!Resolve

(* What is cached for a key was in force while it was resolved.            *)
LEMMA KeyIsSafe ==
  ASSUME KeyConstants PROVE Key!Spec => [](Key!TypeOK /\ Key!ContextWasInForce)
<1>1. ASSUME Key!Init PROVE Answering
  <2>1. History
    BY <1>1 DEF Key!Init, History, KeyConstants, Key!Truths, Key!Versions, Key!Nothing
  <2>2. Partial(Key!Idle)
    BY <1>1 DEF Key!Init, KeyConstants, Partial, Key!Idle, Key!Empty, Key!Contexts,
         Begun, Key!Versions, Key!Nothing
  <2> QED
    BY <1>1, <2>1, <2>2 DEF Key!Init, Answering, KeyConstants
<1>2. ASSUME Answering, [Key!Next]_(Key!vars) PROVE Answering'
  <2>1. CASE Key!UpdateConfig \/ Key!DeleteDeployment \/ Key!Edit
    <3>1. Key!Now \in Key!Truths
      BY <1>2 DEF Key!Now, Answering, History
    <3>2. PICK n \in Key!Truths : n = Key!Now
      BY <3>1
    <3>3. \/ Key!Change([n EXCEPT !.policy = n.policy + 1])
          \/ Key!Change([n EXCEPT !.running = FALSE])
          \/ Key!Change([n EXCEPT !.running = ~n.running])
          \/ Key!Change([n EXCEPT !.token = n.token + 1])
      BY <2>1, <3>2, Zenon DEF Key!UpdateConfig, Key!DeleteDeployment, Key!Edit
    <3>4. \A b : [n EXCEPT !.running = b] = [running |-> b, token |-> n.token, policy |-> n.policy]
      BY DEF Key!Truths
    <3>5. /\ [n EXCEPT !.policy = n.policy + 1]
              = [running |-> n.running, token |-> n.token, policy |-> n.policy + 1]
          /\ [n EXCEPT !.token = n.token + 1]
              = [running |-> n.running, token |-> n.token + 1, policy |-> n.policy]
          /\ n.running \in BOOLEAN
      BY DEF Key!Truths
    <3>6. PICK b \in BOOLEAN, v \in {n.token, n.token + 1}, w \in {n.policy, n.policy + 1} :
            Key!Change([running |-> b, token |-> v, policy |-> w])
      <4>1. (~n.running) \in BOOLEAN
        BY Zenon
      <4> QED
        BY <3>3, <3>4, <3>5, <4>1, Zenon
    <3> QED
      BY <1>2, <3>2, <3>6, EditKeeps, Zenon
  <2> QED
    BY <1>2, <2>1, ManagementKeeps, ResolutionStep DEF Key!Next
<1>3. Answering => Key!TypeOK /\ Key!ContextWasInForce
  <2> SUFFICES ASSUME Answering PROVE Key!TypeOK /\ Key!ContextWasInForce
    OBVIOUS
  <2>1. \A c \in Key!Cached : Whole(c)
    BY DEF Answering, Key!Cached
  <2>2. Key!ContextWasInForce
    BY <2>1 DEF Key!ContextWasInForce, Whole, Ran, HadToken, HadPolicy
  <2>3. gateway \subseteq Key!Contexts /\ service \in [Services -> SUBSET Key!Contexts]
    BY DEF Answering, Whole
  <2>4. ASSUME NEW s \in Services
        PROVE  call[s] \in [at : {"idle", "gateway", "verify", "deployment", "token",
                                 "policies", "answer"}, context : Key!Contexts]
    <3>1. PICK k : k = call[s]
      OBVIOUS
    <3>2. /\ k.at \in Begun \cup {"idle", "answer"} /\ k.context \in Key!Contexts
          /\ k = [at |-> k.at, context |-> k.context]
      BY <3>1 DEF Answering, Partial
    <3> QED
      BY <3>1, <3>2 DEF Begun
  <2> QED
    BY <2>2, <2>3, <2>4 DEF Answering, History, Key!TypeOK
<1> QED
  BY <1>1, <1>2, <1>3, PTL DEF Key!Spec

-----------------------------------------------------------------------------
\* The permissions of a bearer token (TokenContext)
VARIABLES
  roleOf, perms, tokenCache, tokenReq, changes
Token == INSTANCE TokenContext WITH
  cache <- tokenCache, req <- tokenReq

TokenConstants == MaxChanges \in Nat

TokenRequest == [at : {"idle", "perms", "store"}, role : Token!Roles \cup {"none"},
                 saw : Token!Grant, held : SUBSET Token!Grant, torn : BOOLEAN]

(* A request that resolves the token has noted what the caller is entitled *)
(* to now; the role it read is the caller's, unless the membership has     *)
(* changed.                                                                *)
Noted(k) ==
  /\ k \in TokenRequest
  /\ k.at # "idle" => Token!Live \in k.held
  /\ k.at = "perms" => k.role \in Token!Roles /\ (k.role = roleOf \/ k.torn)
  /\ k.at = "store" => k.saw \in k.held \/ k.torn

Authorising ==
  /\ roleOf \in Token!Roles /\ perms \in [Token!Roles -> Token!Grant \cup {"absent"}]
  /\ tokenCache \in Token!Grant \cup {"none"} /\ changes \in 0 .. MaxChanges
  /\ tokenReq = [r \in Reqs |-> tokenReq[r]]
  /\ \A r \in Reqs : Noted(tokenReq[r])

(* A role grants something of what there is to grant.                      *)
LEMMA LiveTyped ==
  ASSUME Authorising
  PROVE  Token!Live \in Token!Grant /\ \A r \in Token!Roles : Token!Granted(r) \in Token!Grant
  BY DEF Authorising, Token!Live, Token!Granted, Token!Grant

(* A step of one request keeps the others.                                 *)
LEMMA TokenRequestKeeps ==
  ASSUME Authorising, NEW r \in Reqs, NEW k, Noted(k), tokenReq' = [tokenReq EXCEPT ![r] = k],
         UNCHANGED <<roleOf, perms, changes>>, tokenCache' \in Token!Grant \cup {"none"}
  PROVE  Authorising'
<1>1. \A q \in Reqs : tokenReq'[q] = IF q = r THEN k ELSE tokenReq[q]
  BY DEF Authorising
<1>2. tokenReq' = [q \in Reqs |-> tokenReq'[q]]
  BY DEF Authorising
<1>3. ASSUME NEW q \in Reqs PROVE Noted(tokenReq[q])' 
  <2>1. Noted(tokenReq'[q])
    BY <1>1 DEF Authorising
  <2> QED
    BY <2>1 DEF Noted, Token!Live, Token!Granted
<1> QED
  BY <1>2, <1>3 DEF Authorising

(* The administrator's change is told to every request in flight.          *)
LEMMA ChangeKeeps ==
  ASSUME TokenConstants, Authorising, NEW role \in Token!Roles,
         NEW granted \in [Token!Roles -> Token!Grant \cup {"absent"}], Token!Change(role, granted)
  PROVE  Authorising'
<1> DEFINE now == IF granted[role] = "absent" THEN "plain" ELSE granted[role]
<1>1. now \in Token!Grant
  BY DEF Token!Grant
<1>2. Token!Live' = now
  BY Zenon DEF Token!Change, Token!Live, Token!Granted
<1>3. /\ roleOf' = role /\ perms' = granted /\ tokenCache' = tokenCache
      /\ changes' \in 0 .. MaxChanges
  <2>1. /\ roleOf' = role /\ perms' = granted /\ tokenCache' = tokenCache
        /\ changes < MaxChanges /\ changes' = changes + 1
    BY Zenon DEF Token!Change
  <2> QED
    BY <2>1 DEF Authorising, TokenConstants
<1>4. /\ tokenReq' = [r \in Reqs |-> tokenReq'[r]]
      /\ \A r \in Reqs : tokenReq'[r] =
           IF tokenReq[r].at = "idle" THEN tokenReq[r]
           ELSE [tokenReq[r] EXCEPT !.held = @ \cup {now},
                   !.torn = @ \/ (role # roleOf /\ tokenReq[r].at = "perms")]
  BY Zenon DEF Token!Change
<1> HIDE DEF now
<1>5. ASSUME NEW r \in Reqs PROVE Noted(tokenReq[r])'
  <2> DEFINE k == tokenReq[r]
  <2>1. Noted(k)
    BY DEF Authorising
  <2>2. CASE k.at = "idle"
    <3>1. tokenReq'[r] = k
      BY <1>4, <2>2, Zenon
    <3> QED
      BY <2>1, <2>2, <3>1 DEF Noted
  <2>3. CASE k.at # "idle"
    <3> DEFINE t == k.torn \/ (role # roleOf /\ k.at = "perms")
    <3>2. t \in BOOLEAN /\ tokenReq'[r] = [k EXCEPT !.held = k.held \cup {now}, !.torn = t]
      BY <1>4, <2>3, Zenon
    <3>1. /\ tokenReq'[r] \in TokenRequest /\ tokenReq'[r].at = k.at /\ tokenReq'[r].role = k.role
          /\ tokenReq'[r].saw = k.saw /\ tokenReq'[r].held = k.held \cup {now}
          /\ tokenReq'[r].torn = t
      <4> HIDE DEF t, k
      <4>1. k \in TokenRequest /\ k.held \cup {now} \in SUBSET Token!Grant
        BY <1>1, <2>1 DEF Noted, TokenRequest
      <4> QED
        BY <3>2, <4>1, Zenon DEF TokenRequest
    <3>3. k.at = "perms" => k.role \in Token!Roles /\ (k.role = role \/ t)
      BY <2>1 DEF Noted
    <3>4. k.at = "store" => k.saw \in k.held \cup {now} \/ t
      BY <2>1 DEF Noted
    <3> HIDE DEF t, k
    <3> QED
      BY <1>2, <1>3, <3>1, <3>3, <3>4 DEF Noted
  <2> QED
    BY <2>2, <2>3
<1> QED
  BY <1>3, <1>4, <1>5, Zenon DEF Authorising

(* Every step of a request or of an administrator keeps the record.        *)
LEMMA AuthorisingStep ==
  ASSUME TokenConstants, Authorising, [Token!Next]_(Token!vars) PROVE Authorising'
<1>1. CASE UNCHANGED Token!vars
  BY <1>1 DEF Token!vars, Authorising, Noted, Token!Live, Token!Granted
<1>2. ASSUME NEW r \in Reqs, Token!GetCurrentUser(r) PROVE Authorising'
  <2> DEFINE k == [Token!NoRequest EXCEPT !.at = "perms", !.role = roleOf, !.held = {Token!Live}]
  <2>1. /\ k \in TokenRequest /\ k.at = "perms" /\ k.role = roleOf /\ k.held = {Token!Live}
    BY LiveTyped, Zenon DEF Authorising, TokenRequest, Token!NoRequest, Token!Grant
  <2>2. tokenReq' = [tokenReq EXCEPT ![r] = k] /\ UNCHANGED <<roleOf, perms, tokenCache, changes>>
    BY <1>2 DEF Token!GetCurrentUser
  <2> HIDE DEF k
  <2>3. Noted(k)
    BY <2>1 DEF Noted, Authorising
  <2> QED
    BY <2>2, <2>3, TokenRequestKeeps DEF Authorising
<1>3. ASSUME NEW r \in Reqs, Token!ResolveLocalToken(r) PROVE Authorising'
  <2> DEFINE k == [tokenReq[r] EXCEPT !.at = "store", !.saw = Token!Granted(tokenReq[r].role)]
  <2>1. Noted(tokenReq[r]) /\ tokenReq[r].at = "perms"
    BY <1>3 DEF Token!ResolveLocalToken, Authorising
  <2>2. tokenReq' = [tokenReq EXCEPT ![r] = k] /\ UNCHANGED <<roleOf, perms, tokenCache, changes>>
    BY <1>3, <2>1, Zenon DEF Token!ResolveLocalToken, Noted, TokenRequest, Authorising
  <2>3. Token!Granted(tokenReq[r].role) \in Token!Grant
    BY <2>1 DEF Authorising, Token!Granted, Token!Grant, Noted, TokenRequest
  <2>4. /\ k \in TokenRequest /\ k.at = "store" /\ k.saw = Token!Granted(tokenReq[r].role)
        /\ k.held = tokenReq[r].held /\ k.torn = tokenReq[r].torn
    BY <2>1, <2>3, Zenon DEF Noted, TokenRequest
  <2> HIDE DEF k
  <2>5. Noted(k)
    BY <2>1, <2>4 DEF Noted, Token!Live
  <2> QED
    BY <2>2, <2>5, TokenRequestKeeps DEF Authorising
<1>4. ASSUME NEW r \in Reqs, Token!StoreContext(r) PROVE Authorising'
  <2>1. Noted(Token!NoRequest)
    BY DEF Noted, Token!NoRequest, TokenRequest, Token!Grant
  <2>2. tokenCache' \in Token!Grant
    BY <1>4 DEF Token!StoreContext, Authorising, Noted, TokenRequest
  <2> QED
    BY <1>4, <2>1, <2>2, TokenRequestKeeps, Zenon DEF Token!StoreContext
<1>5. CASE Token!TtlExpires
  BY <1>5 DEF Token!TtlExpires, Authorising, Noted, Token!Live, Token!Granted
<1>6. CASE Token!UpdateUserRole
  BY <1>6, ChangeKeeps DEF Token!UpdateUserRole, Authorising
<1>7. CASE Token!CreateRole \/ Token!UpdateRole \/ Token!DeleteRole
  <2>1. PICK r \in Token!Roles, p \in Token!Grant \cup {"absent"} :
          Token!Change(roleOf, [perms EXCEPT ![r] = p])
    BY <1>7, Zenon DEF Token!CreateRole, Token!UpdateRole, Token!DeleteRole, Token!Roles
  <2>2. [perms EXCEPT ![r] = p] \in [Token!Roles -> Token!Grant \cup {"absent"}]
    BY DEF Authorising
  <2> QED
    BY <2>1, <2>2, ChangeKeeps, Zenon DEF Authorising
<1> QED
  BY <1>1, <1>2, <1>3, <1>4, <1>5, <1>6, <1>7 DEF Token!Next, Token!Request

(* What is cached for a token was true while it was resolved.              *)
LEMMA TokenIsSafe ==
  ASSUME TokenConstants PROVE Token!Spec => [](Token!TypeOK /\ Token!ContextWasTrue)
<1>1. ASSUME Token!Init PROVE Authorising
  <2>1. Noted(Token!NoRequest)
    BY DEF Noted, Token!NoRequest, TokenRequest, Token!Grant
  <2>2. /\ roleOf \in Token!Roles /\ perms \in [Token!Roles -> Token!Grant \cup {"absent"}]
        /\ tokenCache \in Token!Grant \cup {"none"} /\ changes \in 0 .. MaxChanges
    BY <1>1 DEF Token!Init, Token!Roles, Token!Grant, TokenConstants
  <2> QED
    BY <1>1, <2>1, <2>2 DEF Token!Init, Authorising
<1>2. Authorising => Token!TypeOK /\ Token!ContextWasTrue
  <2>1. Authorising => tokenReq \in [Reqs -> TokenRequest]
    BY DEF Authorising, Noted
  <2> QED
    BY <2>1 DEF Authorising, Noted, Token!TypeOK, Token!ContextWasTrue, TokenRequest
<1> QED
  BY <1>1, <1>2, AuthorisingStep, PTL DEF Token!Spec

-----------------------------------------------------------------------------
(* Constants of the three components, as the code gives them.              *)
ASSUME ServingAssumption == CacheConstants /\ KeyConstants /\ TokenConstants

\* The model cache: a file under its final name is incomplete only after
\* overlapping downloads; but for a raced or failed removal a cached row has
\* its weights and the weights have a row.
CacheSound ==
  /\ Cache!TypeOK
  /\ Cache!IncompleteHasCause
  /\ Cache!CachedIsOnDisk
  /\ Cache!WeightsHaveRow

\* Eviction keeps a model that a deployment uses.
ModelsInUseKept == [][Cache!InUseKept]_(Cache!vars)

\* The cached contexts of keys and tokens: what one says was in force while
\* it was resolved.
ContextsTrue ==
  /\ Key!TypeOK
  /\ Key!ContextWasInForce
  /\ Token!TypeOK
  /\ Token!ContextWasTrue

(* Rows and files of the model cache, for any number of tasks, mirror      *)
(* requests and faults.                                                    *)
THEOREM CacheIsSound == Cache!Spec => []CacheSound
<1>1. /\ Cache!TypeOK /\ Cache!IncompleteHasCause
      /\ Cache!CachedIsOnDisk /\ Cache!WeightsHaveRow
      => CacheSound
  BY DEF CacheSound
<1> QED
  BY <1>1, ServingAssumption, CacheIsSafe, PTL

(* No pass of the eviction loop removes a model that was in use when its   *)
(* query was answered and still is.                                        *)
THEOREM ModelsAreKept == Cache!Spec => ModelsInUseKept
  BY ServingAssumption, CacheIsSafe DEF ModelsInUseKept

(* What the caches of the gateway and of the inference services answer for *)
(* a key or a token was so at a moment of its resolution, for any number   *)
(* of services, requests and changes.                                      *)
THEOREM ContextsAreTrue == Key!Spec /\ Token!Spec => []ContextsTrue
<1>1. /\ Key!TypeOK /\ Key!ContextWasInForce
      /\ Token!TypeOK /\ Token!ContextWasTrue
      => ContextsTrue
  BY DEF ContextsTrue
<1>2. Key!Spec => [](Key!TypeOK /\ Key!ContextWasInForce)
  BY ServingAssumption, KeyIsSafe
<1>3. Token!Spec => [](Token!TypeOK /\ Token!ContextWasTrue)
  BY ServingAssumption, TokenIsSafe
<1> QED
  BY <1>1, <1>2, <1>3, PTL
=============================================================================

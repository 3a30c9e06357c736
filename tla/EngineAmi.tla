------------------------------ MODULE EngineAmi -----------------------------
(***************************************************************************)
(* Machine images with the engine pre-pulled (admin_engine_ami.py,         *)
(* engine_ami_bake.py): a thread launches a builder instance, runs a       *)
(* script on it, images it and terminates it; the reaper terminates        *)
(* builders older than thirty minutes; preflight picks the newest          *)
(* available image for a GPU node (providers/pulumi/ami.py).               *)
(* A bake is its number; what AWS holds outlives the control plane, the    *)
(* status records and the cached lookup do not.                            *)
(***************************************************************************)
EXTENDS Naturals, Sequences, SequencesExt

CONSTANTS Bakes,       \* 1 .. n, one builder and one image each
          MaxFaults    \* bound on failed calls and on restarts

NoBake == 0

VARIABLES
    step,      \* the bake thread
    known,     \* the thread knows its builder
    builder,   \* the EC2 instance
    old,       \* builders launched more than thirty minutes ago
    pulled,    \* builders that hold the engine image
    image,     \* the AMI
    created,   \* bakes with an AMI, oldest first
    record,    \* the status kept in memory
    inUse,     \* the region has a pool or a node
    cached,    \* the lookup's cached answer: {} or {bake or NoBake}
    launch,    \* the image the last preflight chose, NoBake the stock one
    faults,
    excused    \* bakes an AWS call failed or lost the answer of
aws == <<builder, old, pulled, image, created>>
vars == <<step, known, aws, record, inUse, cached, launch, faults, excused>>

Steps == {"idle", "launch", "online", "command", "stop", "create", "tag", "wait",
          "failed", "succeeded", "ended"}
Live == {"running", "stopped"}
NoImage == [tagged |-> FALSE, state |-> "none", complete |-> FALSE]

TypeOK ==
    /\ step \in [Bakes -> Steps] /\ known \subseteq Bakes
    /\ builder \in [Bakes -> Live \cup {"none", "terminated"}]
    /\ old \subseteq Bakes /\ pulled \subseteq Bakes
    /\ \A b \in Bakes : /\ image[b].tagged \in BOOLEAN /\ image[b].complete \in BOOLEAN
                        /\ image[b].state \in {"none", "pending", "available"}
    /\ created \in Seq(Bakes)
    /\ record \in [Bakes -> {"none", "running", "failed", "succeeded"}]
    /\ inUse \in BOOLEAN /\ cached \subseteq Bakes \cup {NoBake}
    /\ launch \in Bakes \cup {NoBake}
    /\ faults \in 0 .. MaxFaults /\ excused \subseteq Bakes

Init ==
    /\ step = [b \in Bakes |-> "idle"] /\ known = {}
    /\ builder = [b \in Bakes |-> "none"] /\ old = {} /\ pulled = {}
    /\ image = [b \in Bakes |-> NoImage] /\ created = <<>>
    /\ record = [b \in Bakes |-> "none"]
    /\ inUse \in BOOLEAN /\ cached = {}
    /\ launch = NoBake
    /\ faults = 0 /\ excused = {}

Goto(b, s) == step' = [step EXCEPT ![b] = s]
Become(b, s) == builder' = [builder EXCEPT ![b] = s]
Rest == <<inUse, cached, launch>>

-----------------------------------------------------------------------------
(* The bake.  Any call may fail; a failure goes to the finally clause.     *)

Fails(b) ==
    /\ faults < MaxFaults /\ faults' = faults + 1
    /\ excused' = excused \cup {b} /\ Goto(b, "failed")
Succeeds == UNCHANGED <<faults, excused>>

(* The record is made before the task starts; no credentials and no        *)
(* instance profile are failures of the thread.                            *)
StartBake(b) ==
    /\ step[b] = "idle" /\ \A c \in Bakes : c < b => step[c] # "idle"
    /\ record' = [record EXCEPT ![b] = "running"]
    /\ step' \in {[step EXCEPT ![b] = "launch"], [step EXCEPT ![b] = "failed"]}
    /\ UNCHANGED <<known, aws, Rest, faults, excused>>

(* run_instances: launched, refused, or launched with the answer lost.     *)
LaunchBuilder(b) ==
    /\ step[b] = "launch"
    /\ \/ Goto(b, "online") /\ known' = known \cup {b} /\ Become(b, "running") /\ Succeeds
       \/ Fails(b) /\ UNCHANGED <<known, builder>>
       \/ Fails(b) /\ Become(b, "running") /\ UNCHANGED known
    /\ UNCHANGED <<old, pulled, image, created, record, Rest>>

(* It must come up and register with SSM within five minutes.              *)
AwaitOnline(b) ==
    /\ step[b] = "online"
    /\ \/ builder[b] = "running" /\ Goto(b, "command") /\ Succeeds
       \/ builder[b] # "running" /\ Goto(b, "failed") /\ Succeeds
       \/ Fails(b)
    /\ UNCHANGED <<known, aws, record, Rest>>

(* A mutant of WaitSsm: a script that failed goes unnoticed.               *)
WaitSsmAny(b) ==
    /\ step[b] = "command"
    /\ \E ok \in BOOLEAN : pulled' = IF ok THEN pulled \cup {b} ELSE pulled
    /\ Goto(b, "stop") /\ Succeeds
    /\ UNCHANGED <<known, builder, old, image, created, record, Rest>>

(* The script is polled to a final status or for half an hour.             *)
WaitSsm(b) ==
    /\ step[b] = "command"
    /\ \/ /\ builder[b] = "running"
          /\ pulled' = pulled \cup {b} /\ Goto(b, "stop") /\ Succeeds
       \/ builder[b] # "running" /\ Goto(b, "failed") /\ Succeeds /\ UNCHANGED pulled
       \/ Fails(b) /\ UNCHANGED pulled
    /\ UNCHANGED <<known, builder, old, image, created, record, Rest>>

StopBuilder(b) ==
    /\ step[b] = "stop"
    /\ \/ /\ builder[b] = "running"
          /\ Become(b, "stopped") /\ Goto(b, "create") /\ Succeeds
       \/ builder[b] # "running" /\ Goto(b, "failed") /\ Succeeds /\ UNCHANGED builder
       \/ Fails(b) /\ UNCHANGED builder
    /\ UNCHANGED <<known, old, pulled, image, created, record, Rest>>

(* create_image answers at once; the snapshot is taken in the background.  *)
CreateImage(b) ==
    /\ step[b] = "create"
    /\ LET make == /\ image' = [image EXCEPT ![b].state = "pending",
                                             ![b].complete = b \in pulled]
                   /\ created' = Append(created, b) IN
       \/ builder[b] = "stopped" /\ make /\ Goto(b, "tag") /\ Succeeds
       \/ builder[b] # "stopped" /\ Goto(b, "failed") /\ Succeeds /\ UNCHANGED <<image, created>>
       \/ Fails(b) /\ UNCHANGED <<image, created>>
       \/ builder[b] = "stopped" /\ make /\ Fails(b)
    /\ UNCHANGED <<known, builder, old, pulled, record, Rest>>

(* A mutant of CreateTags: an image still being made cannot be tagged.     *)
CreateTagsLate(b) ==
    /\ step[b] = "tag"
    /\ \/ /\ image[b].state = "available"
          /\ image' = [image EXCEPT ![b].tagged = TRUE] /\ Goto(b, "wait")
       \/ image[b].state = "pending" /\ Goto(b, "failed") /\ UNCHANGED image
    /\ Succeeds
    /\ UNCHANGED <<known, builder, old, pulled, created, record, Rest>>

CreateTags(b) ==
    /\ step[b] = "tag"
    /\ \/ image' = [image EXCEPT ![b].tagged = TRUE] /\ Goto(b, "wait") /\ Succeeds
       \/ Fails(b) /\ UNCHANGED image
    /\ UNCHANGED <<known, builder, old, pulled, created, record, Rest>>

(* A mutant of AwaitImage: success is reported while the image is made.    *)
AwaitNothing(b) ==
    /\ step[b] = "wait" /\ Goto(b, "succeeded") /\ Succeeds
    /\ UNCHANGED <<known, aws, record, Rest>>

(* The waiter gives up after forty minutes. *)
AwaitImage(b) ==
    /\ step[b] = "wait"
    /\ \/ image[b].state = "available" /\ Goto(b, "succeeded") /\ Succeeds
       \/ Fails(b)
    /\ UNCHANGED <<known, aws, record, Rest>>

(* The task's coroutine sets the status the thread ended with.             *)
Report(b) == record' = [record EXCEPT ![b] = step[b]]

(* The finally clause terminates the builder it knows, best effort; then   *)
(* the record is set.                                                      *)
Finish(b) ==
    /\ step[b] \in {"failed", "succeeded"} /\ Report(b)
    /\ \/ b \in known /\ Become(b, "terminated") /\ Goto(b, "ended") /\ Succeeds
       \/ b \notin known /\ Goto(b, "ended") /\ Succeeds /\ UNCHANGED builder
       \/ /\ b \in known /\ faults < MaxFaults /\ faults' = faults + 1
          /\ excused' = excused \cup {b} /\ Goto(b, "ended") /\ UNCHANGED builder
    /\ UNCHANGED <<known, old, pulled, image, created, Rest>>

-----------------------------------------------------------------------------
(* The reaper *)

(* A mutant of Stale: only running builders are reclaimed.                 *)
StaleRunning(b) == b \in old /\ builder[b] = "running"

Stale(b) == b \in old /\ builder[b] \in Live

(* Regions without a pool or a node are not swept.                         *)
ReapStaleBuilders ==
    /\ inUse /\ \E b \in Bakes : Stale(b)
    /\ \/ /\ builder' = [b \in Bakes |-> IF Stale(b) THEN "terminated" ELSE builder[b]]
          /\ UNCHANGED faults
       \/ faults < MaxFaults /\ faults' = faults + 1 /\ UNCHANGED builder
    /\ UNCHANGED <<step, known, old, pulled, image, created, record, Rest, excused>>

-----------------------------------------------------------------------------
(* Preflight of a GPU node *)

Available == SelectSeq(created, LAMBDA b : image[b].tagged /\ image[b].state = "available")
Newest == IF Available = <<>> THEN NoBake ELSE Last(Available)

(* A cached answer serves for five minutes; a failed lookup means the      *)
(* stock image and is not cached.                                          *)
FindEngineAmi(ami) ==
    \/ cached # {} /\ ami \in cached /\ UNCHANGED <<cached, faults>>
    \/ cached = {} /\ ami = Newest /\ cached' = {ami} /\ UNCHANGED faults
    \/ /\ cached = {} /\ ami = NoBake /\ faults < MaxFaults
       /\ faults' = faults + 1 /\ UNCHANGED cached

ResolveAmi ==
    \E ami \in Bakes \cup {NoBake} :
        /\ FindEngineAmi(ami)
        /\ launch' = ami
        /\ UNCHANGED <<step, known, aws, record, inUse, excused>>

CacheExpires ==
    /\ cached # {} /\ cached' = {}
    /\ UNCHANGED <<step, known, aws, record, inUse, launch, faults, excused>>

-----------------------------------------------------------------------------
(* AWS, the clock, the operator and the process *)

ImageReady(b) ==
    /\ image[b].state = "pending"
    /\ image' = [image EXCEPT ![b].state = "available"]
    /\ UNCHANGED <<step, known, builder, old, pulled, created, record, Rest, faults, excused>>

(* A bake may take more than thirty minutes: fifteen to come online,       *)
(* thirty for the script, forty for the image.                             *)
Age(b) ==
    /\ builder[b] \in Live /\ b \notin old /\ step[b] # "online"
    /\ old' = old \cup {b}
    /\ UNCHANGED <<step, known, builder, pulled, image, created, record, Rest, faults, excused>>

(* A control plane restart ends the threads and empties the memory.        *)
Restart ==
    /\ faults < MaxFaults /\ faults' = faults + 1
    /\ step' = [b \in Bakes |-> IF step[b] = "idle" THEN "idle" ELSE "ended"]
    /\ excused' = excused \cup {b \in Bakes : step[b] \notin {"idle", "ended"}}
    /\ record' = [b \in Bakes |-> "none"] /\ cached' = {} /\ known' = {}
    /\ UNCHANGED <<aws, inUse, launch>>

Thread(b) ==
    LaunchBuilder(b) \/ AwaitOnline(b) \/ WaitSsm(b) \/ StopBuilder(b) \/ CreateImage(b)
    \/ CreateTags(b) \/ AwaitImage(b) \/ Finish(b)

Aws(b) == ImageReady(b) \/ Age(b)

Next ==
    \/ \E b \in Bakes : StartBake(b) \/ Thread(b) \/ Aws(b)
    \/ ReapStaleBuilders \/ ResolveAmi \/ CacheExpires \/ Restart

Spec == Init /\ [][Next]_vars

(* Threads, the reaper's loop, AWS and the clock go on.                    *)
Fairness ==
    /\ \A b \in Bakes : WF_vars(Thread(b)) /\ WF_vars(Aws(b))
    /\ WF_vars(ReapStaleBuilders)

FairSpec == Spec /\ Fairness

-----------------------------------------------------------------------------
(* A node is launched from the stock image or from one that holds the      *)
(* engine, however its bake ended.                                         *)
LaunchIsSound == launch # NoBake => image[launch].complete

(* A bake that reports success left an image that preflight can find.      *)
SuccessIsAvailable ==
    \A b \in Bakes : record[b] = "succeeded" =>
        image[b].tagged /\ image[b].state = "available"

(* An image nobody will ever find or delete has a failed call or a restart *)
(* between its creation and its tags behind it.                            *)
LostImageHasCause ==
    \A b \in Bakes : step[b] = "ended" /\ image[b].state # "none" /\ ~image[b].tagged
                     => b \in excused

(* Every builder is terminated, by its bake or by the reaper, unless the   *)
(* region has neither pool nor node and a call of the bake failed.         *)
BuilderReclaimed ==
    \A b \in Bakes : (builder[b] \in Live) ~>
        (builder[b] = "terminated" \/ (~inUse /\ b \in excused))
=============================================================================

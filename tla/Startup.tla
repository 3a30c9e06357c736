------------------------------ MODULE Startup -------------------------------
(***************************************************************************)
(* `inferiallm start` (cli/__init__.py, startup_ui.py): one process per    *)
(* service, a queue of startup events, the display that reads it, and the  *)
(* wait for the services that an interrupt turns into a shutdown.          *)
(* `start` runs every service, `start orchestration` all but the web one   *)
(* and without the display.                                                *)
(***************************************************************************)
EXTENDS Naturals, Sequences

Services == {"web", "orchestration", "worker", "sidecar", "skypilot"}

(* len(specs) in run_all, which alone has a display.                       *)
Total == 5

VARIABLES
    mode,      \* "all" or "stack"
    cli,       \* the parent: display, join, shutdown, atexit, exit
    proc,      \* the step of each service's process
    node,      \* the sidecar's node program runs
    queue,     \* startup events, oldest first
    started,   \* services the display has counted
    sigint,    \* an interrupt: none, sent to the parent, or to the group
    silent     \* services that ended without a word
vars == <<mode, cli, proc, node, queue, started, sigint, silent>>

Mine == IF mode = "all" THEN Services ELSE Services \ {"web"}
Ended(s) == proc[s] = "ended"

TypeOK ==
    /\ mode \in {"all", "stack"}
    /\ cli \in {"display", "join", "shutdown", "atexit", "exit"}
    /\ proc \in [Services -> {"absent", "spawned", "starting", "serving", "ended"}]
    /\ node \in BOOLEAN
    /\ queue \in Seq({"started", "failed"})
    /\ started \in 0 .. Total
    /\ sigint \in {"none", "parent", "group"}
    /\ silent \subseteq Services

(* The specs of run_all and the list of run_orchestration_stack. *)
ProcessSpecs(m) ==
    [s \in Services |-> IF m = "stack" /\ s = "web" THEN "absent" ELSE "spawned"]

Init ==
    /\ mode \in {"all", "stack"}
    /\ cli = IF mode = "all" THEN "display" ELSE "join"
    /\ proc = ProcessSpecs(mode)
    /\ node = FALSE /\ queue = <<>> /\ started = 0
    /\ sigint = "none" /\ silent = {}

(* Nobody reads the queue once the display has ended. *)
Put(event) == queue' = IF cli = "display" THEN Append(queue, event) ELSE queue
(* The signal handler runs before a process takes another step.            *)
Runs(s, step) == proc[s] = step /\ sigint # "group"
To(s, step) == proc' = [proc EXCEPT ![s] = step]
Parent == <<mode, cli, started, sigint>>

-----------------------------------------------------------------------------
(* The services.  ServiceStarting is not counted by anyone and left out.   *)

(* The body failed: the except clause posts it and the process ends.       *)
Fail(s) == To(s, "ended") /\ Put("failed") /\ UNCHANGED <<node, silent>>
Silently(s) == To(s, "ended") /\ silent' = silent \cup {s} /\ UNCHANGED <<queue, node>>

(* The configuration is imported before the try: nothing reports that it   *)
(* is missing.                                                             *)
RunUnifiedWeb ==
    /\ Runs("web", "spawned")
    /\ \/ Silently("web")
       \/ To("web", "starting") /\ UNCHANGED <<queue, node, silent>>
    /\ UNCHANGED Parent

RunOrchestrationService ==
    /\ Runs("orchestration", "spawned")
    /\ \/ Fail("orchestration")
       \/ To("orchestration", "starting") /\ UNCHANGED <<queue, node, silent>>
    /\ UNCHANGED Parent

RunWorker ==
    /\ Runs("worker", "spawned")
    /\ \/ Fail("worker")
       \/ To("worker", "starting") /\ UNCHANGED <<queue, node, silent>>
    /\ UNCHANGED Parent

(* "started" is posted before the server binds its port. *)
Serve(s) ==
    /\ Runs(s, "starting")
    /\ To(s, "serving") /\ Put("started")
    /\ UNCHANGED <<Parent, node, silent>>

(* A server that raises reports it; one that exits (uvicorn, when the port *)
(* is taken) does not.                                                     *)
Crash(s) ==
    /\ Runs(s, "serving")
    /\ Fail(s) \/ (To(s, "ended") /\ UNCHANGED <<queue, node, silent>>)
    /\ UNCHANGED Parent

(* A directory that is missing ends the process without an event; npm may  *)
(* fail; the node program outlives the process that started it.            *)
RunNosanaSidecar ==
    /\ Runs("sidecar", "spawned")
    /\ \/ Silently("sidecar")
       \/ Fail("sidecar")
       \/ /\ To("sidecar", "ended") /\ Put("started")
          /\ node' = TRUE /\ UNCHANGED silent
    /\ UNCHANGED Parent

(* Not installed is a failure; a server that runs already is not.  The     *)
(* server is a daemon of its own.                                          *)
RunSkypilotServer ==
    /\ Runs("skypilot", "spawned")
    /\ \/ Fail("skypilot")
       \/ /\ To("skypilot", "ended") /\ Put("started")
          /\ UNCHANGED <<node, silent>>
    /\ UNCHANGED Parent

-----------------------------------------------------------------------------
(* The parent *)

(* A mutant of Display: a failure is shown and the display goes on.        *)
DisplayIgnoresFailure ==
    /\ cli = "display" /\ queue # <<>>
    /\ started' = started + (IF Head(queue) = "started" THEN 1 ELSE 0)
    /\ cli' = IF started' = Total THEN "join" ELSE "display"
    /\ queue' = IF cli' = "join" THEN <<>> ELSE Tail(queue)
    /\ UNCHANGED <<mode, proc, node, sigint, silent>>

(* StartupUI.run ends when all have started or when one has failed.        *)
Display ==
    /\ cli = "display" /\ queue # <<>>
    /\ started' = started + (IF Head(queue) = "started" THEN 1 ELSE 0)
    /\ cli' = IF Head(queue) = "failed" \/ started' = Total
              THEN "join" ELSE "display"
    /\ queue' = IF cli' = "join" THEN <<>> ELSE Tail(queue)
    /\ UNCHANGED <<mode, proc, node, sigint, silent>>

Join ==
    /\ cli \in {"join", "atexit"} /\ \A s \in Mine : Ended(s)
    /\ cli' = "exit"
    /\ UNCHANGED <<mode, proc, node, queue, started, sigint, silent>>

(* Ctrl-C reaches every process of the terminal's group, a signal sent by  *)
(* hand only the parent.                                                   *)
Interrupt ==
    /\ sigint = "none" /\ cli # "exit"
    /\ sigint' \in {"parent", "group"}
    /\ node' = (node /\ sigint' # "group")
    /\ UNCHANGED <<mode, cli, proc, queue, started, silent>>

ServiceInterrupted(s) ==
    /\ sigint = "group" /\ proc[s] \in {"spawned", "starting", "serving"}
    /\ To(s, "ended")
    /\ UNCHANGED <<Parent, node, queue, silent>>

(* A mutant of ParentInterrupted: the interrupt is caught nowhere.         *)
ParentInterruptedLeaves ==
    /\ sigint # "none" /\ cli \in {"display", "join"}
    /\ cli' = "atexit" /\ queue' = <<>>
    /\ UNCHANGED <<mode, proc, node, started, sigint, silent>>

(* KeyboardInterrupt is caught around the joins; while the display runs it *)
(* leaves main and the interpreter joins the children on its way out.      *)
ParentInterrupted ==
    /\ sigint # "none" /\ cli \in {"display", "join"}
    /\ cli' = IF cli = "join" THEN "shutdown" ELSE "atexit"
    /\ queue' = <<>>
    /\ UNCHANGED <<mode, proc, node, started, sigint, silent>>


(* terminate() those alive, then join them. *)
Shutdown ==
    /\ cli = "shutdown" /\ cli' = "exit"
    /\ proc' = [s \in Services |-> IF s \in Mine THEN "ended" ELSE proc[s]]
    /\ UNCHANGED <<mode, node, queue, started, sigint, silent>>

Runner(s) ==
    CASE s = "web" -> RunUnifiedWeb
      [] s = "orchestration" -> RunOrchestrationService
      [] s = "worker" -> RunWorker
      [] s = "sidecar" -> RunNosanaSidecar
      [] s = "skypilot" -> RunSkypilotServer

Process(s) == Runner(s) \/ Serve(s) \/ ServiceInterrupted(s)

Main == Display \/ Join \/ ParentInterrupted \/ Shutdown

Next ==
    \/ Main \/ Interrupt
    \/ \E s \in Services : Process(s) \/ Crash(s)

Spec == Init /\ [][Next]_vars

(* Processes run; nothing makes a service crash or a user interrupt.       *)
Fairness ==
    /\ WF_vars(Main)
    /\ \A s \in Services : WF_vars(Process(s))

FairSpec == Spec /\ Fairness

-----------------------------------------------------------------------------
(* The display comes to an end: every service is counted or one failure is *)
(* shown, unless a service ended without posting anything.                 *)
DisplayEnds == <>(cli # "display" \/ silent # {})

(* An interrupt ends the parent when every process got it or when it comes *)
(* during the joins.  One that only the parent got while it was showing    *)
(* the startup makes it wait for services nobody stops.                    *)
InterruptEnds ==
    (sigint = "group" \/ (sigint = "parent" /\ cli = "join")) ~> (cli = "exit")

(* When the parent is gone no service is left; the node program remains    *)
(* only where no interrupt reached it.                                     *)
NothingLeftBehind ==
    cli = "exit" =>
        /\ \A s \in Mine : Ended(s)
        /\ node => sigint # "group"
=============================================================================

----------------------------- MODULE Migrations -----------------------------
(***************************************************************************)
(* What a container does to the database before it serves (cli/init.py,    *)
(* deploy/entrypoint.sh): a probe for the schema, then either the          *)
(* first-time initialisation or the migrations alone.  Several containers  *)
(* do this at once and each is restarted when it fails.  A migration has a *)
(* part run in a transaction and may have one run outside (an index built  *)
(* concurrently); schema_migrations records it when both are through.      *)
(***************************************************************************)
EXTENDS Naturals

CONSTANTS Runners,     \* containers
          Last,        \* migrations are 1..Last, in file-name order
          Split,       \* those with a concurrent part
          MaxFaults    \* bound on crashes and failed statements

Files == 1 .. Last
Objects == {"role", "database", "schema"}

VARIABLES
    pc,        \* the step each container is at
    fresh,     \* it runs the first-time initialisation
    seen,      \* the migrations it read as applied
    file,      \* the migration it is at
    made,      \* objects that exist
    applied,   \* migrations whose transactional part is committed
    index,     \* concurrent parts: none, building, valid, invalid
    recorded,  \* rows of schema_migrations
    seeded,    \* the gateway bootstrap has run
    faults,
    excused    \* a recorded index found unfinished; an initialisation cut short
dbvars == <<made, applied, index, recorded, seeded>>
vars == <<pc, fresh, seen, file, dbvars, faults, excused>>

Steps == {"probe", "role", "newrole", "database", "newdatabase", "schema", "read",
          "chunk", "index", "building", "record", "bootstrap", "done", "down"}

TypeOK ==
    /\ pc \in [Runners -> Steps] /\ fresh \in [Runners -> BOOLEAN]
    /\ seen \in [Runners -> SUBSET Files] /\ file \in [Runners -> 1 .. Last + 1]
    /\ made \subseteq Objects /\ applied \subseteq Files /\ recorded \subseteq Files
    /\ index \in [Split -> {"none", "building", "valid", "invalid"}]
    /\ seeded \in BOOLEAN /\ faults \in 0 .. MaxFaults
    /\ excused \subseteq {"index", "init"}

(* A new volume, or an installation of an earlier release.                 *)
Init ==
    /\ pc = [r \in Runners |-> "probe"]
    /\ fresh = [r \in Runners |-> FALSE]
    /\ seen = [r \in Runners |-> {}] /\ file = [r \in Runners |-> 1]
    /\ \E old \in BOOLEAN :
          /\ made = IF old THEN Objects ELSE {}
          /\ applied = IF old THEN {1} ELSE {}
          /\ recorded = applied /\ seeded = old
    /\ index = [f \in Split |-> IF f \in applied THEN "valid" ELSE "none"]
    /\ faults = 0 /\ excused = {}

To(r, step) == pc' = [pc EXCEPT ![r] = step]

(* An exception ends the command and `set -e` the container; an index the  *)
(* container was building stays behind, invalid.  An initialisation that   *)
(* fails behind the schema will not be taken up: the next probe finds it.  *)
Raise(r) ==
    /\ To(r, "down")
    /\ index' = [f \in Split |-> IF pc[r] = "building" /\ f = file[r] THEN "invalid"
                                                                   ELSE index[f]]
    /\ excused' = excused
         \cup (IF fresh[r] /\ "schema" \in made THEN {"init"} ELSE {})
         \cup (IF pc[r] = "building" THEN {"index"} ELSE {})

-----------------------------------------------------------------------------
(* `inferiallm migrate`: the migrations and nothing else.                  *)
RunMigrations(r) == To(r, "read")

(* The entrypoint asks whether public.organizations exists.                *)
Probe(r) ==
    /\ pc[r] = "probe"
    /\ fresh' = [fresh EXCEPT ![r] = "schema" \notin made]
    /\ IF "schema" \in made THEN RunMigrations(r) ELSE To(r, "role")
    /\ UNCHANGED <<seen, file, dbvars, faults, excused>>

(* SELECT whether the role or the database is there ...                    *)
LookFor(r, what, create, then) ==
    /\ pc[r] = what
    /\ To(r, IF what \in made THEN then ELSE create)
    /\ UNCHANGED <<fresh, seen, file, dbvars, faults, excused>>

(* ... and CREATE it, which fails if another container was faster.         *)
Create(r, what, create, then) ==
    /\ pc[r] = create
    /\ \/ what \in made /\ Raise(r) /\ UNCHANGED made
       \/ /\ what \notin made
          /\ made' = made \cup {what} /\ To(r, then) /\ UNCHANGED <<index, excused>>
    /\ UNCHANGED <<fresh, seen, file, applied, recorded, seeded, faults>>

InitDatabase(r) ==
    \/ LookFor(r, "role", "newrole", "database") \/ Create(r, "role", "newrole", "database")
    \/ LookFor(r, "database", "newdatabase", "schema")
    \/ Create(r, "database", "newdatabase", "schema")

(* One transaction; what another container has committed is a duplicate,   *)
(* and skipped.                                                            *)
ExecuteSchema(r) ==
    /\ pc[r] = "schema"
    /\ made' = made \cup {"schema"} /\ To(r, "read")
    /\ UNCHANGED <<fresh, seen, file, applied, index, recorded, seeded, faults, excused>>

(* A mutant of After: init ends with the migrations.                       *)
AfterServes(r) == "done"

After(r) == IF fresh[r] THEN "bootstrap" ELSE "done"
Pending(s) == Files \ s

(* A mutant of Earliest: the files are taken in reverse order.             *)
Latest(s) == CHOOSE f \in s : \A g \in s : f >= g

Earliest(s) == CHOOSE f \in s : \A g \in s : f <= g

(* A mutant of ReadApplied: the rows of an earlier run are not read.       *)
ReadNothing(r) ==
    /\ pc[r] = "read"
    /\ seen' = [seen EXCEPT ![r] = {}]
    /\ To(r, "chunk") /\ file' = [file EXCEPT ![r] = 1]
    /\ UNCHANGED <<fresh, dbvars, faults, excused>>

(* The set of applied migrations is read once, before the loop.            *)
ReadApplied(r) ==
    /\ pc[r] = "read"
    /\ seen' = [seen EXCEPT ![r] = recorded]
    /\ IF recorded = Files
       THEN To(r, After(r)) /\ file' = [file EXCEPT ![r] = Last + 1]
       ELSE To(r, "chunk") /\ file' = [file EXCEPT ![r] = Earliest(Pending(recorded))]
    /\ UNCHANGED <<fresh, dbvars, faults, excused>>

(* A mutant of ApplyChunk: only the first chunk of a file is run.          *)
ApplyFirstChunk(r) ==
    /\ pc[r] = "chunk"
    /\ applied' = applied \cup {file[r]}
    /\ To(r, "record")
    /\ UNCHANGED <<fresh, seen, file, made, index, recorded, seeded, faults, excused>>

(* Idempotent SQL in a transaction: a second run changes nothing.          *)
ApplyChunk(r) ==
    /\ pc[r] = "chunk"
    /\ applied' = applied \cup {file[r]}
    /\ To(r, IF file[r] \in Split THEN "index" ELSE "record")
    /\ UNCHANGED <<fresh, seen, file, made, index, recorded, seeded, faults, excused>>

(* CREATE INDEX CONCURRENTLY IF NOT EXISTS: an index that is there, valid, *)
(* invalid or still being built, is skipped.                               *)
StartIndex(r) ==
    /\ pc[r] = "index"
    /\ IF index[file[r]] = "none"
       THEN To(r, "building") /\ index' = [index EXCEPT ![file[r]] = "building"]
       ELSE To(r, "record") /\ UNCHANGED index
    /\ excused' = excused \cup (IF index[file[r]] \in {"none", "valid"} THEN {} ELSE {"index"})
    /\ UNCHANGED <<fresh, seen, file, made, applied, recorded, seeded, faults>>

FinishIndex(r) ==
    /\ pc[r] = "building"
    /\ index' = [index EXCEPT ![file[r]] = "valid"]
    /\ To(r, "record")
    /\ UNCHANGED <<fresh, seen, file, made, applied, recorded, seeded, faults, excused>>

(* The row is inserted behind both parts; a row that another container     *)
(* inserted meanwhile is a duplicate key.  Then the next file not seen.    *)
Record(r) ==
    /\ pc[r] = "record"
    /\ \/ file[r] \in recorded /\ Raise(r) /\ UNCHANGED <<file, recorded>>
       \/ /\ file[r] \notin recorded
          /\ recorded' = recorded \cup {file[r]}
          /\ LET rest == {f \in Pending(seen[r]) : f > file[r]} IN
             IF rest = {} THEN To(r, After(r)) /\ file' = [file EXCEPT ![r] = Last + 1]
                          ELSE To(r, "chunk") /\ file' = [file EXCEPT ![r] = Earliest(rest)]
          /\ UNCHANGED <<index, excused>>
    /\ UNCHANGED <<fresh, seen, made, applied, seeded, faults>>

BootstrapApiGateway(r) ==
    /\ pc[r] = "bootstrap"
    /\ seeded' = TRUE /\ To(r, "done")
    /\ UNCHANGED <<fresh, seen, file, made, applied, index, recorded, faults, excused>>

Crash(r) ==
    /\ pc[r] \notin {"done", "down"} /\ faults < MaxFaults
    /\ faults' = faults + 1 /\ Raise(r)
    /\ UNCHANGED <<fresh, seen, file, made, applied, recorded, seeded>>

Restart(r) ==
    /\ pc[r] = "down" /\ To(r, "probe")
    /\ UNCHANGED <<fresh, seen, file, dbvars, faults, excused>>

Step(r) ==
    \/ Probe(r) \/ InitDatabase(r) \/ ExecuteSchema(r) \/ ReadApplied(r)
    \/ ApplyChunk(r) \/ StartIndex(r) \/ FinishIndex(r) \/ Record(r)
    \/ BootstrapApiGateway(r) \/ Restart(r)

Next == \E r \in Runners : Step(r) \/ Crash(r)

Spec == Init /\ [][Next]_vars
FairSpec == Spec /\ \A r \in Runners : WF_vars(Step(r))

-----------------------------------------------------------------------------
(* A recorded migration has been run: its transaction is committed and its *)
(* index is valid, unless the index was found unfinished.                  *)
RecordedIsApplied ==
    \A f \in recorded :
        /\ f \in applied
        /\ f \in Split => index[f] = "valid" \/ "index" \in excused

(* However the containers overlap, no migration runs before an earlier one *)
(* is committed.                                                           *)
InOrder == \A f \in applied : \A g \in 1 .. f : g \in applied

(* When every container serves, the bootstrap has run, unless an           *)
(* initialisation failed between the schema and its end.                   *)
BootstrapLostHasCause ==
    (\A r \in Runners : pc[r] = "done") => seeded \/ "init" \in excused

(* Every container comes to serve, and on a schema with every migration.   *)
MigratesAll == <>(recorded = Files /\ \A r \in Runners : pc[r] = "done")
=============================================================================

----------------------------- MODULE Bootstrap ------------------------------
(***************************************************************************)
(* internal/cluster, `cluster deploy': the steps of a provider run in      *)
(* order, each outcome saved to a state file, so that the next deployment  *)
(* skips what is done.  The file is named by the generation of the         *)
(* cluster; older releases left theirs (version 1) in the cluster's        *)
(* directory.  A command may be killed anywhere, also in the middle of a   *)
(* save, which does not replace the file atomically.  Deployments and      *)
(* destroys of a cluster take its lock (FileLock), so one runs at a time.  *)
(***************************************************************************)
EXTENDS Naturals

CONSTANTS
  NSteps,      \* the provider's steps, in order: 1..NSteps
  Always,      \* steps that are never skipped (NeverSkip)
  Probes,      \* the artifacts a step looks for before it may be skipped,
               \*   each named by the step that makes it (CanSkip)
  Apply,       \* opentofu-apply
  Lifecycle,   \* the kubespray steps, which version 1 did not have
  Completion,  \* steps only a deployed Kubernetes lets succeed
  Serving,     \* the step after which the cluster answers
  Gen, NoGen,  \* generation identifiers, and none
  NoFile, Torn,  \* no state file, and one cut short while it was written
  Chosen,      \* bound: the options deployments are started with
  MaxFaults    \* bound: failed steps, kills and deleted artifacts

Step == 1..NSteps
Artifact == {s \in Step : Probes[s] # {}}

ASSUME StepsAssumption ==
  /\ NSteps \in Nat \ {0}
  /\ Always \subseteq Step
  /\ Probes \in [Step -> SUBSET Step]
  /\ \A s \in Artifact : s \in Probes[s] /\ Probes[s] \subseteq Artifact
  /\ Apply \in Step
  /\ Lifecycle \subseteq Step
  /\ Completion \subseteq Step
  /\ Serving \in Step
  /\ NoGen \notin Gen
  /\ MaxFaults \in Nat

Status == {"absent", "running", "failed", "success"}
State == [version : {1, 2}, gen : Gen \union {NoGen},
          status : [Step -> Status], handoff : BOOLEAN]

ASSUME FileAssumption == NoFile # Torn /\ NoFile \notin State /\ Torn \notin State

VARIABLES
  gen,        \* metadata.generation_id of the configuration, NoGen without one
  used,       \* the generations there have been
  scoped,     \* <state dir>/bootstrap/<org>/<cluster>/<generation>/state.json
  legacy,     \* <cluster dir>/logs/bootstrap-state.json
  artifacts,  \* artifacts on disk
  pc, opts,   \* where the deployment is, and its --restart, --step, --from-step
  at, mem,    \* its current step, and its copy of the state
  done,       \* the steps whose effect the present machines have
  outlived,   \* a state file has outlived what it tells
  faults

deployment == <<pc, opts, at, mem>>
world == <<done, artifacts>>
files == <<scoped, legacy>>
vars == <<gen, used, files, world, deployment, outlived, faults>>

Pcs == {"idle", "load", "clear", "persist", "step", "mark", "run", "record",
        "recordFailure", "cleanup", "clearAll"}

(* filterSteps: one step, the steps from one on, or all of them; only the  *)
(* last look at the saved state, and not with --restart.                   *)
Options == [restart : BOOLEAN, ignore : BOOLEAN, first : Step, last : Step]
Selections ==
  {o \in Options : \/ o.first = 1 /\ o.last = NSteps /\ o.ignore = o.restart
                   \/ o.last \in {o.first, NSteps} /\ o.ignore}
ASSUME ChosenAssumption == Chosen \subseteq Selections

Resume == [restart |-> FALSE, ignore |-> FALSE, first |-> 1, last |-> NSteps]
Restart == [Resume EXCEPT !.restart = TRUE, !.ignore = TRUE]

Fresh(g) == [version |-> 2, gen |-> g, status |-> [s \in Step |-> "absent"],
             handoff |-> FALSE]

TypeOK ==
  /\ gen \in Gen \union {NoGen}
  /\ used \in SUBSET Gen
  /\ scoped \in [Gen -> State \union {NoFile, Torn}]
  /\ legacy \in State \union {NoFile}
  /\ artifacts \in SUBSET Artifact
  /\ pc \in Pcs
  /\ opts \in Selections
  /\ at \in 1..(NSteps + 1)
  /\ mem \in State
  /\ done \in SUBSET Step
  /\ outlived \in BOOLEAN
  /\ faults \in 0..MaxFaults

-----------------------------------------------------------------------------
(* migrateBootstrapState: version 1 ran Kubespray inside opentofu-apply.   *)

(* A later Kubernetes step that succeeded proves the ones before it.       *)
Proven(f, s) ==
  \E t \in Lifecycle \union Completion : t > s /\ f.status[t] = "success"

(* An apply without that proof has to run once more, as version 2 does it. *)
HandedOff(f) ==
  /\ f.status[Apply] = "success"
  /\ \A s \in Lifecycle : ~Proven(f, s)

\* A bug to catch: the migration takes the apply for all of its successors.
MigratedByApply(f) ==
  IF f.version = 2 THEN f
  ELSE [f EXCEPT
         !.version = 2,
         !.status = [s \in Step |->
           IF s \in Lifecycle /\ f.status[Apply] = "success"
           THEN "success" ELSE f.status[s]]]

Migrated(f) ==
  IF f.version = 2 THEN f
  ELSE [f EXCEPT
         !.version = 2,
         !.handoff = HandedOff(f),
         !.status = [s \in Step |->
           IF s \in Lifecycle /\ f.status[s] = "absent" /\ Proven(f, s)
           THEN "success" ELSE f.status[s]]]

(* The state file a deployment of generation g resumes from, if any.       *)
Source(g) == IF scoped[g] # NoFile THEN scoped[g] ELSE legacy

(* loadBootstrapState: what a state file of another generation tells is    *)
(* forgotten; one without a generation is taken over.                      *)
Belongs(f, g) == f.gen = NoGen \/ f.gen = g

Loaded(f, g) ==
  IF f \in {NoFile, Torn} \/ ~Belongs(f, g) THEN Fresh(g)
  ELSE Migrated([f EXCEPT !.gen = g])

\* A bug to catch: a step found running counts as another deployment's.
RefusedBusy(f) ==
  CASE f = NoFile -> FALSE
    [] f = Torn -> TRUE
    [] OTHER -> \E s \in Step : f.status[s] = "running"

Refused(f) == f = Torn

(* A file of before the generation field, and one of another cluster whose *)
(* configuration was copied, may be there, and a version 1 file beside the *)
(* machines it tells of.                                                   *)
OldFile(S) == [version |-> 1, gen |-> NoGen, handoff |-> FALSE,
               status |-> [s \in Step |-> IF s \in S THEN "success" ELSE "absent"]]

(* Version 1 recorded what it did, but for Kubespray inside its apply, and *)
(* deployed Kubernetes before any step that needs it.                      *)
ByVersion1(S, D) ==
  /\ S \subseteq D /\ D \ S \subseteq Lifecycle
  /\ \A t \in S \intersect (Lifecycle \union Completion) :
       \A s \in Lifecycle : s <= t => s \in D

Foreign(g) == [Fresh(g) EXCEPT !.status = [s \in Step |-> "success"]]

Init ==
  /\ gen \in Gen
  /\ used = {gen}
  /\ \E f \in {NoFile} \union {Foreign(g) : g \in Gen \ {gen}} :
       scoped = [g \in Gen |-> IF g = gen THEN f ELSE NoFile]
  /\ done \in SUBSET Step
  /\ \/ legacy = NoFile /\ done = {}
     \/ \E S \in SUBSET (Step \ Lifecycle) :
          legacy = OldFile(S) /\ ByVersion1(S, done)
  /\ artifacts = (Artifact \intersect done) \ Lifecycle
  /\ pc = "idle" /\ opts = Resume /\ at = 1 /\ mem = Fresh(NoGen)
  /\ outlived = FALSE
  /\ faults = 0

-----------------------------------------------------------------------------
(* One deployment: provisionInfrastructure up to its first step.           *)

(* The command ends, and its memory with it.                               *)
End == pc' = "idle" /\ opts' = Resume /\ at' = 1 /\ mem' = Fresh(NoGen)

Start(o) ==
  /\ pc = "idle" /\ gen # NoGen
  /\ pc' = "load" /\ opts' = o /\ at' = o.first /\ mem' = Fresh(gen)
  /\ UNCHANGED <<gen, used, files, world, outlived, faults>>

Load ==
  /\ pc = "load" /\ ~opts.restart
  /\ ~Refused(Source(gen))
  /\ pc' = "persist"
  /\ mem' = Loaded(Source(gen), gen)
  /\ UNCHANGED <<gen, used, files, world, opts, at, outlived, faults>>

Refuse ==
  /\ pc = "load" /\ ~opts.restart
  /\ Refused(Source(gen))
  /\ End
  /\ UNCHANGED <<gen, used, files, world, outlived, faults>>

(* --restart removes the state file, then that of the older release.       *)
ClearScoped ==
  /\ \/ pc = "load" /\ opts.restart /\ pc' = "clear"
     \/ pc = "cleanup" /\ pc' = "clearAll"
  /\ scoped' = [scoped EXCEPT ![gen] = NoFile]
  /\ UNCHANGED <<gen, used, legacy, world, opts, at, mem, outlived, faults>>

ClearLegacy ==
  /\ \/ pc = "clear" /\ pc' = "persist" /\ UNCHANGED <<opts, at, mem>>
     \/ pc = "clearAll" /\ End
  /\ legacy' = NoFile
  /\ outlived' = FALSE
  /\ UNCHANGED <<gen, used, scoped, world, faults>>

Save == scoped' = [scoped EXCEPT ![gen] = mem]

Persist ==
  /\ pc = "persist" /\ pc' = "step"
  /\ Save
  /\ UNCHANGED <<gen, used, legacy, world, opts, at, mem, outlived, faults>>

-----------------------------------------------------------------------------
(* executeBootstrapSteps.                                                  *)

HandsOff == at = Apply /\ mem.handoff

\* A bug to catch: a recorded success is enough.
MaySkipUnprobed(s) ==
  ~HandsOff /\ s \notin Always /\ ~opts.ignore /\ mem.status[s] = "success"

MaySkip(s) ==
  /\ ~HandsOff
  /\ s \notin Always
  /\ Probes[s] \subseteq artifacts
  /\ ~opts.ignore
  /\ mem.status[s] = "success"

Skip ==
  /\ pc = "step" /\ at <= opts.last /\ MaySkip(at)
  /\ at' = at + 1
  /\ UNCHANGED <<gen, used, files, world, pc, opts, mem, outlived, faults>>

\* A bug to catch: a status no reader knows.
MarkedStarted == [mem EXCEPT !.status[at] = "started"]

(* A step is recorded as running before it runs, unless it is an apply     *)
(* handed off from version 1, whose record stays.                          *)
Marked == IF HandsOff THEN mem ELSE [mem EXCEPT !.status[at] = "running"]

Mark ==
  /\ pc = "step" /\ at <= opts.last /\ ~MaySkip(at)
  /\ mem' = Marked
  /\ pc' = IF HandsOff THEN "run" ELSE "mark"
  /\ UNCHANGED <<gen, used, files, world, opts, at, outlived, faults>>

SaveMark ==
  /\ pc = "mark" /\ pc' = "run"
  /\ Save
  /\ UNCHANGED <<gen, used, legacy, world, opts, at, mem, outlived, faults>>

Outcome(result) ==
  IF ~HandsOff THEN [mem EXCEPT !.status[at] = result]
  ELSE [mem EXCEPT !.handoff = (result # "success")]

Succeed ==
  /\ pc = "run" /\ pc' = "record"
  /\ done' = done \union {at}
  /\ artifacts' = artifacts \union (Artifact \intersect {at})
  /\ mem' = Outcome("success")
  /\ UNCHANGED <<gen, used, files, opts, at, outlived, faults>>

(* A step that stops half way may have done its work, or undone what an    *)
(* earlier run of it did.                                                  *)
Halfway(s) ==
  /\ done' \in {done, done \union {s}, done \ {s}}
  /\ artifacts' \in {artifacts, artifacts \union (Artifact \intersect {s})}

Fail ==
  /\ pc = "run" /\ pc' = "recordFailure"
  /\ faults < MaxFaults /\ faults' = faults + 1
  /\ Halfway(at)
  /\ mem' = Outcome("failed")
  /\ UNCHANGED <<gen, used, files, opts, at, outlived>>

Record ==
  /\ \/ pc = "record" /\ pc' = "step" /\ at' = at + 1 /\ UNCHANGED <<opts, mem>>
     \/ pc = "recordFailure" /\ End
  /\ Save
  /\ UNCHANGED <<gen, used, legacy, world, outlived, faults>>

(* waitForReady: no step is left, and the cluster is waited for.           *)
Ready ==
  /\ pc = "step" /\ at > opts.last /\ Serving \in done
  /\ pc' = "cleanup"
  /\ UNCHANGED <<gen, used, files, world, opts, at, mem, outlived, faults>>

NotReady ==
  /\ pc = "step" /\ at > opts.last
  /\ IF Serving \in done THEN faults < MaxFaults /\ faults' = faults + 1
                         ELSE UNCHANGED faults
  /\ End
  /\ UNCHANGED <<gen, used, files, world, outlived>>

(* The command is killed, or cannot save.  A save cut short leaves a file  *)
(* that does not parse, and only half of the files may be cleared.         *)
Stop ==
  /\ pc # "idle" /\ End
  /\ faults < MaxFaults /\ faults' = faults + 1
  /\ IF pc = "run" THEN Halfway(at) ELSE UNCHANGED world
  /\ \/ UNCHANGED scoped
     \/ /\ pc \in {"persist", "mark", "record", "recordFailure"}
        /\ scoped' = [scoped EXCEPT ![gen] = Torn]
  /\ outlived' = (outlived \/ (pc \in {"clear", "clearAll"} /\ legacy # NoFile))
  /\ UNCHANGED <<gen, used, legacy>>

-----------------------------------------------------------------------------
(* What else changes the machines and the files.                           *)

(* `cluster destroy': the machines, and OpenTofu's inventory with them;    *)
(* with --remove-files then the cluster's directory, the configuration and *)
(* the state files, in this order, unless the command stops between them.  *)
Destroy ==
  /\ pc = "idle" /\ gen # NoGen
  /\ done' = {}
  /\ artifacts' = artifacts \ {Apply}
  /\ \/ /\ legacy' \in {legacy, NoFile}
        /\ outlived' = (scoped[gen] # NoFile \/ legacy' # NoFile)
        /\ UNCHANGED <<gen, scoped>>
     \/ /\ legacy' = NoFile
        /\ gen' = NoGen
        /\ scoped' \in {scoped, [g \in Gen |-> NoFile]}
        /\ outlived' = FALSE
  /\ UNCHANGED <<used, deployment, faults>>

(* `cluster init' mints a generation that never was.                       *)
InitCluster ==
  /\ gen = NoGen
  /\ gen' \in Gen \ used
  /\ used' = used \union {gen'}
  /\ UNCHANGED <<files, world, deployment, outlived, faults>>

(* A cluster directory is wiped or an artifact deleted by hand.            *)
Wipe(a) ==
  /\ pc = "idle" /\ a \in artifacts
  /\ faults < MaxFaults /\ faults' = faults + 1
  /\ artifacts' = artifacts \ {a}
  /\ done' = done \ {a}
  /\ UNCHANGED <<gen, used, files, deployment, outlived>>

Deploying ==
  \/ Load \/ Refuse \/ ClearScoped \/ ClearLegacy \/ Persist
  \/ Skip \/ Mark \/ SaveMark \/ Succeed \/ Fail \/ Record
  \/ Ready \/ NotReady

Next ==
  \/ \E o \in Chosen : Start(o)
  \/ Deploying
  \/ Stop
  \/ Destroy
  \/ InitCluster
  \/ \E a \in Artifact : Wipe(a)

Spec == Init /\ [][Next]_vars

(* The operator deploys again until it works, with --restart when the      *)
(* state file does not parse.                                              *)
FairSpec ==
  /\ Spec
  /\ WF_vars(Deploying)
  /\ SF_vars(Start(Resume))
  /\ SF_vars(gen # NoGen /\ Source(gen) = Torn /\ Start(Restart))

-----------------------------------------------------------------------------
(* Properties.                                                             *)

(* What a state file claims of a step holds of the present machines, or    *)
(* the step will be run again: its artifact is gone, or it is the apply    *)
(* handed off from version 1.                                              *)
Truthful(f) ==
  \A s \in Step : f.status[s] = "success" =>
    \/ s \in done
    \/ s \in Artifact \ artifacts
    \/ s = Apply /\ f.handoff

(* Whenever the command stops, the next deployment skips no step that the  *)
(* present machines lack: every kill, failure, migration, generation and   *)
(* deleted artifact considered.  The exception is named: a destroy that    *)
(* keeps or does not reach the state file, or a removal of the two state   *)
(* files cut in half.                                                      *)
ResumesOwnWork ==
  pc = "idle" /\ gen # NoGen /\ ~outlived =>
    Truthful(Loaded(Source(gen), gen))

(* docs/concepts/configuration-lifecycle.md:144: a destroy "removes the    *)
(* whole bootstrap/<org>/<cluster>/ directory", so that no deployment      *)
(* skips, by a state file there, a step that the present machines have not *)
(* had.                                                                    *)
NeverResumesDestroyed ==
  pc = "step" /\ at <= opts.last /\ legacy = NoFile =>
    (MaySkip(at) => at \in done)

(* A deployment that reaches its end without a step filter leaves every    *)
(* step done, whatever it skipped.                                         *)
CompleteWhenReady ==
  pc \in {"cleanup", "clearAll"} /\ opts \in {Resume, Restart} /\ ~outlived =>
    done = Step

(* An operator who keeps deploying gets all steps done, unless the cluster *)
(* is destroyed or a state file outlives it.                               *)
EventuallyDeployed ==
  <>[](gen # NoGen) /\ []~outlived => <>(done = Step)
=============================================================================

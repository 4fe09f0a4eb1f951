-------------------------- MODULE BootstrapProofs ---------------------------
(***************************************************************************)
(* A deployment resumes only what the present machines have, for any       *)
(* sequence of steps, any generations and any number of faults.            *)
(***************************************************************************)
EXTENDS Bootstrap, TLAPS

USE StepsAssumption, FileAssumption, ChosenAssumption

Working == {"persist", "step", "mark", "run", "record", "recordFailure"}

(* A generation not used yet has no file, and without a configuration      *)
(* there is neither a deployment nor an old file.                          *)
Generations ==
  /\ gen # NoGen => gen \in used
  /\ \A g \in Gen \ used : scoped[g] = NoFile
  /\ gen = NoGen => legacy = NoFile /\ pc = "idle"

(* The memory of a deployment is of its generation, and saved before a     *)
(* step runs; what runs is not on record as done.                          *)
Memory ==
  /\ pc \in {"load", "clear"} => mem = Fresh(gen)
  /\ pc \in {"load", "clear"} /\ opts \in {Resume, Restart} => at = 1
  /\ pc \in Working => mem.version = 2 /\ mem.gen = gen
  /\ pc \in {"step", "run"} => scoped[gen] = mem
  /\ pc \in {"mark", "run"} => mem.status[at] = "running" \/ HandsOff
  /\ pc \in {"mark", "run", "record", "recordFailure"} => at <= opts.last
  /\ pc \in {"clear", "clearAll"} => scoped[gen] = NoFile

(* What the next deployment would load is true at any moment, but while    *)
(* the files are being removed.                                            *)
OwnFile ==
  gen # NoGen /\ ~outlived /\ (pc \in {"clear", "clearAll"} => legacy = NoFile)
    => Truthful(Loaded(Source(gen), gen))

OwnMemory == pc \in Working /\ ~outlived => Truthful(mem)

(* A deployment without a filter has done what it has passed.              *)
Passed ==
  ~outlived /\ opts \in {Resume, Restart} =>
    /\ pc \in Working => \A s \in Step : s < at => s \in done
    /\ pc = "record" => at \in done
    /\ pc \in {"cleanup", "clearAll"} => done = Step

ResumeInv ==
  TypeOK /\ Generations /\ Memory /\ OwnFile /\ OwnMemory /\ Passed

-----------------------------------------------------------------------------
(* State files.                                                            *)

(* The migration and the loading of a state file yield one.                *)
LEMMA LoadedType ==
  ASSUME NEW f \in State \union {NoFile, Torn}, NEW g \in Gen
  PROVE  /\ Loaded(f, g) \in State
         /\ Loaded(f, g).version = 2
         /\ Loaded(f, g).gen = g
  BY DEF Loaded, Migrated, Fresh, State, Status, HandedOff

(* A file of this generation and of version 2 is loaded as it is.          *)
LEMMA LoadedOwn ==
  ASSUME NEW g \in Gen, NEW f \in State, f.version = 2, f.gen = g
  PROVE  Loaded(f, g) = f
  BY DEF Loaded, Migrated, Belongs, State

(* Without a file there is nothing to claim.                               *)
LEMMA FreshTruthful ==
  ASSUME NEW g \in Gen \union {NoGen}
  PROVE  Truthful(Fresh(g)) /\ Fresh(g) \in State
  BY DEF Truthful, Fresh, State, Status

(* Claims stay true while only one step is revised, in the file or in the  *)
(* world, if it is then done, lacks its artifact or is not claimed.        *)
Holds(f, D, A) ==
  \A s \in Step : f.status[s] = "success" =>
    s \in D \/ s \in Artifact \ A \/ (s = Apply /\ f.handoff)

LEMMA ClaimsKept ==
  ASSUME NEW f, NEW h, NEW s \in Step, NEW D, NEW E, NEW A, NEW B,
         Holds(f, D, A),
         D \ {s} \subseteq E, B \ {s} \subseteq A,
         \A t \in Step \ {s} : h.status[t] = f.status[t],
         h.handoff = f.handoff \/ s = Apply,
         \/ s \in E \/ s \in Artifact \ B
         \/ h.status[s] # "success" \/ (s = Apply /\ h.handoff)
  PROVE  Holds(h, E, B)
  BY DEF Holds

(* Where a deployment starts and ends among the steps.                     *)
LEMMA Filter ==
  \A o \in Selections : o.first \in Step /\ o.last \in Step
  BY DEF Selections, Options

LEMMA Within ==
  \A l \in Step : \A n \in 1..(NSteps + 1) : n <= l => n \in Step
  BY SMTT(30) DEF Step

LEMMA Following ==
  \A n \in Step : n + 1 \in 1..(NSteps + 1) /\ n \in 1..(NSteps + 1)
  BY SMTT(30) DEF Step

LEMMA ResumeType == Resume \in Selections
<1>1. 1 \in Step /\ NSteps \in Step
  BY DEF Step
<1> QED
  BY <1>1 DEF Resume, Selections, Options

-----------------------------------------------------------------------------
(* Types.                                                                  *)

LEMMA InitType == Init => TypeOK
<1> SUFFICES ASSUME Init PROVE TypeOK
  OBVIOUS
<1>1. \A g \in Gen \union {NoGen} : Fresh(g) \in State
  BY FreshTruthful
<1>2. \A g \in Gen : Foreign(g) \in State
  BY DEF Foreign, Fresh, State, Status
<1>3. \A S \in SUBSET Step : OldFile(S) \in State
  BY DEF OldFile, State, Status
<1>4. scoped \in [Gen -> State \union {NoFile, Torn}]
  BY <1>2 DEF Init
<1>5. legacy \in State \union {NoFile}
  BY <1>3 DEF Init
<1>6. Resume \in Selections /\ 1 \in 1..(NSteps + 1)
  BY ResumeType
<1>8. gen \in Gen \union {NoGen} /\ done \in SUBSET Step /\ faults \in 0..MaxFaults
  BY DEF Init
<1>7. mem \in State /\ artifacts \in SUBSET Artifact /\ used \in SUBSET Gen
  BY <1>1 DEF Init
<1> QED
  BY <1>4, <1>5, <1>6, <1>7, <1>8 DEF Init, TypeOK, Pcs

LEMMA EndType == End => /\ pc' \in Pcs /\ opts' \in Selections
                        /\ at' \in 1..(NSteps + 1) /\ mem' \in State
<1>1. Resume \in Selections /\ 1 \in 1..(NSteps + 1)
  BY ResumeType
<1> QED
  BY <1>1, FreshTruthful DEF End, Pcs

LEMMA HalfwayType ==
  ASSUME TypeOK, NEW s \in Step, Halfway(s)
  PROVE  done' \in SUBSET Step /\ artifacts' \in SUBSET Artifact
  BY DEF TypeOK, Halfway, Artifact

LEMMA TypeStep == TypeOK /\ Generations /\ Memory /\ [Next]_vars => TypeOK'
<1> SUFFICES ASSUME TypeOK, Generations, Memory, [Next]_vars PROVE TypeOK'
  OBVIOUS
<1> USE DEF TypeOK
<1>0. pc # "idle" => gen \in Gen
  BY DEF Generations
<1>1. ASSUME NEW o \in Chosen, Start(o) PROVE TypeOK'
  BY <1>0, <1>1, Filter, Within, Following, FreshTruthful DEF Start, files, world, Pcs
<1>2. CASE Load
  <2>1. Source(gen) \in State \union {NoFile, Torn}
    BY <1>0, <1>2 DEF Load, Source
  <2> QED
    BY <1>0, <1>2, <2>1, LoadedType DEF Load, files, world, Pcs
<1>3. CASE Refuse
  BY <1>3, EndType DEF Refuse, files, world
<1>4. CASE ClearScoped
  BY <1>4 DEF ClearScoped, world, Pcs
<1>5. CASE ClearLegacy
  BY <1>5, EndType DEF ClearLegacy, world, Pcs
<1>6. CASE Persist
  BY <1>6 DEF Persist, Save, world, Pcs
<1>7. CASE Skip
  BY <1>7, Filter, Within, Following DEF Skip, files, world
<1>8. CASE Mark
  <2>1. Marked \in State
    BY <1>8, Filter, Within, Following DEF Mark, Marked, State, Status
  <2> QED
    BY <1>8, <2>1 DEF Mark, files, world, Pcs
<1>9. CASE SaveMark
  BY <1>9 DEF SaveMark, Save, world, Pcs
<1>10. CASE Succeed
  <2>1. at \in Step
    BY Filter, Within, Following, <1>10 DEF Succeed, Memory
  <2>2. Outcome("success") \in State
    BY DEF Outcome, State, Status
  <2> QED
    BY <1>10, <2>1, <2>2 DEF Succeed, files, Pcs, Artifact
<1>11. CASE Fail
  <2>1. at \in Step
    BY Filter, Within, Following, <1>11 DEF Fail, Memory
  <2>2. Outcome("failed") \in State
    BY DEF Outcome, State, Status
  <2>3. done' \in SUBSET Step /\ artifacts' \in SUBSET Artifact
    BY <1>11, <2>1, HalfwayType DEF Fail
  <2> QED
    BY <1>11, <2>2, <2>3 DEF Fail, files, Pcs
<1>12. CASE Record
  <2>1. at \in Step
    BY Filter, Within, Following, <1>12 DEF Record, Memory
  <2>2. scoped' \in [Gen -> State \union {NoFile, Torn}]
    BY <1>12 DEF Record, Save
  <2> QED
    BY <1>12, <2>1, <2>2, EndType, Filter, Within, Following DEF Record, world, Pcs
<1>13. CASE Ready
  BY <1>13 DEF Ready, files, world, Pcs
<1>14. CASE NotReady
  BY <1>14, EndType DEF NotReady, files, world
<1>15. CASE Stop
  <2>1. done' \in SUBSET Step /\ artifacts' \in SUBSET Artifact
    <3>1. CASE pc = "run"
      <4>1. at \in Step
        BY <3>1, Filter, Within, Following DEF Memory
      <4> QED
        BY <1>15, <3>1, <4>1, HalfwayType DEF Stop
    <3>2. CASE pc # "run"
      BY <1>15, <3>2 DEF Stop, world
    <3> QED
      BY <3>1, <3>2
  <2>2. scoped' \in [Gen -> State \union {NoFile, Torn}]
    BY <1>15 DEF Stop
  <2> QED
    BY <1>15, <2>1, <2>2, EndType DEF Stop
<1>16. CASE Destroy
  BY <1>16 DEF Destroy, deployment
<1>17. CASE InitCluster
  BY <1>17 DEF InitCluster, files, world, deployment
<1>18. ASSUME NEW a \in Artifact, Wipe(a) PROVE TypeOK'
  BY <1>18 DEF Wipe, files, deployment
<1>19. CASE UNCHANGED vars
  BY <1>19 DEF vars, files, world, deployment
<1> QED
  BY <1>1, <1>2, <1>3, <1>4, <1>5, <1>6, <1>7, <1>8, <1>9, <1>10, <1>11,
     <1>12, <1>13, <1>14, <1>15, <1>16, <1>17, <1>18, <1>19
     DEF Next, Deploying

-----------------------------------------------------------------------------
(* The steps of a deployment.                                              *)

NextFile == Truthful(Loaded(Source(gen), gen))

(* The file saved last is what the next deployment resumes from.           *)
LEMMA SavedOwn ==
  ASSUME TypeOK, gen \in Gen, mem.version = 2, mem.gen = gen, scoped[gen] = mem
  PROVE  Loaded(Source(gen), gen) = mem
<1>1. Source(gen) = mem
  BY DEF Source, TypeOK
<1> QED
  BY <1>1, LoadedOwn DEF TypeOK

(* Nothing is resumed from no file.                                        *)
LEMMA NothingLoaded ==
  ASSUME gen \in Gen, Source(gen) \in {NoFile, Torn}
  PROVE  NextFile
  BY FreshTruthful DEF NextFile, Loaded

LEMMA InitInv == Init => ResumeInv
<1> SUFFICES ASSUME Init PROVE ResumeInv
  OBVIOUS
<1>1. TypeOK
  BY InitType
<1>2. Generations /\ Memory /\ OwnMemory /\ Passed
  BY DEF Init, Generations, Memory, OwnMemory, Passed, Working
<1>3. NextFile
  <2>1. gen \in Gen /\ gen # NoGen
    BY DEF Init
  <2>2. CASE scoped[gen] # NoFile
    <3>1. PICK g \in Gen \ {gen} : scoped[gen] = Foreign(g)
      BY <2>1, <2>2 DEF Init
    <3>2. Foreign(g).gen = g /\ g # NoGen
      BY <2>1, <3>1 DEF Foreign, Fresh
    <3>3. Loaded(Source(gen), gen) = Fresh(gen)
      BY <2>2, <3>1, <3>2 DEF Source, Loaded, Belongs
    <3> QED
      BY <2>1, <3>3, FreshTruthful DEF NextFile
  <2>3. CASE scoped[gen] = NoFile /\ legacy = NoFile
    BY <2>1, <2>3, NothingLoaded DEF Source
  <2>4. CASE scoped[gen] = NoFile /\ legacy # NoFile
    <3>1. PICK S \in SUBSET (Step \ Lifecycle) :
            legacy = OldFile(S) /\ ByVersion1(S, done)
      BY <2>4 DEF Init
    <3> DEFINE f == [OldFile(S) EXCEPT !.gen = gen]
    <3>2. f.version = 1 /\ \A s \in Step : f.status[s] = "success" <=> s \in S
      BY DEF OldFile
    <3>3. Loaded(Source(gen), gen) = Migrated(f)
      <4>1. legacy.gen = NoGen /\ legacy \in State
        BY <2>4, <3>1, <1>1 DEF OldFile, TypeOK
      <4> QED
        BY <2>4, <3>1, <4>1, FileAssumption DEF Source, Loaded, Belongs
    <3>4. ASSUME NEW s \in Step, Migrated(f).status[s] = "success"
          PROVE  s \in done
      <4>1. s \in S \/ (s \in Lifecycle /\ Proven(f, s))
        BY <3>2, <3>4 DEF Migrated, OldFile
      <4>2. CASE s \in Lifecycle /\ Proven(f, s)
        <5>1. PICK t \in Lifecycle \union Completion : t > s /\ t \in S
          BY <3>2, <4>2 DEF Proven
        <5>2. s <= t
          BY <5>1 DEF Step
        <5> QED
          BY <3>1, <4>2, <5>1, <5>2 DEF ByVersion1
      <4> QED
        BY <3>1, <4>1, <4>2 DEF ByVersion1
    <3> QED
      BY <3>3, <3>4 DEF NextFile, Truthful
  <2> QED
    BY <2>2, <2>3, <2>4
<1> QED
  BY <1>1, <1>2, <1>3 DEF ResumeInv, OwnFile, NextFile

(* Before a deployment runs a step: it has loaded or removed the files.    *)
LEMMA PrepareStep ==
  ASSUME ResumeInv,
         (\E o \in Chosen : Start(o)) \/ Load \/ Refuse
           \/ ClearScoped \/ ClearLegacy \/ Persist
  PROVE  (Generations /\ Memory /\ OwnFile /\ OwnMemory /\ Passed)'
<1> USE DEF ResumeInv
<1>0. pc # "idle" => gen \in Gen /\ gen # NoGen
  BY DEF Generations, TypeOK
<1>1. ASSUME NEW o \in Chosen, Start(o)
      PROVE  (Generations /\ Memory /\ OwnFile /\ OwnMemory /\ Passed)'
  <2>1. Generations' /\ OwnFile'
    BY <1>1 DEF Start, files, world, Generations, OwnFile, Source, Truthful
  <2>2. Memory' /\ OwnMemory' /\ Passed'
    <3>1. Resume.first = 1 /\ Restart.first = 1
      BY DEF Resume, Restart
    <3> QED
      BY <1>1, <3>1 DEF Start, Memory, OwnMemory, Passed, Working
  <2> QED
    BY <2>1, <2>2
<1>2. ASSUME Load
      PROVE  (Generations /\ Memory /\ OwnFile /\ OwnMemory /\ Passed)'
  <2>1. Generations' /\ OwnFile'
    BY <1>2 DEF Load, files, world, Generations, OwnFile, Source, Truthful
  <2>2. OwnMemory'
    BY <1>0, <1>2 DEF Load, world, OwnFile, OwnMemory, Working, Truthful
  <2>3. mem'.version = 2 /\ mem'.gen = gen
    <3>1. Source(gen) \in State \union {NoFile, Torn}
      BY <1>0, <1>2 DEF Load, Source, TypeOK
    <3> QED
      BY <1>0, <1>2, <3>1, LoadedType DEF Load
  <2>4. Memory' /\ Passed'
    BY <1>0, <1>2, <2>3 DEF Load, Memory, Passed, Working, Step, TypeOK
  <2> QED
    BY <2>1, <2>2, <2>4
<1>3. ASSUME Refuse
      PROVE  (Generations /\ Memory /\ OwnFile /\ OwnMemory /\ Passed)'
  <2>1. Generations' /\ OwnFile'
    BY <1>3 DEF Refuse, End, files, world, Generations, OwnFile, Source, Truthful
  <2>2. Memory' /\ OwnMemory' /\ Passed'
    BY <1>3 DEF Refuse, End, Memory, OwnMemory, Passed, Working
  <2> QED
    BY <2>1, <2>2
<1>4. ASSUME ClearScoped
      PROVE  (Generations /\ Memory /\ OwnFile /\ OwnMemory /\ Passed)'
  <2>1. Generations' /\ scoped'[gen] = NoFile
    BY <1>0, <1>4 DEF ClearScoped, Generations, TypeOK
  <2>2. OwnFile'
    <3>1. legacy' = NoFile => NextFile'
      BY <1>0, <1>4, <2>1, FreshTruthful
         DEF ClearScoped, NextFile, Source, Loaded, Truthful, world
    <3> QED
      BY <1>4, <3>1 DEF ClearScoped, OwnFile, NextFile
  <2>3. Memory' /\ OwnMemory' /\ Passed'
    BY <1>4, <2>1 DEF ClearScoped, world, Memory, OwnMemory, Passed, Working
  <2> QED
    BY <2>1, <2>2, <2>3
<1>5. ASSUME ClearLegacy
      PROVE  (Generations /\ Memory /\ OwnFile /\ OwnMemory /\ Passed)'
  <2>1. Generations'
    BY <1>5 DEF ClearLegacy, End, Generations
  <2>2. OwnFile'
    <3>1. Source(gen)' = NoFile
      BY <1>0, <1>5 DEF ClearLegacy, Source, Memory
    <3>2. NextFile'
      BY <1>0, <1>5, <3>1, FreshTruthful
         DEF ClearLegacy, NextFile, Loaded, Truthful, world
    <3> QED
      BY <3>2 DEF OwnFile, NextFile
  <2>3. Memory' /\ Passed'
    BY <1>0, <1>5 DEF ClearLegacy, End, Memory, Passed, Working, Fresh, Step, TypeOK
  <2>4. OwnMemory'
    BY <1>0, <1>5, FreshTruthful
       DEF ClearLegacy, End, Memory, OwnMemory, Working, Truthful, world
  <2> QED
    BY <2>1, <2>2, <2>3, <2>4
<1>6. ASSUME Persist
      PROVE  (Generations /\ Memory /\ OwnFile /\ OwnMemory /\ Passed)'
  <2>1. scoped'[gen] = mem /\ gen' = gen /\ mem' = mem
    BY <1>0, <1>6 DEF Persist, Save, TypeOK
  <2>2. Generations'
    BY <1>0, <1>6 DEF Persist, Save, Generations, TypeOK
  <2>3. Memory' /\ OwnMemory' /\ Passed'
    BY <1>6, <2>1 DEF Persist, world, Memory, OwnMemory, Passed, Working, Truthful
  <2>4. Loaded(Source(gen)', gen) = mem
    <3>1. mem \in State /\ mem.version = 2 /\ mem.gen = gen /\ gen \in Gen
      BY <1>0, <1>6 DEF Persist, Memory, Working, TypeOK
    <3>2. Source(gen)' = mem
      BY <2>1, <3>1 DEF Source
    <3> QED
      BY <3>1, <3>2, LoadedOwn
  <2>5. OwnFile'
    BY <1>6, <2>1, <2>4 DEF Persist, world, OwnMemory, OwnFile, Working, Truthful
  <2> QED
    BY <2>2, <2>3, <2>5
<1> QED
  BY <1>1, <1>2, <1>3, <1>4, <1>5, <1>6

(* A step is skipped, marked or run, and its outcome recorded.             *)
LEMMA WorkStep ==
  ASSUME ResumeInv,
         Skip \/ Mark \/ SaveMark \/ Succeed \/ Fail \/ Record
  PROVE  (Generations /\ Memory /\ OwnFile /\ OwnMemory /\ Passed)'
<1> USE DEF ResumeInv
<1>0. pc \in Working /\ gen \in Gen /\ gen # NoGen
  BY DEF Skip, Mark, SaveMark, Succeed, Fail, Record, Working, Generations, TypeOK
<1>a. mem.version = 2 /\ mem.gen = gen /\ mem \in State
  BY <1>0 DEF Memory, TypeOK
<1>1. ASSUME Skip
      PROVE  (Generations /\ Memory /\ OwnFile /\ OwnMemory /\ Passed)'
  <2>1. (Generations /\ Memory /\ OwnFile /\ OwnMemory)'
    BY <1>1 DEF Skip, files, world, Generations, Memory, OwnFile, OwnMemory,
                Working, Source, Truthful
  <2>2. at \in Step
    BY <1>1, Filter, Within DEF Skip, TypeOK
  <2>3. ~outlived => at \in done
    <3>1. at \in Artifact => at \in artifacts
      BY <1>1, <2>2 DEF Skip, MaySkip
    <3> QED
      BY <1>0, <1>1, <2>2, <3>1 DEF Skip, MaySkip, HandsOff, OwnMemory, Truthful
  <2>4. \A s \in Step : s < at + 1 => s < at \/ s = at
    BY <2>2 DEF Step
  <2>5. Passed'
    BY <1>0, <1>1, <2>3, <2>4 DEF Skip, world, Passed, Working
  <2> QED
    BY <2>1, <2>5
<1>2. ASSUME Mark
      PROVE  (Generations /\ Memory /\ OwnFile /\ OwnMemory /\ Passed)'
  <2>1. at \in Step
    BY <1>2, Filter, Within DEF Mark, TypeOK
  <2>2. (Generations /\ OwnFile /\ Passed)'
    BY <1>0, <1>2 DEF Mark, files, world, Generations, OwnFile, Passed,
                      Working, Source, Truthful
  <2>3. Memory'
    <3>1. CASE HandsOff
      BY <1>0, <1>2, <3>1 DEF Mark, Marked, files, Memory, Working, HandsOff
    <3>2. CASE ~HandsOff
      BY <1>0, <1>a, <1>2, <2>1, <3>2
         DEF Mark, Marked, Memory, Working, HandsOff, State
    <3> QED
      BY <3>1, <3>2
  <2>4. OwnMemory'
    BY <1>0, <1>a, <1>2, <2>1
       DEF Mark, Marked, world, OwnMemory, Working, Truthful, State
  <2> QED
    BY <2>2, <2>3, <2>4
<1>3. ASSUME SaveMark
      PROVE  (Generations /\ Memory /\ OwnFile /\ OwnMemory /\ Passed)'
  <2>1. scoped'[gen] = mem /\ gen' = gen /\ mem' = mem /\ pc = "mark" /\ pc' = "run"
    BY <1>0, <1>3 DEF SaveMark, Save, TypeOK
  <2>2. Generations'
    BY <1>0, <1>3 DEF SaveMark, Save, Generations, TypeOK
  <2>3. (Memory /\ OwnMemory /\ Passed)'
    BY <1>0, <1>3, <2>1 DEF SaveMark, world, Memory, OwnMemory, Passed, Working,
                            Truthful, HandsOff
  <2>4. Loaded(Source(gen)', gen) = mem
    <3>1. Source(gen)' = mem
      BY <1>a, <2>1 DEF Source
    <3> QED
      BY <1>0, <1>a, <3>1, LoadedOwn
  <2>5. OwnFile'
    BY <1>0, <1>3, <2>1, <2>4 DEF SaveMark, world, OwnMemory, OwnFile, Truthful
  <2> QED
    BY <2>2, <2>3, <2>5
<1>4. ASSUME Succeed
      PROVE  (Generations /\ Memory /\ OwnFile /\ OwnMemory /\ Passed)'
  <2>1. at \in Step /\ pc = "run" /\ pc' = "record"
    BY <1>4, Filter, Within DEF Succeed, Memory, TypeOK
  <2>2. Generations' /\ Source(gen)' = Source(gen) /\ gen' = gen
    BY <1>4 DEF Succeed, files, Generations, Source
  <2>3. mem' \in State /\ mem'.version = 2 /\ mem'.gen = gen
        /\ (mem'.handoff = mem.handoff \/ at = Apply)
        /\ \A t \in Step \ {at} : mem'.status[t] = mem.status[t]
    BY <1>a, <1>4, <2>1 DEF Succeed, Outcome, HandsOff, State, Status
  <2>4. Memory'
    BY <1>4, <2>1, <2>2, <2>3 DEF Succeed, Memory, Working
  <2>5. at \in done' /\ done \subseteq done' /\ artifacts' \ {at} \subseteq artifacts
    BY <1>4 DEF Succeed
  <2>6. ~outlived => Holds(mem, done, artifacts)
    BY <1>0 DEF OwnMemory, Truthful, Holds
  <2>7. OwnFile'
    <3>1. Loaded(Source(gen), gen) = mem
      BY <1>0, <1>a, <2>1, SavedOwn DEF Memory
    <3>2. ~outlived => Holds(mem, done', artifacts')
      BY <2>5, <2>6, <2>1, ClaimsKept
    <3> QED
      BY <1>4, <2>1, <2>2, <3>1, <3>2 DEF Succeed, OwnFile, Truthful, Holds
  <2>8. OwnMemory'
    <3>1. ~outlived => Holds(mem', done', artifacts')
      BY <2>1, <2>3, <2>5, <2>6, ClaimsKept
    <3> QED
      BY <1>4, <3>1 DEF Succeed, OwnMemory, Truthful, Holds
  <2>9. Passed'
    BY <1>0, <1>4, <2>1, <2>5 DEF Succeed, Passed, Working
  <2> QED
    BY <2>2, <2>4, <2>7, <2>8, <2>9
<1>5. ASSUME Fail
      PROVE  (Generations /\ Memory /\ OwnFile /\ OwnMemory /\ Passed)'
  <2>1. at \in Step /\ pc = "run" /\ pc' = "recordFailure"
    BY <1>5, Filter, Within DEF Fail, Memory, TypeOK
  <2>2. Generations' /\ Source(gen)' = Source(gen) /\ gen' = gen
    BY <1>5 DEF Fail, files, Generations, Source
  <2>3. mem'.version = 2 /\ mem'.gen = gen
        /\ (mem'.handoff = mem.handoff \/ at = Apply)
        /\ (mem'.status[at] # "success" \/ (at = Apply /\ mem'.handoff))
        /\ \A t \in Step \ {at} : mem'.status[t] = mem.status[t]
    BY <1>a, <1>5, <2>1 DEF Fail, Outcome, HandsOff, State, Status
  <2>4. Memory'
    BY <1>5, <2>1, <2>2, <2>3 DEF Fail, Memory, Working
  <2>5. done \ {at} \subseteq done' /\ artifacts' \ {at} \subseteq artifacts
    BY <1>5 DEF Fail, Halfway
  <2>6. ~outlived => Holds(mem, done, artifacts)
    BY <1>0 DEF OwnMemory, Truthful, Holds
  <2>7. OwnFile'
    <3>1. Loaded(Source(gen), gen) = mem
      BY <1>0, <1>a, <2>1, SavedOwn DEF Memory
    <3>2. mem.status[at] # "success" \/ (at = Apply /\ mem.handoff)
      BY <2>1 DEF Memory, HandsOff
    <3>3. ~outlived => Holds(mem, done', artifacts')
      BY <2>1, <2>5, <2>6, <3>2, ClaimsKept
    <3> QED
      BY <1>5, <2>1, <2>2, <3>1, <3>3 DEF Fail, OwnFile, Truthful, Holds
  <2>8. OwnMemory'
    <3>1. ~outlived => Holds(mem', done', artifacts')
      BY <2>1, <2>3, <2>5, <2>6, ClaimsKept
    <3> QED
      BY <1>5, <3>1 DEF Fail, OwnMemory, Truthful, Holds
  <2>9. Passed'
    <3>1. \A s \in Step : s < at => s # at
      BY <2>1 DEF Step
    <3> QED
      BY <1>0, <1>5, <2>1, <2>5, <3>1 DEF Fail, Passed, Working
  <2> QED
    BY <2>2, <2>4, <2>7, <2>8, <2>9
<1>6. ASSUME Record
      PROVE  (Generations /\ Memory /\ OwnFile /\ OwnMemory /\ Passed)'
  <2>1. at \in Step
    BY <1>6, Filter, Within DEF Record, Memory, TypeOK
  <2>2. scoped'[gen] = mem /\ gen' = gen
    BY <1>0, <1>6 DEF Record, Save, TypeOK
  <2>3. Generations'
    BY <1>0, <1>6 DEF Record, Save, Generations, TypeOK
  <2>4. Memory' /\ OwnMemory'
    BY <1>0, <1>a, <1>6, <2>2
       DEF Record, End, world, Memory, OwnMemory, Working, Truthful
  <2>5. OwnFile'
    <3>1. Source(gen)' = mem
      BY <1>a, <2>2 DEF Source
    <3>2. Loaded(Source(gen)', gen) = mem
      BY <1>0, <1>a, <3>1, LoadedOwn
    <3> QED
      BY <1>0, <1>6, <2>2, <3>2 DEF Record, world, OwnMemory, OwnFile, Truthful
  <2>6. Passed'
    <3>1. \A s \in Step : s < at + 1 => s < at \/ s = at
      BY <2>1 DEF Step
    <3> QED
      BY <1>0, <1>6, <3>1 DEF Record, End, world, Passed, Working
  <2> QED
    BY <2>3, <2>4, <2>5, <2>6
<1> QED
  BY <1>1, <1>2, <1>3, <1>4, <1>5, <1>6

(* A deployment ends, and what happens between deployments.                *)
LEMMA OtherStep ==
  ASSUME ResumeInv,
         Ready \/ NotReady \/ Stop \/ Destroy \/ InitCluster
           \/ (\E a \in Artifact : Wipe(a)) \/ UNCHANGED vars
  PROVE  (Generations /\ Memory /\ OwnFile /\ OwnMemory /\ Passed)'
<1> USE DEF ResumeInv
<1>0. pc # "idle" => gen \in Gen /\ gen # NoGen
  BY DEF Generations, TypeOK
<1>1. ASSUME Ready
      PROVE  (Generations /\ Memory /\ OwnFile /\ OwnMemory /\ Passed)'
  <2>1. (Generations /\ Memory /\ OwnFile /\ OwnMemory)'
    BY <1>1 DEF Ready, files, world, Generations, Memory, OwnFile, OwnMemory,
                Working, Source, Truthful
  <2>2. opts \in {Resume, Restart} => \A s \in Step : s < at
    <3>1. Resume.last = NSteps /\ Restart.last = NSteps
      BY DEF Resume, Restart
    <3>2. at > NSteps /\ at \in 1..(NSteps + 1) => \A s \in Step : s < at
      BY DEF Step
    <3> QED
      BY <1>1, <3>1, <3>2 DEF Ready, TypeOK
  <2>3. Passed'
    BY <1>1, <2>2 DEF Ready, world, Passed, Working, TypeOK
  <2> QED
    BY <2>1, <2>3
<1>2. ASSUME NotReady
      PROVE  (Generations /\ Memory /\ OwnFile /\ OwnMemory /\ Passed)'
  BY <1>2 DEF NotReady, End, files, world, Generations, Memory, OwnFile,
              OwnMemory, Passed, Working, Source, Truthful
<1>3. ASSUME Stop
      PROVE  (Generations /\ Memory /\ OwnFile /\ OwnMemory /\ Passed)'
  <2>1. Generations'
    BY <1>0, <1>3 DEF Stop, End, Generations, TypeOK
  <2>2. (Memory /\ OwnMemory /\ Passed)'
    BY <1>3 DEF Stop, End, Memory, OwnMemory, Passed, Working
  <2>3. OwnFile'
    <3>1. gen' = gen /\ legacy' = legacy /\ gen \in Gen /\ gen # NoGen
      BY <1>0, <1>3 DEF Stop
    <3> SUFFICES ASSUME ~outlived' PROVE NextFile'
      BY DEF OwnFile, NextFile
    <3>2. ~outlived /\ (pc \in {"clear", "clearAll"} => legacy = NoFile)
      BY <1>3 DEF Stop, TypeOK
    <3>3. CASE scoped' # scoped
      <4>1. Source(gen)' = Torn
        BY <1>3, <3>1, <3>3 DEF Stop, Source, TypeOK
      <4> QED
        BY <3>1, <4>1, FreshTruthful DEF NextFile, Loaded, Truthful, Fresh
    <3>4. CASE scoped' = scoped /\ pc # "run"
      BY <1>3, <3>1, <3>2, <3>4
         DEF Stop, world, OwnFile, NextFile, Source, Truthful
    <3>5. CASE scoped' = scoped /\ pc = "run"
      <4>1. at \in Step
        BY <3>5, Filter, Within DEF Memory, TypeOK
      <4>2. mem \in State /\ mem.version = 2 /\ mem.gen = gen /\ scoped[gen] = mem
        BY <3>5 DEF Memory, Working, TypeOK
      <4>3. Loaded(Source(gen)', gen) = mem
        BY <3>1, <3>5, <4>2, SavedOwn DEF Source
      <4>4. mem.status[at] # "success" \/ (at = Apply /\ mem.handoff)
        BY <3>5 DEF Memory, HandsOff
      <4>5. Holds(mem, done, artifacts)
        BY <3>2, <3>5 DEF OwnMemory, Working, Truthful, Holds
      <4>6. done \ {at} \subseteq done' /\ artifacts' \ {at} \subseteq artifacts
        BY <1>3, <3>5 DEF Stop, Halfway
      <4>7. Holds(mem, done', artifacts')
        BY <4>1, <4>4, <4>5, <4>6, ClaimsKept
      <4> QED
        BY <3>1, <4>3, <4>7 DEF NextFile, Truthful, Holds
    <3> QED
      BY <3>3, <3>4, <3>5
  <2> QED
    BY <2>1, <2>2, <2>3
<1>4. ASSUME Destroy
      PROVE  (Generations /\ Memory /\ OwnFile /\ OwnMemory /\ Passed)'
  <2>1. Generations'
    BY <1>4 DEF Destroy, deployment, Generations, TypeOK
  <2>2. (Memory /\ OwnMemory /\ Passed)'
    BY <1>4 DEF Destroy, deployment, Memory, OwnMemory, Passed, Working
  <2>3. OwnFile'
    <3>1. gen' # NoGen /\ ~outlived' => gen' \in Gen /\ Source(gen)' = NoFile
      BY <1>4 DEF Destroy, Source, TypeOK
    <3> QED
      BY <3>1, FreshTruthful DEF OwnFile, Loaded, Truthful, Fresh
  <2> QED
    BY <2>1, <2>2, <2>3
<1>5. ASSUME InitCluster
      PROVE  (Generations /\ Memory /\ OwnFile /\ OwnMemory /\ Passed)'
  <2>1. Generations'
    BY <1>5 DEF InitCluster, files, deployment, Generations
  <2>2. (Memory /\ OwnMemory /\ Passed)'
    BY <1>5 DEF InitCluster, deployment, Memory, OwnMemory, Passed, Working, Generations
  <2>3. OwnFile'
    <3>1. gen' \in Gen /\ Source(gen)' = NoFile
      BY <1>5 DEF InitCluster, files, Source, Generations
    <3> QED
      BY <3>1, FreshTruthful DEF OwnFile, Loaded, Truthful, Fresh
  <2> QED
    BY <2>1, <2>2, <2>3
<1>6. ASSUME NEW a \in Artifact, Wipe(a)
      PROVE  (Generations /\ Memory /\ OwnFile /\ OwnMemory /\ Passed)'
  <2>1. (Generations /\ Memory /\ OwnMemory /\ Passed)'
    BY <1>6 DEF Wipe, files, deployment, Generations, Memory, OwnMemory, Passed, Working
  <2>2. OwnFile'
    BY <1>6 DEF Wipe, files, deployment, OwnFile, Source, Truthful, Artifact
  <2> QED
    BY <2>1, <2>2
<1>7. ASSUME UNCHANGED vars
      PROVE  (Generations /\ Memory /\ OwnFile /\ OwnMemory /\ Passed)'
  BY <1>7 DEF vars, files, world, deployment, Generations, Memory, OwnFile,
              OwnMemory, Passed, Working, Source, Truthful, HandsOff
<1> QED
  BY <1>1, <1>2, <1>3, <1>4, <1>5, <1>6, <1>7

LEMMA ResumeStep == ResumeInv /\ [Next]_vars => ResumeInv'
<1> SUFFICES ASSUME ResumeInv, [Next]_vars PROVE ResumeInv'
  OBVIOUS
<1>1. TypeOK'
  BY TypeStep DEF ResumeInv
<1>2. (Generations /\ Memory /\ OwnFile /\ OwnMemory /\ Passed)'
  BY PrepareStep, WorkStep, OtherStep DEF Next, Deploying
<1> QED
  BY <1>1, <1>2 DEF ResumeInv

(* The invariant holds, for any provider's steps, generations and faults.  *)
THEOREM Resuming == Spec => []ResumeInv
  BY InitInv, ResumeStep, PTL DEF Spec

(* Every variable keeps its type.                                          *)
THEOREM BootstrapTypes == Spec => []TypeOK
<1>1. ResumeInv => TypeOK
  BY DEF ResumeInv
<1> QED
  BY <1>1, Resuming, PTL

(* However a deployment ends, the next one skips no step that the present  *)
(* machines lack (provisionInfrastructure, loadBootstrapState), unless a   *)
(* state file has outlived them.                                           *)
THEOREM ResumesSoundly == Spec => []ResumesOwnWork
<1>1. ResumeInv => ResumesOwnWork
  BY DEF ResumeInv, OwnFile, ResumesOwnWork
<1> QED
  BY <1>1, Resuming, PTL

(* A deployment of all steps that ends well leaves every step done.        *)
THEOREM CompletesWork == Spec => []CompleteWhenReady
<1>1. ResumeInv => CompleteWhenReady
  BY DEF ResumeInv, Passed, CompleteWhenReady
<1> QED
  BY <1>1, Resuming, PTL
=============================================================================

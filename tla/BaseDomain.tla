----------------------------- MODULE BaseDomain -----------------------------
(***************************************************************************)
(* Who owns a cluster's DNS domain.  The CLI settings file may name a      *)
(* default domain for all clusters; a cluster's configuration file names   *)
(* its own, and says whether it follows the settings ("default") or owns   *)
(* the value ("pinned").  Every load applies the settings                  *)
(* (config/v2/settings_provenance.go), every command that changes anything *)
(* loads the file and later writes it back whole (cmd/cluster_set.go,      *)
(* config/status.go, cluster/setup_service.go), and no lock is held in     *)
(* between.                                                                *)
(***************************************************************************)
EXTENDS Naturals

CONSTANTS
  Process,      \* processes that run one command after another
  Pipeline,     \* those of them that generate and deploy; all use `set`
  Domain,       \* domains an operator may name
  Placeholder,  \* the domain `cluster init` writes when it is given none
  None,         \* no value
  Custom,       \* an FQDN somebody wrote by hand
  MaxEdits,     \* bound on changes of the settings and uses of `cluster set`
  MaxFaults     \* bound on kills, failed saves and failed generations

ASSUME DomainAssumption ==
  /\ Pipeline \subseteq Process
  /\ Placeholder \in Domain
  /\ None \notin Domain /\ Custom \notin Domain /\ None # Custom
  /\ MaxEdits \in Nat /\ MaxFaults \in Nat

VARIABLES
  settings,  \* cluster_defaults.base_domain of settings.yaml, or None
  file,      \* what the cluster's configuration file says
  tree,      \* the domain the GitOps tree was last rendered with, or None
  run,       \* what each process is doing
  edits, faults

vars == <<settings, file, tree, run, edits, faults>>

(* An FQDN is written as the domain it is derived from. *)
Config ==
  [domain: Domain, fqdn: Domain \cup {Custom, None},
   managed: {"absent", "default", "pinned"},
   stamp: Domain \cup {None}, stage: {"init", "setup", "bootstrap"}]

ASSUME CopyAssumption == None \notin Config

(* `flag` is --follow-settings of set and --sync-base-domain of generate.  *)
(* `assign` is the domain that set is given, None when it sets something   *)
(* else.                                                                   *)
Order ==
  [does: {"set", "generate", "deploy"}, assign: Domain \cup {None},
   flag: BOOLEAN]

Step ==
  {"idle", "set", "mark", "read", "load", "detect", "persist", "sync",
   "render", "work", "stamp", "end"}

(* A command holds a copy of the configuration from a load to a save; the  *)
(* copy is fresh until another command writes the file (history, not in    *)
(* the code).  `seen` is what the file held before the load, `want` the    *)
(* settings when drift was detected, `rendered` the domain to stamp.       *)
Run ==
  [step: Step, order: Order, copy: Config \cup {None}, fresh: BOOLEAN,
   seen: Domain \X (Domain \cup {None}), want: Domain \cup {None},
   rendered: Domain \cup {None}]

Idle ==
  [step |-> "idle",
   order |-> [does |-> "set", assign |-> None, flag |-> FALSE],
   copy |-> None, fresh |-> FALSE, seen |-> <<Placeholder, None>>,
   want |-> None, rendered |-> None]

-----------------------------------------------------------------------------
(* Loading *)

(* A bug to catch: a placeholder is taken over whatever its FQDN says. *)
AdoptsAnyName(c) ==
  c.domain = Placeholder /\ settings \notin {None, Placeholder}

(* The domain is still the placeholder, and nobody wrote an FQDN.  Whether *)
(* the field is pinned is not asked.                                       *)
Adopts(c) ==
  /\ c.domain = Placeholder
  /\ settings \notin {None, Placeholder}
  /\ c.fqdn \in {None, Placeholder}

(* A bug to catch: a domain that has been set is never moved again. *)
HydrateOnce(c) ==
  IF Adopts(c)
  THEN [c EXCEPT !.managed = "default", !.domain = settings, !.fqdn = settings]
  ELSE IF c.managed = "default"
  THEN [c EXCEPT !.fqdn = c.domain]
  ELSE [c EXCEPT !.managed = "pinned",
                 !.fqdn = IF c.fqdn = None THEN c.domain ELSE c.fqdn]

(* What a load makes of the file. *)
Hydrate(c) ==
  IF c.managed = "default" \/ Adopts(c)
  THEN LET d == IF settings = None THEN c.domain ELSE settings
       IN [c EXCEPT !.managed = "default", !.domain = d, !.fqdn = d]
  ELSE [c EXCEPT !.managed = "pinned",
                 !.fqdn = IF c.fqdn = None THEN c.domain ELSE c.fqdn]

(* Generation finds that the cluster follows the settings, and that its    *)
(* last generation was of another domain.                                  *)
Propagated(r) ==
  /\ r.copy.managed = "default"
  /\ r.seen[1] = settings
  /\ r.seen[2] \notin {None, settings}

-----------------------------------------------------------------------------
(* Saving *)

(* A bug to catch: the FQDN keeps the domain it was derived from. *)
AssignedBare(r) ==
  IF r.order.assign = None THEN r.copy
  ELSE [r.copy EXCEPT !.domain = r.order.assign,
                      !.managed = IF r.order.flag THEN "default" ELSE "pinned"]

Assigned(r) ==
  IF r.order.assign = None THEN r.copy
  ELSE [r.copy EXCEPT !.domain = r.order.assign, !.fqdn = r.order.assign,
                      !.managed = IF r.order.flag THEN "default" ELSE "pinned"]

(* A deployed cluster owns its domain. *)
Marked(r) ==
  IF r.order.does = "deploy"
  THEN [r.copy EXCEPT !.stage = "bootstrap", !.managed = "pinned"]
  ELSE [r.copy EXCEPT !.stage = "setup"]

Stamped(c, d) == [c EXCEPT !.stamp = d]

(* The command goes on to step s without its copy. *)
At(r, s) == [Idle EXCEPT !.step = s, !.order = r.order]

(* What a command does after its update of the configuration. *)
Then(r) ==
  CASE r.step \in {"set", "end"} -> Idle
    [] r.step = "stamp" -> At(r, "end")
    [] r.step = "mark" -> At(r, IF r.order.does = "deploy" THEN "work" ELSE "read")

Goto(p, s) == run' = [run EXCEPT ![p].step = s]

(* Process p writes the file and goes on with r. *)
Write(p, c, r) ==
  /\ file' = c
  /\ run' = [q \in Process |->
               IF q = p THEN r ELSE [run[q] EXCEPT !.fresh = FALSE]]

-----------------------------------------------------------------------------
Init ==
  /\ settings \in Domain \cup {None}
  /\ file \in Config
  /\ file.stamp = None /\ file.stage = "init"
  /\ \/ file.managed = "absent" /\ file.fqdn \in {None, Custom, file.domain}
     \/ file.managed = "default" /\ file.fqdn = file.domain
  /\ tree = None
  /\ run = [p \in Process |-> Idle]
  /\ edits = 0 /\ faults = 0

(* `settings set cluster_defaults.base_domain`, or an editor. *)
ChangeSettings(d) ==
  /\ edits < MaxEdits
  /\ settings' = d /\ settings # d
  /\ edits' = edits + 1
  /\ UNCHANGED <<file, tree, run, faults>>

StartSet(p, d, follow) ==
  /\ run[p].step = "idle"
  /\ edits < MaxEdits
  /\ run' = [run EXCEPT
       ![p].step = "set",
       ![p].order = [does |-> "set", assign |-> d, flag |-> follow]]
  /\ edits' = edits + 1
  /\ UNCHANGED <<settings, file, tree, faults>>

StartGenerate(p, sync) ==
  /\ run[p].step = "idle"
  /\ run' = [run EXCEPT
       ![p].step = "mark",
       ![p].order = [does |-> "generate", assign |-> None, flag |-> sync]]
  /\ UNCHANGED <<settings, file, tree, edits, faults>>

(* Deployments of a cluster exclude each other (FileLock). *)
StartDeploy(p) ==
  /\ run[p].step = "idle"
  /\ \A q \in Process : run[q].step = "idle" \/ run[q].order.does # "deploy"
  /\ run' = [run EXCEPT
       ![p].step = "mark",
       ![p].order = [does |-> "deploy", assign |-> None, flag |-> FALSE]]
  /\ UNCHANGED <<settings, file, tree, edits, faults>>

Updating(p) == run[p].step \in {"set", "mark", "stamp", "end"}

Load(p) ==
  /\ Updating(p) \/ run[p].step = "load"
  /\ run[p].copy = None
  /\ run' = [run EXCEPT
       ![p].copy = Hydrate(file), ![p].fresh = TRUE,
       ![p].step = IF @ = "load" THEN "detect" ELSE @]
  /\ UNCHANGED <<settings, file, tree, edits, faults>>

(* A live cluster may not follow the settings. *)
Refused(r) ==
  /\ r.order.assign # None /\ r.order.flag
  /\ r.copy.stage = "bootstrap"

Set(p) ==
  /\ run[p].step = "set" /\ run[p].copy # None
  /\ IF Refused(run[p])
     THEN run' = [run EXCEPT ![p] = Idle] /\ UNCHANGED file
     ELSE Write(p, Assigned(run[p]), Idle)
  /\ UNCHANGED <<settings, tree, edits, faults>>

(* UpdateStatus, before and after the work of a command. *)
Mark(p) ==
  /\ run[p].step \in {"mark", "end"} /\ run[p].copy # None
  /\ Write(p, Marked(run[p]), Then(run[p]))
  /\ UNCHANGED <<settings, tree, edits, faults>>

Stamp(p) ==
  /\ run[p].step = "stamp" /\ run[p].copy # None
  /\ IF run[p].copy.stamp = run[p].rendered
     THEN run' = [run EXCEPT ![p] = Then(@)] /\ UNCHANGED file
     ELSE Write(p, Stamped(run[p].copy, run[p].rendered), Then(run[p]))
  /\ UNCHANGED <<settings, tree, edits, faults>>

(* An update that fails ends `set`; the other commands warn and go on. *)
UpdateFails(p) ==
  /\ Updating(p)
  /\ faults < MaxFaults
  /\ run' = [run EXCEPT ![p] = Then(@)]
  /\ faults' = faults + 1
  /\ UNCHANGED <<settings, file, tree, edits>>

Read(p) ==
  /\ run[p].step = "read"
  /\ run' = [run EXCEPT ![p].seen = <<file.domain, file.stamp>>,
                        ![p].step = "load"]
  /\ UNCHANGED <<settings, file, tree, edits, faults>>

Prepared(r) == IF r.order.flag THEN "sync" ELSE "render"

(* The domain to stamp is chosen here, before --sync-base-domain moves it. *)
Detect(p) ==
  /\ run[p].step = "detect"
  /\ run' = [run EXCEPT
       ![p].want = settings,
       ![p].rendered = run[p].copy.domain,
       ![p].step = IF Propagated(run[p]) THEN "persist" ELSE Prepared(run[p])]
  /\ UNCHANGED <<settings, file, tree, edits, faults>>

Persist(p) ==
  /\ run[p].step = "persist"
  /\ Write(p, Stamped(run[p].copy, run[p].copy.domain),
           [run[p] EXCEPT !.step = Prepared(run[p])])
  /\ UNCHANGED <<settings, tree, edits, faults>>

Synced(r) == [r.copy EXCEPT !.domain = r.want, !.fqdn = r.want]

(* A bug to catch: the settings name no domain, and nobody looks. *)
SyncUnchecked(p) ==
  /\ run[p].step = "sync"
  /\ LET c == Synced(run[p])
     IN Write(p, Stamped(c, c.domain), [run[p] EXCEPT !.step = "render", !.copy = c])
  /\ UNCHANGED <<settings, tree, edits, faults>>

Sync(p) ==
  /\ run[p].step = "sync" /\ run[p].want # None
  /\ LET c == Synced(run[p])
         r == [run[p] EXCEPT !.step = "render", !.copy = c]
     IN IF c = run[p].copy
        THEN Goto(p, "render") /\ UNCHANGED file
        ELSE Write(p, Stamped(c, c.domain), r)
  /\ UNCHANGED <<settings, tree, edits, faults>>

SyncRefused(p) ==
  /\ run[p].step = "sync" /\ run[p].want = None
  /\ run' = [run EXCEPT ![p] = At(@, "end")]
  /\ UNCHANGED <<settings, file, tree, edits, faults>>

Render(p) ==
  /\ run[p].step = "render"
  /\ tree' = run[p].copy.domain
  /\ run' = [run EXCEPT ![p] = [At(@, "stamp") EXCEPT !.rendered = run[p].rendered]]
  /\ UNCHANGED <<settings, file, edits, faults>>

(* The deployment itself: see Bootstrap. *)
Work(p) ==
  /\ run[p].step = "work"
  /\ Goto(p, "end")
  /\ UNCHANGED <<settings, file, tree, edits, faults>>

(* Generation fails, and what it promoted is rolled back (TreePromotion). *)
Fails(p) ==
  /\ run[p].step \in {"read", "load", "detect", "persist", "sync", "render", "work"}
  /\ faults < MaxFaults
  /\ run' = [run EXCEPT ![p] = At(@, "end")]
  /\ faults' = faults + 1
  /\ UNCHANGED <<settings, file, tree, edits>>

Kill(p) ==
  /\ run[p].step # "idle"
  /\ faults < MaxFaults
  /\ run' = [run EXCEPT ![p] = Idle]
  /\ faults' = faults + 1
  /\ UNCHANGED <<settings, file, tree, edits>>

(* A command takes its next step. *)
Goes(p) ==
  \/ Load(p) \/ Set(p) \/ Mark(p) \/ Stamp(p) \/ Read(p) \/ Detect(p)
  \/ Persist(p) \/ Sync(p) \/ SyncRefused(p) \/ Render(p) \/ Work(p)

Next ==
  \/ \E d \in Domain \cup {None} : ChangeSettings(d)
  \/ \E p \in Process :
       \/ Goes(p)
       \/ \E d \in Domain \cup {None}, f \in BOOLEAN : StartSet(p, d, f)
       \/ p \in Pipeline /\ \E s \in BOOLEAN : StartGenerate(p, s)
       \/ p \in Pipeline /\ StartDeploy(p)
       \/ UpdateFails(p)
       \/ Fails(p)
       \/ Kill(p)

Spec == Init /\ [][Next]_vars

(* Commands that have begun go on, and operators keep generating. *)
FairSpec ==
  /\ Spec
  /\ \A p \in Process : WF_vars(Goes(p))
  /\ \A p \in Pipeline : SF_vars(StartGenerate(p, FALSE))

-----------------------------------------------------------------------------
TypeOK ==
  /\ settings \in Domain \cup {None}
  /\ file \in Config
  /\ tree \in Domain \cup {None}
  /\ run \in [Process -> Run]
  /\ edits \in 0 .. MaxEdits
  /\ faults \in 0 .. MaxFaults

(* The FQDN on disk is derived from the domain on disk, unless somebody    *)
(* wrote it by hand, whatever commands wrote the file (settings_provenance *)
(* applySettingsProvenance, cluster_set.go: "so the identity fields cannot *)
(* disagree on disk").                                                     *)
Agrees(c) == c.fqdn \in {c.domain, Custom, None}
IdentityAgrees == Agrees(file)

(* The cluster owns its domain and no load will mistake it for the         *)
(* placeholder.                                                            *)
Owned(c) ==
  /\ c.managed = "pinned"
  /\ c.domain # Placeholder \/ c.fqdn \notin {None, Placeholder}

Identity(c) == <<c.domain, c.fqdn>>

(* Process p writes the file in this step. *)
Writes(p) == file' # file /\ run'[p].step # run[p].step

(* Somebody asked process p for another domain. *)
Asked(p) ==
  \/ run[p].step = "set" /\ run[p].order.assign # None
  \/ run[p].step = "sync"

(* A domain that a cluster owns stays what it is through every change of   *)
(* the settings and every load, generation, deployment, failure and kill:  *)
(* it moves when an operator asks, or when a command writes back a copy    *)
(* that another command has made stale.                                    *)
OwnedStays ==
  [][Owned(file) =>
       \/ Owned(file') /\ Identity(file') = Identity(file)
       \/ \E p \in Process : Writes(p) /\ (Asked(p) \/ ~run[p].fresh)]_vars

(* When the settings and the configuration have settled, the tree is one   *)
(* rendered with the configured domain, which is that of the settings if   *)
(* the cluster follows them.                                               *)
EventuallyAgrees ==
  <>[](/\ tree = file.domain
       /\ file.managed = "default" /\ settings # None
            => file.domain = settings)
=============================================================================

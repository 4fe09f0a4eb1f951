---------------------------- MODULE KeyLifecycle ----------------------------
(***************************************************************************)
(* internal/secrets: rotation, its completion, revocation, emergency       *)
(* revocation and reconciliation of the Age keys of one cluster, run by    *)
(* concurrent opencenter commands.  Each changes .sops.yaml, re-encrypts   *)
(* the manifests one by one, and commits to the key registry last; an      *)
(* error before that restores the files from an in-memory backup.  Only    *)
(* single registry calls are locked, never a whole command, and a command  *)
(* may be killed between any two steps.                                    *)
(***************************************************************************)
EXTENDS KeyRegistry, Naturals

CONSTANTS
  Cluster,       \* the group of the cluster's Age keys
  Rule,          \* creation rules of the cluster's .sops.yaml
  Manifest,      \* encrypted manifests of the overlay
  SopsConfig,    \* .sops.yaml, as a file to restore
  RuleOf,        \* the first rule that matches a manifest
  InitialRules,    \* contents .sops.yaml may have at first,
  InitialStatus,   \*   the registry entries,
  InitialPrimary,  \*   the primaries among them,
  InitialKeyFile,  \*   and the key file: a set of keys, NoKey for none
  Held,          \* private keys sops finds outside the cluster's key file
  Proc,          \* processes that may run a command at the same time
  Commands,      \* bound: the commands they run
  Flaky,         \* bound: the manifests that a loop may find unreadable
  MaxCrashes     \* bound: commands killed in a behaviour

ASSUME ClusterAssumption ==
  /\ RuleOf \in [Manifest -> Rule]
  /\ InitialRules \subseteq [Rule -> SUBSET Key]
  /\ InitialStatus \in [Key -> {"absent", "active", "archived", "revoked"}]
  /\ InitialPrimary \subseteq Key
  /\ InitialKeyFile \subseteq Key \union {NoKey}
  /\ Held \subseteq Key
  /\ Flaky \subseteq Manifest
  /\ MaxCrashes \in Nat

(* What the registry's own operations lead to (OnePrimary, SomeRecipient), *)
(* and rules that name no retired key.                                     *)
ASSUME InitialAssumption ==
  /\ \A k \in InitialPrimary : InitialStatus[k] = "active"
  /\ \A j, k \in InitialPrimary : GroupOf[j] = GroupOf[k] => j = k
  /\ (\E k \in Key : InitialStatus[k] # "absent") =>
       \E k \in Key : InitialStatus[k] = "active" /\ GroupOf[k] \in AgeGroup
  /\ \A R \in InitialRules, r \in Rule :
       \A k \in R[r] : InitialStatus[k] \notin Inactive

VARIABLES
  rules,        \* .sops.yaml: the recipients each rule names
  recipients,   \* the recipients each manifest is encrypted to
  skipped,      \* history: manifests that a command could not read, passed
                \*   over in silence, and none has re-encrypted since
  keyFile,      \* the key in <cluster>.txt, which SOPS_AGE_KEY_FILE names
  known,        \* keys generated so far
  run,          \* what each command is doing
  crashes       \* commands killed so far

files == <<rules, recipients, skipped>>
vars == <<regVars, files, keyFile, known, run, crashes>>

Members == {k \in Key : GroupOf[k] = Cluster}
Mine == Members \intersect Active

Ops == {"none", "rotate", "complete", "revoke", "emergency", "reconcile"}
Steps == {"idle", "generate", "backup", "edit", "write", "reencrypt", "commit",
          "rollback", "precheck", "import", "promote"}

(* A command: its step, the key it replaces or removes, the key it adds,   *)
(* the key an emergency is about, its edit of .sops.yaml, the backups of   *)
(* its RollbackManager (with what was skipped when they were taken), the   *)
(* files or keys it has left to do, and whether a manifest failed.         *)
Command == [op : Ops, at : Steps, old : Key \union {NoKey},
            new : Key \union {NoKey}, target : Key \union {NoKey},
            draft : [Rule -> SUBSET Key],
            saved : [rules : [Rule -> SUBSET Key],
                     recipients : [Manifest -> SUBSET Key],
                     skipped : SUBSET Manifest],
            todo : SUBSET (Manifest \union {SopsConfig} \union Key),
            outcome : {"ok", "failed"}]

NoRules == [r \in Rule |-> {}]
NoBackup == [rules |-> NoRules, recipients |-> [m \in Manifest |-> {}],
             skipped |-> {}]
Idle == [op |-> "none", at |-> "idle", old |-> NoKey, new |-> NoKey,
         target |-> NoKey, draft |-> NoRules, saved |-> NoBackup, todo |-> {},
         outcome |-> "ok"]

TypeOK ==
  /\ RegistryTypeOK
  /\ rules \in [Rule -> SUBSET Key]
  /\ recipients \in [Manifest -> SUBSET Key]
  /\ skipped \in SUBSET Manifest
  /\ keyFile \in Key \union {NoKey}
  /\ known \in SUBSET Key
  /\ run \in [Proc -> Command]
  /\ crashes \in 0..MaxCrashes

(* The keys the creation rules name.                                       *)
Named == UNION {rules[r] : r \in Rule}

(* A cluster at rest: every manifest encrypted by its rule.                *)
Init ==
  /\ status = InitialStatus
  /\ primary = InitialPrimary
  /\ rotatedFrom = [k \in Key |-> NoKey]
  /\ rules \in InitialRules
  /\ recipients = [m \in Manifest |-> rules[RuleOf[m]]]
  /\ skipped = {}
  /\ keyFile \in InitialKeyFile
  /\ known = Named \union Held \union {k \in Key : status[k] # "absent"}
  /\ run = [p \in Proc |-> Idle]
  /\ crashes = 0

-----------------------------------------------------------------------------
(* Reading: what sops can decrypt, and the state of a rotation.            *)

Reachable == Held \union ({keyFile} \ {NoKey})

(* The registry is encrypted to the active Age keys of all clusters.       *)
RegistryReadable ==
  \/ \A k \in Key : status[k] = "absent"
  \/ \E k \in Reachable : k \in Active /\ GroupOf[k] \in AgeGroup

(* GetRotationStatus: the successor of a pending rotation, if it is clear. *)
Successors == {k \in Mine : rotatedFrom[k] \in Mine}

PendingSuccessor(k) ==
  \/ Successors = {k}
  \/ Cardinality(Successors) > 1 /\ Successors \intersect primary = {k}

-----------------------------------------------------------------------------
(* How each command edits the creation rules.                              *)

\* A bug to catch: the successor takes the predecessor's place at once.
WithReplacement(old, new) ==
  [r \in Rule |-> IF old \in rules[r] THEN (rules[r] \ {old}) \union {new}
                                      ELSE rules[r]]

WithSuccessor(old, new) ==
  [r \in Rule |-> IF old \in rules[r] THEN rules[r] \union {new}
                                      ELSE rules[r]]

\* A bug to catch: the successor becomes the only recipient of the rule.
WithoutOthers(old, new) ==
  [r \in Rule |-> IF old \in rules[r] THEN {new} ELSE rules[r]]

WithoutRetired(old, new) ==
  [r \in Rule |-> IF old \in rules[r] THEN (rules[r] \ {old}) \union {new}
                                      ELSE rules[r]]

\* A bug to catch: a removal edits like a completion that has no successor.
WithoutButEmpty(k) == WithoutRetired(k, NoKey)

Without(k) == [r \in Rule |-> rules[r] \ {k}]

Edited(c) ==
  CASE c.op \in {"rotate", "emergency"} -> WithSuccessor(c.old, c.new)
    [] c.op = "complete" -> WithoutRetired(c.old, c.new)
    [] c.op = "revoke" -> Without(c.old)

-----------------------------------------------------------------------------
(* Starting a command.  Its refusals change nothing and have no action.    *)

Become(p, c) == run' = [run EXCEPT ![p] = c]

Begin(p, c) ==
  /\ c.op \in Commands
  /\ run[p] = Idle
  /\ RegistryReadable
  /\ Become(p, c)
  /\ UNCHANGED <<regVars, files, keyFile, known, crashes>>

StartRotate(p) ==
  \E old \in Mine \intersect primary :
    /\ Successors = {}
    /\ Begin(p, [Idle EXCEPT !.op = "rotate", !.at = "generate", !.old = old])

(* EmergencyRevoke of a fingerprint rotates the primary first.             *)
StartEmergency(p) ==
  \E old \in Mine \intersect primary, target \in Members \intersect known :
    /\ Successors = {}
    /\ Begin(p, [Idle EXCEPT !.op = "emergency", !.at = "generate",
                             !.old = old, !.target = target])

StartComplete(p) ==
  \E new \in Successors :
    /\ Mine \intersect primary # {}
    /\ PendingSuccessor(new)
    /\ Begin(p, [Idle EXCEPT !.op = "complete", !.at = "backup",
                             !.old = rotatedFrom[new], !.new = new])

NoDrift == Named \subseteq Mine

Revocable(k) ==
  /\ k \in Mine
  /\ Mine \ {k} # {}
  /\ NoDrift

Removal(k) == [Idle EXCEPT !.op = "revoke", !.at = "backup", !.old = k]

(* verifyReachablePrivateKey: without a key file there is nothing to check.*)
StartRevoke(p) ==
  \E k \in Mine \ primary :
    /\ Revocable(k)
    /\ keyFile \in (Mine \ {k}) \union {NoKey}
    /\ Begin(p, Removal(k))

-----------------------------------------------------------------------------
(* The steps of a command that changes keys.                               *)

(* GenerateKeyForCluster overwrites the cluster's key file.                *)
Generate(p) ==
  /\ run[p].at = "generate"
  /\ \E k \in Members \ known :
       /\ keyFile' = k
       /\ known' = known \union {k}
       /\ Become(p, [run[p] EXCEPT !.at = "backup", !.new = k])
  /\ UNCHANGED <<regVars, files, crashes>>

(* An error after the private key was written: when it comes from writing  *)
(* the public key, the key file is removed.                                *)
GenerateFails(p) ==
  /\ run[p].at = "generate"
  /\ \E k \in Members \ known :
       /\ keyFile' \in {k, NoKey}
       /\ known' = known \union {k}
  /\ Become(p, Idle)
  /\ UNCHANGED <<regVars, files, crashes>>

Backup(p) ==
  /\ run[p].at = "backup"
  /\ Become(p, [run[p] EXCEPT !.at = "edit",
                    !.saved = [rules |-> rules, recipients |-> recipients,
                               skipped |-> skipped]])
  /\ UNCHANGED <<regVars, files, keyFile, known, crashes>>

(* An error with nothing changed yet.                                      *)
Abort(p) ==
  /\ run[p].at \in {"generate", "backup"}
  /\ Become(p, Idle)
  /\ UNCHANGED <<regVars, files, keyFile, known, crashes>>

(* Reading .sops.yaml and computing its new content; a rule left without   *)
(* recipients is an error.                                                 *)
Edit(p) ==
  /\ run[p].at = "edit"
  /\ \A r \in Rule : Edited(run[p])[r] # {}
  /\ Become(p, [run[p] EXCEPT !.at = "write", !.draft = Edited(run[p])])
  /\ UNCHANGED <<regVars, files, keyFile, known, crashes>>

Write(p) ==
  /\ run[p].at = "write"
  /\ rules' = run[p].draft
  /\ Become(p, [run[p] EXCEPT !.at = "reencrypt", !.todo = Manifest])
  /\ UNCHANGED <<regVars, recipients, skipped, keyFile, known, crashes>>

(* One manifest: decrypted with a key at hand and encrypted to what its    *)
(* rule says now.                                                          *)
Reencrypt(p) ==
  /\ run[p].at = "reencrypt"
  /\ \E m \in run[p].todo :
       /\ recipients[m] \intersect Reachable # {}
       /\ recipients' = [recipients EXCEPT ![m] = rules[RuleOf[m]]]
       /\ skipped' = skipped \ {m}
       /\ Become(p, [run[p] EXCEPT !.todo = @ \ {m}])
  /\ UNCHANGED <<regVars, rules, keyFile, known, crashes>>

(* A manifest that cannot be decrypted or encrypted does not stop the loop.*)
ReencryptFails(p) ==
  /\ run[p].at = "reencrypt"
  /\ \E m \in run[p].todo :
       Become(p, [run[p] EXCEPT !.todo = @ \ {m}, !.outcome = "failed"])
  /\ UNCHANGED <<regVars, files, keyFile, known, crashes>>

(* A manifest that cannot be read when the loop looks for encrypted        *)
(* content costs a warning and is passed over: no error is collected.      *)
ReencryptSkips(p) ==
  /\ run[p].at = "reencrypt"
  /\ \E m \in run[p].todo \intersect Flaky :
       /\ skipped' = skipped \union {m}
       /\ Become(p, [run[p] EXCEPT !.todo = @ \ {m}])
  /\ UNCHANGED <<regVars, rules, recipients, keyFile, known, crashes>>

\* A bug to catch: only .sops.yaml is restored.
RulesOnly == {SopsConfig}

BackedUp == Manifest \union {SopsConfig}

RollingBack(c) == [c EXCEPT !.at = "rollback", !.todo = BackedUp]

\* A bug to catch: the errors collected by the loop are dropped.
AfterLoopUnchecked(c) == [c EXCEPT !.at = "commit"]

AfterLoop(c) ==
  IF c.outcome = "ok" THEN [c EXCEPT !.at = "commit"] ELSE RollingBack(c)

LoopEnds(p) ==
  /\ run[p].at = "reencrypt"
  /\ run[p].todo = {}
  /\ Become(p, AfterLoop(run[p]))
  /\ UNCHANGED <<regVars, files, keyFile, known, crashes>>

\* A bug to catch: the new primary is written over a stale snapshot.
ReplaceUnchecked(c) ==
  /\ status' = [status EXCEPT ![c.new] = "active"]
  /\ primary' = (primary \ {c.old}) \union {c.new}
  /\ rotatedFrom' = [rotatedFrom EXCEPT ![c.new] = c.old]

Replace(c) == ReplacePrimary(c.old, c.new, "active")

(* The registry call that makes the change official.                       *)
Commit(p) ==
  /\ run[p].at = "commit"
  /\ RegistryReadable
  /\ \/ /\ run[p].op \in {"rotate", "emergency"}
        /\ Replace(run[p])
     \/ /\ run[p].op = "complete"
        /\ UpdateKeys({run[p].old}, "archived")
     \/ /\ run[p].op = "revoke"
        /\ UpdateKeys({run[p].old}, "revoked")
  /\ Become(p, IF run[p].op = "emergency"
               THEN [Idle EXCEPT !.op = "emergency", !.at = "precheck",
                                 !.target = run[p].target]
               ELSE Idle)
  /\ UNCHANGED <<files, keyFile, known, crashes>>

(* The second half of EmergencyRevoke, which does not ask whether the key  *)
(* is the primary or whether the operator can still decrypt.               *)
Precheck(p) ==
  /\ run[p].at = "precheck"
  /\ Become(p, IF RegistryReadable /\ Revocable(run[p].target)
               THEN Removal(run[p].target)
               ELSE Idle)
  /\ UNCHANGED <<regVars, files, keyFile, known, crashes>>

(* An error once files may have changed, the refusal of the registry among *)
(* them.                                                                   *)
Fail(p) ==
  /\ run[p].at \in {"edit", "write", "commit"}
  /\ Become(p, RollingBack(run[p]))
  /\ UNCHANGED <<regVars, files, keyFile, known, crashes>>

(* The backed-up files are restored one by one, in no particular order.    *)
Rollback(p) ==
  /\ run[p].at = "rollback"
  /\ \E f \in run[p].todo :
       /\ rules' = IF f = SopsConfig THEN run[p].saved.rules ELSE rules
       /\ recipients' = [m \in Manifest |-> IF m = f
            THEN run[p].saved.recipients[m] ELSE recipients[m]]
       /\ skipped' = (skipped \ {f}) \union ({f} \intersect run[p].saved.skipped)
       /\ Become(p, IF run[p].todo = {f} THEN Idle
                    ELSE [run[p] EXCEPT !.todo = @ \ {f}])
  /\ UNCHANGED <<regVars, keyFile, known, crashes>>

-----------------------------------------------------------------------------
(* Reconcile with apply: recipients of .sops.yaml that are not active are  *)
(* registered one by one; a sole active key without a primary gets the     *)
(* role.                                                                   *)

Drift == Named \ Mine

Chosen ==
  IF Mine \intersect primary = {} /\ \E k \in Key : Mine = {k}
  THEN [Idle EXCEPT !.op = "reconcile", !.at = "promote",
                    !.old = CHOOSE k \in Key : Mine = {k}]
  ELSE Idle

StartReconcile(p) ==
  /\ Drift # {} \/ Chosen # Idle
  /\ Begin(p, IF Drift = {} THEN Chosen
              ELSE [Idle EXCEPT !.op = "reconcile", !.at = "import",
                                !.todo = Drift])

Import(p) ==
  /\ run[p].at = "import"
  /\ RegistryReadable
  /\ \/ \E k \in run[p].todo :
          /\ RegisterKey(k)
          /\ Become(p, [run[p] EXCEPT !.todo = @ \ {k}])
     \/ /\ run[p].todo = {}
        /\ Become(p, Chosen)
        /\ UNCHANGED regVars
  /\ UNCHANGED <<files, keyFile, known, crashes>>

Promote(p) ==
  /\ run[p].at = "promote"
  /\ RegistryReadable
  /\ SetPrimaryKey(run[p].old)
  /\ Become(p, Idle)
  /\ UNCHANGED <<files, keyFile, known, crashes>>

(* The registry refuses a call, or the call fails.                         *)
ReconcileFails(p) ==
  /\ run[p].at \in {"import", "promote"}
  /\ Become(p, Idle)
  /\ UNCHANGED <<regVars, files, keyFile, known, crashes>>

(* opencenter secrets keys set-primary: one registry call.                 *)
SetPrimary ==
  /\ RegistryReadable
  /\ \E k \in Mine : SetPrimaryKey(k)
  /\ UNCHANGED <<files, keyFile, known, run, crashes>>

-----------------------------------------------------------------------------
(* A command is killed: its backups are lost with it.                      *)
Crash(p) ==
  /\ crashes < MaxCrashes
  /\ run[p] # Idle
  /\ Become(p, Idle)
  /\ crashes' = crashes + 1
  /\ UNCHANGED <<regVars, files, keyFile, known>>

Start(p) == StartRotate(p) \/ StartComplete(p) \/ StartRevoke(p)
              \/ StartEmergency(p) \/ StartReconcile(p)

Proceed(p) ==
  \/ Generate(p) \/ GenerateFails(p) \/ Backup(p) \/ Abort(p) \/ Edit(p)
  \/ Write(p) \/ Reencrypt(p) \/ ReencryptFails(p) \/ ReencryptSkips(p)
  \/ LoopEnds(p)
  \/ Commit(p) \/ Precheck(p) \/ Fail(p) \/ Rollback(p)
  \/ Import(p) \/ Promote(p) \/ ReconcileFails(p)

Next ==
  \/ \E p \in Proc : Start(p) \/ Proceed(p) \/ Crash(p)
  \/ SetPrimary

Spec == Init /\ [][Next]_vars

-----------------------------------------------------------------------------
Quiet == \A p \in Proc : run[p] = Idle

Consistent ==
  /\ \A m \in Manifest \ skipped : recipients[m] = rules[RuleOf[m]]
  /\ \A r \in Rule : rules[r] \intersect Retired = {}

(* rollback.go:28: operations "either complete fully or leave no partial   *)
(* changes": between commands every manifest is encrypted to exactly what  *)
(* its creation rule says, and no rule names a retired key, also when some *)
(* failed, at whatever step.  Two things break the promise: a kill, which  *)
(* loses the backups, and a manifest that a loop could not read, until a   *)
(* later command re-encrypts that manifest.                                *)
RolledBack == crashes = 0 /\ Quiet => Consistent

(* While a rotation is pending, between commands, the old key and the new  *)
(* one open the same manifests, but for those that a loop could not read.  *)
DualKey ==
  Quiet /\ crashes = 0 =>
    \A m \in Manifest \ skipped, k \in Successors :
      rotatedFrom[k] \in recipients[m] <=> k \in recipients[m]

(* A command takes from a manifest no key but the one it was asked to      *)
(* retire and the one it generated itself.  After a kill, a later command  *)
(* may also complete the removal that the killed one had begun; and a      *)
(* rollback takes a manifest that had been passed over back to where it    *)
(* was, without any of the keys added since.                               *)
OnlyTargetRemoved ==
  [][\A m \in Manifest \ skipped', k \in Mine :
       crashes = 0 /\ k \in recipients[m] \ recipients'[m]
         => \E p \in Proc : k \in {run[p].old, run[p].new}]_vars

(* A manifest that an authorized key can open keeps one, at every step.    *)
(* One that a loop could not read may lose its last when the command       *)
(* commits, or go back to that state in a rollback; re-encrypting it, even *)
(* then, never takes its last authorized key away.                         *)
StaysAuthorized ==
  [][\A m \in Manifest \ skipped' : recipients[m] \intersect Mine # {}
       => recipients'[m] \intersect Mine' # {}]_vars

(* From the commit on, and also after kills, a retired key is in no        *)
(* manifest but one that a loop could not read and that no later command   *)
(* has re-encrypted: the only way it can come back to light.               *)
RetiredOut ==
  \A m \in Manifest \ skipped : recipients[m] \intersect Retired = {}

(* Whatever the commands do to one another, the shared registry only ever  *)
(* moves as KeyRegistry allows.                                            *)
KeepsRegistry == [][regVars' # regVars => RegistryNext]_vars
=============================================================================

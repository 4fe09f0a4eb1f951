# openCenter in TLA+

openCenter is a command-line program that configures, deploys and operates
Kubernetes clusters. It has no server: every command is a process of its own that
reads and writes shared files (a cluster's configuration, its GitOps tree, its SOPS
manifests, the key registry, lock files) and calls external tools. What is hard
about it is therefore not in one function: it is what happens when two commands run
at once, when a command fails half-way, or when it is killed, and whether the files
it leaves behind still agree with one another.

This directory models those parts, checks them with TLC on small instances and
proves the most important results with TLAPS for every value of the constants.

    tlc -config KeyLifecycle.cfg MCKeyLifecycle.tla
    tlapm KeyLifecycleProofs.tla

## Inventory

Paths are below `src/internal/` unless they start with `cmd/`.

| component | code | state | operations | hard part |
|---|---|---|---|---|
| circuit breaker | `resilience/circuit_breaker.go` | breaker state, failure and success counts, half-open slots, opening time (in memory) | `Call` (before, after), `Reset` | a result arrives in another state than the one that admitted the call |
| lock manager | `resilience/lock_manager.go`, `cmd/cluster.go` | `<cluster>.lock` (flock and metadata), or a Redis key | acquire, release, force-break, inspect, refresh | unlink races, expired locks, killed holders, lost replies |
| retry policy | `resilience/retry.go` | none between calls | `Do` | retrying what was done |
| key registry | `secrets/registry.go` | an encrypted YAML file shared by all clusters | register, set primary, replace primary, update | any order of calls of several commands |
| key rotation | `secrets/rotation.go`, `rollback.go`, `sops_yaml.go` | `.sops.yaml`, manifests, key file, registry; in-memory backups | rotate, complete | four files changed in sequence, rollback, kills |
| key revocation | `secrets/revocation.go` | the same | revoke by fingerprint or user, emergency | checks made long before the change they protect |
| key reconciliation | `secrets/reconcile.go` | registry | report, apply | one import of several fails |
| secret synchronisation | `secrets/manager.go`, `secretartifacts` | artifacts in the overlay, the ledger of their hashes, journal (in memory), sync lock | `SyncSecrets` | kill between artifacts and ledger; a plan older than the lock |
| bootstrap service | `cluster/bootstrap_service.go`, `bootstrap_runtime.go`, `cmd/cluster_destroy.go` | saved step states per cluster generation, and those of older releases | deploy, resume, restart, destroy | a step that ran and was not recorded; state that outlives its machines |
| configuration | `config/v2/settings_provenance.go`, `cluster.go`, `config/status.go`, `cmd/cluster_set.go` | CLI settings, the cluster's configuration file with value, owner and stamp of its domain | load, save, set, status update | files loaded, changed and written back whole with no lock |
| cluster services | `cluster/*_service.go`, `cmd/cluster_generate.go` | cluster files, remote infrastructure | init, setup, validate, reconcile, destroy | partial failure; what is saved before a step that may fail |
| tree promotion | `gitops/tree_promotion.go`, `ownership.go` | GitOps tree, ownership manifests, backups | plan, promote, roll back | a file edited while it is promoted; manifests written last |
| storage credentials | `cluster/storage/openstack/service.go`, `cmd/cluster_service_storage.go` | credentials in Keystone, the pair in the configuration, a recovery record | plan, apply, rotate, adopt a record | remote and local state changed in turn, kills, lost answers |
| GitOps generation | `gitops/atomic.go`, `checkpoint.go`, `workspace.go`, `pipeline.go` | workspace, checkpoints | transaction, restore | a restore that fails |
| backup manager | `operations/backup_manager.go` | backups on disk | create, restore, prune | pruning at the retention boundary |
| audit logger | `security/audit_logger.go` | signed log file | append, rotate | rotation under a concurrent append |
| everything else | `core`, `template`, `cloud`, `services`, `sops`, `util`, `ui`, `cmd` | none shared, or external | parsing, rendering, calls to clouds and tools | large data, little control |

How they interact:

* `cmd/cluster_deploy.go` and `cmd/cluster_destroy.go` take the cluster's file lock
  through `AcquireLockWithPrompt` and release it when they end. The key commands and
  `secrets sync` do not take it: they lock single registry calls, or the sync lock.
  `cluster generate`, `cluster set` and `cluster service storage` take no lock at all.
* `cluster generate` and `secrets sync` write to the same overlay. Each has a ledger of
  what it wrote, and generation reads the ledger of synchronisation to stay off its files.
* `cluster set`, `generate`, `deploy` and `service storage apply` all load the cluster's
  configuration file and write it back whole.
* Rotation, revocation and reconciliation share the registry, `.sops.yaml`, the
  manifests and the operator's key file. The registry file is shared by all clusters
  and is itself encrypted to the active Age keys of all of them.
* `internal/barbican/client.go` runs its HTTP calls through the breaker and the retry
  policy.

What makes each component correct, in a sentence: the breaker never leaks a slot and
recovers; a lock belongs to the command at work; the registry has at most one primary per
group and never takes a retired key back; a key command changes all of its files or none,
never locks the operator out and never leaves a retired key in a manifest that it could
read; a resumed bootstrap skips only what was done for this cluster; a promotion never loses
a file it does not own; a synchronisation never forgets an artifact it wrote; a domain that
a cluster owns moves only when an operator asks; storage keeps a usable credential, and no
other stays alive unrecorded.

## Modules

| module | models |
|---|---|
| `CircuitBreaker` | the breaker, with calls in flight as actors |
| `CircuitBreakerProofs` | its half-open accounting, for any number of callers |
| `KeyRing` | abstract specification: what a registry of keys promises |
| `KeyRegistry` | the registry file and its operations, one atomic action each; implements `KeyRing` |
| `KeyLifecycle` | rotation, completion, revocation, emergency and reconciliation, step by step; extends `KeyRegistry` |
| `KeyLifecycleProofs` | the registry's invariants and refinement; that any commands at a time keep to it; what commands that do not overlap do to the files |
| `FileLock` | the file backend of the lock manager, one system call per action |
| `FileLockProofs` | ownership of flocks |
| `Bootstrap` | `cluster deploy`: the step loop over its saved states, generations, migration, destroy and kills |
| `BootstrapProofs` | resuming is sound, and an end without a filter is complete |
| `SecretSync` | `secrets sync`: plan, lock, artifacts, pruning, ledger and rollback, beside editors and rotations |
| `SecretSyncProofs` | ledger and tree agree, only ciphertext is recorded, edits are kept |
| `TreePromotion` | `cluster generate`: a promotion over the user's repository, beside editors, synchronisations and a rival |
| `TreePromotionProofs` | manifest and tree agree, edits are saved |
| `BaseDomain` | who owns a cluster's domain: settings, configuration file, and the commands that load and save it |
| `BaseDomainProofs` | the identity fields agree, an owned domain stays |
| `StorageCredentials` | `cluster service storage apply`: Keystone, configuration and recovery record |
| `StorageCredentialsProofs` | no credential forgotten, none in use revoked |
| `MC*` | instances for TLC: named model values, small sets |

`KeyLifecycle` composes with `KeyRegistry`, and `KeyRegistry` implements `KeyRing`. The
other modules meet at the file that one command owns and another writes: there the other
command is an environment action of the module (`SecretSync`'s `Render` and `Reencrypt`,
`TreePromotion`'s `Seal` and `Claim`, `StorageCredentials`' `Edit`), with the guard its own
code gives it.

Definitions marked "A bug to catch" stand just before the definition they would
replace. They are not used by the specifications; they are the mistakes that the
properties are there to find.

### CircuitBreaker

`running` holds the calls in flight, `probes` those admitted while half-open, and
`probeSuccesses` counts how many of these succeeded; the last two are history the
code does not keep. `BeforeCall` is `beforeCall` with one disjunct per state,
`AfterCall` is `onSuccess` or `onFailure` in whatever state the result arrives.
Rejected calls change nothing and have no action. The clock is one bit: has
`OpenedAt + Timeout` passed.

The code gives a half-open slot back for every success that arrives while half-open,
and so also for calls admitted before the breaker opened. `NoLeakedSlot` says that
this never strands a slot. `ProbeBound` says how far it overshoots: at most
`HalfOpenRequests + SuccessThreshold - 1` probes, more than the comment's "Max concurrent
requests in half-open state". The same late successes count towards `SuccessThreshold`;
`Accounting`, the invariant of the proofs, says precisely how (`inHalfOpen + successCount`
is the number of probes plus their successes).

### KeyRing and KeyRegistry

A registry entry is a key with a status (`absent` when there is none), a primary flag
and the predecessor a rotation recorded. Every method of `DefaultKeyRegistry` takes
the registry's flock, loads, changes and saves the file, and is therefore one action;
a method that returns an error leaves the file alone and is not enabled. A save
refuses a registry without an active Age key of any cluster (`SaveAllowed`). A group
is a cluster and a key type, as in `selectKey`. Expiry dates, comments and timestamps
are left out: no operation of this file branches on them.

`UpdateKeys` is enabled for any registered keys, not only active ones, because its
callers pass entries they read earlier. It can turn a revoked key into an archived one
when a completion and a revocation of the same key overlap; both are out of use.

`RebuildFromFiles` is left out: no command calls it.

`KeepsRing` refines `KeyRing`: `active` and `retired` are the keys with those
statuses, and the holder of a group is its primary.

### KeyLifecycle

`rules` is `.sops.yaml` (the recipients of each creation rule), `recipients` what each
manifest is encrypted to, `keyFile` the key in the file that `SOPS_AGE_KEY_FILE` and the
configuration name, `known` the keys generated so far, and `run[p]` the command of
process `p`: its step, keys, edit, backups and what it has left to do.

| step | action | code |
|---|---|---|
| checks | `StartRotate`, `StartComplete`, `StartRevoke`, `StartEmergency`, `StartReconcile` | the reads and refusals at the head of each command |
| new key | `Generate`, `GenerateFails` | `GenerateKeyForCluster`, which overwrites the key file, and removes it when writing the public key fails |
| backup | `Backup`, `Abort` | `RollbackManager.Backup` of `.sops.yaml` and all manifests |
| edit | `Edit`, `Write` | reading `.sops.yaml`, the new content, writing it; two steps, since another command may write in between |
| re-encrypt | `Reencrypt`, `ReencryptFails`, `ReencryptSkips`, `LoopEnds` | the loop over manifests, which goes on after an error, and passes over a manifest that it cannot read with a warning only |
| commit | `Commit` | the registry call, which may refuse |
| failure | `Fail`, `Rollback` | an error, and the restoration of one file per step |
| import | `Import`, `Promote`, `ReconcileFails` | `Reconcile` with apply |
| kill | `Crash` | the process ends and its backups with it |

`KeyLifecycle` extends `KeyRegistry`: the registry's variables are shared and its actions
are called by name, with `RegistryInit`, `RegistryNext` and `RegistrySpec` the registry's
own specification. A behaviour starts with any registry that its operations lead to
(`InitialAssumption`: primaries active and one to a group, an Age key in use as soon as
there is an entry, no rule that names a retired key), but with no rotation pending. Reads
are single steps: the registry is read under its own lock, and a backup is a read of files
that only these commands write. Writes are whole: a kill in the middle of one `WriteFile` is
not modelled, nor a restore that fails. The keys of other clusters are there but do not
change. `skipped` is history: the manifests that a loop could not read and that no command
has re-encrypted since (a rollback puts back what was skipped with the file). The command
commits all the same, so such a manifest may keep a retired key, miss a new one or be left
with no authorized one, and the five file properties name it as their exception: what they
say is that this is all that goes wrong with it, that nothing goes wrong with the others,
and that re-encrypting it ends the exception. `Held` are private keys that sops finds
elsewhere, so that an operator may decrypt without the cluster's key file.

### FileLock

A process inspects the lock path (`Inspect`), removes what is there if it reads as
expired or the operator agrees (`ForceBreak`), opens or creates the file (`Open`),
tries a non-blocking flock (`TryFlock`), fills the file (`WriteMetadata`), works, and
releases in two steps (`Unlock`, `Remove`), as the code does; destroy unlinks once
more. Files are inodes and the path names one of them at most, so that a file can be
unlinked under a process that holds its flock. A file without metadata has the zero
expiry time and reads as expired. The lock manager's map of held locks is left out:
every command makes a lock manager of its own and takes one lock.

### Bootstrap

`scoped` holds the state file of each generation and `legacy` the one of releases before
generations; `mem` is the deployment's copy. `done` and `artifacts` are the world: which
steps the present machines have had, and which artifacts their probes find. `Load`,
`Refuse`, `ClearScoped`, `ClearLegacy` and `Persist` are the head of the command (read,
migrate, restart, first save); a step is `Skip`, or `Mark` and `SaveMark` (status
"running", saved), its effect (`Succeed`, `Fail`, which may come `Halfway`), and `Record`.
`Ready` and `NotReady` are the end. `Stop` is a kill or a failed write: since the save is
`os.WriteFile`, a kill in the middle of it leaves `Torn`, which every later deployment
refuses until it is told to restart. `Destroy`, `InitCluster` and `Wipe` are what other
commands and people do. Deployments and destroys exclude each other through `FileLock`, so
there is one at a time.

`outlived` is history: a destroy kept or did not reach the state file, or a removal of both
files was cut in half, so that one tells of machines that are gone. `ResumesOwnWork` names
it as the exception. `NeverResumesDestroyed` claims, without that exception and of the steps
that may be skipped only, what the documentation promises, and is refuted: the trace ends
with `kubespray-deploy` skipped on machines that have not had it. A file of
before generations that was never scoped is removed on sight, a file of a newer version is
refused, and the status "skipped" is read but never written: none of them needs a state.

### SecretSync

`plan` is made when a run starts, before it waits for the overlay's lock (`Enter`). With the
lock it looks at each planned path (`Look`: conflict, current, or to be written), renames an
encrypted temporary file into place (`Write`, which may fail, or leave plaintext there
without an error) and takes it on record only if what is there is encrypted (`Confirm`).
`Reconcile` prunes nothing after any error; otherwise what is on record and not configured
any more is looked at (`Prune`) and removed (`Remove`), and when one of them fails those
before it are looked at (`Unprune`) and put back (`Restore`). The ledger is saved in one
step (`Save`), or the run undoes its journal (`SaveFails`, `Rollback`, `Restore`). Every
look and the act that follows are two steps, as in the code: `os.Remove` and the renames
take what is there by then, `seen` is what the look found, and the window between the two is
the exception that `EditsKept` names (`SinceLook`). Editors, key rotation (`Reencrypt`,
which replaces the ciphertext and not the record) and the generator (`Render`) do not take
the lock. `Resolve` is the operator, who between runs puts back a recorded artifact that
`secrets sync` reports as changed or missing, or moves away a file that is on no record; the
repository holds the recorded bytes under version control. `touched` is history: the paths
something else has written, or a run that did not end. An artifact is its value and the
stamp of its encryption, since the ledger records a hash. One cluster is modelled; dry runs
and checks change nothing.

### TreePromotion

A run loads its manifest (`Load`), scans the tree (`Scan`), decides what to write, delete
and back up, or refuses (`Decide`), and takes the preimages it will verify (`Snapshot`).
Then each path is verified and noted (`Capture`), verified once more (`Verify`) and replaced or
removed whatever it is by then (`Replace`): deletions first, then the copies of what belongs
to the user (`Backup`), then the writes. The manifest comes last, and is verified and noted
(`Finish`), verified again (`Check`) and written (`Commit`). `Rollback` puts every noted path, and a
noted manifest, back over whatever is there by now. The functions
`Tampered`, `Stale`, `Unwritten`, `Records` are `planRepositoryPromotion` on what the run has
read. Others `Edit`, `Seal` (`secrets sync` writes a credential) and `Claim`, `Disown` (its
ledger), and a `Rival` promotion completes between any two steps.

Abstracted: the cluster's and the global manifest are one; global files, the healing of
`.gitignore`, modes, renames and empty directories are left out; the preflight run that plans
and stops is a run that is killed.

### BaseDomain

`file` is what the configuration file says of the domain: value, the FQDN derived from it,
`managed` (default, pinned or absent), the `stamp` of what was last rendered, and the
cluster's stage. A load (`Load`, `Read`) applies the settings to the copy (`Hydrate`:
adoption of a placeholder, then following a changed default, both as
`applySettingsProvenance` does it). `Set`, `Mark`, `Stamp`, `Persist` and `Sync` write that copy
back whole; another command may have written in between, and `fresh` (history) says
whether one has. `Render` and `Work` are generation and deployment proper. `FQDN` values are
written as the domain they come from, or `Custom`.

The DNS fields of the same stage, the status conditions, hostname repair and `cluster edit`
are left out. Progress needs one process that generates, as two may overwrite each other's
copies for ever; the other uses `set`. The theorems are for any number of both.

### StorageCredentials

`config` is the pair in the configuration (identifier and whose secret it is), whether the
storage settings are as planned, and the rest of the file; `cloud` the credentials that
Keystone accepts; `journal` the file `<config>.<service>.storage-recovery.json`. An apply
plans (`Start`) and, confirmed, reads the file again and plans once more (`Reread`); it adopts
a record of an apply before (`Adopt`, `Clear`), reserves its own by exclusive creation
(`Reserve`, `Fill`), creates the credential (`Create`), notes it (`Note`), checks that the file
is still the one it read (`Check`) and replaces it (`Persist`), and in a rotation revokes the
credential before (`Revoke`), updating the record at every turn. `CreateFails` may leave a
credential behind, and `RevokeFails` may have revoked it. `Stop` is a kill, and every other
failing call, after which the command returns and undoes nothing.

`lost` is history: the live credentials that nothing names any more, because the answer to
their creation was lost or their record was removed. `raced` is history: one apply wrote
over what another had written after the last look, or removed the record of one that is
still at work. Identifiers are used again once nothing mentions them, which Keystone's are
not. `Resolve` is the operator's part of "resolve the prior apply before retrying": no
command removes a record.

Left out: backends without a cloud (they clear the pair and revoke nothing), a change between
Swift and S3, which fields the plan patches, containers (created if absent, every time).

## Runs

| run | instance and bounds | what it shows |
|---|---|---|
| `breaker` | 3 callers, 1 slot, 2 successes to close, 2 failures to open | types, no leaked slot, the bound on probes, and recovery |
| `registry` | 3 Age keys of a cluster, 1 of another, 1 SSH key | primaries, lineage, refinement of `KeyRing` (which includes that no retired key returns) |
| `lifecycle` | 1 process, 4 keys of the cluster and 1 of another, 2 rules, 2 manifests of which one may be unreadable, 1 kill | but for manifests that a loop could not read: failures leave files and registry in agreement, and kills leave no retired key in a manifest and no manifest unreadable to all authorized keys; the registry moves as `KeyRegistry` allows |
| `lock` | 3 processes, one a destroyer whose operator breaks live locks, 3 files, 1 kill or failed write | ownership of flocks, exclusion on a linked file, progress |
| `lock_race` | 2 processes, no faults, no broken locks | both at work at once |
| `bootstrap` | 5 steps (the OpenStack steps with a part in resuming), 2 generations, 4 selections of steps, 1 failure, kill or deleted artifact | resuming is sound, an end is complete, deploying again gets there |
| `bootstrap_destroyed` | the same | a destroyed cluster's state file is resumed from |
| `sync` | 2 runs, 2 paths, 2 credentials, 3 configurations, `--force` on one path, 1 fault, 1 edit or re-encryption, 1 change of configuration | ledger and tree, sealed records, edits kept but for those after the last look, progress with an operator who resolves |
| `promotion` | 3 paths (plain, credential, seed), 3 renders, 3 sets of flags, 1 fault, 1 meddling, 1 change of configuration | manifest and tree, edits saved (also by a rollback) but for those after the path was noted, progress |
| `basedomain` | 2 processes, one of which generates and deploys, the placeholder and 2 domains, 1 change of settings or assignment, 1 fault | agreeing identity, owned domain, progress |
| `storage` | 2 applies, 2 rotations, 1 edit, 1 fault, 5 identifiers | usable pair kept, nothing forgotten, progress |
| `storage_adopted` | 1 apply at a time, 1 rotation, 1 kill | a record is adopted and its old credential stays alive |

Why the bounds are enough. A late result needs a call admitted before the breaker
opened and one after; a third caller lets it overlap a probe. Three keys of a group
are needed for a rotation after a rotation, and the fourth in `lifecycle` is the
recipient that rotations must not touch; the key of another cluster is what lets a
registry be saved when a cluster has no key left. Two rules differ in whether they
name the second recipient, and one manifest of each is enough to be half-way through
the loop; one of them may be unreadable (`Flaky`), so that the other shows what a command does
with both at once. In `bootstrap` the five steps have each role that the code tells apart: never
skipped, probed, handed off from version 1, proving earlier ones, serving; a second
generation is a cluster created after a destroy. In `sync` and `promotion` one path is
under way while another waits, and each kind of path is there once; one meddling is
enough to meddle at any of the steps. In `storage` two rotations meet, or follow one
another after a kill. One fault is enough for a state no command was written to start
from, and liveness is about what follows the last one.

`MaxCrashes` and `MaxFaults` bound kills and failed calls; `MaxEdits`, `MaxChanges` and
`MaxRotations` bound what people do; `Key`, `Gen`, `MaxStamp` and `MaxId` bound what can be
generated (keys, generations, encryptions, credentials); `Chosen`, `Configured` and
`Renders` pick the options and configurations. A rotation that needs a key when all are
known has only its failure left to take. The theorems have none of these bounds but
`MaxFaults`, `MaxEdits` and `MaxChanges`, which may be any natural number.

Symmetry is used among the keys that are not yet in use, in runs that check safety only.
Deadlock is not checked in `bootstrap`, `sync` and `promotion`: a destroyed cluster with no
generation left, or a run that has used up its kills, edits and encryptions, may stop.
It is checked in every other run.

Fairness. `CircuitBreaker.FairSpec` assumes that operations return (the guarded HTTP
client has timeouts), that the clock advances, and that somebody keeps calling; no
caller is promised admission. Elsewhere a command that has begun takes its next step
(weak fairness of the command's own actions), and the operator repeats the command, in
the form the program's own messages advise: `FileLock` tries the lock again (except those
who would break a live one); `Bootstrap` deploys again, with `--restart` when the state
file does not parse; `SecretSync` synchronises everything, and resolves what is reported (strong
fairness of `Resolve`: what a killed run or an editor left is not in the way for ever because
somebody attends to it, not because the program does), while a waiting run polls for the lock
and another may always be first; `TreePromotion` promotes with
`--force --adopt-generated`, as a refused promotion advises; `BaseDomain` generates;
`StorageCredentials` applies, rotates a partial pair, and resolves a record that blocks.
Kills, failures, resets, edits and giving up are never promised.

## Disagreements between code and documentation

* `lock_race`: release unlocks first and unlinks afterwards, and an empty lock file reads
  as expired, so two commands can be at work at once.
* `bootstrap_destroyed`: a destroy that keeps files, or is stopped, leaves the state file of
  the generation that stays configured; the next deployment skips steps on new machines.
* `storage_adopted`: `reconcileStrandedJournal` takes any complete pair as proof that the
  remote work of a record is done, and removes the record; it neither compares credentials
  nor revokes the old one, which stays alive with nothing left to name it.

Seen while reading, and not in a run:

Keys
* The half-open limit is exceeded (`ProbeBound` gives the true one), and `RebuildFromFiles`,
  which nothing calls, would reinstate revoked keys.
* `rollback.go` says that changes "either complete fully or leave no partial changes"; backups
  are in memory, and a kill leaves manifests and rules in disagreement.
* No lock spans a key command: the rollback of one restores old files over what another has
  committed, and two revocations at a time can leave a cluster with no active key.
* "If any step fails, the old key is restored automatically": the key file is not among the
  files restored.
* The key commands pass a SOPS manager without a key manager (`cmd/secrets_helpers.go:89`),
  so that rotating an Age key through the command line stops at `rotation.go:636` before
  it changes anything. The model is of the package, which tests drive with a key manager.
* `EmergencyRevoke` is refused while a rotation is pending, since it starts with one.
* A manifest that cannot be read when `reencryptManifests` looks for encrypted content is
  passed over without an error (`rotation.go:935`, `revocation.go:799`) and the command
  commits, where `docs/reference/opencenter/opencenter_secrets_keys_revoke.md:42` says
  "Re-encrypts all manifests without the revoked key". Modelled (`ReencryptSkips`), and the
  exception of the file properties.
* Completing a rotation after `set-primary` has given the role back to the old key
  archives the primary and leaves the cluster without one.
* `RotateSSHKey` (`rotation.go:319`) does not restore the configuration when its update
  fails.

Deployment
* Nothing refreshes a lock's TTL: a deployment of more than an hour has a lock that the
  next command removes as expired.
* The state file is not written atomically. A torn one is refused until `--restart`, where the
  guide says "Deployment is idempotent and resumes automatically from the last completed
  step" (`docs/getting-started/openstack-first-cluster.md:464`).
* A removal of the two state files that is cut in half leaves the older one to resume from.

Secrets and generation
* Key rotation re-encrypts artifacts without updating the ledger, so that the next
  synchronisation, forced or not, reports that their content hash changed.
* A kill leaves artifacts unrecorded and, in the middle of an encryption, a plaintext
  `secret-*.yaml` beside them; a recorded artifact deleted by hand stops pruning until somebody
  puts it back (`Resolve`). Both are why progress needs an operator.
* An edit between the ownership check and `os.Remove` (`manager.go:1186`, `1191`), or between
  the hash check and the restore (`1058`, `1059`; `1055`, `1104`), is lost. Modelled, and named by
  `EditsKept`.
* The promotion's preimages are taken when it has planned: what a rival commits in between
  is overwritten. A file that appears between scan and preimage is overwritten with no backup.
* A rollback restores over the edit that its own verification has just detected
  (`docs/release/1.0.0-rc06.md:41`: conflicts "fail closed"), and over the manifest of a rival.
  Modelled, and named by `EditsSaved` (`Late`).
* After a kill, a promoted file that is not rendered any more stays in the way of every later
  run (`InTheWay`), until it is removed by hand.

Configuration
* A load takes over a placeholder domain without asking whether it is pinned
  (`settings_provenance.go:143`), also on a deployed cluster, where
  `docs/reference/default-values.md:67` says that the domain "pins automatically".
* `--sync-base-domain` stamps the domain of before the sync, and a stamp is saved before the
  generation it speaks of may fail.
* A deployment pins the domain of its own load, which may differ from the one its tree was
  generated with; `generate` sets the stage back, and `--follow-settings` is accepted again.
* Two commands that change one configuration file lose one of the changes.

Storage
* A kill after the configuration is replaced and before the record says so leaves
  "created-not-persisted": everything is done, and every later apply that needs a credential
  is refused until the record is removed by hand. So does a kill between the exclusive
  creation of the record and its first write.
* A rotation tried again after a failed revocation creates a third credential; the first is
  never revoked, as the record names the new credential and not the old one.
* A lost answer to a creation counts as a failure: the record is removed and the credential,
  if there is one, stays.
* An application credential's name is the service's and backend's, which Keystone wants unique
  per user; a Swift rotation creates before it revokes.

## Proofs

All of these hold for every value of the constants that satisfies the named
assumptions (`ConfigAssumption` and `CallersAssumption`, `GroupAssumption`,
`ClusterAssumption` and `InitialAssumption`, `LockAssumption`, `StepsAssumption`,
`FileAssumption` and `ChosenAssumption`, `SyncAssumption`, `PromotionAssumption`,
`DomainAssumption` and `CopyAssumption`, `StorageAssumption`), and rest on no others.
The one hypothesis on behaviours, `[]Serial`, stands in the theorems that need it.

* `SlotsNeverLeak`, `ProbesBounded` (`CircuitBreakerProofs`). The invariant is `TypeOK`
  with `Accounting`. Neither bound is inductive alone, because a late success lowers
  `inHalfOpen` without changing the probes; what is constant is the sum in `Accounting`.
  The cardinality steps use the library's facts on finite sets.
* `RegistryTypeCorrect`, `AtMostOnePrimary`, `AlwaysRecipient`, `LineageSound`,
  `NeverReinstated`, `ImplementsKeyRing` (`KeyLifecycleProofs`), of the registry alone. The
  invariants are inductive together: that a predecessor is registered, which `Lineage`
  says, is what keeps a new key from closing a circle. That there is none, of whatever
  length, is stated without counting: every set of keys has one whose predecessor is
  outside it. The refinement maps each operation
  to a step of `KeyRing`; it needs `OnePrimary`, without which "the primary of a group" is
  not a function.
* `TypeCorrect`, `CommandsKeepRegistry`, `SharedRegistry`, `CommandsKeepRing`,
  `CommandsNeverReinstate`
  (`KeyLifecycleProofs`), of any number of commands at a time, failing and killed anywhere.
  The strengthening `RunOK` says what a command carries at each step (`Shape`): a key to
  replace once it has started, a successor unless it revokes, keys left to import. Without
  it the registry calls of `Commit`, `Import` and `Promote` could not be seen to be calls on
  keys. With it every step is one of the registry's or none, and the registry's own lemmas
  give its invariants, and `KeyRing`'s steps, to the commands together.
* `RollbackRestores`, `BothKeysOpen`, `RetiredStaysOut`, `RemovesOnlyTarget`,
  `KeepsAuthorized` (`KeyLifecycleProofs`), of commands that do not overlap: the hypothesis
  `[]Serial` says that no two processes are ever in a command together, and any number may
  run one after the other. Nothing in the code enforces it, and the properties need it (a
  rollback restores over what another has committed). The `lifecycle` run satisfies it, with
  one process. None of the five is inductive. `SerialInv` adds, for the one command under
  way, that its keys are still what they were when it chose them (`KeysInv`), that its
  backups are as good as the files were (`SavedInv`), and which files are as saved and which
  as edited (`ProgressInv`); and for every state, kills included, that only generated keys
  are registered or named, no file that could be read names a retired key, and each manifest
  and its rule are `Tied` (`FilesInv`). Tied is `Alike`: the same, or both open to some key
  of the cluster. `Alike` is an equivalence, which is why a manifest half-way between an
  interrupted command and the next is never locked out: each edit keeps a rule alike, and so
  does each restored backup. Of a manifest that was passed over only its rule is known to
  have a key (`Leads`); that, and that such a manifest differs from its rule in retired keys
  and keys added since (`Matched`), is what re-encrypting it later rests on. What a kill may
  cost is in the hypothesis `crashes = 0` of `Orderly` (manifests equal their rules, and old
  and new key go together), as in the properties themselves.
* `FlocksOwned`, `LinkedExclusive` (`FileLockProofs`). The strengthening says that a
  process past `Open` has a file open and a process elsewhere has none, so that a new
  file is never the one somebody has locked.
* `BootstrapTypes`, `ResumesSoundly`, `CompletesWork` (`BootstrapProofs`). `ResumeInv` says that
  what each file claims is truthful in the sense of `ResumesOwnWork` not only when nothing
  runs but through a deployment: of the copy in memory, of both files, and of the steps behind
  the one at hand. The property alone is not inductive, since a save makes the copy a file.
* `SyncTypes`, `LedgerIsTrue`, `NoPlaintextRecord`, `EditsAreKept` (`SecretSyncProofs`). `SyncInv`
  relates tree, ledger, journal and the run's memory at each step: a path outside the journal
  is as recorded, one in it is as the run has written it, and what was before is remembered.
  A rollback restores the truth because of that memory, a save by recording what is there.
  That what a look found, and not what is there now, was the run's to take is `Entitled`.
* `PromotionTypes`, `ManifestIsTrue`, `EditsAreSaved` (`TreePromotionProofs`).
  `PromotionInv` adds to types and truth that what the run has read of a path nobody else
  writes is what the manifest says of it (`Remembered`), that what a scan found is expected
  when it is replaced (`Expected`), that what is noted of a path is what was expected
  (`Noted`), that a path not yet noted is as recorded and one noted is as it will be
  recorded (`InPlace`), how far the plan is carried out (`Scheduled`), and that it was not
  refused and what it adopts is saved before a write (`Covered`). So the commit leaves no
  untouched path that differs from its new record, and a rollback none from its old one.
* `DomainTypes`, `NamesAgree`, `OwnedKept` (`BaseDomainProofs`). `DomainInv` says that every copy
  held by a command agrees with itself, and that a fresh one has the identity that the file
  owns. That is why a write back of a fresh copy can only do what its command was asked to do.

* `StorageTypes`, `NoneForgotten`, `StaysUsable` (`StorageCredentialsProofs`). `StorageInv` says
  who has the recovery record and what of Keystone's credentials is loose, that is alive and
  named by nothing but it (`Custody`): until its holder creates, nothing is; then its own
  credential, until it is configured; then the one before, until it is revoked; and without a
  record nothing is. One holder at a time, unless an apply has undone another's work, which
  `raced` records, and which both properties except.

Only model-checked: the liveness properties (`RecoversWhenHealthy`, `NeverStuck`,
`EventuallyDeployed`, `EventuallySynced`, `EventuallyPromoted`, `EventuallyAgrees`,
`EventuallyApplied`), since liveness under fairness is out of the prover's reach. Every
invariant and action property of a run has a theorem.

## Not modelled

* The Redis backend and `Refresh` of the lock manager (the backend is chosen by
  configuration, and no command makes a lock manager with it); `RevokeByUser` with several
  keys; `RotateSSHKey` beyond its registry call; dry runs.
* Workspace transactions, checkpoints and the generation pipeline: no command constructs
  them. Backups and the audit log: one process and its files.
* Drift detection, validation, rendering, path handling, importers: functions of their
  input without a protocol. Cloud providers, OpenTofu, Ansible, sops, git: external. Most of
  the repository's lines are of these kinds (flags, defaults, schema, templates, output), which
  is why the models stand for a small share of them.

## Plan

1. Proofs: what of the file properties of `KeyLifecycle` is left when commands overlap (two
   rotations, of which the registry admits one).
2. The DNS fields of the provenance stage, which are not pinned with the domain.
3. The other writers of the configuration file (`cluster edit`, `cluster service`) and
   the backends of `StorageCredentials` without a cloud.
4. `Lease`, and the Redis backend as an implementation of it, once a command uses it.
5. Backups and their retention.

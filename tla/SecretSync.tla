----------------------------- MODULE SecretSync -----------------------------
(***************************************************************************)
(* internal/secrets, `secrets sync': the credentials of the configuration  *)
(* become encrypted artifacts in the cluster's overlay, and a ledger there *)
(* records the hash of each.  A run plans, waits for the lock of the       *)
(* overlay, writes, prunes, and saves the ledger; a failed save undoes the *)
(* run.  Editors, key rotation and the generator write to the overlay      *)
(* without that lock, and a run may be killed anywhere.                    *)
(***************************************************************************)
EXTENDS Naturals

CONSTANTS
  Proc, NoProc,   \* runs of `secrets sync' at the same time, and none
  Path,           \* where artifacts may be, relative to the overlay
  Dedicated,      \* the paths that --force may adopt (DedicatedSecretFilename)
  Value,          \* credentials
  NoSecret,       \* no credential is configured
  NoFile,         \* no file, or no record
  Edited,         \* bytes written by hand
  MaxStamp,       \* bound: distinct encryptions of a path at one time
  Chosen,         \* bound: the options runs are started with
  Configured,     \* bound: the configurations there are
  MaxFaults,      \* bound: kills and failed calls
  MaxEdits,       \* bound: edits and re-encryptions of artifacts
  MaxChanges      \* bound: changes of the configuration

(* The bytes of an artifact: stamp 0 is plaintext, and every encryption of *)
(* a credential differs from the others.                                   *)
Stamp == 1..MaxStamp
Artifact == [value : Value, stamp : Stamp \union {0}]
Content == Artifact \union {NoFile, Edited}
Sealed == {c \in Artifact : c.stamp # 0}

Plans == [Path -> Value \union {NoSecret}]
Options == [force : BOOLEAN, only : SUBSET Path]
Full == [force |-> FALSE, only |-> Path]

VARIABLES
  config,   \* the credential configured for each path
  tree,     \* the overlay
  ledger,   \* .opencenter-secret-artifacts.json: the bytes recorded of a path
  lock,     \* who holds the flock on the overlay
  pc, plan, opts,  \* of each run: where it is, its plan and options
  run,      \* of the run with the lock: its memory
  touched,  \* paths that not only completed runs have written
  faults, edits, changes

local == <<pc, plan, opts>>
vars == <<config, tree, ledger, lock, local, run, touched, faults, edits, changes>>

ASSUME SyncAssumption ==
  /\ NoProc \notin Proc
  /\ Dedicated \subseteq Path
  /\ NoSecret \notin Value
  /\ NoFile # Edited /\ NoFile \notin Artifact /\ Edited \notin Artifact
  /\ MaxStamp \in Nat
  /\ Chosen \subseteq Options
  /\ Configured \subseteq Plans
  /\ MaxFaults \in Nat /\ MaxEdits \in Nat /\ MaxChanges \in Nat

Pcs == {"idle", "wait", "sync", "write", "confirm", "prune", "remove",
        "unprune", "putback", "save", "rollback", "restore"}
Bytes == [Path -> Content]
NoBytes == [p \in Path |-> NoFile]
Unplanned == [p \in Path |-> NoSecret]

(* The memory of a run: paths to look at, the one it is at and the bytes   *)
(* it found there, the bytes of paths before, the artifacts written,       *)
(* whether anything went wrong, the paths to prune, and those the journal  *)
(* can undo.  A path is in the journal once, so its order does not matter. *)
(* What is loaded of the ledger stays the ledger, which only the holder of *)
(* the lock replaces.                                                      *)
Empty == [todo |-> {}, at |-> NoFile, seen |-> NoFile, before |-> NoBytes,
          wrote |-> NoBytes, errors |-> FALSE, stale |-> {}, journal |-> {}]

Memory == [todo : SUBSET Path, at : Path \union {NoFile}, seen : Content, before : Bytes,
           wrote : [Path -> Artifact \union {NoFile}], errors : BOOLEAN,
           stale : SUBSET Path, journal : SUBSET Path]

TypeOK ==
  /\ config \in Plans
  /\ tree \in Bytes
  /\ ledger \in [Path -> Artifact \union {NoFile}]
  /\ lock \in Proc \union {NoProc}
  /\ pc \in [Proc -> Pcs] /\ plan \in [Proc -> Plans] /\ opts \in [Proc -> Options]
  /\ run \in Memory
  /\ touched \in SUBSET Path
  /\ faults \in 0..MaxFaults /\ edits \in 0..MaxEdits /\ changes \in 0..MaxChanges

Init ==
  /\ config \in Configured
  /\ tree = NoBytes /\ ledger = NoBytes
  /\ lock = NoProc
  /\ pc = [q \in Proc |-> "idle"]
  /\ plan = [q \in Proc |-> Unplanned] /\ opts = [q \in Proc |-> Full]
  /\ run = Empty
  /\ touched = {}
  /\ faults = 0 /\ edits = 0 /\ changes = 0

Fault == faults < MaxFaults /\ faults' = faults + 1

(* An encryption no copy of the path has.                                  *)
Copies(p) == {tree[p], ledger[p], run.before[p], run.wrote[p]}
NewStamp(b, p) ==
  LET unused == {c \in Stamp : \A f \in Copies(p) \intersect Artifact : f.stamp # c}
  IN b \in unused /\ \A c \in unused : b <= c

-----------------------------------------------------------------------------
(* Planning, and the lock.                                                 *)

(* The plan is made before the lock is waited for.                         *)
Start(q, o) ==
  /\ pc[q] = "idle"
  /\ pc' = [pc EXCEPT ![q] = "wait"]
  /\ plan' = [plan EXCEPT ![q] = config]
  /\ opts' = [opts EXCEPT ![q] = o]
  /\ UNCHANGED <<config, tree, ledger, lock, run, touched, faults, edits, changes>>

Planned(q) == {p \in opts[q].only : plan[q][p] # NoSecret}
Stale(q) == {p \in opts[q].only \ Planned(q) : ledger[p] # NoFile}

(* preflightStaleArtifactDeletions reports what could not be pruned.       *)
Enter(q) ==
  /\ pc[q] = "wait" /\ lock = NoProc
  /\ lock' = q
  /\ pc' = [pc EXCEPT ![q] = "sync"]
  /\ run' = [Empty EXCEPT !.todo = Planned(q),
               !.errors = \E p \in Stale(q) : tree[p] # ledger[p]]
  /\ UNCHANGED <<config, tree, ledger, plan, opts, touched, faults, edits, changes>>

-----------------------------------------------------------------------------
(* One artifact: look, write, look again.                                  *)

(* The bytes that may be replaced: those on record, or with --force those  *)
(* of a credential file nobody owns.                                       *)
Record(q, p) ==
  IF ledger[p] = NoFile /\ opts[q].force /\ p \in Dedicated
    THEN tree[p] ELSE ledger[p]

\* A bug to catch: a file of this name is taken for the one on record.
ConflictUnowned(q, p) == tree[p] # NoFile /\ Record(q, p) = NoFile

Conflict(q, p) == tree[p] # NoFile /\ tree[p] # Record(q, p)

\* A bug to catch: an artifact that is there is not looked into.
CurrentIfThere(q, p) == tree[p] \in Artifact /\ ~opts[q].force

(* hasSecretsChanged, on the decrypted artifact.                           *)
Current(q, p) ==
  /\ tree[p] \in Artifact /\ tree[p].value = plan[q][p]
  /\ ~opts[q].force

Look(q) ==
  /\ pc[q] = "sync"
  /\ \E p \in run.todo :
       \/ /\ Conflict(q, p)
          /\ run' = [run EXCEPT !.todo = @ \ {p}, !.errors = TRUE]
          /\ UNCHANGED pc
       \/ /\ ~Conflict(q, p) /\ Current(q, p)
          /\ run' = [run EXCEPT !.todo = @ \ {p}]
          /\ UNCHANGED pc
       \/ /\ ~Conflict(q, p) /\ ~Current(q, p)
          /\ run' = [run EXCEPT !.todo = @ \ {p}, !.at = p, !.seen = tree[p],
                                !.before[p] = tree[p]]
          /\ pc' = [pc EXCEPT ![q] = "write"]
  /\ UNCHANGED <<config, tree, ledger, lock, plan, opts, touched, faults, edits, changes>>

(* A temporary file is encrypted and renamed into place; encryption may    *)
(* fail, or leave the file as it is without an error.                      *)
Write(q) ==
  /\ pc[q] = "write"
  /\ \/ /\ \E b \in Stamp :
             /\ NewStamp(b, run.at)
             /\ tree' = [tree EXCEPT ![run.at] =
                           [value |-> plan[q][run.at], stamp |-> b]]
        /\ pc' = [pc EXCEPT ![q] = "confirm"]
        /\ UNCHANGED <<run, touched, faults>>
     \/ /\ Fault
        /\ tree' = [tree EXCEPT ![run.at] = [value |-> plan[q][run.at], stamp |-> 0]]
        /\ touched' = touched \union {run.at}
        /\ pc' = [pc EXCEPT ![q] = "confirm"]
        /\ UNCHANGED run
     \/ /\ Fault
        /\ run' = [run EXCEPT !.errors = TRUE, !.at = NoFile, !.seen = NoFile]
        /\ pc' = [pc EXCEPT ![q] = "sync"]
        /\ UNCHANGED <<tree, touched>>
  /\ UNCHANGED <<config, ledger, lock, plan, opts, edits, changes>>

\* A bug to catch: what was written is recorded without a look at it.
RecordableUnseen(c) == c \in Artifact

\* A bug to catch: whatever is not plaintext is taken for encrypted.
RecordableOpaque(c) == c \notin Artifact \ Sealed

(* Plaintext is not recorded.                                              *)
Recordable(c) == c \in Sealed

Confirm(q) ==
  /\ pc[q] = "confirm"
  /\ pc' = [pc EXCEPT ![q] = "sync"]
  /\ run' =
       IF ~Recordable(tree[run.at])
         THEN [run EXCEPT !.errors = TRUE, !.at = NoFile, !.seen = NoFile]
         ELSE [run EXCEPT
                !.wrote[run.at] = tree[run.at],
                !.journal = @ \union {run.at}, !.at = NoFile, !.seen = NoFile]
  /\ UNCHANGED <<config, tree, ledger, lock, plan, opts, touched, faults, edits, changes>>

-----------------------------------------------------------------------------
(* reconcileArtifactState: prune, and save the ledger.                     *)

(* After any error nothing is pruned.                                      *)
Reconcile(q) ==
  LET stale == Stale(q)
      unsafe == \E p \in stale : tree[p] # ledger[p]
  IN
  /\ pc[q] = "sync" /\ run.todo = {}
  /\ IF run.errors \/ unsafe
       THEN /\ run' = [run EXCEPT !.errors = TRUE]
            /\ pc' = [pc EXCEPT ![q] = "save"]
       ELSE /\ run' = [run EXCEPT !.stale = stale]
            /\ pc' = [pc EXCEPT ![q] = "prune"]
  /\ UNCHANGED <<config, tree, ledger, lock, plan, opts, touched, faults, edits, changes>>

Pruned == {p \in run.journal : run.wrote[p] = NoFile}

(* The entries to prune, in any order: one is looked at and then removed;  *)
(* one that changed ends the pruning.                                      *)
GiveUp(q) ==
  /\ run' = [run EXCEPT !.errors = TRUE, !.stale = {}, !.at = NoFile, !.seen = NoFile]
  /\ pc' = [pc EXCEPT ![q] = "unprune"]

Prune(q) ==
  /\ pc[q] = "prune"
  /\ \/ \E p \in run.stale \ Pruned :
          \/ /\ tree[p] = ledger[p]
             /\ run' = [run EXCEPT !.at = p, !.seen = tree[p]]
             /\ pc' = [pc EXCEPT ![q] = "remove"]
          \/ tree[p] # ledger[p] /\ GiveUp(q)
     \/ /\ run.stale \subseteq Pruned
        /\ pc' = [pc EXCEPT ![q] = "save"]
        /\ UNCHANGED run
  /\ UNCHANGED <<config, tree, ledger, lock, plan, opts, touched, faults, edits, changes>>

(* os.Remove takes what is there by now, and fails when nothing is; the    *)
(* snapshot for putting it back is of what is on record.                   *)
Remove(q) ==
  /\ pc[q] = "remove"
  /\ \/ /\ tree[run.at] # NoFile
        /\ tree' = [tree EXCEPT ![run.at] = NoFile]
        /\ run' = [run EXCEPT !.before[run.at] = ledger[run.at],
                     !.journal = @ \union {run.at}, !.at = NoFile, !.seen = NoFile]
        /\ pc' = [pc EXCEPT ![q] = "prune"]
        /\ UNCHANGED faults
     \/ /\ IF tree[run.at] = NoFile THEN UNCHANGED faults ELSE Fault
        /\ GiveUp(q)
        /\ UNCHANGED tree
  /\ UNCHANGED <<config, ledger, lock, plan, opts, touched, edits, changes>>

Drop(p) == run' = [run EXCEPT !.journal = @ \ {p}, !.at = NoFile, !.seen = NoFile]

\* A bug to catch: a path is restored whatever is there.
UndoBlind(q, p, next) ==
  /\ run' = [run EXCEPT !.at = p, !.seen = tree[p]]
  /\ pc' = [pc EXCEPT ![q] = next]

(* rollbackSecretMutation first looks: only what the run itself left there *)
(* is undone.                                                              *)
Undo(q, p, next) ==
  \/ /\ tree[p] = run.wrote[p]
     /\ run' = [run EXCEPT !.at = p, !.seen = tree[p]]
     /\ pc' = [pc EXCEPT ![q] = next]
  \/ tree[p] # run.wrote[p] /\ Drop(p) /\ UNCHANGED pc

(* What was there before is renamed over what is there by now, or what is  *)
(* there by now is removed; the call may fail, and the next entry is tried.*)
Restore(q) ==
  /\ pc[q] \in {"putback", "restore"}
  /\ \/ /\ tree' = [tree EXCEPT ![run.at] = run.before[run.at]]
        /\ UNCHANGED <<touched, faults>>
     \/ /\ Fault
        /\ touched' = touched \union {run.at}
        /\ UNCHANGED tree
  /\ Drop(run.at)
  /\ pc' = [pc EXCEPT ![q] = IF pc[q] = "putback" THEN "unprune" ELSE "rollback"]
  /\ UNCHANGED <<config, ledger, lock, plan, opts, edits, changes>>

Unprune(q) ==
  /\ pc[q] = "unprune"
  /\ \/ \E p \in Pruned : Undo(q, p, "putback")
     \/ /\ Pruned = {}
        /\ pc' = [pc EXCEPT ![q] = "save"]
        /\ UNCHANGED run
  /\ UNCHANGED <<config, tree, ledger, lock, plan, opts, touched, faults, edits, changes>>

\* A bug to catch: the records of all stale artifacts go, pruned or not.
OwnedForgetful(q) ==
  [p \in Path |-> IF p \in Stale(q) THEN NoFile
                  ELSE IF run.wrote[p] # NoFile THEN run.wrote[p] ELSE ledger[p]]

Owned(q) ==
  [p \in Path |-> IF p \in run.stale THEN NoFile
                  ELSE IF run.wrote[p] # NoFile THEN run.wrote[p] ELSE ledger[p]]

Leave(q) ==
  /\ pc' = [pc EXCEPT ![q] = "idle"]
  /\ plan' = [plan EXCEPT ![q] = Unplanned]
  /\ opts' = [opts EXCEPT ![q] = Full]

Unlock == lock' = NoProc /\ run' = Empty

(* The ledger is replaced in one step.                                     *)
Save(q) ==
  /\ pc[q] = "save"
  /\ ledger' = Owned(q)
  /\ touched' = {p \in touched : tree[p] # ledger'[p]}
  /\ Leave(q) /\ Unlock
  /\ UNCHANGED <<config, tree, faults, edits, changes>>

SaveFails(q) ==
  /\ pc[q] = "save" /\ Fault
  /\ pc' = [pc EXCEPT ![q] = "rollback"]
  /\ UNCHANGED <<config, tree, ledger, lock, plan, opts, run, touched, edits, changes>>

Rollback(q) ==
  /\ pc[q] = "rollback"
  /\ \/ (\E p \in run.journal : Undo(q, p, "restore")) /\ UNCHANGED <<lock, plan, opts>>
     \/ run.journal = {} /\ Leave(q) /\ Unlock
  /\ UNCHANGED <<config, tree, ledger, touched, faults, edits, changes>>

(* A run is killed: its lock goes, and what it wrote is on no record.      *)
Kill(q) ==
  /\ pc[q] # "idle" /\ Fault
  /\ Leave(q)
  /\ IF lock = q
       THEN /\ Unlock
            /\ touched' = touched \union run.journal
                            \union (IF pc[q] = "confirm" THEN {run.at} ELSE {})
       ELSE UNCHANGED <<lock, run, touched>>
  /\ UNCHANGED <<config, tree, ledger, edits, changes>>

-----------------------------------------------------------------------------
(* What else writes to the overlay and to the configuration.               *)

Edit(p) ==
  /\ edits < MaxEdits /\ edits' = edits + 1
  /\ tree' \in {[tree EXCEPT ![p] = Edited], [tree EXCEPT ![p] = NoFile]}
  /\ touched' = touched \union {p}
  /\ UNCHANGED <<config, ledger, lock, local, run, faults, changes>>

(* Key rotation and revocation encrypt the artifacts again (KeyLifecycle). *)
Reencrypt(p) ==
  /\ edits < MaxEdits /\ edits' = edits + 1
  /\ tree[p] \in Sealed
  /\ \E b \in Stamp : NewStamp(b, p) /\ tree' = [tree EXCEPT ![p].stamp = b]
  /\ touched' = touched \union {p}
  /\ UNCHANGED <<config, ledger, lock, local, run, faults, changes>>

(* The generator leaves a template where the ledger claims nothing.        *)
Render(p) ==
  /\ edits < MaxEdits /\ edits' = edits + 1
  /\ p \in Dedicated /\ tree[p] = NoFile /\ ledger[p] = NoFile
  /\ \E v \in Value : tree' = [tree EXCEPT ![p] = [value |-> v, stamp |-> 0]]
  /\ touched' = touched \union {p}
  /\ UNCHANGED <<config, ledger, lock, local, run, faults, changes>>

(* The operator, told of an artifact that is not the one on record, puts   *)
(* that back from version control, or moves the file out of the way when   *)
(* nothing is on record.                                                   *)
Resolve(p) ==
  /\ lock = NoProc /\ tree[p] # ledger[p]
  /\ tree' = [tree EXCEPT ![p] = ledger[p]]
  /\ touched' = touched \ {p}
  /\ UNCHANGED <<config, ledger, lock, local, run, faults, edits, changes>>

Configure ==
  /\ changes < MaxChanges /\ changes' = changes + 1
  /\ config' \in Configured \ {config}
  /\ UNCHANGED <<tree, ledger, lock, local, run, touched, faults, edits>>

Working(q) ==
  \/ Enter(q) \/ Look(q) \/ Write(q) \/ Confirm(q) \/ Reconcile(q)
  \/ Prune(q) \/ Remove(q) \/ Unprune(q) \/ Restore(q)
  \/ Save(q) \/ SaveFails(q) \/ Rollback(q)

Next ==
  \/ \E q \in Proc : Working(q) \/ Kill(q) \/ (\E o \in Chosen : Start(q, o))
  \/ \E p \in Path : Edit(p) \/ Reencrypt(p) \/ Render(p) \/ Resolve(p)
  \/ Configure

Spec == Init /\ [][Next]_vars

(* A run goes on, and polls for the lock, which another may always take    *)
(* first; the operator synchronises everything again and again, and        *)
(* resolves what stays in the way.                                         *)
FairSpec ==
  /\ Spec
  /\ \A q \in Proc : WF_vars(Working(q))
  /\ SF_vars(\E q \in Proc : Start(q, Full))
  /\ SF_vars(\E p \in Path : Resolve(p))

-----------------------------------------------------------------------------
(* Properties.                                                             *)

(* Between runs every path is as the ledger says, whatever failed, was     *)
(* pruned, put back or undone, but for those something else has written    *)
(* and those of a run that was killed or could not undo.                   *)
LedgerTrue ==
  lock = NoProc => \A p \in Path \ touched : tree[p] = ledger[p]

(* Only encrypted artifacts are on record, or a plaintext credential would *)
(* count as synchronized for ever.                                         *)
RecordsSealed == \A p \in Path : ledger[p] \in Sealed \union {NoFile}

(* A run takes nothing from the overlay that is neither on record nor its  *)
(* own, at no write, pruning, putting back or undoing.  It looks first, so *)
(* the exceptions are what came after its last look at that very path -    *)
(* while it was encrypted, before os.Remove, before the restoring rename - *)
(* and what --force adopts.                                                *)
Unowned(p) == tree[p] # NoFile /\ tree[p] # ledger[p]
Own(p) == p \in run.journal /\ tree[p] = run.wrote[p]
SinceLook(p) == p = run.at /\ tree[p] # run.seen
Adopted(q, p) ==
  pc[q] = "write" /\ p = run.at /\ opts[q].force /\ p \in Dedicated
EditsKept ==
  [][\A q \in Proc, p \in Path :
       Working(q) /\ Unowned(p) /\ ~Own(p) /\ tree'[p] # tree[p] =>
         SinceLook(p) \/ Adopted(q, p)]_vars

(* Whatever was edited, encrypted again, killed, failed or left half       *)
(* undone, the artifacts come to be those configured, and only those: a    *)
(* run of `secrets sync' never makes a state that the next ones, with the  *)
(* operator putting back what they report, do not get out of.              *)
Synced ==
  \A p \in Path :
    IF config[p] = NoSecret THEN tree[p] = NoFile
    ELSE tree[p] \in Sealed /\ tree[p].value = config[p]
EventuallySynced == <>[]Synced
=============================================================================

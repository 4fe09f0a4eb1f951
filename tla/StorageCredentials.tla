------------------------- MODULE StorageCredentials -------------------------
(***************************************************************************)
(* internal/cluster/storage/openstack, `cluster service storage apply':    *)
(* the object-store credential of a service is created in Keystone, put    *)
(* into the cluster's configuration and, in a rotation, the one before it  *)
(* is revoked.  A recovery record beside the configuration is reserved     *)
(* before and removed after.  Nothing else keeps two applies apart; the    *)
(* configuration is edited by others; calls fail or their answers are      *)
(* lost; and the command may be killed anywhere.                           *)
(***************************************************************************)
EXTENDS Naturals

CONSTANTS
  Process,    \* applies for one service at the same time
  MaxId,      \* bound: credentials that exist or are written down at a time
  None,       \* no credential
  NoFile, Torn,  \* no recovery record, and one reserved but not yet written
  MaxFaults,  \* bound: kills and failed calls
  MaxEdits,   \* bound: changes of the configuration by others
  MaxRotations  \* bound: rotations of a complete pair that are started

Id == 1..MaxId

(* What the file says of the service: the credential's identifier, whose   *)
(* secret it has, whether the storage settings are those of the plan; and  *)
(* the rest of the file.                                                   *)
Config == [id : Id \union {None}, secret : Id \union {None},
           patched : BOOLEAN, rest : 0..MaxEdits]

State == {"creation-pending", "created-not-persisted",
          "persisted-revoke-pending", "persisted-revoke-failed", "revoked"}
Journal == [state : State, id : Id \union {None}]

ASSUME StorageAssumption ==
  /\ MaxId \in Nat \ {0} /\ MaxFaults \in Nat /\ MaxEdits \in Nat
  /\ MaxRotations \in Nat
  /\ None \notin Id
  /\ NoFile # Torn /\ NoFile \notin Journal /\ Torn \notin Journal

Step == {"idle", "review", "adopt", "clear", "ensure", "fill", "create",
         "unreserve", "note", "check", "persist", "pend", "revoke", "retain",
         "finish", "remove"}

(* An apply has the configuration it was planned from, and the credential  *)
(* it has created.                                                         *)
Run == [step : Step, rotate : BOOLEAN, current : Config, new : Id \union {None}]

VARIABLES
  config,   \* the service in the configuration file
  cloud,    \* the credentials that Keystone accepts
  journal,  \* the recovery record, <config>.<service>.storage-recovery.json
  run,      \* what each apply is doing
  lost,     \* live credentials that nothing names any more (history)
  raced,    \* one apply has undone the bookkeeping of another (history)
  faults, edits, rotations

vars == <<config, cloud, journal, run, lost, raced, faults, edits, rotations>>
history == <<lost, raced>>
bounds == <<faults, edits, rotations>>

Absent == [id |-> None, secret |-> None, patched |-> FALSE, rest |-> 0]
Idle == [step |-> "idle", rotate |-> FALSE, current |-> Absent, new |-> None]

TypeOK ==
  /\ config \in Config
  /\ cloud \in SUBSET Id
  /\ journal \in Journal \union {NoFile, Torn}
  /\ run \in [Process -> Run]
  /\ lost \in SUBSET Id
  /\ raced \in BOOLEAN
  /\ faults \in 0..MaxFaults /\ edits \in 0..MaxEdits
  /\ rotations \in 0..MaxRotations

-----------------------------------------------------------------------------
(* credentialState. *)
Complete(c) == c.id # None /\ c.secret # None
Partial(c) == (c.id = None) # (c.secret = None)

(* A partial pair is only ever replaced. *)
Blocked(c, rotate) == Partial(c) /\ ~rotate

Needs(r) == ~Complete(r.current) \/ r.rotate

\* A bug to catch: the settings are not looked at when the pair is complete.
NoOpWhenPaired(r) == ~Needs(r)
NoOp(r) == ~Needs(r) /\ r.current.patched

\* A bug to catch: the credential to revoke is looked up after persisting.
OldByNow(r) == config.id

Old(r) == r.current.id

(* The configuration that is persisted. *)
Prospective(r) ==
  IF Needs(r) THEN [r.current EXCEPT !.patched = TRUE, !.id = r.new, !.secret = r.new]
              ELSE [r.current EXCEPT !.patched = TRUE]

(* Keystone's identifiers are never used twice; here one may be, once      *)
(* nothing mentions it.                                                    *)
Mentioned ==
  cloud \union lost \union {config.id, config.secret}
    \union UNION {{run[q].new, run[q].current.id, run[q].current.secret} : q \in Process}
    \union (IF journal \in {NoFile, Torn} THEN {} ELSE {journal.id})
NewId == CHOOSE i \in Id \ Mentioned : TRUE

(* The apply may have a record, or be removing one. *)
AtWork(q) == run[q].step \notin {"idle", "review", "adopt", "ensure"}

Go(p, s) == run' = [run EXCEPT ![p].step = s]
End(p) == run' = [run EXCEPT ![p] = Idle]

-----------------------------------------------------------------------------
(* A service whose storage is not set up yet; its pair may be half there,  *)
(* or be gone from Keystone.                                               *)
Init ==
  /\ config \in {c \in Config : ~c.patched /\ c.rest = 0 /\ {c.id, c.secret} \subseteq {1, None}}
  /\ cloud \in {{}, {1}} /\ (cloud = {1} => config.id = 1)
  /\ journal = NoFile
  /\ run = [p \in Process |-> Idle]
  /\ lost = {} /\ raced = FALSE
  /\ faults = 0 /\ edits = 0 /\ rotations = 0

(* The command loads and plans, and the operator reads the plan. *)
Start(p, rotate) ==
  /\ run[p].step = "idle"
  /\ ~Blocked(config, rotate)
  /\ run' = [run EXCEPT ![p] =
       [step |-> "review", rotate |-> rotate, current |-> config, new |-> None]]
  /\ rotations' = rotations + (IF rotate /\ Complete(config) THEN 1 ELSE 0)
  /\ rotations' <= MaxRotations
  /\ UNCHANGED <<config, cloud, journal, history, faults, edits>>

(* The file must be the one that was planned from. *)
Reread(p) ==
  /\ run[p].step = "review"
  /\ IF config = run[p].current THEN Go(p, "adopt") ELSE End(p)
  /\ UNCHANGED <<config, cloud, journal, history, bounds>>

-----------------------------------------------------------------------------
(* The record of an apply before. *)

Stranded(j) ==
  /\ j \notin {NoFile, Torn}
  /\ j.state \in {"persisted-revoke-pending", "persisted-revoke-failed"}

(* reconcileStrandedJournal.  A record that does not parse ends the        *)
(* command.                                                                *)
Adopt(p) ==
  /\ run[p].step = "adopt"
  /\ IF journal = Torn THEN End(p)
     ELSE Go(p, IF Stranded(journal) /\ Complete(run[p].current)
                THEN "clear" ELSE "ensure")
  /\ UNCHANGED <<config, cloud, journal, history, bounds>>

(* The record goes, and with it what it was kept for. *)
Clear(p) ==
  /\ run[p].step = "clear"
  /\ IF journal = NoFile THEN End(p) ELSE Go(p, "ensure")
  /\ journal' = NoFile
  /\ lost' = lost \union (cloud \ {config.id})
  /\ raced' = (raced \/ \E q \in Process \ {p} : AtWork(q))
  /\ UNCHANGED <<config, cloud, bounds>>

(* With the containers ensured, what is left to do? *)
Ensure(p) ==
  /\ run[p].step = "ensure" /\ ~Needs(run[p])
  /\ IF NoOp(run[p]) THEN End(p) ELSE Go(p, "check")
  /\ UNCHANGED <<config, cloud, journal, history, bounds>>

(* The reservation creates the file exclusively, and then writes it. *)
Reserve(p) ==
  /\ run[p].step = "ensure" /\ Needs(run[p])
  /\ IF journal = NoFile
     THEN Go(p, "fill") /\ journal' = Torn
     ELSE End(p) /\ UNCHANGED journal
  /\ UNCHANGED <<config, cloud, history, bounds>>

(* A bug to catch: a state that no later apply knows. *)
RecordMisnamed(p, s) ==
  journal' = [state |-> IF s = "revoked" THEN "complete" ELSE s, id |-> run[p].new]

(* An update replaces the record whole, or brings it back. *)
Record(p, s) == journal' = [state |-> s, id |-> run[p].new]

Fill(p) ==
  /\ run[p].step = "fill" /\ Go(p, "create")
  /\ Record(p, "creation-pending")
  /\ UNCHANGED <<config, cloud, history, bounds>>

-----------------------------------------------------------------------------
(* The credential. *)

Create(p) ==
  /\ run[p].step = "create" /\ Id \ Mentioned # {}
  /\ cloud' = cloud \union {NewId}
  /\ run' = [run EXCEPT ![p].new = NewId, ![p].step = "note"]
  /\ UNCHANGED <<config, journal, history, bounds>>

(* An error, after which there may be a credential all the same. *)
CreateFails(p) ==
  /\ run[p].step = "create" /\ Go(p, "unreserve")
  /\ faults < MaxFaults /\ faults' = faults + 1
  /\ \/ UNCHANGED <<cloud, lost>>
     \/ /\ Id \ Mentioned # {}
        /\ cloud' = cloud \union {NewId} /\ lost' = lost \union {NewId}
  /\ UNCHANGED <<config, journal, raced, edits, rotations>>

(* RemoveRecovery, after a creation that failed and at the end. *)
Remove(p) ==
  /\ run[p].step \in {"unreserve", "remove"} /\ End(p)
  /\ journal' = NoFile
  /\ UNCHANGED <<config, cloud, history, bounds>>

Note(p) ==
  /\ run[p].step = "note" /\ Go(p, "check")
  /\ Record(p, "created-not-persisted")
  /\ UNCHANGED <<config, cloud, history, bounds>>

(* The file must still be the one that was planned from. *)
Check(p) ==
  /\ run[p].step = "check"
  /\ IF config = run[p].current THEN Go(p, "persist") ELSE End(p)
  /\ UNCHANGED <<config, cloud, journal, history, bounds>>

(* What has changed since that look is overwritten. *)
Persist(p) ==
  /\ run[p].step = "persist"
  /\ config' = Prospective(run[p])
  /\ IF Needs(run[p]) THEN Go(p, "pend") ELSE End(p)
  /\ raced' = (raced \/ config # run[p].current)
  /\ UNCHANGED <<cloud, journal, lost, bounds>>

Pend(p) ==
  /\ run[p].step = "pend"
  /\ Go(p, IF run[p].rotate /\ Old(run[p]) # None THEN "revoke" ELSE "finish")
  /\ Record(p, "persisted-revoke-pending")
  /\ UNCHANGED <<config, cloud, history, bounds>>

(* "Not found" is an answer as good as any. *)
Revoke(p) ==
  /\ run[p].step = "revoke" /\ Go(p, "finish")
  /\ cloud' = cloud \ {Old(run[p])} /\ lost' = lost \ {Old(run[p])}
  /\ UNCHANGED <<config, journal, raced, bounds>>

(* A bug to catch: any answer is. *)
AfterFailure(p) == Go(p, "finish")
Unrevoked(p) == Go(p, "retain")

RevokeFails(p) ==
  /\ run[p].step = "revoke" /\ Unrevoked(p)
  /\ faults < MaxFaults /\ faults' = faults + 1
  /\ cloud' \in {cloud, cloud \ {Old(run[p])}} /\ lost' = lost \intersect cloud'
  /\ UNCHANGED <<config, journal, raced, edits, rotations>>

Retain(p) ==
  /\ run[p].step = "retain" /\ End(p)
  /\ Record(p, "persisted-revoke-failed")
  /\ UNCHANGED <<config, cloud, history, bounds>>

Finish(p) ==
  /\ run[p].step = "finish" /\ Go(p, "remove")
  /\ Record(p, "revoked")
  /\ UNCHANGED <<config, cloud, history, bounds>>

-----------------------------------------------------------------------------
(* What else happens. *)

(* The command is killed, or a call fails and it returns: neither undoes   *)
(* anything.                                                               *)
Stop(p) ==
  /\ run[p].step # "idle" /\ End(p)
  /\ faults < MaxFaults /\ faults' = faults + 1
  /\ UNCHANGED <<config, cloud, journal, history, edits, rotations>>

(* Somebody else changes the configuration. *)
Edit ==
  /\ edits < MaxEdits /\ edits' = edits + 1
  /\ config' = [config EXCEPT !.rest = edits + 1]
  /\ UNCHANGED <<cloud, journal, run, history, faults, rotations>>

(* "resolve the prior apply before retrying": with no apply at work, the   *)
(* operator revokes the credential that the record names, unless it is in  *)
(* use, and removes the record.                                            *)
Resolve ==
  /\ journal # NoFile /\ \A q \in Process : ~AtWork(q)
  /\ journal' = NoFile
  /\ cloud' = IF journal = Torn \/ journal.id = config.id THEN cloud
              ELSE cloud \ {journal.id}
  /\ lost' = lost \union (cloud' \ {config.id})
  /\ UNCHANGED <<config, run, raced, bounds>>

Goes(p) ==
  \/ Reread(p) \/ Adopt(p) \/ Clear(p) \/ Ensure(p) \/ Reserve(p) \/ Fill(p)
  \/ Create(p) \/ Remove(p) \/ Note(p) \/ Check(p) \/ Persist(p) \/ Pend(p)
  \/ Revoke(p) \/ Retain(p) \/ Finish(p)

Next ==
  \/ \E p \in Process :
       \/ \E r \in BOOLEAN : Start(p, r)
       \/ Goes(p)
       \/ CreateFails(p) \/ RevokeFails(p)
       \/ Stop(p)
  \/ Edit
  \/ Resolve

Spec == Init /\ [][Next]_vars

(* Applies go on, the operator applies again and again, replaces a partial *)
(* pair as the command advises, and resolves the records that block it.    *)
FairSpec ==
  /\ Spec
  /\ \A p \in Process : WF_vars(Goes(p))
  /\ SF_vars(\E p \in Process : Start(p, FALSE))
  /\ SF_vars(Partial(config) /\ \E p \in Process : Start(p, TRUE))
  /\ SF_vars(Resolve)

-----------------------------------------------------------------------------
(* Properties. *)

(* A service with a credential that works keeps one, through every apply,  *)
(* rotation, failure and kill: what is revoked is never what the file      *)
(* names.  The exception is named: one apply has overwritten another's     *)
(* configuration between its last look and its write, or has taken its     *)
(* record for that of a dead one.                                          *)
Usable(c, live) == Complete(c) /\ c.id \in live /\ c.secret = c.id
KeepsUsable ==
  [][Usable(config, cloud) => Usable(config', cloud') \/ raced']_vars

(* When no apply is at work and there is no record, no credential is alive *)
(* but the configured one, whatever failed or was killed: a record stays   *)
(* as long as something is left to do.  The exceptions are named: a        *)
(* creation whose answer was lost, a record adopted or removed by hand     *)
(* before its work was done (all in `lost'), and applies that raced.       *)
NothingForgotten ==
  journal = NoFile /\ ~raced /\ (\A p \in Process : ~AtWork(p)) =>
    cloud \subseteq {config.id} \union lost

(* An operator who keeps applying ends with a complete pair and the        *)
(* settings that were planned.                                             *)
EventuallyApplied == <>[](Complete(config) /\ config.patched)

(* service.go:664: "when the credential it describes is already the one    *)
(* recorded in the current configuration, the remote work is provably      *)
(* complete, so the record is cleared".  Refuted: the credential that was  *)
(* to be revoked is alive, and the record was what was left to tell.       *)
AdoptsCompleted ==
  [][\A p \in Process : Clear(p) => cloud \ lost \subseteq {config.id}]_vars
=============================================================================

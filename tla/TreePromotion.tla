---------------------------- MODULE TreePromotion ----------------------------
(***************************************************************************)
(* internal/gitops, `cluster generate': a rendered tree is promoted into   *)
(* the customer's repository.  A run plans from its ownership manifest, a  *)
(* scan of the tree and the ledger of `secrets sync', verifies every path  *)
(* it replaces, writes the manifest last, and on any error puts back what  *)
(* it has replaced.  Nothing locks the repository: people edit it, secrets *)
(* are synchronised and other runs complete between any two steps.         *)
(***************************************************************************)
EXTENDS Naturals

CONSTANTS
  Path,        \* files of one cluster, relative to the repository
  Seed,        \* those under custom/: written when absent, then the user's
  Credential,  \* those `secrets sync' may take over
  Value,       \* rendered contents
  Absent,      \* no file, no record, nothing rendered
  Edited,      \* contents written by hand
  Sealed,      \* an encrypted credential
  Renders,     \* bound: the trees that are rendered
  Chosen,      \* bound: the options runs are started with
  MaxFaults,   \* bound: kills and failed calls
  MaxEdits,    \* bound: changes by others
  MaxChanges   \* bound: changes of the configuration

Content == Value \union {Absent, Edited, Sealed}
Trees == [Path -> Value \union {Absent}]
Options == [force : BOOLEAN, adopt : BOOLEAN, prune : BOOLEAN]
Default == [force |-> FALSE, adopt |-> FALSE, prune |-> TRUE]
Insistent == [force |-> TRUE, adopt |-> TRUE, prune |-> TRUE]

VARIABLES
  desired,  \* what rendering the configuration gives
  tree,     \* the repository
  ledger,   \* .opencenter/ownership: the rendered contents recorded of a path
  secret,   \* the paths in the ledger of `secrets sync'
  saved,    \* .opencenter-backup
  pc, run,  \* the promotion
  touched,  \* paths that not only completed promotions have written
  faults, edits, changes

vars == <<desired, tree, ledger, secret, saved, pc, run, touched, faults, edits, changes>>

ASSUME PromotionAssumption ==
  /\ Seed \subseteq Path /\ Credential \subseteq Path \ Seed
  /\ Absent # Edited /\ Absent # Sealed /\ Edited # Sealed
  /\ {Absent, Edited, Sealed} \intersect Value = {}
  /\ Renders \subseteq Trees
  /\ Chosen \subseteq Options
  /\ MaxFaults \in Nat /\ MaxEdits \in Nat /\ MaxChanges \in Nat

Pcs == {"idle", "load", "scan", "decide", "snapshot", "apply", "verify", "replace",
        "check", "commit", "rollback"}
NoTree == [p \in Path |-> Absent]

(* The memory of a run: its options, what it rendered, the manifest it     *)
(* loaded, what it scanned and found claimed by `secrets sync'; the paths  *)
(* to delete, to back up and to write; what it expects before it replaces  *)
(* a path, and of the manifest; the path it is at, the paths it has noted  *)
(* with what they held, whether the manifest is to be put back, and what   *)
(* it has backed up.                                                       *)
Memory == [opts : Options, want : Trees, known : Trees, seen : [Path -> Content],
           owned : SUBSET Path, deletes : SUBSET Path, backups : SUBSET Path,
           writes : SUBSET Path, pre : [Path -> Content], base : Trees,
           at : Path \union {Absent}, done : SUBSET Path, note : [Path -> Content],
           manifest : BOOLEAN, kept : SUBSET (Path \X Content)]
Fresh == [opts |-> Default, want |-> NoTree, known |-> NoTree, seen |-> NoTree,
          owned |-> {}, deletes |-> {}, backups |-> {}, writes |-> {},
          pre |-> NoTree, base |-> NoTree, at |-> Absent, done |-> {},
          note |-> NoTree, manifest |-> FALSE, kept |-> {}]

TypeOK ==
  /\ desired \in Trees
  /\ tree \in [Path -> Content]
  /\ ledger \in Trees
  /\ secret \in SUBSET Credential
  /\ saved \in SUBSET (Path \X Content)
  /\ pc \in Pcs /\ run \in Memory
  /\ touched \in SUBSET Path
  /\ faults \in 0..MaxFaults /\ edits \in 0..MaxEdits /\ changes \in 0..MaxChanges

Init ==
  /\ desired \in Renders
  /\ tree = NoTree /\ ledger = NoTree
  /\ secret = {} /\ saved = {}
  /\ pc = "idle" /\ run = Fresh
  /\ touched = {}
  /\ faults = 0 /\ edits = 0 /\ changes = 0

Fault == faults < MaxFaults /\ faults' = faults + 1

-----------------------------------------------------------------------------
(* planRepositoryPromotion, as a function of what it has read: r is the    *)
(* memory of a run.                                                        *)

(* Paths of `secrets sync' are not the generator's to write or to prune.   *)
Planned(r) == {p \in Path \ (Seed \union r.owned) : r.want[p] # Absent}

Tampered(r) == {p \in Path \ (Seed \union r.owned) :
                  r.seen[p] # Absent /\ r.seen[p] # r.known[p]}

(* A modified file of the run before, or one that is not on record.        *)
MayAdopt(r, p) ==
  /\ p \in Planned(r)
  /\ IF r.known[p] # Absent THEN r.opts.force
     ELSE r.opts.adopt \/ r.seen[p] = r.want[p]

Refused(r) == \E p \in Tampered(r) : ~MayAdopt(r, p)

Unwritten(r) == {p \in Planned(r) : r.seen[p] # r.want[p]}

Stale(r) == {p \in Path \ (Seed \union r.owned) :
               r.known[p] # Absent /\ p \notin Planned(r)}

Pruned(r) == IF r.opts.prune THEN {p \in Stale(r) : r.seen[p] # Absent} ELSE {}

\* A bug to catch: what is recorded is what was found, not what is written.
RecordsFound(r) ==
  [p \in Path |-> IF p \in Planned(r) THEN r.seen[p]
                  ELSE IF p \in Stale(r) /\ r.opts.prune THEN Absent
                  ELSE r.known[p]]

\* A bug to catch: the record of a file that is already gone is kept.
RecordsKept(r) ==
  [p \in Path |-> IF p \in Planned(r) THEN r.want[p]
                  ELSE IF p \in Pruned(r) THEN Absent
                  ELSE r.known[p]]

(* The records of the manifest that was loaded, with the changes.          *)
Records(r) ==
  [p \in Path |-> IF p \in Planned(r) THEN r.want[p]
                  ELSE IF p \in Stale(r) /\ r.opts.prune THEN Absent
                  ELSE r.known[p]]

-----------------------------------------------------------------------------
(* Planning: the manifest, the tree and the ledger of `secrets sync' are   *)
(* read one after the other, and some preimages last.                      *)

Start(o) ==
  /\ pc = "idle"
  /\ pc' = "load"
  /\ run' = [Fresh EXCEPT !.opts = o, !.want = desired]
  /\ UNCHANGED <<desired, tree, ledger, secret, saved, touched, faults, edits, changes>>

Load ==
  /\ pc = "load"
  /\ pc' = "scan"
  /\ run' = [run EXCEPT !.known = ledger]
  /\ UNCHANGED <<desired, tree, ledger, secret, saved, touched, faults, edits, changes>>

Scan ==
  /\ pc = "scan"
  /\ pc' = "decide"
  /\ run' = [run EXCEPT !.seen = tree]
  /\ UNCHANGED <<desired, tree, ledger, secret, saved, touched, faults, edits, changes>>

(* What the files that are there were found to be, or not to be, decides.  *)
Decide ==
  LET r == [run EXCEPT !.owned = secret]
      seeds == {p \in Seed : r.want[p] # Absent /\ tree[p] = Absent}
  IN
  /\ pc = "decide"
  /\ \/ Refused(r) /\ pc' = "idle" /\ run' = Fresh
     \/ /\ ~Refused(r)
        /\ pc' = "snapshot"
        /\ run' = [r EXCEPT !.deletes = Pruned(r),
                            !.backups = Tampered(r) \intersect Unwritten(r),
                            !.writes = Unwritten(r) \union seeds]
  /\ UNCHANGED <<desired, tree, ledger, secret, saved, touched, faults, edits, changes>>

(* A path that was scanned is expected to be as it was; one that was not   *)
(* there, as it is now.                                                    *)
Snapshot ==
  /\ pc = "snapshot"
  /\ pc' = "apply"
  /\ run' = [run EXCEPT
              !.pre = [p \in Path |-> IF p \in Seed \/ run.seen[p] = Absent
                                        THEN tree[p] ELSE run.seen[p]],
              !.base = ledger]
  /\ UNCHANGED <<desired, tree, ledger, secret, saved, touched, faults, edits, changes>>

-----------------------------------------------------------------------------
(* applyGeneratedTreePlan.                                                 *)

(* Deletions come first, then backups, then writes.                        *)
Ready == IF run.deletes # {} THEN run.deletes
         ELSE IF run.backups # {} THEN {} ELSE run.writes

\* A bug to catch: what is there is not compared with what was planned on.
UnchangedAnyhow(p) == TRUE

UnchangedSince(p) == tree[p] = run.pre[p]

(* mutate verifies the path and notes what it holds for the rollback,      *)
Capture ==
  /\ pc = "apply"
  /\ \E p \in Ready :
       IF UnchangedSince(p)
         THEN /\ run' = [run EXCEPT !.at = p, !.done = @ \union {p}, !.note[p] = tree[p]]
              /\ pc' = "verify"
         ELSE pc' = "rollback" /\ UNCHANGED run
  /\ UNCHANGED <<desired, tree, ledger, secret, saved, touched, faults, edits, changes>>

(* verifies it again,                                                      *)
Verify ==
  /\ pc = "verify"
  /\ pc' = IF UnchangedSince(run.at) THEN "replace" ELSE "rollback"
  /\ UNCHANGED <<desired, tree, ledger, secret, saved, run, touched, faults, edits, changes>>

(* and removes it, which fails when it is gone, or renames the rendered    *)
(* file over what is there by now.                                         *)
Replace ==
  LET gone == run.at \in run.deletes /\ tree[run.at] = Absent
  IN
  /\ pc = "replace"
  /\ \/ /\ ~gone
        /\ tree' = [tree EXCEPT ![run.at] =
                      IF run.at \in run.deletes THEN Absent ELSE run.want[run.at]]
        /\ run' = [run EXCEPT !.deletes = @ \ {run.at}, !.writes = @ \ {run.at}]
        /\ pc' = "apply"
        /\ UNCHANGED faults
     \/ /\ IF gone THEN UNCHANGED faults ELSE Fault
        /\ pc' = "rollback"
        /\ UNCHANGED <<tree, run>>
  /\ UNCHANGED <<desired, ledger, secret, saved, touched, edits, changes>>

(* What was scanned of an adopted file is kept beside the repository.      *)
Copies == {<<p, run.seen[p]>> : p \in run.backups}
Backup ==
  /\ pc = "apply" /\ run.deletes = {} /\ run.backups # {}
  /\ \/ /\ saved' = saved \union Copies
        /\ run' = [run EXCEPT !.backups = {}, !.kept = Copies \ saved]
        /\ UNCHANGED <<pc, faults>>
     \/ /\ Fault
        /\ pc' = "rollback"
        /\ UNCHANGED <<saved, run>>
  /\ UNCHANGED <<desired, tree, ledger, secret, touched, edits, changes>>

(* The manifest comes last: it is verified and noted,                      *)
Finish ==
  /\ pc = "apply" /\ run.deletes = {} /\ run.backups = {} /\ run.writes = {}
  /\ pc' = IF ledger = run.base THEN "check" ELSE "rollback"
  /\ UNCHANGED <<desired, tree, ledger, secret, saved, run, touched, faults, edits, changes>>

(* verified again,                                                         *)
Check ==
  /\ pc = "check"
  /\ IF ledger = run.base
       THEN pc' = "commit" /\ UNCHANGED run
       ELSE pc' = "rollback" /\ run' = [run EXCEPT !.manifest = TRUE]
  /\ UNCHANGED <<desired, tree, ledger, secret, saved, touched, faults, edits, changes>>

(* and renamed over whatever is there by now.                              *)
Commit ==
  /\ pc = "commit"
  /\ \/ /\ ledger' = Records(run)
        /\ touched' = {p \in touched : tree[p] # ledger'[p]}
        /\ pc' = "idle" /\ run' = Fresh
        /\ UNCHANGED faults
     \/ /\ Fault
        /\ pc' = "rollback" /\ run' = [run EXCEPT !.manifest = TRUE]
        /\ UNCHANGED <<ledger, touched>>
  /\ UNCHANGED <<desired, tree, secret, saved, edits, changes>>

\* A bug to catch: only the path at hand is put back.
RestorableLast == run.done \intersect {run.at}

\* A bug to catch: every path of the plan is put back, noted or not.
RestorablePlanned == run.done \union run.deletes \union run.writes

Restorable == run.done

(* Every noted path is put back as it was noted, whatever is there now,    *)
(* and so is the manifest; a failure is only reported.                     *)
Rollback ==
  /\ pc = "rollback"
  /\ \/ \E p \in Restorable :
          /\ run' = [run EXCEPT !.done = @ \ {p}]
          /\ \/ tree' = [tree EXCEPT ![p] = run.note[p]] /\ UNCHANGED <<touched, faults>>
             \/ Fault /\ touched' = touched \union {p} /\ UNCHANGED tree
          /\ UNCHANGED <<ledger, saved, pc>>
     \/ /\ run.manifest
        /\ run' = [run EXCEPT !.manifest = FALSE]
        /\ \/ ledger' = run.base /\ UNCHANGED faults
           \/ Fault /\ UNCHANGED ledger
        /\ UNCHANGED <<tree, touched, saved, pc>>
     \/ /\ Restorable = {} /\ ~run.manifest
        /\ saved' = saved \ run.kept
        /\ pc' = "idle" /\ run' = Fresh
        /\ UNCHANGED <<tree, ledger, touched, faults>>
  /\ UNCHANGED <<desired, secret, edits, changes>>

Kill ==
  /\ pc # "idle" /\ Fault
  /\ touched' = touched \union run.done
  /\ pc' = "idle" /\ run' = Fresh
  /\ UNCHANGED <<desired, tree, ledger, secret, saved, edits, changes>>

-----------------------------------------------------------------------------
(* What else happens to the repository.                                    *)

Meddle == edits < MaxEdits /\ edits' = edits + 1

Edit(p) ==
  /\ Meddle
  /\ tree' \in {[tree EXCEPT ![p] = Edited], [tree EXCEPT ![p] = Absent]}
  /\ touched' = touched \union {p}
  /\ UNCHANGED <<desired, ledger, secret, saved, pc, run, faults, changes>>

(* `secrets sync' writes an artifact, and later its ledger (SecretSync).   *)
Seal(p) ==
  /\ Meddle /\ p \in Credential
  /\ tree' = [tree EXCEPT ![p] = Sealed]
  /\ touched' = touched \union {p}
  /\ UNCHANGED <<desired, ledger, secret, saved, pc, run, faults, changes>>

Claim(p) ==
  /\ tree[p] = Sealed /\ p \in Credential \ secret
  /\ secret' = secret \union {p}
  /\ UNCHANGED <<desired, tree, ledger, saved, pc, run, touched, faults, edits, changes>>

(* The credential is no longer configured, and it removes what it owns.    *)
Disown(p) ==
  /\ p \in secret
  /\ changes < MaxChanges /\ changes' = changes + 1
  /\ tree' = [tree EXCEPT ![p] = Absent]
  /\ secret' = secret \ {p}
  /\ touched' = touched \union {p}
  /\ UNCHANGED <<desired, ledger, saved, pc, run, faults, edits>>

(* Another promotion completes between two steps of this one.              *)
Rival(w) ==
  LET r == [Fresh EXCEPT !.want = w, !.known = ledger, !.seen = tree, !.owned = secret]
  IN
  /\ Meddle /\ pc # "idle"
  /\ ~Refused(r)
  /\ tree' = [p \in Path |->
                IF p \in Pruned(r) THEN Absent
                ELSE IF p \in Unwritten(r) \/ (p \in Seed /\ tree[p] = Absent) THEN w[p]
                ELSE tree[p]]
  /\ ledger' = Records(r)
  /\ touched' = touched \union
                  {p \in Path : tree'[p] # tree[p] \/ ledger'[p] # ledger[p]}
  /\ UNCHANGED <<desired, secret, saved, pc, run, faults, changes>>

Configure ==
  /\ changes < MaxChanges /\ changes' = changes + 1
  /\ desired' \in Renders \ {desired}
  /\ UNCHANGED <<tree, ledger, secret, saved, pc, run, touched, faults, edits>>

Promoting ==
  \/ Load \/ Scan \/ Decide \/ Snapshot
  \/ Capture \/ Verify \/ Replace \/ Backup \/ Finish
  \/ Check \/ Commit \/ Rollback

Next ==
  \/ Promoting \/ Kill
  \/ \E o \in Chosen : Start(o)
  \/ \E p \in Path : Edit(p) \/ Seal(p) \/ Claim(p) \/ Disown(p)
  \/ \E w \in Renders : Rival(w)
  \/ Configure

Spec == Init /\ [][Next]_vars

(* A run goes on, and the operator promotes again and again, insisting.    *)
FairSpec == Spec /\ WF_vars(Promoting) /\ SF_vars(Start(Insistent))

-----------------------------------------------------------------------------
(* Properties.                                                             *)

(* Between promotions the manifest tells the truth of every generated file *)
(* that nobody else wrote and that no kill or failed restoring left behind.*)
LedgerTrue ==
  pc = "idle" => \A p \in Path \ (Seed \union touched) : tree[p] = ledger[p]

(* A promotion, and its rollback, takes only what the manifest it loaded   *)
(* records, what it has a backup of, what appeared while it planned, and   *)
(* what came to a path after it noted it.  The last is the window of a     *)
(* replacement after its second verification; and whatever a rollback      *)
(* finds there, an edit its own second verification detected included.     *)
Late(p) == p \in run.done /\ tree[p] # run.note[p]
EditsSaved ==
  [][\A p \in Path :
       (Replace \/ Rollback) /\ tree'[p] # tree[p] =>
         \/ tree[p] \in {Absent, run.known[p]}
         \/ <<p, tree[p]>> \in saved
         \/ run.seen[p] = Absent \/ p \in Seed
         \/ Late(p)]_vars

(* A file that is neither recorded as it is nor rendered any more stays in *)
(* the way of every run; nothing else does.                                *)
InTheWay(p) ==
  /\ p \notin Seed \union secret
  /\ tree[p] \notin {Absent, ledger[p]} /\ desired[p] = Absent

Promoted ==
  \A p \in Path \ secret :
    IF p \in Seed THEN desired[p] # Absent => tree[p] # Absent
    ELSE tree[p] = desired[p] /\ ledger[p] = desired[p]

EventuallyPromoted ==
  <>[](\A p \in Path : ~InTheWay(p)) => <>[]Promoted
=============================================================================

------------------------ MODULE TreePromotionProofs ------------------------
(***************************************************************************)
(* Proofs about TreePromotion: whatever is rendered, edited, killed or     *)
(* promoted in between, the manifest tells the truth of the files that     *)
(* only promotions have written, and no promotion destroys a change it     *)
(* did not find, record or save.                                           *)
(***************************************************************************)
EXTENDS TreePromotion, TLAPS

Replacing == {"verify", "replace"}
Applying == {"apply", "check", "commit"} \union Replacing
Mine == Path \ (Seed \union touched)

(* What a run remembers of a path that nobody else writes is on record.    *)
Remembered ==
  /\ pc \notin {"idle", "load"} => \A p \in Mine : run.known[p] = ledger[p]
  /\ pc \notin {"idle", "load", "scan"} => \A p \in Mine : run.seen[p] = ledger[p]
  /\ pc \in Applying \union {"rollback"} =>
       \A p \in Mine : run.pre[p] = ledger[p] /\ run.base[p] = ledger[p]

(* What a scan has found is expected to be there when it is replaced.      *)
Expected ==
  pc \in Applying =>
    \A p \in Path \ Seed : run.seen[p] # Absent => run.pre[p] = run.seen[p]

(* What is noted of a path is what was verified.                           *)
Noted == \A p \in run.done : run.note[p] = run.pre[p]

(* A path that is not noted yet is as it was, and one that is noted is as  *)
(* it will be recorded, unless its turn is now.                            *)
InPlace ==
  /\ \A p \in Mine \ run.done : tree[p] = ledger[p]
  /\ pc \in Applying =>
       \A p \in Mine \intersect run.done :
         tree[p] = Records(run)[p] \/ (pc \in Replacing /\ p = run.at)

(* How far the plan is carried out.                                        *)
Scheduled ==
  /\ pc \notin Applying \union {"rollback"} => run.done = {}
  /\ pc \in Applying \union {"snapshot"} =>
       /\ run.deletes \subseteq Pruned(run)
       /\ run.writes \subseteq Unwritten(run) \union Seed
       /\ Pruned(run) \subseteq run.deletes \union run.done
       /\ Unwritten(run) \subseteq run.writes \union run.done
       /\ \A p \in run.done \intersect (run.deletes \union run.writes) :
            pc \in Replacing /\ p = run.at
  /\ pc \in {"check", "commit"} => run.deletes = {} /\ run.writes = {}
  /\ pc \in Replacing => run.at \in run.done \intersect (run.deletes \union run.writes)

(* The plan was not refused, and what it adopts is saved before it writes. *)
Covered ==
  /\ pc \in Applying \union {"snapshot"} =>
       /\ ~Refused(run)
       /\ \/ run.backups = Tampered(run) \intersect Unwritten(run)
          \/ /\ run.backups = {}
             /\ \A p \in Tampered(run) \intersect Unwritten(run) :
                  <<p, run.seen[p]>> \in saved
  /\ pc \in Replacing /\ run.at \notin run.deletes => run.backups = {}

PromotionInv ==
  /\ TypeOK /\ LedgerTrue
  /\ Remembered /\ Expected /\ Noted /\ InPlace /\ Scheduled /\ Covered
-----------------------------------------------------------------------------
LEMMA Initially == Init => PromotionInv
BY PromotionAssumption DEF Init, PromotionInv, TypeOK, LedgerTrue, Remembered,
   Expected, Noted, InPlace, Scheduled, Covered, Applying, Replacing, Mine, Fresh, Memory, NoTree,
   Options, Default, Trees, Content, Pcs

LEMMA FreshTypes == Fresh \in Memory
BY DEF Fresh, Memory, NoTree, Options, Default, Trees, Content

(* The plan is a function of what was read, and of nothing else.           *)
LEMMA PlanKept ==
  ASSUME run'.opts = run.opts, run'.want = run.want, run'.known = run.known,
         run'.seen = run.seen, run'.owned = run.owned
  PROVE  /\ Planned(run)' = Planned(run) /\ Pruned(run)' = Pruned(run)
         /\ Unwritten(run)' = Unwritten(run) /\ Tampered(run)' = Tampered(run)
         /\ Refused(run)' = Refused(run) /\ Records(run)' = Records(run)
<1>1. Planned(run)' = Planned(run) /\ Tampered(run)' = Tampered(run)
  BY DEF Planned, Tampered
<1>2. /\ Unwritten(run)' = Unwritten(run) /\ Stale(run)' = Stale(run)
      /\ \A p \in Path : MayAdopt(run, p)' = MayAdopt(run, p)
  BY <1>1 DEF Unwritten, Stale, MayAdopt
<1>3. Pruned(run)' = Pruned(run) /\ Records(run)' = Records(run)
  BY <1>1, <1>2 DEF Pruned, Records
<1>4. Refused(run)' = Refused(run)
  BY <1>1, <1>2 DEF Refused, Tampered
<1> QED
  BY <1>1, <1>2, <1>3, <1>4

LEMMA PlanTypes ==
  ASSUME NEW r \in Memory
  PROVE  /\ Planned(r) \subseteq Path /\ Pruned(r) \subseteq Path
         /\ Unwritten(r) \subseteq Path /\ Tampered(r) \subseteq Path
         /\ Records(r) \in Trees
BY DEF Planned, Pruned, Unwritten, Tampered, Stale, Records, Memory, Trees

(* What others do leaves the run alone, and is noted.                      *)
LEMMA OthersKeep ==
  ASSUME PromotionInv, TypeOK', UNCHANGED <<saved, pc, run>>, touched \subseteq touched',
         \A p \in Path \ touched' : tree'[p] = tree[p] /\ ledger'[p] = ledger[p]
  PROVE  PromotionInv'
<1> USE DEF PromotionInv
<1>0. Mine' \subseteq Mine /\ \A p \in Mine' : tree'[p] = tree[p] /\ ledger'[p] = ledger[p]
  BY DEF Mine
<1>1. LedgerTrue'
  BY DEF LedgerTrue
<1>2. Remembered' /\ Expected' /\ Noted'
  BY <1>0 DEF Remembered, Expected, Noted, Applying, Replacing
<1>3. InPlace'
  BY <1>0, PlanKept DEF InPlace, Applying, Replacing
<1>4. Scheduled' /\ Covered'
  BY PlanKept DEF Scheduled, Covered, Applying, Replacing
<1> QED
  BY <1>1, <1>2, <1>3, <1>4

(* The end of a run that has noted nothing it leaves behind.               *)
LEMMA Ended ==
  ASSUME TypeOK', LedgerTrue', pc' = "idle", run' = Fresh
  PROVE  PromotionInv'
<1>1. Remembered' /\ Expected' /\ Noted' /\ Covered' /\ Scheduled'
  BY DEF Remembered, Expected, Noted, Covered, Scheduled, Applying, Replacing, Fresh
<1>2. InPlace'
  BY DEF InPlace, LedgerTrue, Mine, Applying, Replacing
<1> QED
  BY <1>1, <1>2 DEF PromotionInv

LEMMA StartKeeps ==
  ASSUME PromotionInv, NEW o \in Chosen, Start(o)
  PROVE  PromotionInv'
<1> USE DEF PromotionInv
<1>1. run' \in Memory /\ run'.done = {}
  BY FreshTypes, PromotionAssumption DEF TypeOK, Start, Fresh, Memory, Options
<1>2. TypeOK' /\ LedgerTrue'
  BY <1>1 DEF TypeOK, LedgerTrue, Start, Pcs
<1>3. Remembered' /\ Expected' /\ Noted' /\ Scheduled' /\ Covered' /\ InPlace'
  BY <1>1 DEF Remembered, Expected, Noted, Scheduled, Covered, InPlace, LedgerTrue,
     Applying, Replacing, Mine, Start
<1> QED
  BY <1>2, <1>3

LEMMA LoadKeeps ==
  ASSUME PromotionInv, Load
  PROVE  PromotionInv'
<1> USE DEF PromotionInv
<1>1. run' \in Memory /\ run'.done = run.done /\ run'.known = ledger
  BY DEF TypeOK, Load, Memory
<1>2. TypeOK' /\ LedgerTrue'
  BY <1>1 DEF TypeOK, LedgerTrue, Load, Pcs
<1>3. Remembered' /\ Expected' /\ Noted' /\ Scheduled' /\ Covered' /\ InPlace'
  BY <1>1 DEF Remembered, Expected, Noted, Scheduled, Covered, InPlace, Applying, Replacing, Mine, Load
<1> QED
  BY <1>2, <1>3

LEMMA ScanKeeps ==
  ASSUME PromotionInv, Scan
  PROVE  PromotionInv'
<1> USE DEF PromotionInv
<1>1. /\ run' \in Memory /\ run'.done = run.done
      /\ run'.known = run.known /\ run'.seen = tree
  BY DEF TypeOK, Scan, Memory
<1>2. TypeOK' /\ LedgerTrue'
  BY <1>1 DEF TypeOK, LedgerTrue, Scan, Pcs
<1>3. Remembered' /\ Expected' /\ Noted' /\ Scheduled' /\ Covered' /\ InPlace'
  BY <1>1 DEF Remembered, Expected, Noted, Scheduled, Covered, InPlace, Applying, Replacing, Mine, Scan
<1> QED
  BY <1>2, <1>3

LEMMA DecideKeeps ==
  ASSUME PromotionInv, Decide
  PROVE  PromotionInv'
<1> USE DEF PromotionInv
<1> DEFINE r == [run EXCEPT !.owned = secret]
           seeds == {p \in Seed : r.want[p] # Absent /\ tree[p] = Absent}
<1>0. r \in Memory
  BY PromotionAssumption DEF TypeOK, Memory
<1>1. CASE Refused(r) /\ pc' = "idle" /\ run' = Fresh
  <2>1. TypeOK'
    BY <1>1, FreshTypes DEF TypeOK, Decide, Pcs
  <2>2. LedgerTrue'
    BY <1>1 DEF LedgerTrue, Decide, InPlace, Scheduled, Applying, Replacing, Mine
  <2> QED
    BY <1>1, <2>1, <2>2, Ended
<1>2. CASE /\ ~Refused(r)
           /\ pc' = "snapshot"
           /\ run' = [r EXCEPT !.deletes = Pruned(r),
                               !.backups = Tampered(r) \intersect Unwritten(r),
                               !.writes = Unwritten(r) \union seeds]
  <2>1. /\ run' \in Memory /\ run'.done = {}
        /\ run'.opts = r.opts /\ run'.want = r.want /\ run'.known = r.known
        /\ run'.seen = r.seen /\ run'.owned = r.owned
        /\ run'.deletes = Pruned(r) /\ run'.writes = Unwritten(r) \union seeds
        /\ run'.backups = Tampered(r) \intersect Unwritten(r)
        /\ run'.known = run.known /\ run'.seen = run.seen
    BY <1>0, <1>2, PlanTypes, PromotionAssumption DEF Memory, Scheduled, Applying, Replacing, Decide
  <2>2. /\ Pruned(run') = Pruned(r) /\ Unwritten(run') = Unwritten(r)
        /\ Tampered(run') = Tampered(r) /\ ~Refused(run')
    BY <1>2, <2>1 DEF Pruned, Unwritten, Tampered, Refused, Stale, Planned, MayAdopt
  <2>3. TypeOK' /\ LedgerTrue'
    BY <1>2, <2>1 DEF TypeOK, LedgerTrue, Decide, Pcs
  <2>4. Remembered' /\ Expected' /\ Noted' /\ InPlace'
    BY <1>2, <2>1 DEF Remembered, Expected, Noted, InPlace, Scheduled, Applying, Replacing, Mine, Decide
  <2>5. Scheduled' /\ Covered'
    BY <1>2, <2>1, <2>2 DEF Scheduled, Covered, Applying, Replacing
  <2> QED
    BY <2>3, <2>4, <2>5
<1> QED
  BY <1>1, <1>2 DEF Decide

LEMMA SnapshotKeeps ==
  ASSUME PromotionInv, Snapshot
  PROVE  PromotionInv'
<1> USE DEF PromotionInv
<1>1. /\ run' \in Memory /\ run'.done = run.done
      /\ run'.opts = run.opts /\ run'.want = run.want /\ run'.known = run.known
      /\ run'.seen = run.seen /\ run'.owned = run.owned
      /\ run'.deletes = run.deletes /\ run'.writes = run.writes
      /\ run'.backups = run.backups
      /\ \A p \in Path : run'.pre[p] = IF p \in Seed \/ run.seen[p] = Absent
                                        THEN tree[p] ELSE run.seen[p]
      /\ run'.base = ledger
  BY DEF TypeOK, Snapshot, Memory
<1>2. TypeOK' /\ LedgerTrue'
  BY <1>1 DEF TypeOK, LedgerTrue, Snapshot, Pcs
<1>3. Remembered' /\ Expected' /\ Noted'
  BY <1>1 DEF Remembered, Expected, Noted, Scheduled, InPlace, Applying, Replacing, Mine, Snapshot
<1>4. InPlace'
  <2>1. run.done = {}
    BY DEF Scheduled, Applying, Replacing, Snapshot
  <2> QED
    BY <1>1, <2>1 DEF InPlace, Mine, Snapshot
<1>5. Scheduled' /\ Covered'
  <2>1. pc = "snapshot" /\ pc' = "apply" /\ saved' = saved
    BY DEF Snapshot
  <2>2. Scheduled'
    BY <1>1, <2>1, PlanKept DEF Scheduled, Applying, Replacing
  <2>3. Covered'
    BY <1>1, <2>1, PlanKept DEF Covered, Applying, Replacing
  <2> QED
    BY <2>2, <2>3
<1> QED
  BY <1>2, <1>3, <1>4, <1>5

LEMMA CaptureKeeps ==
  ASSUME PromotionInv, Capture
  PROVE  PromotionInv'
<1> USE DEF PromotionInv
<1>1. CASE pc' = "rollback" /\ UNCHANGED run
  <2>1. TypeOK' /\ LedgerTrue'
    BY <1>1 DEF TypeOK, LedgerTrue, Capture, Pcs
  <2>2. Remembered' /\ Expected' /\ Noted' /\ InPlace' /\ Scheduled' /\ Covered'
    BY <1>1 DEF Remembered, Expected, Noted, InPlace, Scheduled, Covered, Applying, Replacing, Mine, Capture
  <2> QED
    BY <2>1, <2>2
<1>2. ASSUME NEW p \in Ready, pc' = "verify", UnchangedSince(p),
             run' = [run EXCEPT !.at = p, !.done = @ \union {p}, !.note[p] = tree[p]]
      PROVE  PromotionInv'
  <2>0. p \in run.deletes \union run.writes /\ p \in Path
    BY DEF Ready, TypeOK, Memory
  <2>1. /\ run' \in Memory /\ run'.done = run.done \union {p} /\ run'.at = p
        /\ run'.opts = run.opts /\ run'.want = run.want /\ run'.known = run.known
        /\ run'.seen = run.seen /\ run'.owned = run.owned /\ run'.pre = run.pre
        /\ run'.deletes = run.deletes /\ run'.writes = run.writes
        /\ run'.backups = run.backups /\ run'.base = run.base
        /\ run'.note = [run.note EXCEPT ![p] = run.pre[p]] /\ run.note \in [Path -> Content]
    BY <1>2, <2>0 DEF TypeOK, Memory, UnchangedSince
  <2>2. TypeOK' /\ LedgerTrue'
    BY <1>2, <2>1 DEF TypeOK, LedgerTrue, Capture, Pcs
  <2>3. Remembered' /\ Expected' /\ Noted'
    <3>1. Remembered' /\ Expected'
      BY <1>2, <2>1 DEF Remembered, Expected, Applying, Replacing, Mine, Capture
    <3>2. run.done \subseteq Path
      BY DEF TypeOK, Memory
    <3>3. ASSUME NEW q \in run.done \union {p}
          PROVE  [run.note EXCEPT ![p] = run.pre[p]][q] = run.pre[q]
      BY <2>0, <2>1, <3>2, <3>3 DEF Noted
    <3> QED
      BY <2>1, <3>1, <3>3 DEF Noted
  <2>4. InPlace'
    BY <1>2, <2>1, PlanKept DEF InPlace, Applying, Replacing, Mine, Capture
  <2>5. Scheduled'
    BY <1>2, <2>0, <2>1, PlanKept DEF Scheduled, Applying, Replacing, Capture
  <2>6. Covered'
    BY <1>2, <2>1, PlanKept DEF Covered, Ready, Applying, Replacing, Capture
  <2> QED
    BY <2>2, <2>3, <2>4, <2>5, <2>6
<1> QED
  BY <1>1, <1>2 DEF Capture

LEMMA VerifyKeeps ==
  ASSUME PromotionInv, Verify
  PROVE  PromotionInv'
<1> USE DEF PromotionInv
<1>0. pc = "verify" /\ pc' \in {"replace", "rollback"} /\ UNCHANGED <<ledger, touched, run, tree, saved>>
  BY DEF Verify
<1>1. TypeOK' /\ LedgerTrue'
  BY <1>0 DEF TypeOK, LedgerTrue, Verify, Pcs
<1>2. Remembered' /\ Expected' /\ Noted'
  BY <1>0 DEF Remembered, Expected, Noted, Applying, Replacing, Mine
<1>3. InPlace' /\ Scheduled' /\ Covered'
  BY <1>0, PlanKept DEF InPlace, Scheduled, Covered, Applying, Replacing, Mine
<1> QED
  BY <1>1, <1>2, <1>3

(* What is put in a path is what will be recorded of it.                   *)
LEMMA ReplaceKeeps ==
  ASSUME PromotionInv, Replace
  PROVE  PromotionInv'
<1> USE DEF PromotionInv
<1> pc = "replace"
  BY DEF Replace
<1>0. run.at \in Path /\ run.at \in run.done /\ run.at \in run.deletes \union run.writes
  BY DEF TypeOK, Memory, Scheduled, Replacing
<1>1. CASE /\ tree' = [tree EXCEPT ![run.at] =
                     IF run.at \in run.deletes THEN Absent ELSE run.want[run.at]]
           /\ run' = [run EXCEPT !.deletes = @ \ {run.at}, !.writes = @ \ {run.at}]
           /\ pc' = "apply"
           /\ UNCHANGED faults
  <2>1. /\ run' \in Memory /\ run'.done = run.done /\ run'.at = run.at
        /\ run'.opts = run.opts /\ run'.want = run.want /\ run'.known = run.known
        /\ run'.seen = run.seen /\ run'.owned = run.owned /\ run'.pre = run.pre
        /\ run'.deletes = run.deletes \ {run.at} /\ run'.writes = run.writes \ {run.at}
        /\ run'.backups = run.backups /\ run'.base = run.base /\ run'.note = run.note
    BY <1>1, <1>0 DEF TypeOK, Memory
  <2>2. tree' \in [Path -> Content]
    BY <1>0, <1>1 DEF TypeOK, Memory, Trees, Content
  <2>3. TypeOK' /\ LedgerTrue'
    BY <1>1, <2>1, <2>2 DEF TypeOK, LedgerTrue, Replace, Pcs
  <2>4. Remembered' /\ Expected' /\ Noted'
    BY <1>1, <2>1 DEF Remembered, Expected, Noted, Applying, Replacing, Mine, Replace
  <2>5. run.at \in Mine => tree'[run.at] = Records(run)[run.at]
    <3> SUFFICES ASSUME run.at \in Mine PROVE tree'[run.at] = Records(run)[run.at]
      OBVIOUS
    <3>1. CASE run.at \in run.deletes
      <4>1. run.at \in Pruned(run) /\ tree'[run.at] = Absent
        BY <1>0, <1>1, <3>1 DEF TypeOK, Scheduled, Applying, Replacing
      <4> QED
        BY <1>0, <4>1 DEF Pruned, Stale, Records
    <3>2. CASE run.at \notin run.deletes
      <4>1. run.at \in Unwritten(run) /\ tree'[run.at] = run.want[run.at]
        BY <1>0, <1>1, <3>2 DEF TypeOK, Scheduled, Applying, Replacing, Mine
      <4> QED
        BY <1>0, <4>1 DEF Unwritten, Records
    <3> QED
      BY <3>1, <3>2
  <2>6. InPlace'
    <3>1. touched' = touched /\ ledger' = ledger
      BY DEF Replace
    <3>2. \A p \in Path : p # run.at => tree'[p] = tree[p]
      BY <1>1 DEF TypeOK
    <3> QED
      BY <1>0, <1>1, <2>1, <2>5, <3>1, <3>2, PlanKept DEF InPlace, Applying, Replacing, Mine
  <2>7. Scheduled' /\ Covered'
    <3>1. saved' = saved
      BY DEF Replace
    <3>2. Scheduled'
      BY <1>0, <1>1, <2>1, PlanKept DEF Scheduled, Applying, Replacing
    <3>3. Covered'
      BY <1>1, <2>1, <3>1, PlanKept DEF Covered, Applying, Replacing
    <3> QED
      BY <3>2, <3>3
  <2> QED
    BY <2>3, <2>4, <2>6, <2>7
<1>2. CASE /\ Fault \/ UNCHANGED faults
           /\ pc' = "rollback"
           /\ UNCHANGED <<tree, run>>
  <2>1. TypeOK' /\ LedgerTrue'
    BY <1>2, PromotionAssumption DEF TypeOK, LedgerTrue, Replace, Pcs, Fault
  <2>2. Remembered' /\ Expected' /\ Noted' /\ InPlace' /\ Scheduled' /\ Covered'
    BY <1>2 DEF Remembered, Expected, Noted, InPlace, Scheduled, Covered, Applying, Replacing, Mine, Replace
  <2> QED
    BY <2>1, <2>2
<1> QED
  BY <1>1, <1>2 DEF Replace

LEMMA BackupKeeps ==
  ASSUME PromotionInv, Backup
  PROVE  PromotionInv'
<1> USE DEF PromotionInv
<1> pc = "apply"
  BY DEF Backup
<1>1. CASE /\ saved' = saved \union Copies
           /\ run' = [run EXCEPT !.backups = {}, !.kept = Copies \ saved]
           /\ UNCHANGED <<pc, faults>>
  <2>1. Copies \subseteq Path \X Content
    BY DEF TypeOK, Memory, Copies
  <2>2. /\ run' \in Memory /\ run'.done = run.done /\ run'.at = run.at
        /\ run'.opts = run.opts /\ run'.want = run.want /\ run'.known = run.known
        /\ run'.seen = run.seen /\ run'.owned = run.owned /\ run'.pre = run.pre
        /\ run'.deletes = run.deletes /\ run'.writes = run.writes
        /\ run'.backups = {} /\ run'.base = run.base /\ run'.note = run.note
    BY <1>1, <2>1 DEF TypeOK, Memory
  <2>3. TypeOK' /\ LedgerTrue'
    BY <1>1, <2>1, <2>2 DEF TypeOK, LedgerTrue, Backup
  <2>4. Remembered' /\ Expected' /\ Noted' /\ InPlace'
    BY <1>1, <2>2, PlanKept DEF Remembered, Expected, Noted, InPlace, Applying, Replacing, Mine, Backup
  <2>5. Scheduled'
    BY <1>1, <2>2, PlanKept DEF Scheduled, Applying, Replacing
  <2>6. Covered'
    <3>1. \A p \in Tampered(run) \intersect Unwritten(run) : <<p, run.seen[p]>> \in saved'
      BY <1>1 DEF Covered, Applying, Replacing, Copies
    <3> QED
      BY <1>1, <2>2, <3>1, PlanKept DEF Covered, Applying, Replacing
  <2> QED
    BY <2>3, <2>4, <2>5, <2>6
<1>2. CASE Fault /\ pc' = "rollback" /\ UNCHANGED <<saved, run>>
  <2>1. TypeOK' /\ LedgerTrue'
    BY <1>2, PromotionAssumption DEF TypeOK, LedgerTrue, Backup, Pcs, Fault
  <2>2. Remembered' /\ Expected' /\ Noted' /\ InPlace' /\ Scheduled' /\ Covered'
    BY <1>2 DEF Remembered, Expected, Noted, InPlace, Scheduled, Covered, Applying, Replacing, Mine, Backup
  <2> QED
    BY <2>1, <2>2
<1> QED
  BY <1>1, <1>2 DEF Backup

LEMMA FinishKeeps ==
  ASSUME PromotionInv, Finish
  PROVE  PromotionInv'
<1> USE DEF PromotionInv
<1>0. /\ pc = "apply" /\ pc' \in {"check", "rollback"}
      /\ run.deletes = {} /\ run.writes = {} /\ run.backups = {}
      /\ UNCHANGED <<ledger, touched, run, tree, saved>>
  BY DEF Finish
<1>1. TypeOK' /\ LedgerTrue'
  BY <1>0 DEF TypeOK, LedgerTrue, Finish, Pcs
<1>2. Remembered' /\ Expected' /\ Noted'
  BY <1>0 DEF Remembered, Expected, Noted, Applying, Replacing, Mine
<1>3. InPlace' /\ Scheduled' /\ Covered'
  BY <1>0, PlanKept DEF InPlace, Scheduled, Covered, Applying, Replacing, Mine
<1> QED
  BY <1>1, <1>2, <1>3

LEMMA CheckKeeps ==
  ASSUME PromotionInv, Check
  PROVE  PromotionInv'
<1> USE DEF PromotionInv
<1>0. /\ pc = "check" /\ pc' \in {"commit", "rollback"}
      /\ run.deletes = {} /\ run.writes = {}
      /\ UNCHANGED <<ledger, touched, tree, saved>>
  <2>1. pc = "check" /\ UNCHANGED <<ledger, touched, tree, saved>>
    BY DEF Check
  <2>2. pc' \in {"commit", "rollback"}
    BY DEF Check
  <2> QED
    BY <2>1, <2>2 DEF Scheduled
<1>1. /\ run' \in Memory
      /\ run'.opts = run.opts /\ run'.want = run.want
      /\ run'.known = run.known /\ run'.seen = run.seen /\ run'.owned = run.owned
      /\ run'.done = run.done /\ run'.pre = run.pre /\ run'.base = run.base
      /\ run'.note = run.note /\ run'.deletes = run.deletes
      /\ run'.writes = run.writes /\ run'.backups = run.backups
  <2>1. UNCHANGED run \/ run' = [run EXCEPT !.manifest = TRUE]
    BY DEF Check
  <2> QED
    BY <2>1 DEF TypeOK, Memory
<1>2. TypeOK' /\ LedgerTrue'
  BY <1>0, <1>1 DEF TypeOK, LedgerTrue, Check, Pcs
<1>3. Remembered' /\ Expected' /\ Noted'
  BY <1>0, <1>1 DEF Remembered, Expected, Noted, Applying, Replacing, Mine
<1>4. InPlace' /\ Scheduled' /\ Covered'
  BY <1>0, <1>1, PlanKept DEF InPlace, Scheduled, Covered, Applying, Replacing, Mine
<1> QED
  BY <1>2, <1>3, <1>4

(* With everything in place, the records of the plan are the truth.        *)
LEMMA CommitKeeps ==
  ASSUME PromotionInv, Commit
  PROVE  PromotionInv'
<1> USE DEF PromotionInv
<1> pc = "commit" /\ run.deletes = {} /\ run.writes = {}
  BY DEF Commit, Scheduled
<1>1. CASE /\ ledger' = Records(run)
           /\ touched' = {p \in touched : tree[p] # ledger'[p]}
           /\ pc' = "idle" /\ run' = Fresh
           /\ UNCHANGED faults
  <2>1. TypeOK'
    BY <1>1, FreshTypes, PlanTypes DEF TypeOK, Commit, Pcs
  <2>2. ASSUME NEW p \in Mine PROVE tree[p] = Records(run)[p]
    <3>0. /\ p \in Path \ Seed /\ run.known[p] = ledger[p] /\ run.seen[p] = ledger[p]
          /\ Pruned(run) \subseteq run.done /\ Unwritten(run) \subseteq run.done
      BY <2>2 DEF Remembered, Scheduled, Applying, Replacing, Mine
    <3>1. CASE p \in run.done
      BY <2>2, <3>1 DEF InPlace, Applying, Replacing
    <3>2. CASE p \notin run.done
      <4>1. tree[p] = run.seen[p] /\ p \notin Pruned(run) /\ p \notin Unwritten(run)
        BY <2>2, <3>0, <3>2 DEF InPlace
      <4>2. CASE p \in Planned(run)
        BY <3>0, <4>1, <4>2 DEF Unwritten, Records
      <4>3. CASE p \notin Planned(run) /\ p \in Stale(run) /\ run.opts.prune
        BY <3>0, <4>1, <4>3 DEF Pruned, Records
      <4>4. CASE p \notin Planned(run) /\ ~(p \in Stale(run) /\ run.opts.prune)
        BY <3>0, <4>1, <4>4 DEF Records
      <4> QED
        BY <4>2, <4>3, <4>4
    <3> QED
      BY <3>1, <3>2
  <2>3. LedgerTrue'
    BY <1>1, <2>2 DEF LedgerTrue, Mine, Commit
  <2> QED
    BY <1>1, <2>1, <2>3, Ended
<1>2. CASE /\ Fault
           /\ pc' = "rollback" /\ run' = [run EXCEPT !.manifest = TRUE]
           /\ UNCHANGED <<ledger, touched>>
  <2>0. /\ run' \in Memory /\ run'.done = run.done
        /\ run'.known = run.known /\ run'.seen = run.seen /\ run'.pre = run.pre
        /\ run'.base = run.base /\ run'.note = run.note
    BY <1>2 DEF TypeOK, Memory
  <2>1. TypeOK' /\ LedgerTrue'
    BY <1>2, <2>0, PromotionAssumption DEF TypeOK, LedgerTrue, Commit, Pcs, Fault
  <2>2. Remembered' /\ Expected' /\ Noted' /\ InPlace' /\ Scheduled' /\ Covered'
    BY <1>2, <2>0 DEF Remembered, Expected, Noted, InPlace, Scheduled, Covered, Applying,
       Replacing, Mine, Commit
  <2> QED
    BY <2>1, <2>2
<1> QED
  BY <1>1, <1>2 DEF Commit

LEMMA RollbackKeeps ==
  ASSUME PromotionInv, Rollback
  PROVE  PromotionInv'
<1> USE DEF PromotionInv
<1> pc = "rollback"
  BY DEF Rollback
<1>1. ASSUME NEW p \in run.done, run' = [run EXCEPT !.done = @ \ {p}],
             \/ tree' = [tree EXCEPT ![p] = run.note[p]] /\ UNCHANGED <<touched, faults>>
             \/ Fault /\ touched' = touched \union {p} /\ UNCHANGED tree,
             UNCHANGED <<ledger, saved, pc>>
      PROVE  PromotionInv'
  <2>0. p \in Path
    BY DEF TypeOK, Memory
  <2>1. /\ run' \in Memory /\ run'.done = run.done \ {p}
        /\ run'.known = run.known /\ run'.seen = run.seen /\ run'.pre = run.pre
        /\ run'.base = run.base /\ run'.note = run.note /\ run.note[p] = run.pre[p]
    BY <1>1 DEF TypeOK, Memory, Noted
  <2>2. TypeOK'
    <3>1. tree' \in [Path -> Content] /\ touched' \in SUBSET Path /\ faults' \in 0..MaxFaults
      BY <1>1, <2>0, PromotionAssumption DEF TypeOK, Memory, Fault
    <3> QED
      BY <1>1, <2>1, <3>1 DEF TypeOK, Rollback
  <2>3. Mine' \subseteq Mine /\ \A q \in Mine' \ run'.done : tree'[q] = ledger[q]
    BY <1>1, <2>0, <2>1 DEF TypeOK, InPlace, Remembered, Mine
  <2>4. LedgerTrue' /\ Remembered' /\ Expected' /\ Noted' /\ InPlace' /\ Scheduled' /\ Covered'
    BY <1>1, <2>1, <2>3 DEF LedgerTrue, Remembered, Expected, Noted, InPlace, Scheduled, Covered,
       Applying, Replacing, Rollback
  <2> QED
    BY <2>2, <2>4
<1>2. CASE /\ run' = [run EXCEPT !.manifest = FALSE]
           /\ \/ ledger' = run.base /\ UNCHANGED faults
              \/ Fault /\ UNCHANGED ledger
           /\ UNCHANGED <<tree, touched, saved, pc>>
  <2>1. /\ run' \in Memory /\ run'.done = run.done /\ run.base \in Trees
        /\ run'.known = run.known /\ run'.seen = run.seen /\ run'.pre = run.pre
        /\ run'.base = run.base /\ run'.note = run.note
    BY <1>2 DEF TypeOK, Memory
  <2>2. TypeOK'
    BY <1>2, <2>1, PromotionAssumption DEF TypeOK, Rollback, Fault
  <2>3. \A p \in Mine : ledger'[p] = ledger[p]
    BY <1>2 DEF Remembered
  <2>4. LedgerTrue' /\ Remembered' /\ Expected' /\ Noted' /\ InPlace'
    BY <1>2, <2>1, <2>3 DEF LedgerTrue, Remembered, Expected, Noted, InPlace, Mine,
       Applying, Replacing
  <2>5. Scheduled' /\ Covered'
    BY <1>2, <2>1 DEF Scheduled, Covered, Applying, Replacing
  <2> QED
    BY <2>2, <2>4, <2>5
<1>3. CASE /\ run.done = {}
           /\ saved' = saved \ run.kept
           /\ pc' = "idle" /\ run' = Fresh
           /\ UNCHANGED <<tree, ledger, touched, faults>>
  <2>1. TypeOK'
    BY <1>3, FreshTypes DEF TypeOK, Rollback, Pcs
  <2>2. LedgerTrue'
    BY <1>3 DEF LedgerTrue, InPlace, Mine, Rollback
  <2> QED
    BY <1>3, <2>1, <2>2, Ended
<1> QED
  BY <1>1, <1>2, <1>3 DEF Rollback, Restorable

LEMMA KillKeeps ==
  ASSUME PromotionInv, Kill
  PROVE  PromotionInv'
<1> USE DEF PromotionInv
<1>1. TypeOK'
  BY FreshTypes, PromotionAssumption DEF TypeOK, Memory, Kill, Pcs, Fault
<1>2. LedgerTrue'
  BY DEF LedgerTrue, InPlace, Mine, Kill
<1> QED
  BY <1>1, <1>2, Ended DEF Kill

LEMMA RivalKeeps ==
  ASSUME PromotionInv, NEW w \in Renders, Rival(w)
  PROVE  PromotionInv'
<1> DEFINE r == [Fresh EXCEPT !.want = w, !.known = ledger, !.seen = tree, !.owned = secret]
<1>1. r \in Memory
  BY FreshTypes, PromotionAssumption DEF PromotionInv, TypeOK, Memory
<1>2. /\ tree' = [p \in Path |->
                   IF p \in Pruned(r) THEN Absent
                   ELSE IF p \in Unwritten(r) \/ (p \in Seed /\ tree[p] = Absent) THEN w[p]
                   ELSE tree[p]]
      /\ ledger' = Records(r)
      /\ touched' = touched \union
                      {p \in Path : tree'[p] # tree[p] \/ ledger'[p] # ledger[p]}
      /\ edits' \in 0..MaxEdits
      /\ UNCHANGED <<desired, secret, saved, pc, run, faults, changes>>
  BY PromotionAssumption DEF Rival, PromotionInv, TypeOK, Meddle
<1>3. ledger' \in Trees /\ touched' \in SUBSET Path
  BY <1>1, <1>2, PlanTypes DEF PromotionInv, TypeOK
<1>4. tree' \in [Path -> Content]
  BY <1>2, PromotionAssumption DEF PromotionInv, TypeOK, Trees, Content
<1>5. TypeOK'
  BY <1>2, <1>3, <1>4 DEF PromotionInv, TypeOK
<1> QED
  BY <1>2, <1>5, OthersKeep

LEMMA MeddlingKeeps ==
  ASSUME PromotionInv, NEW p \in Path, Edit(p) \/ Seal(p) \/ Claim(p) \/ Disown(p)
  PROVE  PromotionInv'
<1> USE DEF PromotionInv
<1>1. CASE Edit(p)
  <2>1. TypeOK'
    BY <1>1, PromotionAssumption DEF TypeOK, Edit, Meddle, Content
  <2> QED
    BY <1>1, <2>1, OthersKeep DEF TypeOK, Edit
<1>2. CASE Seal(p)
  <2>1. TypeOK'
    BY <1>2, PromotionAssumption DEF TypeOK, Seal, Meddle, Content
  <2> QED
    BY <1>2, <2>1, OthersKeep DEF TypeOK, Seal
<1>3. CASE Claim(p)
  <2>1. TypeOK'
    BY <1>3 DEF TypeOK, Claim
  <2> QED
    BY <1>3, <2>1, OthersKeep DEF Claim
<1>4. CASE Disown(p)
  <2>1. TypeOK'
    BY <1>4, PromotionAssumption DEF TypeOK, Disown, Content
  <2> QED
    BY <1>4, <2>1, OthersKeep DEF TypeOK, Disown
<1> QED
  BY <1>1, <1>2, <1>3, <1>4

LEMMA ConfigureKeeps ==
  ASSUME PromotionInv, Configure
  PROVE  PromotionInv'
<1>1. TypeOK'
  BY PromotionAssumption DEF PromotionInv, TypeOK, Configure
<1> QED
  BY <1>1, OthersKeep DEF Configure

-----------------------------------------------------------------------------
(* What was noted of a path that is replaced is what was scanned of it,    *)
(* unless nothing was there then; and what was scanned is on record or     *)
(* saved.                                                                  *)
LEMMA ReplacesSaved ==
  ASSUME PromotionInv, Replace, NEW p \in Path, tree'[p] # tree[p], ~Late(p)
  PROVE  \/ tree[p] \in {Absent, run.known[p]}
         \/ <<p, tree[p]>> \in saved
         \/ run.seen[p] = Absent \/ p \in Seed
<1> USE DEF PromotionInv
<1>1. p = run.at /\ p \in run.done /\ pc = "replace"
  BY DEF TypeOK, Replace, Scheduled, Replacing
<1>2. tree[p] = run.pre[p]
  BY <1>1 DEF Late, Noted
<1> SUFFICES ASSUME run.seen[p] # Absent, p \notin Seed, run.seen[p] # run.known[p]
             PROVE  tree[p] = run.seen[p] /\ <<p, run.seen[p]>> \in saved
  BY <1>1, <1>2 DEF Expected, Applying, Replacing
<1>3. tree[p] = run.seen[p]
  BY <1>1, <1>2 DEF Expected, Applying, Replacing
<1>4. p \in Pruned(run) \union Unwritten(run) /\ ~Refused(run)
  BY <1>1 DEF Scheduled, Covered, Applying, Replacing
<1>5. p \in Tampered(run)
  BY <1>4 DEF Tampered, Pruned, Stale, Unwritten, Planned
<1>6. p \in Planned(run)
  BY <1>4, <1>5 DEF Refused, MayAdopt
<1>7. p \notin run.deletes
  BY <1>1, <1>6 DEF Scheduled, Applying, Replacing, Pruned, Stale
<1>8. p \in Unwritten(run)
  BY <1>4, <1>6 DEF Pruned, Stale
<1>9. <<p, run.seen[p]>> \in saved
  BY <1>1, <1>5, <1>7, <1>8 DEF Covered, Applying, Replacing
<1> QED
  BY <1>3, <1>9

(* A rollback reaches only paths that were noted, and changes one only     *)
(* when something has come to it since.                                    *)
LEMMA RollbackLate ==
  ASSUME PromotionInv, Rollback, NEW p \in Path, tree'[p] # tree[p]
  PROVE  Late(p)
BY DEF PromotionInv, TypeOK, Rollback, Restorable, Late

LEMMA NextKeeps == PromotionInv /\ [Next]_vars => PromotionInv'
<1> SUFFICES ASSUME PromotionInv, [Next]_vars PROVE PromotionInv'
  OBVIOUS
<1>1. CASE Promoting
  BY <1>1, LoadKeeps, ScanKeeps, DecideKeeps, SnapshotKeeps, CaptureKeeps, VerifyKeeps,
     ReplaceKeeps, BackupKeeps, FinishKeeps, CheckKeeps,
     CommitKeeps, RollbackKeeps DEF Promoting
<1>2. CASE Kill
  BY <1>2, KillKeeps
<1>3. CASE \E o \in Chosen : Start(o)
  BY <1>3, StartKeeps
<1>4. CASE \E p \in Path : Edit(p) \/ Seal(p) \/ Claim(p) \/ Disown(p)
  BY <1>4, MeddlingKeeps
<1>5. CASE \E w \in Renders : Rival(w)
  BY <1>5, RivalKeeps
<1>6. CASE Configure
  BY <1>6, ConfigureKeeps
<1>7. CASE UNCHANGED vars
  <2>1. TypeOK'
    BY <1>7 DEF PromotionInv, TypeOK, vars
  <2> QED
    BY <1>7, <2>1, OthersKeep DEF vars
<1> QED
  BY <1>1, <1>2, <1>3, <1>4, <1>5, <1>6, <1>7 DEF Next

(* A promotion always knows how far it is, and what it still relies on.    *)
THEOREM Promotion == Spec => []PromotionInv
<1> QED
  BY Initially, NextKeeps, PTL DEF Spec

(* Every state of the repository and of a run is of its type.              *)
THEOREM PromotionTypes == Spec => []TypeOK
<1>1. PromotionInv => TypeOK
  BY DEF PromotionInv
<1> QED
  BY <1>1, Promotion, PTL

(* Between promotions the manifest tells the truth of every generated file *)
(* that only promotions have written, rolled back ones included.           *)
THEOREM ManifestIsTrue == Spec => []LedgerTrue
<1>1. PromotionInv => LedgerTrue
  BY DEF PromotionInv
<1> QED
  BY <1>1, Promotion, PTL

(* No promotion takes contents that are neither on record nor in a backup, *)
(* by replacing a file or by putting one back, but for what appeared while *)
(* it planned and what came to a path after it was noted.                  *)
THEOREM EditsAreSaved == Spec => EditsSaved
<1> DEFINE Saved == \A p \in Path :
                      (Replace \/ Rollback) /\ tree'[p] # tree[p] =>
                        \/ tree[p] \in {Absent, run.known[p]}
                        \/ <<p, tree[p]>> \in saved
                        \/ run.seen[p] = Absent \/ p \in Seed
                        \/ Late(p)
<1>1. PromotionInv /\ [Next]_vars => [Saved]_vars
  BY ReplacesSaved, RollbackLate
<1> QED
  BY <1>1, Promotion, PTL DEF Spec, EditsSaved
=============================================================================

-------------------------- MODULE SecretSyncProofs --------------------------
(***************************************************************************)
(* Proofs about SecretSync: whatever the runs, paths, credentials and      *)
(* faults, the ledger tells what the runs left in the overlay, and only of *)
(* encrypted artifacts, and no run takes what is not its own.              *)
(***************************************************************************)
EXTENDS SecretSync, TLAPS

(* The holder of the lock is the run that is past waiting for it.          *)
Holder == \A q \in Proc : lock = q <=> pc[q] \notin {"idle", "wait"}

(* What is still to do, being done and done are different planned paths,   *)
(* only planned paths are written, and a path removed or restored is one   *)
(* to be pruned or in the journal.                                         *)
Places(q) ==
  /\ run.todo \subseteq Planned(q) \ run.journal
  /\ pc[q] \in {"write", "confirm"} =>
       run.at \in Planned(q) \ (run.journal \union run.todo)
  /\ pc[q] = "remove" => run.at \in run.stale \ run.journal
  /\ pc[q] \in {"putback", "restore"} => run.at \in run.journal
  /\ pc[q] = "putback" => run.at \in Pruned
  /\ \A p \in Path : run.wrote[p] # NoFile => p \in Planned(q)
  /\ pc[q] \notin {"rollback", "restore"} => \A p \in Path : run.wrote[p] # NoFile => p \in run.journal

(* How far pruning is.                                                     *)
Pruning(q) ==
  /\ run.stale \intersect Planned(q) = {}
  /\ pc[q] \in {"sync", "write", "confirm"} => Pruned = {} /\ run.stale = {}
  /\ pc[q] \in {"prune", "remove"} => Pruned \subseteq run.stale
  /\ pc[q] \in {"unprune", "putback"} => run.stale = {}
  /\ pc[q] = "save" => Pruned = run.stale

(* A path nothing else has touched is as it was left, and what it was      *)
(* before the run is what the ledger says.                                 *)
Journaled(q) ==
  \A p \in Path \ touched :
    /\ p \in run.journal => tree[p] = run.wrote[p] /\ run.before[p] = ledger[p]
    /\ p \notin run.journal /\ ~(pc[q] = "confirm" /\ p = run.at) => tree[p] = ledger[p]
    /\ pc[q] \in {"write", "confirm"} /\ p = run.at => run.before[p] = ledger[p]
    /\ pc[q] = "confirm" /\ p = run.at => tree[p] \in Sealed

(* What a run saw where it writes, removes or restores was on record, its  *)
(* own, or may be adopted.                                                 *)
Entitled(q) ==
  /\ pc[q] = "write" =>
       \/ run.seen \in {NoFile, ledger[run.at]}
       \/ opts[q].force /\ run.at \in Dedicated
  /\ pc[q] = "remove" => run.seen = ledger[run.at]
  /\ pc[q] \in {"putback", "restore"} => run.seen = run.wrote[run.at]

Sound(q) == Places(q) /\ Pruning(q) /\ Journaled(q) /\ Entitled(q)

WroteSealed == \A p \in Path : run.wrote[p] \in Sealed \union {NoFile}

SyncInv ==
  /\ TypeOK /\ Holder /\ LedgerTrue /\ RecordsSealed /\ WroteSealed
  /\ \A q \in Proc : lock = q => Sound(q)

-----------------------------------------------------------------------------
LEMMA Initially == Init => SyncInv
<1> SUFFICES ASSUME Init PROVE SyncInv
  OBVIOUS
<1>1. TypeOK
  BY SyncAssumption DEF Init, TypeOK, Memory, Empty, NoBytes, Bytes, Content,
     Artifact, Plans, Options, Full, Unplanned, Pcs
<1>2. Holder /\ \A q \in Proc : lock # q
  BY SyncAssumption DEF Init, Holder
<1>3. LedgerTrue /\ RecordsSealed /\ WroteSealed
  BY DEF Init, LedgerTrue, RecordsSealed, WroteSealed, NoBytes, Empty, Bytes
<1> QED
  BY <1>1, <1>2, <1>3 DEF SyncInv

(* The lock changes hands only by Enter and at the end of a run.           *)
LEMMA Held ==
  ASSUME SyncInv, NEW q \in Proc, pc[q] \notin {"idle", "wait"}
  PROVE  lock = q /\ Sound(q)
BY DEF SyncInv, Holder

LEMMA StartKeeps ==
  ASSUME SyncInv, NEW q \in Proc, NEW o \in Chosen, Start(q, o)
  PROVE  SyncInv'
<1>1. TypeOK'
  BY SyncAssumption DEF SyncInv, TypeOK, Start, Pcs
<1>2. Holder' /\ LedgerTrue' /\ RecordsSealed' /\ WroteSealed'
  BY DEF SyncInv, TypeOK, Holder, LedgerTrue, RecordsSealed, WroteSealed, Start
<1>3. ASSUME NEW r \in Proc, lock' = r PROVE Sound(r)'
  <2>1. r # q /\ Sound(r)
    BY <1>3 DEF SyncInv, Holder, Start
  <2>2. pc'[r] = pc[r] /\ plan'[r] = plan[r] /\ opts'[r] = opts[r]
    BY <2>1 DEF SyncInv, TypeOK, Start
  <2> QED
    BY <2>1, <2>2 DEF Start, Sound, Places, Pruning, Journaled, Entitled, Planned, Pruned
<1> QED
  BY <1>1, <1>2, <1>3 DEF SyncInv

LEMMA EnterKeeps ==
  ASSUME SyncInv, NEW q \in Proc, Enter(q)
  PROVE  SyncInv'
<1>1. TypeOK'
  BY DEF SyncInv, TypeOK, Enter, Pcs, Memory, Empty, Planned, NoBytes, Bytes,
     Content, Options, Plans
<1>2. Holder' /\ LedgerTrue' /\ RecordsSealed' /\ WroteSealed'
  BY SyncAssumption DEF SyncInv, TypeOK, Holder, LedgerTrue, RecordsSealed, WroteSealed,
     Enter, Empty, NoBytes
<1>3. ASSUME NEW r \in Proc, lock' = r PROVE Sound(r)'
  <2>1. r = q /\ pc'[q] = "sync"
    BY <1>3 DEF SyncInv, TypeOK, Enter
  <2> QED
    BY <2>1 DEF SyncInv, LedgerTrue, TypeOK, Enter, Sound, Places, Pruning,
       Journaled, Entitled, Planned, Pruned, Empty, NoBytes, Options
<1> QED
  BY <1>1, <1>2, <1>3 DEF SyncInv

LEMMA LookKeeps ==
  ASSUME SyncInv, NEW q \in Proc, Look(q)
  PROVE  SyncInv'
<1> lock = q /\ Sound(q)
  BY Held DEF Look
<1> USE DEF SyncInv
<1> PICK p \in run.todo :
      \/ run' = [run EXCEPT !.todo = @ \ {p}, !.errors = TRUE] /\ pc' = pc
      \/ run' = [run EXCEPT !.todo = @ \ {p}] /\ pc' = pc
      \/ /\ ~Conflict(q, p)
         /\ run' = [run EXCEPT !.todo = @ \ {p}, !.at = p, !.seen = tree[p],
                               !.before[p] = tree[p]]
         /\ pc' = [pc EXCEPT ![q] = "write"]
  BY DEF Look
<1> p \in Path /\ p \in Planned(q) \ run.journal
  BY DEF TypeOK, Memory, Sound, Places
<1>0. /\ run'.todo = run.todo \ {p} /\ run'.wrote = run.wrote
      /\ run'.stale = run.stale /\ run'.journal = run.journal
      /\ run' \in Memory
      /\ \/ /\ pc' = pc /\ run'.at = run.at /\ run'.seen = run.seen
            /\ run'.before = run.before
         \/ /\ ~Conflict(q, p) /\ pc' = [pc EXCEPT ![q] = "write"]
            /\ run'.at = p /\ run'.seen = tree[p]
            /\ run'.before = [run.before EXCEPT ![p] = tree[p]]
  <2>1. CASE run' = [run EXCEPT !.todo = @ \ {p}, !.errors = TRUE] /\ pc' = pc
    BY <2>1 DEF TypeOK, Memory
  <2>2. CASE run' = [run EXCEPT !.todo = @ \ {p}] /\ pc' = pc
    BY <2>2 DEF TypeOK, Memory
  <2>3. CASE /\ ~Conflict(q, p)
             /\ run' = [run EXCEPT !.todo = @ \ {p}, !.at = p, !.seen = tree[p],
                               !.before[p] = tree[p]]
             /\ pc' = [pc EXCEPT ![q] = "write"]
    BY <2>3 DEF TypeOK, Memory, Bytes
  <2> QED
    BY <2>1, <2>2, <2>3
<1>1. TypeOK'
  BY <1>0 DEF TypeOK, Look, Pcs
<1>2. Holder' /\ LedgerTrue' /\ RecordsSealed' /\ WroteSealed'
  BY <1>0, SyncAssumption DEF TypeOK, Holder, LedgerTrue, RecordsSealed, WroteSealed, Look
<1>3. Sound(q)'
  <2>0. Planned(q)' = Planned(q) /\ Pruned' = Pruned /\ pc[q] = "sync"
    BY <1>0 DEF Planned, Pruned, Look
  <2>1. Places(q)'
    BY <1>0, <2>0 DEF TypeOK, Sound, Places, Look
  <2>2. Pruning(q)'
    BY <1>0, <2>0 DEF TypeOK, Sound, Pruning, Look
  <2>3. Journaled(q)'
    BY <1>0, <2>0 DEF TypeOK, Memory, Bytes, Sound, Journaled, Look
  <2>4. Entitled(q)'
    BY <1>0, <2>0 DEF TypeOK, Memory, Bytes, Look, Entitled, Conflict, Record
  <2> QED
    BY <2>1, <2>2, <2>3, <2>4 DEF Sound
<1> QED
  BY <1>1, <1>2, <1>3 DEF Look, Holder
LEMMA WriteKeeps ==
  ASSUME SyncInv, NEW q \in Proc, Write(q)
  PROVE  SyncInv'
<1> lock = q /\ Sound(q) /\ pc[q] = "write"
  BY Held DEF Write
<1> USE DEF SyncInv
<1> DEFINE v == plan[q][run.at]
<1> run.at \in Path /\ v \in Value
  BY DEF TypeOK, Options, Plans, Sound, Places, Planned
<1>1. CASE
      /\ \/ /\ \E b \in Stamp : tree' = [tree EXCEPT ![run.at] = [value |-> v, stamp |-> b]]
            /\ UNCHANGED <<touched, faults>>
         \/ /\ Fault
            /\ tree' = [tree EXCEPT ![run.at] = [value |-> v, stamp |-> 0]]
            /\ touched' = touched \union {run.at}
      /\ pc' = [pc EXCEPT ![q] = "confirm"]
      /\ UNCHANGED run
  <2>0. PICK b \in Stamp \union {0} :
              tree' = [tree EXCEPT ![run.at] = [value |-> v, stamp |-> b]]
    BY <1>1
  <2>1. touched \subseteq touched' /\ touched' \subseteq Path
    BY <1>1 DEF TypeOK
  <2>2. TypeOK'
    <3>1. [value |-> v, stamp |-> b] \in Artifact
      BY DEF Artifact
    <3>2. tree' \in Bytes
      BY <2>0, <3>1 DEF TypeOK, Bytes, Content
    <3>3. faults' \in 0..MaxFaults
      BY <1>1, SyncAssumption DEF TypeOK, Fault
    <3> QED
      BY <1>1, <2>1, <3>2, <3>3 DEF TypeOK, Write, Pcs
  <2>3. Holder' /\ LedgerTrue' /\ RecordsSealed' /\ WroteSealed'
    BY <1>1, SyncAssumption DEF TypeOK, Holder, LedgerTrue, RecordsSealed, WroteSealed, Write
  <2>4. Sound(q)'
    <3>0. pc'[q] = "confirm" /\ Planned(q)' = Planned(q) /\ Pruned' = Pruned
      BY <1>1 DEF TypeOK, Planned, Pruned, Write
    <3>1. Places(q)' /\ Pruning(q)' /\ Entitled(q)'
      BY <1>1, <3>0 DEF Sound, Places, Pruning, Entitled
    <3>2. run.at \notin touched' => tree'[run.at] \in Sealed
      <4>1. ASSUME NEW c \in Stamp PROVE [value |-> v, stamp |-> c] \in Sealed
        BY SyncAssumption DEF Sealed, Artifact, Stamp
      <4>2. run.at \notin touched' => \E c \in Stamp : tree' = [tree EXCEPT ![run.at] = [value |-> v, stamp |-> c]]
        BY <1>1
      <4>3. ASSUME NEW c \in Stamp, tree' = [tree EXCEPT ![run.at] = [value |-> v, stamp |-> c]]
            PROVE  tree'[run.at] = [value |-> v, stamp |-> c]
        BY <4>3 DEF TypeOK, Bytes
      <4> QED
        BY <4>1, <4>2, <4>3
    <3>3. Journaled(q)'
      BY <1>1, <2>0, <2>1, <3>0, <3>2 DEF TypeOK, Bytes, Sound, Journaled, Places, Write
    <3> QED
      BY <3>1, <3>3 DEF Sound
  <2> QED
    BY <2>2, <2>3, <2>4 DEF Write, Holder
<1>2. CASE
      /\ Fault
      /\ run' = [run EXCEPT !.errors = TRUE, !.at = NoFile, !.seen = NoFile]
      /\ pc' = [pc EXCEPT ![q] = "sync"]
      /\ UNCHANGED <<tree, touched>>
  <2>0. /\ run' \in Memory
        /\ run'.todo = run.todo /\ run'.before = run.before /\ run'.wrote = run.wrote
        /\ run'.stale = run.stale /\ run'.journal = run.journal
    BY <1>2 DEF TypeOK, Memory, Content
  <2>1. TypeOK'
    BY <1>2, <2>0, SyncAssumption DEF TypeOK, Write, Pcs, Fault
  <2>2. Holder' /\ LedgerTrue' /\ RecordsSealed' /\ WroteSealed'
    BY <1>2, <2>0, SyncAssumption DEF TypeOK, Holder, LedgerTrue, RecordsSealed, WroteSealed, Write
  <2>3. Sound(q)'
    <3>0. pc'[q] = "sync" /\ Planned(q)' = Planned(q) /\ Pruned' = Pruned
      BY <1>2, <2>0 DEF TypeOK, Planned, Pruned, Write
    <3> QED
      BY <1>2, <2>0, <3>0 DEF Sound, Places, Pruning, Entitled, Journaled, Write
  <2> QED
    BY <2>1, <2>2, <2>3 DEF Write, Holder
<1> QED
  BY <1>1, <1>2 DEF Write

LEMMA ConfirmKeeps ==
  ASSUME SyncInv, NEW q \in Proc, Confirm(q)
  PROVE  SyncInv'
<1> lock = q /\ Sound(q) /\ pc[q] = "confirm"
  BY Held DEF Confirm
<1> USE DEF SyncInv
<1> run.at \in Path /\ run.at \in Planned(q)
  BY DEF TypeOK, Options, Sound, Places, Planned
<1>0. pc' = [pc EXCEPT ![q] = "sync"] /\ pc'[q] = "sync" /\ Planned(q)' = Planned(q)
  BY DEF TypeOK, Planned, Confirm
<1>1. CASE ~Recordable(tree[run.at])
  <2>0. /\ run' \in Memory
        /\ run'.todo = run.todo /\ run'.before = run.before /\ run'.wrote = run.wrote
        /\ run'.stale = run.stale /\ run'.journal = run.journal
    BY <1>1 DEF TypeOK, Memory, Content, Confirm
  <2>1. TypeOK'
    BY <1>0, <2>0 DEF TypeOK, Confirm, Pcs
  <2>2. Holder' /\ LedgerTrue' /\ RecordsSealed' /\ WroteSealed'
    BY <1>0, <2>0, SyncAssumption DEF TypeOK, Holder, LedgerTrue, RecordsSealed, WroteSealed, Confirm
  <2>3. Sound(q)'
    <3>1. run.at \in touched
      BY <1>1 DEF Sound, Journaled, Recordable
    <3>2. Pruned' = Pruned
      BY <2>0 DEF Pruned
    <3>3. Places(q)' /\ Pruning(q)' /\ Entitled(q)'
      BY <1>0, <2>0, <3>2 DEF Sound, Places, Pruning, Entitled
    <3>4. Journaled(q)'
      BY <1>0, <2>0, <3>1 DEF Sound, Journaled, Confirm
    <3> QED
      BY <3>3, <3>4 DEF Sound
  <2> QED
    BY <2>1, <2>2, <2>3 DEF Confirm, Holder
<1>2. CASE Recordable(tree[run.at])
  <2>0. /\ run' \in Memory
        /\ run'.todo = run.todo /\ run'.before = run.before
        /\ run'.wrote = [run.wrote EXCEPT ![run.at] = tree[run.at]]
        /\ run'.stale = run.stale /\ run'.journal = run.journal \union {run.at}
        /\ tree[run.at] \in Sealed
    BY <1>2 DEF TypeOK, Memory, Content, Confirm, Recordable, Sealed
  <2>1. TypeOK'
    BY <1>0, <2>0 DEF TypeOK, Confirm, Pcs
  <2>2. Holder' /\ LedgerTrue' /\ RecordsSealed' /\ WroteSealed'
    BY <1>0, <2>0, SyncAssumption DEF TypeOK, Memory, Holder, LedgerTrue, RecordsSealed, WroteSealed, Confirm
  <2>3. Sound(q)'
    <3>1. Places(q)'
      BY <1>0, <2>0 DEF TypeOK, Memory, Sound, Places
    <3>2. Pruning(q)'
      BY <1>0, <2>0, SyncAssumption DEF TypeOK, Memory, Sound, Pruning, Pruned, Sealed
    <3>3. Journaled(q)'
      BY <1>0, <2>0 DEF TypeOK, Memory, Sound, Journaled, Confirm
    <3>4. Entitled(q)'
      BY <1>0 DEF Entitled
    <3> QED
      BY <3>1, <3>2, <3>3, <3>4 DEF Sound
  <2> QED
    BY <2>1, <2>2, <2>3 DEF Confirm, Holder
<1> QED
  BY <1>1, <1>2
LEMMA ReconcileKeeps ==
  ASSUME SyncInv, NEW q \in Proc, Reconcile(q)
  PROVE  SyncInv'
<1> lock = q /\ Sound(q) /\ pc[q] = "sync"
  BY Held DEF Reconcile
<1> USE DEF SyncInv
<1> Stale(q) \subseteq Path \ Planned(q)
  BY DEF TypeOK, Options, Stale
<1>0. /\ run' \in Memory
      /\ run'.todo = run.todo /\ run'.before = run.before /\ run'.wrote = run.wrote
      /\ run'.journal = run.journal /\ run'.at = run.at
      /\ \/ run'.stale = run.stale /\ pc' = [pc EXCEPT ![q] = "save"]
         \/ run'.stale = Stale(q) /\ pc' = [pc EXCEPT ![q] = "prune"]
  <2>1. CASE run' = [run EXCEPT !.errors = TRUE] /\ pc' = [pc EXCEPT ![q] = "save"]
    BY <2>1 DEF TypeOK, Memory
  <2>2. CASE run' = [run EXCEPT !.stale = Stale(q)] /\ pc' = [pc EXCEPT ![q] = "prune"]
    BY <2>2 DEF TypeOK, Memory
  <2> QED
    BY <2>1, <2>2 DEF Reconcile
<1>1. TypeOK'
  BY <1>0 DEF TypeOK, Reconcile, Pcs
<1>2. Holder' /\ LedgerTrue' /\ RecordsSealed' /\ WroteSealed'
  BY <1>0, SyncAssumption DEF TypeOK, Holder, LedgerTrue, RecordsSealed, WroteSealed, Reconcile
<1>3. Sound(q)'
  <2>1. Planned(q)' = Planned(q) /\ Pruned' = Pruned /\ pc'[q] \in {"save", "prune"}
    BY <1>0 DEF TypeOK, Planned, Pruned, Reconcile
  <2>2. Places(q)' /\ Entitled(q)'
    BY <1>0, <2>1 DEF Sound, Places, Entitled
  <2>3. Pruning(q)'
    <3>1. Pruned = {} /\ run.stale = {}
      BY DEF Sound, Pruning
    <3>2. CASE run'.stale = run.stale /\ pc' = [pc EXCEPT ![q] = "save"]
      BY <2>1, <3>1, <3>2 DEF TypeOK, Pruning
    <3>3. CASE run'.stale = Stale(q) /\ pc' = [pc EXCEPT ![q] = "prune"]
      BY <2>1, <3>1, <3>3 DEF TypeOK, Pruning
    <3> QED
      BY <1>0, <3>2, <3>3
  <2>4. Journaled(q)'
    BY <1>0, <2>1 DEF Sound, Journaled, Reconcile
  <2> QED
    BY <2>2, <2>3, <2>4 DEF Sound
<1> QED
  BY <1>1, <1>2, <1>3 DEF Reconcile, Holder

(* The end of the pruning keeps what the journal tells.                    *)
LEMMA GiveUpKeeps ==
  ASSUME SyncInv, NEW q \in Proc, lock = q, pc[q] \in {"prune", "remove"}, GiveUp(q),
         faults' \in 0..MaxFaults,
         UNCHANGED <<config, tree, ledger, lock, plan, opts, touched, edits, changes>>
  PROVE  SyncInv'
<1> USE DEF SyncInv
<1>0. /\ Sound(q) /\ run' \in Memory
      /\ run'.todo = run.todo /\ run'.before = run.before /\ run'.wrote = run.wrote
      /\ run'.journal = run.journal /\ run'.stale = {}
  BY DEF TypeOK, Memory, Content, GiveUp
<1>1. TypeOK'
  BY <1>0 DEF TypeOK, GiveUp, Pcs
<1>2. Holder' /\ LedgerTrue' /\ RecordsSealed' /\ WroteSealed'
  BY <1>0, SyncAssumption DEF TypeOK, Holder, LedgerTrue, RecordsSealed, WroteSealed, GiveUp
<1>3. Sound(q)'
  <2>1. pc'[q] = "unprune" /\ Planned(q)' = Planned(q)
    BY DEF TypeOK, Planned, GiveUp
  <2> QED
    BY <1>0, <2>1 DEF Sound, Places, Pruning, Entitled, Journaled
<1> QED
  BY <1>1, <1>2, <1>3 DEF Holder

LEMMA PruneKeeps ==
  ASSUME SyncInv, NEW q \in Proc, Prune(q)
  PROVE  SyncInv'
<1> lock = q /\ Sound(q) /\ pc[q] = "prune"
  BY Held DEF Prune
<1> USE DEF SyncInv
<1>0. Planned(q)' = Planned(q)
  BY DEF Planned, Prune
<1>1. ASSUME NEW p \in run.stale \ Pruned, tree[p] = ledger[p],
             run' = [run EXCEPT !.at = p, !.seen = tree[p]],
             pc' = [pc EXCEPT ![q] = "remove"]
      PROVE  SyncInv'
  <2>0. /\ p \in Path /\ p \notin run.journal /\ run' \in Memory
        /\ run'.todo = run.todo /\ run'.before = run.before /\ run'.wrote = run.wrote
        /\ run'.stale = run.stale /\ run'.journal = run.journal
        /\ run'.at = p /\ run'.seen = ledger[p]
    <3>1. p \in Path /\ p \notin run.journal
      BY <1>1 DEF TypeOK, Memory, Sound, Places, Pruning, Pruned
    <3> QED
      BY <1>1, <3>1 DEF TypeOK, Memory, Bytes
  <2>1. TypeOK'
    BY <1>1, <2>0 DEF TypeOK, Prune, Pcs
  <2>2. Holder' /\ LedgerTrue' /\ RecordsSealed' /\ WroteSealed'
    BY <1>1, <2>0, SyncAssumption DEF TypeOK, Holder, LedgerTrue, RecordsSealed, WroteSealed, Prune
  <2>3. Sound(q)'
    <3>0. pc'[q] = "remove" /\ Pruned' = Pruned
      BY <1>1, <2>0 DEF TypeOK, Pruned
    <3>1. Places(q)'
      BY <1>0, <1>1, <2>0, <3>0 DEF Sound, Places
    <3>2. Pruning(q)' /\ Entitled(q)'
      BY <1>0, <2>0, <3>0 DEF Sound, Pruning, Entitled, Prune
    <3>3. Journaled(q)'
      BY <2>0, <3>0 DEF Sound, Journaled, Prune
    <3> QED
      BY <3>1, <3>2, <3>3 DEF Sound
  <2> QED
    BY <2>1, <2>2, <2>3 DEF Prune, Holder
<1>2. CASE GiveUp(q)
  <2>1. faults' \in 0..MaxFaults
    BY DEF TypeOK, Prune
  <2> QED
    BY <1>2, <2>1, GiveUpKeeps DEF Prune
<1>3. CASE
      /\ run.stale \subseteq Pruned
      /\ pc' = [pc EXCEPT ![q] = "save"]
      /\ UNCHANGED run
  <2>1. TypeOK'
    BY <1>3 DEF TypeOK, Prune, Pcs
  <2>2. Holder' /\ LedgerTrue' /\ RecordsSealed' /\ WroteSealed'
    BY <1>3, SyncAssumption DEF TypeOK, Holder, LedgerTrue, RecordsSealed, WroteSealed, Prune
  <2>3. Sound(q)'
    <3>1. Pruned' = Pruned
      BY <1>3 DEF Pruned
    <3>2. Places(q)' /\ Entitled(q)' /\ Journaled(q)'
      <4>1. pc'[q] = "save"
        BY <1>3 DEF TypeOK
      <4>2. Places(q)'
        BY <1>0, <1>3, <4>1 DEF Sound, Places
      <4>3. Entitled(q)' /\ Journaled(q)'
        BY <1>3, <4>1 DEF Sound, Entitled, Journaled, Prune
      <4> QED
        BY <4>2, <4>3
    <3>3. Pruning(q)'
      BY <1>0, <1>3, <3>1 DEF TypeOK, Memory, Sound, Pruning, Prune
    <3> QED
      BY <3>2, <3>3 DEF Sound
  <2> QED
    BY <2>1, <2>2, <2>3 DEF Prune, Holder
<1> QED
  BY <1>1, <1>2, <1>3 DEF Prune

LEMMA RemoveKeeps ==
  ASSUME SyncInv, NEW q \in Proc, Remove(q)
  PROVE  SyncInv'
<1> lock = q /\ Sound(q) /\ pc[q] = "remove"
  BY Held DEF Remove
<1> USE DEF SyncInv
<1>1. CASE
      /\ tree' = [tree EXCEPT ![run.at] = NoFile]
      /\ run' = [run EXCEPT !.before[run.at] = ledger[run.at],
                  !.journal = @ \union {run.at}, !.at = NoFile, !.seen = NoFile]
      /\ pc' = [pc EXCEPT ![q] = "prune"]
      /\ UNCHANGED faults
  <2>0. /\ run.at \in Path /\ run.at \in run.stale /\ run.at \notin Planned(q)
        /\ run.wrote[run.at] = NoFile /\ run.at \notin run.journal
    BY DEF TypeOK, Memory, Sound, Places, Pruning
  <2>1. /\ run' \in Memory
        /\ run'.todo = run.todo /\ run'.wrote = run.wrote
        /\ run'.stale = run.stale /\ run'.journal = run.journal \union {run.at}
        /\ run'.before = [run.before EXCEPT ![run.at] = ledger[run.at]]
    BY <1>1, <2>0 DEF TypeOK, Memory, Bytes, Content
  <2>2. TypeOK'
    BY <1>1, <2>0, <2>1 DEF TypeOK, Bytes, Content, Remove, Pcs
  <2>3. Holder' /\ LedgerTrue' /\ RecordsSealed' /\ WroteSealed'
    BY <1>1, <2>1, SyncAssumption DEF TypeOK, Holder, LedgerTrue, RecordsSealed, WroteSealed, Remove
  <2>4. Sound(q)'
    <3>0. pc'[q] = "prune" /\ Planned(q)' = Planned(q) /\ Pruned' = Pruned \union {run.at}
      BY <1>1, <2>0, <2>1 DEF TypeOK, Planned, Pruned, Remove
    <3>1. Places(q)'
      BY <2>0, <2>1, <3>0 DEF Sound, Places
    <3>2. Pruning(q)' /\ Entitled(q)'
      BY <2>0, <2>1, <3>0 DEF Sound, Pruning, Entitled
    <3>3. Journaled(q)'
      BY <1>1, <2>0, <2>1, <3>0 DEF TypeOK, Memory, Bytes, Sound, Journaled, Remove
    <3> QED
      BY <3>1, <3>2, <3>3 DEF Sound
  <2> QED
    BY <2>2, <2>3, <2>4 DEF Remove, Holder
<1>2. CASE GiveUp(q) /\ UNCHANGED tree /\ (UNCHANGED faults \/ Fault)
  <2>1. faults' \in 0..MaxFaults
    BY <1>2, SyncAssumption DEF TypeOK, Fault
  <2> QED
    BY <1>2, <2>1, GiveUpKeeps DEF Remove
<1> QED
  BY <1>1, <1>2 DEF Remove

(* Looking at an entry to undo, or dropping it for what others left there. *)
LEMMA UndoKeeps ==
  ASSUME SyncInv, NEW q \in Proc, lock = q, NEW p \in run.journal,
         NEW next \in {"putback", "restore"}, Undo(q, p, next),
         \/ next = "putback" /\ pc[q] = "unprune" /\ p \in Pruned
         \/ next = "restore" /\ pc[q] = "rollback",
         UNCHANGED <<config, tree, ledger, lock, plan, opts, touched, faults, edits, changes>>
  PROVE  SyncInv'
<1> USE DEF SyncInv
<1>0. Sound(q) /\ p \in Path /\ Planned(q)' = Planned(q)
  BY DEF TypeOK, Memory, Planned
<1>1. /\ run' \in Memory
      /\ run'.todo = run.todo /\ run'.before = run.before
      /\ run'.wrote = run.wrote /\ run'.stale = run.stale
      /\ \/ /\ run'.journal = run.journal /\ pc' = [pc EXCEPT ![q] = next]
            /\ run'.at = p /\ run'.seen = run.wrote[p]
         \/ /\ tree[p] # run.wrote[p] /\ pc' = pc
            /\ run'.journal = run.journal \ {p}
  <2>1. CASE /\ tree[p] = run.wrote[p]
             /\ run' = [run EXCEPT !.at = p, !.seen = tree[p]]
             /\ pc' = [pc EXCEPT ![q] = next]
    BY <1>0, <2>1 DEF TypeOK, Memory, Bytes
  <2>2. CASE tree[p] # run.wrote[p] /\ Drop(p) /\ UNCHANGED pc
    BY <1>0, <2>2 DEF TypeOK, Memory, Content, Drop
  <2> QED
    BY <2>1, <2>2 DEF Undo
<1>2. TypeOK'
  BY <1>1 DEF TypeOK, Pcs
<1>3. Holder' /\ LedgerTrue' /\ RecordsSealed' /\ WroteSealed'
  BY <1>1, SyncAssumption DEF TypeOK, Holder, LedgerTrue, RecordsSealed, WroteSealed
<1>4. CASE /\ run'.journal = run.journal /\ pc' = [pc EXCEPT ![q] = next]
           /\ run'.at = p /\ run'.seen = run.wrote[p]
  <2>1. pc'[q] = next /\ Pruned' = Pruned
    BY <1>1, <1>4 DEF TypeOK, Pruned
  <2>2. Places(q)' /\ Pruning(q)' /\ Entitled(q)'
    BY <1>0, <1>1, <1>4, <2>1 DEF Sound, Places, Pruning, Entitled
  <2>3. Journaled(q)'
    BY <1>0, <1>1, <1>4, <2>1 DEF Sound, Journaled
  <2> QED
    BY <1>2, <1>3, <2>2, <2>3 DEF Sound, Holder
<1>5. CASE tree[p] # run.wrote[p] /\ pc' = pc /\ run'.journal = run.journal \ {p}
  <2>1. Places(q)' /\ Pruning(q)' /\ Entitled(q)'
    BY <1>0, <1>1, <1>5 DEF Sound, Places, Pruning, Pruned, Entitled
  <2>2. Journaled(q)'
    BY <1>0, <1>1, <1>5 DEF Sound, Journaled
  <2> QED
    BY <1>2, <1>3, <2>1, <2>2 DEF Sound, Holder
<1> QED
  BY <1>1, <1>4, <1>5

LEMMA UnpruneKeeps ==
  ASSUME SyncInv, NEW q \in Proc, Unprune(q)
  PROVE  SyncInv'
<1> lock = q /\ Sound(q) /\ pc[q] = "unprune"
  BY Held DEF Unprune
<1>1. CASE \E p \in Pruned : Undo(q, p, "putback")
  <2>1. PICK p \in Pruned : Undo(q, p, "putback")
    BY <1>1
  <2>2. p \in run.journal
    BY DEF Pruned
  <2> QED
    BY <2>1, <2>2, UndoKeeps DEF Unprune
<1>2. CASE /\ Pruned = {}
           /\ pc' = [pc EXCEPT ![q] = "save"]
           /\ UNCHANGED run
  <2> USE DEF SyncInv
  <2>1. TypeOK'
    BY <1>2 DEF TypeOK, Unprune, Pcs
  <2>2. Holder' /\ LedgerTrue' /\ RecordsSealed' /\ WroteSealed'
    BY <1>2, SyncAssumption DEF TypeOK, Holder, LedgerTrue, RecordsSealed, WroteSealed, Unprune
  <2>3. Sound(q)'
    <3>1. Pruned' = Pruned /\ Planned(q)' = Planned(q)
      BY <1>2 DEF Pruned, Planned, Unprune
    <3> QED
      BY <1>2, <3>1 DEF TypeOK, Sound, Places, Pruning, Entitled, Journaled, Unprune
  <2> QED
    BY <2>1, <2>2, <2>3 DEF Unprune, Holder
<1> QED
  BY <1>1, <1>2 DEF Unprune

(* Restoring an entry leaves the path as the ledger says, or touched.      *)
LEMMA RestoreKeeps ==
  ASSUME SyncInv, NEW q \in Proc, Restore(q)
  PROVE  SyncInv'
<1> lock = q /\ Sound(q) /\ pc[q] \in {"putback", "restore"}
  BY Held DEF Restore
<1> USE DEF SyncInv
<1>0. /\ run.at \in run.journal /\ run.at \in Path /\ Planned(q)' = Planned(q)
      /\ run' \in Memory
      /\ run'.todo = run.todo /\ run'.before = run.before
      /\ run'.wrote = run.wrote /\ run'.stale = run.stale
      /\ run'.journal = run.journal \ {run.at}
  <2>1. run.at \in run.journal /\ run.at \in Path /\ Planned(q)' = Planned(q)
    BY DEF TypeOK, Memory, Sound, Places, Planned, Restore
  <2> QED
    BY <2>1 DEF TypeOK, Memory, Content, Restore, Drop
<1>1. TypeOK'
  <2>1. tree' \in Bytes
    BY <1>0 DEF TypeOK, Memory, Bytes, Restore
  <2>2. touched' \in SUBSET Path /\ faults' \in 0..MaxFaults
    BY <1>0, SyncAssumption DEF TypeOK, Restore, Fault
  <2> QED
    BY <1>0, <2>1, <2>2 DEF TypeOK, Restore, Pcs
<1>2. Holder' /\ LedgerTrue' /\ RecordsSealed' /\ WroteSealed'
  BY <1>0, SyncAssumption DEF TypeOK, Holder, LedgerTrue, RecordsSealed, WroteSealed, Restore
<1>3. Sound(q)'
  <2>1. /\ pc'[q] = IF pc[q] = "putback" THEN "unprune" ELSE "rollback"
        /\ Pruned' = Pruned \ {run.at}
    BY <1>0 DEF TypeOK, Pruned, Restore
  <2>2. Places(q)' /\ Pruning(q)' /\ Entitled(q)'
    <3>1. CASE pc[q] = "putback"
      BY <1>0, <2>1, <3>1 DEF Sound, Places, Pruning, Pruned, Entitled
    <3>2. CASE pc[q] = "restore"
      BY <1>0, <2>1, <3>2 DEF Sound, Places, Pruning, Pruned, Entitled
    <3> QED
      BY <3>1, <3>2
  <2>3. Journaled(q)'
    BY <1>0, <2>1 DEF TypeOK, Bytes, Sound, Journaled, Restore
  <2> QED
    BY <2>2, <2>3 DEF Sound
<1> QED
  BY <1>1, <1>2, <1>3 DEF Restore, Holder
(* The end of a run leaves nobody with the lock.                           *)
LEMMA Leaving ==
  ASSUME SyncInv, NEW q \in Proc, lock = q, Leave(q), Unlock
  PROVE  /\ Holder' /\ WroteSealed' /\ \A r \in Proc : lock' # r
         /\ pc' \in [Proc -> Pcs] /\ plan' \in [Proc -> Plans]
         /\ opts' \in [Proc -> Options] /\ run' \in Memory
         /\ lock' \in Proc \union {NoProc}
<1>1. /\ pc' \in [Proc -> Pcs] /\ plan' \in [Proc -> Plans] /\ opts' \in [Proc -> Options]
  BY DEF SyncInv, TypeOK, Leave, Pcs, Plans, Options, Full, Unplanned
<1>2. run' \in Memory /\ WroteSealed' /\ lock' = NoProc
  BY DEF Unlock, Empty, Memory, NoBytes, Bytes, Content, WroteSealed
<1>3. Holder' /\ \A r \in Proc : lock' # r
  BY <1>2, SyncAssumption DEF SyncInv, TypeOK, Holder, Leave
<1> QED
  BY <1>1, <1>2, <1>3

LEMMA SaveKeeps ==
  ASSUME SyncInv, NEW q \in Proc, Save(q)
  PROVE  SyncInv'
<1> lock = q /\ Sound(q) /\ pc[q] = "save"
  BY Held DEF Save
<1> USE DEF SyncInv
<1>1. /\ Holder' /\ WroteSealed' /\ \A r \in Proc : lock' # r
      /\ pc' \in [Proc -> Pcs] /\ plan' \in [Proc -> Plans] /\ opts' \in [Proc -> Options]
      /\ run' \in Memory /\ lock' \in Proc \union {NoProc}
  BY Leaving DEF Save
<1>2. ledger' \in [Path -> Artifact \union {NoFile}] /\ RecordsSealed'
  BY DEF TypeOK, Memory, RecordsSealed, WroteSealed, Save, Owned
<1>3. ASSUME NEW p \in Path \ touched PROVE tree[p] = ledger'[p]
  <2>1. ledger'[p] = IF p \in run.stale THEN NoFile
                     ELSE IF run.wrote[p] # NoFile THEN run.wrote[p] ELSE ledger[p]
    BY DEF Save, Owned
  <2>2. CASE p \in run.journal
    BY <2>1, <2>2 DEF Sound, Pruning, Pruned, Journaled
  <2>3. CASE p \notin run.journal
    BY <2>1, <2>3 DEF Sound, Places, Pruning, Pruned, Journaled
  <2> QED
    BY <2>2, <2>3
<1>4. LedgerTrue'
  BY <1>3 DEF LedgerTrue, Save
<1>5. TypeOK'
  BY <1>1, <1>2 DEF TypeOK, Save
<1> QED
  BY <1>1, <1>2, <1>4, <1>5

LEMMA SaveFailsKeeps ==
  ASSUME SyncInv, NEW q \in Proc, SaveFails(q)
  PROVE  SyncInv'
<1> lock = q /\ Sound(q) /\ pc[q] = "save"
  BY Held DEF SaveFails
<1> USE DEF SyncInv
<1>1. TypeOK'
  BY SyncAssumption DEF TypeOK, SaveFails, Pcs, Fault
<1>2. Holder' /\ LedgerTrue' /\ RecordsSealed' /\ WroteSealed'
  BY SyncAssumption DEF TypeOK, Holder, LedgerTrue, RecordsSealed, WroteSealed, SaveFails
<1>3. Sound(q)'
  <2>1. Planned(q)' = Planned(q) /\ pc'[q] = "rollback"
    BY DEF TypeOK, Planned, SaveFails
  <2> QED
    BY <2>1 DEF TypeOK, Sound, Places, Pruning, Entitled, Journaled, SaveFails
<1> QED
  BY <1>1, <1>2, <1>3 DEF SaveFails, Holder

LEMMA RollbackKeeps ==
  ASSUME SyncInv, NEW q \in Proc, Rollback(q)
  PROVE  SyncInv'
<1> lock = q /\ Sound(q) /\ pc[q] = "rollback"
  BY Held DEF Rollback
<1>1. CASE (\E p \in run.journal : Undo(q, p, "restore")) /\ UNCHANGED <<lock, plan, opts>>
  <2>1. PICK p \in run.journal : Undo(q, p, "restore")
    BY <1>1
  <2> QED
    BY <1>1, <2>1, UndoKeeps DEF Rollback
<1>2. CASE run.journal = {} /\ Leave(q) /\ Unlock
  <2> USE DEF SyncInv
  <2>1. /\ Holder' /\ WroteSealed' /\ \A r \in Proc : lock' # r
        /\ pc' \in [Proc -> Pcs] /\ plan' \in [Proc -> Plans] /\ opts' \in [Proc -> Options]
        /\ run' \in Memory /\ lock' \in Proc \union {NoProc}
    BY <1>2, Leaving
  <2>2. LedgerTrue' /\ RecordsSealed'
    BY <1>2 DEF LedgerTrue, RecordsSealed, Sound, Journaled, Rollback
  <2>3. TypeOK'
    BY <1>2, <2>1 DEF TypeOK, Rollback
  <2> QED
    BY <2>1, <2>2, <2>3
<1> QED
  BY <1>1, <1>2 DEF Rollback

LEMMA KillKeeps ==
  ASSUME SyncInv, NEW q \in Proc, Kill(q)
  PROVE  SyncInv'
<1> USE DEF SyncInv
<1>1. faults' \in 0..MaxFaults
  BY SyncAssumption DEF TypeOK, Kill, Fault
<1>2. CASE lock = q
  <2>1. /\ Holder' /\ WroteSealed' /\ \A r \in Proc : lock' # r
        /\ pc' \in [Proc -> Pcs] /\ plan' \in [Proc -> Plans] /\ opts' \in [Proc -> Options]
        /\ run' \in Memory /\ lock' \in Proc \union {NoProc}
    BY <1>2, Leaving DEF Kill
  <2>2. /\ Sound(q) /\ run.journal \subseteq Path
        /\ pc[q] = "confirm" => run.at \in Path
    BY <1>2 DEF TypeOK, Memory, Options, Sound, Places, Planned
  <2>3. touched' \in SUBSET Path
    BY <1>2, <2>2 DEF TypeOK, Kill
  <2>4. LedgerTrue' /\ RecordsSealed'
    BY <1>2, <2>2 DEF LedgerTrue, RecordsSealed, Sound, Journaled, Kill
  <2>5. TypeOK'
    BY <1>1, <2>1, <2>3 DEF TypeOK, Kill
  <2> QED
    BY <2>1, <2>4, <2>5
<1>3. CASE lock # q
  <2>1. TypeOK'
    BY <1>1, <1>3 DEF TypeOK, Kill, Leave, Pcs, Plans, Options, Full, Unplanned
  <2>2. Holder' /\ LedgerTrue' /\ RecordsSealed' /\ WroteSealed'
    BY <1>3 DEF TypeOK, Holder, LedgerTrue, RecordsSealed, WroteSealed, Kill, Leave
  <2>3. ASSUME NEW r \in Proc, lock' = r PROVE Sound(r)'
    <3>1. r # q /\ Sound(r)
      BY <1>3, <2>3 DEF Kill
    <3>2. pc'[r] = pc[r] /\ plan'[r] = plan[r] /\ opts'[r] = opts[r]
      BY <3>1 DEF TypeOK, Kill, Leave
    <3> QED
      BY <1>3, <3>1, <3>2 DEF Kill, Sound, Places, Pruning, Journaled, Entitled, Planned, Pruned
  <2> QED
    BY <2>1, <2>2, <2>3
<1> QED
  BY <1>2, <1>3
(* Others may write anything: the path is touched.                         *)
LEMMA TouchKeeps ==
  ASSUME SyncInv, NEW p \in Path, NEW c \in Content,
         tree' = [tree EXCEPT ![p] = c], touched' = touched \union {p},
         edits' \in 0..MaxEdits,
         UNCHANGED <<config, ledger, lock, local, run, faults, changes>>
  PROVE  SyncInv'
<1> USE DEF SyncInv
<1>1. TypeOK'
  BY DEF TypeOK, Bytes, local
<1>2. Holder' /\ LedgerTrue' /\ RecordsSealed' /\ WroteSealed'
  BY DEF TypeOK, Bytes, Holder, LedgerTrue, RecordsSealed, WroteSealed, local
<1>3. ASSUME NEW r \in Proc, lock' = r PROVE Sound(r)'
  <2>1. Sound(r)
    BY <1>3
  <2>2. Places(r)' /\ Pruning(r)' /\ Entitled(r)'
    BY <2>1 DEF Sound, Places, Pruning, Entitled, Planned, Pruned, local
  <2>3. Journaled(r)'
    BY <2>1 DEF TypeOK, Bytes, Sound, Journaled, local
  <2> QED
    BY <2>2, <2>3 DEF Sound
<1> QED
  BY <1>1, <1>2, <1>3

LEMMA OthersKeep ==
  ASSUME SyncInv, NEW p \in Path, Edit(p) \/ Reencrypt(p) \/ Render(p)
  PROVE  SyncInv'
<1>1. /\ edits' \in 0..MaxEdits /\ touched' = touched \union {p}
      /\ UNCHANGED <<config, ledger, lock, local, run, faults, changes>>
  BY SyncAssumption DEF SyncInv, TypeOK, Edit, Reencrypt, Render
<1>2. \E c \in Content : tree' = [tree EXCEPT ![p] = c]
  <2>1. CASE Edit(p)
    BY <2>1 DEF Edit, Content
  <2>2. CASE Reencrypt(p)
    <3>1. PICK b \in Stamp : tree' = [tree EXCEPT ![p].stamp = b]
      BY <2>2 DEF Reencrypt
    <3>2. [tree[p] EXCEPT !.stamp = b] \in Artifact
      BY <2>2 DEF Reencrypt, Sealed, Artifact
    <3>3. tree' = [tree EXCEPT ![p] = [tree[p] EXCEPT !.stamp = b]]
      BY <3>1
    <3> QED
      BY <3>2, <3>3 DEF Content
  <2>3. CASE Render(p)
    BY <2>3 DEF Render, Content, Artifact
  <2> QED
    BY <2>1, <2>2, <2>3
<1> QED
  BY <1>1, <1>2, TouchKeeps

(* What the operator puts back is on record.                               *)
LEMMA ResolveKeeps ==
  ASSUME SyncInv, NEW p \in Path, Resolve(p)
  PROVE  SyncInv'
<1> USE DEF SyncInv
<1>1. TypeOK'
  BY DEF TypeOK, Bytes, Content, Resolve, local
<1>2. Holder' /\ LedgerTrue' /\ RecordsSealed' /\ WroteSealed'
  BY DEF TypeOK, Bytes, Holder, LedgerTrue, RecordsSealed, WroteSealed, Resolve, local
<1>3. \A r \in Proc : lock' # r
  BY SyncAssumption DEF Resolve
<1> QED
  BY <1>1, <1>2, <1>3

LEMMA ConfigureKeeps ==
  ASSUME SyncInv, Configure \/ UNCHANGED vars
  PROVE  SyncInv'
<1>1. changes' \in 0..MaxChanges /\ config' \in Plans
  BY SyncAssumption DEF SyncInv, TypeOK, Configure, vars
<1>2. UNCHANGED <<tree, ledger, lock, local, run, touched, faults, edits>>
  BY DEF Configure, vars
<1> QED
  BY <1>1, <1>2 DEF SyncInv, TypeOK, Holder, LedgerTrue, RecordsSealed, WroteSealed,
     Sound, Places, Pruning, Journaled, Entitled, Planned, Pruned, local

LEMMA Inductive == SyncInv /\ [Next]_vars => SyncInv'
<1> SUFFICES ASSUME SyncInv, [Next]_vars PROVE SyncInv'
  OBVIOUS
<1>1. ASSUME NEW q \in Proc, Working(q) PROVE SyncInv'
  BY <1>1, EnterKeeps, LookKeeps, WriteKeeps, ConfirmKeeps, ReconcileKeeps, PruneKeeps,
     RemoveKeeps, UnpruneKeeps, RestoreKeeps, SaveKeeps, SaveFailsKeeps, RollbackKeeps DEF Working
<1>2. ASSUME NEW q \in Proc, Kill(q) \/ \E o \in Chosen : Start(q, o) PROVE SyncInv'
  BY <1>2, KillKeeps, StartKeeps
<1>3. ASSUME NEW p \in Path, Edit(p) \/ Reencrypt(p) \/ Render(p) \/ Resolve(p)
      PROVE  SyncInv'
  BY <1>3, OthersKeep, ResolveKeeps
<1>4. CASE Configure \/ UNCHANGED vars
  BY <1>4, ConfigureKeeps
<1> QED
  BY <1>1, <1>2, <1>3, <1>4 DEF Next

(* The inductive invariant of `secrets sync', for any number of runs.      *)
THEOREM Synchronizing == Spec => []SyncInv
<1> QED
  BY Initially, Inductive, PTL DEF Spec

(* Overlay, ledger, lock and runs keep their types.                        *)
THEOREM SyncTypes == Spec => []TypeOK
<1>1. SyncInv => TypeOK
  BY DEF SyncInv
<1> QED
  BY <1>1, Synchronizing, PTL

(* Between runs the ledger is the truth about every path nobody else wrote *)
(* and no killed run or failed undo left behind: reconcileArtifactState.   *)
THEOREM LedgerIsTrue == Spec => []LedgerTrue
<1>1. SyncInv => LedgerTrue
  BY DEF SyncInv
<1> QED
  BY <1>1, Synchronizing, PTL

(* No plaintext credential is ever on record as synchronized.              *)
THEOREM NoPlaintextRecord == Spec => []RecordsSealed
<1>1. SyncInv => RecordsSealed
  BY DEF SyncInv
<1> QED
  BY <1>1, Synchronizing, PTL

(* No write, pruning, putting back or undoing takes what is not on record, *)
(* not the run's own and not adopted, but for what came to that path after *)
(* the run last looked at it: the windows before the rename of the         *)
(* encrypted file, before os.Remove and before the restoring rename.       *)
THEOREM EditsAreKept == Spec => EditsKept
<1> DEFINE Taken(q, p) ==
      Working(q) /\ Unowned(p) /\ ~Own(p) /\ tree'[p] # tree[p]
    Excused(q, p) == SinceLook(p) \/ Adopted(q, p)
<1>1. ASSUME SyncInv, NEW q \in Proc, NEW p \in Path, Taken(q, p) PROVE Excused(q, p)
  <2> USE <1>1 DEF Unowned, Own, SinceLook, Adopted
  <2>1. CASE Write(q)
    <3>1. lock = q /\ Sound(q) /\ pc[q] = "write"
      BY <2>1, Held DEF Write
    <3>2. p = run.at
      BY <2>1 DEF SyncInv, TypeOK, Bytes, Write
    <3> QED
      BY <3>1, <3>2 DEF Sound, Entitled
  <2>2. CASE Remove(q)
    <3>1. lock = q /\ Sound(q) /\ pc[q] = "remove"
      BY <2>2, Held DEF Remove
    <3>2. p = run.at
      BY <2>2 DEF SyncInv, TypeOK, Bytes, Remove
    <3> QED
      BY <3>1, <3>2 DEF Sound, Entitled
  <2>3. CASE Restore(q)
    <3>1. lock = q /\ Sound(q) /\ pc[q] \in {"putback", "restore"}
      BY <2>3, Held DEF Restore
    <3>2. p = run.at
      BY <2>3 DEF SyncInv, TypeOK, Bytes, Restore
    <3> QED
      BY <3>1, <3>2 DEF Sound, Entitled, Places
  <2>4. CASE \/ Enter(q) \/ Look(q) \/ Confirm(q) \/ Reconcile(q) \/ Prune(q)
             \/ Unprune(q) \/ Save(q) \/ SaveFails(q) \/ Rollback(q)
    BY <2>4 DEF Enter, Look, Confirm, Reconcile, Prune, Unprune, Save, SaveFails, Rollback
  <2> QED
    BY <2>1, <2>2, <2>3, <2>4 DEF Working
<1>2. SyncInv /\ [Next]_vars =>
        [\A q \in Proc, p \in Path : Taken(q, p) => Excused(q, p)]_vars
  BY <1>1
<1> QED
  BY <1>2, Synchronizing, PTL DEF Spec, EditsKept
=============================================================================

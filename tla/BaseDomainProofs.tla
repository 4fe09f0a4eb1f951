-------------------------- MODULE BaseDomainProofs --------------------------
(***************************************************************************)
(* Whatever the domains, however many commands run at once and whichever   *)
(* of them fail or are killed, the names in the file agree, and a domain   *)
(* that a cluster owns moves only when somebody asks or when a command     *)
(* overwrites what it has not seen.                                        *)
(***************************************************************************)
EXTENDS BaseDomain, TLAPS

USE DomainAssumption, CopyAssumption

(* The names agree, and only a file that no command has written lacks an   *)
(* FQDN.                                                                   *)
Named(c) == Agrees(c) /\ (c.fqdn = None => c.managed = "absent")

(* A copy that is fresh has the identity that the file owns.               *)
Mirrors(c, f) == Owned(f) => Owned(c) /\ Identity(c) = Identity(f)

Copied(r, f) ==
  /\ r.step \in {"detect", "persist", "sync", "render"} => r.copy # None
  /\ r.copy # None =>
       Agrees(r.copy) /\ r.copy.fqdn # None /\ (r.fresh => Mirrors(r.copy, f))

DomainInv ==
  /\ TypeOK
  /\ Named(file)
  /\ \A p \in Process : Copied(run[p], file)

-----------------------------------------------------------------------------
(* Configurations.                                                         *)

(* What a load yields: names that agree, an FQDN, and the same identity    *)
(* where the cluster owns it.                                              *)
LEMMA HydrateNames ==
  ASSUME NEW c \in Config, Named(c), settings \in Domain \cup {None}
  PROVE  /\ Hydrate(c) \in Config
         /\ Agrees(Hydrate(c)) /\ Hydrate(c).fqdn # None
         /\ Mirrors(Hydrate(c), c)
<1>1. CASE c.managed = "default" \/ Adopts(c)
  <2> DEFINE d == IF settings = None THEN c.domain ELSE settings
  <2>1. d \in Domain
    BY DEF Config
  <2>2. Hydrate(c) = [c EXCEPT !.managed = "default", !.domain = d, !.fqdn = d]
    BY <1>1 DEF Hydrate
  <2>3. ~Owned(c)
    BY <1>1 DEF Owned, Adopts
  <2> QED
    BY <2>1, <2>2, <2>3 DEF Config, Agrees, Mirrors
<1>2. CASE ~(c.managed = "default" \/ Adopts(c))
  <2> DEFINE n == IF c.fqdn = None THEN c.domain ELSE c.fqdn
  <2>1. n \in Domain \cup {Custom} /\ n \in {c.domain, Custom}
    BY DEF Config, Named, Agrees
  <2>2. Hydrate(c) = [c EXCEPT !.managed = "pinned", !.fqdn = n]
    BY <1>2 DEF Hydrate
  <2>3. Owned(c) => n = c.fqdn
    BY DEF Owned, Named
  <2> QED
    BY <2>1, <2>2, <2>3 DEF Config, Agrees, Mirrors, Owned, Identity
<1> QED
  BY <1>1, <1>2

LEMMA AssignedNames ==
  ASSUME NEW r \in Run, r.copy \in Config, Agrees(r.copy), r.copy.fqdn # None
  PROVE  Assigned(r) \in Config /\ Named(Assigned(r))
<1>1. CASE r.order.assign = None
  BY <1>1 DEF Assigned, Named
<1>2. CASE r.order.assign # None
  <2>1. r.order.assign \in Domain
    BY <1>2 DEF Run, Order
  <2> QED
    BY <1>2, <2>1 DEF Assigned, Named, Agrees, Config
<1> QED
  BY <1>1, <1>2

(* A mark or a stamp leaves the names alone, and pins at most.             *)
LEMMA MarkedNames ==
  ASSUME NEW r, r.copy \in Config, Agrees(r.copy), r.copy.fqdn # None
  PROVE  /\ Marked(r) \in Config /\ Named(Marked(r))
         /\ Identity(Marked(r)) = Identity(r.copy)
         /\ Owned(r.copy) => Owned(Marked(r))
  BY DEF Marked, Config, Named, Agrees, Identity, Owned

LEMMA StampedNames ==
  ASSUME NEW c \in Config, Agrees(c), c.fqdn # None,
         NEW d \in Domain \cup {None}
  PROVE  /\ Stamped(c, d) \in Config /\ Named(Stamped(c, d))
         /\ Identity(Stamped(c, d)) = Identity(c)
         /\ Owned(c) <=> Owned(Stamped(c, d))
  BY DEF Stamped, Config, Named, Agrees, Identity, Owned

LEMMA SyncedNames ==
  ASSUME NEW r \in Run, r.copy \in Config, r.want # None
  PROVE  /\ Synced(r) \in Config
         /\ Agrees(Synced(r)) /\ Synced(r).fqdn # None
  BY DEF Synced, Run, Config, Agrees

LEMMA IdleNames ==
  ASSUME NEW f
  PROVE  Idle \in Run /\ Copied(Idle, f)
<1>1. Idle.order \in Order
  BY DEF Idle, Order
<1> QED
  BY <1>1 DEF Idle, Run, Step, Copied

LEMMA AtNames ==
  ASSUME NEW r \in Run, NEW s \in Step, NEW f,
         s \notin {"detect", "persist", "sync", "render"}
  PROVE  At(r, s) \in Run /\ Copied(At(r, s), f)
<1>0. r.order \in Order
  BY DEF Run
<1>1. At(r, s) \in Run
  <2> HIDE DEF Order, Config
  <2> QED
    BY <1>0, IdleNames DEF At, Run
<1>2. At(r, s).step = s /\ At(r, s).copy = None
  BY DEF At, Idle
<1> QED
  BY <1>1, <1>2 DEF Copied

LEMMA ThenNames ==
  ASSUME NEW r \in Run, r.step \in {"set", "mark", "stamp", "end"}, NEW f
  PROVE  Then(r) \in Run /\ Copied(Then(r), f)
<1>1. CASE r.step \in {"set", "end"}
  BY <1>1, IdleNames DEF Then
<1>2. CASE r.step = "stamp"
  <2>1. Then(r) = At(r, "end")
    BY <1>2 DEF Then
  <2> QED
    BY <2>1, AtNames DEF Step
<1>3. CASE r.step = "mark"
  <2> DEFINE s == IF r.order.does = "deploy" THEN "work" ELSE "read"
  <2>1. Then(r) = At(r, s)
    BY <1>3 DEF Then
  <2>2. s \in Step /\ s \notin {"detect", "persist", "sync", "render"}
    BY DEF Step
  <2> HIDE DEF s
  <2> QED
    BY <2>1, <2>2, AtNames
<1> QED
  BY <1>1, <1>2, <1>3

-----------------------------------------------------------------------------
(* Steps.                                                                  *)

(* One process goes on, and the file stays.                                *)
LEMMA OneGoes ==
  ASSUME DomainInv, NEW p \in Process, NEW r \in Run, Copied(r, file),
         run' = [run EXCEPT ![p] = r], file' = file,
         settings' = settings, tree' \in Domain \cup {None},
         edits' \in 0 .. MaxEdits, faults' \in 0 .. MaxFaults
  PROVE  DomainInv'
<1>1. run' \in [Process -> Run]
  BY DEF DomainInv, TypeOK
<1>2. \A q \in Process : run'[q] = IF q = p THEN r ELSE run[q]
  BY DEF DomainInv, TypeOK
<1>3. TypeOK'
  BY <1>1 DEF DomainInv, TypeOK
<1>4. \A q \in Process : Copied(run'[q], file')
  BY <1>2 DEF DomainInv
<1> QED
  BY <1>3, <1>4 DEF DomainInv, Named, Agrees

(* One process writes the file, and the copies of the others are stale.    *)
LEMMA OneWrites ==
  ASSUME DomainInv, NEW p \in Process, NEW c \in Config, Named(c),
         NEW r \in Run, Copied(r, c), Write(p, c, r),
         UNCHANGED <<settings, tree, edits, faults>>
  PROVE  DomainInv'
<1>1. \A q \in Process : run'[q] =
        IF q = p THEN r ELSE [run[q] EXCEPT !.fresh = FALSE]
  BY DEF Write
<1>2. ASSUME NEW q \in Process, q # p
      PROVE  run'[q] \in Run /\ Copied(run'[q], c)
  <2>1. run[q] \in Run /\ Copied(run[q], file)
    BY DEF DomainInv, TypeOK
  <2>2. run'[q] = [run[q] EXCEPT !.fresh = FALSE]
    BY <1>1, <1>2
  <2> QED
    BY <2>1, <2>2 DEF Run, Copied
<1>3. run' \in [Process -> Run]
  BY <1>1, <1>2 DEF Write
<1>4. TypeOK'
  BY <1>3 DEF DomainInv, TypeOK, Write
<1>5. \A q \in Process : Copied(run'[q], file')
  BY <1>1, <1>2 DEF Write
<1>6. file' = c
  BY DEF Write
<1> QED
  BY <1>4, <1>5, <1>6 DEF DomainInv, Named, Agrees

(* What is known of a process at work.                                     *)
LEMMA Known ==
  ASSUME DomainInv, NEW p \in Process
  PROVE  /\ run[p] \in Run /\ Copied(run[p], file)
         /\ file \in Config /\ Named(file)
         /\ settings \in Domain \cup {None} /\ tree \in Domain \cup {None}
         /\ edits \in 0 .. MaxEdits /\ faults \in 0 .. MaxFaults
         /\ run[p].copy # None =>
              /\ run[p].copy \in Config
              /\ Agrees(run[p].copy) /\ run[p].copy.fqdn # None
  BY DEF DomainInv, TypeOK, Copied, Run

LEMMA InitDomain == Init => DomainInv
<1> SUFFICES ASSUME Init PROVE DomainInv
  OBVIOUS
<1>1. \A p \in Process : run[p] \in Run /\ Copied(run[p], file)
  BY IdleNames DEF Init
<1>2. TypeOK
  BY <1>1 DEF Init, TypeOK
<1>3. Named(file)
  BY DEF Init, Named, Agrees, Config
<1> QED
  BY <1>1, <1>2, <1>3 DEF DomainInv

LEMMA StartsKeep ==
  ASSUME DomainInv, NEW p \in Process,
         \/ \E d \in Domain \cup {None}, f \in BOOLEAN : StartSet(p, d, f)
         \/ \E s \in BOOLEAN : StartGenerate(p, s)
         \/ StartDeploy(p)
  PROVE  DomainInv'
<1>0. /\ run[p] \in Run /\ Copied(run[p], file)
      /\ file \in Config /\ Named(file)
      /\ settings \in Domain \cup {None} /\ tree \in Domain \cup {None}
      /\ edits \in 0 .. MaxEdits /\ faults \in 0 .. MaxFaults
  BY Known
<1>1. ASSUME NEW d \in Domain \cup {None}, NEW f \in BOOLEAN, StartSet(p, d, f)
      PROVE  DomainInv'
  <2> DEFINE r == [run[p] EXCEPT !.step = "set",
                     !.order = [does |-> "set", assign |-> d, flag |-> f]]
  <2>0. r.step = "set" /\ r.copy = run[p].copy /\ r.fresh = run[p].fresh
    BY <1>0 DEF Run
  <2>4. r \in Run
    BY <1>0 DEF Run, Order, Step
  <2>1. r \in Run /\ Copied(r, file)
    <3> HIDE DEF r
    <3> QED
      BY <1>0, <2>0, <2>4 DEF Copied
  <2>2. run' = [run EXCEPT ![p] = r]
    BY <1>1 DEF StartSet, DomainInv, TypeOK
  <2>3. edits' \in 0 .. MaxEdits
    BY <1>0, <1>1 DEF StartSet
  <2> HIDE DEF r
  <2> QED
    BY <1>0, <1>1, <2>1, <2>2, <2>3, OneGoes DEF StartSet
<1>2. ASSUME NEW s \in BOOLEAN, StartGenerate(p, s)
      PROVE  DomainInv'
  <2> DEFINE r == [run[p] EXCEPT !.step = "mark",
                     !.order = [does |-> "generate", assign |-> None, flag |-> s]]
  <2>0. r.step = "mark" /\ r.copy = run[p].copy /\ r.fresh = run[p].fresh
    BY <1>0 DEF Run
  <2>4. r \in Run
    BY <1>0 DEF Run, Order, Step
  <2>1. r \in Run /\ Copied(r, file)
    <3> HIDE DEF r
    <3> QED
      BY <1>0, <2>0, <2>4 DEF Copied
  <2>2. run' = [run EXCEPT ![p] = r]
    BY <1>2 DEF StartGenerate, DomainInv, TypeOK
  <2> HIDE DEF r
  <2> QED
    BY <1>0, <1>2, <2>1, <2>2, OneGoes DEF StartGenerate
<1>3. ASSUME StartDeploy(p)
      PROVE  DomainInv'
  <2> DEFINE r == [run[p] EXCEPT !.step = "mark",
                     !.order = [does |-> "deploy", assign |-> None, flag |-> FALSE]]
  <2>0. r.step = "mark" /\ r.copy = run[p].copy /\ r.fresh = run[p].fresh
    BY <1>0 DEF Run
  <2>4. r \in Run
    BY <1>0 DEF Run, Order, Step
  <2>1. r \in Run /\ Copied(r, file)
    <3> HIDE DEF r
    <3> QED
      BY <1>0, <2>0, <2>4 DEF Copied
  <2>2. run' = [run EXCEPT ![p] = r]
    BY <1>3 DEF StartDeploy, DomainInv, TypeOK
  <2> HIDE DEF r
  <2> QED
    BY <1>0, <1>3, <2>1, <2>2, OneGoes DEF StartDeploy
<1> QED
  BY <1>1, <1>2, <1>3

LEMMA LoadKeeps ==
  ASSUME DomainInv, NEW p \in Process, Load(p)
  PROVE  DomainInv'
<1>0. /\ run[p] \in Run /\ Copied(run[p], file)
      /\ file \in Config /\ Named(file)
      /\ settings \in Domain \cup {None} /\ tree \in Domain \cup {None}
      /\ edits \in 0 .. MaxEdits /\ faults \in 0 .. MaxFaults
  BY Known
<1> DEFINE s == IF run[p].step = "load" THEN "detect" ELSE run[p].step
           r == [run[p] EXCEPT !.copy = Hydrate(file), !.fresh = TRUE, !.step = s]
<1>1. /\ Hydrate(file) \in Config
      /\ Agrees(Hydrate(file)) /\ Hydrate(file).fqdn # None
      /\ Mirrors(Hydrate(file), file)
  BY <1>0, HydrateNames
<1>2. s \in Step
  BY <1>0 DEF Run, Step
<1>3. r \in Run
  BY <1>0, <1>1, <1>2 DEF Run
<1>4. r.copy = Hydrate(file)
  BY <1>0 DEF Run
<1>5. Copied(r, file)
  BY <1>1, <1>4 DEF Copied
<1>6. run' = [run EXCEPT ![p] = r]
  BY <1>0 DEF Load, DomainInv, TypeOK, Run
<1> HIDE DEF r
<1> QED
  BY <1>0, <1>3, <1>5, <1>6, OneGoes DEF Load

(* What set, UpdateStatus and the stamp write.                             *)
LEMMA UpdatesKeep ==
  ASSUME DomainInv, NEW p \in Process, Set(p) \/ Mark(p) \/ Stamp(p)
  PROVE  DomainInv'
<1>0. /\ run[p] \in Run
      /\ run[p].copy \in Config
      /\ Agrees(run[p].copy) /\ run[p].copy.fqdn # None
      /\ run[p].rendered \in Domain \cup {None}
      /\ tree \in Domain \cup {None}
      /\ edits \in 0 .. MaxEdits /\ faults \in 0 .. MaxFaults
  BY Known DEF Set, Mark, Stamp, Run
<1>1. CASE Set(p)
  <2>1. CASE Refused(run[p])
    BY <1>0, <1>1, <2>1, IdleNames, OneGoes DEF Set
  <2>2. CASE ~Refused(run[p])
    BY <1>0, <1>1, <2>2, IdleNames, AssignedNames, OneWrites DEF Set
  <2> QED
    BY <2>1, <2>2
<1>2. CASE Mark(p)
  <2>1. /\ Then(run[p]) \in Run
        /\ Copied(Then(run[p]), Marked(run[p]))
    BY <1>0, <1>2, ThenNames DEF Mark
  <2>2. Marked(run[p]) \in Config /\ Named(Marked(run[p]))
    BY <1>0, MarkedNames
  <2> QED
    BY <1>2, <2>1, <2>2, OneWrites DEF Mark
<1>3. CASE Stamp(p)
  <2> DEFINE c == Stamped(run[p].copy, run[p].rendered)
  <2>1. /\ Then(run[p]) \in Run
        /\ Copied(Then(run[p]), c) /\ Copied(Then(run[p]), file)
    BY <1>0, <1>3, ThenNames DEF Stamp
  <2>2. c \in Config /\ Named(c)
    BY <1>0, StampedNames
  <2>3. CASE run[p].copy.stamp = run[p].rendered
    BY <1>0, <1>3, <2>1, <2>3, OneGoes DEF Stamp
  <2>4. CASE run[p].copy.stamp # run[p].rendered
    <3>1. Write(p, c, Then(run[p])) /\ UNCHANGED <<settings, tree, edits, faults>>
      BY <1>3, <2>4 DEF Stamp
    <3> HIDE DEF c
    <3> QED
      BY <2>1, <2>2, <3>1, OneWrites
  <2> QED
    BY <2>3, <2>4
<1> QED
  BY <1>1, <1>2, <1>3

(* Generation up to what it persists.                                      *)
LEMMA PropagationKeeps ==
  ASSUME DomainInv, NEW p \in Process, Read(p) \/ Detect(p) \/ Persist(p)
  PROVE  DomainInv'
<1>0. /\ run[p] \in Run /\ Copied(run[p], file)
      /\ file \in Config
      /\ settings \in Domain \cup {None} /\ tree \in Domain \cup {None}
      /\ edits \in 0 .. MaxEdits /\ faults \in 0 .. MaxFaults
  BY Known
<1>1. CASE Read(p)
  <2> DEFINE r == [run[p] EXCEPT !.seen = <<file.domain, file.stamp>>,
                                 !.step = "load"]
  <2>1. r \in Run
    BY <1>0 DEF Run, Step, Config
  <2>2. Copied(r, file)
    BY <1>0 DEF Run, Copied
  <2>3. run' = [run EXCEPT ![p] = r]
    BY <1>1 DEF Read, DomainInv, TypeOK
  <2> HIDE DEF r
  <2> QED
    BY <1>0, <1>1, <2>1, <2>2, <2>3, OneGoes DEF Read
<1>2. CASE Detect(p)
  <2> DEFINE s == IF Propagated(run[p]) THEN "persist" ELSE Prepared(run[p])
             r == [run[p] EXCEPT !.want = settings,
                     !.rendered = run[p].copy.domain, !.step = s]
  <2>1. run[p].copy \in Config
    BY <1>0, <1>2 DEF Detect, Copied, Run
  <2>2. s \in {"persist", "sync", "render"}
    BY DEF Prepared
  <2> HIDE DEF s
  <2>3. r \in Run
    <3>1. run[p].copy.domain \in Domain
      BY <2>1 DEF Config
    <3>2. s \in Step
      BY <2>2 DEF Step
    <3> QED
      BY <1>0, <3>1, <3>2 DEF Run
  <2>4. Copied(r, file)
    BY <1>0, <1>2 DEF Detect, Run, Copied
  <2>5. run' = [run EXCEPT ![p] = r]
    BY <1>2 DEF Detect, DomainInv, TypeOK, s
  <2> HIDE DEF r
  <2> QED
    BY <1>0, <1>2, <2>3, <2>4, <2>5, OneGoes DEF Detect
<1>3. CASE Persist(p)
  <2> DEFINE r == [run[p] EXCEPT !.step = Prepared(run[p])]
             c == Stamped(run[p].copy, run[p].copy.domain)
  <2>1. run[p].copy \in Config /\ Agrees(run[p].copy) /\ run[p].copy.fqdn # None
    BY <1>0, <1>3 DEF Persist, Copied, Run
  <2>2. r \in Run /\ r.copy = run[p].copy
    BY <1>0 DEF Run, Step, Prepared
  <2>3. run[p].copy.domain \in Domain
    BY <2>1 DEF Config
  <2>4. /\ c \in Config /\ Named(c) /\ Identity(c) = Identity(run[p].copy)
        /\ Owned(run[p].copy) <=> Owned(c)
    BY <2>1, <2>3, StampedNames
  <2>5. Copied(r, c)
    BY <2>1, <2>2, <2>4 DEF Copied, Mirrors
  <2>6. Write(p, c, r) /\ UNCHANGED <<settings, tree, edits, faults>>
    BY <1>3 DEF Persist
  <2> HIDE DEF r, c
  <2> QED
    BY <2>2, <2>4, <2>5, <2>6, OneWrites
<1> QED
  BY <1>1, <1>2, <1>3

LEMMA SyncKeeps ==
  ASSUME DomainInv, NEW p \in Process, Sync(p)
  PROVE  DomainInv'
<1> DEFINE c == Synced(run[p])
           r == [run[p] EXCEPT !.step = "render", !.copy = c]
           u == [run[p] EXCEPT !.step = "render"]
           s == Stamped(c, c.domain)
<1>0. /\ run[p] \in Run /\ Copied(run[p], file)
      /\ settings \in Domain \cup {None} /\ tree \in Domain \cup {None}
      /\ edits \in 0 .. MaxEdits /\ faults \in 0 .. MaxFaults
  BY Known
<1>1. run[p].copy \in Config
  BY <1>0 DEF Sync, Copied, Run
<1>2. c \in Config /\ Agrees(c) /\ c.fqdn # None
  BY <1>0, <1>1, SyncedNames DEF Sync
<1>3. CASE c = run[p].copy
  <2>1. u \in Run /\ Copied(u, file)
    BY <1>0 DEF Sync, Run, Step, Copied
  <2>2. run' = [run EXCEPT ![p] = u]
    BY <1>3 DEF Sync, Goto, DomainInv, TypeOK
  <2> HIDE DEF u
  <2> QED
    BY <1>0, <1>3, <2>1, <2>2, OneGoes DEF Sync
<1>4. CASE c # run[p].copy
  <2>1. c.domain \in Domain
    BY <1>2 DEF Config
  <2> HIDE DEF c
  <2>2. /\ s \in Config /\ Named(s) /\ Identity(s) = Identity(c)
        /\ Owned(c) <=> Owned(s)
    BY <1>2, <2>1, StampedNames
  <2>3. r \in Run /\ r.copy = c
    BY <1>0, <1>2 DEF Run, Step
  <2>4. Copied(r, s)
    BY <1>2, <2>2, <2>3 DEF Copied, Mirrors
  <2>5. Write(p, s, r) /\ UNCHANGED <<settings, tree, edits, faults>>
    BY <1>4 DEF Sync, c
  <2> HIDE DEF r, s
  <2> QED
    BY <2>2, <2>3, <2>4, <2>5, OneWrites
<1> QED
  BY <1>3, <1>4

(* The rest writes no configuration.                                       *)
LEMMA OthersKeep ==
  ASSUME DomainInv, NEW p \in Process,
         \/ SyncRefused(p) \/ Render(p) \/ Work(p)
         \/ UpdateFails(p) \/ Fails(p) \/ Kill(p)
  PROVE  DomainInv'
<1>0. /\ run[p] \in Run /\ Copied(run[p], file)
      /\ settings \in Domain \cup {None} /\ tree \in Domain \cup {None}
      /\ edits \in 0 .. MaxEdits /\ faults \in 0 .. MaxFaults
  BY Known
<1>1. At(run[p], "end") \in Run /\ Copied(At(run[p], "end"), file)
  BY <1>0, AtNames DEF Step
<1>2. CASE SyncRefused(p)
  BY <1>0, <1>1, <1>2, OneGoes DEF SyncRefused
<1>3. CASE Render(p)
  <2> DEFINE r == [At(run[p], "stamp") EXCEPT !.rendered = run[p].rendered]
  <2>1. At(run[p], "stamp") \in Run /\ Copied(At(run[p], "stamp"), file)
    BY <1>0, AtNames DEF Step
  <2>2. r \in Run /\ Copied(r, file)
    BY <1>0, <2>1 DEF Run, Copied
  <2>3. run' = [run EXCEPT ![p] = r]
    BY <1>3 DEF Render
  <2>4. tree' \in Domain
    BY <1>0, <1>3 DEF Render, Copied, Run, Config
  <2> HIDE DEF r
  <2> QED
    BY <1>0, <1>3, <2>2, <2>3, <2>4, OneGoes DEF Render
<1>4. CASE Work(p)
  <2> DEFINE r == [run[p] EXCEPT !.step = "end"]
  <2>1. r \in Run /\ Copied(r, file)
    BY <1>0 DEF Run, Step, Copied
  <2>2. run' = [run EXCEPT ![p] = r]
    BY <1>4 DEF Work, Goto, DomainInv, TypeOK
  <2> HIDE DEF r
  <2> QED
    BY <1>0, <1>4, <2>1, <2>2, OneGoes DEF Work
<1>5. CASE UpdateFails(p)
  <2>1. Then(run[p]) \in Run /\ Copied(Then(run[p]), file)
    BY <1>0, <1>5, ThenNames DEF UpdateFails, Updating
  <2>2. faults' \in 0 .. MaxFaults
    BY <1>0, <1>5 DEF UpdateFails
  <2> QED
    BY <1>0, <1>5, <2>1, <2>2, OneGoes DEF UpdateFails
<1>6. CASE Fails(p)
  <2>1. faults' \in 0 .. MaxFaults
    BY <1>0, <1>6 DEF Fails
  <2> QED
    BY <1>0, <1>1, <1>6, <2>1, OneGoes DEF Fails
<1>7. CASE Kill(p)
  <2>1. faults' \in 0 .. MaxFaults
    BY <1>0, <1>7 DEF Kill
  <2> QED
    BY <1>0, <1>7, <2>1, IdleNames, OneGoes DEF Kill
<1> QED
  BY <1>2, <1>3, <1>4, <1>5, <1>6, <1>7

LEMMA SettingsKeep ==
  ASSUME DomainInv, NEW d \in Domain \cup {None}, ChangeSettings(d)
  PROVE  DomainInv'
<1>1. TypeOK'
  BY DEF ChangeSettings, DomainInv, TypeOK
<1> QED
  BY <1>1 DEF ChangeSettings, DomainInv, Named, Agrees

LEMMA NextKeeps == DomainInv /\ [Next]_vars => DomainInv'
<1> SUFFICES ASSUME DomainInv, [Next]_vars PROVE DomainInv'
  OBVIOUS
<1>1. CASE \E d \in Domain \cup {None} : ChangeSettings(d)
  BY <1>1, SettingsKeep
<1>2. ASSUME NEW p \in Process, Goes(p)
      PROVE  DomainInv'
  BY <1>2, LoadKeeps, UpdatesKeep, PropagationKeeps, SyncKeeps, OthersKeep
     DEF Goes
<1>3. ASSUME NEW p \in Process,
             \/ \E d \in Domain \cup {None}, f \in BOOLEAN : StartSet(p, d, f)
             \/ \E s \in BOOLEAN : StartGenerate(p, s)
             \/ StartDeploy(p)
             \/ UpdateFails(p) \/ Fails(p) \/ Kill(p)
      PROVE  DomainInv'
  BY <1>3, StartsKeep, OthersKeep
<1>4. CASE UNCHANGED vars
  BY <1>4 DEF vars, DomainInv, TypeOK, Named, Agrees
<1> QED
  BY <1>1, <1>2, <1>3, <1>4 DEF Next

-----------------------------------------------------------------------------
(* Every reachable state satisfies the invariant.                          *)
THEOREM Domains == Spec => []DomainInv
<1>1. Init => DomainInv
  BY InitDomain
<1>2. DomainInv /\ [Next]_vars => DomainInv'
  BY NextKeeps
<1> QED
  BY <1>1, <1>2, PTL DEF Spec

(* The values stay in their types, for any domains and any commands.       *)
THEOREM DomainTypes == Spec => []TypeOK
<1>1. DomainInv => TypeOK
  BY DEF DomainInv
<1> QED
  BY <1>1, Domains, PTL

(* The FQDN in the file is that of the domain in the file, or somebody's   *)
(* own, whichever commands wrote it and in whichever order                 *)
(* (applySettingsProvenance and `cluster set` derive it anew).             *)
THEOREM NamesAgree == Spec => []IdentityAgrees
<1>1. DomainInv => IdentityAgrees
  BY DEF DomainInv, Named, IdentityAgrees
<1> QED
  BY <1>1, Domains, PTL

(* A domain that a cluster owns (pinned, and not to be mistaken for the    *)
(* placeholder of `cluster init`) moves only when an operator asks for it  *)
(* or a command writes back a copy made stale by another.                  *)
THEOREM OwnedKept == Spec => OwnedStays
<1> DEFINE Kept ==
      Owned(file) =>
        \/ Owned(file') /\ Identity(file') = Identity(file)
        \/ \E p \in Process : Writes(p) /\ (Asked(p) \/ ~run[p].fresh)
<1>1. DomainInv /\ [Next]_vars => [Kept]_vars
  <2> SUFFICES ASSUME DomainInv, Next, Owned(file), file' # file
      PROVE  Kept
    BY DEF vars
  <2>1. PICK p \in Process : Set(p) \/ Mark(p) \/ Stamp(p) \/ Persist(p) \/ Sync(p)
    BY DEF Next, Goes, ChangeSettings, StartSet, StartGenerate, StartDeploy,
           Load, Read, Detect, SyncRefused, Render, Work, UpdateFails, Fails,
           Kill
  <2>0. /\ run[p] \in Run /\ Copied(run[p], file)
        /\ run[p].copy \in Config /\ run[p].copy # None
        /\ Agrees(run[p].copy) /\ run[p].copy.fqdn # None
        /\ run[p].rendered \in Domain \cup {None}
    BY <2>1, Known DEF Set, Mark, Stamp, Persist, Sync, Copied, Run
  <2>2. CASE run[p].fresh /\ ~Asked(p)
    <3>1. Owned(run[p].copy) /\ Identity(run[p].copy) = Identity(file)
      BY <2>0, <2>2 DEF Copied, Mirrors
    <3>2. CASE Set(p)
      <4>1. file' = run[p].copy
        BY <2>2, <3>2 DEF Set, Asked, Write, Assigned
      <4> QED
        BY <3>1, <4>1
    <3>3. CASE Mark(p)
      <4>1. file' = Marked(run[p])
        BY <3>3 DEF Mark, Write
      <4> QED
        BY <2>0, <3>1, <4>1, MarkedNames
    <3>4. CASE Stamp(p)
      <4>1. file' = Stamped(run[p].copy, run[p].rendered)
        BY <3>4 DEF Stamp, Write
      <4> QED
        BY <2>0, <3>1, <4>1, StampedNames
    <3>5. CASE Persist(p)
      <4>1. file' = Stamped(run[p].copy, run[p].copy.domain)
        BY <3>5 DEF Persist, Write
      <4>2. run[p].copy.domain \in Domain
        BY <2>0 DEF Config
      <4> QED
        BY <2>0, <3>1, <4>1, <4>2, StampedNames
    <3>6. ~Sync(p)
      BY <2>2 DEF Sync, Asked
    <3> QED
      BY <2>1, <3>2, <3>3, <3>4, <3>5, <3>6
  <2>3. CASE Asked(p) \/ ~run[p].fresh
    <3>1. run'[p].step # run[p].step
      <4>1. CASE Set(p)
        BY <4>1 DEF Set, Write, Idle
      <4>2. CASE Mark(p) \/ Stamp(p)
        <5>1. run'[p] = Then(run[p])
          BY <4>2 DEF Mark, Stamp, Write
        <5>2. run[p].step \in {"mark", "stamp", "end"}
          BY <4>2 DEF Mark, Stamp
        <5> QED
          BY <5>1, <5>2 DEF Then, At, Idle
      <4>3. CASE Persist(p)
        BY <2>0, <4>3 DEF Persist, Write, Prepared, Run
      <4>4. CASE Sync(p)
        <5> DEFINE r == [run[p] EXCEPT !.step = "render", !.copy = Synced(run[p])]
        <5>1. run'[p] = r
          BY <4>4 DEF Sync, Write
        <5>2. r.step = "render"
          BY <2>0 DEF Run
        <5> QED
          BY <4>4, <5>1, <5>2 DEF Sync
      <4> QED
        BY <2>1, <4>1, <4>2, <4>3, <4>4
    <3> QED
      BY <2>3, <3>1 DEF Writes
  <2> QED
    BY <2>2, <2>3
<1> QED
  BY <1>1, Domains, PTL DEF Spec, OwnedStays
=============================================================================

---------------------- MODULE StorageCredentialsProofs ----------------------
(***************************************************************************)
(* StorageCredentials for any number of applies, credentials, faults,      *)
(* edits and rotations: no live credential is forgotten, and none that is  *)
(* in use is revoked.                                                      *)
(***************************************************************************)
EXTENDS StorageCredentials, TLAPS

(* An apply that has the recovery record, from its reservation on.         *)
Holds(q) ==
  \/ run[q].step \in {"fill", "create", "unreserve", "note", "pend", "revoke",
                      "retain", "finish", "remove"}
  \/ run[q].step \in {"check", "persist"} /\ Needs(run[q])

(* The live credentials that nothing but the configuration or the history  *)
(* tells of.                                                               *)
Loose == cloud \ ({config.id} \union lost)

(* What the holder of the record knows: until it creates, nothing is       *)
(* loose; then its own credential is, until it is configured; then the one *)
(* before is, until it is revoked.                                         *)
Created(q) ==
  /\ run[q].new \in cloud
  /\ run[q].new # Old(run[q])
Configured(q) ==
  Created(q) /\ config.id = run[q].new /\ config.secret = run[q].new
Accounted(q) ==
  /\ run[q].step \in {"fill", "create", "unreserve"} => Loose = {}
  /\ run[q].step \in {"note", "check", "persist"} =>
       Created(q) /\ Loose \subseteq {run[q].new}
  /\ run[q].step \in {"pend", "revoke", "retain"} =>
       Configured(q) /\ Loose \subseteq {Old(run[q])}
  /\ run[q].step \in {"finish", "remove"} => Configured(q) /\ Loose = {}

(* As long as no apply has undone the work of another, at most one has the *)
(* record, nobody else takes it away, and what is loose without a record   *)
(* is nothing.                                                             *)
Custody ==
  /\ \A q \in Process : Holds(q) =>
       /\ journal # NoFile
       /\ \A o \in Process : Holds(o) => o = q
       /\ Accounted(q)
  /\ journal = NoFile => Loose = {}

(* Only a rotation replaces what is there, and only where there is a need. *)
Planned(r) ==
  /\ r.step # "idle" => ~Blocked(r.current, r.rotate)
  /\ r.step = "pend" => Needs(r)

StorageInv ==
  /\ TypeOK
  /\ \A q \in Process : Planned(run[q])
  /\ raced \/ Custody

LEMMA InitOK == Init => StorageInv
<1> SUFFICES ASSUME Init PROVE StorageInv
  OBVIOUS
<1>1. TypeOK
  <2>1. cloud \in SUBSET Id
    BY StorageAssumption DEF Init, Id
  <2>2. Idle \in Run
    BY StorageAssumption DEF Idle, Absent, Run, Step, Config
  <2>3. config \in Config /\ run \in [Process -> Run]
    BY <2>2 DEF Init
  <2>4. faults \in 0..MaxFaults /\ edits \in 0..MaxEdits /\ rotations \in 0..MaxRotations
    BY StorageAssumption DEF Init
  <2> QED BY <2>1, <2>3, <2>4 DEF Init, TypeOK
<1>2. Custody
  BY DEF Init, Custody, Holds, Loose, Idle
<1>3. \A q \in Process : Planned(run[q])
  BY DEF Init, Planned, Idle
<1> QED BY <1>1, <1>2, <1>3 DEF StorageInv

-----------------------------------------------------------------------------
(* Types.                                                                  *)

LEMMA IdleType == Idle \in Run
BY StorageAssumption DEF Idle, Absent, Run, Step, Config

(* An apply that goes on or ends stays well-formed, and leaves the others  *)
(* alone.                                                                  *)
LEMMA Moves ==
  ASSUME TypeOK, NEW p \in Process, NEW s \in Step, Go(p, s) \/ End(p)
  PROVE  /\ run' \in [Process -> Run]
         /\ \A q \in Process \ {p} : run'[q] = run[q]
         /\ Go(p, s) => run'[p] = [run[p] EXCEPT !.step = s]
         /\ End(p) => run'[p] = Idle
BY IdleType DEF TypeOK, Go, End, Run

(* An identifier that nothing mentions is not one of those in use.         *)
LEMMA NewIdIs ==
  ASSUME Id \ Mentioned # {}
  PROVE  NewId \in Id \ Mentioned
BY DEF NewId

LEMMA RecordTypes ==
  ASSUME TypeOK, NEW p \in Process, NEW s \in State, Record(p, s)
  PROVE  journal' \in Journal
BY DEF TypeOK, Record, Journal, Run

(* The steps that only read.                                               *)
LEMMA ReadTypes ==
  ASSUME TypeOK, NEW p \in Process, Reread(p) \/ Adopt(p) \/ Ensure(p) \/ Check(p)
  PROVE  TypeOK'
<1>1. \E s \in Step : Go(p, s) \/ End(p)
  BY DEF Reread, Adopt, Ensure, Check, Step
<1>2. run' \in [Process -> Run]
  BY <1>1, Moves
<1>3. UNCHANGED <<config, cloud, journal, history, bounds>>
  BY DEF Reread, Adopt, Ensure, Check
<1> QED BY <1>2, <1>3 DEF TypeOK, history, bounds

(* The steps that write to the record or remove it.                        *)
LEMMA JournalTypes ==
  ASSUME TypeOK, NEW p \in Process,
         \/ Clear(p) \/ Reserve(p) \/ Fill(p) \/ Remove(p) \/ Note(p)
         \/ Pend(p) \/ Retain(p) \/ Finish(p)
  PROVE  TypeOK'
<1>1. \E s \in Step : Go(p, s) \/ End(p)
  BY DEF Clear, Reserve, Fill, Remove, Note, Pend, Retain, Finish, Step
<1>2. run' \in [Process -> Run]
  BY <1>1, Moves
<1>3. journal' \in Journal \union {NoFile, Torn}
  BY RecordTypes
     DEF TypeOK, Clear, Reserve, Fill, Remove, Note, Pend, Retain, Finish, State
<1>4. lost' \in SUBSET Id /\ raced' \in BOOLEAN
  <2>1. CASE Clear(p)
    BY <2>1 DEF Clear, TypeOK
  <2>2. CASE ~Clear(p)
    BY <2>2 DEF TypeOK, Reserve, Fill, Remove, Note, Pend, Retain, Finish, history
  <2> QED BY <2>1, <2>2
<1>5. UNCHANGED <<config, cloud, bounds>>
  BY DEF Clear, Reserve, Fill, Remove, Note, Pend, Retain, Finish
<1> QED BY <1>2, <1>3, <1>4, <1>5 DEF TypeOK, bounds

(* The steps that call Keystone.                                           *)
LEMMA CloudTypes ==
  ASSUME TypeOK, NEW p \in Process,
         Create(p) \/ CreateFails(p) \/ Revoke(p) \/ RevokeFails(p)
  PROVE  TypeOK'
<1>1. CASE Create(p)
  <2>1. NewId \in Id
    BY <1>1, NewIdIs DEF Create
  <2>2. run' \in [Process -> Run]
    BY <1>1, <2>1 DEF Create, TypeOK, Run, Step
  <2> QED BY <1>1, <2>1, <2>2 DEF Create, TypeOK, history, bounds
<1>2. CASE CreateFails(p)
  <2>1. run' \in [Process -> Run]
    BY <1>2, Moves DEF CreateFails, Step
  <2>2. cloud' \in SUBSET Id /\ lost' \in SUBSET Id
    BY <1>2, NewIdIs DEF CreateFails, TypeOK
  <2> QED BY <1>2, <2>1, <2>2, StorageAssumption DEF CreateFails, TypeOK
<1>3. CASE Revoke(p)
  <2>1. run' \in [Process -> Run]
    BY <1>3, Moves DEF Revoke, Step
  <2> QED BY <1>3, <2>1 DEF Revoke, TypeOK, bounds
<1>4. CASE RevokeFails(p)
  <2>1. run' \in [Process -> Run]
    BY <1>4, Moves DEF RevokeFails, Unrevoked, Step
  <2>2. cloud' \in SUBSET Id /\ lost' \in SUBSET Id
    BY <1>4 DEF RevokeFails, TypeOK
  <2> QED BY <1>4, <2>1, <2>2, StorageAssumption DEF RevokeFails, TypeOK
<1> QED BY <1>1, <1>2, <1>3, <1>4

LEMMA PersistTypes ==
  ASSUME TypeOK, NEW p \in Process, Persist(p)
  PROVE  TypeOK'
<1>1. run' \in [Process -> Run]
  BY Moves DEF Persist, Step
<1>2. config' \in Config
  BY DEF Persist, Prospective, TypeOK, Run, Config
<1>3. raced' \in BOOLEAN
  BY DEF Persist
<1> QED BY <1>1, <1>2, <1>3 DEF Persist, TypeOK, bounds

LEMMA StartTypes ==
  ASSUME TypeOK, NEW p \in Process, NEW r \in BOOLEAN, Start(p, r)
  PROVE  TypeOK'
<1>1. run' \in [Process -> Run]
  BY StorageAssumption DEF Start, TypeOK, Run, Step
<1>2. rotations' \in 0..MaxRotations
  BY StorageAssumption DEF Start, TypeOK
<1> QED BY <1>1, <1>2 DEF Start, TypeOK, history

LEMMA OtherTypes ==
  ASSUME TypeOK, (\E p \in Process : Stop(p)) \/ Edit \/ Resolve
  PROVE  TypeOK'
<1>1. ASSUME NEW p \in Process, Stop(p) PROVE TypeOK'
  <2>1. run' \in [Process -> Run]
    BY <1>1, Moves DEF Stop, Step
  <2> QED BY <1>1, <2>1, StorageAssumption DEF Stop, TypeOK, history
<1>2. CASE Edit
  <2>1. edits' \in 0..MaxEdits
    BY <1>2, StorageAssumption DEF Edit, TypeOK
  <2>2. config' \in Config
    BY <1>2, <2>1 DEF Edit, TypeOK, Config
  <2> QED BY <1>2, <2>1, <2>2 DEF Edit, TypeOK, history
<1>3. CASE Resolve
  BY <1>3 DEF Resolve, TypeOK, bounds
<1> QED BY <1>1, <1>2, <1>3

LEMMA TypeStep == TypeOK /\ [Next]_vars => TypeOK'
<1> SUFFICES ASSUME TypeOK, [Next]_vars PROVE TypeOK'
  OBVIOUS
<1>1. CASE UNCHANGED vars
  BY <1>1 DEF vars, TypeOK
<1>2. ASSUME NEW p \in Process, Goes(p) PROVE TypeOK'
  BY <1>2, ReadTypes, JournalTypes, CloudTypes, PersistTypes DEF Goes
<1> QED BY <1>1, <1>2, StartTypes, CloudTypes, OtherTypes DEF Next

-----------------------------------------------------------------------------
(* What an apply was planned for stays so.                                 *)

LEMMA PlannedStep ==
  ASSUME TypeOK, \A q \in Process : Planned(run[q]), [Next]_vars
  PROVE  \A q \in Process : Planned(run'[q])
<1>1. ASSUME NEW p \in Process, NEW s \in Step, Go(p, s) \/ End(p),
             run[p].step # "idle", s = "pend" => Needs(run[p])
      PROVE  \A q \in Process : Planned(run'[q])
  <2>1. run[p] \in Run
    BY DEF TypeOK
  <2>2. Planned(run'[p])
    <3>1. Planned([run[p] EXCEPT !.step = s])
      BY <1>1, <2>1 DEF Planned, Run, Needs, Complete
    <3>2. Planned(Idle)
      BY DEF Planned, Idle
    <3> QED BY <1>1, <3>1, <3>2, Moves
  <2> QED BY <1>1, <2>2, Moves
<1>2. ASSUME NEW p \in Process, NEW r \in BOOLEAN, Start(p, r)
      PROVE  \A q \in Process : Planned(run'[q])
  BY <1>2 DEF Start, Planned, TypeOK
<1>3. ASSUME NEW p \in Process, Create(p)
      PROVE  \A q \in Process : Planned(run'[q])
  BY <1>3 DEF Create, Planned, TypeOK, Run
<1>4. ASSUME NEW p \in Process, Goes(p) \/ CreateFails(p) \/ RevokeFails(p) \/ Stop(p)
      PROVE  \A q \in Process : Planned(run'[q])
  <2>1. \/ Create(p)
        \/ \E s \in Step : /\ Go(p, s) \/ End(p)
                           /\ run[p].step # "idle" /\ (s = "pend" => Needs(run[p]))
    BY <1>4
       DEF Goes, Reread, Adopt, Clear, Ensure, Reserve, Fill, Remove, Note, Check,
           Persist, Pend, Revoke, Retain, Finish, CreateFails, RevokeFails, Unrevoked,
           Stop, Step
  <2> QED BY <1>1, <1>3, <2>1
<1>5. CASE UNCHANGED run
  BY <1>5
<1> QED BY <1>2, <1>4, <1>5 DEF Next, Edit, Resolve, vars

-----------------------------------------------------------------------------
(* Custody.                                                                *)

(* A step after which nobody holds the record who did not before, and      *)
(* nothing that the holders rely on has changed.                           *)
LEMMA Unmoved ==
  ASSUME Custody,
         \A q \in Process : Holds(q)' => Holds(q) /\ run'[q] = run[q],
         config'.id = config.id, config'.secret = config.secret,
         UNCHANGED <<cloud, lost, journal>>
  PROVE  Custody'
BY DEF Custody, Accounted, Created, Configured, Loose, Old

(* A step of an apply beside which nobody has the record.                  *)
LEMMA Alone ==
  ASSUME NEW p \in Process, \A q \in Process \ {p} : ~Holds(q),
         \A q \in Process \ {p} : run'[q] = run[q],
         Holds(p)' => journal' # NoFile /\ Accounted(p)',
         journal' = NoFile => (Loose = {})'
  PROVE  Custody'
<1>1. \A q \in Process \ {p} : ~Holds(q)'
  BY DEF Holds, Needs, Complete
<1> QED BY <1>1 DEF Custody

LEMMA OnlyHolder ==
  ASSUME Custody, NEW p \in Process, Holds(p)
  PROVE  /\ \A q \in Process \ {p} : ~Holds(q)
         /\ journal # NoFile /\ Accounted(p)
BY DEF Custody

LEMMA StartCustody ==
  ASSUME TypeOK, Custody, NEW p \in Process, NEW r \in BOOLEAN, Start(p, r)
  PROVE  Custody'
<1>1. \A q \in Process : Holds(q)' => Holds(q) /\ run'[q] = run[q]
  BY DEF Start, TypeOK, Holds, Needs
<1> QED BY <1>1, Unmoved DEF Start, history

(* An apply that goes on or ends without a record, and one that ends and   *)
(* leaves its record.                                                      *)
LEMMA LeaveCustody ==
  ASSUME TypeOK, Custody, NEW p \in Process, NEW s \in Step, Go(p, s) \/ End(p),
         Go(p, s) => s \in {"adopt", "clear", "ensure"}
                       \/ (s \in {"check", "persist"} /\ ~Needs(run[p])),
         config'.id = config.id, config'.secret = config.secret,
         UNCHANGED <<cloud, lost, journal>>
  PROVE  Custody'
<1>1. ~Holds(p)'
  <2>1. run[p] \in Run
    BY DEF TypeOK
  <2>2. CASE Go(p, s)
    <3>1. run'[p] = [run[p] EXCEPT !.step = s]
      BY <2>2, Moves
    <3>2. Needs(run'[p]) = Needs(run[p]) /\ run'[p].step = s
      BY <2>1, <3>1 DEF Needs, Complete, Run
    <3> QED BY <2>2, <3>2 DEF Holds
  <2>3. CASE End(p)
    <3>1. run'[p] = Idle
      BY <2>3, Moves
    <3> QED BY <3>1 DEF Idle, Holds
  <2> QED BY <2>2, <2>3
<1>2. \A q \in Process : Holds(q)' => Holds(q) /\ run'[q] = run[q]
  BY <1>1, Moves DEF Holds, Needs
<1> QED BY <1>2, Unmoved

LEMMA ReadCustody ==
  ASSUME TypeOK, Custody, NEW p \in Process, Reread(p) \/ Adopt(p) \/ Ensure(p)
  PROVE  Custody'
<1>1. UNCHANGED <<config, cloud, lost, journal>>
  BY DEF Reread, Adopt, Ensure, history
<1>2. \E s \in Step :
        /\ Go(p, s) \/ End(p)
        /\ s \in {"adopt", "clear", "ensure"}
             \/ (s \in {"check", "persist"} /\ ~Needs(run[p]))
  BY DEF Reread, Adopt, Ensure, Step
<1> QED BY <1>1, <1>2, LeaveCustody

(* A record that is cleared or resolved leaves nothing loose.              *)
LEMMA ClearCustody ==
  ASSUME TypeOK, Custody, NEW p \in Process, Clear(p), ~raced'
  PROVE  Custody'
<1>1. \A q \in Process \ {p} : ~Holds(q)
  BY DEF Clear, AtWork, Holds
<1>2. \A q \in Process \ {p} : run'[q] = run[q]
  BY Moves DEF Clear, Step
<1>3. ~Holds(p)'
  <2>1. run[p] \in Run
    BY DEF TypeOK
  <2>2. run'[p] = Idle \/ run'[p] = [run[p] EXCEPT !.step = "ensure"]
    BY Moves DEF Clear, Step
  <2>3. run'[p].step \in {"ensure", "idle"}
    BY <2>1, <2>2 DEF Run, Idle
  <2> QED BY <2>3 DEF Holds
<1>4. (Loose = {})'
  BY DEF Clear, Loose
<1> QED BY <1>1, <1>2, <1>3, <1>4, Alone

LEMMA ResolveCustody ==
  ASSUME Custody, Resolve
  PROVE  Custody'
<1>1. \A q \in Process : ~Holds(q)'
  BY DEF Resolve, AtWork, Holds, Needs
<1>2. (Loose = {})'
  BY DEF Resolve, Loose
<1> QED BY <1>1, <1>2 DEF Custody

LEMMA ReserveCustody ==
  ASSUME TypeOK, Custody, NEW p \in Process, Reserve(p)
  PROVE  Custody'
<1>1. CASE journal = NoFile
  <2>1. \A q \in Process : ~Holds(q)
    BY <1>1 DEF Custody
  <2>2. /\ \A q \in Process \ {p} : run'[q] = run[q]
        /\ run'[p].step = "fill"
    BY <1>1 DEF Reserve, Go, TypeOK, Run
  <2>3. journal' # NoFile /\ (Loose = {})'
    BY <1>1, StorageAssumption DEF Reserve, Custody, Loose, history
  <2>4. Accounted(p)'
    BY <2>2, <2>3 DEF Accounted
  <2> QED BY <2>1, <2>2, <2>3, <2>4, Alone
<1>2. CASE journal # NoFile
  <2>1. End(p) /\ UNCHANGED <<config, cloud, lost, journal>>
    BY <1>2 DEF Reserve, history
  <2> QED BY <2>1, LeaveCustody DEF Step
<1> QED BY <1>1, <1>2

(* The holder that only goes on, with the record or with no news.          *)
LEMMA HolderGoes ==
  ASSUME TypeOK, Custody, NEW p \in Process, Holds(p), NEW s \in Step, Go(p, s),
         journal' # NoFile,
         run'[p] = [run[p] EXCEPT !.step = s] => Accounted(p)'
  PROVE  Custody'
<1>1. /\ \A q \in Process \ {p} : run'[q] = run[q]
      /\ run'[p] = [run[p] EXCEPT !.step = s]
  BY Moves
<1> QED BY <1>1, OnlyHolder, Alone

(* The record that an apply writes is one.                                 *)
LEMMA Recorded ==
  ASSUME TypeOK, NEW p \in Process, NEW s \in State, Record(p, s)
  PROVE  journal' # NoFile
BY RecordTypes, StorageAssumption

LEMMA FillCustody ==
  ASSUME TypeOK, Custody, NEW p \in Process, Fill(p)
  PROVE  Custody'
<1>1. Holds(p) /\ Loose = {}
  BY OnlyHolder DEF Fill, Holds, Accounted
<1>2. journal' # NoFile
  BY Recorded DEF Fill, State
<1>3. ASSUME run'[p] = [run[p] EXCEPT !.step = "create"] PROVE Accounted(p)'
  BY <1>1, <1>3 DEF Fill, Accounted, Loose, history, TypeOK, Run
<1> QED BY <1>1, <1>2, <1>3, HolderGoes DEF Fill, Step

LEMMA CreateCustody ==
  ASSUME TypeOK, Custody, NEW p \in Process, Create(p)
  PROVE  Custody'
<1>1. Holds(p) /\ Loose = {}
  BY OnlyHolder DEF Create, Holds, Accounted
<1>2. NewId \in Id /\ NewId # run[p].current.id
  <2> DEFINE theirs == {{run[q].new, run[q].current.id, run[q].current.secret} :
                          q \in Process}
  <2>1. run[p].current.id \in UNION theirs
    OBVIOUS
  <2>2. UNION theirs \subseteq Mentioned
    BY DEF Mentioned
  <2> QED BY <2>1, <2>2, NewIdIs DEF Create
<1>3. /\ run'[p].step = "note" /\ run'[p].new = NewId
      /\ run'[p].current = run[p].current
      /\ \A q \in Process \ {p} : run'[q] = run[q]
  <2>1. run[p] \in Run
    BY DEF TypeOK
  <2>2. /\ run'[p] = [run[p] EXCEPT !.new = NewId, !.step = "note"]
        /\ \A q \in Process \ {p} : run'[q] = run[q]
    BY DEF Create, TypeOK
  <2> QED BY <2>1, <2>2 DEF Run
<1>4. Accounted(p)'
  <2>1. cloud' = cloud \union {NewId} /\ UNCHANGED <<config, lost>>
    BY DEF Create, history
  <2>2. Loose' \subseteq {run'[p].new}
    BY <1>1, <1>3, <2>1 DEF Loose
  <2>3. Created(p)'
    BY <1>2, <1>3, <2>1 DEF Created, Old
  <2> QED BY <1>3, <2>2, <2>3 DEF Accounted
<1>5. journal' # NoFile
  BY <1>1, OnlyHolder DEF Create
<1> QED BY <1>1, <1>3, <1>4, <1>5, OnlyHolder, Alone

LEMMA CreateFailsCustody ==
  ASSUME TypeOK, Custody, NEW p \in Process, CreateFails(p)
  PROVE  Custody'
<1>1. Holds(p) /\ Loose = {} /\ journal # NoFile
  BY OnlyHolder DEF CreateFails, Holds, Accounted
<1>2. (Loose = {})'
  BY <1>1 DEF CreateFails, Loose
<1>3. ASSUME run'[p] = [run[p] EXCEPT !.step = "unreserve"] PROVE Accounted(p)'
  BY <1>2, <1>3 DEF Accounted, TypeOK, Run
<1> QED BY <1>1, <1>3, HolderGoes DEF CreateFails, Step

LEMMA RemoveCustody ==
  ASSUME TypeOK, Custody, NEW p \in Process, Remove(p)
  PROVE  Custody'
<1>1. Holds(p) /\ Loose = {}
  BY OnlyHolder DEF Remove, Holds, Accounted
<1>2. /\ run'[p] = Idle
      /\ \A q \in Process \ {p} : run'[q] = run[q]
  BY Moves DEF Remove, Step
<1>3. ~Holds(p)'
  BY <1>2 DEF Idle, Holds
<1>4. (Loose = {})'
  BY <1>1 DEF Remove, Loose, history
<1> QED BY <1>1, <1>2, <1>3, <1>4, OnlyHolder, Alone

LEMMA NoteCustody ==
  ASSUME TypeOK, Custody, NEW p \in Process, Note(p)
  PROVE  Custody'
<1>1. Holds(p) /\ Created(p) /\ Loose \subseteq {run[p].new}
  BY OnlyHolder DEF Note, Holds, Accounted
<1>2. journal' # NoFile
  BY Recorded DEF Note, State
<1>3. ASSUME run'[p] = [run[p] EXCEPT !.step = "check"] PROVE Accounted(p)'
  BY <1>1, <1>3 DEF Note, Accounted, Created, Old, Loose, history, TypeOK, Run
<1> QED BY <1>1, <1>2, <1>3, HolderGoes DEF Note, Step

LEMMA CheckCustody ==
  ASSUME TypeOK, Custody, NEW p \in Process, Check(p)
  PROVE  Custody'
<1>1. UNCHANGED <<config, cloud, lost, journal>>
  BY DEF Check, history
<1>2. CASE End(p)
  BY <1>1, <1>2, LeaveCustody DEF Step
<1>3. CASE ~Needs(run[p]) /\ Go(p, "persist")
  BY <1>1, <1>3, LeaveCustody DEF Step
<1>4. CASE Needs(run[p]) /\ Go(p, "persist")
  <2>1. Holds(p) /\ Created(p) /\ Loose \subseteq {run[p].new} /\ journal # NoFile
    BY <1>4, OnlyHolder DEF Check, Holds, Accounted
  <2>2. ASSUME run'[p] = [run[p] EXCEPT !.step = "persist"] PROVE Accounted(p)'
    BY <1>1, <2>1, <2>2 DEF Accounted, Created, Old, Loose, TypeOK, Run
  <2> QED BY <1>1, <1>4, <2>1, <2>2, HolderGoes DEF Step
<1> QED BY <1>2, <1>3, <1>4 DEF Check

(* What is persisted replaces what the apply was planned from, unless it   *)
(* overwrites the work of another.                                         *)
LEMMA PersistCustody ==
  ASSUME TypeOK, Custody, NEW p \in Process, Persist(p), ~raced'
  PROVE  Custody'
<1>1. config = run[p].current
  BY DEF Persist
<1>2. CASE ~Needs(run[p])
  <2>1. config'.id = config.id /\ config'.secret = config.secret
    BY <1>1, <1>2 DEF Persist, Prospective, TypeOK, Config
  <2> QED BY <1>2, <2>1, LeaveCustody DEF Persist, Step
<1>3. CASE Needs(run[p])
  <2>1. Holds(p) /\ Created(p) /\ Loose \subseteq {run[p].new} /\ journal # NoFile
    BY <1>3, OnlyHolder DEF Persist, Holds, Accounted
  <2>2. config'.id = run[p].new /\ config'.secret = run[p].new
    BY <1>1, <1>3 DEF Persist, Prospective, TypeOK, Config
  <2>3. ASSUME run'[p] = [run[p] EXCEPT !.step = "pend"] PROVE Accounted(p)'
    <3>1. /\ run'[p].step = "pend" /\ run'[p].new = run[p].new
          /\ run'[p].current = run[p].current
      BY <2>3 DEF TypeOK, Run
    <3>2. Loose' \subseteq {config.id}
      BY <2>1, <2>2 DEF Persist, Loose
    <3> QED BY <1>1, <2>1, <2>2, <3>1, <3>2
            DEF Persist, Accounted, Created, Configured, Old
  <2> QED BY <1>3, <2>1, <2>3, HolderGoes DEF Persist, Step
<1> QED BY <1>2, <1>3

LEMMA PendCustody ==
  ASSUME TypeOK, Custody, NEW p \in Process, Planned(run[p]), Pend(p)
  PROVE  Custody'
<1>1. Holds(p) /\ Configured(p) /\ Loose \subseteq {Old(run[p])}
  BY OnlyHolder DEF Pend, Holds, Accounted
<1>2. journal' # NoFile
  BY Recorded DEF Pend, State
<1>3. UNCHANGED <<config, cloud, lost>>
  BY DEF Pend, history
<1>4. CASE run[p].rotate /\ Old(run[p]) # None
  <2>1. ASSUME run'[p] = [run[p] EXCEPT !.step = "revoke"] PROVE Accounted(p)'
    BY <1>1, <1>3, <2>1
       DEF Accounted, Created, Configured, Old, Loose, TypeOK, Run
  <2> QED BY <1>1, <1>2, <1>4, <2>1, HolderGoes DEF Pend, Step
<1>5. CASE ~(run[p].rotate /\ Old(run[p]) # None)
  <2>1. Old(run[p]) = None
    BY <1>5 DEF Pend, Planned, Blocked, Partial, Needs, Complete, Old
  <2>2. Loose = {}
    BY <1>1, <2>1, StorageAssumption DEF Loose, TypeOK
  <2>3. ASSUME run'[p] = [run[p] EXCEPT !.step = "finish"] PROVE Accounted(p)'
    BY <1>1, <1>3, <2>2, <2>3
       DEF Accounted, Created, Configured, Old, Loose, TypeOK, Run
  <2> QED BY <1>1, <1>2, <1>5, <2>3, HolderGoes DEF Pend, Step
<1> QED BY <1>4, <1>5

LEMMA RevokeCustody ==
  ASSUME TypeOK, Custody, NEW p \in Process, Revoke(p)
  PROVE  Custody'
<1>1. Holds(p) /\ Configured(p) /\ Loose \subseteq {Old(run[p])} /\ journal # NoFile
  BY OnlyHolder DEF Revoke, Holds, Accounted
<1>2. (Loose = {})'
  BY <1>1 DEF Revoke, Loose
<1>3. ASSUME run'[p] = [run[p] EXCEPT !.step = "finish"] PROVE Accounted(p)'
  BY <1>1, <1>2, <1>3
     DEF Revoke, Accounted, Created, Configured, Old, TypeOK, Run
<1> QED BY <1>1, <1>3, HolderGoes DEF Revoke, Step

LEMMA RevokeFailsCustody ==
  ASSUME TypeOK, Custody, NEW p \in Process, RevokeFails(p)
  PROVE  Custody'
<1>1. Holds(p) /\ Configured(p) /\ Loose \subseteq {Old(run[p])} /\ journal # NoFile
  BY OnlyHolder DEF RevokeFails, Holds, Accounted
<1>2. /\ Loose' \subseteq Loose
      /\ run[p].new \in cloud'
      /\ UNCHANGED config
  BY <1>1 DEF RevokeFails, Loose, Configured, Created
<1>3. ASSUME run'[p] = [run[p] EXCEPT !.step = "retain"] PROVE Accounted(p)'
  <2>1. /\ run'[p].step = "retain" /\ run'[p].new = run[p].new
        /\ run'[p].current = run[p].current
    BY <1>3 DEF TypeOK, Run
  <2> QED BY <1>1, <1>2, <2>1 DEF Accounted, Created, Configured, Old
<1> QED BY <1>1, <1>3, HolderGoes DEF RevokeFails, Unrevoked, Step

LEMMA FinishCustody ==
  ASSUME TypeOK, Custody, NEW p \in Process, Finish(p)
  PROVE  Custody'
<1>1. Holds(p) /\ Configured(p) /\ Loose = {}
  BY OnlyHolder DEF Finish, Holds, Accounted
<1>2. journal' # NoFile
  BY Recorded DEF Finish, State
<1>3. ASSUME run'[p] = [run[p] EXCEPT !.step = "remove"] PROVE Accounted(p)'
  BY <1>1, <1>3
     DEF Finish, Accounted, Created, Configured, Old, Loose, history, TypeOK, Run
<1> QED BY <1>1, <1>2, <1>3, HolderGoes DEF Finish, Step

(* The record that tells of the failure stays behind.                      *)
LEMMA RetainCustody ==
  ASSUME TypeOK, Custody, NEW p \in Process, Retain(p)
  PROVE  Custody'
<1>1. Holds(p)
  BY DEF Retain, Holds
<1>2. journal' # NoFile
  BY Recorded DEF Retain, State
<1>3. /\ run'[p] = Idle
      /\ \A q \in Process \ {p} : run'[q] = run[q]
  BY Moves DEF Retain, Step
<1>4. ~Holds(p)'
  BY <1>3 DEF Idle, Holds
<1> QED BY <1>1, <1>2, <1>3, <1>4, OnlyHolder, Alone

LEMMA StopCustody ==
  ASSUME TypeOK, Custody, NEW p \in Process, Stop(p)
  PROVE  Custody'
BY LeaveCustody DEF Stop, history, Step

LEMMA EditCustody ==
  ASSUME TypeOK, Custody, Edit
  PROVE  Custody'
<1>1. config'.id = config.id /\ config'.secret = config.secret
  BY DEF Edit, TypeOK, Config
<1>2. \A q \in Process : Holds(q)' => Holds(q) /\ run'[q] = run[q]
  BY DEF Edit, Holds, Needs
<1> QED BY <1>1, <1>2, Unmoved DEF Edit, history

LEMMA StorageStep == StorageInv /\ [Next]_vars => StorageInv'
<1> SUFFICES ASSUME StorageInv, [Next]_vars PROVE StorageInv'
  OBVIOUS
<1>1. TypeOK' /\ \A q \in Process : Planned(run'[q])
  BY TypeStep, PlannedStep DEF StorageInv
<1>2. raced => raced'
  BY DEF Next, Goes, Start, Reread, Adopt, Clear, Ensure, Reserve, Fill, Create, Remove,
         Note, Check, Persist, Pend, Revoke, Retain, Finish, CreateFails, RevokeFails,
         Stop, Edit, Resolve, vars, history
<1>3. ASSUME Custody, ~raced' PROVE Custody'
  <2> USE <1>3 DEF StorageInv
  <2>1. ASSUME NEW p \in Process, Goes(p) PROVE Custody'
    BY <2>1, ReadCustody, ClearCustody, ReserveCustody, FillCustody, CreateCustody,
       RemoveCustody, NoteCustody, CheckCustody, PersistCustody, PendCustody,
       RevokeCustody, RetainCustody, FinishCustody DEF Goes
  <2>2. CASE UNCHANGED vars
    BY <2>2 DEF vars, Custody, Holds, Accounted, Created, Configured, Loose
  <2> QED BY <2>1, <2>2, StartCustody, CreateFailsCustody, RevokeFailsCustody,
             StopCustody, EditCustody, ResolveCustody DEF Next
<1> QED BY <1>1, <1>2, <1>3 DEF StorageInv

LEMMA StorageInvariant == Spec => []StorageInv
BY InitOK, StorageStep, PTL DEF Spec

-----------------------------------------------------------------------------
(* Configuration, record and the state of every apply are well-typed in    *)
(* every reachable state.                                                  *)
THEOREM StorageTypes == Spec => []TypeOK
BY StorageInvariant, PTL DEF StorageInv

(* Whatever failed or was killed, a credential that is alive when there is *)
(* no record and no apply at work is the configured one, or one of the     *)
(* named exceptions.                                                       *)
THEOREM NoneForgotten == Spec => []NothingForgotten
<1>1. StorageInv => NothingForgotten
  BY DEF StorageInv, Custody, Loose, NothingForgotten
<1> QED BY <1>1, StorageInvariant, PTL

(* Without a race, every step that writes to Keystone or to the file       *)
(* leaves a usable credential.                                             *)
LEMMA UsableStep ==
  ASSUME StorageInv, [Next]_vars, Usable(config, cloud), ~raced'
  PROVE  Usable(config', cloud')
<1> USE DEF Usable, Complete
<1>1. CASE config' = config /\ cloud \subseteq cloud'
  BY <1>1
<1>2. ASSUME NEW p \in Process, Persist(p) PROVE Usable(config', cloud')
  <2>1. config = run[p].current /\ ~raced
    BY <1>2 DEF Persist
  <2>2. CASE ~Needs(run[p])
    BY <1>2, <2>1, <2>2 DEF Persist, Prospective, StorageInv, TypeOK, Config
  <2>3. CASE Needs(run[p])
    <3>1. Created(p)
      BY <1>2, <2>1, <2>3 DEF StorageInv, Custody, Holds, Accounted, Persist
    <3>2. config'.id = run[p].new /\ config'.secret = run[p].new
      BY <1>2, <2>1, <2>3 DEF Persist, Prospective, StorageInv, TypeOK, Config
    <3>3. run[p].new # None
      BY <3>1, StorageAssumption DEF Created, StorageInv, TypeOK
    <3> QED BY <1>2, <3>1, <3>2, <3>3 DEF Persist, Created
  <2> QED BY <2>2, <2>3
<1>3. ASSUME NEW p \in Process, Revoke(p) \/ RevokeFails(p)
      PROVE  Usable(config', cloud')
  <2>1. ~raced
    BY <1>3 DEF Revoke, RevokeFails
  <2>2. Configured(p)
    BY <1>3, <2>1 DEF StorageInv, Custody, Holds, Accounted, Revoke, RevokeFails
  <2>3. config.id # Old(run[p])
    BY <2>2 DEF Configured, Created
  <2> QED BY <1>3, <2>3 DEF Revoke, RevokeFails
<1>4. CASE Resolve
  BY <1>4 DEF Resolve
<1>5. CASE Edit
  BY <1>5 DEF Edit, StorageInv, TypeOK, Config, history
<1>6. ASSUME NEW p \in Process, Goes(p) PROVE Usable(config', cloud')
  BY <1>1, <1>2, <1>3, <1>6
     DEF Goes, Reread, Adopt, Clear, Ensure, Reserve, Fill, Create, Remove,
         Note, Check, Pend, Retain, Finish
<1> QED BY <1>1, <1>3, <1>4, <1>5, <1>6
        DEF Next, Start, CreateFails, Stop, vars

(* The credential in the configuration file is not revoked by any apply,   *)
(* and what replaces it works: only an apply that undoes the work of       *)
(* another can break a service.                                            *)
THEOREM StaysUsable == Spec => KeepsUsable
<1>1. StorageInv /\ [Next]_vars
        => [Usable(config, cloud) => Usable(config', cloud') \/ raced']_vars
  BY UsableStep
<1> QED BY <1>1, StorageInvariant, PTL DEF Spec, KeepsUsable
=============================================================================

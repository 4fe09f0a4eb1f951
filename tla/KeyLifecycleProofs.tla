------------------------- MODULE KeyLifecycleProofs -------------------------
(***************************************************************************)
(* KeyRegistry and KeyLifecycle for any number of keys, groups, rules and  *)
(* manifests.  First the registry alone: its invariants, and that it       *)
(* implements KeyRing.  Then the commands, any number at a time: their     *)
(* types, and that they move the registry only as it allows.  Last, what   *)
(* commands that do not overlap do to the files of their cluster.          *)
(***************************************************************************)
EXTENDS KeyLifecycle, TLAPS

(***************************************************************************)
(* The registry.                                                           *)
(***************************************************************************)

(* The inductive invariant: the checked invariants, and that a key without *)
(* an entry has no history.                                                *)
RegInv == RegistryTypeOK /\ OnePrimary /\ SomeRecipient /\ Lineage

USE GroupAssumption

LEMMA InitRegInv == RegistryInit => RegInv
  BY DEF RegistryInit, RegInv, RegistryTypeOK, OnePrimary, SomeRecipient, Lineage, Active

-----------------------------------------------------------------------------
(* Each method keeps the types.                                            *)

LEMMA TypeStep == RegistryTypeOK /\ [RegistryNext]_regVars => RegistryTypeOK'
<1> SUFFICES ASSUME RegistryTypeOK, [RegistryNext]_regVars PROVE RegistryTypeOK'
  OBVIOUS
<1> USE DEF RegistryTypeOK, Save, Inactive
<1>1. ASSUME NEW k \in Key, RegisterKey(k) PROVE RegistryTypeOK'
  BY <1>1 DEF RegisterKey
<1>2. ASSUME NEW k \in Key, RegisterPrimary(k) PROVE RegistryTypeOK'
  BY <1>2 DEF RegisterPrimary
<1>3. ASSUME NEW k \in Key, SetPrimaryKey(k) PROVE RegistryTypeOK'
  BY <1>3 DEF SetPrimaryKey
<1>4. ASSUME NEW old \in Key, NEW k \in Key, NEW s \in {"active", "archived"},
             ReplacePrimary(old, k, s)
      PROVE  RegistryTypeOK'
  BY <1>4 DEF ReplacePrimary
<1>5. ASSUME NEW K \in SUBSET Key, NEW s \in Inactive, UpdateKeys(K, s)
      PROVE  RegistryTypeOK'
  BY <1>5 DEF UpdateKeys, RolesCleared
<1>6. ASSUME NEW k \in Key, NEW s \in Inactive, UpdateKeyStatus(k, s)
      PROVE  RegistryTypeOK'
  BY <1>5, <1>6 DEF UpdateKeyStatus
<1>7. CASE UNCHANGED regVars
  BY <1>7 DEF regVars
<1> QED
  BY <1>1, <1>2, <1>3, <1>4, <1>5, <1>6, <1>7 DEF RegistryNext

(* Each method keeps at most one primary in a group, and that one active.  *)
LEMMA PrimaryStep ==
  RegistryTypeOK /\ OnePrimary /\ [RegistryNext]_regVars => OnePrimary'
<1> SUFFICES ASSUME RegistryTypeOK, OnePrimary, [RegistryNext]_regVars PROVE OnePrimary'
  OBVIOUS
<1> USE DEF RegistryTypeOK, OnePrimary, Save, Active
<1>1. ASSUME NEW k \in Key, RegisterKey(k) PROVE OnePrimary'
  BY <1>1 DEF RegisterKey, Unregistered
<1>2. ASSUME NEW k \in Key, RegisterPrimary(k) PROVE OnePrimary'
  BY <1>2 DEF RegisterPrimary, RoleFree, PrimariesBeside, Peers, Unregistered
<1>3. ASSUME NEW k \in Key, SetPrimaryKey(k) PROVE OnePrimary'
  BY <1>3 DEF SetPrimaryKey, Peers
<1>4. ASSUME NEW old \in Key, NEW k \in Key, NEW s \in {"active", "archived"},
             ReplacePrimary(old, k, s)
      PROVE  OnePrimary'
  <2>1. old # k
    BY <1>4 DEF ReplacePrimary, CurrentPrimary, Unregistered
  <2>2. primary' \subseteq Active'
    BY <1>4, <2>1 DEF ReplacePrimary, Peers
  <2>3. \A i, j \in primary' : GroupOf[i] = GroupOf[j] => i = j
    BY <1>4 DEF ReplacePrimary, Peers
  <2> QED
    BY <2>2, <2>3
<1>5. ASSUME NEW K \in SUBSET Key, NEW s \in Inactive, UpdateKeys(K, s)
      PROVE  OnePrimary'
  BY <1>5 DEF UpdateKeys, RolesCleared
<1>6. ASSUME NEW k \in Key, NEW s \in Inactive, UpdateKeyStatus(k, s)
      PROVE  OnePrimary'
  BY <1>5, <1>6 DEF UpdateKeyStatus
<1>7. CASE UNCHANGED regVars
  BY <1>7 DEF regVars
<1> QED
  BY <1>1, <1>2, <1>3, <1>4, <1>5, <1>6, <1>7 DEF RegistryNext

(* Each method that writes the file has somebody to encrypt it to.         *)
LEMMA RecipientStep ==
  RegistryTypeOK /\ SomeRecipient /\ [RegistryNext]_regVars => SomeRecipient'
<1> SUFFICES ASSUME RegistryTypeOK, SomeRecipient, [RegistryNext]_regVars PROVE SomeRecipient'
  OBVIOUS
<1>1. ASSUME NEW newStatus, Save(newStatus) PROVE SomeRecipient'
  BY <1>1 DEF Save, SaveAllowed, SomeRecipient, Active
<1>2. CASE RegistryNext
  <2>1. \E newStatus : Save(newStatus)
    BY <1>2 DEF RegistryNext, RegisterKey, RegisterPrimary, SetPrimaryKey,
                ReplacePrimary, UpdateKeys, UpdateKeyStatus
  <2> QED
    BY <1>1, <2>1
<1>3. CASE UNCHANGED regVars
  BY <1>3 DEF regVars, SomeRecipient, Active
<1> QED
  BY <1>2, <1>3

(* A rotation links a key never seen before, and so nobody's predecessor,  *)
(* to a registered one, and no method removes an entry.                    *)
LEMMA LineageStep == RegistryTypeOK /\ Lineage /\ [RegistryNext]_regVars => Lineage'
<1> SUFFICES ASSUME RegistryTypeOK, Lineage, [RegistryNext]_regVars PROVE Lineage'
  OBVIOUS
<1> USE DEF RegistryTypeOK, Save, Unregistered, Inactive
<1>1. ASSUME NEW k \in Key, RegisterKey(k) PROVE Lineage'
  BY <1>1 DEF RegisterKey, Lineage
<1>2. ASSUME NEW k \in Key, RegisterPrimary(k) PROVE Lineage'
  BY <1>2 DEF RegisterPrimary, Lineage
<1>3. ASSUME NEW k \in Key, SetPrimaryKey(k) PROVE Lineage'
  BY <1>3 DEF SetPrimaryKey, Lineage
<1>4. ASSUME NEW old \in Key, NEW k \in Key, NEW s \in {"active", "archived"},
             ReplacePrimary(old, k, s)
      PROVE  Lineage'
  <2>1. /\ status[k] = "absent" /\ status[old] # "absent"
        /\ rotatedFrom' = [rotatedFrom EXCEPT ![k] = old]
        /\ GroupOf[old] = GroupOf[k]
        /\ status' = [status EXCEPT ![k] = "active", ![old] = s]
    BY <1>4 DEF ReplacePrimary, CurrentPrimary
  <2>2. \A j \in Key : rotatedFrom'[j] # NoKey =>
          /\ status'[j] # "absent" /\ status'[rotatedFrom'[j]] # "absent"
          /\ GroupOf[rotatedFrom'[j]] = GroupOf[j]
    BY <2>1 DEF Lineage
  <2>3. ASSUME NEW S \in SUBSET Key, S # {}
        PROVE  \E j \in S : rotatedFrom'[j] \notin S
    <3>1. CASE S = {k}
      <4>1. rotatedFrom'[k] = old /\ old # k
        BY <2>1
      <4> QED BY <3>1, <4>1
    <3>2. CASE S # {k}
      <4>1. PICK j \in S \ {k} : rotatedFrom[j] \notin S \ {k}
        <5>1. S \ {k} # {} /\ S \ {k} \in SUBSET Key
          BY <2>3, <3>2
        <5> QED BY <5>1 DEF Lineage
      <4>2. rotatedFrom[j] # k
        BY <2>1, <4>1 DEF Lineage
      <4>3. rotatedFrom'[j] = rotatedFrom[j]
        BY <2>1, <4>1
      <4> QED BY <4>1, <4>2, <4>3
    <3> QED BY <3>1, <3>2
  <2> QED BY <2>2, <2>3 DEF Lineage
<1>5. ASSUME NEW K \in SUBSET Key, NEW s \in Inactive, UpdateKeys(K, s)
      PROVE  Lineage'
  BY <1>5 DEF UpdateKeys, Lineage
<1>6. ASSUME NEW k \in Key, NEW s \in Inactive, UpdateKeyStatus(k, s)
      PROVE  Lineage'
  BY <1>5, <1>6 DEF UpdateKeyStatus
<1>7. CASE UNCHANGED regVars
  BY <1>7 DEF regVars, Lineage
<1> QED
  BY <1>1, <1>2, <1>3, <1>4, <1>5, <1>6, <1>7 DEF RegistryNext

(* The invariants of the registry hold together in every reachable state.  *)
THEOREM RegistryInvariant == RegistrySpec => []RegInv
<1>1. RegInv /\ [RegistryNext]_regVars => RegInv'
  BY TypeStep, PrimaryStep, RecipientStep, LineageStep DEF RegInv
<1> QED
  BY InitRegInv, <1>1, PTL DEF RegistrySpec

-----------------------------------------------------------------------------
(* The results a reader of registry.go relies on.                          *)

(* RegistryTypeOK, for every set of keys and groups.                               *)
THEOREM RegistryTypeCorrect == RegistrySpec => []RegistryTypeOK
  BY RegistryInvariant, PTL DEF RegInv

(* OnePrimary: at most one active key of a group is its primary, and the   *)
(* flag never stays on a retired key.                                      *)
THEOREM AtMostOnePrimary == RegistrySpec => []OnePrimary
  BY RegistryInvariant, PTL DEF RegInv

(* SomeRecipient: the registry file is always encrypted to somebody.       *)
THEOREM AlwaysRecipient == RegistrySpec => []SomeRecipient
  BY RegistryInvariant, PTL DEF RegInv

(* Lineage: rotations link registered keys of one group, and no chain of   *)
(* them, of whatever length, leads back to a key it has left.              *)
THEOREM LineageSound == RegistrySpec => []Lineage
  BY RegistryInvariant, PTL DEF RegInv

(* A retirement is overwritten only by a retirement.                       *)
LEMMA RetiredStep ==
  RegistryTypeOK /\ [RegistryNext]_regVars =>
    \A j \in Key : status[j] \in Inactive => status'[j] \in Inactive
<1> SUFFICES ASSUME RegistryTypeOK, [RegistryNext]_regVars, NEW j \in Key, status[j] \in Inactive
             PROVE  status'[j] \in Inactive
  OBVIOUS
<1> USE DEF RegistryTypeOK, Save, Unregistered, Inactive
<1>1. ASSUME NEW k \in Key, RegisterKey(k) \/ RegisterPrimary(k)
      PROVE  status'[j] \in Inactive
  BY <1>1 DEF RegisterKey, RegisterPrimary
<1>2. ASSUME NEW k \in Key, SetPrimaryKey(k) PROVE status'[j] \in Inactive
  BY <1>2 DEF SetPrimaryKey
<1>3. ASSUME NEW old \in Key, NEW k \in Key, NEW s \in {"active", "archived"},
             ReplacePrimary(old, k, s)
      PROVE  status'[j] \in Inactive
  BY <1>3 DEF ReplacePrimary, CurrentPrimary
<1>4. ASSUME NEW K \in SUBSET Key, NEW s \in Inactive, UpdateKeys(K, s)
      PROVE  status'[j] \in Inactive
  BY <1>4 DEF UpdateKeys
<1>5. ASSUME NEW k \in Key, NEW s \in Inactive, UpdateKeyStatus(k, s)
      PROVE  status'[j] \in Inactive
  BY <1>4, <1>5 DEF UpdateKeyStatus
<1>6. CASE UNCHANGED regVars
  BY <1>6 DEF regVars
<1> QED
  BY <1>1, <1>2, <1>3, <1>4, <1>5, <1>6 DEF RegistryNext

(* NoReinstatement: no method the commands call brings a fingerprint back. *)
THEOREM NeverReinstated == RegistrySpec => NoReinstatement
<1>1. RegistryTypeOK /\ [RegistryNext]_regVars =>
        [\A k \in Key : status[k] \in Inactive => status'[k] \in Inactive]_regVars
  BY RetiredStep
<1> QED
  BY RegistryTypeCorrect, <1>1, PTL DEF RegistrySpec, NoReinstatement

-----------------------------------------------------------------------------
(* Every method is one step of the contract.                               *)

LEMMA HolderIs ==
  ASSUME NEW K \in SUBSET Key, NEW k \in K,
         \A i, j \in K : GroupOf[i] = GroupOf[j] => i = j
  PROVE  HolderAmong(K, GroupOf[k]) = k
  BY DEF HolderAmong

LEMMA HolderNone ==
  ASSUME NEW K \in SUBSET Key, NEW g, \A k \in K : GroupOf[k] # g
  PROVE  HolderAmong(K, g) = NoKey
  BY DEF HolderAmong

(* Two sets that agree on a group have the same holder of it.              *)
LEMMA HolderSame ==
  ASSUME NEW K \in SUBSET Key, NEW L \in SUBSET Key, NEW g,
         \A k \in Key : GroupOf[k] = g => (k \in K <=> k \in L),
         \A i, j \in K : GroupOf[i] = GroupOf[j] => i = j
  PROVE  HolderAmong(K, g) = HolderAmong(L, g)
<1>1. CASE \E k \in K : GroupOf[k] = g
  <2>1. PICK k \in K : GroupOf[k] = g
    BY <1>1
  <2>2. \A j \in L : GroupOf[j] = g => j = k
    BY <2>1
  <2> QED
    BY <2>1, <2>2 DEF HolderAmong
<1>2. CASE ~ \E k \in K : GroupOf[k] = g
  BY <1>2 DEF HolderAmong
<1> QED
  BY <1>1, <1>2

(* What a step that gives k the role does to the holders.                  *)
LEMMA HolderTaken ==
  ASSUME RegistryTypeOK, OnePrimary, NEW k \in Key,
         primary' = (primary \ Peers(k)) \union {k}
  PROVE  [g \in Group |-> HolderAmong(primary', g)]
           = [[g \in Group |-> HolderAmong(primary, g)] EXCEPT ![GroupOf[k]] = k]
<1> USE DEF RegistryTypeOK, OnePrimary, Peers
<1>1. primary' \in SUBSET Key /\ k \in primary'
  OBVIOUS
<1>2. \A i, j \in primary' : GroupOf[i] = GroupOf[j] => i = j
  OBVIOUS
<1>3. HolderAmong(primary', GroupOf[k]) = k
  BY <1>1, <1>2, HolderIs
<1>4. ASSUME NEW g \in Group, g # GroupOf[k]
      PROVE  HolderAmong(primary', g) = HolderAmong(primary, g)
  <2>1. \A j \in Key : GroupOf[j] = g => (j \in primary' <=> j \in primary)
    BY <1>4
  <2> QED
    BY <2>1, <1>1, <1>2, HolderSame
<1> QED
  BY <1>3, <1>4

LEMMA HolderLeft ==
  ASSUME RegistryTypeOK, OnePrimary, NEW K \in SUBSET Key, primary' = primary \ K
  PROVE  [g \in Group |-> HolderAmong(primary', g)]
           = [g \in Group |->
                IF HolderAmong(primary, g) \in K \intersect Active
                THEN NoKey ELSE HolderAmong(primary, g)]
<1> USE DEF RegistryTypeOK, OnePrimary
<1> SUFFICES ASSUME NEW g \in Group
             PROVE  HolderAmong(primary', g) =
                      IF HolderAmong(primary, g) \in K \intersect Active
                      THEN NoKey ELSE HolderAmong(primary, g)
  OBVIOUS
<1>1. CASE \E k \in primary : GroupOf[k] = g
  <2>1. PICK k \in primary : GroupOf[k] = g
    BY <1>1
  <2>2. HolderAmong(primary, g) = k
    BY <2>1, HolderIs
  <2>3. CASE k \in K
    <3>1. HolderAmong(primary', g) = NoKey
      BY <2>1, <2>3, HolderNone
    <3> QED
      BY <2>2, <2>3, <3>1
  <2>4. CASE k \notin K
    <3>1. HolderAmong(primary', g) = k
      BY <2>1, <2>4, HolderIs
    <3> QED
      BY <2>2, <2>4, <3>1
  <2> QED
    BY <2>3, <2>4
<1>2. CASE ~ \E k \in primary : GroupOf[k] = g
  <2>1. HolderAmong(primary, g) = NoKey /\ HolderAmong(primary', g) = NoKey
    BY <1>2, HolderNone
  <2> QED
    BY <2>1
<1> QED
  BY <1>1, <1>2

LEMMA RingInit == RegistryInit => Ring!Init
  BY DEF RegistryInit, Ring!Init, Active, Retired, Inactive, HolderAmong

LEMMA RingStep ==
  RegistryTypeOK /\ OnePrimary /\ [RegistryNext]_regVars => [Ring!Next]_(Ring!ringVars)
<1> SUFFICES ASSUME RegistryTypeOK, OnePrimary, [RegistryNext]_regVars
             PROVE  Ring!Next \/ UNCHANGED Ring!ringVars
  OBVIOUS
<1> USE DEF RegistryTypeOK, Save, Active, Retired, Inactive
<1>1. ASSUME NEW k \in Key, RegisterKey(k) PROVE Ring!Admit(k)
  BY <1>1 DEF RegisterKey, Unregistered, Ring!Admit, Ring!Fresh
<1>2. ASSUME NEW k \in Key, RegisterPrimary(k) PROVE Ring!Elect(k)
  <2>1. \A j \in primary : GroupOf[j] # GroupOf[k]
    BY <1>2 DEF RegisterPrimary, RoleFree, PrimariesBeside, Peers, OnePrimary
  <2>2. HolderAmong(primary, GroupOf[k]) = NoKey
    BY <2>1, HolderNone
  <2>3. primary' = (primary \ Peers(k)) \union {k}
    BY <1>2, <2>1 DEF RegisterPrimary, Peers
  <2>4. Ring!Fresh(k) /\ Active' = Active \union {k} /\ Retired' = Retired
    BY <1>2 DEF RegisterPrimary, Unregistered, Ring!Fresh
  <2> QED
    BY <2>2, <2>3, <2>4, HolderTaken DEF Ring!Elect
<1>3. ASSUME NEW k \in Key, SetPrimaryKey(k) PROVE Ring!Promote(k)
  BY <1>3, HolderTaken DEF SetPrimaryKey, Ring!Promote
<1>4. ASSUME NEW old \in Key, NEW k \in Key, NEW s \in {"active", "archived"},
             ReplacePrimary(old, k, s)
      PROVE  \E leaving \in SUBSET {old} : Ring!Succeed(old, k, leaving)
  <2> DEFINE leaving == IF s = "archived" THEN {old} ELSE {}
  <2>1. old # k /\ old \in primary /\ GroupOf[old] = GroupOf[k]
    BY <1>4 DEF ReplacePrimary, CurrentPrimary, Unregistered
  <2>2. HolderAmong(primary, GroupOf[k]) = old
    BY <2>1, HolderIs DEF OnePrimary
  <2>3. primary' = (primary \ Peers(k)) \union {k}
    BY <1>4 DEF ReplacePrimary
  <2>4. Ring!Fresh(k)
    BY <1>4 DEF ReplacePrimary, Unregistered, Ring!Fresh
  <2>5. /\ Active' = (Active \union {k}) \ leaving
        /\ Retired' = Retired \union leaving
    BY <1>4, <2>1 DEF ReplacePrimary, CurrentPrimary, Unregistered
  <2>6. Ring!Succeed(old, k, leaving)
    BY <2>2, <2>3, <2>4, <2>5, HolderTaken DEF Ring!Succeed
  <2> QED
    BY <2>6
<1>5. ASSUME NEW K \in SUBSET Key, NEW s \in Inactive, UpdateKeys(K, s)
      PROVE  Ring!Retire(K \intersect Active)
  <2>1. /\ Active' = Active \ (K \intersect Active)
        /\ Retired' = Retired \union (K \intersect Active)
    BY <1>5 DEF UpdateKeys, Unregistered
  <2>2. primary' = primary \ K
    BY <1>5 DEF UpdateKeys, RolesCleared
  <2>3. [g \in Group |-> HolderAmong(primary', g)]
          = [g \in Group |->
               IF HolderAmong(primary, g) \in K \intersect Active
               THEN NoKey ELSE HolderAmong(primary, g)]
    BY <2>2, HolderLeft
  <2> QED
    BY <2>1, <2>3 DEF Ring!Retire
<1>6. ASSUME NEW k \in Key, NEW s \in Inactive, UpdateKeyStatus(k, s)
      PROVE  Ring!Retire({k} \intersect Active)
  <2> HIDE DEF RegistryTypeOK, Save, Active, Retired, Inactive
  <2>1. {k} \in SUBSET Key /\ UpdateKeys({k}, s)
    BY <1>6 DEF UpdateKeyStatus
  <2> QED
    BY <1>5, <2>1
<1>7. CASE UNCHANGED regVars
  BY <1>7 DEF regVars, Ring!ringVars
<1> HIDE DEF RegistryTypeOK, Save, Active, Retired, Inactive
<1>8. ASSUME NEW K \in SUBSET Key, Ring!Retire(K \intersect Active)
      PROVE  Ring!Next
  <2>1. K \intersect Active \in SUBSET Key
    OBVIOUS
  <2> QED
    BY <1>8, <2>1 DEF Ring!Next
<1>9. CASE RegistryNext
  <2>1. CASE \E k \in Key : RegisterKey(k) \/ RegisterPrimary(k) \/ SetPrimaryKey(k)
    BY <2>1, <1>1, <1>2, <1>3 DEF Ring!Next
  <2>2. CASE \E old, k \in Key, s \in {"active", "archived"} :
               ReplacePrimary(old, k, s)
    <3>1. PICK old \in Key, k \in Key, s \in {"active", "archived"} :
            ReplacePrimary(old, k, s)
      BY <2>2
    <3>2. \E leaving \in SUBSET {old} : Ring!Succeed(old, k, leaving)
      BY <1>4, <3>1
    <3> QED
      BY <3>2 DEF Ring!Next
  <2>3. CASE \E K \in SUBSET Key, s \in Inactive : UpdateKeys(K, s)
    BY <2>3, <1>5, <1>8
  <2>4. CASE \E k \in Key, s \in Inactive : UpdateKeyStatus(k, s)
    <3>1. PICK k \in Key, s \in Inactive : UpdateKeyStatus(k, s)
      BY <2>4
    <3>2. {k} \in SUBSET Key
      OBVIOUS
    <3> QED
      BY <1>6, <1>8, <3>1, <3>2
  <2> QED
    BY <1>9, <2>1, <2>2, <2>3, <2>4 DEF RegistryNext
<1> QED
  BY <1>7, <1>9

(* KeepsRing: the registry, from an empty file on, implements KeyRing.     *)
THEOREM ImplementsKeyRing == RegistrySpec => KeepsRing
<1>1. RegInv /\ [RegistryNext]_regVars => [Ring!Next]_(Ring!ringVars)
  BY RingStep DEF RegInv
<1> QED
  BY RingInit, RegistryInvariant, <1>1, PTL DEF RegistrySpec, KeepsRing, Ring!Spec

HIDE GroupAssumption

(***************************************************************************)
(* The commands.                                                           *)
(***************************************************************************)

(* What a command carries once it has started: the keys it works on and,   *)
(* while it imports, keys left to import.                                  *)
Changing == {"backup", "edit", "write", "reencrypt", "commit"}

Shape(c) ==
  /\ c.at \in Changing =>
       /\ c.op \in {"rotate", "emergency", "complete", "revoke"}
       /\ c.old \in Key
       /\ c.op # "revoke" => c.new \in Key
  /\ c.at = "generate" => c.op \in {"rotate", "emergency"} /\ c.old \in Key
  /\ c.at = "promote" => c.old \in Key
  /\ c.at = "precheck" => c.target \in Key
  /\ c.op = "emergency" => c.target \in Key
  /\ c.at = "import" => c.todo \subseteq Key

RunOK ==
  /\ run \in [Proc -> Command]
  /\ \A p \in Proc : Shape(run[p])

IInv == TypeOK /\ RunOK

LEMMA IdleOK == Idle \in Command /\ Shape(Idle)
BY DEF Idle, Command, Shape, Changing, Ops, Steps, NoRules, NoBackup

(* What reconcile does after its imports.                                  *)
LEMMA ChosenOK == Chosen \in Command /\ Shape(Chosen)
<1>1. CASE Mine \intersect primary = {} /\ \E k \in Key : Mine = {k}
  <2> DEFINE k == CHOOSE j \in Key : Mine = {j}
             c == [Idle EXCEPT !.op = "reconcile", !.at = "promote", !.old = k]
  <2>1. k \in Key
    BY <1>1
  <2>2. Chosen = c
    BY <1>1 DEF Chosen
  <2> HIDE DEF k
  <2> QED BY <2>1, <2>2
          DEF Idle, Command, Shape, Changing, Ops, Steps, NoRules, NoBackup
<1>2. CASE ~(Mine \intersect primary = {} /\ \E k \in Key : Mine = {k})
  BY <1>2, IdleOK DEF Chosen
<1> QED BY <1>1, <1>2

LEMMA InitIInv == Init => IInv
<1> SUFFICES ASSUME Init PROVE IInv
  OBVIOUS
<1>1. RegistryTypeOK
  BY ClusterAssumption DEF Init, RegistryTypeOK
<1>2. /\ rules \in [Rule -> SUBSET Key] /\ recipients \in [Manifest -> SUBSET Key]
      /\ skipped \in SUBSET Manifest
  BY ClusterAssumption DEF Init
<1>3. keyFile \in Key \union {NoKey} /\ known \in SUBSET Key
  BY <1>2, ClusterAssumption DEF Init, Named
<1>4. RunOK
  BY IdleOK DEF Init, RunOK
<1>5. crashes \in 0..MaxCrashes
  BY ClusterAssumption DEF Init
<1> QED BY <1>1, <1>2, <1>3, <1>4, <1>5 DEF IInv, TypeOK, RunOK

(* A step that leaves well-formed data and gives one process a             *)
(* well-formed command.                                                    *)
LEMMA StepOK ==
  ASSUME IInv, NEW p \in Proc, NEW c \in Command, Shape(c), Become(p, c),
         RegistryTypeOK',
         rules' \in [Rule -> SUBSET Key],
         recipients' \in [Manifest -> SUBSET Key],
         skipped' \in SUBSET Manifest,
         keyFile' \in Key \union {NoKey},
         known' \in SUBSET Key,
         crashes' \in 0..MaxCrashes
  PROVE  IInv'
<1>1. RunOK'
  BY DEF IInv, RunOK, Become
<1> QED BY <1>1 DEF IInv, TypeOK, RunOK

(* The same for a step that changes nothing but the command.               *)
LEMMA QuietStepOK ==
  ASSUME IInv, NEW p \in Proc, NEW c \in Command, Shape(c), Become(p, c),
         UNCHANGED <<regVars, files, keyFile, known, crashes>>
  PROVE  IInv' /\ [RegistryNext]_regVars
<1>1. RegistryTypeOK'
  BY DEF IInv, TypeOK, RegistryTypeOK, regVars
<1> QED BY <1>1, StepOK DEF IInv, TypeOK, regVars, files

-----------------------------------------------------------------------------
(* The starts of the commands.                                             *)
LEMMA StartOK ==
  ASSUME IInv, NEW p \in Proc, Start(p)
  PROVE  IInv' /\ [RegistryNext]_regVars
<1> USE DEF Changing, Ops, Steps, NoRules, NoBackup
<1>1. ASSUME NEW c \in Command, Shape(c), Begin(p, c)
      PROVE  IInv' /\ [RegistryNext]_regVars
  BY <1>1, QuietStepOK DEF Begin
<1>2. CASE StartRotate(p)
  BY <1>1, <1>2 DEF StartRotate, Mine, Members, Idle, Command, Shape
<1>3. CASE StartEmergency(p)
  BY <1>1, <1>3 DEF StartEmergency, Mine, Members, Idle, Command, Shape
<1>4. CASE StartComplete(p)
  <2>1. PICK new \in Successors :
          Begin(p, [Idle EXCEPT !.op = "complete", !.at = "backup",
                                !.old = rotatedFrom[new], !.new = new])
    BY <1>4 DEF StartComplete
  <2>2. new \in Key /\ rotatedFrom[new] \in Key
    BY <2>1 DEF Successors, Mine, Members
  <2> QED BY <1>1, <2>1, <2>2 DEF Idle, Command, Shape
<1>5. CASE StartRevoke(p)
  BY <1>1, <1>5 DEF StartRevoke, Removal, Mine, Members, Idle, Command, Shape
<1>6. CASE StartReconcile(p)
  <2>1. Chosen \in Command /\ Shape(Chosen)
    BY ChosenOK
  <2>2. Drift \subseteq Key
    BY DEF Drift, Named, IInv, TypeOK
  <2>3. CASE Drift = {}
    BY <1>1, <1>6, <2>1, <2>3 DEF StartReconcile
  <2>4. CASE Drift # {}
    <3> DEFINE c == [Idle EXCEPT !.op = "reconcile", !.at = "import",
                                 !.todo = Drift]
    <3>1. c \in Command /\ Shape(c)
      BY <2>2 DEF Idle, Command, Shape
    <3>2. Begin(p, c)
      BY <1>6, <2>4 DEF StartReconcile
    <3> QED BY <1>1, <3>1, <3>2
  <2> QED BY <2>3, <2>4
<1> QED BY <1>2, <1>3, <1>4, <1>5, <1>6 DEF Start

-----------------------------------------------------------------------------
(* The edits of .sops.yaml yield sets of keys.                             *)
LEMMA EditedOK ==
  ASSUME IInv, NEW p \in Proc, run[p].at = "edit"
  PROVE  Edited(run[p]) \in [Rule -> SUBSET Key]
<1>1. Shape(run[p])
  BY DEF IInv, RunOK
<1>2. run[p].op \in {"rotate", "emergency", "complete", "revoke"}
  BY <1>1 DEF Shape, Changing
<1>3. run[p].op # "revoke" => run[p].new \in Key
  BY <1>1 DEF Shape, Changing
<1>4. rules \in [Rule -> SUBSET Key]
  BY DEF IInv, TypeOK
<1> QED BY <1>2, <1>3, <1>4
        DEF Edited, WithSuccessor, WithoutRetired, Without

(* The steps that change neither the registry nor the files.               *)
LEMMA QuietProceedOK ==
  ASSUME IInv, NEW p \in Proc,
         \/ Backup(p) \/ Abort(p) \/ Edit(p) \/ ReencryptFails(p)
         \/ LoopEnds(p) \/ Precheck(p) \/ Fail(p) \/ ReconcileFails(p)
  PROVE  IInv' /\ [RegistryNext]_regVars
<1> USE DEF Changing, Ops, Steps
<1>1. run[p] \in Command /\ Shape(run[p])
  BY DEF IInv, RunOK
<1>2. CASE Backup(p)
  <2> DEFINE c == [run[p] EXCEPT !.at = "edit",
                     !.saved = [rules |-> rules, recipients |-> recipients,
                                skipped |-> skipped]]
  <2>1. run[p].at = "backup"
    BY <1>2 DEF Backup
  <2>2. /\ rules \in [Rule -> SUBSET Key] /\ recipients \in [Manifest -> SUBSET Key]
        /\ skipped \in SUBSET Manifest
    BY DEF IInv, TypeOK
  <2>3. c \in Command
    BY <1>1, <2>2 DEF Command
  <2>4. Shape(c)
    BY <1>1, <2>1 DEF Command, Shape
  <2> QED
    BY <1>2, <2>3, <2>4, QuietStepOK DEF Backup
<1>3. CASE Abort(p) \/ ReconcileFails(p)
  BY <1>3, IdleOK, QuietStepOK DEF Abort, ReconcileFails
<1>4. CASE Edit(p)
  <2> DEFINE c == [run[p] EXCEPT !.at = "write", !.draft = Edited(run[p])]
  <2>1. run[p].at = "edit" /\ Edited(run[p]) \in [Rule -> SUBSET Key]
    BY <1>4, EditedOK DEF Edit
  <2>2. c \in Command
    BY <1>1, <2>1 DEF Command
  <2>3. Shape(c)
    BY <1>1, <2>1 DEF Command, Shape
  <2> QED
    BY <1>4, <2>2, <2>3, QuietStepOK DEF Edit
<1>5. CASE ReencryptFails(p)
  <2>1. PICK m \in run[p].todo :
          Become(p, [run[p] EXCEPT !.todo = @ \ {m}, !.outcome = "failed"])
    BY <1>5 DEF ReencryptFails
  <2> DEFINE c == [run[p] EXCEPT !.todo = @ \ {m}, !.outcome = "failed"]
  <2>2. run[p].at = "reencrypt"
    BY <1>5 DEF ReencryptFails
  <2>3. c \in Command
    BY <1>1 DEF Command
  <2>4. Shape(c)
    BY <1>1, <2>2 DEF Command, Shape
  <2> QED
    BY <1>5, <2>1, <2>3, <2>4, QuietStepOK DEF ReencryptFails
<1>6. RollingBack(run[p]) \in Command /\ Shape(RollingBack(run[p]))
  <2>1. RollingBack(run[p]) \in Command
    BY <1>1 DEF RollingBack, BackedUp, Command, Shape
  <2>2. Shape(RollingBack(run[p]))
    BY <1>1 DEF RollingBack, Command, Shape
  <2> QED BY <2>1, <2>2
<1>7. CASE LoopEnds(p)
  <2>1. run[p].at = "reencrypt"
    BY <1>7 DEF LoopEnds
  <2>2. AfterLoop(run[p]) \in Command /\ Shape(AfterLoop(run[p]))
    BY <1>1, <1>6, <2>1 DEF AfterLoop, Command, Shape
  <2> QED BY <1>7, <2>2, QuietStepOK DEF LoopEnds
<1>8. CASE Precheck(p)
  <2>1. run[p].target \in Key
    BY <1>1, <1>8 DEF Precheck, Shape
  <2>2. Removal(run[p].target) \in Command /\ Shape(Removal(run[p].target))
    BY <2>1 DEF Removal, Idle, Command, Shape, NoRules, NoBackup
  <2> QED BY <1>8, <2>2, IdleOK, QuietStepOK DEF Precheck
<1>9. CASE Fail(p)
  BY <1>6, <1>9, QuietStepOK DEF Fail
<1> QED BY <1>2, <1>3, <1>4, <1>5, <1>7, <1>8, <1>9

(* The steps that change the key file, .sops.yaml or a manifest.           *)
LEMMA FileStepOK ==
  ASSUME IInv, NEW p \in Proc,
         Generate(p) \/ GenerateFails(p) \/ Write(p) \/ Reencrypt(p)
           \/ ReencryptSkips(p) \/ Rollback(p)
  PROVE  IInv' /\ [RegistryNext]_regVars
<1> USE DEF Changing, Ops, Steps
<1>1. run[p] \in Command /\ Shape(run[p])
  BY DEF IInv, RunOK
<1>2. UNCHANGED <<regVars, crashes>>
  BY DEF Generate, GenerateFails, Write, Reencrypt, ReencryptSkips, Rollback
<1>3. RegistryTypeOK' /\ crashes' \in 0..MaxCrashes
  BY <1>2 DEF regVars, IInv, TypeOK, RegistryTypeOK
<1>4. CASE Generate(p)
  <2>1. PICK k \in Key :
          /\ keyFile' = k
          /\ known' = known \union {k}
          /\ Become(p, [run[p] EXCEPT !.at = "backup", !.new = k])
    BY <1>4 DEF Generate, Members
  <2> DEFINE c == [run[p] EXCEPT !.at = "backup", !.new = k]
  <2>2. c \in Command /\ Shape(c)
    BY <1>1, <1>4 DEF Generate, Command, Shape
  <2> HIDE DEF c
  <2> QED BY <1>2, <1>3, <1>4, <2>1, <2>2, StepOK
          DEF Generate, files, IInv, TypeOK, c
<1>5. CASE Write(p)
  <2> DEFINE c == [run[p] EXCEPT !.at = "reencrypt", !.todo = Manifest]
  <2>1. c \in Command /\ Shape(c)
    BY <1>1, <1>5 DEF Write, Command, Shape
  <2>2. rules' \in [Rule -> SUBSET Key]
    BY <1>1, <1>5 DEF Write, Command
  <2> QED BY <1>2, <1>3, <1>5, <2>1, <2>2, StepOK DEF Write, IInv, TypeOK
<1>6. CASE Reencrypt(p)
  <2>1. PICK m \in run[p].todo :
          /\ recipients' = [recipients EXCEPT ![m] = rules[RuleOf[m]]]
          /\ skipped' = skipped \ {m}
          /\ Become(p, [run[p] EXCEPT !.todo = @ \ {m}])
    BY <1>6 DEF Reencrypt
  <2>2. recipients' \in [Manifest -> SUBSET Key]
    <3>1. CASE m \in Manifest
      BY <2>1, <3>1, ClusterAssumption DEF IInv, TypeOK
    <3>2. CASE m \notin Manifest
      BY <2>1, <3>2 DEF IInv, TypeOK
    <3> QED BY <3>1, <3>2
  <2> DEFINE c == [run[p] EXCEPT !.todo = @ \ {m}]
  <2>3. c \in Command /\ Shape(c)
    BY <1>1, <1>6 DEF Reencrypt, Command, Shape
  <2> QED BY <1>2, <1>3, <1>6, <2>1, <2>2, <2>3, StepOK
          DEF Reencrypt, IInv, TypeOK
<1>7. CASE Rollback(p)
  <2>1. PICK f \in run[p].todo :
          /\ rules' = IF f = SopsConfig THEN run[p].saved.rules ELSE rules
          /\ recipients' = [m \in Manifest |-> IF m = f
               THEN run[p].saved.recipients[m] ELSE recipients[m]]
          /\ skipped' = (skipped \ {f})
                          \union ({f} \intersect run[p].saved.skipped)
          /\ Become(p, IF run[p].todo = {f} THEN Idle
                       ELSE [run[p] EXCEPT !.todo = @ \ {f}])
    BY <1>7 DEF Rollback
  <2>2. /\ run[p].saved.rules \in [Rule -> SUBSET Key]
        /\ run[p].saved.recipients \in [Manifest -> SUBSET Key]
        /\ run[p].saved.skipped \in SUBSET Manifest
    BY <1>1 DEF Command
  <2>3. rules' \in [Rule -> SUBSET Key]
    BY <2>1, <2>2 DEF IInv, TypeOK
  <2>4. recipients' \in [Manifest -> SUBSET Key] /\ skipped' \in SUBSET Manifest
    BY <2>1, <2>2 DEF IInv, TypeOK
  <2> DEFINE d == [run[p] EXCEPT !.todo = @ \ {f}]
  <2>5. d \in Command /\ Shape(d)
    BY <1>1, <1>7 DEF Rollback, Command, Shape
  <2>6. PICK c \in Command : Shape(c) /\ Become(p, c)
    BY <2>1, <2>5, IdleOK
  <2> QED BY <1>2, <1>3, <1>7, <2>3, <2>4, <2>6, StepOK
          DEF Rollback, IInv, TypeOK
<1>8. CASE GenerateFails(p)
  <2>1. keyFile' \in Key \union {NoKey} /\ known' \in SUBSET Key
    BY <1>8 DEF GenerateFails, Members, IInv, TypeOK
  <2> QED BY <1>2, <1>3, <1>8, <2>1, IdleOK, StepOK
          DEF GenerateFails, files, IInv, TypeOK
<1>9. CASE ReencryptSkips(p)
  <2>1. PICK m \in run[p].todo \intersect Manifest :
          /\ skipped' = skipped \union {m}
          /\ Become(p, [run[p] EXCEPT !.todo = @ \ {m}])
    BY <1>9, ClusterAssumption DEF ReencryptSkips
  <2> DEFINE c == [run[p] EXCEPT !.todo = @ \ {m}]
  <2>2. c \in Command /\ Shape(c)
    BY <1>1, <1>9 DEF ReencryptSkips, Command, Shape
  <2> QED BY <1>2, <1>3, <1>9, <2>1, <2>2, StepOK
          DEF ReencryptSkips, IInv, TypeOK
<1> QED BY <1>4, <1>5, <1>6, <1>7, <1>8, <1>9

(* The steps that call the registry.                                       *)
LEMMA RegistryStepOK ==
  ASSUME IInv, NEW p \in Proc, Commit(p) \/ Import(p) \/ Promote(p)
  PROVE  IInv' /\ [RegistryNext]_regVars
<1> USE DEF Changing, Ops, Steps
<1>1. run[p] \in Command /\ Shape(run[p])
  BY DEF IInv, RunOK
<1>2. UNCHANGED <<files, keyFile, known, crashes>>
  BY DEF Commit, Import, Promote
<1>3. ASSUME NEW c \in Command, Shape(c), Become(p, c), [RegistryNext]_regVars
      PROVE  IInv' /\ [RegistryNext]_regVars
  <2>1. RegistryTypeOK'
    BY <1>3, TypeStep DEF IInv, TypeOK, RegistryTypeOK, regVars
  <2> QED BY <1>2, <1>3, <2>1, StepOK DEF files, IInv, TypeOK
<1>4. CASE Commit(p)
  <2>1. run[p].at = "commit" /\ run[p].old \in Key
    BY <1>1, <1>4 DEF Commit, Shape
  <2>2. ASSUME run[p].op \in {"rotate", "emergency"}, Replace(run[p])
        PROVE  RegistryNext
    <3>1. run[p].new \in Key
      BY <1>1, <2>1, <2>2 DEF Shape
    <3> QED BY <2>1, <2>2, <3>1 DEF Replace, RegistryNext
  <2>3. ASSUME UpdateKeys({run[p].old}, "archived") PROVE RegistryNext
    <3>1. {run[p].old} \in SUBSET Key /\ "archived" \in Inactive
      BY <2>1 DEF Inactive
    <3> QED BY <2>3, <3>1 DEF RegistryNext
  <2>4. ASSUME UpdateKeys({run[p].old}, "revoked") PROVE RegistryNext
    <3>1. {run[p].old} \in SUBSET Key /\ "revoked" \in Inactive
      BY <2>1 DEF Inactive
    <3> QED BY <2>4, <3>1 DEF RegistryNext
  <2>5. RegistryNext
    BY <1>4, <2>2, <2>3, <2>4 DEF Commit
  <2> DEFINE d == [Idle EXCEPT !.op = "emergency", !.at = "precheck",
                               !.target = run[p].target]
  <2>6. run[p].op = "emergency" => d \in Command /\ Shape(d)
    BY <1>1 DEF Idle, Command, Shape, NoRules, NoBackup
  <2>7. PICK c \in Command : Shape(c) /\ Become(p, c)
    BY <1>4, <2>6, IdleOK DEF Commit
  <2> QED BY <1>3, <2>5, <2>7
<1>5. CASE Import(p)
  <2>1. CASE UNCHANGED regVars /\ Become(p, Chosen)
    BY <1>3, <2>1, ChosenOK
  <2>2. ASSUME NEW k \in run[p].todo, RegisterKey(k),
               Become(p, [run[p] EXCEPT !.todo = @ \ {k}])
        PROVE  IInv' /\ [RegistryNext]_regVars
    <3>1. k \in Key
      BY <1>1, <1>5 DEF Import, Shape
    <3>2. RegistryNext
      BY <2>2, <3>1 DEF RegistryNext
    <3> DEFINE c == [run[p] EXCEPT !.todo = @ \ {k}]
    <3>3. c \in Command /\ Shape(c)
      BY <1>1, <1>5 DEF Import, Command, Shape
    <3> QED BY <1>3, <2>2, <3>2, <3>3
  <2> QED BY <1>5, <2>1, <2>2 DEF Import
<1>6. CASE Promote(p)
  <2>1. run[p].old \in Key
    BY <1>1, <1>6 DEF Promote, Shape
  <2>2. RegistryNext
    BY <1>6, <2>1 DEF Promote, RegistryNext
  <2> QED BY <1>3, <1>6, <2>2, IdleOK DEF Promote
<1> QED BY <1>4, <1>5, <1>6

LEMMA NextOK == IInv /\ [Next]_vars => IInv' /\ [RegistryNext]_regVars
<1> SUFFICES ASSUME IInv, [Next]_vars PROVE IInv' /\ [RegistryNext]_regVars
  OBVIOUS
<1>1. ASSUME NEW p \in Proc, Start(p) PROVE IInv' /\ [RegistryNext]_regVars
  BY <1>1, StartOK
<1>2. ASSUME NEW p \in Proc, Proceed(p) PROVE IInv' /\ [RegistryNext]_regVars
  BY <1>2, QuietProceedOK, FileStepOK, RegistryStepOK DEF Proceed
<1>3. ASSUME NEW p \in Proc, Crash(p) PROVE IInv' /\ [RegistryNext]_regVars
  <2>1. crashes' \in 0..MaxCrashes
    BY <1>3, ClusterAssumption DEF Crash, IInv, TypeOK
  <2>2. RegistryTypeOK' /\ UNCHANGED regVars
    BY <1>3 DEF Crash, regVars, IInv, TypeOK, RegistryTypeOK
  <2> QED BY <1>3, <2>1, <2>2, IdleOK, StepOK DEF Crash, files, IInv, TypeOK
<1>4. CASE SetPrimary
  <2>1. RegistryNext
    BY <1>4 DEF SetPrimary, Mine, Members, RegistryNext
  <2>2. RegistryTypeOK'
    BY <2>1, TypeStep DEF IInv, TypeOK
  <2> QED BY <1>4, <2>1, <2>2 DEF SetPrimary, files, IInv, TypeOK, RunOK
<1>5. CASE UNCHANGED vars
  BY <1>5 DEF vars, files, regVars, IInv, TypeOK, RegistryTypeOK, RunOK
<1> QED BY <1>1, <1>2, <1>3, <1>4, <1>5 DEF Next

LEMMA LifecycleInvariant == Spec => []IInv
BY InitIInv, NextOK, PTL DEF Spec

(* Registry, files and the state of every command are well-typed in every  *)
(* reachable state.                                                        *)
THEOREM TypeCorrect == Spec => []TypeOK
BY LifecycleInvariant, PTL DEF IInv

(* Whatever commands run at the same time, fail or are killed, every step  *)
(* of theirs is a step of KeyRegistry or leaves the registry alone.        *)
THEOREM CommandsKeepRegistry == Spec => KeepsRegistry
<1>1. IInv /\ [Next]_vars => [regVars' # regVars => RegistryNext]_vars
  BY NextOK
<1> QED BY <1>1, LifecycleInvariant, PTL DEF Spec, KeepsRegistry

(***************************************************************************)
(* Commands that do not overlap.  No lock makes them so: an operator does, *)
(* who starts a command when the last one has ended or was killed.         *)
(***************************************************************************)

Serial == \A p, q \in Proc : run[p] # Idle /\ run[q] # Idle => p = q

(* The steps with a backup taken, and those of them during which the       *)
(* files may be half changed.                                              *)
Backed == {"edit", "write", "reencrypt", "commit", "rollback"}
Unsettled == {"reencrypt", "commit", "rollback"}

(* Two sets of recipients that are the same, or both have a key of the     *)
(* cluster.                                                                *)
Alike(A, B) == A = B \/ ((\E k \in Mine : k \in A) /\ (\E k \in Mine : k \in B))

(* The same, or the second has: re-encrypting the first to it locks nobody *)
(* out.                                                                    *)
Leads(A, B) == A = B \/ \E k \in Mine : k \in B

Recorded(R) == \A r \in Rule : R[r] \subseteq known

(* Of rules R and manifests encrypted to T, of which those in S were       *)
(* passed over: who can open them, that no retired key can, and that they  *)
(* are encrypted by their rules.                                           *)
Tied(R, T, S) ==
  \A m \in Manifest : IF m \in S THEN Leads(T[m], R[RuleOf[m]])
                                ELSE Alike(T[m], R[RuleOf[m]])

Clean(R, T, S) ==
  \A k \in Retired : /\ \A r \in Rule : k \notin R[r]
                     /\ \A m \in Manifest \ S : k \notin T[m]

Matched(R, T, S) ==
  \A m \in Manifest : IF m \in S THEN T[m] \ R[RuleOf[m]] \subseteq Retired
                                ELSE T[m] = R[RuleOf[m]]

Paired(R) ==
  \A r \in Rule, k \in Successors : rotatedFrom[k] \in R[r] <=> k \in R[r]

(* Edited, for any rules.                                                  *)
EditOf(R, c) ==
  CASE c.op \in {"rotate", "emergency"} ->
         [r \in Rule |-> IF c.old \in R[r] THEN R[r] \union {c.new} ELSE R[r]]
    [] c.op = "complete" ->
         [r \in Rule |-> IF c.old \in R[r] THEN (R[r] \ {c.old}) \union {c.new}
                                           ELSE R[r]]
    [] c.op = "revoke" -> [r \in Rule |-> R[r] \ {c.old}]

(* At every step: only keys generated here are registered or named, no     *)
(* file that could be read names a retired key, and a manifest and its     *)
(* rule are alike; of one passed over, the rule still has a key.           *)
FilesInv ==
  /\ \A k \in Key : status[k] # "absent" => k \in known
  /\ Recorded(rules)
  /\ Clean(rules, recipients, skipped)
  /\ Tied(rules, recipients, skipped)

(* Unless files may be half changed, or a command was killed: every        *)
(* manifest is encrypted by its rule, one passed over to what its rule was *)
(* before keys were added and retired, and a pending successor is wherever *)
(* its predecessor is.                                                     *)
Orderly ==
  crashes = 0 => Matched(rules, recipients, skipped) /\ Paired(rules)

SettledInv == (\A p \in Proc : run[p].at \notin Unsettled) => Orderly

(* The keys of a command are what they were when it chose them.            *)
KeysInv(c) ==
  /\ c.op \in {"rotate", "emergency"} =>
       /\ c.at \in Changing \union {"generate"} =>
            Successors = {} /\ c.old \in Mine
       /\ c.at \in Changing => c.new \in known /\ status[c.new] = "absent"
       /\ c.at \in {"backup", "edit"} => \A r \in Rule : c.new \notin rules[r]
       /\ c.at \in {"write", "reencrypt", "commit"} =>
            \A r \in Rule : c.new \notin c.saved.rules[r]
  /\ c.op = "complete" /\ c.at \in Changing =>
       c.new \in Successors /\ rotatedFrom[c.new] = c.old
  /\ c.op = "revoke" /\ c.at \in Changing => c.old \in Mine
  /\ c.op = "revoke" /\ c.at \in {"backup", "edit"} => NoDrift
  /\ c.at = "import" => c.todo \subseteq known

(* The backups are as good as the files were, and as good as these are.    *)
SavedInv(c) ==
  c.at \in Backed =>
    /\ Recorded(c.saved.rules)
    /\ Clean(c.saved.rules, c.saved.recipients, c.saved.skipped)
    /\ Tied(c.saved.rules, c.saved.recipients, c.saved.skipped)
    /\ \A m \in Manifest : Alike(c.saved.rules[RuleOf[m]], rules[RuleOf[m]])
    /\ crashes = 0 =>
         /\ Matched(c.saved.rules, c.saved.recipients, c.saved.skipped)
         /\ Paired(c.saved.rules)
         /\ \A m \in Manifest \ c.saved.skipped :
              recipients[m] \subseteq c.saved.recipients[m] \union {c.new}

(* How far a command has come: which files are as saved, which as edited.  *)
ProgressInv(c) ==
  /\ c.at \in {"edit", "write"} =>
       rules = c.saved.rules /\ recipients = c.saved.recipients
  /\ c.at \in {"write", "reencrypt", "commit"} =>
       c.draft = EditOf(c.saved.rules, c)
  /\ c.at = "write" =>
       \A m \in Manifest : Alike(rules[RuleOf[m]], c.draft[RuleOf[m]])
  /\ c.at \in {"reencrypt", "commit"} =>
       /\ rules = c.draft
       /\ \A m \in (c.todo \union skipped) \intersect Manifest :
            recipients[m] = c.saved.recipients[m]
       /\ c.outcome = "ok" =>
            \A m \in Manifest \ (c.todo \union skipped) :
              recipients[m] = rules[RuleOf[m]]
  /\ c.at = "commit" => c.todo = {} /\ c.outcome = "ok"
  /\ c.at = "rollback" =>
       /\ SopsConfig \notin c.todo => rules = c.saved.rules
       /\ \A m \in Manifest \ c.todo :
            /\ recipients[m] = c.saved.recipients[m]
            /\ m \in skipped <=> m \in c.saved.skipped

SerialInv ==
  /\ FilesInv
  /\ SettledInv
  /\ \A p \in Proc : KeysInv(run[p]) /\ SavedInv(run[p]) /\ ProgressInv(run[p])

-----------------------------------------------------------------------------
(* The operators these are built from.                                     *)

LEMMA Unmoved ==
  ASSUME UNCHANGED <<status, rotatedFrom>>
  PROVE  Mine' = Mine /\ Successors' = Successors /\ Retired' = Retired
<1>1. Mine' = Mine
  BY DEF Mine, Active
<1>2. Retired' = Retired
  BY DEF Retired
<1>3. Successors' = Successors
  BY <1>1 DEF Successors
<1> QED BY <1>1, <1>2, <1>3

LEMMA AlikeBack == \A A, B : Alike(A, B) => Alike(B, A)
  BY DEF Alike

LEMMA AlikeOn ==
  \A A, B, C : /\ (Alike(A, B) /\ Alike(B, C) => Alike(A, C))
              /\ (Leads(A, B) /\ Alike(B, C) => Leads(A, C))
              /\ (Alike(A, B) => Leads(A, B))
  BY DEF Alike, Leads

LEMMA TiedOn ==
  ASSUME NEW R, NEW Q, NEW T, NEW S, Tied(R, T, S),
         \A m \in Manifest : Alike(R[RuleOf[m]], Q[RuleOf[m]])
  PROVE  Tied(Q, T, S)
  BY AlikeOn DEF Tied

(* The other commands are idle, before a step and after it.                *)
Alone(p) == \A q \in Proc \ {p} : run[q] = Idle

LEMMA Becomes ==
  ASSUME IInv, NEW p \in Proc, Alone(p), NEW c, Become(p, c)
  PROVE  run'[p] = c /\ Alone(p)'
BY DEF IInv, TypeOK, Become, Alone

(* So a step of p is about p's command alone.                              *)
LEMMA WasOrderly ==
  ASSUME SerialInv, NEW p \in Proc, Alone(p), run[p].at \notin Unsettled
  PROVE  Orderly
BY DEF SerialInv, SettledInv, Alone, Idle, Unsettled

LEMMA Assemble ==
  ASSUME NEW p \in Proc, Alone(p)', FilesInv',
         run'[p].at \notin Unsettled => Orderly',
         KeysInv(run[p])', SavedInv(run[p])', ProgressInv(run[p])'
  PROVE  SerialInv'
<1>1. ASSUME NEW q \in Proc, q # p
      PROVE  KeysInv(run[q])' /\ SavedInv(run[q])' /\ ProgressInv(run[q])'
  <2>1. run'[q] = Idle
    BY <1>1 DEF Alone
  <2>2. run'[q].at = "idle" /\ run'[q].op = "none"
    BY <2>1 DEF Idle
  <2> QED BY <2>2 DEF KeysInv, SavedInv, ProgressInv, Changing, Backed
<1>2. SettledInv'
  BY DEF SettledInv
<1> QED BY <1>1, <1>2 DEF SerialInv

(* When only the command changed, so did only what the invariant says of   *)
(* it.                                                                     *)
LEMMA FilesKept ==
  ASSUME SerialInv, UNCHANGED <<status, rotatedFrom, rules, recipients, skipped>>,
         known \subseteq known'
  PROVE  FilesInv'
BY Unmoved DEF SerialInv, FilesInv, Recorded, Clean, Tied, Leads, Alike

LEMMA OrderKept ==
  ASSUME Orderly, UNCHANGED <<status, rotatedFrom, rules, recipients, skipped, crashes>>
  PROVE  Orderly'
BY Unmoved DEF Orderly, Matched, Paired

(* The backups are what they were, and the files still as good.            *)
LEMMA SavedKept ==
  ASSUME NEW p \in Proc, NEW c, c.at \in Backed, SavedInv(c),
         run'[p].saved = c.saved, run'[p].new = c.new,
         UNCHANGED <<status, rotatedFrom, known, crashes>>,
         \A m \in Manifest : Alike(c.saved.rules[RuleOf[m]], rules'[RuleOf[m]]),
         crashes = 0 =>
           \A m \in Manifest \ c.saved.skipped :
             recipients'[m] \subseteq c.saved.recipients[m] \union {c.new}
  PROVE  SavedInv(run[p])'
<1>1. /\ Recorded(c.saved.rules)
      /\ Clean(c.saved.rules, c.saved.recipients, c.saved.skipped)
      /\ Tied(c.saved.rules, c.saved.recipients, c.saved.skipped)
      /\ crashes = 0 =>
           /\ Matched(c.saved.rules, c.saved.recipients, c.saved.skipped)
           /\ Paired(c.saved.rules)
  BY DEF SavedInv
<1>2. Recorded(run[p].saved.rules)'
  BY <1>1 DEF Recorded
<1>3. Clean(run[p].saved.rules, run[p].saved.recipients, run[p].saved.skipped)'
  BY <1>1, Unmoved DEF Clean
<1>4. Tied(run[p].saved.rules, run[p].saved.recipients, run[p].saved.skipped)'
  BY <1>1, Unmoved DEF Tied, Leads, Alike
<1>5. \A m \in Manifest :
        Alike(run[p].saved.rules[RuleOf[m]], rules[RuleOf[m]])'
  BY Unmoved DEF Alike
<1>6. crashes = 0 =>
        /\ Matched(run[p].saved.rules, run[p].saved.recipients,
                   run[p].saved.skipped)'
        /\ Paired(run[p].saved.rules)'
  BY <1>1, Unmoved DEF Matched, Paired
<1> QED BY <1>2, <1>3, <1>4, <1>5, <1>6 DEF SavedInv

(* A command that ends, or is killed.                                      *)
LEMMA IdleKept ==
  ASSUME NEW p \in Proc, run'[p] = Idle
  PROVE  KeysInv(run[p])' /\ SavedInv(run[p])' /\ ProgressInv(run[p])'
<1>1. run'[p].at = "idle" /\ run'[p].op = "none"
  BY DEF Idle
<1> QED BY <1>1 DEF KeysInv, SavedInv, ProgressInv, Changing, Backed

-----------------------------------------------------------------------------
(* A command starts.  The three facts each start needs: it is none of the  *)
(* others' business, its keys are right, and it has done nothing yet.      *)
LEMMA BeginSerial ==
  ASSUME IInv, SerialInv, NEW p \in Proc, Alone(p), NEW c, Begin(p, c),
         c.at \in {"generate", "backup", "import", "promote"},
         c.op = "rotate" \/ c.op = "emergency" =>
           /\ c.at = "generate" /\ Successors = {} /\ c.old \in Mine,
         c.op = "complete" => c.new \in Successors /\ rotatedFrom[c.new] = c.old,
         c.op = "revoke" => c.old \in Mine /\ NoDrift,
         c.at = "import" => c.todo \subseteq known
  PROVE  SerialInv'
<1>1. /\ UNCHANGED <<regVars, rules, recipients, skipped, known, crashes>>
      /\ Become(p, c)
      /\ run[p] = Idle
  BY DEF Begin, files
<1>2. run'[p] = c /\ Alone(p)'
  BY <1>1, Becomes
<1>3. UNCHANGED <<status, rotatedFrom>>
  BY <1>1 DEF regVars
<1>4. Orderly
  <2>1. run[p].at \notin Unsettled
    BY <1>1 DEF Idle, Unsettled
  <2> QED BY <2>1, WasOrderly
<1>5. Orderly'
  BY <1>1, <1>3, <1>4, OrderKept
<1>6. FilesInv'
  BY <1>1, <1>3, FilesKept
<1>7. NoDrift => NoDrift'
  BY <1>1, <1>3, Unmoved DEF NoDrift, Named
<1>8. KeysInv(run[p])'
  BY <1>1, <1>2, <1>3, <1>7, Unmoved DEF KeysInv, Changing
<1>9. SavedInv(run[p])' /\ ProgressInv(run[p])'
  BY <1>2 DEF SavedInv, ProgressInv, Backed
<1> QED BY <1>2, <1>5, <1>6, <1>8, <1>9, Assemble

LEMMA StartSerial ==
  ASSUME IInv, SerialInv, NEW p \in Proc, Alone(p), Start(p)
  PROVE  SerialInv'
<1>1. CASE StartRotate(p)
  <2>1. PICK old \in Mine :
          /\ Successors = {}
          /\ Begin(p, [Idle EXCEPT !.op = "rotate", !.at = "generate",
                                   !.old = old])
    BY <1>1, Zenon DEF StartRotate
  <2>2. PICK c : c = [Idle EXCEPT !.op = "rotate", !.at = "generate",
                                  !.old = old]
    OBVIOUS
  <2>3. c.op = "rotate" /\ c.at = "generate" /\ c.old = old
    BY <2>2 DEF Idle
  <2> QED BY <2>1, <2>2, <2>3, BeginSerial
<1>2. CASE StartEmergency(p)
  <2>1. PICK old \in Mine, target \in Members \intersect known :
          /\ Successors = {}
          /\ Begin(p, [Idle EXCEPT !.op = "emergency", !.at = "generate",
                                   !.old = old, !.target = target])
    BY <1>2, Zenon DEF StartEmergency
  <2>2. PICK c : c = [Idle EXCEPT !.op = "emergency", !.at = "generate",
                                  !.old = old, !.target = target]
    OBVIOUS
  <2>3. c.op = "emergency" /\ c.at = "generate" /\ c.old = old
    BY <2>2 DEF Idle
  <2> QED BY <2>1, <2>2, <2>3, BeginSerial
<1>3. CASE StartComplete(p)
  <2>1. PICK new \in Successors :
          Begin(p, [Idle EXCEPT !.op = "complete", !.at = "backup",
                                !.old = rotatedFrom[new], !.new = new])
    BY <1>3, Zenon DEF StartComplete
  <2>2. PICK c : c = [Idle EXCEPT !.op = "complete", !.at = "backup",
                                  !.old = rotatedFrom[new], !.new = new]
    OBVIOUS
  <2>3. /\ c.op = "complete" /\ c.at = "backup"
        /\ c.old = rotatedFrom[new] /\ c.new = new
    BY <2>2 DEF Idle
  <2> QED BY <2>1, <2>2, <2>3, BeginSerial
<1>4. CASE StartRevoke(p)
  <2>1. PICK k \in Mine : NoDrift /\ Begin(p, Removal(k))
    BY <1>4 DEF StartRevoke, Revocable
  <2>2. PICK c : c = Removal(k)
    OBVIOUS
  <2>3. c.op = "revoke" /\ c.at = "backup" /\ c.old = k
    BY <2>2 DEF Removal, Idle
  <2> QED BY <2>1, <2>2, <2>3, BeginSerial
<1>5. CASE StartReconcile(p)
  <2>1. CASE Drift = {}
    <3>1. PICK c : c = Chosen
      OBVIOUS
    <3>2. Begin(p, c) /\ c # Idle
      BY <1>5, <2>1, <3>1 DEF StartReconcile
    <3>3. c.op = "reconcile" /\ c.at = "promote"
      BY <3>1, <3>2 DEF Chosen, Idle
    <3> QED BY <3>2, <3>3, BeginSerial
  <2>2. CASE Drift # {}
    <3>1. PICK c : c = [Idle EXCEPT !.op = "reconcile", !.at = "import",
                                    !.todo = Drift]
      OBVIOUS
    <3>2. Begin(p, c)
      BY <1>5, <2>2, <3>1 DEF StartReconcile
    <3>3. c.op = "reconcile" /\ c.at = "import" /\ c.todo = Drift
      BY <3>1 DEF Idle
    <3>4. Drift \subseteq known
      BY DEF Drift, Named, SerialInv, FilesInv, Recorded
    <3> QED BY <3>2, <3>3, <3>4, BeginSerial
  <2> QED BY <2>1, <2>2
<1> QED BY <1>1, <1>2, <1>3, <1>4, <1>5 DEF Start

-----------------------------------------------------------------------------
(* A command gives up, or is killed: there is nothing to restore, or       *)
(* nobody to restore it.                                                   *)
LEMMA EndSerial ==
  ASSUME IInv, SerialInv, NEW p \in Proc, Alone(p),
         Abort(p) \/ ReconcileFails(p) \/ GenerateFails(p) \/ Crash(p)
  PROVE  SerialInv'
<1>1. /\ UNCHANGED <<regVars, rules, recipients, skipped>>
      /\ Become(p, Idle)
      /\ known \subseteq known'
  BY DEF Abort, ReconcileFails, GenerateFails, Crash, files
<1>2. run'[p] = Idle /\ Alone(p)'
  BY <1>1, Becomes
<1>3. UNCHANGED <<status, rotatedFrom>>
  BY <1>1 DEF regVars
<1>4. FilesInv'
  BY <1>1, <1>3, FilesKept
<1>5. Orderly'
  <2>1. CASE Crash(p)
    <3>1. crashes' # 0
      BY <2>1 DEF Crash, IInv, TypeOK
    <3> QED BY <3>1 DEF Orderly
  <2>2. CASE Abort(p) \/ ReconcileFails(p) \/ GenerateFails(p)
    <3>1. run[p].at \notin Unsettled /\ UNCHANGED crashes
      BY <2>2 DEF Abort, ReconcileFails, GenerateFails, Unsettled
    <3> QED BY <1>1, <1>3, <3>1, WasOrderly, OrderKept
  <2> QED BY <2>1, <2>2
<1> QED BY <1>2, <1>4, <1>5, IdleKept, Assemble

(* Each step below leaves the registry as it is, and most leave the files. *)
LEMMA BackupSerial ==
  ASSUME IInv, SerialInv, NEW p \in Proc, Alone(p), Backup(p)
  PROVE  SerialInv'
<1> DEFINE c == run[p]
           d == [c EXCEPT !.at = "edit",
                   !.saved = [rules |-> rules, recipients |-> recipients,
                              skipped |-> skipped]]
<1>1. c \in Command /\ c.at = "backup"
  BY DEF Backup, IInv, RunOK
<1>2. UNCHANGED <<regVars, rules, recipients, skipped, known, crashes>>
  BY DEF Backup, files
<1>3. UNCHANGED <<status, rotatedFrom>>
  BY <1>2 DEF regVars
<1>4. run'[p] = d /\ Alone(p)'
  BY Becomes DEF Backup
<1>5. /\ run'[p].at = "edit" /\ run'[p].op = c.op
      /\ run'[p].old = c.old /\ run'[p].new = c.new
      /\ run'[p].saved.rules = rules /\ run'[p].saved.recipients = recipients
      /\ run'[p].saved.skipped = skipped
  BY <1>1, <1>4 DEF Command
<1>6. KeysInv(c)
  BY DEF SerialInv
<1> HIDE DEF c, d
<1>7. NoDrift => NoDrift'
  BY <1>2, <1>3, Unmoved DEF NoDrift, Named
<1>8. KeysInv(run[p])'
  BY <1>1, <1>2, <1>3, <1>5, <1>6, <1>7, Unmoved DEF KeysInv, Changing
<1>9. FilesInv' /\ Orderly'
  BY <1>1, <1>2, <1>3, FilesKept, OrderKept, WasOrderly DEF Unsettled, c
<1>10. SavedInv(run[p])'
  BY <1>2, <1>5, <1>9 DEF SavedInv, FilesInv, Orderly, Recorded, Clean, Tied,
                          Leads, Alike, Matched, Paired
<1>11. ProgressInv(run[p])'
  BY <1>2, <1>5 DEF ProgressInv
<1> QED BY <1>4, <1>8, <1>9, <1>10, <1>11, Assemble

(* The new key is in no registry entry and no rule: it has just been made. *)
LEMMA GenerateSerial ==
  ASSUME IInv, SerialInv, NEW p \in Proc, Alone(p), Generate(p)
  PROVE  SerialInv'
<1>1. run[p] \in Command /\ Shape(run[p]) /\ run[p].at = "generate"
  BY DEF Generate, IInv, RunOK
<1>2. PICK k \in Key :
        /\ k \notin known /\ known' = known \union {k}
        /\ Become(p, [run[p] EXCEPT !.at = "backup", !.new = k])
  BY Zenon DEF Generate, Members
<1>3. UNCHANGED <<regVars, rules, recipients, skipped, crashes>>
  BY DEF Generate, files
<1>4. UNCHANGED <<status, rotatedFrom>>
  BY <1>3 DEF regVars
<1>5. run'[p] = [run[p] EXCEPT !.at = "backup", !.new = k] /\ Alone(p)'
  BY <1>2, Becomes
<1>6. /\ run'[p].at = "backup" /\ run'[p].op = run[p].op
      /\ run'[p].old = run[p].old /\ run'[p].new = k
  BY <1>1, <1>5 DEF Command
<1>7. FilesInv' /\ Orderly'
  BY <1>1, <1>2, <1>3, <1>4, FilesKept, OrderKept, WasOrderly DEF Unsettled
<1>8. run[p].op \in {"rotate", "emergency"}
  BY <1>1 DEF Shape
<1>9. Successors = {} /\ run[p].old \in Mine
  BY <1>1, <1>8 DEF SerialInv, KeysInv
<1>10. status[k] = "absent" /\ \A r \in Rule : k \notin rules[r]
  BY <1>2 DEF SerialInv, FilesInv, Recorded
<1>11. KeysInv(run[p])'
  BY <1>2, <1>3, <1>4, <1>6, <1>8, <1>9, <1>10, Unmoved DEF KeysInv
<1>12. SavedInv(run[p])' /\ ProgressInv(run[p])'
  BY <1>6 DEF SavedInv, ProgressInv, Backed
<1> QED BY <1>5, <1>7, <1>11, <1>12, Assemble

(* Every edit keeps a cluster key in a rule that had one.                  *)
LEMMA EditAlike ==
  ASSUME NEW c, Shape(c), KeysInv(c), c.at = "edit", NEW r \in Rule,
         EditOf(rules, c)[r] # {}
  PROVE  Alike(rules[r], EditOf(rules, c)[r])
<1>1. PICK E : E = EditOf(rules, c)[r]
  OBVIOUS
<1>2. CASE c.op \in {"rotate", "emergency"}
  <2>1. c.old \in Mine
    BY <1>2 DEF KeysInv, Changing
  <2>2. E = IF c.old \in rules[r] THEN rules[r] \union {c.new} ELSE rules[r]
    BY <1>1, <1>2 DEF EditOf
  <2>3. Alike(rules[r], E)
    BY <2>1, <2>2 DEF Alike
  <2> QED BY <1>1, <2>3
<1>3. CASE c.op = "complete"
  <2>1. c.old \in Mine /\ c.new \in Mine
    BY <1>3 DEF KeysInv, Changing, Successors
  <2>2. E = IF c.old \in rules[r] THEN (rules[r] \ {c.old}) \union {c.new}
                                  ELSE rules[r]
    BY <1>1, <1>3 DEF EditOf
  <2>3. Alike(rules[r], E)
    BY <2>1, <2>2 DEF Alike
  <2> QED BY <1>1, <2>3
<1>4. CASE c.op = "revoke"
  <2>1. rules[r] \subseteq Mine
    BY <1>4 DEF KeysInv, NoDrift, Named
  <2>2. E = rules[r] \ {c.old} /\ E # {}
    BY <1>1, <1>4 DEF EditOf
  <2>3. Alike(rules[r], E)
    BY <2>1, <2>2 DEF Alike
  <2> QED BY <1>1, <2>3
<1> QED BY <1>2, <1>3, <1>4 DEF Shape, Changing

LEMMA EditedIs ==
  ASSUME NEW c PROVE Edited(c) = EditOf(rules, c)
BY DEF Edited, EditOf, WithSuccessor, WithoutRetired, Without

LEMMA EditSerial ==
  ASSUME IInv, SerialInv, NEW p \in Proc, Alone(p), Edit(p)
  PROVE  SerialInv'
<1> DEFINE c == run[p]
           d == [c EXCEPT !.at = "write", !.draft = Edited(c)]
<1>1. c \in Command /\ c.at = "edit" /\ RuleOf \in [Manifest -> Rule]
  BY ClusterAssumption DEF Edit, IInv, RunOK
<1>2. UNCHANGED <<regVars, rules, recipients, skipped, known, crashes>>
  BY DEF Edit, files
<1>3. UNCHANGED <<status, rotatedFrom>>
  BY <1>2 DEF regVars
<1>4. run'[p] = d /\ Alone(p)'
  BY Becomes DEF Edit
<1>5. /\ run'[p].at = "write" /\ run'[p].op = c.op
      /\ run'[p].old = c.old /\ run'[p].new = c.new
      /\ run'[p].saved = c.saved /\ run'[p].draft = Edited(c)
  BY <1>1, <1>4 DEF Command
<1>6. KeysInv(c) /\ SavedInv(c) /\ ProgressInv(c)
  BY DEF SerialInv
<1>7. \A m \in Manifest : Alike(rules[RuleOf[m]], Edited(c)[RuleOf[m]])
  <2> SUFFICES ASSUME NEW m \in Manifest
               PROVE  Alike(rules[RuleOf[m]], Edited(c)[RuleOf[m]])
    OBVIOUS
  <2>1. RuleOf[m] \in Rule
    BY <1>1
  <2>2. Edited(c)[RuleOf[m]] # {}
    BY <2>1 DEF Edit
  <2>3. Shape(c) /\ KeysInv(c)
    BY DEF IInv, RunOK, SerialInv
  <2>4. PICK e : e = run[p]
    OBVIOUS
  <2>5. Alike(rules[RuleOf[m]], EditOf(rules, e)[RuleOf[m]])
    BY <1>1, <2>1, <2>2, <2>3, <2>4, EditAlike, EditedIs
  <2> QED BY <2>4, <2>5, EditedIs
<1> HIDE DEF c, d
<1>8. rules = c.saved.rules /\ recipients = c.saved.recipients
  BY <1>1, <1>6 DEF ProgressInv
<1>9. KeysInv(run[p])'
  BY <1>1, <1>2, <1>3, <1>5, <1>6, <1>8, Unmoved DEF KeysInv, Changing
<1>10. FilesInv' /\ Orderly'
  BY <1>1, <1>2, <1>3, FilesKept, OrderKept, WasOrderly DEF Unsettled, c
<1>11. SavedInv(run[p])'
  <2>1. PICK e : e = c
    OBVIOUS
  <2>2. e.at \in Backed /\ SavedInv(e)
    BY <1>1, <1>6, <2>1 DEF Backed
  <2> QED BY <1>2, <1>3, <1>5, <2>1, <2>2, SavedKept DEF SavedInv
<1>12. EditOf(c.saved.rules, run'[p]) = EditOf(c.saved.rules, c)
  BY <1>5 DEF EditOf
<1>13. ProgressInv(run[p])'
  BY <1>2, <1>3, <1>5, <1>7, <1>8, <1>12, EditedIs, Unmoved
     DEF ProgressInv, Alike
<1> QED BY <1>4, <1>9, <1>10, <1>11, <1>13, Assemble

(* What an edit may add to a rule: the new key, of which the registry has  *)
(* nothing bad to say.                                                     *)
LEMMA EditAdds ==
  ASSUME NEW R, NEW c, NEW r \in Rule,
         c.op \in {"rotate", "emergency", "complete", "revoke"}
  PROVE  /\ EditOf(R, c)[r] \subseteq R[r] \union {c.new}
         /\ c.op = "revoke" => EditOf(R, c)[r] \subseteq R[r]
<1>1. CASE c.op \in {"rotate", "emergency"}
  BY <1>1 DEF EditOf
<1>2. CASE c.op = "complete"
  BY <1>2 DEF EditOf
<1>3. CASE c.op = "revoke"
  BY <1>3 DEF EditOf
<1> QED BY <1>1, <1>2, <1>3

LEMMA NewKey ==
  ASSUME FilesInv, NEW c, Shape(c), KeysInv(c), c.at \in Changing,
         c.op # "revoke"
  PROVE  c.new \in known /\ c.new \notin Retired
<1>1. CASE c.op \in {"rotate", "emergency"}
  BY <1>1 DEF KeysInv, Retired, Inactive
<1>2. CASE c.op = "complete"
  <2>1. c.new \in Key /\ status[c.new] = "active"
    BY <1>2 DEF KeysInv, Successors, Mine, Active
  <2> QED BY <2>1 DEF FilesInv, Retired, Inactive
<1> QED BY <1>1, <1>2 DEF Shape

LEMMA WriteSerial ==
  ASSUME IInv, SerialInv, NEW p \in Proc, Alone(p), Write(p)
  PROVE  SerialInv'
<1> DEFINE c == run[p]
           d == [c EXCEPT !.at = "reencrypt", !.todo = Manifest]
<1>1. c \in Command /\ Shape(c) /\ c.at = "write"
  BY DEF Write, IInv, RunOK
<1>2. /\ UNCHANGED <<regVars, recipients, skipped, known, crashes>>
      /\ rules' = c.draft
  BY DEF Write
<1>3. UNCHANGED <<status, rotatedFrom>>
  BY <1>2 DEF regVars
<1>4. run'[p] = d /\ Alone(p)'
  BY Becomes DEF Write
<1>5. /\ run'[p].at = "reencrypt" /\ run'[p].op = c.op
      /\ run'[p].old = c.old /\ run'[p].new = c.new
      /\ run'[p].saved = c.saved /\ run'[p].draft = c.draft
      /\ run'[p].todo = Manifest
  BY <1>1, <1>4 DEF Command
<1>6. KeysInv(c) /\ SavedInv(c) /\ ProgressInv(c) /\ FilesInv
  BY DEF SerialInv
<1> HIDE DEF c, d
<1>7. /\ rules = c.saved.rules /\ recipients = c.saved.recipients
      /\ c.draft = EditOf(c.saved.rules, c)
      /\ \A m \in Manifest : Alike(rules[RuleOf[m]], c.draft[RuleOf[m]])
  BY <1>1, <1>6 DEF ProgressInv
<1>8. c.op \in {"rotate", "emergency", "complete", "revoke"}
  BY <1>1 DEF Shape, Changing
<1>9. FilesInv'
  <2>1. /\ \A k \in Key : status[k] # "absent" => k \in known
        /\ Recorded(rules) /\ Clean(rules, recipients, skipped)
        /\ Tied(rules, recipients, skipped)
    BY <1>6 DEF FilesInv
  <2>2. \A r \in Rule : /\ c.draft[r] \subseteq rules[r] \union {c.new}
                        /\ c.op = "revoke" => c.draft[r] \subseteq rules[r]
    BY <1>7, <1>8, EditAdds
  <2>3. c.op # "revoke" => c.new \in known /\ c.new \notin Retired
    BY <1>1, <1>6, NewKey DEF Changing
  <2>4. \A r \in Rule : c.draft[r] \subseteq known
    BY <2>1, <2>2, <2>3 DEF Recorded
  <2>5. \A k \in Retired, r \in Rule : k \notin c.draft[r]
    BY <2>1, <2>2, <2>3 DEF Clean
  <2>6. Tied(c.draft, recipients, skipped)
    <3>1. PICK R : R = rules
      OBVIOUS
    <3>2. PICK Q : Q = c.draft
      OBVIOUS
    <3>3. PICK T : T = recipients
      OBVIOUS
    <3>4. PICK S : S = skipped
      OBVIOUS
    <3>5. Tied(R, T, S) /\ \A m \in Manifest : Alike(R[RuleOf[m]], Q[RuleOf[m]])
      BY <1>7, <2>1, <3>1, <3>2, <3>3, <3>4
    <3> QED BY <3>2, <3>3, <3>4, <3>5, TiedOn
  <2>7. Recorded(rules)'
    BY <1>2, <2>4 DEF Recorded
  <2>8. Clean(rules, recipients, skipped)'
    BY <1>2, <1>3, <2>1, <2>5, Unmoved DEF Clean
  <2>9. Tied(rules, recipients, skipped)'
    BY <1>2, <1>3, <2>6, Unmoved DEF Tied, Leads, Alike
  <2> QED BY <1>2, <1>3, <2>1, <2>7, <2>8, <2>9 DEF FilesInv
<1>10. KeysInv(run[p])'
  BY <1>1, <1>2, <1>3, <1>5, <1>6, Unmoved DEF KeysInv, Changing
<1>11. SavedInv(run[p])'
  <2>1. PICK e : e = c
    OBVIOUS
  <2>2. e.at \in Backed /\ SavedInv(e)
    BY <1>1, <1>6, <2>1 DEF Backed
  <2>3. \A m \in Manifest : Alike(e.saved.rules[RuleOf[m]], rules'[RuleOf[m]])
    BY <1>2, <1>7, <2>1
  <2> QED BY <1>2, <1>3, <1>5, <2>1, <2>2, <2>3, SavedKept DEF SavedInv
<1>12. EditOf(c.saved.rules, run'[p]) = EditOf(c.saved.rules, c)
  BY <1>5 DEF EditOf
<1>13. ProgressInv(run[p])'
  BY <1>2, <1>5, <1>7, <1>12 DEF ProgressInv
<1>14. run'[p].at \in Unsettled
  BY <1>5 DEF Unsettled
<1> QED BY <1>4, <1>9, <1>10, <1>11, <1>13, <1>14, Assemble

LEMMA ReencryptSerial ==
  ASSUME IInv, SerialInv, NEW p \in Proc, Alone(p), Reencrypt(p)
  PROVE  SerialInv'
<1> DEFINE c == run[p]
<1>1. PICK f \in c.todo :
        /\ recipients' = [recipients EXCEPT ![f] = rules[RuleOf[f]]]
        /\ skipped' = skipped \ {f}
        /\ Become(p, [run[p] EXCEPT !.todo = @ \ {f}])
  BY DEF Reencrypt
<1>2. c \in Command /\ Shape(c) /\ c.at = "reencrypt"
  BY DEF Reencrypt, IInv, RunOK
<1>3. UNCHANGED <<regVars, rules, known, crashes>>
  BY DEF Reencrypt
<1>4. UNCHANGED <<status, rotatedFrom>>
  BY <1>3 DEF regVars
<1>5. run'[p] = [c EXCEPT !.todo = @ \ {f}] /\ Alone(p)'
  BY <1>1, Becomes
<1>6. /\ run'[p].at = "reencrypt" /\ run'[p].op = c.op
      /\ run'[p].old = c.old /\ run'[p].new = c.new
      /\ run'[p].saved = c.saved /\ run'[p].draft = c.draft
      /\ run'[p].todo = c.todo \ {f} /\ run'[p].outcome = c.outcome
  BY <1>2, <1>5 DEF Command
<1>7. KeysInv(c) /\ SavedInv(c) /\ ProgressInv(c) /\ FilesInv
  BY DEF SerialInv
<1> HIDE DEF c
<1>8. /\ c.draft = EditOf(c.saved.rules, c) /\ rules = c.draft
      /\ \A m \in (c.todo \union skipped) \intersect Manifest :
            recipients[m] = c.saved.recipients[m]
      /\ c.outcome = "ok" =>
            \A m \in Manifest \ (c.todo \union skipped) :
              recipients[m] = rules[RuleOf[m]]
  BY <1>2, <1>7 DEF ProgressInv
<1>9. \A m \in Manifest :
        recipients'[m] = IF m = f THEN rules[RuleOf[m]] ELSE recipients[m]
  <2>1. recipients \in [Manifest -> SUBSET Key]
    BY DEF IInv, TypeOK
  <2> QED BY <1>1, <2>1
<1>10. /\ \A k \in Key : status[k] # "absent" => k \in known
       /\ Recorded(rules) /\ Clean(rules, recipients, skipped)
       /\ Tied(rules, recipients, skipped)
  BY <1>7 DEF FilesInv
<1>11. RuleOf \in [Manifest -> Rule]
  BY ClusterAssumption
<1>12. FilesInv'
  <2>1. Recorded(rules)'
    BY <1>3, <1>10 DEF Recorded
  <2>2. Clean(rules, recipients, skipped)'
    BY <1>1, <1>3, <1>4, <1>9, <1>10, <1>11, Unmoved DEF Clean
  <2>3. Tied(rules, recipients, skipped)'
    BY <1>1, <1>3, <1>4, <1>9, <1>10, Unmoved DEF Tied, Leads, Alike
  <2> QED BY <1>3, <1>4, <1>10, <2>1, <2>2, <2>3 DEF FilesInv
<1>13. KeysInv(run[p])'
  BY <1>2, <1>3, <1>4, <1>6, <1>7, Unmoved DEF KeysInv, Changing
<1>14. SavedInv(run[p])'
  <2>1. PICK e : e = c
    OBVIOUS
  <2>2. e.at \in Backed /\ SavedInv(e)
    BY <1>2, <1>7, <2>1 DEF Backed
  <2>3. ASSUME crashes = 0, NEW m \in Manifest \ e.saved.skipped
        PROVE  recipients'[m] \subseteq e.saved.recipients[m] \union {e.new}
    <3>1. e.op \in {"rotate", "emergency", "complete", "revoke"}
      BY <1>2, <2>1 DEF Shape, Changing
    <3>2. rules[RuleOf[m]] \subseteq e.saved.rules[RuleOf[m]] \union {e.new}
      BY <1>8, <1>11, <2>1, <3>1, EditAdds
    <3>3. /\ e.saved.rules[RuleOf[m]] = e.saved.recipients[m]
          /\ recipients[m] \subseteq e.saved.recipients[m] \union {e.new}
      BY <2>2, <2>3 DEF SavedInv, Matched
    <3> QED BY <1>9, <3>2, <3>3
  <2>4. \A m \in Manifest : Alike(e.saved.rules[RuleOf[m]], rules'[RuleOf[m]])
    BY <1>3, <2>2 DEF SavedInv
  <2> QED BY <1>3, <1>4, <1>6, <2>1, <2>2, <2>3, <2>4, SavedKept
<1>15. EditOf(c.saved.rules, run'[p]) = EditOf(c.saved.rules, c)
  BY <1>6 DEF EditOf
<1>16. ProgressInv(run[p])'
  BY <1>1, <1>3, <1>6, <1>8, <1>9, <1>15 DEF ProgressInv
<1>17. run'[p].at \in Unsettled
  BY <1>6 DEF Unsettled
<1> QED BY <1>5, <1>12, <1>13, <1>14, <1>16, <1>17, Assemble

(* A manifest that is passed over is as it was backed up.                  *)
LEMMA SkipsSerial ==
  ASSUME IInv, SerialInv, NEW p \in Proc, Alone(p), ReencryptSkips(p)
  PROVE  SerialInv'
<1> DEFINE c == run[p]
<1>1. PICK f \in c.todo \intersect Flaky :
        /\ skipped' = skipped \union {f}
        /\ Become(p, [run[p] EXCEPT !.todo = @ \ {f}])
  BY Zenon DEF ReencryptSkips
<1>2. c \in Command /\ Shape(c) /\ c.at = "reencrypt"
  BY DEF ReencryptSkips, IInv, RunOK
<1>3. UNCHANGED <<regVars, rules, recipients, known, crashes>>
  BY DEF ReencryptSkips
<1>4. UNCHANGED <<status, rotatedFrom>>
  BY <1>3 DEF regVars
<1>5. run'[p] = [c EXCEPT !.todo = @ \ {f}] /\ Alone(p)'
  BY <1>1, Becomes
<1>6. /\ run'[p].at = "reencrypt" /\ run'[p].op = c.op
      /\ run'[p].old = c.old /\ run'[p].new = c.new
      /\ run'[p].saved = c.saved /\ run'[p].draft = c.draft
      /\ run'[p].todo = c.todo \ {f} /\ run'[p].outcome = c.outcome
  BY <1>2, <1>5 DEF Command
<1>7. KeysInv(c) /\ SavedInv(c) /\ ProgressInv(c) /\ FilesInv
  BY DEF SerialInv
<1> HIDE DEF c
<1>8. /\ \A k \in Key : status[k] # "absent" => k \in known
      /\ Recorded(rules) /\ Clean(rules, recipients, skipped)
      /\ Tied(rules, recipients, skipped)
  BY <1>7 DEF FilesInv
<1>9. FilesInv'
  <2>1. Recorded(rules)'
    BY <1>3, <1>8 DEF Recorded
  <2>2. Clean(rules, recipients, skipped)'
    BY <1>1, <1>3, <1>4, <1>8, Unmoved DEF Clean
  <2>3. Tied(rules, recipients, skipped)'
    BY <1>1, <1>3, <1>4, <1>8, Unmoved DEF Tied, Leads, Alike
  <2> QED BY <1>3, <1>4, <1>8, <2>1, <2>2, <2>3 DEF FilesInv
<1>10. KeysInv(run[p])'
  BY <1>2, <1>3, <1>4, <1>6, <1>7, Unmoved DEF KeysInv, Changing
<1>11. SavedInv(run[p])'
  <2>1. PICK e : e = c
    OBVIOUS
  <2>2. e.at \in Backed /\ SavedInv(e)
    BY <1>2, <1>7, <2>1 DEF Backed
  <2> QED BY <1>3, <1>4, <1>6, <2>1, <2>2, SavedKept DEF SavedInv
<1>12. EditOf(c.saved.rules, run'[p]) = EditOf(c.saved.rules, c)
  BY <1>6 DEF EditOf
<1>13. ProgressInv(run[p])'
  BY <1>1, <1>2, <1>3, <1>6, <1>7, <1>12 DEF ProgressInv
<1>14. run'[p].at \in Unsettled
  BY <1>6 DEF Unsettled
<1> QED BY <1>5, <1>9, <1>10, <1>11, <1>13, <1>14, Assemble

(* The steps that move on or give up with the files as they are.           *)
LEMMA TurnSerial ==
  ASSUME IInv, SerialInv, NEW p \in Proc, Alone(p),
         ReencryptFails(p) \/ LoopEnds(p) \/ Fail(p)
  PROVE  SerialInv'
<1> DEFINE c == run[p]
<1>1. c \in Command /\ c.at \in Backed
  <2>1. c.at \in {"reencrypt", "edit", "write", "commit"}
    BY Zenon DEF ReencryptFails, LoopEnds, Fail
  <2> QED BY <2>1 DEF Backed, IInv, RunOK
<1>2. UNCHANGED <<regVars, rules, recipients, skipped, known, crashes>>
  <2>1. UNCHANGED <<regVars, files, keyFile, known, crashes>>
    BY Zenon DEF ReencryptFails, LoopEnds, Fail
  <2> QED BY <2>1 DEF files
<1>3. UNCHANGED <<status, rotatedFrom>>
  BY <1>2 DEF regVars
<1>4. KeysInv(c) /\ SavedInv(c) /\ ProgressInv(c)
  BY DEF SerialInv
<1>5. FilesInv'
  BY <1>2, <1>3, FilesKept
<1>6. ASSUME Alone(p)', run'[p].at \in Unsettled,
             run'[p].saved = c.saved, run'[p].new = c.new,
             KeysInv(run[p])', ProgressInv(run[p])'
      PROVE  SerialInv'
  <2> HIDE DEF c
  <2>1. PICK e : e = c
    OBVIOUS
  <2>2. e.at \in Backed /\ SavedInv(e)
    BY <1>1, <1>4, <2>1
  <2>3. SavedInv(run[p])'
    BY <1>2, <1>3, <1>6, <2>1, <2>2, SavedKept DEF SavedInv
  <2> QED BY <1>5, <1>6, <2>3, Assemble
<1>7. ASSUME Alone(p)', run'[p] = RollingBack(c)
      PROVE  SerialInv'
  <2>1. /\ run'[p].at = "rollback" /\ run'[p].saved = c.saved
        /\ run'[p].new = c.new /\ run'[p].todo = Manifest \union {SopsConfig}
    BY <1>1, <1>7 DEF RollingBack, BackedUp, Command
  <2> HIDE DEF c
  <2>2. KeysInv(run[p])' /\ ProgressInv(run[p])'
    BY <2>1 DEF KeysInv, ProgressInv, Changing
  <2> QED BY <1>6, <1>7, <2>1, <2>2 DEF Unsettled
<1>8. CASE Fail(p)
  BY <1>7, <1>8, Becomes DEF Fail
<1>9. CASE ReencryptFails(p)
  <2>1. PICK m \in c.todo :
          Become(p, [c EXCEPT !.todo = @ \ {m}, !.outcome = "failed"])
    BY <1>9, Zenon DEF ReencryptFails
  <2>2. c.at = "reencrypt"
    BY <1>9, Zenon DEF ReencryptFails
  <2>3. /\ run'[p] = [c EXCEPT !.todo = @ \ {m}, !.outcome = "failed"]
        /\ Alone(p)'
    BY <2>1, Becomes
  <2>4. /\ run'[p].at = "reencrypt" /\ run'[p].op = c.op
        /\ run'[p].old = c.old /\ run'[p].new = c.new
        /\ run'[p].saved = c.saved /\ run'[p].draft = c.draft
        /\ run'[p].todo = c.todo \ {m} /\ run'[p].outcome = "failed"
    BY <1>1, <2>2, <2>3 DEF Command
  <2> HIDE DEF c
  <2>5. KeysInv(run[p])'
    BY <1>2, <1>3, <1>4, <2>2, <2>4, Unmoved DEF KeysInv, Changing
  <2>6. EditOf(c.saved.rules, run'[p]) = EditOf(c.saved.rules, c)
    BY <2>4 DEF EditOf
  <2>7. ProgressInv(run[p])'
    BY <1>2, <1>4, <2>2, <2>4, <2>6 DEF ProgressInv
  <2> QED BY <1>6, <2>3, <2>4, <2>5, <2>7 DEF Unsettled
<1>10. CASE LoopEnds(p)
  <2>1. c.at = "reencrypt" /\ c.todo = {}
    BY <1>10 DEF LoopEnds
  <2>2. run'[p] = AfterLoop(c) /\ Alone(p)'
    BY <1>10, Becomes DEF LoopEnds
  <2>3. CASE c.outcome = "ok"
    <3>1. run'[p] = [c EXCEPT !.at = "commit"]
      BY <2>2, <2>3 DEF AfterLoop
    <3>2. /\ run'[p].at = "commit" /\ run'[p].op = c.op
          /\ run'[p].old = c.old /\ run'[p].new = c.new
          /\ run'[p].saved = c.saved /\ run'[p].draft = c.draft
          /\ run'[p].todo = c.todo /\ run'[p].outcome = "ok"
      BY <1>1, <2>3, <3>1 DEF Command
    <3> HIDE DEF c
    <3>3. KeysInv(run[p])'
      BY <1>2, <1>3, <1>4, <2>1, <3>2, Unmoved DEF KeysInv, Changing
    <3>4. EditOf(c.saved.rules, run'[p]) = EditOf(c.saved.rules, c)
      BY <3>2 DEF EditOf
    <3>5. ProgressInv(run[p])'
      BY <1>2, <1>4, <2>1, <2>3, <3>2, <3>4 DEF ProgressInv
    <3> QED BY <1>6, <2>2, <3>2, <3>3, <3>5 DEF Unsettled
  <2>4. CASE c.outcome # "ok"
    BY <1>7, <2>2, <2>4 DEF AfterLoop
  <2> QED BY <2>3, <2>4
<1> QED BY <1>8, <1>9, <1>10

(* The removal that ends an emergency starts like any other.               *)
LEMMA PrecheckSerial ==
  ASSUME IInv, SerialInv, NEW p \in Proc, Alone(p), Precheck(p)
  PROVE  SerialInv'
<1>1. UNCHANGED <<regVars, rules, recipients, skipped, known, crashes>>
  BY DEF Precheck, files
<1>2. UNCHANGED <<status, rotatedFrom>>
  BY <1>1 DEF regVars
<1>3. FilesInv' /\ Orderly'
  <2>1. run[p].at \notin Unsettled
    BY DEF Precheck, Unsettled
  <2> QED BY <1>1, <1>2, <2>1, WasOrderly, FilesKept, OrderKept
<1>4. CASE RegistryReadable /\ Revocable(run[p].target)
  <2>1. run'[p] = Removal(run[p].target) /\ Alone(p)'
    BY <1>4, Becomes DEF Precheck
  <2>2. /\ run'[p].at = "backup" /\ run'[p].op = "revoke"
        /\ run'[p].old = run[p].target
    BY <2>1 DEF Removal, Idle
  <2>3. run[p].target \in Mine /\ NoDrift
    BY <1>4 DEF Revocable
  <2>4. NoDrift'
    BY <1>1, <1>2, <2>3, Unmoved DEF NoDrift, Named
  <2>5. KeysInv(run[p])' /\ SavedInv(run[p])' /\ ProgressInv(run[p])'
    BY <1>2, <2>2, <2>3, <2>4, Unmoved
       DEF KeysInv, SavedInv, ProgressInv, Backed
  <2> QED BY <1>3, <2>1, <2>5, Assemble
<1>5. CASE ~(RegistryReadable /\ Revocable(run[p].target))
  <2>1. run'[p] = Idle /\ Alone(p)'
    BY <1>5, Becomes DEF Precheck
  <2> QED BY <1>3, <2>1, IdleKept, Assemble
<1> QED BY <1>4, <1>5

(* A restored file is one that was in order; when the last is restored,    *)
(* all of them are.                                                        *)
LEMMA RollbackSerial ==
  ASSUME IInv, SerialInv, NEW p \in Proc, Alone(p), Rollback(p)
  PROVE  SerialInv'
<1>1. PICK c : c = run[p]
  OBVIOUS
<1>2. PICK f \in c.todo :
        /\ rules' = IF f = SopsConfig THEN c.saved.rules ELSE rules
        /\ recipients' = [m \in Manifest |-> IF m = f
             THEN c.saved.recipients[m] ELSE recipients[m]]
        /\ skipped' = (skipped \ {f}) \union ({f} \intersect c.saved.skipped)
        /\ Become(p, IF c.todo = {f} THEN Idle ELSE [c EXCEPT !.todo = @ \ {f}])
  BY <1>1 DEF Rollback
<1>3. /\ c \in Command /\ c.at = "rollback" /\ c.at \in Backed
      /\ SavedInv(c) /\ ProgressInv(c) /\ FilesInv
  BY <1>1 DEF Rollback, IInv, RunOK, SerialInv, Backed
<1>4. UNCHANGED <<regVars, known, crashes>>
  BY DEF Rollback
<1>5. UNCHANGED <<status, rotatedFrom>>
  BY <1>4 DEF regVars
<1>6. /\ run'[p] = IF c.todo = {f} THEN Idle ELSE [c EXCEPT !.todo = @ \ {f}]
      /\ Alone(p)'
  <2>1. PICK d : d = IF c.todo = {f} THEN Idle ELSE [c EXCEPT !.todo = @ \ {f}]
    OBVIOUS
  <2> QED BY <1>2, <2>1, Becomes
<1>7. /\ Recorded(c.saved.rules)
      /\ Clean(c.saved.rules, c.saved.recipients, c.saved.skipped)
      /\ Tied(c.saved.rules, c.saved.recipients, c.saved.skipped)
      /\ \A m \in Manifest : Alike(c.saved.rules[RuleOf[m]], rules[RuleOf[m]])
      /\ crashes = 0 =>
           /\ Matched(c.saved.rules, c.saved.recipients, c.saved.skipped)
           /\ Paired(c.saved.rules)
           /\ \A m \in Manifest \ c.saved.skipped :
                recipients[m] \subseteq c.saved.recipients[m] \union {c.new}
  BY <1>3 DEF SavedInv
<1>8. /\ \A k \in Key : status[k] # "absent" => k \in known
      /\ Recorded(rules) /\ Clean(rules, recipients, skipped)
      /\ Tied(rules, recipients, skipped)
  BY <1>3 DEF FilesInv
<1>9. /\ rules' \in {rules, c.saved.rules}
      /\ \A m \in Manifest :
           IF m = f
           THEN /\ recipients'[m] = c.saved.recipients[m]
                /\ m \in skipped' <=> m \in c.saved.skipped
           ELSE /\ recipients'[m] = recipients[m]
                /\ m \in skipped' <=> m \in skipped
  BY <1>2
<1>10. \A m \in Manifest : Alike(c.saved.rules[RuleOf[m]], rules'[RuleOf[m]])
  BY <1>7, <1>9 DEF Alike
<1>11. FilesInv'
  <2>1. Recorded(rules)'
    BY <1>4, <1>7, <1>8, <1>9 DEF Recorded
  <2>2. Clean(rules, recipients, skipped)'
    BY <1>5, <1>7, <1>8, <1>9, Unmoved DEF Clean
  <2>3. ASSUME NEW m \in Manifest
        PROVE  IF m \in skipped' THEN Leads(recipients'[m], rules'[RuleOf[m]])
                                 ELSE Alike(recipients'[m], rules'[RuleOf[m]])
    <3>1. CASE m = f
      <4>1. IF m \in skipped'
            THEN Leads(recipients'[m], c.saved.rules[RuleOf[m]])
            ELSE Alike(recipients'[m], c.saved.rules[RuleOf[m]])
        BY <1>7, <1>9, <3>1 DEF Tied
      <4> QED BY <1>10, <4>1, AlikeOn
    <3>2. CASE m # f
      <4>1. IF m \in skipped' THEN Leads(recipients'[m], rules[RuleOf[m]])
                              ELSE Alike(recipients'[m], rules[RuleOf[m]])
        BY <1>8, <1>9, <3>2 DEF Tied
      <4>2. Alike(rules[RuleOf[m]], rules'[RuleOf[m]])
        BY <1>7, <1>10, AlikeBack, AlikeOn
      <4> QED BY <4>1, <4>2, AlikeOn
    <3> QED BY <3>1, <3>2
  <2>4. Tied(rules, recipients, skipped)'
    BY <1>5, <2>3, Unmoved DEF Tied, Leads, Alike
  <2> QED BY <1>4, <1>5, <1>8, <2>1, <2>2, <2>4 DEF FilesInv
<1>12. CASE c.todo = {f}
  <2>1. run'[p] = Idle
    BY <1>6, <1>12
  <2>2. rules' = c.saved.rules
    BY <1>2, <1>3, <1>12 DEF ProgressInv
  <2>3. \A m \in Manifest : /\ recipients'[m] = c.saved.recipients[m]
                            /\ m \in skipped' <=> m \in c.saved.skipped
    BY <1>3, <1>9, <1>12 DEF ProgressInv
  <2>4. Orderly'
    BY <1>4, <1>5, <1>7, <2>2, <2>3, Unmoved DEF Orderly, Matched, Paired
  <2> QED BY <1>6, <1>11, <2>1, <2>4, IdleKept, Assemble
<1>13. CASE c.todo # {f}
  <2>1. run'[p] = [c EXCEPT !.todo = @ \ {f}]
    BY <1>6, <1>13
  <2>2. /\ run'[p].at = "rollback" /\ run'[p].saved = c.saved
        /\ run'[p].new = c.new /\ run'[p].todo = c.todo \ {f}
    BY <1>3, <2>1 DEF Command
  <2>3. KeysInv(run[p])'
    BY <2>2 DEF KeysInv, Changing
  <2>4. ProgressInv(run[p])'
    BY <1>2, <1>3, <1>9, <2>2 DEF ProgressInv
  <2>5. crashes = 0 =>
          \A m \in Manifest \ c.saved.skipped :
            recipients'[m] \subseteq c.saved.recipients[m] \union {c.new}
    BY <1>7, <1>9
  <2>6. SavedInv(run[p])'
    BY <1>3, <1>4, <1>5, <1>10, <2>2, <2>5, SavedKept
  <2> QED BY <1>6, <1>11, <2>2, <2>3, <2>4, <2>6, Assemble DEF Unsettled
<1> QED BY <1>12, <1>13

-----------------------------------------------------------------------------
(* The registry call that makes a change official.  By then every rule is  *)
(* the edited one; a manifest is encrypted by its rule, or was passed over *)
(* and is as it was.                                                       *)
LEMMA AtCommit ==
  ASSUME NEW c, c.at = "commit", ProgressInv(c)
  PROVE  /\ rules = EditOf(c.saved.rules, c)
         /\ \A m \in Manifest : IF m \in skipped
                                THEN recipients[m] = c.saved.recipients[m]
                                ELSE recipients[m] = rules[RuleOf[m]]
BY DEF ProgressInv

(* A rotation has one pending successor, the key it made.                  *)
LEMMA ReplaceMoves ==
  ASSUME RegInv, NEW old \in Key, NEW new \in Key,
         ReplacePrimary(old, new, "active"), old \in Mine, Successors = {}
  PROVE  /\ Mine' = Mine \union {new} /\ Retired' = Retired
         /\ Successors' \subseteq {new} /\ rotatedFrom'[new] = old
         /\ \A k \in Key : status'[k] # "absent" => status[k] # "absent" \/ k = new
<1>1. /\ RegistryTypeOK /\ Lineage
      /\ status[new] = "absent" /\ status[old] = "active"
      /\ GroupOf[old] = GroupOf[new]
      /\ status' = [status EXCEPT ![new] = "active", ![old] = "active"]
      /\ rotatedFrom' = [rotatedFrom EXCEPT ![new] = old]
  BY DEF ReplacePrimary, Unregistered, CurrentPrimary, Save, RegInv
<1>2. \A k \in Key :
        /\ status'[k] = IF k \in {old, new} THEN "active" ELSE status[k]
        /\ rotatedFrom'[k] = IF k = new THEN old ELSE rotatedFrom[k]
  BY <1>1 DEF RegistryTypeOK
<1>3. Mine' = Mine \union {new}
  BY <1>1, <1>2 DEF Mine, Members, Active
<1>4. Retired' = Retired
  BY <1>1, <1>2 DEF Retired, Inactive
<1>5. ASSUME NEW k \in Successors' PROVE k = new
  <2>1. k \in Mine' /\ rotatedFrom'[k] \in Mine' /\ k \in Key
    BY DEF Successors, Mine, Members
  <2>2. SUFFICES ASSUME k # new PROVE FALSE
    OBVIOUS
  <2>3. k \in Mine /\ rotatedFrom[k] \in Mine \union {new}
    BY <1>2, <1>3, <2>1, <2>2
  <2>4. rotatedFrom[k] # new
    BY <1>1, <2>1, GroupAssumption DEF Lineage
  <2> QED BY <2>3, <2>4 DEF Successors
<1> QED BY <1>1, <1>2, <1>3, <1>4, <1>5

(* A retirement takes the key, and the rotations it was part of.           *)
LEMMA RetireMoves ==
  ASSUME RegistryTypeOK, NEW old \in Key, NEW s \in Inactive,
         UpdateKeys({old}, s)
  PROVE  /\ Mine' = Mine \ {old} /\ Retired' \subseteq Retired \union {old}
         /\ \A k \in Successors' :
              k \in Successors /\ k # old /\ rotatedFrom[k] # old
         /\ UNCHANGED rotatedFrom
         /\ \A k \in Key : status'[k] # "absent" => status[k] # "absent"
<1>1. /\ status' = [k \in Key |-> IF k \in {old} THEN s ELSE status[k]]
      /\ UNCHANGED rotatedFrom /\ status[old] # "absent"
  BY DEF UpdateKeys, Save, Unregistered
<1>2. \A k \in Key : status'[k] = IF k = old THEN s ELSE status[k]
  BY <1>1
<1>3. Mine' = Mine \ {old}
  BY <1>2 DEF Mine, Members, Active, Inactive
<1>4. Retired' \subseteq Retired \union {old}
  BY <1>2 DEF Retired
<1>5. \A k \in Successors' :
        k \in Successors /\ k # old /\ rotatedFrom[k] # old
  BY <1>1, <1>3 DEF Successors
<1> QED BY <1>1, <1>2, <1>3, <1>4, <1>5

LEMMA RetiredGrows ==
  ASSUME RegistryTypeOK, NEW old \in Key, NEW s \in Inactive,
         UpdateKeys({old}, s)
  PROVE  Retired \subseteq Retired' /\ old \in Retired'
<1>1. \A k \in Key : status'[k] = IF k = old THEN s ELSE status[k]
  BY DEF UpdateKeys, Save
<1> QED BY <1>1 DEF Retired

LEMMA CommitSerial ==
  ASSUME IInv, RegInv, SerialInv, NEW p \in Proc, Alone(p), Commit(p)
  PROVE  SerialInv'
<1>1. run[p] \in Command /\ Shape(run[p]) /\ run[p].at = "commit"
  BY DEF Commit, IInv, RunOK
<1>2. PICK c \in Command : c = run[p]
  BY <1>1
<1>3. /\ Shape(c) /\ c.at = "commit" /\ c.old \in Key
      /\ KeysInv(c) /\ SavedInv(c) /\ ProgressInv(c) /\ FilesInv
  BY <1>1, <1>2 DEF SerialInv, Shape, Changing
<1>4. UNCHANGED <<rules, recipients, skipped, known, crashes>>
  BY DEF Commit, files
<1>5. /\ rules = EditOf(c.saved.rules, c)
      /\ \A m \in Manifest : IF m \in skipped
                             THEN recipients[m] = c.saved.recipients[m]
                             ELSE recipients[m] = rules[RuleOf[m]]
  BY <1>3, AtCommit
<1>6. /\ Alone(p)' /\ run'[p].at \notin Unsettled
      /\ KeysInv(run[p])' /\ SavedInv(run[p])' /\ ProgressInv(run[p])'
  <2>1. CASE c.op = "emergency"
    <3>1. PICK d : d = [Idle EXCEPT !.op = "emergency", !.at = "precheck",
                                    !.target = c.target]
      OBVIOUS
    <3>2. Become(p, d)
      BY <1>2, <2>1, <3>1 DEF Commit
    <3>3. d.op = "emergency" /\ d.at = "precheck"
      BY <3>1 DEF Idle
    <3>4. run'[p].op = "emergency" /\ run'[p].at = "precheck" /\ Alone(p)'
      BY <3>2, <3>3, Becomes
    <3> QED BY <3>4
            DEF KeysInv, SavedInv, ProgressInv, Changing, Backed, Unsettled
  <2>2. CASE c.op # "emergency"
    <3>1. Become(p, Idle)
      BY <1>2, <2>2 DEF Commit
    <3>2. run'[p] = Idle /\ Alone(p)'
      BY <3>1, Becomes
    <3> QED BY <3>2, IdleKept DEF Idle, Unsettled
  <2> QED BY <2>1, <2>2
<1>7. /\ \A k \in Key : status[k] # "absent" => k \in known
      /\ Recorded(rules) /\ Clean(rules, recipients, skipped)
      /\ Tied(rules, recipients, skipped)
  BY <1>3 DEF FilesInv
<1>8. Recorded(rules)'
  BY <1>4, <1>7 DEF Recorded
<1>9. \A m \in Manifest : RuleOf[m] \in Rule
  BY ClusterAssumption
<1>10. crashes = 0 =>
         /\ Matched(c.saved.rules, c.saved.recipients, c.saved.skipped)
         /\ Paired(c.saved.rules)
  BY <1>3 DEF SavedInv, Backed
<1>11. CASE c.op \in {"rotate", "emergency"}
  <2>1. /\ c.new \in Key /\ c.new \in known /\ c.old \in Mine
        /\ Successors = {} /\ status[c.new] = "absent"
        /\ \A r \in Rule : c.new \notin c.saved.rules[r]
    BY <1>3, <1>11 DEF Shape, KeysInv, Changing
  <2>2. ReplacePrimary(c.old, c.new, "active")
    BY <1>2, <1>11 DEF Commit, Replace
  <2>3. /\ Mine' = Mine \union {c.new} /\ Retired' = Retired
        /\ Successors' \subseteq {c.new} /\ rotatedFrom'[c.new] = c.old
        /\ \A k \in Key :
             status'[k] # "absent" => status[k] # "absent" \/ k = c.new
    BY <1>3, <2>1, <2>2, ReplaceMoves
  <2>4. Clean(rules, recipients, skipped)'
    BY <1>4, <1>7, <2>3 DEF Clean
  <2>5. FilesInv'
    <3>1. Tied(rules, recipients, skipped)'
      BY <1>4, <1>7, <2>3 DEF Tied, Leads, Alike
    <3> QED BY <1>4, <1>7, <1>8, <2>1, <2>3, <2>4, <3>1 DEF FilesInv
  <2>6. \A r \in Rule : c.old \in rules[r] <=> c.new \in rules[r]
    <3>1. c.old # c.new
      BY <2>1 DEF Mine, Active
    <3> QED BY <1>5, <1>11, <2>1, <3>1 DEF EditOf
  <2>7. Paired(rules)'
    BY <1>4, <2>3, <2>6 DEF Paired
  <2>8. ASSUME crashes = 0, NEW m \in Manifest, m \in skipped
        PROVE  recipients[m] \ rules[RuleOf[m]] \subseteq Retired
    <3>1. recipients[m] \ c.saved.rules[RuleOf[m]] \subseteq Retired
      BY <1>5, <1>10, <2>8 DEF Matched
    <3>2. c.saved.rules[RuleOf[m]] \subseteq rules[RuleOf[m]]
      BY <1>5, <1>9, <1>11 DEF EditOf
    <3> QED BY <3>1, <3>2
  <2>9. Orderly'
    BY <1>4, <1>5, <2>3, <2>7, <2>8 DEF Orderly, Matched
  <2> QED BY <1>6, <2>5, <2>9, Assemble
<1>12. CASE c.op \in {"complete", "revoke"}
  <2>1. PICK s \in Inactive : UpdateKeys({c.old}, s)
    BY <1>2, <1>12 DEF Commit, Inactive
  <2>2. RegistryTypeOK
    BY DEF RegInv
  <2>3. /\ Mine' = Mine \ {c.old} /\ Retired' \subseteq Retired \union {c.old}
        /\ \A k \in Successors' :
             k \in Successors /\ k # c.old /\ rotatedFrom[k] # c.old
        /\ UNCHANGED rotatedFrom
        /\ \A k \in Key : status'[k] # "absent" => status[k] # "absent"
    BY <1>3, <2>1, <2>2, RetireMoves
  <2>4. c.op = "complete" =>
          c.new \in Successors /\ rotatedFrom[c.new] = c.old /\ c.new # c.old
    <3>1. ASSUME c.op = "complete"
          PROVE  c.new \in Successors /\ rotatedFrom[c.new] = c.old
      BY <1>3, <3>1 DEF KeysInv, Changing
    <3>2. ASSUME c.op = "complete" PROVE c.new # c.old
      <4>1. c.new \in Key /\ rotatedFrom[c.new] = c.old
        BY <1>3, <3>1, <3>2 DEF Shape, Changing
      <4>2. PICK k \in {c.new} : rotatedFrom[k] \notin {c.new}
        BY <4>1 DEF RegInv, Lineage
      <4> QED BY <4>1, <4>2
    <3> QED BY <3>1, <3>2
  <2>5. \A r \in Rule : c.old \notin rules[r]
    BY <1>5, <1>12, <2>4 DEF EditOf
  <2>6. \A m \in Manifest \ skipped : c.old \notin recipients[m]
    BY <1>5, <1>9, <2>5
  <2>7. Clean(rules, recipients, skipped)'
    BY <1>4, <1>7, <2>3, <2>5, <2>6 DEF Clean
  <2>8. FilesInv'
    <3>1. ASSUME NEW m \in Manifest, m \in skipped
          PROVE  \/ recipients[m] = rules[RuleOf[m]]
                 \/ \E k \in Mine' : k \in rules[RuleOf[m]]
      <4>1. Leads(recipients[m], rules[RuleOf[m]])
        BY <1>7, <3>1 DEF Tied
      <4> QED BY <1>9, <2>3, <2>5, <4>1 DEF Leads
    <3>2. Tied(rules, recipients, skipped)'
      BY <1>4, <1>5, <3>1 DEF Tied, Leads, Alike
    <3> QED BY <1>4, <1>7, <1>8, <2>3, <2>7, <3>2 DEF FilesInv
  <2>9. ASSUME crashes = 0 PROVE Paired(rules)'
    <3>1. Paired(c.saved.rules)
      BY <1>3, <2>9 DEF SavedInv, Backed
    <3>2. \A r \in Rule, k \in Key :
            k # c.old => (k \in rules[r] <=> k \in c.saved.rules[r])
      <4> SUFFICES ASSUME NEW r \in Rule, NEW k \in Key, k # c.old
                   PROVE  k \in rules[r] <=> k \in c.saved.rules[r]
        OBVIOUS
      <4>1. CASE c.op = "revoke"
        BY <1>5, <4>1 DEF EditOf
      <4>2. CASE c.op = "complete"
        <5>1. c.old \in c.saved.rules[r] <=> c.new \in c.saved.rules[r]
          BY <2>4, <3>1, <4>2 DEF Paired
        <5>2. rules[r] = IF c.old \in c.saved.rules[r]
                         THEN (c.saved.rules[r] \ {c.old}) \union {c.new}
                         ELSE c.saved.rules[r]
          BY <1>5, <4>2 DEF EditOf
        <5> QED BY <5>1, <5>2
      <4> QED BY <1>12, <4>1, <4>2
    <3>3. \A k \in Successors : k \in Key /\ rotatedFrom[k] \in Key
      BY DEF Successors, Mine, Members
    <3>4. \A r \in Rule, k \in Successors' :
            rotatedFrom[k] \in rules[r] <=> k \in rules[r]
      BY <2>3, <3>1, <3>2, <3>3 DEF Paired
    <3> QED BY <1>4, <2>3, <3>4 DEF Paired
  <2>10. ASSUME crashes = 0, NEW m \in Manifest, m \in skipped
         PROVE  recipients[m] \ rules[RuleOf[m]] \subseteq Retired'
    <3>1. recipients[m] \ c.saved.rules[RuleOf[m]] \subseteq Retired
      BY <1>5, <1>10, <2>10 DEF Matched
    <3>2. c.saved.rules[RuleOf[m]] \ rules[RuleOf[m]] \subseteq {c.old}
      BY <1>5, <1>9, <1>12 DEF EditOf
    <3>3. Retired \subseteq Retired' /\ c.old \in Retired'
      BY <2>1, <2>2, <1>3, RetiredGrows
    <3> QED BY <3>1, <3>2, <3>3
  <2>11. Orderly'
    BY <1>4, <1>5, <2>9, <2>10 DEF Orderly, Matched
  <2> QED BY <1>6, <2>8, <2>11, Assemble
<1> QED BY <1>3, <1>11, <1>12 DEF Shape, Changing

(* A key that is imported had no entry, so no rotation knows it.           *)
LEMMA ImportMoves ==
  ASSUME RegInv, NEW k \in Key, RegisterKey(k)
  PROVE  /\ Mine \subseteq Mine' /\ Retired' = Retired
         /\ Successors' = Successors /\ UNCHANGED rotatedFrom
         /\ \A j \in Key : status'[j] # "absent" => status[j] # "absent" \/ j = k
<1>1. /\ RegistryTypeOK /\ Lineage /\ status[k] = "absent"
      /\ status' = [status EXCEPT ![k] = "active"] /\ UNCHANGED rotatedFrom
  BY DEF RegisterKey, Unregistered, Save, RegInv
<1>2. \A j \in Key : status'[j] = IF j = k THEN "active" ELSE status[j]
  BY <1>1 DEF RegistryTypeOK
<1>3. Mine \subseteq Mine' /\ Mine' \subseteq Mine \union {k}
  BY <1>2 DEF Mine, Members, Active
<1>4. Retired' = Retired
  BY <1>1, <1>2 DEF Retired, Inactive
<1>5. \A j \in Key : rotatedFrom[j] \in Key => j # k /\ rotatedFrom[j] # k
  BY <1>1, GroupAssumption DEF Lineage
<1>6. Mine \subseteq Key /\ Mine' \subseteq Key
  BY DEF Mine, Members
<1>7. Successors' = Successors
  BY <1>1, <1>3, <1>5, <1>6 DEF Successors
<1> QED BY <1>1, <1>2, <1>3, <1>4, <1>7

LEMMA ImportSerial ==
  ASSUME IInv, RegInv, SerialInv, NEW p \in Proc, Alone(p), Import(p)
  PROVE  SerialInv'
<1>1. run[p] \in Command /\ Shape(run[p]) /\ run[p].at = "import"
  BY DEF Import, IInv, RunOK
<1>2. KeysInv(run[p]) /\ FilesInv
  BY DEF SerialInv
<1>3. Orderly
  BY <1>1, WasOrderly DEF Unsettled
<1>4. UNCHANGED <<rules, recipients, skipped, known, crashes>>
  BY DEF Import, files
<1>5. CASE UNCHANGED regVars /\ Become(p, Chosen)
  <2>1. UNCHANGED <<status, rotatedFrom>>
    BY <1>5 DEF regVars
  <2>2. Chosen.at \in {"promote", "idle"} /\ Chosen.op \in {"reconcile", "none"}
    BY DEF Chosen, Idle
  <2>3. /\ run'[p].at \in {"promote", "idle"}
        /\ run'[p].op \in {"reconcile", "none"} /\ Alone(p)'
    <3>1. PICK d : d = Chosen
      OBVIOUS
    <3> QED BY <1>5, <2>2, <3>1, Becomes
  <2>4. KeysInv(run[p])' /\ SavedInv(run[p])' /\ ProgressInv(run[p])'
    BY <2>3 DEF KeysInv, SavedInv, ProgressInv, Changing, Backed
  <2> QED BY <1>3, <1>4, <2>1, <2>3, <2>4, FilesKept, OrderKept, Assemble
<1>6. ASSUME NEW k \in run[p].todo, RegisterKey(k),
             Become(p, [run[p] EXCEPT !.todo = @ \ {k}])
      PROVE  SerialInv'
  <2>1. k \in Key /\ k \in known /\ run[p].todo \subseteq known
    BY <1>1, <1>2 DEF Shape, KeysInv
  <2>2. /\ Mine \subseteq Mine' /\ Retired' = Retired
        /\ Successors' = Successors /\ UNCHANGED rotatedFrom
        /\ \A j \in Key :
             status'[j] # "absent" => status[j] # "absent" \/ j = k
    BY <1>6, <2>1, ImportMoves
  <2>3. run'[p] = [run[p] EXCEPT !.todo = @ \ {k}] /\ Alone(p)'
    BY <1>6, Becomes
  <2>4. /\ run'[p].at = "import" /\ run'[p].op = run[p].op
        /\ run'[p].todo = run[p].todo \ {k}
    BY <1>1, <2>3 DEF Command
  <2>5. KeysInv(run[p])' /\ SavedInv(run[p])' /\ ProgressInv(run[p])'
    BY <1>4, <2>1, <2>4 DEF KeysInv, SavedInv, ProgressInv, Changing, Backed
  <2>6. Recorded(rules)' /\ Clean(rules, recipients, skipped)'
    BY <1>2, <1>4, <2>2 DEF FilesInv, Recorded, Clean
  <2>7. Tied(rules, recipients, skipped)'
    BY <1>2, <1>4, <2>2 DEF FilesInv, Tied, Leads, Alike
  <2>8. FilesInv'
    BY <1>2, <1>4, <2>1, <2>2, <2>6, <2>7 DEF FilesInv
  <2>9. Orderly'
    BY <1>3, <1>4, <2>2 DEF Orderly, Matched, Paired
  <2> QED BY <2>3, <2>5, <2>8, <2>9, Assemble
<1> QED BY <1>5, <1>6 DEF Import

(* A new primary changes nothing that the commands rely on.                *)
LEMMA PromoteSerial ==
  ASSUME IInv, SerialInv, NEW p \in Proc, Alone(p), Promote(p)
  PROVE  SerialInv'
<1>1. /\ UNCHANGED <<rules, recipients, skipped, known, crashes>>
      /\ Become(p, Idle)
      /\ UNCHANGED <<status, rotatedFrom>>
  BY DEF Promote, SetPrimaryKey, Save, files
<1>2. run'[p] = Idle /\ Alone(p)'
  BY <1>1, Becomes
<1>3. Orderly
  BY WasOrderly DEF Promote, Unsettled
<1> QED BY <1>1, <1>2, <1>3, FilesKept, OrderKept, IdleKept, Assemble

LEMMA StillSerial ==
  ASSUME SerialInv,
         UNCHANGED <<status, rotatedFrom, rules, recipients, skipped, known,
                     run, crashes>>
  PROVE  SerialInv'
<1>1. FilesInv'
  BY FilesKept
<1>2. SettledInv'
  BY OrderKept DEF SerialInv, SettledInv
<1>3. ASSUME NEW p \in Proc
      PROVE  KeysInv(run[p])' /\ SavedInv(run[p])' /\ ProgressInv(run[p])'
  <2>1. KeysInv(run[p]) /\ SavedInv(run[p]) /\ ProgressInv(run[p])
    BY DEF SerialInv
  <2>2. NoDrift => NoDrift'
    BY Unmoved DEF NoDrift, Named
  <2>3. KeysInv(run[p])'
    BY <2>1, <2>2, Unmoved DEF KeysInv
  <2>4. SavedInv(run[p])'
    BY <2>1, Unmoved
       DEF SavedInv, Recorded, Clean, Tied, Leads, Alike, Matched, Paired
  <2>5. ProgressInv(run[p])'
    BY <2>1, Unmoved DEF ProgressInv, Alike, EditOf
  <2> QED BY <2>3, <2>4, <2>5
<1> QED BY <1>1, <1>2, <1>3 DEF SerialInv

-----------------------------------------------------------------------------
(* While commands do not overlap, every step finds the others idle.        *)
LEMMA StepAlone ==
  ASSUME IInv, Serial, Serial', NEW p \in Proc,
         Start(p) \/ Proceed(p) \/ Crash(p)
  PROVE  Alone(p)
<1>1. CASE Start(p)
  <2>1. PICK c : Begin(p, c) /\ c # Idle
    <3>1. CASE StartRotate(p) \/ StartEmergency(p) \/ StartComplete(p)
      <4>1. ASSUME NEW old
            PROVE  [Idle EXCEPT !.op = "rotate", !.at = "generate",
                                !.old = old] # Idle
        BY DEF Idle
      <4>2. ASSUME NEW old, NEW target
            PROVE  [Idle EXCEPT !.op = "emergency", !.at = "generate",
                                !.old = old, !.target = target] # Idle
        BY DEF Idle
      <4>3. ASSUME NEW old, NEW new
            PROVE  [Idle EXCEPT !.op = "complete", !.at = "backup",
                                !.old = old, !.new = new] # Idle
        BY DEF Idle
      <4> QED BY <3>1, <4>1, <4>2, <4>3, Zenon
              DEF StartRotate, StartEmergency, StartComplete
    <3>2. CASE StartRevoke(p)
      <4>1. \A k : Removal(k) # Idle
        BY DEF Removal, Idle
      <4> QED BY <3>2, <4>1, Zenon DEF StartRevoke
    <3>3. CASE StartReconcile(p)
      <4>1. ASSUME NEW todo
            PROVE  [Idle EXCEPT !.op = "reconcile", !.at = "import",
                                !.todo = todo] # Idle
        BY DEF Idle
      <4> QED BY <3>3, <4>1, Zenon DEF StartReconcile
    <3> QED BY <1>1, <3>1, <3>2, <3>3 DEF Start
  <2>2. Become(p, c) /\ run \in [Proc -> Command]
    BY <2>1 DEF Begin, IInv, TypeOK
  <2>3. run'[p] # Idle /\ \A q \in Proc \ {p} : run'[q] = run[q]
    BY <2>1, <2>2 DEF Become
  <2> QED BY <2>3 DEF Serial, Alone
<1>2. CASE Proceed(p) \/ Crash(p)
  <2>1. run[p] # Idle
    <3>1. CASE Crash(p)
      BY <3>1 DEF Crash
    <3>2. CASE Proceed(p)
      <4>1. run[p].at # "idle"
        BY <3>2, Zenon
           DEF Proceed, Generate, GenerateFails, Backup, Abort, Edit, Write,
               Reencrypt, ReencryptFails, ReencryptSkips, LoopEnds, Commit,
               Precheck, Fail, Rollback, Import, Promote, ReconcileFails
      <4> QED BY <4>1 DEF Idle
    <3> QED BY <1>2, <3>1, <3>2
  <2> QED BY <2>1 DEF Serial, Alone
<1> QED BY <1>1, <1>2

(***************************************************************************)
(* The invariants of the registry, for all the commands together, and of   *)
(* the files, for commands that do not overlap.                            *)
(***************************************************************************)

LEMMA RegInvStep == RegInv /\ [RegistryNext]_regVars => RegInv'
BY TypeStep, PrimaryStep, RecipientStep, LineageStep DEF RegInv

LEMMA InitLifecycleRegInv == Init => RegInv
<1> SUFFICES ASSUME Init PROVE RegInv
  OBVIOUS
<1>1. /\ status = InitialStatus /\ primary = InitialPrimary
      /\ rotatedFrom = [k \in Key |-> NoKey]
  BY DEF Init
<1>2. RegistryTypeOK
  BY <1>1, ClusterAssumption DEF RegistryTypeOK
<1>3. OnePrimary
  BY <1>1, ClusterAssumption, InitialAssumption DEF OnePrimary, Active
<1>4. SomeRecipient
  BY <1>1, InitialAssumption DEF SomeRecipient, Active
<1>5. Lineage
  <2>1. \A S \in SUBSET Key : S # {} => \E k \in S : rotatedFrom[k] \notin S
    BY <1>1, GroupAssumption
  <2> QED BY <1>1, <2>1 DEF Lineage
<1> QED BY <1>2, <1>3, <1>4, <1>5 DEF RegInv

(* However many commands run at a time, fail or are killed: at most one    *)
(* active key of a group is its primary, the registry file is encrypted to *)
(* somebody, and rotations form a history that never turns back.           *)
THEOREM SharedRegistry == Spec => [](OnePrimary /\ SomeRecipient /\ Lineage)
<1>1. IInv /\ RegInv /\ [Next]_vars => RegInv'
  BY NextOK, RegInvStep
<1>2. RegInv => OnePrimary /\ SomeRecipient /\ Lineage
  BY DEF RegInv
<1> QED BY <1>1, <1>2, InitLifecycleRegInv, LifecycleInvariant, PTL DEF Spec

(* NoReinstatement, for the commands: none of them, at whatever moment it  *)
(* runs, brings a retired fingerprint back.                                *)
THEOREM CommandsNeverReinstate == Spec => NoReinstatement
<1>1. IInv /\ [Next]_vars =>
        [\A k \in Key : status[k] \in Inactive => status'[k] \in Inactive]_regVars
  BY NextOK, RetiredStep DEF IInv, TypeOK
<1> QED BY <1>1, LifecycleInvariant, PTL DEF Spec, NoReinstatement

(* The commands together, from any registry at rest, move it only by steps *)
(* of KeyRing: a group's holder passes its role on, or loses it by being   *)
(* retired, and is never two.                                              *)
THEOREM CommandsKeepRing == Spec => [][Ring!Next]_(Ring!ringVars)
<1>1. IInv /\ RegInv /\ [Next]_vars => [Ring!Next]_(Ring!ringVars)
  BY NextOK, RingStep DEF RegInv
<1>2. IInv /\ RegInv /\ [Next]_vars => RegInv'
  BY NextOK, RegInvStep
<1> QED BY <1>1, <1>2, InitLifecycleRegInv, LifecycleInvariant, PTL DEF Spec

LEMMA InitSerialInv == Init => SerialInv
<1> SUFFICES ASSUME Init PROVE SerialInv
  OBVIOUS
<1>1. /\ status = InitialStatus /\ rotatedFrom = [k \in Key |-> NoKey]
      /\ rules \in InitialRules
      /\ recipients = [m \in Manifest |-> rules[RuleOf[m]]]
      /\ skipped = {}
      /\ known = Named \union Held \union {k \in Key : status[k] # "absent"}
      /\ run = [p \in Proc |-> Idle]
  BY DEF Init
<1>2. Matched(rules, recipients, skipped)
  BY <1>1 DEF Matched
<1>3. FilesInv
  <2>1. Recorded(rules)
    BY <1>1 DEF Recorded, Named
  <2>2. \A k \in Retired, r \in Rule : k \notin rules[r]
    BY <1>1, InitialAssumption DEF Retired
  <2>3. Clean(rules, recipients, skipped)
    BY <1>2, <2>2, ClusterAssumption DEF Clean, Matched
  <2>4. Tied(rules, recipients, skipped)
    BY <1>1, <1>2 DEF Matched, Tied, Alike
  <2> QED BY <1>1, <2>1, <2>3, <2>4 DEF FilesInv
<1>4. Successors = {}
  BY <1>1, GroupAssumption DEF Successors, Mine, Members
<1>5. SettledInv
  BY <1>2, <1>4 DEF SettledInv, Orderly, Paired
<1>6. ASSUME NEW p \in Proc
      PROVE  KeysInv(run[p]) /\ SavedInv(run[p]) /\ ProgressInv(run[p])
  <2>1. run[p].at = "idle" /\ run[p].op = "none"
    BY <1>1 DEF Idle
  <2> QED BY <2>1 DEF KeysInv, SavedInv, ProgressInv, Changing, Backed
<1> QED BY <1>3, <1>5, <1>6 DEF SerialInv

LEMMA NextSerial ==
  ASSUME IInv, RegInv, SerialInv, Serial, Serial', [Next]_vars
  PROVE  SerialInv'
<1>1. ASSUME NEW p \in Proc, Start(p) \/ Proceed(p) \/ Crash(p)
      PROVE  SerialInv'
  <2>1. Alone(p)
    BY <1>1, StepAlone
  <2>2. CASE Start(p)
    BY <2>1, <2>2, StartSerial
  <2>3. CASE Crash(p)
    BY <2>1, <2>3, EndSerial
  <2>4. CASE Proceed(p)
    <3>1. CASE Abort(p) \/ ReconcileFails(p) \/ GenerateFails(p)
      BY <2>1, <3>1, EndSerial
    <3>2. CASE ReencryptFails(p) \/ LoopEnds(p) \/ Fail(p)
      BY <2>1, <3>2, TurnSerial
    <3>3. CASE Generate(p)
      BY <2>1, <3>3, GenerateSerial
    <3>4. CASE Backup(p)
      BY <2>1, <3>4, BackupSerial
    <3>5. CASE Edit(p)
      BY <2>1, <3>5, EditSerial
    <3>6. CASE Write(p)
      BY <2>1, <3>6, WriteSerial
    <3>7. CASE Reencrypt(p)
      BY <2>1, <3>7, ReencryptSerial
    <3>8. CASE Commit(p)
      BY <2>1, <3>8, CommitSerial
    <3>9. CASE Precheck(p)
      BY <2>1, <3>9, PrecheckSerial
    <3>10. CASE Rollback(p)
      BY <2>1, <3>10, RollbackSerial
    <3>11. CASE Import(p)
      BY <2>1, <3>11, ImportSerial
    <3>12. CASE Promote(p)
      BY <2>1, <3>12, PromoteSerial
    <3>13. CASE ReencryptSkips(p)
      BY <2>1, <3>13, SkipsSerial
    <3> QED BY <2>4, <3>1, <3>2, <3>3, <3>4, <3>5, <3>6, <3>7, <3>8, <3>9,
               <3>10, <3>11, <3>12, <3>13, Zenon DEF Proceed
  <2> QED BY <1>1, <2>2, <2>3, <2>4
<1>2. CASE SetPrimary
  <2>1. UNCHANGED <<status, rotatedFrom, rules, recipients, skipped, known,
                    run, crashes>>
    BY <1>2 DEF SetPrimary, SetPrimaryKey, Save, files
  <2> QED BY <2>1, StillSerial
<1>3. CASE UNCHANGED vars
  <2>1. UNCHANGED <<status, rotatedFrom, rules, recipients, skipped, known,
                    run, crashes>>
    BY <1>3 DEF vars, regVars, files
  <2> QED BY <2>1, StillSerial
<1> QED BY <1>1, <1>2, <1>3 DEF Next

LEMMA SerialInvariant == Spec /\ []Serial => [](IInv /\ RegInv /\ SerialInv)
<1>1. IInv /\ RegInv /\ [Next]_vars => RegInv'
  BY NextOK, RegInvStep
<1>2. IInv /\ RegInv /\ SerialInv /\ Serial /\ Serial' /\ [Next]_vars
        => SerialInv'
  BY NextSerial
<1> QED BY <1>1, <1>2, InitLifecycleRegInv, InitSerialInv, LifecycleInvariant,
           PTL DEF Spec

(* RolledBack: between commands that do not overlap, whatever failed in    *)
(* them and wherever, every manifest but those that a loop could not read  *)
(* is encrypted to exactly what its rule says, and no rule names a retired *)
(* key.                                                                    *)
THEOREM RollbackRestores == Spec /\ []Serial => []RolledBack
<1>1. SerialInv => RolledBack
  <2> SUFFICES ASSUME SerialInv, crashes = 0, Quiet PROVE Consistent
    BY DEF RolledBack
  <2>1. \A p \in Proc : run[p].at \notin Unsettled
    BY DEF Quiet, Idle, Unsettled
  <2>2. Matched(rules, recipients, skipped)
    BY <2>1 DEF SerialInv, SettledInv, Orderly
  <2>3. \A r \in Rule, k \in Retired : k \notin rules[r]
    BY DEF SerialInv, FilesInv, Clean
  <2> QED BY <2>2, <2>3 DEF Matched, Consistent
<1> QED BY <1>1, SerialInvariant, PTL

(* DualKey: until a rotation is completed, the old key and the new one     *)
(* open the same manifests, of those that the loops could read.            *)
THEOREM BothKeysOpen == Spec /\ []Serial => []DualKey
<1>1. SerialInv => DualKey
  <2> SUFFICES ASSUME SerialInv, Quiet, crashes = 0,
                      NEW m \in Manifest \ skipped, NEW k \in Successors
               PROVE  rotatedFrom[k] \in recipients[m] <=> k \in recipients[m]
    BY DEF DualKey
  <2>1. \A p \in Proc : run[p].at \notin Unsettled
    BY DEF Quiet, Idle, Unsettled
  <2>2. Matched(rules, recipients, skipped) /\ Paired(rules)
    BY <2>1 DEF SerialInv, SettledInv, Orderly
  <2>3. RuleOf[m] \in Rule
    BY ClusterAssumption
  <2> QED BY <2>2, <2>3 DEF Matched, Paired
<1> QED BY <1>1, SerialInvariant, PTL

(* RetiredOut: from the commit on, also when commands were killed, a       *)
(* retired key is in no manifest but one that a loop could not read and    *)
(* none has re-encrypted since.                                            *)
THEOREM RetiredStaysOut == Spec /\ []Serial => []RetiredOut
<1>1. SerialInv => RetiredOut
  BY DEF SerialInv, FilesInv, Clean, RetiredOut
<1> QED BY <1>1, SerialInvariant, PTL

-----------------------------------------------------------------------------
(* What a step may do to a manifest.                                       *)
LEMMA ManifestStep ==
  ASSUME [Next]_vars, recipients' # recipients
  PROVE  \E p \in Proc : Reencrypt(p) \/ Rollback(p)
<1>1. ASSUME NEW p \in Proc, Start(p) \/ Crash(p) PROVE recipients' = recipients
  <2>1. UNCHANGED files
    BY <1>1, Zenon DEF Start, StartRotate, StartEmergency, StartComplete,
                       StartRevoke, StartReconcile, Begin, Crash
  <2> QED BY <2>1 DEF files
<1>2. ASSUME NEW p \in Proc, Proceed(p), ~Reencrypt(p), ~Rollback(p)
      PROVE  recipients' = recipients
  <2>1. CASE Write(p)
    BY <2>1 DEF Write
  <2>2. CASE ~Write(p) /\ ~ReencryptSkips(p)
    <3>1. UNCHANGED files
      BY <1>2, <2>2, Zenon
         DEF Proceed, Generate, GenerateFails, Backup, Abort, Edit,
             ReencryptFails, LoopEnds, Commit, Precheck, Fail, Import,
             Promote, ReconcileFails
    <3> QED BY <3>1 DEF files
  <2>3. CASE ReencryptSkips(p)
    BY <2>3 DEF ReencryptSkips
  <2> QED BY <2>1, <2>2, <2>3
<1>3. CASE SetPrimary
  BY <1>3 DEF SetPrimary, files
<1>4. CASE UNCHANGED vars
  BY <1>4 DEF vars, files
<1> QED BY <1>1, <1>2, <1>3, <1>4 DEF Next

LEMMA ReencryptTo ==
  ASSUME IInv, NEW p \in Proc, Reencrypt(p), NEW m \in Manifest,
         recipients'[m] # recipients[m]
  PROVE  m \in run[p].todo /\ recipients'[m] = rules[RuleOf[m]]
BY Zenon DEF Reencrypt, IInv, TypeOK

LEMMA RollbackTo ==
  ASSUME NEW p \in Proc, Rollback(p), NEW m \in Manifest,
         recipients'[m] # recipients[m]
  PROVE  /\ recipients'[m] = run[p].saved.recipients[m]
         /\ m \in skipped' <=> m \in run[p].saved.skipped
BY DEF Rollback

LEMMA OnlyTargetStep ==
  ASSUME IInv, SerialInv, [Next]_vars, crashes = 0,
         NEW m \in Manifest \ skipped', NEW k \in Mine,
         k \in recipients[m], k \notin recipients'[m]
  PROVE  \E p \in Proc : k \in {run[p].old, run[p].new}
<1>1. PICK p \in Proc : Reencrypt(p) \/ Rollback(p)
  BY ManifestStep
<1>2. SavedInv(run[p]) /\ ProgressInv(run[p]) /\ Shape(run[p])
  BY DEF SerialInv, IInv, RunOK
<1>3. PICK c : c = run[p]
  OBVIOUS
<1>4. RuleOf[m] \in Rule
  BY ClusterAssumption
<1>5. CASE Reencrypt(p)
  <2>1. c.at = "reencrypt"
    BY <1>3, <1>5, Zenon DEF Reencrypt
  <2>2. m \in c.todo /\ recipients'[m] = rules[RuleOf[m]]
    BY <1>3, <1>5, ReencryptTo
  <2>3. k \in c.saved.recipients[m] => k \in c.saved.rules[RuleOf[m]]
    <3>1. k \notin Retired
      BY DEF Mine, Active, Retired, Inactive
    <3>2. Matched(c.saved.rules, c.saved.recipients, c.saved.skipped)
      BY <1>2, <1>3, <2>1 DEF SavedInv, Backed
    <3> QED BY <3>1, <3>2 DEF Matched
  <2>4. /\ recipients[m] = c.saved.recipients[m]
        /\ rules = EditOf(c.saved.rules, c)
    BY <1>2, <1>3, <2>1, <2>2 DEF ProgressInv
  <2>5. k \in c.saved.rules[RuleOf[m]] \ EditOf(c.saved.rules, c)[RuleOf[m]]
    BY <2>2, <2>3, <2>4
  <2>6. c.op \in {"rotate", "emergency", "complete", "revoke"}
    BY <1>2, <1>3, <2>1 DEF Shape, Changing
  <2>7. k = c.old
    BY <1>4, <2>5, <2>6 DEF EditOf
  <2> QED BY <1>3, <2>7
<1>6. CASE Rollback(p)
  <2>1. c.at = "rollback"
    BY <1>3, <1>6 DEF Rollback
  <2>2. recipients'[m] = c.saved.recipients[m] /\ m \notin c.saved.skipped
    BY <1>3, <1>6, RollbackTo
  <2>3. recipients[m] \subseteq c.saved.recipients[m] \union {c.new}
    BY <2>2, <1>2, <1>3, <2>1 DEF SavedInv, Backed
  <2> QED BY <1>3, <2>2, <2>3
<1> QED BY <1>1, <1>5, <1>6

(* OnlyTargetRemoved: no command takes from a manifest a key that it was   *)
(* not asked to retire and did not make itself, except when it takes one   *)
(* that had been passed over back to where it was.                         *)
THEOREM RemovesOnlyTarget == Spec /\ []Serial => OnlyTargetRemoved
<1>1. IInv /\ RegInv /\ SerialInv /\ [Next]_vars =>
        [\A m \in Manifest \ skipped', k \in Mine :
           crashes = 0 /\ k \in recipients[m] \ recipients'[m]
             => \E p \in Proc : k \in {run[p].old, run[p].new}]_vars
  BY OnlyTargetStep
<1> QED BY <1>1, SerialInvariant, PTL DEF Spec, OnlyTargetRemoved

(* No method of the registry removes an entry.                             *)
LEMMA EntriesStay ==
  ASSUME RegistryTypeOK, [RegistryNext]_regVars, NEW j \in Key,
         status[j] # "absent"
  PROVE  status'[j] # "absent"
<1> USE DEF RegistryTypeOK, Save, Inactive
<1>1. ASSUME NEW k \in Key, RegisterKey(k) \/ RegisterPrimary(k)
      PROVE  status'[j] # "absent"
  BY <1>1 DEF RegisterKey, RegisterPrimary
<1>2. ASSUME NEW k \in Key, SetPrimaryKey(k) PROVE status'[j] # "absent"
  BY <1>2 DEF SetPrimaryKey
<1>3. ASSUME NEW old \in Key, NEW k \in Key, NEW s \in {"active", "archived"},
             ReplacePrimary(old, k, s)
      PROVE  status'[j] # "absent"
  BY <1>3 DEF ReplacePrimary
<1>4. ASSUME NEW K \in SUBSET Key, NEW s \in Inactive, UpdateKeys(K, s)
      PROVE  status'[j] # "absent"
  BY <1>4 DEF UpdateKeys
<1>5. ASSUME NEW k \in Key, NEW s \in Inactive, UpdateKeyStatus(k, s)
      PROVE  status'[j] # "absent"
  BY <1>4, <1>5 DEF UpdateKeyStatus
<1>6. CASE UNCHANGED regVars
  BY <1>6 DEF regVars
<1> QED
  BY <1>1, <1>2, <1>3, <1>4, <1>5, <1>6 DEF RegistryNext

LEMMA AuthorizedStep ==
  ASSUME IInv, RegInv, SerialInv, SerialInv', RegInv', [Next]_vars,
         NEW m \in Manifest \ skipped', NEW k \in Mine, k \in recipients[m]
  PROVE  \E j \in Mine' : j \in recipients'[m]
<1>1. k \in Key /\ status[k] = "active"
  BY DEF Mine, Members, Active
<1>2. CASE recipients'[m] = recipients[m]
  <2>1. k \notin Retired'
    BY <1>2 DEF SerialInv, FilesInv, Clean
  <2>2. status'[k] # "absent"
    BY <1>1, NextOK, EntriesStay DEF RegInv
  <2>3. status'[k] = "active"
    BY <1>1, <2>1, <2>2 DEF RegInv, RegistryTypeOK, Retired, Inactive
  <2>4. k \in Mine'
    BY <1>1, <2>3 DEF Mine, Members, Active
  <2> QED BY <1>2, <2>4
<1>3. CASE recipients'[m] # recipients[m]
  <2>1. PICK p \in Proc : Reencrypt(p) \/ Rollback(p)
    BY <1>3, ManifestStep
  <2>2. UNCHANGED regVars
    BY <2>1, Zenon DEF Reencrypt, Rollback
  <2>3. Mine' = Mine
    BY <2>2, Unmoved DEF regVars
  <2>4. \E j \in Mine : j \in recipients'[m]
    <3>1. Leads(recipients[m], rules[RuleOf[m]])
      BY AlikeOn DEF SerialInv, FilesInv, Tied
    <3>2. CASE Reencrypt(p)
      <4>1. recipients'[m] = rules[RuleOf[m]]
        BY <1>3, <3>2, ReencryptTo
      <4> QED BY <3>1, <4>1 DEF Leads
    <3>3. CASE Rollback(p)
      <4>1. /\ recipients'[m] = run[p].saved.recipients[m]
            /\ m \notin run[p].saved.skipped
        BY <1>3, <3>3, RollbackTo
      <4>2. run[p].at = "rollback"
        BY <3>3 DEF Rollback
      <4>3. /\ Alike(run[p].saved.rules[RuleOf[m]], rules[RuleOf[m]])
            /\ Tied(run[p].saved.rules, run[p].saved.recipients,
                    run[p].saved.skipped)
        BY <4>2 DEF SerialInv, SavedInv, Backed
      <4>4. Alike(run[p].saved.recipients[m], run[p].saved.rules[RuleOf[m]])
        BY <4>1, <4>3 DEF Tied
      <4>5. \E j \in Mine : j \in rules[RuleOf[m]]
        BY <3>1 DEF Leads
      <4> QED BY <4>1, <4>3, <4>4, <4>5 DEF Alike
    <3> QED BY <2>1, <3>2, <3>3
  <2> QED BY <2>3, <2>4
<1> QED BY <1>2, <1>3

(* StaysAuthorized: a manifest that a key of the cluster can open keeps    *)
(* one at every step, also of a command that repairs after a kill, unless  *)
(* a loop could not read it.                                               *)
THEOREM KeepsAuthorized == Spec /\ []Serial => StaysAuthorized
<1>1. /\ IInv /\ RegInv /\ SerialInv
      /\ (IInv /\ RegInv /\ SerialInv)'
      /\ [Next]_vars
      => [\A m \in Manifest \ skipped' : recipients[m] \intersect Mine # {}
            => recipients'[m] \intersect Mine' # {}]_vars
  <2> SUFFICES ASSUME IInv, RegInv, SerialInv, (IInv /\ RegInv /\ SerialInv)',
                      [Next]_vars, NEW m \in Manifest \ skipped',
                      recipients[m] \intersect Mine # {}
               PROVE  recipients'[m] \intersect Mine' # {}
    OBVIOUS
  <2>1. PICK k \in Mine : k \in recipients[m]
    OBVIOUS
  <2>2. \E j \in Mine' : j \in recipients'[m]
    BY <2>1, AuthorizedStep
  <2> QED BY <2>2
<1> QED BY <1>1, SerialInvariant, PTL DEF Spec, StaysAuthorized
=============================================================================

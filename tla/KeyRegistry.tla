---------------------------- MODULE KeyRegistry ----------------------------
(***************************************************************************)
(* internal/secrets/registry.go: the encrypted key registry that every     *)
(* openCenter command shares.  A mutating method holds the registry lock   *)
(* while it loads, changes and atomically replaces the file, so a method   *)
(* is one action.  A method that returns an error saves nothing: it has no *)
(* action.  Timestamps, owners and reasons are left out.                   *)
(***************************************************************************)
EXTENDS FiniteSets

CONSTANTS
  Key,       \* fingerprints
  Group,     \* (cluster, key type) pairs
  AgeGroup,  \* the groups of Age keys, of all clusters
  GroupOf,   \* the group a key belongs to
  NoKey      \* the empty RotatedFrom

ASSUME GroupAssumption ==
  /\ GroupOf \in [Key -> Group]
  /\ AgeGroup \subseteq Group
  /\ NoKey \notin Key

VARIABLES
  status,       \* the Status of a key, "absent" when it has no entry
  primary,      \* the keys whose Primary flag is set
  rotatedFrom   \* the predecessor of a key made by a rotation

regVars == <<status, primary, rotatedFrom>>

\* A bug to catch: a retirement writes a status its readers do not know.
InactiveMisnamed == {"archived", "expired"}

Inactive == {"archived", "revoked"}

RegistryTypeOK ==
  /\ status \in [Key -> {"absent", "active", "archived", "revoked"}]
  /\ primary \in SUBSET Key
  /\ rotatedFrom \in [Key -> Key \union {NoKey}]

Active == {k \in Key : status[k] = "active"}

Peers(k) == {j \in Key : GroupOf[j] = GroupOf[k]}

(* selectKey with primaryOnly: the active primaries of a key's group.      *)
PrimariesBeside(k) == Peers(k) \intersect primary \intersect Active

(* saveRegistry encrypts the file to the active Age keys of all clusters   *)
(* and refuses to save when there are none.                                *)
\* A bug to catch: a save that encrypts to whatever is left.
SaveUnchecked(newStatus) == TRUE

SaveAllowed(newStatus) ==
  \E k \in Key : GroupOf[k] \in AgeGroup /\ newStatus[k] = "active"

(* loadRegistry on a missing file: an empty registry.                      *)
RegistryInit ==
  /\ status = [k \in Key |-> "absent"]
  /\ primary = {}
  /\ rotatedFrom = [k \in Key |-> NoKey]

-----------------------------------------------------------------------------
(* Mutations, as new values of status: each ends in saveRegistry.          *)

Save(newStatus) ==
  /\ SaveAllowed(newStatus)
  /\ status' = newStatus

\* A bug to catch: only an active duplicate refuses a registration.
NotInUse(k) == status[k] # "active"

Unregistered(k) == status[k] = "absent"

RegisterKey(k) ==
  /\ Unregistered(k)
  /\ Save([status EXCEPT ![k] = "active"])
  /\ UNCHANGED <<primary, rotatedFrom>>

\* A bug to catch: the registration does not look for a primary.
RoleUnchecked(k) == TRUE

RoleFree(k) == PrimariesBeside(k) = {}

(* RegisterKey with entry.Primary set.                                     *)
RegisterPrimary(k) ==
  /\ Unregistered(k)
  /\ RoleFree(k)
  /\ Save([status EXCEPT ![k] = "active"])
  /\ primary' = primary \union {k}
  /\ UNCHANGED rotatedFrom

SetPrimaryKey(k) ==
  /\ status[k] = "active"
  /\ primary' = (primary \ Peers(k)) \union {k}
  /\ Save(status)
  /\ UNCHANGED rotatedFrom

\* A bug to catch: the predecessor need not be the current primary.
StillActive(old) == status[old] = "active"

CurrentPrimary(old) == status[old] = "active" /\ old \in primary

(* replacePrimary: oldStatus is "active" for ReplacePrimary and "archived" *)
(* for ReplacePrimaryAndArchive.                                           *)
ReplacePrimary(old, k, oldStatus) ==
  /\ Unregistered(k)
  /\ GroupOf[old] = GroupOf[k]
  /\ CurrentPrimary(old)
  /\ primary' = (primary \ Peers(k)) \union {k}
  /\ rotatedFrom' = [rotatedFrom EXCEPT ![k] = old]
  /\ Save([status EXCEPT ![k] = "active", ![old] = oldStatus])

(* UpdateKey and UpdateKeys as their callers use them: to retire keys they *)
(* saw active, with Primary cleared.  The entries found may have been      *)
(* retired meanwhile: their status is overwritten all the same.            *)
\* A bug to catch: the retired keys keep their primary flag.
RolesKept(K) == primary

RolesCleared(K) == primary \ K

UpdateKeys(K, newStatus) ==
  /\ \A k \in K : ~Unregistered(k)
  /\ primary' = RolesCleared(K)
  /\ Save([k \in Key |-> IF k \in K THEN newStatus ELSE status[k]])
  /\ UNCHANGED rotatedFrom

(* UpdateKeyStatus: only when the group has a single active key.           *)
UpdateKeyStatus(k, newStatus) ==
  /\ Peers(k) \intersect Active = {k}
  /\ UpdateKeys({k}, newStatus)

-----------------------------------------------------------------------------
RegistryNext ==
  \/ \E k \in Key : RegisterKey(k) \/ RegisterPrimary(k) \/ SetPrimaryKey(k)
  \/ \E old, k \in Key, s \in {"active", "archived"} : ReplacePrimary(old, k, s)
  \/ \E K \in SUBSET Key, s \in Inactive : UpdateKeys(K, s)
  \/ \E k \in Key, s \in Inactive : UpdateKeyStatus(k, s)

RegistrySpec == RegistryInit /\ [][RegistryNext]_regVars

-----------------------------------------------------------------------------
(* security-model.md: at most one active key of a group is the primary,    *)
(* and the flag is never left on a key that is no longer in use.           *)
OnePrimary ==
  /\ primary \subseteq Active
  /\ \A j, k \in primary : GroupOf[j] = GroupOf[k] => j = k

(* The registry file, once it exists, is encrypted to at least one key.    *)
SomeRecipient ==
  (\E k \in Key : status[k] # "absent")
    => \E k \in Active : GroupOf[k] \in AgeGroup

(* The history that rotations leave behind: a key and its predecessor are  *)
(* registered and of one group, and following predecessors never leads     *)
(* back to a key, however many rotations apart: in every set of keys there *)
(* is one whose predecessor is none of them.  So the pending successors of *)
(* a group cannot all be due for retirement by each other's completion.    *)
Lineage ==
  /\ \A k \in Key : rotatedFrom[k] # NoKey =>
       /\ status[k] # "absent"
       /\ status[rotatedFrom[k]] # "absent"
       /\ GroupOf[rotatedFrom[k]] = GroupOf[k]
  /\ \A S \in SUBSET Key : S # {} => \E k \in S : rotatedFrom[k] \notin S

(* The comment on RegisterKey, registry.go:97: "a revoked or archived      *)
(* fingerprint may not be silently reinstated".                            *)
NoReinstatement ==
  [][\A k \in Key : status[k] \in Inactive => status'[k] \in Inactive]_regVars

(* The registry keeps the promises of KeyRing: no sequence of calls, from  *)
(* any commands, leads anywhere the contract does not.                     *)
HolderAmong(K, g) ==
  IF \E k \in K : GroupOf[k] = g
  THEN CHOOSE k \in K : GroupOf[k] = g
  ELSE NoKey

Retired == {k \in Key : status[k] \in Inactive}

Ring == INSTANCE KeyRing WITH
  active <- Active,
  retired <- Retired,
  holder <- [g \in Group |-> HolderAmong(primary, g)]

KeepsRing == Ring!Spec

=============================================================================

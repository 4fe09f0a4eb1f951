--------------------------- MODULE FileLockProofs ---------------------------
(***************************************************************************)
(* The flock discipline of FileLock, for any number of processes, files,   *)
(* kills and failed writes.                                                *)
(***************************************************************************)
EXTENDS FileLock, TLAPS

(* A process has a file open exactly between Open and the end of its use.  *)
Opened ==
  \A p \in Proc : pc[p] \in {"flock", "write", "work"} <=> fd[p] # NoFile

IInv == TypeOK /\ Opened /\ FlockOwned

(* Nobody holds anything at first. *)
LEMMA InitIInv == Init => IInv
BY LockAssumption DEF Init, IInv, TypeOK, Opened, FlockOwned

(* A command step of one process keeps types, open files and flocks in     *)
(* line with one another.                                                  *)
LEMMA CommandIInv ==
  ASSUME IInv, NEW p \in Proc, Command(p)
  PROVE  IInv'
<1> USE LockAssumption DEF IInv, TypeOK, Opened, FlockOwned, Goto
<1>1. CASE Inspect(p)
  BY <1>1 DEF Inspect
<1>2. CASE ForceBreak(p)
  BY <1>2 DEF ForceBreak, Unlink
<1>3. CASE Open(p)
  <2>1. PICK i \in Inode : fd' = [fd EXCEPT ![p] = i]
    BY <1>3 DEF Open
  <2>2. path' \in Inode \union {NoFile}
    BY <1>3 DEF Open
  <2> QED BY <1>3, <2>1, <2>2 DEF Open
<1>4. CASE TryFlock(p)
  <2>1. fd[p] \in Inode
    BY <1>4 DEF TryFlock
  <2>2. CASE Free(fd[p])
    <3>1. /\ holder' = [holder EXCEPT ![fd[p]] = p]
          /\ pc' = [pc EXCEPT ![p] = "write"]
          /\ UNCHANGED <<path, content, fd, faults>>
      BY <1>4, <2>2 DEF TryFlock
    <3>2. TypeOK' /\ Opened'
      BY <1>4, <2>1, <3>1 DEF TryFlock
    <3>3. FlockOwned'
      BY <1>4, <2>1, <2>2, <3>1 DEF TryFlock, Free
    <3> QED BY <3>2, <3>3
  <2>3. CASE ~Free(fd[p])
    BY <1>4, <2>1, <2>3 DEF TryFlock
  <2> QED BY <2>2, <2>3
<1>5. CASE WriteMetadata(p)
  <2>1. CASE pc' = [pc EXCEPT ![p] = "work"] /\ UNCHANGED <<holder, fd, faults>>
    BY <1>5, <2>1 DEF WriteMetadata
  <2>2. CASE /\ faults < MaxFaults /\ faults' = faults + 1
             /\ holder' = Unlocked(p)
             /\ fd' = [fd EXCEPT ![p] = NoFile]
             /\ pc' = [pc EXCEPT ![p] = "wait"]
             /\ UNCHANGED content
    BY <1>5, <2>2 DEF WriteMetadata, Unlocked
  <2> QED BY <1>5, <2>1, <2>2 DEF WriteMetadata
<1>6. CASE Unlock(p)
  BY <1>6 DEF Unlock, Unlocked
<1>7. CASE Remove(p)
  BY <1>7 DEF Remove, Unlink
<1> QED BY <1>1, <1>2, <1>3, <1>4, <1>5, <1>6, <1>7 DEF Command

(* So does every other step. *)
LEMMA NextIInv == IInv /\ [Next]_vars => IInv'
<1> SUFFICES ASSUME IInv, [Next]_vars PROVE IInv'
  OBVIOUS
<1>1. ASSUME NEW p \in Proc, Command(p) PROVE IInv'
  BY <1>1, CommandIInv
<1> USE LockAssumption DEF IInv, TypeOK, Opened, FlockOwned, Goto
<1>2. ASSUME NEW p \in Proc, GiveUp(p) PROVE IInv'
  BY <1>2 DEF GiveUp
<1>3. ASSUME NEW p \in Proc, Kill(p) PROVE IInv'
  BY <1>3 DEF Kill
<1>4. CASE Expire
  BY <1>4 DEF Expire
<1>5. CASE UNCHANGED vars
  BY <1>5 DEF vars
<1> QED BY <1>1, <1>2, <1>3, <1>4, <1>5 DEF Next

LEMMA LockInvariant == Spec => []IInv
BY InitIInv, NextIInv, PTL DEF Spec

(* The state of the lock is well-typed in every reachable state. *)
THEOREM TypeCorrect == Spec => []TypeOK
BY LockInvariant, PTL DEF IInv

(* No flock is leaked and none is taken from its holder, whatever the      *)
(* commands, their operators and kills do.                                 *)
THEOREM FlocksOwned == Spec => []FlockOwned
BY LockInvariant, PTL DEF IInv

(* Commands at work exclude each other as long as their lock file stays    *)
(* linked.                                                                 *)
THEOREM LinkedExclusive == Spec => []ExclusiveWhileLinked
<1>1. IInv => ExclusiveWhileLinked
  <2> SUFFICES ASSUME IInv, NEW p \in Proc, NEW q \in Proc,
                      pc[p] = "work", fd[p] = path,
                      pc[q] = "work", fd[q] = path
               PROVE  p = q
    BY DEF ExclusiveWhileLinked
  <2>1. path \in Inode
    BY DEF IInv, TypeOK, Opened
  <2>2. holder[path] = p /\ holder[path] = q
    BY <2>1 DEF IInv, FlockOwned
  <2> QED BY <2>2
<1> QED BY <1>1, LockInvariant, PTL
=============================================================================

------------------------------ MODULE FileLock ------------------------------
(***************************************************************************)
(* internal/resilience/lock_manager.go, file backend, as the deploy and    *)
(* destroy commands use it through AcquireLockWithPrompt (cmd/cluster.go): *)
(* a process looks at the lock file, removes it when it is stale or the    *)
(* operator says so, then opens, flocks and fills it.  Each command has a  *)
(* lock manager of its own, so its map of held locks starts empty.  A      *)
(* step is one system call.                                                *)
(***************************************************************************)
EXTENDS Naturals

CONSTANTS
  Proc,        \* processes that deploy or destroy the cluster
  Destroyers,  \* the processes among them that run cluster destroy
  Breakers,    \* processes whose operator confirms breaking a live lock
  Inode,       \* files; one that nobody refers to can be created anew
  NoFile,      \* nothing at the lock path, or no file open
  NoProc,      \* no holder
  MaxFaults    \* bound: kills and failed writes in a behaviour

ASSUME LockAssumption ==
  /\ NoFile \notin Inode
  /\ NoProc \notin Proc
  /\ MaxFaults \in Nat

VARIABLES
  path,     \* the file the lock path names
  holder,   \* the process that has the flock of a file
  content,  \* what getLockInfo makes of it: no expiry, live or expired
  pc,       \* where a process is
  fd,       \* the file a process has open
  faults    \* kills and failed writes so far

vars == <<path, holder, content, pc, fd, faults>>

TypeOK ==
  /\ path \in Inode \union {NoFile}
  /\ holder \in [Inode -> Proc \union {NoProc}]
  /\ content \in {"empty", "live", "expired"}
  /\ pc \in [Proc -> {"idle", "break", "open", "flock", "write", "wait",
                      "work", "remove", "again"}]
  /\ fd \in [Proc -> Inode \union {NoFile}]
  /\ faults \in 0..MaxFaults

Init ==
  /\ path = NoFile
  /\ holder = [i \in Inode |-> NoProc]
  /\ content = "empty"
  /\ pc = [p \in Proc |-> "idle"]
  /\ fd = [p \in Proc |-> NoFile]
  /\ faults = 0

Goto(p, step) == pc' = [pc EXCEPT ![p] = step]

Unreferenced(i) == i # path /\ \A p \in Proc : fd[p] # i

-----------------------------------------------------------------------------
(* AcquireLockWithPrompt.                                                  *)

\* A bug to catch: a lock that has expired is treated like a live one.
EmptyOnly == content = "empty"

(* A file without an expiry line has the zero time, which is in the past.  *)
Stale == content # "live"

(* GetLockInfo and the decision; a declined prompt ends the command.       *)
Inspect(p) ==
  /\ pc[p] = "idle"
  /\ \/ path = NoFile /\ Goto(p, "open")
     \/ /\ path # NoFile
        /\ Stale \/ p \in Breakers
        /\ Goto(p, "break")
     \/ path # NoFile /\ ~Stale /\ UNCHANGED pc
  /\ UNCHANGED <<path, holder, content, fd, faults>>

\* A bug to catch: an unlinked lock is marked in a way no reader knows.
UnlinkMarked == path' = NoFile /\ content' = "gone"

(* os.Remove of whatever the lock path names.                              *)
Unlink == path' = NoFile /\ content' = "empty"

(* ForceBreak of a lock this process does not hold: it only unlinks.       *)
ForceBreak(p) ==
  /\ pc[p] = "break"
  /\ Unlink
  /\ Goto(p, "open")
  /\ UNCHANGED <<holder, fd, faults>>

-----------------------------------------------------------------------------
(* acquire, retried every 100 ms until AcquireTimeout.                     *)

Open(p) ==
  /\ pc[p] \in {"open", "wait"}
  /\ \/ /\ path # NoFile
        /\ fd' = [fd EXCEPT ![p] = path]
        /\ UNCHANGED path
     \/ /\ path = NoFile
        /\ \E i \in Inode :
             /\ Unreferenced(i)
             /\ path' = i
             /\ fd' = [fd EXCEPT ![p] = i]
  /\ Goto(p, "flock")
  /\ UNCHANGED <<holder, content, faults>>

\* A bug to catch: the result of flock is not looked at.
Granted(i) == TRUE

Free(i) == holder[i] = NoProc

TryFlock(p) ==
  /\ pc[p] = "flock"
  /\ \/ /\ Free(fd[p])
        /\ holder' = [holder EXCEPT ![fd[p]] = p]
        /\ Goto(p, "write")
        /\ UNCHANGED fd
     \/ /\ ~Free(fd[p])
        /\ fd' = [fd EXCEPT ![p] = NoFile]
        /\ Goto(p, "wait")
        /\ UNCHANGED holder
  /\ UNCHANGED <<path, content, faults>>

\* A bug to catch: the descriptor is dropped but stays open and locked.
StillLocked(p) == holder

Unlocked(p) == [i \in Inode |-> IF holder[i] = p THEN NoProc ELSE holder[i]]

WriteMetadata(p) ==
  /\ pc[p] = "write"
  /\ \/ /\ content' = IF fd[p] = path THEN "live" ELSE content
        /\ Goto(p, "work")
        /\ UNCHANGED <<holder, fd, faults>>
     \/ /\ faults < MaxFaults
        /\ faults' = faults + 1
        /\ holder' = Unlocked(p)
        /\ fd' = [fd EXCEPT ![p] = NoFile]
        /\ Goto(p, "wait")
        /\ UNCHANGED content
  /\ UNCHANGED path

GiveUp(p) ==
  /\ pc[p] = "wait"
  /\ Goto(p, "idle")
  /\ UNCHANGED <<path, holder, content, fd, faults>>

-----------------------------------------------------------------------------
(* release, when the command ends: unlock and close, then unlink whatever  *)
(* the path names by now; destroy unlinks once more with ForceBreak.       *)

Unlock(p) ==
  /\ pc[p] = "work"
  /\ holder' = Unlocked(p)
  /\ fd' = [fd EXCEPT ![p] = NoFile]
  /\ Goto(p, "remove")
  /\ UNCHANGED <<path, content, faults>>

Remove(p) ==
  /\ pc[p] \in {"remove", "again"}
  /\ Unlink
  /\ Goto(p, IF pc[p] = "remove" /\ p \in Destroyers THEN "again" ELSE "idle")
  /\ UNCHANGED <<holder, fd, faults>>

-----------------------------------------------------------------------------
(* The clock passes the ExpiresAt in the file, and a process is killed: the  *)
(* kernel closes its file, which stays where it is.                        *)

Expire ==
  /\ content = "live"
  /\ content' = "expired"
  /\ UNCHANGED <<path, holder, pc, fd, faults>>

Kill(p) ==
  /\ faults < MaxFaults
  /\ pc[p] # "idle"
  /\ faults' = faults + 1
  /\ holder' = [i \in Inode |-> IF holder[i] = p THEN NoProc ELSE holder[i]]
  /\ fd' = [fd EXCEPT ![p] = NoFile]
  /\ Goto(p, "idle")
  /\ UNCHANGED <<path, content>>

Command(p) == Inspect(p) \/ ForceBreak(p) \/ Open(p) \/ TryFlock(p)
                \/ WriteMetadata(p) \/ Unlock(p) \/ Remove(p)

Next ==
  \/ \E p \in Proc : Command(p) \/ GiveUp(p) \/ Kill(p)
  \/ Expire

Spec == Init /\ [][Next]_vars

(* A command that has begun runs on, operators try again, and the clock    *)
(* advances.  Operators who break live locks need not come at all.         *)
FairSpec ==
  /\ Spec
  /\ \A p \in Proc : WF_vars((p \in Breakers => pc[p] # "idle") /\ Command(p))
  /\ WF_vars(Expire)

-----------------------------------------------------------------------------
(* The flock of a file belongs to a process that has the file open and is  *)
(* filling it or at work, and such a process has its flock: no failed      *)
(* attempt, release or kill leaves a flock behind, and nobody's release or *)
(* forced break takes the flock of another.                                *)
FlockOwned ==
  \A p \in Proc, i \in Inode :
    holder[i] = p <=> fd[p] = i /\ pc[p] \in {"write", "work"}

(* Two commands at work never hold the same lock file: as long as nobody   *)
(* unlinks the file of a command at work, they exclude each other.         *)
ExclusiveWhileLinked ==
  \A p, q \in Proc :
    /\ pc[p] = "work" /\ fd[p] = path
    /\ pc[q] = "work" /\ fd[q] = path
    => p = q

(* A lock left by a killed command is taken over once its TTL has passed,  *)
(* and nobody has to break it by hand: again and again, some command gets  *)
(* to work.                                                                *)
NeverStuck == []<>(\E p \in Proc : pc[p] = "work")

(* docs/release/1.0.0-rc01.md:91: "Cluster locking -- Prevent concurrent   *)
(* modifications".  Refuted, with no operator breaking a live lock and no  *)
(* lock expired: the file is unlinked under a command that has opened it.  *)
Exclusion ==
  \A p, q \in Proc : pc[p] = "work" /\ pc[q] = "work" => p = q

=============================================================================

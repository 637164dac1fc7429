------------------------------ MODULE FileLock ------------------------------
(***************************************************************************)
(* The lock of one kernel key: flock_path (src/src/ptc/lock.py), an flock  *)
(* on a file that kernel-directory GC may unlink while it is held and      *)
(* waited for (gc_kernel_dirs, kernel.py).                                 *)
(*                                                                         *)
(* Lockers bring kernels up and down under the lock, and a kernel's own    *)
(* watchdog takes it to expire the kernel; collectors remove the directory *)
(* of a key whose kernel is gone, entry by entry, the lock file among the  *)
(* entries.                                                                *)
(***************************************************************************)
EXTENDS Naturals

CONSTANTS
  Lockers,      \* callers of ensure_kernel and kill_kernel, and watchdogs
  Collectors,   \* adapters that sweep the kernel directories
  MaxInode,     \* bound: lock files created
  MaxKernel     \* bound: kernels spawned

Procs == Lockers \cup Collectors
Nobody == "nobody"

ASSUME FileLockAssumption ==
  /\ Lockers \cap Collectors = {}
  /\ Nobody \notin Procs
  /\ MaxInode \in Nat
  /\ MaxKernel \in Nat

(* Inodes and kernels are numbered from 1; 0 stands for an absent file.    *)
(* A number is never reused while an fd keeps the inode open.              *)
Inodes == 1..MaxInode
Names == {"lock", "owner.json"}

VARIABLES
  dir,       \* does the key's directory stand?
  path,      \* the inode of the lock file in it
  made,      \* lock files created so far
  holder,    \* who holds the flock of each inode
  fd,        \* the inode each process has open
  todo,      \* the entries a collector has listed and not removed yet
  pc,
  owner,     \* owner.json: the kernel it names
  live,      \* the kernels running
  spawned,   \* kernels forked so far
  hand,      \* the kernel being forked or expired under the lock, 0 for none
  lost       \* kernels that owner.json will not name again

fileVars == <<dir, path, made>>
procVars == <<holder, fd, pc>>
kernelVars == <<owner, live, spawned, hand, lost>>
vars == <<fileVars, procVars, todo, kernelVars>>

Init ==
  /\ dir = "there" /\ path = 0 /\ made = 0
  /\ holder = [i \in Inodes |-> Nobody]
  /\ fd = [p \in Procs |-> 0]
  /\ todo = [p \in Procs |-> {}]
  /\ pc = [p \in Procs |-> "idle"]
  /\ owner = 0 /\ live = {} /\ spawned = 0 /\ hand = 0 /\ lost = {}

At(p, step) == pc[p] = step
Goto(p, step) == pc' = [pc EXCEPT ![p] = step]

(* The fd is closed, by hand or with the process, and its flock with it.   *)
Close(p) ==
  /\ fd' = [fd EXCEPT ![p] = 0]
  /\ holder' = [i \in Inodes |-> IF holder[i] = p THEN Nobody ELSE holder[i]]

-----------------------------------------------------------------------------
(* flock_path.                                                             *)

MakeDir(p) ==
  /\ pc[p] \in {"idle", "again"}
  /\ dir' = "there"
  /\ Goto(p, "open")
  /\ UNCHANGED <<path, made, holder, fd, todo, kernelVars>>

OpenLock(p) ==
  /\ At(p, "open")
  /\ \/ /\ path # 0                          \* the file that stands there
        /\ fd' = [fd EXCEPT ![p] = path]
        /\ Goto(p, "flock")
        /\ UNCHANGED <<path, made>>
     \/ /\ path = 0 /\ dir = "there" /\ made < MaxInode
        /\ made' = made + 1
        /\ path' = made'
        /\ fd' = [fd EXCEPT ![p] = made']
        /\ Goto(p, "flock")
     \/ /\ dir = "gone"                      \* FileNotFoundError
        /\ Goto(p, "idle")
        /\ UNCHANGED <<path, made, fd>>
  /\ UNCHANGED <<dir, holder, todo, kernelVars>>

TakeFlock(p) ==
  /\ At(p, "flock") /\ holder[fd[p]] = Nobody
  /\ holder' = [holder EXCEPT ![fd[p]] = p]
  /\ Goto(p, "check")
  /\ UNCHANGED <<fileVars, fd, todo, kernelVars>>

(* A collector asks with timeout=0; a locker waits.                        *)
Timeout(p) ==
  /\ p \in Collectors
  /\ At(p, "flock") /\ holder[fd[p]] # Nobody
  /\ Close(p)
  /\ Goto(p, "idle")
  /\ UNCHANGED <<fileVars, todo, kernelVars>>

(* _same_file: a won lock counts only if its file is still at the path.    *)
CheckSkipped(p) ==                     \* mutant: any won lock counts
  /\ At(p, "check")
  /\ Goto(p, "in")
  /\ UNCHANGED <<fileVars, holder, fd, todo, kernelVars>>
CheckKeepsIt(p) ==                     \* mutant: the dead lock is not dropped
  /\ At(p, "check")
  /\ \/ path = fd[p] /\ Goto(p, "in") /\ UNCHANGED <<holder, fd>>
     \/ path # fd[p] /\ UNCHANGED <<pc, holder, fd>>
  /\ UNCHANGED <<fileVars, todo, kernelVars>>
Check(p) ==
  /\ At(p, "check")
  /\ \/ path = fd[p] /\ Goto(p, "in") /\ UNCHANGED <<holder, fd>>
     \/ path # fd[p] /\ Goto(p, "again") /\ Close(p)
  /\ UNCHANGED <<fileVars, todo, kernelVars>>

Release(p) ==
  /\ At(p, "in")
  /\ Close(p)
  /\ Goto(p, "idle")
  /\ UNCHANGED <<fileVars, todo, kernelVars>>

(* A process dies wherever it is.  A kernel it has forked and not named    *)
(* yet runs on; a watchdog is its kernel, and they die together.           *)
Crash(p) ==
  /\ ~At(p, "idle")
  /\ Close(p)
  /\ Goto(p, "idle")
  /\ todo' = [todo EXCEPT ![p] = {}]
  /\ hand' = IF pc[p] \in {"name", "exit"} THEN 0 ELSE hand
  /\ lost' = IF At(p, "name") THEN lost \cup {hand} ELSE lost
  /\ live' = IF At(p, "exit") THEN live \ {hand} ELSE live
  /\ UNCHANGED <<fileVars, owner, spawned>>

-----------------------------------------------------------------------------
(* What lockers do inside.  ensure_kernel, where no kernel is named: the   *)
(* process first, its owner.json once its start time is known.             *)

Fork(p) ==
  /\ p \in Lockers /\ At(p, "in")
  /\ owner = 0 \/ owner \notin live
  /\ spawned < MaxKernel
  /\ spawned' = spawned + 1
  /\ hand' = spawned'
  /\ live' = live \cup {spawned'}
  /\ Goto(p, "name")
  /\ UNCHANGED <<fileVars, holder, fd, todo, owner, lost>>

WriteOwner(p) ==
  /\ At(p, "name")
  /\ owner' = hand /\ hand' = 0
  /\ Goto(p, "in")
  /\ UNCHANGED <<fileVars, holder, fd, todo, live, spawned, lost>>

(* The spawn fails: the kernel is killed and the files go.                 *)
ForkFails(p) ==
  /\ At(p, "name")
  /\ live' = live \ {hand}
  /\ owner' = 0 /\ hand' = 0
  /\ Goto(p, "in")
  /\ UNCHANGED <<fileVars, holder, fd, todo, spawned, lost>>

(* kill_kernel, in one step.                                               *)
Kill(p) ==
  /\ p \in Lockers /\ At(p, "in") /\ owner # 0
  /\ live' = live \ {owner}
  /\ owner' = 0
  /\ UNCHANGED <<fileVars, procVars, todo, spawned, hand, lost>>

(* The watchdog of a running kernel removes owner.json, whomever it names; *)
(* a lost kernel's takes it from its successor.                            *)
Expire(p) ==
  /\ p \in Lockers /\ At(p, "in")
  /\ \E k \in live :
       /\ hand' = k
       /\ lost' = (lost \ {k}) \cup {j \in live \ {k} : owner = j}
  /\ owner' = 0
  /\ Goto(p, "exit")
  /\ UNCHANGED <<fileVars, holder, fd, todo, live, spawned>>

Exit(p) ==
  /\ At(p, "exit")
  /\ live' = live \ {hand}
  /\ hand' = 0
  /\ Close(p)
  /\ Goto(p, "idle")
  /\ UNCHANGED <<fileVars, todo, owner, spawned, lost>>

(* ... or the cleanup fails: the kernel stays up without its owner.json.   *)
Balk(p) ==
  /\ At(p, "exit")
  /\ lost' = lost \cup {hand}
  /\ hand' = 0
  /\ Close(p)
  /\ Goto(p, "idle")
  /\ UNCHANGED <<fileVars, todo, owner, live, spawned>>

KernelDies ==
  /\ \E k \in live :
       /\ \A p \in Lockers : At(p, "exit") => k # hand     \* that is its Crash
       /\ live' = live \ {k}
       /\ lost' = lost \ {k}
  /\ UNCHANGED <<fileVars, procVars, todo, owner, spawned, hand>>

-----------------------------------------------------------------------------
(* What a collector does inside: gc_kernel_dirs on one key.                *)

(* collectable, asked again under the lock; rmtree lists the directory.    *)
List(g) ==
  /\ g \in Collectors /\ At(g, "in")
  /\ owner \notin live
  /\ todo' = [todo EXCEPT ![g] = {n \in Names : n = "lock" \/ owner # 0}]
  /\ Goto(g, "remove")
  /\ UNCHANGED <<fileVars, holder, fd, kernelVars>>

RemoveLock(g) ==
  /\ At(g, "remove") /\ "lock" \in todo[g]
  /\ path' = 0
  /\ todo' = [todo EXCEPT ![g] = @ \ {"lock"}]
  /\ UNCHANGED <<dir, made, procVars, kernelVars>>

(* Whatever stands under the listed name by now.                           *)
RemoveOwner(g) ==
  /\ At(g, "remove") /\ "owner.json" \in todo[g]
  /\ owner' = 0
  /\ todo' = [todo EXCEPT ![g] = @ \ {"owner.json"}]
  /\ UNCHANGED <<fileVars, procVars, live, spawned, hand, lost>>

RemoveDirBlind(g) ==                   \* mutant: the directory goes full or not
  /\ At(g, "remove") /\ todo[g] = {}
  /\ dir' = "gone"
  /\ Close(g)
  /\ Goto(g, "idle")
  /\ UNCHANGED <<path, made, todo, kernelVars>>
(* rmdir; on a directory that is not empty, or gone, the sweep goes on.    *)
RemoveDir(g) ==
  /\ At(g, "remove") /\ todo[g] = {}
  /\ dir' = IF path = 0 /\ owner = 0 THEN "gone" ELSE dir
  /\ Close(g)
  /\ Goto(g, "idle")
  /\ UNCHANGED <<path, made, todo, kernelVars>>

-----------------------------------------------------------------------------
Lock(p) == OpenLock(p) \/ TakeFlock(p) \/ Timeout(p) \/ Check(p)
Retry(p) == At(p, "again") /\ MakeDir(p)
Finish(p) == WriteOwner(p) \/ ForkFails(p) \/ Exit(p) \/ Balk(p)
Collect(g) == List(g) \/ RemoveLock(g) \/ RemoveOwner(g) \/ RemoveDir(g)

Next ==
  \/ \E p \in Procs : MakeDir(p) \/ Lock(p) \/ Release(p) \/ Crash(p)
  \/ \E p \in Lockers : Fork(p) \/ Kill(p) \/ Expire(p) \/ Finish(p)
  \/ \E g \in Collectors : Collect(g)
  \/ KernelDies

(* A process inside the lock code is scheduled, and whoever is inside      *)
(* comes out: the work under a key lock is bounded.                        *)
Fairness ==
  \A p \in Procs : /\ WF_vars(OpenLock(p)) /\ WF_vars(TakeFlock(p))
                   /\ WF_vars(Check(p)) /\ WF_vars(Release(p))
                   /\ WF_vars(Collect(p)) /\ WF_vars(Retry(p))
                   /\ WF_vars(Finish(p))

Spec == Init /\ [][Next]_vars
FairSpec == Spec /\ Fairness

-----------------------------------------------------------------------------
Steps == {"idle", "again", "open", "flock", "check", "in", "name", "exit", "remove"}

TypeOK ==
  /\ dir \in {"there", "gone"}
  /\ path \in 0..MaxInode /\ made \in 0..MaxInode
  /\ holder \in [Inodes -> Procs \cup {Nobody}]
  /\ fd \in [Procs -> 0..MaxInode]
  /\ todo \in [Procs -> SUBSET Names]
  /\ pc \in [Procs -> Steps]
  /\ owner \in Nat /\ spawned \in Nat /\ hand \in Nat
  /\ live \subseteq Nat /\ lost \subseteq Nat
  /\ path # 0 => dir = "there"

(* A process is inside from the check on; a collector leaves the key the   *)
(* moment it unlinks the lock file.                                        *)
Inside(p) ==
  pc[p] \in {"in", "name", "exit"} \/ (At(p, "remove") /\ "lock" \in todo[p])

(* Nobody is stranded on a lock file that is not at the path any more: the *)
(* waiter wins it, sees that it is dead and turns to the new one.          *)
NobodyStranded ==
  \A p \in Procs :
    (At(p, "flock") /\ fd[p] # path) ~> ~(At(p, "flock") /\ fd[p] # path)

(* "deleting a live kernel's state is the one mistake this must not make"  *)
(* (gc_kernel_dirs): a running kernel is named by its owner.json, unless   *)
(* the holder of the lock is forking or expiring it, or a killed spawner,  *)
(* a failed cleanup or a lost kernel's watchdog has lost it.               *)
LiveKernelIsOwned == \A k \in live \ lost : k \in {owner, hand}

M == INSTANCE Mutex WITH inside <- {p \in Procs : Inside(p)}

(* "two holders for one key" do not happen, however often the lock file is *)
(* unlinked under those who wait for it: flock_path implements a mutual    *)
(* exclusion.                                                              *)
MutexSpec == M!Spec
=============================================================================

--------------------------- MODULE FileLockProofs ---------------------------
(***************************************************************************)
(* Why flock_path excludes although its lock file can be unlinked: for any *)
(* number of lockers, collectors and lock files.                           *)
(*                                                                         *)
(* A process past its flock holds the inode it has open (HeldInv), and one *)
(* that is inside holds the very inode that stands at the path (PathInv);  *)
(* so two of them would hold the same inode.  Where nobody sweeps the      *)
(* directory, the lock keeps the kernels apart too: the one being forked   *)
(* or expired is in the hands of the one inside, and a new one is forked   *)
(* only where no running kernel is named (OwnedUnlessSwept).               *)
(***************************************************************************)
EXTENDS FileLock, TLAPS

OpenInv == \A p \in Procs : At(p, "flock") => fd[p] \in Inodes

HeldInv ==
  \A p \in Procs : pc[p] \in {"check", "in", "name", "exit", "remove"} =>
    fd[p] \in Inodes /\ holder[fd[p]] = p

PathInv == \A p \in Procs : Inside(p) => fd[p] = path

IInv == OpenInv /\ HeldInv /\ PathInv

(* What a locker does inside and comes back from.                          *)
Work(p) == Fork(p) \/ WriteOwner(p) \/ ForkFails(p) \/ Kill(p) \/ Expire(p)

LEMMA OneInside ==
  ASSUME TypeOK, IInv, NEW p \in Procs, NEW q \in Procs,
         Inside(p), Inside(q) \/ (At(q, "check") /\ fd[q] = path)
  PROVE  p = q
BY DEF IInv, HeldInv, PathInv, Inside, At

(* Closing frees what the process held and nothing else.                   *)
LEMMA CloseKeeps ==
  ASSUME TypeOK, IInv, NEW p \in Procs, Close(p)
  PROVE  /\ fd' \in [Procs -> 0..MaxInode]
         /\ holder' \in [Inodes -> Procs \cup {Nobody}]
         /\ \A q \in Procs \ {p} :
              /\ fd'[q] = fd[q]
              /\ pc[q] \in {"check", "in", "name", "exit", "remove"} =>
                   fd[q] \in Inodes /\ holder'[fd[q]] = q
<1>1. 0 \in 0..MaxInode
  BY FileLockAssumption
<1>2. fd' \in [Procs -> 0..MaxInode] /\ holder' \in [Inodes -> Procs \cup {Nobody}]
  BY <1>1 DEF Close, TypeOK
<1>3. ASSUME NEW q \in Procs \ {p}
      PROVE  /\ fd'[q] = fd[q]
             /\ pc[q] \in {"check", "in", "name", "exit", "remove"} =>
                  fd[q] \in Inodes /\ holder'[fd[q]] = q
  BY <1>3 DEF Close, TypeOK, IInv, HeldInv
<1> QED
  BY <1>2, <1>3

LEMMA TypeStep == TypeOK /\ IInv /\ [Next]_vars => TypeOK'
<1> SUFFICES ASSUME TypeOK, IInv, [Next]_vars PROVE TypeOK'
  OBVIOUS
<1> USE FileLockAssumption DEF TypeOK, At, Goto, Steps, fileVars, procVars, kernelVars
<1>1. ASSUME NEW p \in Procs, MakeDir(p) PROVE TypeOK'
  BY <1>1 DEF MakeDir
<1>2. ASSUME NEW p \in Procs, OpenLock(p) PROVE TypeOK'
  <2>1. path' \in 0..MaxInode /\ made' \in 0..MaxInode
    BY <1>2 DEF OpenLock
  <2>2. fd' \in [Procs -> 0..MaxInode]
    BY <1>2, <2>1 DEF OpenLock
  <2> QED
    BY <1>2, <2>1, <2>2 DEF OpenLock
<1>3. ASSUME NEW p \in Procs, TakeFlock(p) PROVE TypeOK'
  BY <1>3 DEF TakeFlock
<1>4. ASSUME NEW p \in Procs, Timeout(p) PROVE TypeOK'
  BY <1>4, CloseKeeps DEF Timeout
<1>5. ASSUME NEW p \in Procs, Check(p) PROVE TypeOK'
  BY <1>5, CloseKeeps DEF Check
<1>6. ASSUME NEW p \in Procs, Release(p) PROVE TypeOK'
  BY <1>6, CloseKeeps DEF Release
<1>7. ASSUME NEW p \in Procs, Crash(p) PROVE TypeOK'
  <2>1. fd' \in [Procs -> 0..MaxInode] /\ holder' \in [Inodes -> Procs \cup {Nobody}]
    BY <1>7, CloseKeeps DEF Crash
  <2>2. todo' \in [Procs -> SUBSET Names] /\ pc' \in [Procs -> Steps]
    BY <1>7 DEF Crash
  <2>3. /\ owner' \in Nat /\ spawned' \in Nat /\ hand' \in Nat
        /\ live' \subseteq Nat /\ lost' \subseteq Nat
    BY <1>7 DEF Crash
  <2> QED
    BY <1>7, <2>1, <2>2, <2>3 DEF Crash
<1>8. ASSUME NEW p \in Lockers, Work(p) PROVE TypeOK'
  <2>1. /\ owner' \in Nat /\ spawned' \in Nat /\ hand' \in Nat
        /\ live' \subseteq Nat /\ lost' \subseteq Nat
    <3>1. CASE Fork(p)
      BY <3>1 DEF Fork
    <3>3. CASE WriteOwner(p)
      BY <3>3 DEF WriteOwner
    <3>5. CASE ForkFails(p)
      BY <3>5 DEF ForkFails
    <3>4. CASE Kill(p)
      BY <3>4 DEF Kill
    <3>2. CASE Expire(p)
      <4>1. PICK k \in live : hand' = k /\ lost' \subseteq lost \cup live
        BY <3>2 DEF Expire
      <4> QED
        BY <3>2, <4>1 DEF Expire
    <3> QED
      BY <1>8, <3>1, <3>2, <3>3, <3>4, <3>5 DEF Work
  <2>2. pc' \in [Procs -> Steps]
    BY <1>8 DEF Work, Fork, WriteOwner, ForkFails, Kill, Expire
  <2>3. UNCHANGED <<fileVars, holder, fd, todo>>
    BY <1>8 DEF Work, Fork, WriteOwner, ForkFails, Kill, Expire
  <2> QED
    BY <2>1, <2>2, <2>3
<1>14. ASSUME NEW p \in Lockers, Exit(p) \/ Balk(p) PROVE TypeOK'
  <2>1. fd' \in [Procs -> 0..MaxInode] /\ holder' \in [Inodes -> Procs \cup {Nobody}]
    BY <1>14, CloseKeeps DEF Exit, Balk, Procs
  <2>2. owner' \in Nat /\ spawned' \in Nat /\ hand' \in Nat
    BY <1>14 DEF Exit, Balk
  <2>3. live' \subseteq Nat /\ lost' \subseteq Nat /\ pc' \in [Procs -> Steps]
    BY <1>14 DEF Exit, Balk
  <2> QED
    BY <1>14, <2>1, <2>2, <2>3 DEF Exit, Balk
<1>9. ASSUME NEW g \in Collectors, List(g) PROVE TypeOK'
  BY <1>9 DEF List, Procs
<1>10. ASSUME NEW g \in Collectors, RemoveLock(g) \/ RemoveOwner(g) PROVE TypeOK'
  <2>1. todo' \in [Procs -> SUBSET Names]
    BY <1>10 DEF RemoveLock, RemoveOwner
  <2>2. 0 \in 0..MaxInode /\ 0 \in Nat
    OBVIOUS
  <2> QED
    BY <1>10, <2>1, <2>2 DEF RemoveLock, RemoveOwner
<1>11. ASSUME NEW g \in Collectors, RemoveDir(g) PROVE TypeOK'
  BY <1>11, CloseKeeps DEF RemoveDir, Procs
<1>12. CASE KernelDies
  BY <1>12 DEF KernelDies
<1>13. CASE UNCHANGED vars
  BY <1>13 DEF vars
<1> QED
  BY <1>1, <1>2, <1>3, <1>4, <1>5, <1>6, <1>7, <1>8, <1>9, <1>10, <1>11, <1>12, <1>13,
     <1>14 DEF Next, Lock, Collect, Finish, Work

(* Everything that can change who is inside, step by step.                 *)
LEMMA InvStep == TypeOK /\ IInv /\ [Next]_vars => IInv'
<1> SUFFICES ASSUME TypeOK, IInv, [Next]_vars PROVE IInv'
  OBVIOUS
<1> USE DEF At, Goto, Inside, fileVars, procVars, kernelVars
<1>1. ASSUME NEW p \in Procs, MakeDir(p) PROVE IInv'
  BY <1>1 DEF MakeDir, TypeOK, IInv, OpenInv, HeldInv, PathInv
<1>2. ASSUME NEW p \in Procs, OpenLock(p) PROVE IInv'
  <2>1. path # 0 => path' = path
    BY <1>2 DEF OpenLock
  <2>2. \A q \in Procs : Inside(q) => path # 0
    BY FileLockAssumption DEF IInv, OpenInv, HeldInv, PathInv, Inodes
  <2>3. /\ holder' = holder /\ todo' = todo /\ pc'[p] \in {"flock", "idle"}
        /\ \A q \in Procs \ {p} : fd'[q] = fd[q] /\ pc'[q] = pc[q]
    BY <1>2 DEF OpenLock, TypeOK
  <2>4. pc'[p] = "flock" => fd'[p] \in Inodes
    BY <1>2, FileLockAssumption DEF OpenLock, TypeOK, Inodes
  <2> QED
    BY <2>1, <2>2, <2>3, <2>4 DEF IInv, OpenInv, HeldInv, PathInv
<1>3. ASSUME NEW p \in Procs, TakeFlock(p) PROVE IInv'
  <2>1. fd[p] \in Inodes
    BY <1>3 DEF TakeFlock, IInv, OpenInv
  <2> QED
    BY <1>3, <2>1, FileLockAssumption DEF TakeFlock, TypeOK, IInv, OpenInv, HeldInv, PathInv
<1>4. ASSUME NEW p \in Procs, Timeout(p) PROVE IInv'
  BY <1>4, CloseKeeps DEF Timeout, TypeOK, IInv, OpenInv, HeldInv, PathInv
<1>5. ASSUME NEW p \in Procs, Check(p) PROVE IInv'
  <2>1. CASE path = fd[p]
    BY <1>5, <2>1 DEF Check, TypeOK, IInv, OpenInv, HeldInv, PathInv
  <2>2. CASE path # fd[p]
    BY <1>5, <2>2, CloseKeeps DEF Check, TypeOK, IInv, OpenInv, HeldInv, PathInv
  <2> QED
    BY <2>1, <2>2
<1>6. ASSUME NEW p \in Procs, Release(p) PROVE IInv'
  BY <1>6, CloseKeeps DEF Release, TypeOK, IInv, OpenInv, HeldInv, PathInv
<1>7. ASSUME NEW p \in Procs, Crash(p) PROVE IInv'
  BY <1>7, CloseKeeps DEF Crash, TypeOK, IInv, OpenInv, HeldInv, PathInv
<1>8. ASSUME NEW p \in Lockers, Work(p) PROVE IInv'
  BY <1>8 DEF Work, Fork, WriteOwner, ForkFails, Kill, Expire, Procs, TypeOK,
     IInv, OpenInv, HeldInv, PathInv
<1>14. ASSUME NEW p \in Lockers, Exit(p) \/ Balk(p) PROVE IInv'
  BY <1>14, CloseKeeps DEF Exit, Balk, Procs, TypeOK, IInv, OpenInv, HeldInv, PathInv
<1>9. ASSUME NEW g \in Collectors, List(g) PROVE IInv'
  BY <1>9 DEF List, Procs, TypeOK, IInv, OpenInv, HeldInv, PathInv
<1>10. ASSUME NEW g \in Collectors, RemoveLock(g) PROVE IInv'
  <2>1. g \in Procs /\ Inside(g)
    BY <1>10 DEF RemoveLock, Procs
  <2>2. \A q \in Procs : Inside(q) => q = g
    BY <2>1, OneInside
  <2> QED
    BY <1>10, <2>2 DEF RemoveLock, TypeOK, IInv, OpenInv, HeldInv, PathInv
<1>11. ASSUME NEW g \in Collectors, RemoveOwner(g) PROVE IInv'
  BY <1>11 DEF RemoveOwner, Procs, TypeOK, IInv, OpenInv, HeldInv, PathInv
<1>12. ASSUME NEW g \in Collectors, RemoveDir(g) PROVE IInv'
  BY <1>12, CloseKeeps DEF RemoveDir, Procs, TypeOK, IInv, OpenInv, HeldInv, PathInv
<1>13. CASE KernelDies \/ UNCHANGED vars
  BY <1>13 DEF KernelDies, vars, IInv, OpenInv, HeldInv, PathInv
<1> QED
  BY <1>1, <1>2, <1>3, <1>4, <1>5, <1>6, <1>7, <1>8, <1>9, <1>10, <1>11, <1>12, <1>13,
     <1>14 DEF Next, Lock, Collect, Finish, Work

THEOREM Typed == Spec => [](TypeOK /\ IInv)
<1>1. Init => TypeOK /\ IInv
  BY FileLockAssumption DEF Init, TypeOK, IInv, OpenInv, HeldInv, PathInv, Inside, At, Steps
<1> QED
  BY <1>1, TypeStep, InvStep, PTL DEF Spec

(* Every step lets one process in, lets the one inside out, or changes     *)
(* nobody's standing.                                                      *)
LEMMA StepMaps ==
  ASSUME TypeOK, IInv, [Next]_vars
  PROVE  [M!Next]_{p \in Procs : Inside(p)}
<1> DEFINE In == {p \in Procs : Inside(p)}
<1> USE DEF At, Goto, fileVars, procVars, kernelVars
<1>1. ASSUME NEW p \in Procs, In' = In \/ In' = In \ {p}
      PROVE  [M!Next]_In
  BY <1>1, OneInside DEF M!Next, M!Leave
<1>2. ASSUME NEW p \in Procs, MakeDir(p) \/ OpenLock(p) \/ TakeFlock(p) \/ Timeout(p)
                                \/ Release(p) \/ Crash(p)
      PROVE  In' = In \ {p}
  BY <1>2 DEF MakeDir, OpenLock, TakeFlock, Timeout, Release, Crash, Inside, TypeOK
<1>3. ASSUME NEW p \in Procs, Check(p), path # fd[p]
      PROVE  In' = In
  BY <1>3 DEF Check, Inside, TypeOK
<1>4. ASSUME NEW p \in Procs, Check(p), path = fd[p]
      PROVE  M!Enter(p)
  <2>1. In = {}
    BY <1>4, OneInside DEF Check, Inside
  <2>2. In' = {p}
    BY <1>4, <2>1 DEF Check, Inside, TypeOK
  <2> QED
    BY <2>1, <2>2 DEF M!Enter
<1>5. ASSUME NEW p \in Lockers, Work(p)
      PROVE  In' = In
  BY <1>5 DEF Work, Fork, WriteOwner, ForkFails, Kill, Expire, Inside, Procs, TypeOK
<1>8. ASSUME NEW p \in Lockers, Exit(p) \/ Balk(p)
      PROVE  In' = In \ {p}
  BY <1>8 DEF Exit, Balk, Inside, Procs, TypeOK
<1>6. ASSUME NEW g \in Collectors, Collect(g)
      PROVE  In' = In \/ In' = In \ {g}
  BY <1>6 DEF Collect, List, RemoveLock, RemoveOwner, RemoveDir, Inside, Procs, TypeOK
<1>7. CASE KernelDies \/ UNCHANGED vars
  BY <1>7 DEF KernelDies, vars, Inside
<1> QED
  BY <1>1, <1>2, <1>3, <1>4, <1>5, <1>6, <1>7, <1>8
     DEF Next, Lock, Finish, Work, M!Next, Procs

(* No two processes ever hold a key, lock files unlinked or not.           *)
THEOREM Exclusive == Spec => MutexSpec
<1>1. Init => M!Init
  BY DEF Init, M!Init, Inside, At
<1> QED
  BY <1>1, StepMaps, Typed, PTL DEF Spec, MutexSpec, M!Spec
-----------------------------------------------------------------------------
(* The kernel being forked or expired is in the hands of the one inside.   *)
HandInv ==
  /\ hand # 0 => \E p \in Lockers : pc[p] \in {"name", "exit"}
  /\ \A p \in Procs : pc[p] \in {"name", "exit"} => hand # 0
  /\ \A p \in Procs : At(p, "name") => owner \notin live
  /\ \A p \in Procs : At(p, "exit") => owner = 0
  /\ owner \in 0..spawned /\ hand \in 0..spawned /\ live \subseteq 1..spawned

(* Where nobody sweeps, a running kernel is named, or in the hands of the  *)
(* one who holds the lock, or was lost by a killed spawner or a failed     *)
(* cleanup; nothing else takes its owner.json from it                      *)
(* (src/src/ptc/kernel.py: ensure_kernel, kill_kernel;                     *)
(* src/src/ptc/runtime/bootstrap.py: _expire_if_idle).                     *)
THEOREM OwnedUnlessSwept ==
  ASSUME Collectors = {}
  PROVE  Spec => []LiveKernelIsOwned
<1> DEFINE Owned == LiveKernelIsOwned /\ HandInv
<1>1. Init => Owned
  BY DEF Init, LiveKernelIsOwned, HandInv, At
<1>2. TypeOK /\ IInv /\ Owned /\ [Next]_vars => Owned'
  <2> SUFFICES ASSUME TypeOK, IInv, Owned, [Next]_vars PROVE Owned'
    OBVIOUS
  <2> USE DEF LiveKernelIsOwned, HandInv, At, Goto
  <2> DEFINE Holds(p) == pc[p] \in {"in", "name", "exit"}
  <2>0. ASSUME NEW p \in Procs, NEW q \in Procs, Holds(p), Holds(q) PROVE p = q
    BY <2>0, OneInside DEF Inside
  <2>1. ASSUME NEW p \in Procs, MakeDir(p) \/ Lock(p) \/ Release(p)
        PROVE  Owned'
    <3>1. /\ UNCHANGED kernelVars
          /\ \A q \in Procs \ {p} : pc'[q] = pc[q]
          /\ pc[p] \notin {"name", "exit"} /\ pc'[p] \notin {"name", "exit"}
      BY <2>1 DEF MakeDir, Lock, OpenLock, TakeFlock, Timeout, Check, Release, TypeOK
    <3> QED
      BY <3>1 DEF kernelVars, Procs
  <2>2. ASSUME NEW p \in Procs, Crash(p)
        PROVE  Owned'
    BY <2>0, <2>2 DEF Crash, TypeOK, Procs
  <2>3. ASSUME NEW p \in Lockers, Fork(p)
        PROVE  Owned'
    <3>1. hand = 0
      BY <2>0, <2>3 DEF Fork, Procs
    <3>2. /\ hand' = spawned' /\ spawned' # 0 /\ owner' = owner /\ lost' = lost
          /\ live' = live \cup {spawned'} /\ owner \notin live
          /\ spawned' = spawned + 1
      BY <2>3 DEF Fork, TypeOK
    <3>3. live \subseteq lost
      BY <3>1, <3>2
    <3>4. /\ p \in Procs /\ pc'[p] = "name"
          /\ \A q \in Procs \ {p} : pc'[q] = pc[q] /\ pc[q] \notin {"name", "exit"}
      BY <2>0, <2>3 DEF Fork, TypeOK, Procs
    <3> QED
      BY <3>2, <3>3, <3>4 DEF TypeOK
  <2>4. ASSUME NEW p \in Lockers, WriteOwner(p) \/ ForkFails(p)
        PROVE  Owned'
    <3>1. /\ p \in Procs /\ pc'[p] = "in" /\ hand' = 0 /\ lost' = lost
          /\ \A q \in Procs \ {p} : pc'[q] = pc[q] /\ pc[q] \notin {"name", "exit"}
      BY <2>0, <2>4 DEF WriteOwner, ForkFails, TypeOK, Procs
    <3>2. hand # 0 /\ owner \notin live
      BY <2>4 DEF WriteOwner, ForkFails, Procs
    <3>3. \/ owner' = hand /\ live' = live
          \/ owner' = 0 /\ live' = live \ {hand}
      BY <2>4 DEF WriteOwner, ForkFails
    <3> QED
      <4>1. spawned' = spawned
        BY <2>4 DEF WriteOwner, ForkFails
      <4>2. /\ owner' \in 0..spawned' /\ hand' \in 0..spawned'
            /\ live' \subseteq 1..spawned'
        <5>1. live' \subseteq live
          BY <3>3
        <5>2. owner' \in {0, hand} /\ 0 \in 0..spawned
          BY <3>3 DEF TypeOK
        <5> QED
          BY <3>1, <4>1, <5>1, <5>2
      <4>4. LiveKernelIsOwned'
        BY <3>1, <3>2, <3>3
      <4>3. \A q \in Procs : pc'[q] \notin {"name", "exit"}
        BY <3>1
      <4> QED
        BY <3>1, <4>2, <4>3, <4>4
  <2>5. ASSUME NEW p \in Lockers, Kill(p)
        PROVE  Owned'
    BY <2>0, <2>5 DEF Kill, procVars, TypeOK, Procs
  <2>6. ASSUME NEW p \in Lockers, Expire(p)
        PROVE  Owned'
    BY <2>0, <2>6 DEF Expire, TypeOK, Procs
  <2>7. ASSUME NEW p \in Lockers, Exit(p) \/ Balk(p)
        PROVE  Owned'
    BY <2>0, <2>7 DEF Exit, Balk, TypeOK, Procs
  <2>8. CASE KernelDies \/ UNCHANGED vars
    BY <2>8 DEF KernelDies, vars, kernelVars, procVars
  <2> QED
    BY <2>1, <2>2, <2>3, <2>4, <2>5, <2>6, <2>7, <2>8 DEF Next, Finish
<1> QED
  BY <1>1, <1>2, Typed, PTL DEF Spec
=============================================================================

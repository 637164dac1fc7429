-------------------------- MODULE LifecycleProofs --------------------------
(***************************************************************************)
(* The kernels of one key, proved for any callers and any number of        *)
(* kernels and cells.                                                      *)
(*                                                                         *)
(* Two facts carry the rest. At most one kernel stands, whoever holds the  *)
(* lock (Single); and it is named by owner.json, or lies in the hands of   *)
(* the one process inside the lock, a spawner that has just forked it or   *)
(* its own watchdog on the way out (Named).                                *)
(*                                                                         *)
(* A third says what meta.json is worth (MetaTrue), and with it when a     *)
(* restart keeps its kernel's configuration (UndisturbedRestart).          *)
(***************************************************************************)
EXTENDS Lifecycle, TLAPS

Bringing == {"own", "describe", "boot", "reply", "ready"}
Inside == {"look", "slay", "disown", "unready", "fork", "spend"} \cup Bringing
Bound == {"bound", "marked", "vacated", "closed"}

(* Whoever stands inside the key lock holds it.                            *)
Locked ==
  /\ \A p \in Callers : pc[p] \in Inside => lock = p
  /\ \A k \in Kernels : watch[k] \in Bound \cup {"locked"} => lock = k

(* What was not forked yet is nothing.                                     *)
Fresh == \A k \in Kernels : k > forked => state[k] = "unborn" /\ k \notin lost

Single == \A j, k \in Kernels : j \in Standing /\ k \in Standing => j = k

Named ==
  \A k \in Standing :
    \/ owner = k
    \/ watch[k] \in {"vacated", "closed"}
    \/ \E p \in Callers : pc[p] = "own"

(* A call aims at the kernel that stands, and forks where none does.       *)
Aimed ==
  \A p \in Callers :
    /\ pc[p] = "slay" => Standing \subseteq {my[p].victim} /\ my[p].victim <= forked
    /\ pc[p] \in {"disown", "unready", "fork"} => Standing = {}
    /\ pc[p] \in {"unready", "fork", "own"} => owner = 0

(* The kernel a spawner brings up is the one that stands, and its own.     *)
Mine ==
  \A p \in Callers : pc[p] \in Bringing \cup {"spend"} =>
    /\ my[p].kernel \in Kernels /\ my[p].kernel <= forked
    /\ my[p].kernel \notin lost
    /\ Standing \subseteq {my[p].kernel}
    /\ IF pc[p] = "own" THEN state[my[p].kernel] \in {"up", "dead"}
                       ELSE owner = my[p].kernel

(* A watchdog that has bound itself has no cell in flight; once it has     *)
(* unlinked owner.json none stands.                                        *)
Settled ==
  \A k \in Kernels :
    /\ watch[k] \in Bound => cell[k] # "running"
    /\ watch[k] \in {"vacated", "closed"} => owner = 0

(* The ready file stands only beside a kernel that has bootstrapped.       *)
Booted ==
  /\ owner # 0 => owner \notin lost
  /\ ready => \A k \in Standing : state[k] = "booted"
  /\ \A p \in Callers :
       /\ pc[p] \in {"fork"} \cup Bringing => ~ready
       /\ pc[p] \in {"ready", "spend"} => state[my[p].kernel] \in {"booted", "dead"}
       /\ pc[p] # "told" => my[p].told = 0

SInv == Locked /\ Fresh /\ Single /\ Named /\ Aimed /\ Mine /\ Settled /\ Booted

IInv == TypeOK /\ SInv

(***************************************************************************)
(* Types                                                                   *)
(***************************************************************************)
(* A call's record keeps its type where one of its fields changes,         *)
LEMMA CallKept ==
  ASSUME CallTypes, NEW p \in Callers, NEW c \in CallType, NEW step \in Steps,
         Goto(p, step), my' = [my EXCEPT ![p] = c]
  PROVE  CallTypes'
BY DEF CallTypes, Goto

(* where the call ends,                                                    *)
LEMMA CallEnds ==
  ASSUME TypeOK, NEW p \in Callers, Leave(p) \/ \E k \in 0..MaxKernel : Tell(p, k)
  PROVE  CallTypes' /\ lock' \in Callers \cup Kernels \cup {Nobody}
<1>1. lock' \in Callers \cup Kernels \cup {Nobody}
  BY DEF Leave, Tell, Unlock, TypeOK, FileTypes
<1>2. CASE Leave(p)
  <2>1. Blank \in CallType
    BY LifecycleAssumption DEF LifecycleAssumption, Blank, CallType
  <2>. QED BY <1>1, <1>2, <2>1, CallKept DEF Leave, Steps, TypeOK
<1>3. ASSUME NEW k \in 0..MaxKernel, Tell(p, k) PROVE CallTypes'
  <2> DEFINE c == [my[p] EXCEPT !.told = k, !.phase = "none", !.notice = FALSE,
                                !.kernel = 0, !.then = "none"]
  <2>1. c \in CallType
    <3>1. my[p] \in CallType /\ 0 \in 0..MaxKernel
      BY LifecycleAssumption DEF LifecycleAssumption, TypeOK, CallTypes
    <3>. QED BY <1>3, <3>1, Zenon DEF CallType
  <2>2. my' = [my EXCEPT ![p] = c]
    BY <1>3 DEF Tell
  <2>. QED BY <1>3, <2>1, <2>2, CallKept DEF Tell, Steps, TypeOK
<1>. QED BY <1>1, <1>2, <1>3

(* and where a restart goes on.                                            *)
LEMMA CallGoesOn ==
  ASSUME TypeOK, NEW p \in Callers, AfterKill(p)
  PROVE  CallTypes' /\ lock' \in Callers \cup Kernels \cup {Nobody}
<1>1. CASE Leave(p)
  BY <1>1, CallEnds
<1>2. CASE my' = [my EXCEPT ![p].phase = "ensure"] /\ Unlock(p) /\ Goto(p, "lock")
  <2>1. [my[p] EXCEPT !.phase = "ensure"] \in CallType
    BY DEF TypeOK, CallTypes, CallType
  <2>. QED BY <1>2, <2>1, CallKept DEF Unlock, Steps, TypeOK, FileTypes
<1>. QED BY <1>1, <1>2 DEF AfterKill

(* A death keeps the types.                                                *)
LEMMA DeathTypes ==
  ASSUME KernelTypes, NEW k, Dies(k), UNCHANGED <<forked, config, cells>>
  PROVE  KernelTypes'
BY DEF Dies, KernelTypes

(* Every step keeps the types.                                             *)
LEMMA TypesNext ==
  ASSUME IInv, [Next]_vars
  PROVE  TypeOK'
<1>. USE DEF IInv, TypeOK
<1>1. ASSUME NEW p \in Callers, Begin(p) PROVE TypeOK'
  <2>1. CallTypes'
    <3>. USE <1>1
    <3>1. PICK goal \in {"ensure", "kill", "restart"} :
            my' = [my EXCEPT ![p].goal = goal,
                             ![p].phase = IF goal = "ensure" THEN "ensure" ELSE "kill",
                             ![p].config = IF goal = "restart" /\ meta # Nobody THEN meta ELSE p]
      BY DEF Begin
    <3> DEFINE c == [my[p] EXCEPT !.goal = goal,
                             !.phase = IF goal = "ensure" THEN "ensure" ELSE "kill",
                             !.config = IF goal = "restart" /\ meta # Nobody THEN meta ELSE p]
    <3>2. c \in CallType
      BY ZenonT(60) DEF CallTypes, CallType, FileTypes
    <3>3. my' = [my EXCEPT ![p] = c]
      BY <3>1
    <3>. QED BY <3>2, <3>3, CallKept DEF Begin, Steps
  <2>2. FileTypes' /\ KernelTypes'
    BY <1>1 DEF Begin, fileVars, bornVars, cellVars, FileTypes, KernelTypes
  <2>. QED BY <2>1, <2>2
<1>2. ASSUME NEW p \in Callers, TakeLock(p) PROVE TypeOK'
  BY <1>2 DEF TakeLock, Goto, fileVars, bornVars, cellVars, FileTypes, KernelTypes,
     CallTypes, Steps
<1>3. ASSUME NEW p \in Callers, Doubt(p) PROVE TypeOK'
  BY <1>3, CallEnds DEF Doubt, fileVars, bornVars, cellVars, FileTypes, KernelTypes
<1>4. ASSUME NEW p \in Callers, Attach(p) PROVE TypeOK'
  <2>1. CallTypes' /\ FileTypes'
    BY <1>4, CallEnds DEF Attach, FileTypes, fileVars
  <2>2. KernelTypes'
    BY <1>4 DEF Attach, bornVars, cellVars, KernelTypes
  <2>. QED BY <2>1, <2>2
<1>5. ASSUME NEW p \in Callers, Replace(p) PROVE TypeOK'
  <2>1. CallTypes'
    <3>. USE <1>5
    <3> DEFINE c == [my[p] EXCEPT !.victim = IF owner # 0 /\ Runs(owner) THEN owner ELSE 0,
                                  !.notice = marker, !.then = "fork"]
    <3>1. c \in CallType
      <4>1. my[p] \in CallType /\ marker \in BOOLEAN /\ owner \in 0..MaxKernel /\ 0 \in 0..MaxKernel
        BY LifecycleAssumption DEF CallTypes, FileTypes, LifecycleAssumption
      <4>. QED BY <4>1, Zenon DEF CallType
    <3>2. my' = [my EXCEPT ![p] = c]
      BY DEF Replace
    <3>. QED BY <3>1, <3>2, CallKept DEF Replace, Steps
  <2>2. FileTypes' /\ KernelTypes'
    BY <1>5 DEF Replace, fileVars, bornVars, cellVars, FileTypes, KernelTypes
  <2>. QED BY <2>1, <2>2
<1>6. ASSUME NEW p \in Callers, LookKill(p) PROVE TypeOK'
  <2>1. CallTypes' /\ FileTypes'
    <3>. USE <1>6
    <3>1. CASE AfterKill(p)
      BY <3>1, CallGoesOn DEF LookKill, FileTypes, fileVars
    <3>2. CASE ~AfterKill(p)
      <4> DEFINE c == [my[p] EXCEPT !.victim = IF Runs(owner) THEN owner ELSE 0,
                                    !.then = "return"]
      <4>1. c \in CallType
        <5>1. my[p] \in CallType /\ owner \in 0..MaxKernel /\ 0 \in 0..MaxKernel
          BY LifecycleAssumption DEF CallTypes, FileTypes, LifecycleAssumption
        <5>. QED BY <5>1, Zenon DEF CallType
      <4>2. my' = [my EXCEPT ![p] = c]
        BY <3>2 DEF LookKill
      <4>. QED BY <3>2, <4>1, <4>2, CallKept DEF LookKill, Steps, FileTypes, fileVars
    <3>. QED BY <3>1, <3>2
  <2>2. KernelTypes'
    BY <1>6 DEF LookKill, bornVars, cellVars, KernelTypes
  <2>. QED BY <2>1, <2>2
<1>7. ASSUME NEW p \in Callers, Slay(p) PROVE TypeOK'
  <2>1. KernelTypes'
    <3>. USE <1>7
    <3>1. CASE UNCHANGED lifeVars
      BY <3>1 DEF Slay, KernelTypes, lifeVars, bornVars
    <3>2. CASE Dies(my[p].victim)
      BY <3>2, DeathTypes DEF Slay, bornVars
    <3>. QED BY <3>1, <3>2 DEF Slay
  <2>2. CallTypes'
    <3> DEFINE c == [my[p] EXCEPT !.victim = 0,
                                  !.replaced = IF my[p].phase = "kill" /\ ready
                                                 THEN my[p].victim ELSE @]
    <3>1. c \in CallType
      <4>1. my[p] \in CallType /\ 0 \in 0..MaxKernel
        BY LifecycleAssumption DEF LifecycleAssumption, CallTypes
      <4>. QED BY <4>1, Zenon DEF CallType
    <3>2. my' = [my EXCEPT ![p] = c]
      BY <1>7 DEF Slay
    <3>. QED BY <1>7, <3>1, <3>2, CallKept DEF Slay, Steps
  <2>3. FileTypes'
    BY <1>7 DEF Slay, fileVars, FileTypes
  <2>. QED BY <2>1, <2>2, <2>3
<1>8. ASSUME NEW p \in Callers, Disown(p) PROVE TypeOK'
  BY <1>8, LifecycleAssumption DEF Disown, Goto, bornVars, cellVars, FileTypes,
     KernelTypes, CallTypes, Steps
<1>9. ASSUME NEW p \in Callers, Unready(p) PROVE TypeOK'
  <2>1. CallTypes' /\ FileTypes'
    <3>. USE <1>9
    <3>1. CASE Leave(p) \/ AfterKill(p)
      BY <3>1, CallEnds, CallGoesOn DEF Unready, FileTypes
    <3>2. CASE Goto(p, "fork") /\ UNCHANGED <<lock, my>>
      BY <3>2 DEF Unready, FileTypes, CallTypes, Goto, Steps
    <3>. QED BY <3>1, <3>2 DEF Unready, AfterFiles
  <2>2. KernelTypes'
    BY <1>9 DEF Unready, bornVars, cellVars, KernelTypes
  <2>. QED BY <2>1, <2>2
<1>10. ASSUME NEW p \in Callers, Fork(p) PROVE TypeOK'
  <2>1. CallTypes' /\ KernelTypes'
    <3>. USE <1>10
    <3>1. forked' \in 0..MaxKernel /\ forked' \in Kernels /\ forked' > forked
      BY LifecycleAssumption DEF Fork, KernelTypes, Kernels, LifecycleAssumption
    <3>2. [my[p] EXCEPT !.kernel = forked'] \in CallType
      BY <3>1 DEF CallTypes, CallType
    <3>3. CallTypes'
      BY <3>2, CallKept DEF Fork, Steps
    <3>4. my[p].config \in Callers \cup {Nobody}
      BY DEF CallTypes, CallType
    <3>5. state[forked'] = "unborn"
      BY <3>1 DEF SInv, Fresh
    <3>. QED BY <3>1, <3>3, <3>4, <3>5 DEF Fork, KernelTypes, cellVars
  <2>2. FileTypes'
    BY <1>10 DEF Fork, fileVars, FileTypes
  <2>. QED BY <2>1, <2>2
<1>11. ASSUME NEW p \in Callers, ForkFails(p) PROVE TypeOK'
  BY <1>11, CallEnds DEF ForkFails, fileVars, bornVars, cellVars, FileTypes, KernelTypes
<1>12. ASSUME NEW p \in Callers, Own(p) PROVE TypeOK'
  <2>1. FileTypes'
    <3>. USE <1>12
    <3>1. my[p].kernel \in 0..MaxKernel
      BY DEF CallTypes, CallType
    <3>. QED BY <3>1 DEF Own, FileTypes
  <2>2. KernelTypes' /\ CallTypes'
    BY <1>12 DEF Own, Goto, bornVars, cellVars, KernelTypes, CallTypes, Steps
  <2>. QED BY <2>1, <2>2
<1>13. ASSUME NEW p \in Callers, Describe(p) PROVE TypeOK'
  <2>1. FileTypes'
    <3>. USE <1>13
    <3>1. my[p].config \in Callers \cup {Nobody}
      BY DEF CallTypes, CallType
    <3>. QED BY <3>1 DEF Describe, FileTypes
  <2>2. KernelTypes' /\ CallTypes'
    BY <1>13 DEF Describe, Goto, bornVars, cellVars, KernelTypes, CallTypes, Steps
  <2>. QED BY <2>1, <2>2
<1>14. ASSUME NEW p \in Callers, Boot(p) PROVE TypeOK'
  <2>1. KernelTypes'
    <3>. USE <1>14
    <3>1. my[p].kernel \in Kernels
      BY DEF SInv, Mine, Boot, At, Bringing
    <3>. QED BY <3>1 DEF Boot, KernelTypes, bornVars, cellVars
  <2>2. FileTypes' /\ CallTypes'
    BY <1>14 DEF Boot, Goto, fileVars, FileTypes, CallTypes, Steps
  <2>. QED BY <2>1, <2>2
<1>15. ASSUME NEW p \in Callers, Reply(p) PROVE TypeOK'
  BY <1>15 DEF Reply, Goto, fileVars, bornVars, cellVars, FileTypes, KernelTypes,
     CallTypes, Steps
<1>16. ASSUME NEW p \in Callers, MarkReady(p) PROVE TypeOK'
  BY <1>16 DEF MarkReady, Goto, bornVars, cellVars, FileTypes, KernelTypes, CallTypes, Steps
<1>17. ASSUME NEW p \in Callers, Spend(p) PROVE TypeOK'
  <2>1. my[p].kernel \in 0..MaxKernel
    BY DEF CallTypes, CallType
  <2>2. CallTypes' /\ lock' \in Callers \cup Kernels \cup {Nobody}
    BY <1>17, <2>1, CallEnds DEF Spend
  <2>3. FileTypes' /\ KernelTypes'
    BY <1>17, <2>2 DEF Spend, bornVars, cellVars, FileTypes, KernelTypes
  <2>. QED BY <2>2, <2>3
<1>18. ASSUME NEW p \in Callers, Return(p) PROVE TypeOK'
  BY <1>18, CallEnds DEF Return, fileVars, bornVars, cellVars, FileTypes, KernelTypes
<1>19. ASSUME NEW p \in Callers, Fails(p) PROVE TypeOK'
  <2>1. KernelTypes'
    BY <1>19, DeathTypes DEF Fails, bornVars
  <2>2. FileTypes' /\ CallTypes'
    BY <1>19 DEF Fails, Goto, fileVars, FileTypes, CallTypes, Steps, CallType
  <2>. QED BY <2>1, <2>2
<1>20. ASSUME NEW p \in Callers, Crash(p) PROVE TypeOK'
  <2>1. KernelTypes'
    <3>. USE <1>20
    <3>1. At(p, "own") => my[p].kernel \in Kernels
      BY DEF SInv, Mine, At, Bringing
    <3>. QED BY <3>1 DEF Crash, KernelTypes, bornVars, cellVars
  <2>2. FileTypes' /\ CallTypes'
    BY <1>20, CallEnds DEF Crash, fileVars, FileTypes
  <2>. QED BY <2>1, <2>2
<1>21. ASSUME NEW k \in Kernels, Install(k) PROVE TypeOK'
  BY <1>21 DEF Install, fileVars, bornVars, cellVars, callVars, FileTypes, KernelTypes,
     CallTypes
<1>22. ASSUME NEW k \in Kernels, Admit(k) PROVE TypeOK'
  BY <1>22 DEF Admit, fileVars, bornVars, callVars, FileTypes, KernelTypes, CallTypes
<1>23. ASSUME NEW k \in Kernels, Record(k) PROVE TypeOK'
  BY <1>23 DEF Record, fileVars, bornVars, callVars, FileTypes, KernelTypes, CallTypes
<1>24. ASSUME NEW k \in Kernels, Stamp(k) PROVE TypeOK'
  BY <1>24 DEF Stamp, fileVars, bornVars, callVars, FileTypes, KernelTypes, CallTypes
<1>25. ASSUME NEW k \in Kernels, Sample(k) PROVE TypeOK'
  BY <1>25 DEF Sample, fileVars, bornVars, callVars, FileTypes, KernelTypes, CallTypes
<1>26. ASSUME NEW k \in Kernels, WatchLock(k) PROVE TypeOK'
  BY <1>26 DEF WatchLock, fileVars, bornVars, cellVars, callVars, FileTypes,
     KernelTypes, CallTypes
<1>27. ASSUME NEW k \in Kernels, Check(k) PROVE TypeOK'
  <2>1. KernelTypes'
    BY <1>27 DEF Check, bornVars, KernelTypes
  <2>2. FileTypes' /\ CallTypes'
    BY <1>27 DEF Check, Unlock, fileVars, callVars, FileTypes, CallTypes
  <2>. QED BY <2>1, <2>2
<1>28. ASSUME NEW k \in Kernels, Mark(k) PROVE TypeOK'
  BY <1>28 DEF Mark, bornVars, cellVars, callVars, FileTypes, KernelTypes, CallTypes
<1>29. ASSUME NEW k \in Kernels, Vacate(k) PROVE TypeOK'
  <2>1. lost' \subseteq Kernels
    BY <1>29 DEF Vacate, KernelTypes
  <2>2. FileTypes'
    BY <1>29, LifecycleAssumption DEF LifecycleAssumption, Vacate, FileTypes
  <2>3. KernelTypes' /\ CallTypes'
    BY <1>29, <2>1 DEF Vacate, bornVars, cellVars, callVars, KernelTypes, CallTypes
  <2>. QED BY <2>2, <2>3
<1>30. ASSUME NEW k \in Kernels, Close(k) PROVE TypeOK'
  <2>1. FileTypes'
    BY <1>30 DEF Close, FileTypes
  <2>2. KernelTypes' /\ CallTypes'
    BY <1>30 DEF Close, bornVars, cellVars, callVars, KernelTypes, CallTypes
  <2>. QED BY <2>1, <2>2
<1>31. ASSUME NEW k \in Kernels, Balk(k) PROVE TypeOK'
  <2>1. KernelTypes'
    BY <1>31 DEF Balk, bornVars, cellVars, KernelTypes
  <2>2. FileTypes' /\ CallTypes'
    BY <1>31 DEF Balk, Unlock, fileVars, callVars, FileTypes, CallTypes
  <2>. QED BY <2>1, <2>2
<1>32. ASSUME NEW k \in Kernels, Expire(k) PROVE TypeOK'
  BY <1>32 DEF Expire, Unlock, Dies, fileVars, bornVars, callVars, FileTypes,
     KernelTypes, CallTypes
<1>33. ASSUME NEW k \in Kernels, KernelDies(k) PROVE TypeOK'
  BY <1>33 DEF KernelDies, Unlock, Dies, fileVars, bornVars, callVars, FileTypes,
     KernelTypes, CallTypes
<1>34. CASE UNCHANGED vars
  BY <1>34 DEF vars, fileVars, bornVars, cellVars, callVars, FileTypes, KernelTypes,
     CallTypes
<1>. QED
  BY <1>1, <1>2, <1>3, <1>4, <1>5, <1>6, <1>7, <1>8, <1>9, <1>10, <1>11,
     <1>12, <1>13, <1>14, <1>15, <1>16, <1>17, <1>18, <1>19, <1>20, <1>21,
     <1>22, <1>23, <1>24, <1>25, <1>26, <1>27, <1>28, <1>29, <1>30, <1>31,
     <1>32, <1>33, <1>34 DEF Next, Call, Kernel, Watchdog

(***************************************************************************)
(* The calls                                                               *)
(***************************************************************************)

(* Callers, kernels and nobody are told apart, so one of them at most has  *)
(* the lock.                                                               *)
LEMMA Distinct ==
  /\ Nobody \notin Callers \cup Kernels
  /\ \A p \in Callers, k \in Kernels : p # k
BY LifecycleAssumption DEF LifecycleAssumption, Kernels

(* A death takes one kernel away and leaves the others as they are.        *)
LEMMA Death ==
  ASSUME KernelTypes, NEW k \in Kernels, Dies(k)
  PROVE  /\ Standing' = Standing \ {k}
         /\ \A j \in Kernels : state'[j] = IF j = k THEN "dead" ELSE state[j]
         /\ \A j \in Kernels : watch'[j] = IF j = k THEN "rest" ELSE watch[j]
         /\ \A j \in Kernels : cell'[j] = IF j = k THEN "none" ELSE cell[j]
         /\ lost' = lost \ {k}
BY DEF KernelTypes, Dies, Standing, Runs

(* Whoever is inside the lock is alone there, and no watchdog is on its way *)
(* out.                                                                    *)
LEMMA Alone ==
  ASSUME IInv, NEW p \in Callers, pc[p] \in Inside
  PROVE  /\ lock = p
         /\ \A q \in Callers \ {p} : pc[q] \notin Inside
         /\ \A k \in Kernels : watch[k] \in {"rest", "sampled"}
BY Distinct DEF IInv, SInv, Locked, TypeOK, KernelTypes, Bound

(* An attach gives the lock back and changes no kernel.                    *)
LEMMA AttachStep ==
  ASSUME IInv, TypeOK', NEW p \in Callers, Attach(p)
  PROVE  SInv'
<1>. USE DEF IInv, SInv, Attach, At, Goto
<1>1. /\ lock = p
      /\ \A q \in Callers \ {p} : pc[q] \notin Inside
      /\ \A k \in Kernels : watch[k] \in {"rest", "sampled"}
  BY Alone DEF Inside
<1>2. /\ lock' = Nobody
      /\ pc'[p] \in {"idle", "told"} /\ \A q \in Callers \ {p} : pc'[q] = pc[q]
      /\ \A q \in Callers \ {p} : my'[q] = my[q]
      /\ pc'[p] # "told" => my'[p].told = 0
  BY <1>1 DEF Tell, Leave, Unlock, TypeOK, CallTypes, Blank
<1>3. Standing' = Standing
  BY DEF Standing, Runs, bornVars
<1>4. Locked' /\ Fresh' /\ Single' /\ Named' /\ Settled'
  BY <1>1, <1>2, <1>3 DEF Locked, Fresh, Single, Named, Settled, Inside, Bringing,
     Bound, fileVars, bornVars
<1>5. Aimed' /\ Mine' /\ Booted'
  BY <1>1, <1>2, <1>3 DEF Aimed, Mine, Booted, Bringing, fileVars, bornVars
<1>. QED BY <1>4, <1>5

(* A spawner aims at the kernel owner.json names: the one that stands,     *)
LEMMA ReplaceStep ==
  ASSUME IInv, TypeOK', NEW p \in Callers, Replace(p)
  PROVE  SInv'
<1>. USE DEF IInv, SInv
<1>1. /\ lock = p
      /\ \A q \in Callers \ {p} : pc[q] \notin Inside
      /\ \A k \in Kernels : watch[k] \in {"rest", "sampled"}
  BY Alone DEF Replace, At, Inside
<1>2. /\ \A q \in Callers \ {p} : pc'[q] = pc[q] /\ my'[q] = my[q]
      /\ pc'[p] = "slay" /\ my'[p].victim = IF owner # 0 /\ Runs(owner) THEN owner ELSE 0
      /\ my'[p].told = 0
  BY DEF Replace, At, Goto, TypeOK, CallTypes, Booted
<1>3. /\ UNCHANGED <<lock, owner, ready, forked, state, lost, cell, watch>>
      /\ Standing' = Standing
  BY DEF Replace, Standing, Runs, fileVars, bornVars, cellVars
<1>4. \A k \in Standing : owner = k /\ owner # 0 /\ Runs(owner)
  BY <1>1 DEF Replace, At, Named, Standing, Inside, Bringing, Kernels
<1>5. (IF owner # 0 /\ Runs(owner) THEN owner ELSE 0) <= forked
  BY DEF Fresh, Runs, TypeOK, FileTypes, KernelTypes, Kernels
<1>6. Locked' /\ Fresh' /\ Settled'
  BY <1>1, <1>2, <1>3 DEF Locked, Fresh, Settled, Inside, Bringing, Bound
<1>9. Single' /\ Named'
  BY <1>3, <1>4 DEF Single, Named
<1>7. Aimed'
  BY <1>1, <1>2, <1>3, <1>4, <1>5 DEF Aimed, Inside
<1>8. Mine' /\ Booted'
  BY <1>1, <1>2, <1>3 DEF Mine, Booted, Inside, Bringing
<1>. QED BY <1>6, <1>7, <1>8, <1>9

(* as a kill does,                                                         *)
LEMMA LookKillStep ==
  ASSUME IInv, TypeOK', NEW p \in Callers, LookKill(p)
  PROVE  SInv'
<1>. USE DEF IInv, SInv, LookKill, At, Goto
<1>1. /\ lock = p
      /\ \A q \in Callers \ {p} : pc[q] \notin Inside
      /\ \A k \in Kernels : watch[k] \in {"rest", "sampled"}
  BY Alone DEF Inside
<1>2. /\ \A q \in Callers \ {p} : pc'[q] = pc[q] /\ my'[q] = my[q]
      /\ \/ lock' = Nobody /\ pc'[p] \in {"idle", "lock"}
         \/ /\ owner # 0 /\ lock' = p /\ pc'[p] = "slay"
            /\ my'[p].victim = IF Runs(owner) THEN owner ELSE 0
      /\ my'[p].told = 0
  BY <1>1 DEF AfterKill, Leave, Unlock, TypeOK, CallTypes, CallType, Blank, Booted
<1>3. Standing' = Standing
  BY DEF Standing, Runs, bornVars
<1>4. Standing \subseteq {IF Runs(owner) THEN owner ELSE 0}
  BY <1>1 DEF Named, Standing, Inside, Bringing
<1>5. owner # 0 => (IF Runs(owner) THEN owner ELSE 0) <= forked
  BY DEF Fresh, Runs, TypeOK, FileTypes, KernelTypes, Kernels
<1>6. Locked' /\ Fresh' /\ Single' /\ Named' /\ Settled'
  BY <1>1, <1>2, <1>3 DEF Locked, Fresh, Single, Named, Settled, Inside, Bringing,
     Bound, fileVars, bornVars
<1>7. Aimed'
  BY <1>1, <1>2, <1>3, <1>4, <1>5 DEF Aimed, Inside, fileVars, bornVars
<1>8. Mine' /\ Booted'
  BY <1>1, <1>2, <1>3 DEF Mine, Booted, Inside, Bringing, fileVars, bornVars
<1>. QED BY <1>6, <1>7, <1>8

(* and once it is slain none stands,                                       *)
LEMMA SlayStep ==
  ASSUME IInv, TypeOK', NEW p \in Callers, Slay(p)
  PROVE  SInv'
<1>. USE DEF IInv, SInv, Slay, At, Goto
<1>1. /\ Standing \subseteq {my[p].victim}
      /\ my[p].victim \in 0..MaxKernel /\ my[p].victim <= forked
  BY DEF Aimed, TypeOK, CallTypes, CallType
<1>2. /\ lock = p
      /\ \A q \in Callers \ {p} : pc[q] \notin Inside
      /\ \A k \in Kernels : watch[k] \in {"rest", "sampled"}
  BY Alone DEF Inside
<1>3. /\ Standing' = {}
      /\ \A k \in Kernels : state'[k] \in {state[k], "dead"} /\ watch'[k] \in {watch[k], "rest"}
      /\ lost' \subseteq lost
      /\ \A k \in Kernels : k > forked => state'[k] = state[k]
  <2>1. CASE my[p].victim = 0
    BY <1>1, <2>1, LifecycleAssumption DEF LifecycleAssumption, lifeVars, Standing,
       Kernels, Runs
  <2>2. CASE my[p].victim # 0
    <3>1. my[p].victim \in Kernels /\ \A k \in Kernels : k > forked => k # my[p].victim
      BY <1>1, <2>2, LifecycleAssumption DEF TypeOK, KernelTypes, LifecycleAssumption,
         Kernels
    <3>2. Dies(my[p].victim)
      BY <2>2
    <3>. QED BY <1>1, <3>1, <3>2, Death DEF TypeOK
  <2>. QED BY <2>1, <2>2
<1>4. /\ pc' = [pc EXCEPT ![p] = "disown"]
      /\ \A q \in Callers : /\ my'[q].kernel = my[q].kernel /\ my'[q].told = my[q].told
                            /\ q # p => my'[q].victim = my[q].victim
  BY DEF TypeOK, CallTypes, CallType
<1>5. Locked' /\ Fresh' 
  BY <1>2, <1>3, <1>4 DEF Locked, Fresh, Bound, TypeOK, KernelTypes, bornVars
<1>6. Single' /\ Named'
  BY <1>3 DEF Single, Named
<1>7. Aimed' /\ Mine' 
  BY <1>2, <1>3, <1>4 DEF Aimed, Mine, Inside, Bringing, TypeOK, CallTypes
<1>8. Settled' 
  BY <1>2, <1>3, <1>4 DEF Settled, Bound
<1>9. Booted'
  BY <1>2, <1>3, <1>4 DEF Booted, Inside, Bringing, TypeOK, CallTypes, fileVars
<1>. QED BY <1>5, <1>6, <1>7, <1>8, <1>9

(* when its files go too.                                                  *)
LEMMA UnreadyStep ==
  ASSUME IInv, TypeOK', NEW p \in Callers, Unready(p)
  PROVE  SInv'
<1>. USE DEF IInv, SInv, Unready, At, Goto
<1>1. /\ lock = p
      /\ \A q \in Callers \ {p} : pc[q] \notin Inside
      /\ \A k \in Kernels : watch[k] \in {"rest", "sampled"}
  BY Alone DEF Inside
<1>2. /\ \A q \in Callers \ {p} : pc'[q] = pc[q] /\ my'[q] = my[q]
      /\ \/ lock' = Nobody /\ pc'[p] \in {"idle", "lock"}
         \/ lock' = p /\ pc'[p] = "fork"
      /\ my'[p].told = 0
  BY <1>1 DEF AfterFiles, AfterKill, Leave, Unlock, TypeOK, CallTypes, CallType, Blank,
     Booted
<1>3. Standing' = {} /\ owner' = 0
  BY DEF Standing, Runs, Aimed
<1>4. Locked' /\ Fresh' /\ Single' /\ Named' /\ Settled'
  BY <1>1, <1>2, <1>3 DEF Locked, Fresh, Single, Named, Settled, Inside, Bringing,
     Bound, bornVars
<1>5. Aimed' /\ Mine' /\ Booted'
  BY <1>1, <1>2, <1>3 DEF Aimed, Mine, Booted, Inside, Bringing, bornVars
<1>. QED BY <1>4, <1>5

(* A caller killed right after its fork loses that kernel; anywhere else it*)
(* leaves the kernel named.                                                *)
LEMMA CrashStep ==
  ASSUME IInv, TypeOK', NEW p \in Callers, Crash(p)
  PROVE  SInv'
<1>. USE DEF IInv, SInv, Crash, At
<1>1. /\ \A q \in Callers \ {p} : pc'[q] = pc[q] /\ my'[q] = my[q]
      /\ pc'[p] = "idle" /\ my'[p].told = 0
      /\ \A q \in Callers \ {p} : lock = q => lock' = q
      /\ \A k \in Kernels : lock = k => lock' = k
  BY Distinct DEF Leave, Unlock, Goto, TypeOK, CallTypes, Blank
<1>2. \A q \in Callers \ {p} : pc[q] = "own" => pc[p] \notin Inside
  BY Alone DEF Inside, Bringing
<1>3. CASE pc[p] # "own"
  <2>1. lost' = lost /\ Standing' = Standing
    BY <1>3 DEF Standing, Runs
  <2>2. Locked' /\ Fresh' /\ Single' /\ Named' /\ Settled'
    BY <1>1, <1>3, <2>1 DEF Locked, Fresh, Single, Named, Settled, Inside, Bringing,
       fileVars, bornVars, cellVars
  <2>3. Aimed' /\ Mine' /\ Booted'
    BY <1>1, <2>1 DEF Aimed, Mine, Booted, Bringing, fileVars, bornVars
  <2>. QED BY <2>2, <2>3
<1>4. CASE pc[p] = "own"
  <2>1. /\ \A q \in Callers \ {p} : pc[q] \notin Inside
        /\ owner = 0 /\ my[p].kernel \in Kernels /\ my[p].kernel <= forked
        /\ Standing \subseteq {my[p].kernel}
    BY <1>4, Alone DEF Aimed, Mine, Inside, Bringing
  <2>2. lost' = lost \cup {my[p].kernel} /\ Standing' = {}
    BY <1>4, <2>1 DEF Standing, Runs
  <2>3. Locked' /\ Single' /\ Named' /\ Settled'
    BY <1>1, <2>1, <2>2 DEF Locked, Single, Named, Settled, Inside, Bringing, fileVars,
       cellVars
  <2>4. Fresh'
    BY <1>4, <2>1, <2>2 DEF Fresh, Mine, Bringing, bornVars
  <2>5. Aimed' /\ Mine' /\ Booted'
    BY <1>1, <1>4, <2>1, <2>2 DEF Aimed, Mine, Booted, Inside, Bringing, fileVars
  <2>. QED BY <2>3, <2>4, <2>5
<1>. QED BY <1>3, <1>4

(* Every step of a call keeps the invariant,                               *)
LEMMA CallStep ==
  ASSUME IInv, TypeOK',
         NEW p \in Callers, Begin(p) \/ Call(p) \/ Crash(p)
  PROVE  SInv'
<1>. USE DEF IInv, SInv
<1>1. CASE Begin(p)
  <2>1. \A q \in Callers : /\ my'[q].kernel = my[q].kernel /\ my'[q].victim = my[q].victim
                            /\ my'[q].told = my[q].told
    BY <1>1 DEF Begin, TypeOK, CallTypes, CallType
  <2>2. pc[p] = "idle" /\ pc' = [pc EXCEPT ![p] = "lock"]
    BY <1>1 DEF Begin, At, Goto
  <2>3. /\ UNCHANGED <<lock, owner, ready, forked, state, lost, cell, watch>>
        /\ Standing' = Standing
    BY <1>1 DEF Begin, Standing, Runs, fileVars, bornVars, cellVars
  <2>4. Locked' /\ Fresh' /\ Single' /\ Named' /\ Settled'
    BY <2>2, <2>3 DEF Locked, Fresh, Single, Named, Settled, Inside, Bringing
  <2>5. Aimed' /\ Mine' /\ Booted'
    BY <2>1, <2>2, <2>3 DEF Aimed, Mine, Booted, Bringing, TypeOK, CallTypes
  <2>. QED BY <2>4, <2>5
<1>2. CASE TakeLock(p)
  BY <1>2, LifecycleAssumption DEF TakeLock, At, Goto, Locked, Fresh, Single, Named,
     Aimed, Mine, Settled, Booted, Bringing, Standing, Runs, fileVars, bornVars
<1>3. CASE Doubt(p)
  <2>1. Locked'
    BY <1>3, Distinct DEF Doubt, Goto, Leave, Unlock, TypeOK, CallTypes, Locked,
       Bringing, Inside
  <2>2. Fresh' /\ Single' /\ Named' /\ Aimed' /\ Mine' /\ Settled' /\ Booted'
    BY <1>3, LifecycleAssumption DEF Doubt, Goto, Leave, TypeOK, CallTypes, Fresh,
       Single, Named, Aimed, Mine, Settled, Booted, Bringing, Standing, Blank, Runs,
       fileVars, bornVars, cellVars
  <2>. QED BY <2>1, <2>2
<1>4. CASE Attach(p)
  BY <1>4, AttachStep
<1>5. CASE Replace(p)
  BY <1>5, ReplaceStep
<1>6. CASE LookKill(p)
  BY <1>6, LookKillStep
<1>7. CASE Slay(p)
  BY <1>7, SlayStep
<1>8. CASE Disown(p)
  <2>1. Named'
    <3>1. Standing' = {}
      BY <1>8 DEF Disown, Standing, Runs, bornVars, Aimed, At
    <3>. QED BY <3>1 DEF Named
  <2>2. Locked' /\ Fresh' /\ Single' /\ Aimed' /\ Mine' /\ Settled' /\ Booted'
    BY <1>8, LifecycleAssumption DEF Disown, At, Goto, Locked, Fresh, Single, Aimed,
       Mine, Settled, Booted, Bringing, Inside, Standing, Runs, bornVars
  <2>. QED BY <2>1, <2>2
<1>9. CASE Unready(p)
  BY <1>9, UnreadyStep
<1>10. CASE Fork(p)
  BY <1>10, LifecycleAssumption DEF LifecycleAssumption, Fork, At, Goto, TypeOK,
     KernelTypes, CallTypes, Locked, Fresh, Single, Named, Aimed, Mine, Settled, Booted,
     Bringing, Inside, Standing, Kernels, Runs, fileVars
<1>11. CASE ForkFails(p)
  <2>1. Locked'
    BY <1>11, Distinct DEF ForkFails, Goto, Leave, Unlock, TypeOK, CallTypes, Locked,
       Bringing, Inside
  <2>2. Fresh' /\ Single' /\ Named' /\ Aimed' /\ Mine' /\ Settled' /\ Booted'
    BY <1>11, LifecycleAssumption DEF ForkFails, At, Goto, Leave, Fresh, Single, Named,
       Aimed, Mine, Settled, Booted, Bringing, Standing, Blank, Runs, fileVars,
       bornVars, cellVars
  <2>. QED BY <2>1, <2>2
<1>12. CASE Own(p)
  <2>1. Named'
    <3>1. owner' = my[p].kernel /\ Standing' = Standing
      BY <1>12 DEF Own, Standing, Runs, bornVars
    <3>2. Standing \subseteq {my[p].kernel}
      BY <1>12 DEF Mine, Own, At, Bringing
    <3>. QED BY <3>1, <3>2 DEF Named
  <2>2. Locked' /\ Fresh' /\ Single' /\ Aimed' /\ Mine' /\ Booted'
    BY <1>12, LifecycleAssumption DEF Own, At, Goto, TypeOK, CallTypes, Locked, Fresh,
       Single, Aimed, Mine, Booted, Bringing, Inside, Standing, Runs, bornVars
  <2>3. Settled'
    <3>1. \A k \in Kernels : watch[k] \notin Bound
      BY <1>12, Alone DEF Own, At, Inside, Bringing, Bound
    <3>. QED BY <1>12, <3>1 DEF Own, Settled, Bound
  <2>. QED BY <2>1, <2>2, <2>3
<1>13. CASE Describe(p)
  BY <1>13, LifecycleAssumption DEF Describe, At, Goto, Locked, Fresh, Single, Named,
     Aimed, Mine, Settled, Booted, Bringing, Inside, Standing, Runs, bornVars
<1>14. CASE Boot(p)
  BY <1>14, LifecycleAssumption DEF Boot, At, Goto, Locked, Fresh, Single, Named, Aimed,
     Mine, Settled, Booted, Bringing, Inside, Standing, Runs, fileVars, bornVars
<1>15. CASE Reply(p)
  BY <1>15, LifecycleAssumption DEF Reply, At, Goto, Locked, Fresh, Single, Named,
     Aimed, Mine, Settled, Booted, Bringing, Inside, Standing, Runs, fileVars, bornVars
<1>16. CASE MarkReady(p)
  BY <1>16, LifecycleAssumption DEF MarkReady, At, Goto, TypeOK, CallTypes, Locked,
     Fresh, Single, Named, Aimed, Mine, Settled, Booted, Bringing, Inside, Standing,
     Runs, bornVars
<1>17. CASE Spend(p)
  <2>1. pc[p] = "spend" /\ pc' = [pc EXCEPT ![p] = "told"]
    BY <1>17 DEF Spend, At, Goto, Tell
  <2>2. \A q \in Callers \ {p} : my'[q] = my[q]
    BY <1>17 DEF Spend, Tell, TypeOK, CallTypes
  <2>3. /\ lock' = (IF lock = p THEN Nobody ELSE lock)
        /\ UNCHANGED <<owner, ready, forked, state, lost, cell, watch>>
        /\ Standing' = Standing
    BY <1>17 DEF Spend, Tell, Unlock, Standing, Runs, bornVars, cellVars
  <2>4. \A q \in Callers \ {p} : pc[q] \notin Inside
    BY <2>1, Alone DEF Inside
  <2>5. Locked' /\ Fresh' /\ Single' /\ Named' /\ Settled'
    <3>1. lock = p /\ p \notin Kernels
      BY <2>1, LifecycleAssumption DEF Locked, Inside, LifecycleAssumption, Kernels
    <3>2. \A q \in Callers : pc'[q] \notin Inside
      BY <2>1, <2>4 DEF Inside, Bringing, TypeOK, CallTypes
    <3>3. \A k \in Kernels : watch'[k] \notin Bound \cup {"locked"}
      BY <2>3, <3>1 DEF Locked
    <3>4. Locked'
      BY <3>2, <3>3 DEF Locked
    <3>. QED BY <2>1, <2>3, <3>4 DEF Fresh, Single, Named, Settled, TypeOK, CallTypes
  <2>6. Aimed' /\ Mine' /\ Booted'
    BY <2>1, <2>2, <2>3 DEF Aimed, Mine, Booted, Bringing, TypeOK, CallTypes
  <2>. QED BY <2>5, <2>6
<1>18. CASE Return(p)
  <2>1. Locked'
    BY <1>18, Distinct DEF Return, Goto, Leave, Unlock, TypeOK, CallTypes, Locked,
       Bringing, Inside
  <2>2. Fresh' /\ Single' /\ Named' /\ Aimed' /\ Mine' /\ Settled' /\ Booted'
    BY <1>18, LifecycleAssumption DEF Return, At, Goto, Leave, TypeOK, CallTypes, Fresh,
       Single, Named, Aimed, Mine, Settled, Booted, Bringing, Standing, Blank, Runs,
       fileVars, bornVars, cellVars
  <2>. QED BY <2>1, <2>2
<1>19. CASE Fails(p)
  <2>1. /\ pc[p] \in Bringing /\ pc' = [pc EXCEPT ![p] = "disown"]
        /\ my' = [my EXCEPT ![p].then = "raise"] /\ Dies(my[p].kernel)
        /\ UNCHANGED <<lock, fileVars, bornVars, cells>>
    BY <1>19 DEF Fails, Goto, Bringing
  <2>2. /\ state' = [state EXCEPT ![my[p].kernel] = "dead"]
        /\ my[p].kernel \in Kernels /\ my[p].kernel <= forked
        /\ lost' = lost /\ Standing \subseteq {my[p].kernel}
    BY <2>1 DEF Dies, Mine
  <2>3. \A k \in Kernels : state'[k] = IF k = my[p].kernel THEN "dead" ELSE state[k]
    BY <2>2 DEF TypeOK, KernelTypes
  <2>4. Standing' = {} /\ Single' /\ Named'
    BY <2>2, <2>3 DEF Standing, Runs, Single, Named
  <2>5. Locked' /\ Settled'
    BY <2>1, <2>2, LifecycleAssumption DEF LifecycleAssumption, Dies, TypeOK, KernelTypes,
       CallTypes, Locked, Settled, Bringing, Inside, Bound
  <2>6. Fresh'
    <3>1. forked \in Nat /\ Kernels \subseteq Nat /\ lost \subseteq Kernels
      BY LifecycleAssumption DEF LifecycleAssumption, TypeOK, KernelTypes, Kernels
    <3>2. \A k \in Kernels : k > forked => k # my[p].kernel
      BY <2>2, <3>1
    <3>. QED BY <2>1, <2>2, <2>3, <3>1, <3>2 DEF Fresh, bornVars
  <2>7. \A q \in Callers :
          /\ pc'[q] = IF q = p THEN "disown" ELSE pc[q]
          /\ my'[q].kernel = my[q].kernel /\ my'[q].victim = my[q].victim
          /\ my'[q].told = my[q].told
    BY <2>1 DEF TypeOK, CallTypes, CallType
  <2>8. Aimed'
    BY <2>1, <2>4, <2>7 DEF Aimed, Bringing, fileVars, bornVars
  <2>9. Mine'
    BY <2>1, <2>2, <2>3, <2>4, <2>7 DEF Mine, Bringing, fileVars, bornVars
  <2>10. Booted'
    BY <2>1, <2>2, <2>3, <2>4, <2>7 DEF Booted, Mine, Bringing, fileVars, bornVars
  <2>. QED BY <2>4, <2>5, <2>6, <2>8, <2>9, <2>10
<1>20. CASE Crash(p)
  BY <1>20, CrashStep
<1>. QED
  BY <1>1, <1>2, <1>3, <1>4, <1>5, <1>6, <1>7, <1>8, <1>9, <1>10, <1>11,
     <1>12, <1>13, <1>14, <1>15, <1>16, <1>17, <1>18, <1>19, <1>20 DEF Call

(***************************************************************************)
(* The kernels                                                             *)
(***************************************************************************)
(* and every step of a kernel.                                             *)
LEMMA KernelStep ==
  ASSUME IInv, TypeOK',
         NEW k \in Kernels, Kernel(k)
  PROVE  SInv'
<1>. USE DEF IInv, SInv
<1>1. CASE Install(k)
  BY <1>1, LifecycleAssumption DEF LifecycleAssumption, Install, Locked, Fresh, Single,
     Named, Aimed, Mine, Settled, Booted, Standing, Runs, fileVars, bornVars, cellVars,
     callVars
<1>2. CASE Admit(k)
  BY <1>2, LifecycleAssumption DEF Admit, Admitting, Locked, Fresh, Single, Named,
     Aimed, Mine, Settled, Booted, Bound, Standing, Runs, fileVars, bornVars, callVars
<1>3. CASE Record(k)
  BY <1>3, LifecycleAssumption DEF Record, Locked, Fresh, Single, Named, Aimed, Mine,
     Settled, Booted, Standing, Runs, fileVars, bornVars, callVars
<1>4. CASE Stamp(k)
  BY <1>4, LifecycleAssumption DEF Stamp, Locked, Fresh, Single, Named, Aimed, Mine,
     Settled, Booted, Standing, Runs, fileVars, bornVars, callVars
<1>5. CASE Sample(k)
  BY <1>5, LifecycleAssumption DEF Sample, Locked, Fresh, Single, Named, Aimed, Mine,
     Settled, Booted, Bound, Standing, Runs, fileVars, bornVars, callVars
<1>6. CASE WatchLock(k)
  BY <1>6, LifecycleAssumption DEF LifecycleAssumption, WatchLock, Locked, Fresh,
     Single, Named, Aimed, Mine, Settled, Booted, Bound, Standing, Runs, fileVars,
     bornVars, callVars
<1>7. CASE Check(k)
  <2>1. Locked'
    BY <1>7, Distinct DEF Check, TypeOK, KernelTypes, Locked, Bound, callVars
  <2>2. Fresh' /\ Single' /\ Named' /\ Aimed' /\ Mine' /\ Settled' /\ Booted'
    BY <1>7, LifecycleAssumption DEF Check, StillIdle, TypeOK, KernelTypes, Fresh,
       Single, Named, Aimed, Mine, Settled, Booted, Bound, Standing, Runs, fileVars,
       bornVars, cellVars, callVars
  <2>. QED BY <2>1, <2>2
<1>8. CASE Mark(k)
  BY <1>8, LifecycleAssumption DEF Mark, Locked, Fresh, Single, Named, Aimed, Mine,
     Settled, Booted, Bound, Standing, Runs, bornVars, cellVars, callVars
<1>9. CASE Vacate(k)
  <2>1. Mine'
    <3>1. \A p \in Callers : pc[p] \notin Inside
      BY <1>9, Alone DEF Vacate
    <3>. QED BY <1>9, <3>1 DEF Mine, Vacate, Inside, Bringing, callVars
  <2>2. /\ \A j \in Kernels \ {k} : watch[j] \notin Bound
        /\ \A p \in Callers : pc[p] # "own"
    BY <1>9, Distinct DEF Vacate, Locked, Bound, Inside, Bringing
  <2>3. Standing' = {j \in Standing : j = k \/ owner # j}
    BY <1>9 DEF Vacate, Standing, Runs, bornVars
  <2>4. Named'
    <3>1. \A j \in Standing : j = k \/ owner = j
      BY <2>2 DEF Named, Bound, Standing
    <3>2. Standing' \subseteq {k}
      BY <2>3, <3>1
    <3>. QED BY <1>9, <3>2 DEF Named, Vacate, TypeOK, KernelTypes
  <2>5. Fresh'
    BY <1>9 DEF Fresh, Vacate, Runs, bornVars
  <2>6. Locked' /\ Single' /\ Settled'
    BY <1>9, <2>2, <2>3 DEF Vacate, TypeOK, KernelTypes, Locked, Single, Settled, Bound,
       cellVars, callVars
  <2>7. Aimed' /\ Booted'
    BY <1>9, <2>2, <2>3 DEF Vacate, Aimed, Booted, Bringing, Standing, bornVars, callVars
  <2>. QED BY <2>1, <2>4, <2>5, <2>6, <2>7
<1>10. CASE Close(k)
  BY <1>10, LifecycleAssumption DEF Close, Locked, Fresh, Single, Named, Aimed, Mine,
     Settled, Booted, Bound, Standing, Runs, bornVars, cellVars, callVars
<1>11. CASE Balk(k)
  <2>1. Locked'
    BY <1>11, Distinct DEF Balk, TypeOK, KernelTypes, Locked, Bound, callVars
  <2>2. /\ Standing' = Standing \ (IF watch[k] = "vacated" THEN {k} ELSE {})
        /\ \A p \in Callers : pc[p] \notin Inside
        /\ \A j \in Kernels : watch'[j] = IF j = k THEN "rest" ELSE watch[j]
    BY <1>11, Alone DEF Balk, Standing, Runs, bornVars, TypeOK, KernelTypes
  <2>3. Named' /\ Settled'
    BY <1>11, <2>2 DEF Balk, Named, Settled, Bound, Inside, Bringing, Standing, fileVars,
       cellVars, callVars
  <2>4. Fresh' /\ Single'
    BY <1>11, <2>2 DEF Balk, Fresh, Single, bornVars
  <2>5. Aimed' /\ Mine' /\ Booted'
    BY <1>11, <2>2 DEF Balk, Aimed, Mine, Booted, Settled, Inside, Bringing, fileVars,
       bornVars, callVars
  <2>. QED BY <2>1, <2>3, <2>4, <2>5
<1>12. CASE Expire(k)
  <2>1. Locked'
    BY <1>12, Distinct DEF Expire, Dies, TypeOK, KernelTypes, Locked, Bound, callVars
  <2>2. Fresh' /\ Single' /\ Named' /\ Aimed' /\ Mine' /\ Settled' /\ Booted'
    BY <1>12, LifecycleAssumption DEF Expire, Dies, TypeOK, KernelTypes, CallTypes,
       Fresh, Single, Named, Aimed, Mine, Settled, Booted, Standing, Runs, fileVars,
       bornVars, callVars
  <2>. QED BY <2>1, <2>2
<1>13. CASE KernelDies(k)
  <2>1. Locked'
    BY <1>13, Distinct DEF KernelDies, Unlock, Dies, TypeOK, KernelTypes, Locked, Bound,
       callVars
  <2>2. Fresh' /\ Single' /\ Named' /\ Aimed' /\ Mine' /\ Settled' /\ Booted'
    BY <1>13, LifecycleAssumption DEF KernelDies, Dies, TypeOK, KernelTypes, Fresh,
       Single, Named, Aimed, Mine, Settled, Booted, Standing, Runs, fileVars, bornVars,
       callVars
  <2>. QED BY <2>1, <2>2
<1>. QED
  BY <1>1, <1>2, <1>3, <1>4, <1>5, <1>6, <1>7, <1>8, <1>9, <1>10, <1>11,
     <1>12, <1>13 DEF Kernel, Watchdog

(***************************************************************************)
(* Theorems                                                                *)
(***************************************************************************)

(* The invariant is inductive,                                             *)
LEMMA IInvStep == IInv /\ [Next]_vars => IInv'
<1>. SUFFICES ASSUME IInv, [Next]_vars PROVE SInv'
  BY TypesNext DEF IInv
<1>1. TypeOK'
  BY TypesNext
<1>2. CASE UNCHANGED vars
  <2>1. Standing' = Standing
    BY <1>2 DEF vars, bornVars, Standing, Runs
  <2>2. Locked' /\ Fresh' /\ Single' /\ Named' /\ Settled'
    BY <1>2, <2>1 DEF IInv, SInv, Locked, Fresh, Single, Named, Settled, vars, fileVars,
       bornVars, cellVars, callVars
  <2>3. Aimed' /\ Mine' /\ Booted'
    BY <1>2, <2>1 DEF IInv, SInv, Aimed, Mine, Booted, vars, fileVars, bornVars, callVars
  <2>. QED BY <2>2, <2>3 DEF SInv
<1>3. CASE Next
  BY <1>1, <1>3, CallStep, KernelStep DEF Next
<1>. QED BY <1>2, <1>3

(* and so it holds in every reachable state.                               *)
THEOREM Invariance == Spec => []IInv
<1>1. Init => TypeOK
  <2>1. Blank \in CallType
    BY LifecycleAssumption DEF LifecycleAssumption, Blank, CallType
  <2>2. Init => FileTypes
    <3>1. 0 \in 0..MaxKernel
      BY LifecycleAssumption DEF LifecycleAssumption
    <3>. QED BY <3>1, Zenon DEF Init, FileTypes
  <2>3. Init => KernelTypes
    BY LifecycleAssumption DEF LifecycleAssumption, Init, KernelTypes
  <2>4. Init => CallTypes
    BY <2>1 DEF Init, CallTypes, Steps
  <2>. QED BY <2>2, <2>3, <2>4 DEF TypeOK
<1>2. Init => SInv
  <2>. SUFFICES ASSUME Init PROVE SInv
    OBVIOUS
  <2>1. Standing = {}
    BY DEF Init, Standing, Runs
  <2>2. Locked /\ Fresh /\ Single /\ Named /\ Settled
    BY <2>1 DEF Init, Locked, Fresh, Single, Named, Settled, Inside, Bringing, Bound
  <2>3. Aimed /\ Mine /\ Booted
    BY <2>1 DEF Init, Aimed, Mine, Booted, Bringing, Blank
  <2>. QED BY <2>2, <2>3 DEF SInv
<1>. QED BY <1>1, <1>2, IInvStep, PTL DEF Spec, IInv

(* Every variable keeps its type.                                          *)
THEOREM TypeCorrect == Spec => []TypeOK
BY Invariance, PTL DEF IInv

(* While nobody holds the key lock, a kernel that runs is named by         *)
(* owner.json, save one lost at its fork, by a cleanup that failed, or by  *)
(* the cleanup of a kernel lost before.                                    *)
THEOREM RunningNamed == Spec => []RunningIsNamed
<1>1. IInv => RunningIsNamed
  <2>. SUFFICES ASSUME IInv, lock = Nobody, NEW k \in Standing PROVE owner = k
    BY DEF RunningIsNamed, Standing
  <2>1. \A p \in Callers : pc[p] # "own"
    BY Distinct DEF IInv, SInv, Locked, Inside, Bringing
  <2>2. watch[k] \notin {"vacated", "closed"}
    BY Distinct DEF IInv, SInv, Locked, Bound, Standing
  <2>. QED BY <2>1, <2>2 DEF IInv, SInv, Named
<1>. QED BY <1>1, Invariance, PTL

(* A caller is told a kernel by an attach or a spawn, and by nothing else. *)
LEMMA Telling ==
  ASSUME TypeOK, Next, NEW p \in Callers, ~Attach(p), ~Spend(p)
  PROVE  my'[p].told \in {0, my[p].told}
<1>. USE DEF TypeOK, CallTypes, CallType
<1>1. ASSUME NEW q \in Callers, Begin(q) \/ Call(q) \/ Crash(q), q # p PROVE my'[p] = my[p]
  BY <1>1 DEF Begin, Call, Crash, TakeLock, Doubt, Attach, Replace, LookKill, Slay,
     Disown, Unready, Fork, ForkFails, Own, Describe, Boot, Reply, MarkReady, Spend,
     Return, Fails, Tell, Leave, AfterKill, AfterFiles
<1>2. CASE Doubt(p) \/ ForkFails(p) \/ Return(p) \/ Crash(p)
  BY <1>2 DEF Doubt, ForkFails, Return, Crash, Leave, Blank
<1>3. CASE TakeLock(p) \/ Disown(p) \/ Own(p) \/ Describe(p) \/ Boot(p) \/ Reply(p) \/ MarkReady(p)
  BY <1>3 DEF TakeLock, Disown, Own, Describe, Boot, Reply, MarkReady
<1>4. CASE Begin(p) \/ Replace(p) \/ Slay(p) \/ Fork(p) \/ Fails(p)
  BY <1>4 DEF Begin, Replace, Slay, Fork, Fails
<1>5. CASE LookKill(p) \/ Unready(p)
  BY <1>5 DEF LookKill, Unready, AfterKill, AfterFiles, Leave, Blank
<1>6. CASE \E k \in Kernels : Kernel(k)
  BY <1>6 DEF Kernel, Watchdog, Install, Admit, Record, Stamp, Sample, WatchLock, Check,
     Mark, Vacate, Close, Balk, Expire, KernelDies, callVars
<1>. QED BY <1>1, <1>2, <1>3, <1>4, <1>5, <1>6 DEF Next, Call

(* Whoever is told a kernel is told one that has bootstrapped.             *)
THEOREM ToldBooted == Spec => ToldIsBooted
<1> DEFINE Booting == \A p \in Callers :
             my'[p].told \notin {0, my[p].told} => state[my'[p].told] \in {"booted", "dead"}
<1>1. ASSUME IInv, Next PROVE Booting
  <2>. SUFFICES ASSUME NEW p \in Callers, my'[p].told \notin {0, my[p].told}
                PROVE  state[my'[p].told] \in {"booted", "dead"}
    OBVIOUS
  <2>. USE <1>1 DEF IInv
  <2>1. CASE Attach(p)
    <3>1. my'[p].told = owner
      BY <2>1 DEF Attach, Tell, Leave, Blank, TypeOK, CallTypes, CallType
    <3>2. owner \in Standing
      BY <2>1 DEF Attach, SInv, Booted, Standing, TypeOK, FileTypes, Kernels
    <3>. QED BY <2>1, <3>1, <3>2 DEF Attach, SInv, Booted
  <2>2. CASE Spend(p)
    <3>1. my'[p].told = my[p].kernel
      BY <2>2 DEF Spend, Tell, TypeOK, CallTypes, CallType
    <3>. QED BY <2>2, <3>1 DEF Spend, At, SInv, Booted
  <2>. QED BY <2>1, <2>2, Telling
<1>2. IInv /\ [Next]_vars => [Booting]_vars
  BY <1>1
<1>. QED BY <1>2, Invariance, PTL DEF Spec, ToldIsBooted

(* An expiry notice is taken only by the call that delivers it.            *)
THEOREM NoticeIsDelivered == Spec => NoticeDelivered
<1> DEFINE Delivered == marker /\ ~marker' =>
             \E p \in Callers : my[p].told = 0 /\ my'[p].told # 0 /\ my[p].notice
<1>1. ASSUME IInv, Next PROVE Delivered
  <2>. SUFFICES ASSUME marker, ~marker'
                PROVE  \E p \in Callers : my[p].told = 0 /\ my'[p].told # 0 /\ my[p].notice
    OBVIOUS
  <2>1. PICK p \in Callers : Spend(p)
    BY ZenonT(60), <1>1 DEF Next, Begin, Call, Crash, TakeLock, Doubt, Attach, Replace, LookKill,
       Slay, Disown, Unready, Fork, ForkFails, Own, Describe, Boot, Reply, MarkReady,
       Return, Fails, Kernel, Watchdog, Install, Admit, Record, Stamp, Sample,
       WatchLock, Check, Mark, Vacate, Close, Balk, Expire, KernelDies, fileVars
  <2>2. my[p].notice
    BY <2>1 DEF Spend
  <2>3. my[p].told = 0 /\ my[p].kernel \in Kernels
    BY <1>1, <2>1 DEF IInv, SInv, Booted, Mine, Spend, At
  <2>4. my'[p].told = my[p].kernel
    BY <1>1, <2>1 DEF Spend, Tell, IInv, TypeOK, CallTypes, CallType
  <2>. QED BY <2>2, <2>3, <2>4 DEF Kernels
<1>2. IInv /\ [Next]_vars => [Delivered]_vars
  BY <1>1 DEF vars, fileVars
<1>. QED BY <1>2, Invariance, PTL DEF Spec, NoticeDelivered

(***************************************************************************)
(* Refinement                                                              *)
(***************************************************************************)
Busy == {k \in Standing : cell[k] = "running"}
Leaving == {k \in Standing : watch[k] \notin {"rest", "sampled", "locked"}}

(* Whatever dies, nothing stands, or the one that stood stands as it was.  *)
LEMMA DeathMaps ==
  ASSUME IInv, NEW k \in Kernels, Dies(k)
  PROVE  \/ Standing' = {} /\ Busy' = {} /\ Leaving' = {}
         \/ Standing' = Standing /\ Busy' = Busy /\ Leaving' = Leaving
<1>1. CASE k \in Standing
  <2>1. Standing' = {}
    BY <1>1, Death DEF IInv, TypeOK, SInv, Single, Standing
  <2>. QED BY <2>1 DEF Busy, Leaving
<1>2. CASE k \notin Standing
  <2>1. Standing' = Standing
    BY <1>2, Death DEF IInv, TypeOK
  <2>2. \A j \in Standing : cell'[j] = cell[j] /\ watch'[j] = watch[j]
    BY <1>2, Death DEF IInv, TypeOK, Standing
  <2>. QED BY <2>1, <2>2 DEF Busy, Leaving
<1>. QED BY <1>1, <1>2

(* A step of a call starts a kernel where none stands, ends the one that   *)
(* stands, or changes nothing.                                             *)
LEMMA CallMaps ==
  ASSUME IInv, NEW p \in Callers, Begin(p) \/ Call(p) \/ Crash(p)
  PROVE  \/ Standing' = {} /\ Busy' = {} /\ Leaving' = {}
         \/ Standing' = Standing /\ Busy' = Busy /\ Leaving' = Leaving
         \/ \E k \in Kernels : /\ Standing = {} /\ Standing' = {k}
                               /\ Busy' = Busy /\ Leaving' = Leaving
<1>. USE DEF IInv
<1>1. CASE UNCHANGED <<state, lost, cell, watch>>
  BY <1>1 DEF Standing, Runs, Busy, Leaving
<1>2. CASE Slay(p)
  <2>1. CASE my[p].victim = 0
    BY <1>1, <1>2, <2>1 DEF Slay, lifeVars
  <2>2. CASE my[p].victim # 0
    <3>1. my[p].victim \in Kernels /\ Dies(my[p].victim)
      BY <1>2, <2>2, LifecycleAssumption DEF Slay, TypeOK, CallTypes, CallType, Kernels,
         LifecycleAssumption
    <3>. QED BY <3>1, DeathMaps
  <2>. QED BY <2>1, <2>2
<1>3. CASE Fails(p)
  <2>1. my[p].kernel \in Kernels /\ Dies(my[p].kernel)
    BY <1>3 DEF Fails, SInv, Mine, Bringing
  <2>. QED BY <2>1, DeathMaps
<1>4. CASE Fork(p)
  <2>1. Standing = {}
    BY <1>4 DEF SInv, Aimed, Fork, At
  <2>2. forked' \in Kernels /\ state[forked'] = "unborn" /\ forked' \notin lost
    BY <1>4, LifecycleAssumption DEF Fork, SInv, Fresh, TypeOK, KernelTypes, Kernels
  <2>3. cell[forked'] = "none" /\ watch[forked'] = "rest"
    BY <2>2 DEF TypeOK, KernelTypes
  <2>4. /\ \A k \in Kernels : state'[k] = IF k = forked' THEN "up" ELSE state[k]
        /\ UNCHANGED <<lost, cell, watch>>
    BY <1>4, <2>2 DEF Fork, TypeOK, KernelTypes, cellVars
  <2>5. Standing' = {forked'}
    BY <2>1, <2>2, <2>4 DEF Standing, Runs
  <2>. QED BY <2>1, <2>2, <2>3, <2>4, <2>5 DEF Busy, Leaving
<1>5. CASE Boot(p)
  <2>1. Standing' = Standing
    BY <1>5 DEF Boot, Standing, Runs, TypeOK, KernelTypes
  <2>. QED BY <1>5, <2>1 DEF Boot, Busy, Leaving, cellVars
<1>6. CASE Crash(p)
  <2>1. CASE ~At(p, "own")
    BY <1>1, <1>6, <2>1 DEF Crash, cellVars
  <2>2. CASE At(p, "own")
    <3>1. Standing' = {}
      BY <1>6, <2>2 DEF Crash, SInv, Mine, Bringing, At, Standing, Runs
    <3>. QED BY <3>1 DEF Busy, Leaving
  <2>. QED BY <2>1, <2>2
<1>7. CASE \/ Begin(p) \/ TakeLock(p) \/ Doubt(p) \/ Attach(p) \/ Replace(p) \/ LookKill(p)
           \/ Disown(p) \/ Unready(p) \/ ForkFails(p) \/ Own(p) \/ Describe(p) \/ Reply(p)
           \/ MarkReady(p) \/ Spend(p) \/ Return(p)
  BY <1>1, <1>7 DEF Begin, TakeLock, Doubt, Attach, Replace, LookKill, Disown, Unready,
     ForkFails, Own, Describe, Reply, MarkReady, Spend, Return, cellVars
<1>. QED BY <1>2, <1>3, <1>4, <1>5, <1>6, <1>7 DEF Call

(* A step of a kernel starts or ends a cell, binds the watchdog, or ends   *)
(* the kernel.                                                             *)
LEMMA KernelMaps ==
  ASSUME IInv, NEW k \in Kernels, Kernel(k)
  PROVE  \/ Standing' = {} /\ Busy' = {} /\ Leaving' = {}
         \/ Standing' = Standing /\ Busy' = Busy /\ Leaving' = Leaving
         \/ Standing' = Standing /\ Busy' = Busy /\ Leaving' = {}
         \/ /\ k \in Standing \ (Busy \cup Leaving)
            /\ Standing' = Standing /\ Busy' = {k} /\ Leaving' = Leaving
         \/ /\ k \in Busy
            /\ Standing' = Standing /\ Busy' = {} /\ Leaving' = Leaving
         \/ /\ k \in Standing \ Busy
            /\ Standing' = Standing /\ Busy' = Busy /\ Leaving' = {k}
<1>. USE DEF IInv, TypeOK
<1>1. CASE UNCHANGED <<state, lost, cell, watch>>
  BY <1>1 DEF Standing, Runs, Busy, Leaving
<1>2. CASE Install(k)
  <2>1. Standing' = Standing
    BY <1>2 DEF Install, Standing, Runs, KernelTypes
  <2>. QED BY <1>2, <2>1 DEF Install, Busy, Leaving, cellVars
<1>3. CASE Vacate(k)
  <2>1. /\ Standing' = {j \in Standing : j = k \/ owner # j}
        /\ \A j \in Standing : cell'[j] = cell[j]
        /\ \A j \in Standing : watch'[j] = IF j = k THEN "vacated" ELSE watch[j]
    BY <1>3 DEF Vacate, Standing, Runs, bornVars, cellVars, KernelTypes
  <2>2. Standing' = Standing \/ Standing' = {}
    BY <2>1 DEF SInv, Single, Standing
  <2>3. Leaving' = {j \in Standing' : j \in Leaving} /\ Busy' = {j \in Standing' : j \in Busy}
    BY <1>3, <2>1 DEF Vacate, Leaving, Busy
  <2>. QED BY <2>2, <2>3 DEF Busy, Leaving
<1>4. CASE /\ \/ Admit(k) \/ Record(k) \/ Stamp(k) \/ Sample(k) \/ WatchLock(k) \/ Check(k)
              \/ Mark(k) \/ Close(k) \/ Balk(k)
  <2>1. /\ Standing' = Standing \ (IF Balk(k) /\ watch[k] = "vacated" THEN {k} ELSE {})
        /\ \A j \in Standing \ {k} : cell'[j] = cell[j] /\ watch'[j] = watch[j]
    BY <1>4 DEF Admit, Record, Stamp, Sample, WatchLock, Check, Mark, Close, Balk,
       Standing, Runs, bornVars, cellVars, KernelTypes
  <2>2. CASE k \in lost
    <3>1. k \notin Standing
      BY <2>2 DEF Standing
    <3>. QED BY <2>1, <3>1 DEF Busy, Leaving
  <2>3. CASE k \notin lost
    <3>1. Standing = {k}
      BY <1>4, <2>3 DEF Admit, Record, Stamp, Sample, WatchLock, Check, Mark, Close, Balk,
         SInv, Single, Standing, Runs
    <3>2. CASE Admit(k)
      BY <2>1, <3>1, <3>2 DEF Admit, Admitting, Balk, Busy, Leaving, KernelTypes
    <3>3. CASE Record(k) \/ Stamp(k)
      BY <2>1, <3>1, <3>3 DEF Record, Stamp, Balk, Busy, Leaving, KernelTypes
    <3>4. CASE Check(k)
      BY <2>1, <3>1, <3>4 DEF Check, Balk, StillIdle, Busy, Leaving, KernelTypes
    <3>5. CASE Balk(k)
      BY <2>1, <3>1, <3>5 DEF Balk, Busy, Leaving, KernelTypes, cellVars
    <3>6. CASE Sample(k) \/ WatchLock(k)
      BY <2>1, <3>1, <3>6 DEF Sample, WatchLock, Balk, Busy, Leaving, KernelTypes,
         cellVars
    <3>7. CASE Mark(k) \/ Close(k)
      BY <2>1, <3>1, <3>7 DEF Mark, Close, Balk, Busy, Leaving, KernelTypes, cellVars
    <3>. QED BY <1>4, <3>2, <3>3, <3>4, <3>5, <3>6, <3>7
  <2>. QED BY <2>2, <2>3
<1>5. CASE Expire(k) \/ KernelDies(k)
  BY <1>5, DeathMaps DEF Expire, KernelDies
<1>. QED BY <1>2, <1>3, <1>4, <1>5 DEF Kernel, Watchdog

(* One kernel under the key at a time, and none its watchdog ends while a  *)
(* cell is in flight in it.                                                *)
THEOREM Implements == Spec => TenancySpec
<1>. USE DEF T!tvars, T!Init, T!Next, T!Start, T!CellStarts, T!CellEnds, T!Expiry, T!Balk, T!End
<1>1. Init => T!Init
  BY DEF Init, Standing, Runs
<1>2. ASSUME IInv, [Next]_vars PROVE [T!Next]_T!tvars
  <2>. USE DEF Busy, Leaving
  <2>1. CASE UNCHANGED vars
    BY <2>1 DEF vars, cellVars, Standing, Runs
  <2>2. ASSUME NEW p \in Callers, Begin(p) \/ Call(p) \/ Crash(p) PROVE [T!Next]_T!tvars
    BY <1>2, <2>2, CallMaps
  <2>3. ASSUME NEW k \in Kernels, Kernel(k) PROVE [T!Next]_T!tvars
    BY <1>2, <2>3, KernelMaps
  <2>. QED BY <1>2, <2>1, <2>2, <2>3 DEF Next
<1>. QED BY <1>1, <1>2, Invariance, PTL DEF Spec, TenancySpec, T!Spec

(***************************************************************************)
(* Configurations                                                          *)
(***************************************************************************)
(* What meta.json records of a ready kernel is what the kernel lives under.*)
MetaIsTrue == ready /\ owner # 0 => meta # Nobody /\ config[owner] = meta

Described ==
  \A p \in Callers :
    /\ pc[p] # "idle" => my[p].config # Nobody
    /\ pc[p] \in Bringing \cup {"spend"} => config[my[p].kernel] = my[p].config
    /\ pc[p] \in {"boot", "reply", "ready", "spend"} => meta = my[p].config

RInv == MetaIsTrue /\ Described

(* A step of one call leaves the others' alone.                            *)
LEMMA OthersKept ==
  ASSUME TypeOK, NEW p \in Callers, Begin(p) \/ Call(p) \/ Crash(p)
  PROVE  \A q \in Callers \ {p} : pc'[q] = pc[q] /\ my'[q] = my[q]
BY DEF TypeOK, CallTypes, Begin, Call, Crash, TakeLock, Doubt, Attach, Replace, LookKill,
   Slay, Disown, Unready, Fork, ForkFails, Own, Describe, Boot, Reply, MarkReady, Spend,
   Return, Fails, Tell, Leave, AfterKill, AfterFiles, Goto

(* A kernel's step takes a file away and records nothing.                  *)
LEMMA KernelWrites ==
  ASSUME NEW k \in Kernels, Kernel(k)
  PROVE  /\ UNCHANGED <<meta, config, forked, pc, my>>
         /\ owner' \in {owner, 0} /\ (ready' => ready)
BY DEF Kernel, Watchdog, Install, Admit, Record, Stamp, Sample, WatchLock, Check, Mark,
   Vacate, Close, Balk, Expire, KernelDies, fileVars, bornVars, callVars

LEMMA RecordStep ==
  ASSUME IInv, RInv, [Next]_vars
  PROVE  RInv'
<1>. USE DEF IInv, TypeOK, RInv
<1>1. CASE UNCHANGED vars
  BY <1>1 DEF vars, fileVars, bornVars, callVars, MetaIsTrue, Described
<1>2. ASSUME NEW k \in Kernels, Kernel(k) PROVE RInv'
  BY <1>2, KernelWrites DEF MetaIsTrue, Described
<1>3. ASSUME NEW p \in Callers, Begin(p) \/ Call(p) \/ Crash(p) PROVE RInv'
  <2>. USE DEF CallTypes, CallType
  <2>1. \A q \in Callers \ {p} : pc'[q] = pc[q] /\ my'[q] = my[q]
    BY <1>3, OthersKept
  <2>2. CASE /\ UNCHANGED <<owner, ready, meta, config>>
             /\ pc'[p] \notin Bringing \cup {"spend"}
             /\ pc'[p] # "idle" => my'[p].config # Nobody
    BY <2>1, <2>2 DEF MetaIsTrue, Described, Bringing
  <2>3. CASE Begin(p)
    <3>1. my'[p].config \in {p, meta} /\ my'[p].config # Nobody
      BY <2>3, Distinct DEF Begin
    <3>. QED BY <2>2, <2>3, <3>1 DEF Begin, Goto, fileVars, bornVars, Bringing
  <2>4. CASE TakeLock(p) \/ Replace(p) \/ Slay(p)
    BY <2>2, <2>4 DEF TakeLock, Replace, Slay, At, Goto, fileVars, bornVars, Bringing,
       Described
  <2>5. CASE Doubt(p) \/ ForkFails(p) \/ Return(p) \/ Crash(p)
    BY <2>2, <2>5 DEF Doubt, ForkFails, Return, Crash, Leave, Goto, fileVars, bornVars,
       Bringing
  <2>6. CASE Attach(p) \/ LookKill(p)
    BY <2>2, <2>6 DEF Attach, LookKill, AfterKill, Leave, Tell, At, Goto, fileVars,
       bornVars, Bringing, Described
  <2>7. CASE Disown(p) \/ Unready(p)
    <3>1. /\ UNCHANGED <<meta, config>>
          /\ owner' = 0 \/ ~ready'
          /\ pc'[p] \notin Bringing \cup {"spend"}
          /\ pc'[p] # "idle" => my'[p].config # Nobody
      BY <2>7 DEF Disown, Unready, AfterFiles, AfterKill, Leave, At, Goto, fileVars,
         bornVars, Bringing, Described
    <3>. QED BY <2>1, <3>1 DEF MetaIsTrue, Described, Bringing
  <2>8. CASE Fails(p)
    BY <2>2, <2>8 DEF Fails, Goto, fileVars, bornVars, Bringing, Described
  <2>9. CASE Fork(p)
    <3>1. pc[p] = "fork" /\ \A q \in Callers \ {p} : pc[q] \notin Inside
      BY <2>9, Alone DEF Fork, At, Inside
    <3>2. ~ready /\ ready' = ready
      BY <2>9, <3>1 DEF SInv, Booted, Fork, fileVars
    <3>3. /\ forked' \in Kernels /\ my'[p].kernel = forked'
          /\ my'[p].config = my[p].config /\ pc'[p] = "own"
      <4>1. forked' \in Kernels
        BY <2>9, LifecycleAssumption DEF LifecycleAssumption, Fork, KernelTypes, Kernels
      <4>. QED BY <2>9, <4>1 DEF Fork, Goto
    <3>4. config'[forked'] = my[p].config
      BY <2>9, <3>3 DEF Fork, KernelTypes
    <3>. QED BY <2>1, <2>9, <3>1, <3>2, <3>3, <3>4 DEF MetaIsTrue, Described, Inside,
             Bringing
  <2>10. CASE Own(p) \/ Describe(p)
    <3>1. /\ pc[p] \in {"own", "describe"}
          /\ \A q \in Callers \ {p} : pc[q] \notin Inside
      BY <2>10, Alone DEF Own, Describe, At, Inside, Bringing
    <3>2. ~ready /\ ready' = ready /\ config' = config
      BY <2>10, <3>1 DEF SInv, Booted, Own, Describe, Bringing, bornVars
    <3>3. /\ my'[p] = my[p] /\ pc'[p] \in {"describe", "boot"}
          /\ pc'[p] = "boot" => meta' = my[p].config
      BY <2>10 DEF Own, Describe, Goto
    <3>. QED BY <2>1, <3>1, <3>2, <3>3 DEF MetaIsTrue, Described, Inside, Bringing
  <2>11. CASE Boot(p) \/ Reply(p)
    BY <2>1, <2>11 DEF Boot, Reply, At, Goto, fileVars, bornVars, MetaIsTrue, Described,
       Bringing
  <2>12. CASE MarkReady(p)
    <3>1. pc[p] = "ready" /\ pc'[p] = "spend" /\ my' = my
          /\ UNCHANGED <<owner, meta, config>>
      BY <2>12 DEF MarkReady, At, Goto, bornVars
    <3>2. owner = my[p].kernel
      BY <3>1 DEF SInv, Mine, Bringing
    <3>. QED BY <2>1, <3>1, <3>2 DEF MetaIsTrue, Described, Bringing
  <2>13. CASE Spend(p)
    <3>1. pc[p] = "spend" /\ pc'[p] = "told" /\ UNCHANGED <<owner, ready, meta, config>>
      BY <2>13 DEF Spend, Tell, At, Goto, bornVars
    <3>2. my'[p].config = my[p].config /\ my[p].config # Nobody
      BY <2>13, <3>1 DEF Spend, Tell, Described
    <3>. QED BY <2>2, <3>1, <3>2 DEF Bringing
  <2>. QED BY <1>3, <2>3, <2>4, <2>5, <2>6, <2>7, <2>8, <2>9, <2>10, <2>11, <2>12, <2>13
           DEF Call
<1>. QED BY <1>1, <1>2, <1>3 DEF Next

(* A ready kernel's meta.json records the configuration it lives under, so *)
(* a restart that reads it reads the truth of that moment (write_meta,     *)
(* read_meta: src/src/ptc/kernel.py).                                      *)
THEOREM MetaTrue == Spec => []MetaIsTrue
<1>1. Init => RInv
  BY DEF Init, RInv, MetaIsTrue, Described, Bringing
<1>2. Spec => []RInv
  BY <1>1, RecordStep, Invariance, PTL DEF Spec
<1>. QED BY <1>2, PTL DEF RInv

(***************************************************************************)
(* Restarts where calls come one after another                             *)
(***************************************************************************)
OneCall == \A p, q \in Callers : pc[p] # "idle" /\ pc[q] # "idle" => p = q

Restarting(p) == my[p].goal = "restart"

(* Its configuration stays the recorded one, and is the one of the kernel  *)
(* it replaced and of the one it tells.                                    *)
Keeps(p) ==
  /\ pc[p] = "idle" => ~Restarting(p) /\ my[p].replaced = 0
  /\ Restarting(p) => meta \in {Nobody, my[p].config}
  /\ pc[p] = "slay" => my[p].victim \in {0, owner}
  /\ Restarting(p) /\ my[p].replaced # 0 =>
       my[p].replaced <= forked /\ config[my[p].replaced] = my[p].config
  /\ Restarting(p) /\ my[p].replaced # 0 /\ my[p].told # 0 =>
       my[p].told <= forked /\ config[my[p].told] = my[p].config

KInv == \A p \in Callers : Keeps(p)

LEMMA KeepsStep ==
  ASSUME IInv, RInv, KInv, OneCall, [Next]_vars
  PROVE  KInv'
<1>. USE DEF IInv, TypeOK, KInv
<1>1. CASE UNCHANGED vars
  BY <1>1 DEF vars, fileVars, bornVars, callVars, Keeps, Restarting
<1>2. ASSUME NEW k \in Kernels, Kernel(k) PROVE KInv'
  <2>1. ASSUME NEW p \in Callers, pc[p] = "slay" PROVE owner' = owner
    <3>1. watch[k] \in {"rest", "sampled"}
      BY <2>1, Alone DEF Inside
    <3>. QED BY <1>2, <3>1 DEF Kernel, Watchdog, Install, Admit, Record, Stamp, Sample,
             WatchLock, Check, Mark, Vacate, Close, Balk, Expire, KernelDies, fileVars
  <2>. QED BY <1>2, <2>1, KernelWrites DEF Keeps, Restarting
<1>3. ASSUME NEW p \in Callers, Begin(p) PROVE KInv'
  <2>1. /\ \A q \in Callers \ {p} : pc'[q] = pc[q] /\ my'[q] = my[q]
        /\ UNCHANGED <<owner, meta, forked, config>>
    BY <1>3, OthersKept DEF Begin, fileVars, bornVars
  <2>2. /\ pc'[p] = "lock" /\ my'[p].replaced = 0
        /\ my'[p].goal = "restart" => meta \in {Nobody, my'[p].config}
    BY <1>3 DEF Begin, At, Goto, CallTypes, CallType, Keeps
  <2>. QED BY <2>1, <2>2 DEF Keeps, Restarting
<1>4. ASSUME NEW p \in Callers, Call(p) \/ Crash(p) PROVE KInv'
  <2>. USE DEF CallTypes, CallType
  <2>1. /\ \A q \in Callers \ {p} : pc'[q] = pc[q] /\ my'[q] = my[q]
        /\ pc[p] # "idle"
    BY <1>4, OthersKept DEF Call, Crash, TakeLock, Doubt, Attach, Replace, LookKill, Slay,
       Disown, Unready, Fork, ForkFails, Own, Describe, Boot, Reply, MarkReady, Spend,
       Return, Fails, At
  <2>2. \A q \in Callers \ {p} : Keeps(q)'
    BY <2>1 DEF OneCall, Keeps, Restarting
  <2>3. SUFFICES Keeps(p)'
    BY <2>2
  <2>4. CASE my'[p] = Blank
    BY <2>4, Distinct DEF Blank, Keeps, Restarting
  <2>5. CASE /\ pc'[p] \notin {"idle", "slay"} /\ UNCHANGED meta
             /\ my'[p].goal = my[p].goal /\ my'[p].config = my[p].config
             /\ my'[p].replaced = my[p].replaced /\ my'[p].told = my[p].told
             /\ UNCHANGED <<forked, config>>
    BY <2>5 DEF Keeps, Restarting
  <2>6. CASE Leave(p)
    BY <2>4, <2>6 DEF Leave
  <2>7. CASE Doubt(p) \/ ForkFails(p) \/ Return(p) \/ Crash(p)
    BY <2>6, <2>7 DEF Doubt, ForkFails, Return, Crash
  <2>8. CASE TakeLock(p) \/ Disown(p) \/ Own(p) \/ Boot(p) \/ Reply(p) \/ MarkReady(p)
    BY <2>5, <2>8 DEF TakeLock, Disown, Own, Boot, Reply, MarkReady, Goto, fileVars, bornVars
  <2>9. CASE Fails(p)
    BY <2>5, <2>9 DEF Fails, Goto, fileVars, bornVars
  <2>10. CASE Unready(p)
    BY <2>5, <2>6, <2>10 DEF Unready, AfterFiles, AfterKill, Goto, bornVars
  <2>11. CASE Replace(p)
    <3>1. /\ pc'[p] = "slay" /\ my'[p].victim \in {0, owner'}
          /\ my'[p].goal = my[p].goal /\ my'[p].config = my[p].config
          /\ my'[p].replaced = my[p].replaced /\ my'[p].told = my[p].told
          /\ UNCHANGED <<meta, forked, config>>
      BY <2>11 DEF Replace, Goto, fileVars, bornVars
    <3>. QED BY <3>1 DEF Keeps, Restarting
  <2>12. CASE LookKill(p)
    <3>1. CASE AfterKill(p)
      BY <2>5, <2>6, <2>12, <3>1 DEF LookKill, AfterKill, Goto, fileVars, bornVars
    <3>2. CASE /\ my' = [my EXCEPT ![p].victim = IF Runs(owner) THEN owner ELSE 0,
                                    ![p].then = "return"]
               /\ Goto(p, "slay")
      <4>1. /\ pc'[p] = "slay" /\ my'[p].victim \in {0, owner'}
            /\ my'[p].goal = my[p].goal /\ my'[p].config = my[p].config
            /\ my'[p].replaced = my[p].replaced /\ my'[p].told = my[p].told
            /\ UNCHANGED <<meta, forked, config>>
        BY <2>12, <3>2 DEF LookKill, Goto, fileVars, bornVars
      <4>. QED BY <4>1 DEF Keeps, Restarting
    <3>. QED BY <2>12, <3>1, <3>2 DEF LookKill
  <2>13. CASE Slay(p)
    <3>1. /\ pc[p] = "slay" /\ pc'[p] = "disown"
          /\ my'[p].goal = my[p].goal /\ my'[p].config = my[p].config
          /\ my'[p].told = my[p].told
          /\ my'[p].replaced \in {my[p].replaced} \cup (IF ready THEN {my[p].victim} ELSE {})
          /\ UNCHANGED <<owner, meta, forked, config>>
      BY <2>13 DEF Slay, At, Goto, fileVars, bornVars
    <3>2. my[p].victim \in {0, owner} /\ my[p].victim <= forked /\ my[p].told = 0
      BY <3>1 DEF Keeps, SInv, Aimed, Booted
    <3>3. my[p].victim # 0 /\ ready /\ Restarting(p) => config[my[p].victim] = my[p].config
      BY <3>2 DEF RInv, MetaIsTrue, Keeps
    <3>. QED BY <3>1, <3>2, <3>3 DEF Keeps, Restarting
  <2>14. CASE Attach(p)
    <3>1. CASE Tell(p, owner)
      <4>1. /\ pc'[p] = "told" /\ my'[p].told = owner
            /\ my'[p].goal = my[p].goal /\ my'[p].config = my[p].config
            /\ my'[p].replaced = my[p].replaced
            /\ UNCHANGED <<meta, forked, config>>
        BY <2>14, <3>1 DEF Attach, Tell, Goto, fileVars, bornVars
      <4>2. owner <= forked
        BY <2>14 DEF Attach, Runs, SInv, Fresh, FileTypes, KernelTypes, Kernels
      <4>3. Restarting(p) => config[owner] = my[p].config
        BY <2>14 DEF Attach, RInv, MetaIsTrue, Keeps
      <4>. QED BY <4>1, <4>2, <4>3 DEF Keeps, Restarting
    <3>. QED BY <2>6, <2>14, <3>1 DEF Attach
  <2>15. CASE Fork(p)
    <3>1. /\ forked < MaxKernel /\ forked' = forked + 1 /\ forked \in Nat /\ UNCHANGED meta
          /\ \A k \in Kernels : k <= forked => config'[k] = config[k]
      BY <2>15 DEF Fork, KernelTypes, fileVars
    <3>2. /\ pc'[p] = "own"
          /\ my'[p].goal = my[p].goal /\ my'[p].config = my[p].config
          /\ my'[p].replaced = my[p].replaced /\ my'[p].told = my[p].told
      BY <2>15 DEF Fork, Goto
    <3>3. my[p].replaced \in 0..MaxKernel /\ my[p].told = 0
      BY <2>15 DEF Fork, At, SInv, Booted
    <3>. QED BY <3>1, <3>2, <3>3 DEF Keeps, Restarting, Kernels
  <2>16. CASE Describe(p)
    BY <2>16 DEF Describe, Goto, bornVars, Keeps, Restarting
  <2>17. CASE Spend(p)
    <3>1. /\ pc'[p] = "told" /\ my'[p].told = my[p].kernel
          /\ my'[p].goal = my[p].goal /\ my'[p].config = my[p].config
          /\ my'[p].replaced = my[p].replaced
          /\ UNCHANGED <<meta, forked, config>>
      BY <2>17 DEF Spend, Tell, Goto, bornVars
    <3>2. my[p].kernel <= forked /\ config[my[p].kernel] = my[p].config
      BY <2>17 DEF Spend, At, SInv, Mine, RInv, Described
    <3>. QED BY <3>1, <3>2 DEF Keeps, Restarting
  <2>. QED BY <1>4, <2>7, <2>8, <2>9, <2>10, <2>11, <2>12, <2>13, <2>14, <2>15, <2>16,
           <2>17 DEF Call
<1>. QED BY <1>1, <1>2, <1>3, <1>4 DEF Next

(* What MCLifecycleRestart.cfg shows broken is broken by overlapping calls *)
(* alone: where calls come one after another, a restart keeps the          *)
(* configuration, whatever calls were killed before it and whatever kernels*)
(* die or expire beside it (restart_kernel, src/src/ptc/kernel.py).        *)
THEOREM UndisturbedRestart == Spec /\ []OneCall => []RestartKeepsConfig
<1>1. Init => RInv /\ KInv
  BY DEF Init, RInv, MetaIsTrue, Described, Bringing, KInv, Keeps, Restarting, Blank
<1>2. KInv => RestartKeepsConfig
  BY DEF KInv, Keeps, Restarting, RestartKeepsConfig
<1>. QED BY <1>1, <1>2, RecordStep, KeepsStep, Invariance, PTL DEF Spec
=============================================================================

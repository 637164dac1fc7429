----------------------------- MODULE Lifecycle -----------------------------
(***************************************************************************)
(* The kernels of one key: ensure_kernel, kill_kernel and restart_kernel   *)
(* (src/src/ptc/kernel.py) step by step under the key lock, and inside     *)
(* each kernel the cells and the idle watchdog (runtime/bootstrap.py),     *)
(* which takes the same lock to expire it.                                 *)
(*                                                                         *)
(* Any process may be killed between two steps; the lock goes with it, its *)
(* files stay.  The lock itself is the one FileLock proves exclusive.      *)
(***************************************************************************)
EXTENDS Naturals

CONSTANTS
  Callers,     \* the processes that ensure, kill or restart the key's kernel
  Nobody,      \* holds the lock when it is free
  MaxKernel,   \* bound: kernels forked
  MaxCell      \* bound: cells started

Kernels == 1..MaxKernel     \* in the order forked; 0 stands for none

ASSUME LifecycleAssumption ==
  /\ MaxKernel \in Nat /\ MaxCell \in Nat
  /\ Nobody \notin Callers \cup Kernels
  /\ \A p \in Callers : p \notin Kernels

VARIABLES
  lock,      \* the key lock: a caller, a kernel (its watchdog), or nobody
  owner,     \* owner.json: the kernel it names
  ready,     \* does the ready file stand?
  marker,    \* does expired.marker stand, a notice not delivered yet?
  meta,      \* meta.json: whose configuration it records
  forked,    \* kernels forked so far
  state,     \* of each kernel: unborn, up, asked to bootstrap, booted, dead
  config,    \* whose configuration each kernel lives under
  lost,      \* running kernels that owner.json will not name again
  cell,      \* in each kernel: none, running, or recorded and not stamped yet
  touched,   \* has last_activity moved since the sample the watchdog goes by?
  watch,     \* where each watchdog stands
  cells,     \* cells started so far
  pc, my     \* of each caller's call

fileVars == <<owner, ready, marker, meta>>
bornVars == <<forked, config>>
cellVars == <<cell, touched, cells>>
callVars == <<pc, my>>
vars == <<lock, fileVars, bornVars, state, lost, cellVars, watch, callVars>>

Blank == [goal |-> "none", phase |-> "none", config |-> Nobody, victim |-> 0,
          notice |-> FALSE, kernel |-> 0, then |-> "none", told |-> 0, replaced |-> 0]

Runs(k) == state[k] \in {"up", "asked", "booted"}

Init ==
  /\ lock = Nobody /\ owner = 0 /\ ready = FALSE /\ marker = FALSE /\ meta = Nobody
  /\ forked = 0 /\ lost = {} /\ cells = 0
  /\ state = [k \in Kernels |-> "unborn"]
  /\ config = [k \in Kernels |-> Nobody]
  /\ cell = [k \in Kernels |-> "none"]
  /\ touched = [k \in Kernels |-> FALSE]
  /\ watch = [k \in Kernels |-> "rest"]
  /\ pc = [p \in Callers |-> "idle"]
  /\ my = [p \in Callers |-> Blank]

At(p, step) == pc[p] = step
Goto(p, step) == pc' = [pc EXCEPT ![p] = step]
Unlock(p) == lock' = IF lock = p THEN Nobody ELSE lock

lifeVars == <<state, cell, touched, watch, lost>>

(* A kernel's process ends, and with it whatever it ran.                   *)
Dies(k) ==
  /\ state' = [state EXCEPT ![k] = "dead"]
  /\ cell' = [cell EXCEPT ![k] = "none"]
  /\ touched' = [touched EXCEPT ![k] = FALSE]
  /\ watch' = [watch EXCEPT ![k] = "rest"]
  /\ lost' = lost \ {k}

-----------------------------------------------------------------------------
(* The calls.                                                              *)

(* A restart reads the recorded configuration, without the lock; the others*)
(* bring their own.                                                        *)
Begin(p) ==
  /\ At(p, "idle")
  /\ \E goal \in {"ensure", "kill", "restart"} :
       my' = [my EXCEPT ![p].goal = goal,
                        ![p].phase = IF goal = "ensure" THEN "ensure" ELSE "kill",
                        ![p].config = IF goal = "restart" /\ meta # Nobody THEN meta ELSE p]
  /\ Goto(p, "lock")
  /\ UNCHANGED <<lock, fileVars, bornVars, state, lost, cellVars, watch>>

TakeLock(p) ==
  /\ At(p, "lock") /\ lock = Nobody
  /\ lock' = p
  /\ Goto(p, "look")
  /\ UNCHANGED <<fileVars, bornVars, state, lost, cellVars, watch, my>>

(* A call ends: killed, raising or told nothing; or told of a kernel.      *)
Leave(p) == Unlock(p) /\ Goto(p, "idle") /\ my' = [my EXCEPT ![p] = Blank]

Tell(p, k) ==
  /\ Unlock(p) /\ Goto(p, "told")
  /\ my' = [my EXCEPT ![p].told = k, ![p].phase = "none", ![p].notice = FALSE,
                      ![p].kernel = 0, ![p].then = "none"]

(* UnknownOwner: a recorded identity cannot be read; nothing is touched.   *)
Doubt(p) ==
  /\ At(p, "look") /\ owner # 0
  /\ Leave(p)
  /\ UNCHANGED <<fileVars, bornVars, state, lost, cellVars, watch>>

(* ensure_kernel finds a bootstrapped kernel: it attaches, or the policy   *)
(* gate refuses.                                                           *)
Attach(p) ==
  /\ At(p, "look") /\ my[p].phase = "ensure"
  /\ owner # 0 /\ Runs(owner) /\ ready
  /\ Tell(p, owner) \/ Leave(p)
  /\ UNCHANGED <<fileVars, bornVars, state, lost, cellVars, watch>>

(* Whoever is to be killed, and the notice that stands.  A kernel that     *)
(* could be attached to is replaced too when its venv or protocol is gone. *)
ReplaceTakesNotice(p) == \* mutant: the notice is taken when it is read
  /\ At(p, "look") /\ my[p].phase = "ensure"
  /\ my' = [my EXCEPT ![p].victim = IF owner # 0 /\ Runs(owner) THEN owner ELSE 0,
                      ![p].notice = marker, ![p].then = "fork"]
  /\ marker' = FALSE
  /\ Goto(p, "slay")
  /\ UNCHANGED <<lock, owner, ready, meta, bornVars, state, lost, cellVars, watch>>
Replace(p) ==
  /\ At(p, "look") /\ my[p].phase = "ensure"
  /\ my' = [my EXCEPT ![p].victim = IF owner # 0 /\ Runs(owner) THEN owner ELSE 0,
                      ![p].notice = marker, ![p].then = "fork"]
  /\ Goto(p, "slay")
  /\ UNCHANGED <<lock, fileVars, bornVars, state, lost, cellVars, watch>>

(* A restart, its kill over, gives the lock back and goes on to ensure.    *)
AfterKill(p) ==
  \/ my[p].goal = "kill" /\ Leave(p)
  \/ /\ my[p].goal = "restart"
     /\ my' = [my EXCEPT ![p].phase = "ensure"]
     /\ Unlock(p) /\ Goto(p, "lock")

(* kill_kernel: without a record there is nothing to do.                   *)
LookKill(p) ==
  /\ At(p, "look") /\ my[p].phase = "kill"
  /\ \/ owner = 0 /\ AfterKill(p)
     \/ /\ owner # 0
        /\ my' = [my EXCEPT ![p].victim = IF Runs(owner) THEN owner ELSE 0,
                            ![p].then = "return"]
        /\ Goto(p, "slay")
        /\ UNCHANGED lock
  /\ UNCHANGED <<fileVars, bornVars, state, lost, cellVars, watch>>

(* kill_process_tree.                                                      *)
SlayReadyOnly(p) ==                    \* mutant: a provisional kernel is left standing
  /\ At(p, "slay")
  /\ IF my[p].victim # 0 /\ ready THEN Dies(my[p].victim) ELSE UNCHANGED lifeVars
  /\ UNCHANGED my
  /\ Goto(p, "disown")
  /\ UNCHANGED <<lock, fileVars, bornVars, cells>>
Slay(p) ==
  /\ At(p, "slay")
  /\ IF my[p].victim # 0 THEN Dies(my[p].victim) ELSE UNCHANGED lifeVars
  /\ my' = [my EXCEPT ![p].victim = 0,
                      ![p].replaced =
                        IF my[p].phase = "kill" /\ ready THEN my[p].victim ELSE @]
  /\ Goto(p, "disown")
  /\ UNCHANGED <<lock, fileVars, bornVars, cells>>

Disown(p) ==
  /\ At(p, "disown")
  /\ owner' = 0
  /\ Goto(p, "unready")
  /\ UNCHANGED <<lock, ready, marker, meta, bornVars, state, lost, cellVars, watch, my>>

AfterFiles(p) ==
  \/ my[p].then = "fork" /\ Goto(p, "fork") /\ UNCHANGED <<lock, my>>
  \/ my[p].then = "return" /\ AfterKill(p)
  \/ my[p].then = "raise" /\ Leave(p)

UnreadyNot(p) ==                       \* mutant: the ready file is forgotten
  /\ At(p, "unready")
  /\ AfterFiles(p)
  /\ UNCHANGED <<fileVars, bornVars, state, lost, cellVars, watch>>
Unready(p) ==
  /\ At(p, "unready")
  /\ ready' = FALSE
  /\ AfterFiles(p)
  /\ UNCHANGED <<owner, marker, meta, bornVars, state, lost, cellVars, watch>>

Fork(p) ==
  /\ At(p, "fork") /\ forked < MaxKernel
  /\ forked' = forked + 1
  /\ state' = [state EXCEPT ![forked'] = "up"]
  /\ config' = [config EXCEPT ![forked'] = my[p].config]
  /\ my' = [my EXCEPT ![p].kernel = forked']
  /\ Goto(p, "own")
  /\ UNCHANGED <<lock, fileVars, lost, cellVars, watch>>

(* Nothing was forked: the venv, the log or the fork itself is wanting.    *)
ForkFails(p) ==
  /\ At(p, "fork")
  /\ Leave(p)
  /\ UNCHANGED <<fileVars, bornVars, state, lost, cellVars, watch>>

Own(p) ==
  /\ At(p, "own")
  /\ owner' = my[p].kernel
  /\ Goto(p, "describe")
  /\ UNCHANGED <<lock, ready, marker, meta, bornVars, state, lost, cellVars, watch, my>>

(* The ports and the kernel's first answer; then write_meta.               *)
Describe(p) ==
  /\ At(p, "describe") /\ Runs(my[p].kernel)
  /\ meta' = my[p].config
  /\ Goto(p, "boot")
  /\ UNCHANGED <<lock, owner, ready, marker, bornVars, state, lost, cellVars, watch, my>>

Boot(p) ==
  /\ At(p, "boot")
  /\ state' = [state EXCEPT ![my[p].kernel] = IF @ = "up" THEN "asked" ELSE @]
  /\ Goto(p, "reply")
  /\ UNCHANGED <<lock, fileVars, bornVars, lost, cellVars, watch, my>>

(* The bootstrap cell's reply; the kernel may die right after it.          *)
Reply(p) ==
  /\ At(p, "reply") /\ state[my[p].kernel] = "booted"
  /\ Goto(p, "ready")
  /\ UNCHANGED <<lock, fileVars, bornVars, state, lost, cellVars, watch, my>>

MarkReady(p) ==
  /\ At(p, "ready")
  /\ ready' = TRUE
  /\ Goto(p, "spend")
  /\ UNCHANGED <<lock, owner, marker, meta, bornVars, state, lost, cellVars, watch, my>>

(* The notice is taken, and delivered, past the last thing that can fail;  *)
(* nothing but a kill comes between its unlink and the return.             *)
Spend(p) ==
  /\ At(p, "spend")
  /\ marker' = (marker /\ ~my[p].notice)
  /\ Tell(p, my[p].kernel)
  /\ UNCHANGED <<owner, ready, meta, bornVars, state, lost, cellVars, watch>>

Return(p) ==
  /\ At(p, "told")
  /\ Leave(p)
  /\ UNCHANGED <<fileVars, bornVars, state, lost, cellVars, watch>>

(* Anything between the fork and the ready file fails: the kernel goes,    *)
(* then its files; the notice stays.                                       *)
Fails(p) ==
  /\ pc[p] \in {"own", "describe", "boot", "reply", "ready"}
  /\ Dies(my[p].kernel)
  /\ my' = [my EXCEPT ![p].then = "raise"]
  /\ Goto(p, "disown")
  /\ UNCHANGED <<lock, fileVars, bornVars, cells>>

(* SIGKILL.  A kernel forked and not named yet is nobody's from here on.   *)
Crash(p) ==
  /\ ~At(p, "idle")
  /\ Leave(p)
  /\ lost' = IF At(p, "own") THEN lost \cup {my[p].kernel} ELSE lost
  /\ UNCHANGED <<fileVars, bornVars, state, cellVars, watch>>

Call(p) ==
  \/ TakeLock(p) \/ Doubt(p) \/ Attach(p) \/ Replace(p) \/ LookKill(p)
  \/ Slay(p) \/ Disown(p) \/ Unready(p) \/ Fork(p) \/ ForkFails(p) \/ Own(p)
  \/ Describe(p) \/ Boot(p) \/ Reply(p) \/ MarkReady(p) \/ Spend(p) \/ Return(p) \/ Fails(p)

-----------------------------------------------------------------------------
(* A kernel: its bootstrap, its cells, its watchdog.                       *)

Install(k) ==
  /\ state[k] = "asked"
  /\ state' = [state EXCEPT ![k] = "booted"]
  /\ UNCHANGED <<lock, fileVars, bornVars, lost, cellVars, watch, callVars>>

(* The admission lock, held by the watchdog from its last check on.        *)
Admitting(k) == watch[k] \in {"rest", "sampled", "locked"}

(* _admit: a cell starts, unless the kernel has committed to go.           *)
AdmitAnyway(k) ==                      \* mutant: the admission lock is not taken
  /\ state[k] = "booted" /\ cell[k] = "none" /\ cells < MaxCell
  /\ cells' = cells + 1
  /\ cell' = [cell EXCEPT ![k] = "running"]
  /\ touched' = [touched EXCEPT ![k] = watch[k] # "rest"]
  /\ UNCHANGED <<lock, fileVars, bornVars, state, lost, watch, callVars>>
Admit(k) ==
  /\ state[k] = "booted" /\ cell[k] = "none" /\ cells < MaxCell
  /\ Admitting(k)
  /\ cells' = cells + 1
  /\ cell' = [cell EXCEPT ![k] = "running"]
  /\ touched' = [touched EXCEPT ![k] = watch[k] # "rest"]
  /\ UNCHANGED <<lock, fileVars, bornVars, state, lost, watch, callVars>>

(* _post_run_cell writes the record, then stamps last_activity.            *)
Record(k) ==
  /\ Runs(k) /\ cell[k] = "running"
  /\ cell' = [cell EXCEPT ![k] = "recorded"]
  /\ UNCHANGED <<lock, fileVars, bornVars, state, lost, touched, cells, watch, callVars>>

Stamp(k) ==
  /\ Runs(k) /\ cell[k] = "recorded"
  /\ cell' = [cell EXCEPT ![k] = "none"]
  /\ touched' = [touched EXCEPT ![k] = watch[k] # "rest"]
  /\ UNCHANGED <<lock, fileVars, bornVars, state, lost, cells, watch, callVars>>

(* _sample: nothing in flight, and idle for long enough by some rule.      *)
SampleUnbooted(k) ==                   \* mutant: armed before the bootstrap is over
  /\ Runs(k) /\ watch[k] = "rest" /\ cell[k] # "running"
  /\ touched' = [touched EXCEPT ![k] = FALSE]
  /\ watch' = [watch EXCEPT ![k] = "sampled"]
  /\ UNCHANGED <<lock, fileVars, bornVars, state, lost, cell, cells, callVars>>
Sample(k) ==
  /\ state[k] = "booted" /\ watch[k] = "rest" /\ cell[k] # "running"
  /\ touched' = [touched EXCEPT ![k] = FALSE]
  /\ watch' = [watch EXCEPT ![k] = "sampled"]
  /\ UNCHANGED <<lock, fileVars, bornVars, state, lost, cell, cells, callVars>>

WatchLock(k) ==
  /\ state[k] = "booted" /\ watch[k] = "sampled" /\ lock = Nobody
  /\ lock' = k
  /\ watch' = [watch EXCEPT ![k] = "locked"]
  /\ UNCHANGED <<fileVars, bornVars, state, lost, cellVars, callVars>>

(* _still_idle, under both locks.                                          *)
StillIdle(k) == cell[k] # "running" /\ ~touched[k]

CheckKeepsLock(k) ==                   \* mutant: the key lock stays taken
  /\ state[k] = "booted" /\ watch[k] = "locked"
  /\ watch' = [watch EXCEPT ![k] = IF StillIdle(k) THEN "bound" ELSE "rest"]
  /\ touched' = [touched EXCEPT ![k] = FALSE]
  /\ UNCHANGED <<lock, fileVars, bornVars, state, lost, cell, cells, callVars>>
Check(k) ==
  /\ state[k] = "booted" /\ watch[k] = "locked"
  /\ \/ StillIdle(k) /\ watch' = [watch EXCEPT ![k] = "bound"] /\ UNCHANGED lock
     \/ ~StillIdle(k) /\ watch' = [watch EXCEPT ![k] = "rest"] /\ Unlock(k)
  /\ touched' = [touched EXCEPT ![k] = FALSE]
  /\ UNCHANGED <<fileVars, bornVars, state, lost, cell, cells, callVars>>

(* The marker, owner.json, ready, the end: the lock goes with the process. *)
(* Files go by name: a kernel that was lost sight of, and goes on watching *)
(* itself, disowns whichever kernel has the key by then.                   *)
Mark(k) ==
  /\ state[k] = "booted" /\ watch[k] = "bound"
  /\ marker' = TRUE
  /\ watch' = [watch EXCEPT ![k] = "marked"]
  /\ UNCHANGED <<lock, owner, ready, meta, bornVars, state, lost, cellVars, callVars>>

Vacate(k) ==
  /\ state[k] = "booted" /\ watch[k] = "marked"
  /\ owner' = 0
  /\ lost' = lost \cup {j \in Kernels \ {k} : Runs(j) /\ owner = j}
  /\ watch' = [watch EXCEPT ![k] = "vacated"]
  /\ UNCHANGED <<lock, ready, marker, meta, bornVars, state, cellVars, callVars>>

Close(k) ==
  /\ state[k] = "booted" /\ watch[k] = "vacated"
  /\ ready' = FALSE
  /\ watch' = [watch EXCEPT ![k] = "closed"]
  /\ UNCHANGED <<lock, owner, marker, meta, bornVars, state, lost, cellVars, callVars>>

Expire(k) ==
  /\ state[k] = "booted" /\ watch[k] = "closed"
  /\ Dies(k) /\ Unlock(k)
  /\ UNCHANGED <<fileVars, bornVars, cells, callVars>>

(* The marker, owner.json or the ready file resists: the kernel stays, to  *)
(* retry later.  If it was the ready file, owner.json is gone already.     *)
Balk(k) ==
  /\ state[k] = "booted" /\ watch[k] \in {"bound", "marked", "vacated"}
  /\ lost' = IF watch[k] = "vacated" THEN lost \cup {k} ELSE lost
  /\ watch' = [watch EXCEPT ![k] = "rest"]
  /\ Unlock(k)
  /\ UNCHANGED <<fileVars, bornVars, state, cellVars, callVars>>

KernelDies(k) ==
  /\ Runs(k)
  /\ Dies(k) /\ Unlock(k)
  /\ UNCHANGED <<fileVars, bornVars, cells, callVars>>

Watchdog(k) == Check(k) \/ Mark(k) \/ Vacate(k) \/ Close(k) \/ Balk(k) \/ Expire(k)

Kernel(k) ==
  \/ Install(k) \/ Admit(k) \/ Record(k) \/ Stamp(k)
  \/ Sample(k) \/ WatchLock(k) \/ Watchdog(k) \/ KernelDies(k)

Next ==
  \/ \E p \in Callers : Begin(p) \/ Call(p) \/ Crash(p)
  \/ \E k \in Kernels : Kernel(k)

Spec == Init /\ [][Next]_vars

(* Whoever holds the key lock goes on: each wait of a call is bounded, and *)
(* where the kernel does not answer the spawn fails; nothing a watchdog    *)
(* does under the lock waits for long.                                     *)
HolderGoesOn ==
  \/ \E p \in Callers : lock = p /\ Call(p)
  \/ \E k \in Kernels : lock = k /\ Watchdog(k)

FairSpec == Spec /\ WF_vars(HolderGoesOn)

-----------------------------------------------------------------------------
CallType ==
  [goal : {"none", "ensure", "kill", "restart"}, phase : {"none", "ensure", "kill"},
   config : Callers \cup {Nobody}, victim : 0..MaxKernel, notice : BOOLEAN,
   kernel : 0..MaxKernel, then : {"none", "fork", "return", "raise"},
   told : 0..MaxKernel, replaced : 0..MaxKernel]

Steps == {"idle", "lock", "look", "slay", "disown", "unready", "fork", "own",
          "describe", "boot", "reply", "ready", "spend",
          "told"}

FileTypes ==
  /\ lock \in Callers \cup Kernels \cup {Nobody}
  /\ owner \in 0..MaxKernel /\ ready \in BOOLEAN /\ marker \in BOOLEAN
  /\ meta \in Callers \cup {Nobody}

KernelTypes ==
  /\ forked \in 0..MaxKernel /\ cells \in Nat
  /\ state \in [Kernels -> {"unborn", "up", "asked", "booted", "dead"}]
  /\ config \in [Kernels -> Callers \cup {Nobody}]
  /\ lost \subseteq Kernels
  /\ cell \in [Kernels -> {"none", "running", "recorded"}]
  /\ touched \in [Kernels -> BOOLEAN]
  /\ watch \in [Kernels -> {"rest", "sampled", "locked", "bound", "marked",
                           "vacated", "closed"}]
  /\ \A k \in Kernels : watch[k] # "rest" \/ cell[k] # "none" => state[k] = "booted"

CallTypes ==
  /\ pc \in [Callers -> Steps]
  /\ my \in [Callers -> CallType]

TypeOK == FileTypes /\ KernelTypes /\ CallTypes

(* While nobody holds the key lock, a kernel that runs is named by         *)
(* owner.json: whichever calls and watchdogs died halfway, the next ensure *)
(* or kill finds it (ensure_kernel, "Ownership is published IMMEDIATELY";  *)
(* _watchdog, "keep ownership").  There are three ways to lose one, and no *)
(* more: its spawner is killed right at the fork; its own cleanup fails    *)
(* after owner.json has gone; a kernel lost like that cleans up again.     *)
RunningIsNamed ==
  lock = Nobody => \A k \in Kernels \ lost : Runs(k) => owner = k

(* "readiness means bootstrapped": whoever is told a kernel is told one    *)
(* whose bootstrap cell has run (ensure_kernel, kernel_alive).             *)
ToldIsBooted ==
  [][\A p \in Callers :
       my'[p].told \notin {0, my[p].told} => state[my'[p].told] \in {"booted", "dead"}]_vars

(* An expiry notice is taken only by the call that delivers it: a spawn    *)
(* that fails or dies leaves it for the next (read_expiry).                *)
NoticeDelivered ==
  [][marker /\ ~marker' =>
       \E p \in Callers : my[p].told = 0 /\ my'[p].told # 0 /\ my[p].notice]_vars

(* The key lock is always given back: no call and no watchdog, whatever it *)
(* finds and wherever it is killed, keeps it from the next one.            *)
KeyFreed == []<>(lock = Nobody)

(* "Replace this key's kernel, keeping the config the kernel itself was    *)
(* created with" (restart_kernel).                                         *)
RestartKeepsConfig ==
  \A p \in Callers :
    my[p].goal = "restart" /\ my[p].replaced # 0 /\ my[p].told # 0 =>
      config[my[p].told] = config[my[p].replaced]

Standing == {k \in Kernels \ lost : Runs(k)}

T == INSTANCE Tenancy
       WITH standing <- Standing,
            busy <- {k \in Standing : cell[k] = "running"},
            leaving <- {k \in Standing : watch[k] \notin {"rest", "sampled", "locked"}}

(* One kernel under the key at a time, besides those lost as above, and "a *)
(* cell in flight is never expired" (README.md, _expire_if_idle), although *)
(* cells start under neither of the locks a spawner takes.                 *)
TenancySpec == T!Spec
=============================================================================

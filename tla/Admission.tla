------------------------------ MODULE Admission ------------------------------
(***************************************************************************)
(* Admission of cells to one kernel key: exec_cell under the submit lock   *)
(* (src/src/ptc/client.py), the busy model it consults, the pending marker *)
(* that covers a request between its send and its publication, the cell    *)
(* hooks and the idle watchdog inside the kernel (runtime/bootstrap.py)    *)
(* and the spawns, kills and deaths of kernels under the key (kernel.py)   *)
(* that race it.                                                           *)
(*                                                                         *)
(* Every step of a client is a separate action, because nothing but the    *)
(* submit lock keeps two clients apart and nothing at all keeps a client   *)
(* and a spawner apart.                                                    *)
(***************************************************************************)
EXTENDS Naturals, Sequences, FiniteSets

CONSTANTS
  Clients,     \* adapters and CLI processes that submit cells to the key
  Probers,     \* those that also ask is_busy() without holding the lock
  SlowStart,   \* may a client see a kernel between its owner.json and its ready file?
  MaxInc,      \* bound: kernels spawned under the key
  MaxReq       \* bound: requests sent

ASSUME AdmissionAssumption ==
  /\ Probers \subseteq Clients
  /\ SlowStart \in BOOLEAN
  /\ MaxInc \in Nat
  /\ MaxReq \in Nat

NoClient == "nobody"
ASSUME NobodyAssumption == NoClient \notin Clients

(* The incarnation 0, the cell 0 and the request 0 stand for "none".       *)
Requests == 1..MaxReq

VARIABLES
  owner,     \* owner.json: the incarnation it names
  ready,     \* the ready file: the incarnation it was written for
  conn,      \* connection.json: the incarnation whose ports it holds
  live,      \* the kernel process that is running
  spawned,   \* incarnations drawn so far (the spawn nonce)
  spawner,   \* how far the spawn, or the expiry, under the key lock has come
  queue,     \* requests the live kernel has received and not begun
  running,   \* the cell it executes: its number, its request, how far it is
  count,     \* its execution count
  current,   \* cells/current.json
  records,   \* cells/<id>.json: the cells with a terminal record
  pending,   \* cells/pending.json
  lastLog,   \* the highest <id>.log in cells/ or in an archive
  sent,      \* requests sent so far
  settled,   \* history: the requests whose cell got its record
  ranAs,     \* history: the request each published cell number ran
  lock,      \* the holder of the submit lock
  pc,        \* where each client stands
  mine       \* what each client has learned in this call

kernelVars == <<owner, ready, conn, live, spawned, spawner, count, lastLog>>
cellVars   == <<queue, running, current, records, settled, ranAs>>
clientVars == <<lock, pc, mine>>
vars == <<kernelVars, cellVars, sent, clientVars, pending>>

(* A marker carries its incarnation and the cell if it was learned; `link` *)
(* is history: the kernel that the writer's connection reaches.            *)
NoMarker == [inc |-> 0, cell |-> 0, link |-> 0]
Idle     == [cell |-> 0, req |-> 0, stage |-> "none"]
Blank    == [bound |-> 0, link |-> 0, attempt |-> 0, base |-> 0,
             cell |-> 0, req |-> 0, seen |-> NoMarker]

Steps == {"idle", "current", "marker", "judge", "discard", "owner", "connect",
          "confirm", "mark", "send", "await", "publish", "clear", "unmark",
          "refresh", "rewrite"}

(* The epoch stamp is a whole second: two spawns may share one.            *)
Epoch(inc) == (inc + 1) \div 2

-----------------------------------------------------------------------------
(* The busy model.                                                         *)

(* _kernel_known_dead: proof of death, which nobody has when the identity  *)
(* cannot be read.  SeemsDead and SeemsAlive are the answers it may give.  *)
Gone == owner = 0 \/ owner # live \/ ready = 0
DeadOnDoubt == TRUE                    \* mutant: unknown reads as dead
SeemsDead == Gone
SeemsAlive == owner # 0

(* is_busy, first half: current.json names a cell without a record.        *)
Running == current # 0 /\ current \notin records

(* _pending_discharged short of death: proof that the marked request       *)
(* cannot execute any more.                                                *)
Discharged(m) ==
  \/ owner # 0 /\ (Epoch(owner) # Epoch(m.inc) \/ owner # m.inc)
  \/ m.cell # 0 /\ (m.cell \in records \/ current > m.cell)

-----------------------------------------------------------------------------
Init ==
  /\ owner = 0 /\ ready = 0 /\ conn = 0 /\ live = 0 /\ spawned = 0
  /\ spawner = "none"
  /\ queue = <<>> /\ running = Idle /\ count = 0
  /\ current = 0 /\ records = {} /\ pending = NoMarker /\ lastLog = 0
  /\ sent = 0 /\ settled = {}
  /\ ranAs = [c \in {} |-> 0]
  /\ lock = NoClient
  /\ pc = [c \in Clients |-> "idle"]
  /\ mine = [c \in Clients |-> Blank]

At(c, step) == pc[c] = step
Goto(c, step) == pc' = [pc EXCEPT ![c] = step]

(* The call returns or raises: the submit lock is released on every exit.  *)
Leave(c) ==
  /\ Goto(c, "idle")
  /\ mine' = [mine EXCEPT ![c] = Blank]
  /\ lock' = IF lock = c THEN NoClient ELSE lock

(* is_busy() answered None: a submitter goes on, a prober has its answer.  *)
NotBusy(c) ==
  \/ lock = c /\ Goto(c, "owner") /\ UNCHANGED <<lock, mine>>
  \/ lock # c /\ Leave(c)

-----------------------------------------------------------------------------
(* A client.                                                               *)

AcquireAnyway(c) ==                    \* mutant: the lock does not exclude
  /\ At(c, "idle") /\ sent < MaxReq
  /\ lock' = c
  /\ Goto(c, "current")
  /\ UNCHANGED <<mine, kernelVars, cellVars, sent, pending>>
Acquire(c) ==
  /\ At(c, "idle") /\ lock = NoClient /\ sent < MaxReq
  /\ lock' = c
  /\ Goto(c, "current")
  /\ UNCHANGED <<mine, kernelVars, cellVars, sent, pending>>

(* The lock was not to be had in time, a queued call ran out of budget, or *)
(* interrupt() asks what runs: is_busy() without the lock.                 *)
Probe(c) ==
  /\ c \in Probers /\ At(c, "idle")
  /\ Goto(c, "current")
  /\ UNCHANGED <<lock, mine, kernelVars, cellVars, sent, pending>>

CheckCurrent(c) ==
  /\ At(c, "current")
  /\ \/ /\ Running /\ SeemsAlive
        /\ Leave(c)
     \/ /\ ~Running \/ SeemsDead
        /\ Goto(c, "marker")
        /\ UNCHANGED <<lock, mine>>
  /\ UNCHANGED <<kernelVars, cellVars, sent, pending>>

ReadMarker(c) ==
  /\ At(c, "marker")
  /\ \/ pending = NoMarker /\ NotBusy(c)
     \/ /\ pending # NoMarker
        /\ Goto(c, "judge")
        /\ mine' = [mine EXCEPT ![c].seen = pending]
        /\ UNCHANGED lock
  /\ UNCHANGED <<kernelVars, cellVars, sent, pending>>

Judge(c) ==
  /\ At(c, "judge")
  /\ \/ /\ SeemsDead \/ Discharged(mine[c].seen)
        /\ Goto(c, "discard")
        /\ UNCHANGED <<lock, mine>>
     \/ /\ SeemsAlive /\ ~Discharged(mine[c].seen)
        /\ Leave(c)
  /\ UNCHANGED <<kernelVars, cellVars, sent, pending>>

(* The file that stands now is unlinked, whichever it is.                  *)
Discard(c) ==
  /\ At(c, "discard")
  /\ pending' = NoMarker
  /\ NotBusy(c)
  /\ UNCHANGED <<kernelVars, cellVars, sent>>

(* _connect_to_current_owner: owner, connect, owner again, twice at most.  *)
ReadOwner(c) ==
  /\ At(c, "owner")
  /\ \/ owner = 0 /\ Leave(c)
     \/ /\ owner # 0
        /\ Goto(c, "connect")
        /\ mine' = [mine EXCEPT ![c].bound = owner]
        /\ UNCHANGED lock
  /\ UNCHANGED <<kernelVars, cellVars, sent, pending>>

(* _wait_shell_ready: the shell takes its messages one by one, so it       *)
(* answers once it is done with every request before; or not in time.      *)
ShellAnswers == conn # 0 /\ conn = live /\ queue = <<>> /\ running = Idle

Connect(c) ==
  /\ At(c, "connect")
  /\ \/ /\ ShellAnswers
        /\ Goto(c, "confirm")
        /\ mine' = [mine EXCEPT ![c].link = conn]
        /\ UNCHANGED lock
     \/ Leave(c)
  /\ UNCHANGED <<kernelVars, cellVars, sent, pending>>

ConfirmForever(c) ==                   \* mutant: the retries are not counted out
  /\ At(c, "confirm")
  /\ \/ /\ owner = mine[c].bound
        /\ Goto(c, "mark")
        /\ UNCHANGED <<lock, mine>>
     \/ /\ owner # mine[c].bound
        /\ Goto(c, "owner")
        /\ mine' = [mine EXCEPT ![c].attempt = @ + 1]
        /\ UNCHANGED lock
  /\ UNCHANGED <<kernelVars, cellVars, sent, pending>>
ConfirmLate(c) ==                      \* mutant: the owner is read after connecting
  /\ At(c, "confirm")
  /\ Goto(c, "mark")
  /\ mine' = [mine EXCEPT ![c].bound = owner]
  /\ UNCHANGED <<lock, kernelVars, cellVars, sent, pending>>
Confirm(c) ==
  /\ At(c, "confirm")
  /\ \/ /\ owner = mine[c].bound
        /\ Goto(c, "mark")
        /\ UNCHANGED <<lock, mine>>
     \/ /\ owner # mine[c].bound /\ mine[c].attempt = 0
        /\ Goto(c, "owner")
        /\ mine' = [mine EXCEPT ![c].attempt = 1]
        /\ UNCHANGED lock
     \/ owner # mine[c].bound /\ mine[c].attempt = 1 /\ Leave(c)
  /\ UNCHANGED <<kernelVars, cellVars, sent, pending>>

Mark(c) ==
  /\ At(c, "mark")
  /\ pending' = [inc |-> mine[c].bound, cell |-> 0, link |-> mine[c].link]
  /\ mine' = [mine EXCEPT ![c].base = current]
  /\ Goto(c, "send")
  /\ UNCHANGED <<lock, kernelVars, cellVars, sent>>

(* kc.execute: a request to a kernel that is gone reaches nobody.          *)
Send(c) ==
  /\ At(c, "send")
  /\ sent' = sent + 1
  /\ \/ live = mine[c].link /\ queue' = Append(queue, sent')
     \/ live # mine[c].link /\ UNCHANGED queue
  /\ mine' = [mine EXCEPT ![c].req = sent']
  /\ Goto(c, "await")
  /\ UNCHANGED <<lock, kernelVars, running, current, records, settled, ranAs,
                 pending>>

(* _await_cell_id: current.json names a newer cell than before the send,   *)
(* or execute_input of this very request arrives over iopub.               *)
LearnAny(c) ==                         \* mutant: equality with the baseline is enough
  /\ At(c, "await")
  /\ \E n \in {current, running.cell} \ {0} :
       /\ n = current \/ running.req = mine[c].req
       /\ mine' = [mine EXCEPT ![c].cell = n]
  /\ Goto(c, "publish")
  /\ UNCHANGED <<lock, kernelVars, cellVars, sent, pending>>
Learn(c) ==
  /\ At(c, "await")
  /\ \E n \in {current, running.cell} \ {0} :
       /\ \/ n = current /\ current > mine[c].base
          \/ n = running.cell /\ running.req = mine[c].req
       /\ mine' = [mine EXCEPT ![c].cell = n]
  /\ Goto(c, "publish")
  /\ UNCHANGED <<lock, kernelVars, cellVars, sent, pending>>

AcknowledgedWillDo(c) ==               \* mutant: the number is taken for the publication
  /\ At(c, "publish")
  /\ Goto(c, "clear")
  /\ UNCHANGED <<lock, mine, kernelVars, cellVars, sent, pending>>
Published(c) ==
  /\ At(c, "publish") /\ current = mine[c].cell
  /\ Goto(c, "clear")
  /\ UNCHANGED <<lock, mine, kernelVars, cellVars, sent, pending>>

(* Either wait runs out, or the caller is interrupted in it.               *)
GiveUp(c) ==
  /\ pc[c] \in {"await", "publish"}
  /\ Goto(c, "refresh")
  /\ UNCHANGED <<lock, mine, kernelVars, cellVars, sent, pending>>

(* _refresh_pending: only while the incarnation submitted to owns the key. *)
Refresh(c) ==
  /\ At(c, "refresh")
  /\ \/ owner = mine[c].bound /\ Goto(c, "rewrite") /\ UNCHANGED <<lock, mine>>
     \/ owner # mine[c].bound /\ Leave(c)
  /\ UNCHANGED <<kernelVars, cellVars, sent, pending>>

Rewrite(c) ==
  /\ At(c, "rewrite")
  /\ pending' = [inc |-> mine[c].bound, cell |-> mine[c].cell,
                 link |-> mine[c].link]
  /\ Leave(c)
  /\ UNCHANGED <<kernelVars, cellVars, sent>>

(* Published: the marker is cleared while it is still this kernel's.       *)
Clear(c) ==
  /\ At(c, "clear")
  /\ \/ owner = mine[c].bound /\ Goto(c, "unmark") /\ UNCHANGED <<lock, mine>>
     \/ owner # mine[c].bound /\ Leave(c)
  /\ UNCHANGED <<kernelVars, cellVars, sent, pending>>

Unmark(c) ==
  /\ At(c, "unmark")
  /\ pending' = NoMarker
  /\ Leave(c)
  /\ UNCHANGED <<kernelVars, cellVars, sent>>

(* SIGKILL: the flock goes with the process, nothing else is undone.       *)
CrashLeavesLock(c) ==                  \* mutant: a lock file without flock semantics
  /\ ~At(c, "idle")
  /\ Goto(c, "idle")
  /\ mine' = [mine EXCEPT ![c] = Blank]
  /\ UNCHANGED <<lock, kernelVars, cellVars, sent, pending>>
Crash(c) ==
  /\ ~At(c, "idle")
  /\ Leave(c)
  /\ UNCHANGED <<kernelVars, cellVars, sent, pending>>

ClientStep(c) ==
  \/ CheckCurrent(c) \/ ReadMarker(c) \/ Judge(c) \/ Discard(c)
  \/ ReadOwner(c) \/ Connect(c) \/ Confirm(c) \/ Mark(c) \/ Send(c)
  \/ Learn(c) \/ Published(c) \/ GiveUp(c)
  \/ Refresh(c) \/ Rewrite(c) \/ Clear(c) \/ Unmark(c)

-----------------------------------------------------------------------------
(* The kernel: one cell at a time, in the order received.                  *)

Expiring == spawner \in {"vacate", "close", "exit"}

Take ==
  /\ live # 0 /\ running = Idle /\ queue # <<>>
  /\ count' = count + 1
  /\ running' = [cell |-> count + 1, req |-> Head(queue), stage |-> "taken"]
  /\ queue' = Tail(queue)
  /\ UNCHANGED <<owner, ready, conn, live, spawned, spawner, lastLog, current,
                 records, settled, ranAs, sent, clientVars, pending>>

(* _pre_run_cell: the log is opened and current.json names the cell.       *)
(* _admit waits for the admission lock, which an expiry keeps.             *)
Publish ==
  /\ running.stage = "taken" /\ ~Expiring
  /\ running' = [running EXCEPT !.stage = "published"]
  /\ current' = running.cell
  /\ lastLog' = running.cell
  /\ ranAs' = [n \in DOMAIN ranAs \cup {running.cell} |->
                 IF n = running.cell THEN running.req ELSE ranAs[n]]
  /\ UNCHANGED <<owner, ready, conn, live, spawned, spawner, count, queue,
                 records, settled, sent, clientVars, pending>>

(* _post_run_cell: the terminal record.                                    *)
Finish ==
  /\ running.stage = "published"
  /\ records' = records \cup {running.cell}
  /\ settled' = settled \cup {running.req}
  /\ running' = Idle
  /\ UNCHANGED <<kernelVars, queue, current, ranAs, sent, clientVars, pending>>

EndProcess == live' = 0 /\ queue' = <<>> /\ running' = Idle

(* The process ends by itself, and its watchdog's locks with it; its files *)
(* stay.                                                                   *)
KernelDies ==
  /\ live # 0
  /\ EndProcess
  /\ spawner' = IF Expiring THEN "none" ELSE spawner
  /\ UNCHANGED <<owner, ready, conn, spawned, count, lastLog, current,
                 records, settled, ranAs, sent, clientVars, pending>>

(* The watchdog finds the kernel idle still, under the key lock and the    *)
(* admission lock: no cell is admitted, but one may wait to be.            *)
Expire ==
  /\ spawner = "none" /\ live # 0 /\ running.stage # "published"
  /\ spawner' = "vacate"
  /\ UNCHANGED <<owner, ready, conn, live, spawned, count, lastLog, cellVars,
                 sent, clientVars, pending>>

(* The files go first, the process last.                                   *)
Vacate ==
  /\ spawner = "vacate"
  /\ owner' = 0
  /\ spawner' = "close"
  /\ UNCHANGED <<ready, conn, live, spawned, count, lastLog, cellVars, sent,
                 clientVars, pending>>

CloseReady ==
  /\ spawner = "close"
  /\ ready' = 0
  /\ spawner' = "exit"
  /\ UNCHANGED <<owner, conn, live, spawned, count, lastLog, cellVars, sent,
                 clientVars, pending>>

Exit ==
  /\ spawner = "exit"
  /\ EndProcess
  /\ spawner' = "none"
  /\ UNCHANGED <<owner, ready, conn, spawned, count, lastLog, current, records,
                 settled, ranAs, sent, clientVars, pending>>

(* The cleanup fails before owner.json is gone, and the kernel stays.      *)
(* (One that fails at the ready file loses its kernel: that is Lifecycle's.)*)
Balk ==
  /\ spawner = "vacate"
  /\ spawner' = "none"
  /\ UNCHANGED <<owner, ready, conn, live, spawned, count, lastLog, cellVars,
                 sent, clientVars, pending>>

-----------------------------------------------------------------------------
(* The key lock's side: kill_kernel and ensure_kernel.                     *)

KillKernel ==
  /\ spawner = "none" /\ owner # 0
  /\ EndProcess
  /\ owner' = 0 /\ ready' = 0
  /\ UNCHANGED <<conn, spawned, spawner, count, lastLog, current, records,
                 settled, ranAs, sent, clientVars, pending>>

(* ensure_kernel finds nothing to attach to, or a kernel gone stale:       *)
(* _clean_stale up to its unlinks.                                         *)
CleanStale ==
  /\ spawner = "none" /\ spawned < MaxInc
  /\ EndProcess
  /\ owner' = 0 /\ ready' = 0 /\ conn' = 0
  /\ spawner' = "cleaned"
  /\ UNCHANGED <<spawned, count, lastLog, current, records, settled, ranAs,
                 sent, clientVars, pending>>

Rotate ==
  /\ spawner = "cleaned"
  /\ spawner' = "rotated"
  /\ current' = 0 /\ records' = {} /\ pending' = NoMarker
  /\ UNCHANGED <<owner, ready, conn, live, spawned, count, lastLog, queue,
                 running, settled, ranAs, sent, clientVars>>

(* Popen, write_owner, the ports, the bootstrap cell (number 1, with its   *)
(* record), which continues the numbering above every archived log.        *)
LaunchFromOne ==                       \* mutant: numbering starts afresh
  /\ spawner = "rotated" /\ spawned < MaxInc
  /\ spawned' = spawned + 1
  /\ live' = spawned' /\ owner' = spawned' /\ conn' = spawned'
  /\ count' = 1
  /\ records' = {1}
  /\ ready' = IF SlowStart THEN 0 ELSE spawned'
  /\ spawner' = IF SlowStart THEN "boot" ELSE "none"
  /\ UNCHANGED <<lastLog, queue, running, current, settled, ranAs, sent,
                 clientVars, pending>>
Launch ==
  /\ spawner = "rotated" /\ spawned < MaxInc
  /\ spawned' = spawned + 1
  /\ live' = spawned' /\ owner' = spawned' /\ conn' = spawned'
  /\ count' = IF lastLog > 1 THEN lastLog ELSE 1
  /\ records' = {1}
  /\ ready' = IF SlowStart THEN 0 ELSE spawned'
  /\ spawner' = IF SlowStart THEN "boot" ELSE "none"
  /\ UNCHANGED <<lastLog, queue, running, current, settled, ranAs, sent,
                 clientVars, pending>>

MakeReady ==
  /\ spawner = "boot" /\ live = owner
  /\ ready' = owner /\ spawner' = "none"
  /\ UNCHANGED <<owner, conn, live, spawned, count, lastLog, cellVars, sent,
                 clientVars, pending>>

(* The spawn fails: its handler takes the kernel and the metadata down.    *)
LaunchFails ==
  /\ spawner = "boot"
  /\ EndProcess
  /\ owner' = 0 /\ ready' = 0 /\ conn' = 0 /\ spawner' = "none"
  /\ UNCHANGED <<spawned, count, lastLog, current, records, settled, ranAs,
                 sent, clientVars, pending>>

(* The spawner is killed; the key lock goes with it.                       *)
SpawnerDies ==
  /\ spawner \in {"cleaned", "rotated", "boot"}
  /\ spawner' = "none"
  /\ UNCHANGED <<owner, ready, conn, live, spawned, count, lastLog, cellVars,
                 sent, clientVars, pending>>

Kernel == Take \/ Publish \/ Finish \/ KernelDies
Watchdog == Expire \/ Vacate \/ CloseReady \/ Exit \/ Balk
Host == KillKernel \/ CleanStale \/ Rotate \/ Launch \/ MakeReady
          \/ LaunchFails \/ SpawnerDies

Next ==
  \/ \E c \in Clients : Acquire(c) \/ Probe(c) \/ ClientStep(c) \/ Crash(c)
  \/ Kernel
  \/ Watchdog
  \/ Host

(* A client that is alive keeps going: every wait in it has a deadline.    *)
(* Kernels, spawners and the arrival of calls are not assumed to progress. *)
Fairness == \A c \in Clients : WF_vars(ClientStep(c))

Spec == Init /\ [][Next]_vars
FairSpec == Spec /\ Fairness

-----------------------------------------------------------------------------
Marker == [inc : Nat, cell : Nat, link : Nat]
Locals == [bound : Nat, link : Nat, attempt : {0, 1}, base : Nat,
           cell : Nat, req : Nat, seen : Marker]

KernelType ==
  /\ owner \in Nat /\ ready \in Nat /\ conn \in Nat /\ live \in Nat
  /\ spawned \in Nat /\ count \in Nat /\ lastLog \in Nat
  /\ spawner \in {"none", "cleaned", "rotated", "boot", "vacate", "close", "exit"}

CellType ==
  /\ queue \in Seq(Nat)
  /\ running \in [cell : Nat, req : Nat, stage : {"none", "taken", "published"}]
  /\ current \in Nat
  /\ records \subseteq Nat
  /\ settled \subseteq Nat
  /\ sent \in Nat

ClientType ==
  /\ pending \in Marker
  /\ lock \in Clients \cup {NoClient}
  /\ pc \in [Clients -> Steps]
  /\ mine \in [Clients -> Locals]

TypeOK == KernelType /\ CellType /\ ClientType

(* The requests the kernel has received and not settled.                   *)
Held == {queue[i] : i \in DOMAIN queue}
          \cup (IF running = Idle THEN {} ELSE {running.req})

(* Those of them that will still run: an expiring kernel that has given up *)
(* owner.json runs none any more.                                          *)
Due == IF owner = live THEN Held ELSE {}

(* Whoever is_busy() lets past, under the submit lock, is let to a kernel   *)
(* that holds no request, unless it has given up owner.json to expire:     *)
(* "deleting it on a stopwatch admits a second cell on top of one the      *)
(* kernel is still about to run" (_pending_discharged), and so would any   *)
(* other hole in the busy model, whatever submitters, kernels and spawners *)
(* die in between.                                                         *)
AdmittedOnlyWhenFree ==
  \A c \in Clients : lock = c /\ pc[c] \in {"owner", "connect"} => Due = {}

(* The cell number exec_cell goes on to follow is the one its own request  *)
(* ran as, whichever witness named it (_await_cell_id).                    *)
AnswerIsOwn ==
  \A c \in Clients :
    pc[c] \in {"clear", "unmark"} =>
      /\ mine[c].cell \in DOMAIN ranAs
      /\ ranAs[mine[c].cell] = mine[c].req

(* A marker that still blocks the key is about a request whose connection *)
(* reached the kernel that owns the key now: a replacement is never held   *)
(* busy for good by a request it was not sent (_connect_to_current_owner,  *)
(* _refresh_pending, _pending_discharged).                                 *)
BlockingMarkerIsCurrent ==
  pending # NoMarker /\ owner # 0 /\ ~Discharged(pending) =>
    pending.link = owner

(* No cell number is published twice under the key, across kernels: an id  *)
(* handed out before a restart never names a later cell (install).         *)
IdsNeverReused ==
  [][current' \notin {0, current} => current' > lastLog]_vars

(* Whoever takes the submit lock gives it back, without help from the      *)
(* kernel: every wait inside exec_cell is bounded.                         *)
SubmitLockReleased == \A c \in Clients : (lock = c) ~> (lock # c)

S == INSTANCE Slot WITH Requests <- Requests, slot <- Held, settled <- settled

(* F2: "a submitted request is never silently queued".  Admission           *)
(* implements the one-slot kernel of Slot.tla, with probers and slow starts *)
(* too: the lock lets one submitter through at a time, and the shell's      *)
(* answer comes behind whatever was sent before (exec_cell).                *)
SlotSpec == S!Spec

F == INSTANCE Feed WITH held <- Due # {}, marked <- pending # NoMarker,
                        named <- pending.cell, logs <- DOMAIN ranAs,
                        shown <- current, done <- records

(* What waiters and interrupters go by (Feed.tla) is true while requests    *)
(* come and go: from the send to its record a request is covered, first by *)
(* a marker about it, then by current.json, and the next one comes when    *)
(* the last has settled (exec_cell, _refresh_pending, install).            *)
FeedSpec == F!Spec
=============================================================================

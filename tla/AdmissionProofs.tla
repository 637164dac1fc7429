--------------------------- MODULE AdmissionProofs ---------------------------
(***************************************************************************)
(* What holds of admission for any number of clients, requests and kernels. *)
(*                                                                         *)
(* That no request is ever placed behind another (OneSlot), that no cell    *)
(* number comes back (Numbering), that a marker which blocks the key is its *)
(* owner's (MarkerIsCurrent) and that an answer names the caller's own cell *)
(* (AnswersAreOwn) hold without conditions. That the busy model lets nobody *)
(* by while the key's owner holds a request (BusyIsSound) holds on two,     *)
(* named in the theorem: nobody discards a marker without the submit lock (Probers   *)
(* = {}), and no client sees a kernel between its owner.json and its ready  *)
(* file (SlowStart = FALSE). MCAdmissionProbe.cfg shows that the first is   *)
(* needed; the README tells what is known of the second. On the same two    *)
(* conditions admission keeps what those who wait for cells go by (Feeds).  *)
(***************************************************************************)
EXTENDS Admission, SequenceTheorems, TLAPS

Empty == queue = <<>> /\ running = Idle

(* An expiring kernel that has given up owner.json is free to let past.     *)
Free == Empty \/ owner # live

Unpublished == queue # <<>> \/ running.stage = "taken"

(* The submit lock excludes.                                               *)
LockInv == \A c \in Clients : pc[c] # "idle" => lock = c

(* A running kernel owns the key and is ready, until its own watchdog has   *)
(* unlinked owner.json; a dead one holds nothing.                          *)
OwnerInv ==
  /\ live # 0 => \/ owner = live /\ ready # 0
                 \/ owner = 0 /\ spawner \in {"close", "exit"}
  /\ live = 0 => Empty
  /\ spawner \in {"cleaned", "rotated"} => live = 0
  /\ Expiring => live # 0 /\ running.stage # "published"
  /\ spawner \in {"close", "exit"} => owner = 0
  /\ spawner = "rotated" => current = 0
  /\ spawner # "boot"
  /\ live <= spawned

OneInv == queue = <<>> \/ (running = Idle /\ Len(queue) = 1)

(* Cell numbers grow, and a running cell is newer than every record.       *)
NumberInv ==
  /\ current <= count
  /\ records \subseteq 1..count
  /\ running # Idle =>
       /\ running.cell = count /\ running.cell # 0
       /\ running.cell \notin records
       /\ running.stage = "published" => current = running.cell
       /\ running.stage = "taken" => current < running.cell
       /\ running.stage # "none"

(* The marker is evidence nobody can discharge while the request stands.   *)
MarkerGuards == pending.inc = live /\ pending.cell \in {0, running.cell}

(* What covers a request: the marker, then the published cell itself.      *)
GuardInv == ~Free => MarkerGuards \/ running.stage = "published"

(* What each step of a submitter may rely on.                              *)
CallInv(c) ==
  /\ pc[c] = "marker" => Free \/ MarkerGuards
  /\ pc[c] = "judge" => Free \/ (MarkerGuards /\ mine[c].seen = pending)
  /\ pc[c] \in {"discard", "owner", "connect"} => Free
  /\ pc[c] \in {"confirm", "mark", "send"} => Empty
  /\ pc[c] \in {"connect", "confirm"} => mine[c].bound # 0
  /\ pc[c] \in {"confirm", "mark", "send"} =>
       mine[c].link \in 1..spawned
  /\ pc[c] \in {"mark", "send"} /\ live # 0 /\ live = mine[c].link =>
       mine[c].bound = live
  /\ pc[c] = "send" => current <= mine[c].base
  /\ pc[c] = "send" /\ live = mine[c].link => pending.inc = live /\ pending.cell = 0
  /\ pc[c] = "await" /\ Unpublished => current <= mine[c].base
  /\ pc[c] \in {"await", "publish", "refresh", "rewrite"} /\ ~Empty =>
       mine[c].bound = live
  /\ pc[c] = "publish" /\ Unpublished =>
       running # Idle /\ mine[c].cell = running.cell
  /\ pc[c] \in {"refresh", "rewrite"} /\ Unpublished =>
       mine[c].cell \in {0, running.cell}
  /\ pc[c] \in {"clear", "unmark"} => ~Unpublished
  /\ pc[c] \notin {"publish", "clear", "unmark", "refresh", "rewrite"} =>
       mine[c].cell = 0

ClientInv == \A c \in Clients : CallInv(c)

IInv == LockInv /\ OwnerInv /\ OneInv /\ NumberInv /\ GuardInv /\ ClientInv

-----------------------------------------------------------------------------
(* Every variable keeps its type.                                          *)
LEMMA BlankType == Blank \in Locals /\ NoMarker \in Marker
BY DEF Blank, Locals, NoMarker, Marker

LEMMA LocalsUpdate ==
  ASSUME NEW f \in [Clients -> Locals], NEW c \in Clients, NEW n \in Nat,
         NEW k \in Marker
  PROVE  /\ [f EXCEPT ![c].bound = n] \in [Clients -> Locals]
         /\ [f EXCEPT ![c].link = n] \in [Clients -> Locals]
         /\ [f EXCEPT ![c].base = n] \in [Clients -> Locals]
         /\ [f EXCEPT ![c].cell = n] \in [Clients -> Locals]
         /\ [f EXCEPT ![c].req = n] \in [Clients -> Locals]
         /\ [f EXCEPT ![c].attempt = 1] \in [Clients -> Locals]
         /\ [f EXCEPT ![c].seen = k] \in [Clients -> Locals]
BY DEF Locals

LEMMA MarkerType ==
  ASSUME NEW m \in Locals
  PROVE  /\ [inc |-> m.bound, cell |-> 0, link |-> m.link] \in Marker
         /\ [inc |-> m.bound, cell |-> m.cell, link |-> m.link] \in Marker
BY DEF Locals, Marker

(* Leaving the call keeps the types, whoever holds the lock.               *)
LEMMA LeaveType ==
  ASSUME ClientType, NEW c \in Clients, Leave(c)
  PROVE  /\ lock' \in Clients \cup {NoClient}
         /\ pc' \in [Clients -> Steps]
         /\ mine' \in [Clients -> Locals]
BY BlankType DEF ClientType, Leave, Goto, Steps

LEMMA TypeCorrect == Spec => []TypeOK
<1> USE DEF Idle
<1>1. Init => TypeOK
  BY BlankType DEF Init, TypeOK, KernelType, CellType, ClientType, Steps
<1>2. TypeOK /\ [Next]_vars => TypeOK'
  <2> SUFFICES ASSUME TypeOK, [Next]_vars PROVE TypeOK'
    OBVIOUS
  <2> USE DEF TypeOK
  <2>1. ASSUME NEW c \in Clients, Acquire(c) \/ Probe(c) \/ ClientStep(c) \/ Crash(c)
        PROVE  TypeOK'
    <3> USE DEF At, Goto, Steps
    <3>1. CASE Acquire(c)
      <4>1. KernelType' /\ CellType'
        BY <3>1 DEF Acquire, KernelType, CellType, kernelVars, cellVars
      <4>2. ClientType'
        BY <3>1 DEF ClientType, Acquire
      <4> QED
        BY <4>1, <4>2
    <3>2. CASE Probe(c)
      <4>1. KernelType' /\ CellType'
        BY <3>2 DEF Probe, KernelType, CellType, kernelVars, cellVars
      <4>2. ClientType'
        BY <3>2 DEF ClientType, Probe
      <4> QED
        BY <4>1, <4>2
    <3>3. CASE CheckCurrent(c)
      <4>1. KernelType' /\ CellType'
        BY <3>3 DEF CheckCurrent, KernelType, CellType, kernelVars, cellVars
      <4>2. ClientType'
        BY <3>3, LeaveType, BlankType DEF ClientType, CheckCurrent
      <4> QED
        BY <4>1, <4>2
    <3>4. CASE ReadMarker(c)
      <4>1. KernelType' /\ CellType'
        BY <3>4 DEF ReadMarker, KernelType, CellType, kernelVars, cellVars
      <4>2. ClientType'
        <5>1. CASE Leave(c)
          BY <3>4, <5>1, LeaveType DEF ClientType, ReadMarker
        <5>2. CASE ~Leave(c)
          <6>1. mine' = mine \/ mine' = [mine EXCEPT ![c].seen = pending]
            BY <3>4, <5>2 DEF ReadMarker, NotBusy
          <6>2. [mine EXCEPT ![c].seen = pending] \in [Clients -> Locals]
            BY LocalsUpdate DEF ClientType, KernelType
          <6>3. mine' \in [Clients -> Locals]
            BY <6>1, <6>2 DEF ClientType
          <6> QED
            BY <3>4, <5>2, <6>3 DEF ClientType, ReadMarker, NotBusy
        <5> QED
          BY <5>1, <5>2
      <4> QED
        BY <4>1, <4>2
    <3>5. CASE Judge(c)
      <4>1. KernelType' /\ CellType'
        BY <3>5 DEF Judge, KernelType, CellType, kernelVars, cellVars
      <4>2. ClientType'
        BY <3>5, LeaveType, BlankType DEF ClientType, Judge
      <4> QED
        BY <4>1, <4>2
    <3>6. CASE Discard(c)
      <4>1. KernelType' /\ CellType'
        BY <3>6 DEF Discard, KernelType, CellType, kernelVars, cellVars
      <4>2. ClientType'
        BY <3>6, LeaveType, BlankType DEF ClientType, Discard, NotBusy
      <4> QED
        BY <4>1, <4>2
    <3>7. CASE ReadOwner(c)
      <4>1. KernelType' /\ CellType'
        BY <3>7 DEF ReadOwner, KernelType, CellType, kernelVars, cellVars
      <4>2. ClientType'
        <5>1. CASE Leave(c)
          BY <3>7, <5>1, LeaveType DEF ClientType, ReadOwner
        <5>2. CASE ~Leave(c)
          <6>1. mine' = mine \/ mine' = [mine EXCEPT ![c].bound = owner]
            BY <3>7, <5>2 DEF ReadOwner
          <6>2. [mine EXCEPT ![c].bound = owner] \in [Clients -> Locals]
            BY LocalsUpdate DEF ClientType, KernelType
          <6>3. mine' \in [Clients -> Locals]
            BY <6>1, <6>2 DEF ClientType
          <6> QED
            BY <3>7, <5>2, <6>3 DEF ClientType, ReadOwner
        <5> QED
          BY <5>1, <5>2
      <4> QED
        BY <4>1, <4>2
    <3>8. CASE Connect(c)
      <4>1. KernelType' /\ CellType'
        BY <3>8 DEF Connect, KernelType, CellType, kernelVars, cellVars
      <4>2. ClientType'
        <5>1. CASE Leave(c)
          BY <3>8, <5>1, LeaveType DEF ClientType, Connect
        <5>2. CASE ~Leave(c)
          <6>1. mine' = mine \/ mine' = [mine EXCEPT ![c].link = conn]
            BY <3>8, <5>2 DEF Connect
          <6>2. [mine EXCEPT ![c].link = conn] \in [Clients -> Locals]
            BY LocalsUpdate DEF ClientType, KernelType
          <6>3. mine' \in [Clients -> Locals]
            BY <6>1, <6>2 DEF ClientType
          <6> QED
            BY <3>8, <5>2, <6>3 DEF ClientType, Connect
        <5> QED
          BY <5>1, <5>2
      <4> QED
        BY <4>1, <4>2
    <3>9. CASE Confirm(c)
      <4>1. KernelType' /\ CellType'
        BY <3>9 DEF Confirm, KernelType, CellType, kernelVars, cellVars
      <4>2. ClientType'
        <5>1. CASE Leave(c)
          BY <3>9, <5>1, LeaveType DEF ClientType, Confirm
        <5>2. CASE ~Leave(c)
          <6>1. mine' = mine \/ mine' = [mine EXCEPT ![c].attempt = 1]
            BY <3>9, <5>2 DEF Confirm
          <6>2. [mine EXCEPT ![c].attempt = 1] \in [Clients -> Locals]
            BY LocalsUpdate DEF ClientType, KernelType
          <6>3. mine' \in [Clients -> Locals]
            BY <6>1, <6>2 DEF ClientType
          <6> QED
            BY <3>9, <5>2, <6>3 DEF ClientType, Confirm
        <5> QED
          BY <5>1, <5>2
      <4> QED
        BY <4>1, <4>2
    <3>10. CASE Mark(c)
      <4>1. KernelType' /\ CellType'
        BY <3>10 DEF Mark, KernelType, CellType, kernelVars, cellVars
      <4>2. ClientType'
        BY <3>10, LeaveType, BlankType, LocalsUpdate, MarkerType DEF ClientType, Mark, KernelType, CellType
      <4> QED
        BY <4>1, <4>2
    <3>11. CASE Send(c)
      <4>0. sent' \in Nat
        BY <3>11 DEF Send, CellType
      <4>1. KernelType' /\ CellType'
        <5>1. queue' = queue \/ queue' = Append(queue, sent')
          BY <3>11 DEF Send
        <5>2. queue \in Seq(Nat)
          BY DEF CellType
        <5>3. queue' \in Seq(Nat)
          BY <5>1, <5>2, <4>0, AppendProperties
        <5> QED
          BY <3>11, <4>0, <5>3 DEF Send, KernelType, CellType, kernelVars
      <4>2. ClientType'
        BY <3>11, <4>0, LocalsUpdate DEF ClientType, Send
      <4> QED
        BY <4>1, <4>2
    <3>12. CASE Learn(c)
      <4>1. KernelType' /\ CellType'
        BY <3>12 DEF Learn, KernelType, CellType, kernelVars, cellVars
      <4>2. ClientType'
        <5>1. PICK n \in Nat : mine' = [mine EXCEPT ![c].cell = n]
          BY <3>12 DEF Learn, CellType
        <5>2. mine' \in [Clients -> Locals]
          BY <5>1, LocalsUpdate DEF ClientType
        <5> QED
          BY <3>12, <5>2 DEF ClientType, Learn
      <4> QED
        BY <4>1, <4>2
    <3>13. CASE Published(c)
      <4>1. KernelType' /\ CellType'
        BY <3>13 DEF Published, KernelType, CellType, kernelVars, cellVars
      <4>2. ClientType'
        BY <3>13 DEF ClientType, Published
      <4> QED
        BY <4>1, <4>2
    <3>14. CASE GiveUp(c)
      <4>1. KernelType' /\ CellType'
        BY <3>14 DEF GiveUp, KernelType, CellType, kernelVars, cellVars
      <4>2. ClientType'
        BY <3>14 DEF ClientType, GiveUp
      <4> QED
        BY <4>1, <4>2
    <3>15. CASE Refresh(c)
      <4>1. KernelType' /\ CellType'
        BY <3>15 DEF Refresh, KernelType, CellType, kernelVars, cellVars
      <4>2. ClientType'
        BY <3>15, LeaveType, BlankType DEF ClientType, Refresh
      <4> QED
        BY <4>1, <4>2
    <3>16. CASE Rewrite(c)
      <4>1. KernelType' /\ CellType'
        BY <3>16 DEF Rewrite, KernelType, CellType, kernelVars, cellVars
      <4>2. ClientType'
        BY <3>16, LeaveType, BlankType, MarkerType DEF ClientType, Rewrite
      <4> QED
        BY <4>1, <4>2
    <3>17. CASE Clear(c)
      <4>1. KernelType' /\ CellType'
        BY <3>17 DEF Clear, KernelType, CellType, kernelVars, cellVars
      <4>2. ClientType'
        BY <3>17, LeaveType, BlankType DEF ClientType, Clear
      <4> QED
        BY <4>1, <4>2
    <3>18. CASE Unmark(c)
      <4>1. KernelType' /\ CellType'
        BY <3>18 DEF Unmark, KernelType, CellType, kernelVars, cellVars
      <4>2. ClientType'
        BY <3>18, LeaveType, BlankType DEF ClientType, Unmark
      <4> QED
        BY <4>1, <4>2
    <3>19. CASE Crash(c)
      <4>1. KernelType' /\ CellType'
        BY <3>19 DEF Crash, KernelType, CellType, kernelVars, cellVars
      <4>2. ClientType'
        BY <3>19, LeaveType, BlankType DEF ClientType, Crash
      <4> QED
        BY <4>1, <4>2
    <3> QED
      BY <2>1, <3>1, <3>2, <3>3, <3>4, <3>5, <3>6, <3>7, <3>8, <3>9, <3>10, <3>11, <3>12, <3>13, <3>14, <3>15, <3>16, <3>17, <3>18, <3>19 DEF ClientStep
  <2>2. CASE Take
    <3>1. KernelType' /\ CellType'
      BY <2>2 DEF Take, KernelType, CellType, kernelVars, cellVars
    <3>2. ClientType'
      BY <2>2, BlankType DEF Take, ClientType, clientVars
    <3> QED
      BY <3>1, <3>2
  <2>3. CASE Publish
    <3>1. KernelType' /\ CellType'
      BY <2>3 DEF Publish, KernelType, CellType, kernelVars, cellVars
    <3>2. ClientType'
      BY <2>3, BlankType DEF Publish, ClientType, clientVars
    <3> QED
      BY <3>1, <3>2
  <2>4. CASE Finish
    <3>1. KernelType' /\ CellType'
      BY <2>4 DEF Finish, KernelType, CellType, kernelVars, cellVars
    <3>2. ClientType'
      BY <2>4, BlankType DEF Finish, ClientType, clientVars
    <3> QED
      BY <3>1, <3>2
  <2>5. CASE KernelDies
    <3>1. KernelType' /\ CellType'
      BY <2>5 DEF KernelDies, EndProcess, KernelType, CellType, kernelVars, cellVars
    <3>2. ClientType'
      BY <2>5, BlankType DEF KernelDies, ClientType, clientVars
    <3> QED
      BY <3>1, <3>2
  <2>6. CASE KillKernel
    <3>1. KernelType' /\ CellType'
      BY <2>6 DEF KillKernel, EndProcess, KernelType, CellType, kernelVars, cellVars
    <3>2. ClientType'
      BY <2>6, BlankType DEF KillKernel, ClientType, clientVars
    <3> QED
      BY <3>1, <3>2
  <2>7. CASE CleanStale
    <3>1. KernelType' /\ CellType'
      BY <2>7 DEF CleanStale, EndProcess, KernelType, CellType, kernelVars, cellVars
    <3>2. ClientType'
      BY <2>7, BlankType DEF CleanStale, ClientType, clientVars
    <3> QED
      BY <3>1, <3>2
  <2>8. CASE Rotate
    <3>1. KernelType' /\ CellType'
      BY <2>8 DEF Rotate, KernelType, CellType, kernelVars, cellVars
    <3>2. ClientType'
      BY <2>8, BlankType DEF Rotate, ClientType, clientVars
    <3> QED
      BY <3>1, <3>2
  <2>9. CASE Launch
    <3>1. KernelType' /\ CellType'
      BY <2>9 DEF Launch, KernelType, CellType, kernelVars, cellVars
    <3>2. ClientType'
      BY <2>9, BlankType DEF Launch, ClientType, clientVars
    <3> QED
      BY <3>1, <3>2
  <2>10. CASE MakeReady
    <3>1. KernelType' /\ CellType'
      BY <2>10 DEF MakeReady, KernelType, CellType, kernelVars, cellVars
    <3>2. ClientType'
      BY <2>10, BlankType DEF MakeReady, ClientType, clientVars
    <3> QED
      BY <3>1, <3>2
  <2>11. CASE LaunchFails
    <3>1. KernelType' /\ CellType'
      BY <2>11 DEF LaunchFails, EndProcess, KernelType, CellType, kernelVars, cellVars
    <3>2. ClientType'
      BY <2>11, BlankType DEF LaunchFails, ClientType, clientVars
    <3> QED
      BY <3>1, <3>2
  <2>12. CASE SpawnerDies
    <3>1. KernelType' /\ CellType'
      BY <2>12 DEF SpawnerDies, KernelType, CellType, kernelVars, cellVars
    <3>2. ClientType'
      BY <2>12, BlankType DEF SpawnerDies, ClientType, clientVars
    <3> QED
      BY <3>1, <3>2
  <2>14. CASE Watchdog
    <3>1. KernelType' /\ CellType'
      <4>1. CASE Exit
        BY <4>1 DEF Exit, EndProcess, KernelType, CellType
      <4>2. CASE Expire \/ Vacate \/ CloseReady \/ Balk
        <5>1. UNCHANGED <<conn, live, spawned, count, lastLog, cellVars, sent>>
          BY <4>2 DEF Expire, Vacate, CloseReady, Balk
        <5>2. /\ owner' \in {owner, 0} /\ ready' \in {ready, 0}
              /\ spawner' \in {"none", "vacate", "close", "exit"}
          BY <4>2 DEF Expire, Vacate, CloseReady, Balk
        <5> QED
          BY <5>1, <5>2 DEF KernelType, CellType, cellVars
      <4> QED
        BY <2>14, <4>1, <4>2 DEF Watchdog
    <3>2. ClientType'
      BY <2>14 DEF Watchdog, Expire, Vacate, CloseReady, Exit, Balk, ClientType, clientVars
    <3> QED
      BY <3>1, <3>2
  <2>13. CASE UNCHANGED vars
    BY <2>13 DEF vars, KernelType, CellType, ClientType, kernelVars, cellVars, clientVars
  <2> QED
    BY <2>1, <2>2, <2>3, <2>4, <2>5, <2>6, <2>7, <2>8, <2>9, <2>10, <2>11, <2>12, <2>13,
       <2>14 DEF Next, Kernel, Host
<1> QED
  BY <1>1, <1>2, PTL DEF Spec
-----------------------------------------------------------------------------
(* The kernel's and the host's steps keep the invariant.                   *)
LEMMA FieldTypes ==
  ASSUME TypeOK
  PROVE  /\ owner \in Nat /\ ready \in Nat /\ live \in Nat /\ spawned \in Nat
         /\ count \in Nat /\ current \in Nat /\ lastLog \in Nat /\ sent \in Nat
         /\ queue \in Seq(Nat)
         /\ running.cell \in Nat /\ running.req \in Nat
         /\ running = [cell |-> running.cell, req |-> running.req,
                       stage |-> running.stage]
         /\ pending.inc \in Nat /\ pending.cell \in Nat
         /\ \A c \in Clients :
              /\ mine[c].bound \in Nat /\ mine[c].link \in Nat
              /\ mine[c].base \in Nat /\ mine[c].cell \in Nat
BY DEF TypeOK, KernelType, CellType, ClientType, Marker, Locals

LEMMA TailOfOne ==
  ASSUME NEW q \in Seq(Nat), Len(q) = 1
  PROVE  Tail(q) = <<>>
<1>1. q # <<>>
  <2>1. q = <<>> => Len(q) = Len(<<>>)
    OBVIOUS
  <2>2. Len(<<>>) = 0
    BY EmptySeq
  <2> QED
    BY <2>1, <2>2
<1>2. Tail(q) \in Seq(Nat) /\ Len(Tail(q)) = 0
  BY <1>1, HeadTailProperties
<1> QED
  BY <1>2, EmptySeq

(* The kernel begins its only request.                                     *)
LEMMA TakeKeeps == ASSUME TypeOK, IInv, Take PROVE IInv'
<1> USE DEF Take, clientVars, Idle, Empty, Free, Unpublished, MarkerGuards
<1>1. queue' = <<>> /\ running = Idle /\ live # 0
  <2>1. queue \in Seq(Nat) /\ queue # <<>> /\ Len(queue) = 1
    BY FieldTypes DEF IInv, OneInv
  <2> QED
    BY <2>1, TailOfOne DEF IInv, OneInv
<1>2. running' # Idle /\ running'.cell = count' /\ running'.stage = "taken"
  BY FieldTypes
<1>3. LockInv' /\ OwnerInv' /\ OneInv'
  BY <1>1, <1>2 DEF IInv, LockInv, OwnerInv, OneInv, Expiring
<1>4. NumberInv'
  <2>1. current <= count /\ records \subseteq 1..count /\ count \in Nat
    BY FieldTypes DEF IInv, NumberInv
  <2>2. /\ current' = current /\ records' = records /\ count' = count + 1
        /\ running'.cell = count + 1
    BY FieldTypes
  <2>3. current' < running'.cell /\ running'.cell \notin records'
    BY <2>1, <2>2, FieldTypes
  <2> QED
    <3> HIDE DEF Take, clientVars, Empty, Free, Unpublished, MarkerGuards, Idle
    <3>1. current \in Nat /\ count \in Nat
      BY FieldTypes
    <3>2. current' <= count'
      BY <2>1, <2>2, <3>1
    <3>3. records' \subseteq 1..count'
      BY <2>1, <2>2, <3>1
    <3>4. running'.cell = count' /\ count' # 0
      BY <2>2, <3>1
    <3> QED
      BY <1>2, <2>3, <3>2, <3>3, <3>4 DEF NumberInv
<1>5. owner = live => pending.inc = live /\ pending.cell = 0
  BY <1>1, FieldTypes DEF IInv, GuardInv, NumberInv
<1>6. GuardInv'
  BY <1>5 DEF IInv, GuardInv
<1>7. ASSUME NEW c \in Clients PROVE CallInv(c)'
  <2>1. CallInv(c) /\ UNCHANGED <<pc, mine, pending, owner, live, spawned, current>>
    BY DEF IInv, ClientInv
  <2>2. queue # <<>> /\ running.cell = 0
    BY <1>1
  <2>3. ~Empty /\ (Free => owner # live)
    BY <2>2
  <2>4. (owner # live) => Free'
    BY <2>1
  <2> HIDE DEF Take, clientVars, Idle, Empty, Free
  <2>5. pc[c] \notin {"confirm", "mark", "send"} /\ Unpublished
    BY <2>1, <2>2 DEF CallInv, Empty
  <2> QED
    BY <1>1, <1>2, <1>5, <2>1, <2>2, <2>3, <2>4, <2>5 DEF CallInv
<1> QED
  BY <1>3, <1>4, <1>6, <1>7 DEF IInv, ClientInv

(* The cell is published: from here on current.json covers it.             *)
LEMMA PublishKeeps == ASSUME TypeOK, IInv, Publish PROVE IInv'
<1> USE DEF Publish, clientVars, Idle, Empty, Free, Unpublished, MarkerGuards
<1>0. Idle.stage = "none" /\ running.stage = "taken"
  OBVIOUS
<1>1. running # Idle
  BY <1>0
<1>2. queue = <<>>
  BY <1>1 DEF IInv, OneInv
<1>3. /\ running' # Idle /\ running'.cell = running.cell
      /\ running'.stage = "published"
  BY FieldTypes
<1>4. LockInv' /\ OwnerInv' /\ OneInv'
  BY <1>1, <1>2, <1>3 DEF IInv, LockInv, OwnerInv, OneInv, Expiring
<1>5. NumberInv'
  BY <1>1, <1>2, <1>3, FieldTypes DEF IInv, NumberInv
<1>6. GuardInv'
  BY <1>3 DEF GuardInv
<1>7. ClientInv'
  BY <1>1, <1>2, <1>3, FieldTypes DEF IInv, ClientInv, CallInv
<1> QED
  BY <1>4, <1>5, <1>6, <1>7 DEF IInv

(* The cell settles: the kernel holds nothing any more.                    *)
LEMMA FinishKeeps == ASSUME TypeOK, IInv, Finish PROVE IInv'
<1> USE DEF Finish, clientVars, kernelVars, Idle, Empty, Free, Unpublished, MarkerGuards
<1>1. queue' = <<>> /\ running' = Idle
  BY FieldTypes DEF IInv, OneInv
<1>2. LockInv' /\ OwnerInv' /\ OneInv' /\ GuardInv'
  BY <1>1 DEF IInv, LockInv, OwnerInv, OneInv, GuardInv, Expiring
<1>3. NumberInv'
  BY <1>1, FieldTypes DEF IInv, NumberInv
<1>4. ClientInv'
  BY <1>1, FieldTypes DEF IInv, ClientInv, CallInv
<1> QED
  BY <1>2, <1>3, <1>4 DEF IInv

(* A process that ends holds nothing, and no client relies on it.          *)
LEMMA EndKeepsCalls ==
  ASSUME TypeOK, IInv, EndProcess, UNCHANGED clientVars,
         spawned' = spawned, current' = current \/ current' = 0
  PROVE  ClientInv' /\ GuardInv' /\ OneInv' /\ Empty'
<1> USE DEF EndProcess, clientVars, Idle, Empty, Free, Unpublished
<1>1. Empty' /\ OneInv' /\ GuardInv'
  BY DEF OneInv, GuardInv
<1>2. ASSUME NEW c \in Clients PROVE CallInv(c)'
  <2> HIDE DEF EndProcess, Idle, Empty, Free, Unpublished
  <2>1. pc' = pc /\ mine' = mine /\ live' = 0 /\ CallInv(c)
    BY DEF IInv, ClientInv, EndProcess
  <2>2. ~Unpublished'
    BY DEF EndProcess, Unpublished, Idle
  <2>3. current <= mine[c].base => current' <= mine[c].base
    BY FieldTypes
  <2>4. mine[c].link \in 1..spawned => mine[c].link # 0
    BY FieldTypes
  <2> QED
    BY <1>1, <2>1, <2>2, <2>3, <2>4 DEF CallInv, Free
<1>3. ClientInv'
  BY <1>2 DEF ClientInv
<1> QED
  BY <1>1, <1>3

LEMMA KernelDiesKeeps == ASSUME TypeOK, IInv, KernelDies PROVE IInv'
<1>1. ClientInv' /\ GuardInv' /\ OneInv' /\ Empty'
  BY EndKeepsCalls DEF KernelDies, clientVars
<1>2. LockInv' /\ OwnerInv' /\ NumberInv'
  BY <1>1, FieldTypes DEF IInv, LockInv, OwnerInv, NumberInv, KernelDies, EndProcess, clientVars,
     Empty, Expiring
<1> QED
  BY <1>1, <1>2 DEF IInv

LEMMA KillKernelKeeps == ASSUME TypeOK, IInv, KillKernel PROVE IInv'
<1>1. ClientInv' /\ GuardInv' /\ OneInv' /\ Empty'
  BY EndKeepsCalls DEF KillKernel, clientVars
<1>2. LockInv' /\ OwnerInv' /\ NumberInv'
  BY <1>1, FieldTypes DEF IInv, LockInv, OwnerInv, NumberInv, KillKernel, EndProcess, clientVars,
     Empty, Expiring
<1> QED
  BY <1>1, <1>2 DEF IInv

LEMMA CleanStaleKeeps == ASSUME TypeOK, IInv, CleanStale PROVE IInv'
<1>1. ClientInv' /\ GuardInv' /\ OneInv' /\ Empty'
  BY EndKeepsCalls DEF CleanStale, clientVars
<1>2. LockInv' /\ OwnerInv' /\ NumberInv'
  BY <1>1, FieldTypes DEF IInv, LockInv, OwnerInv, NumberInv, CleanStale, EndProcess, clientVars,
     Empty, Expiring
<1> QED
  BY <1>1, <1>2 DEF IInv

(* The rotation takes the marker only when there is no kernel.             *)
LEMMA RotateKeeps == ASSUME TypeOK, IInv, Rotate PROVE IInv'
<1> USE DEF Rotate, clientVars, Empty, Free, Unpublished
<1>1. live = 0 /\ Empty /\ Empty'
  BY FieldTypes DEF IInv, OwnerInv
<1>2. LockInv' /\ OwnerInv' /\ OneInv' /\ GuardInv' /\ NumberInv'
  BY <1>1, FieldTypes DEF IInv, LockInv, OwnerInv, OneInv, GuardInv, NumberInv,
     Expiring
<1>3. ClientInv'
  BY <1>1, FieldTypes DEF IInv, ClientInv, CallInv, Idle
<1> QED
  BY <1>2, <1>3 DEF IInv

(* A new kernel is nobody's link: every link is an older incarnation.      *)
LEMMA LaunchKeeps ==
  ASSUME SlowStart = FALSE, TypeOK, IInv, Launch
  PROVE  IInv'
<1> USE DEF Launch, clientVars, Empty, Free, Unpublished, Expiring
<1>1. live = 0 /\ Empty /\ Empty' /\ current = 0
  BY FieldTypes DEF IInv, OwnerInv
<1>2. LockInv' /\ OwnerInv' /\ OneInv' /\ GuardInv'
  BY <1>1, FieldTypes DEF IInv, LockInv, OwnerInv, OneInv, GuardInv
<1>3. NumberInv'
  BY <1>1, FieldTypes DEF NumberInv
<1>4. ClientInv'
  BY <1>1, FieldTypes DEF IInv, ClientInv, CallInv, Idle
<1> QED
  BY <1>2, <1>3, <1>4 DEF IInv

LEMMA SpawnerDiesKeeps == ASSUME TypeOK, IInv, SpawnerDies PROVE IInv'
<1> USE DEF SpawnerDies, clientVars, cellVars, Empty, Free, Unpublished, MarkerGuards
<1>1. LockInv' /\ OwnerInv' /\ OneInv' /\ GuardInv' /\ NumberInv'
  BY DEF IInv, LockInv, OwnerInv, OneInv, GuardInv, NumberInv, Expiring
<1>2. ClientInv'
  BY DEF IInv, ClientInv, CallInv
<1> QED
  BY <1>1, <1>2 DEF IInv
-----------------------------------------------------------------------------
(* The watchdog: nothing it unlinks is relied upon, for a client that finds *)
(* no owner goes no further.                                               *)
LEMMA WatchdogKeeps == ASSUME TypeOK, IInv, Watchdog PROVE IInv'
<1>1. CASE Exit
  <2>1. ClientInv' /\ GuardInv' /\ OneInv' /\ Empty'
    BY <1>1, EndKeepsCalls DEF Exit, clientVars
  <2>2. LockInv' /\ OwnerInv' /\ NumberInv'
    BY <1>1, <2>1, FieldTypes DEF IInv, LockInv, OwnerInv, NumberInv, Exit, EndProcess,
       clientVars, Empty, Expiring
  <2> QED
    BY <2>1, <2>2 DEF IInv
<1>2. CASE Expire \/ Vacate \/ CloseReady \/ Balk
  <2>1. /\ UNCHANGED <<live, spawned, count, cellVars, clientVars, pending>>
        /\ owner' = owner \/ (owner' = 0 /\ live # 0)
    BY <1>2 DEF Expire, Vacate, CloseReady, Balk, IInv, OwnerInv, Expiring
  <2>2. OwnerInv'
    BY <1>2 DEF Expire, Vacate, CloseReady, Balk, IInv, OwnerInv, Expiring, Empty, cellVars
  <2>3. Free => Free'
    BY <2>1 DEF Free, Empty, cellVars
  <2>4. LockInv' /\ OneInv' /\ NumberInv' /\ GuardInv'
    BY <2>1, <2>3 DEF IInv, LockInv, OneInv, NumberInv, GuardInv, MarkerGuards, Empty, Idle,
       cellVars, clientVars
  <2>5. ClientInv'
    BY <2>1, <2>3 DEF IInv, ClientInv, CallInv, MarkerGuards, Empty, Unpublished, Idle,
       cellVars, clientVars
  <2> QED
    BY <2>2, <2>4, <2>5 DEF IInv
<1> QED
  BY <1>1, <1>2 DEF Watchdog
-----------------------------------------------------------------------------
(* The clients' steps keep the invariant.                                  *)
LEMMA QuietKeeps ==
  ASSUME IInv, UNCHANGED <<kernelVars, cellVars>>
  PROVE  /\ OwnerInv' /\ OneInv' /\ NumberInv'
         /\ pending' = pending => GuardInv'
         /\ Free => GuardInv'
BY DEF IInv, OwnerInv, OneInv, NumberInv, GuardInv, kernelVars, cellVars,
       Empty, Free, Expiring, MarkerGuards, Idle

(* The lock holder is the only client inside a call ...                    *)
LEMMA Alone ==
  ASSUME TypeOK, IInv, NEW c \in Clients, pc[c] # "idle"
  PROVE  lock = c /\ \A d \in Clients \ {c} : pc[d] = "idle" /\ mine[d].cell = 0
BY DEF IInv, LockInv, ClientInv, CallInv

(* ... so its step has only its own promises to keep.                      *)
LEMMA GotoKeeps ==
  ASSUME TypeOK, IInv, NEW c \in Clients, pc[c] # "idle",
         NEW step, Goto(c, step), lock' = lock, CallInv(c)',
         \A d \in Clients \ {c} : mine'[d] = mine[d]
  PROVE  LockInv' /\ ClientInv'
<1>1. \A d \in Clients \ {c} : pc'[d] = "idle" /\ mine'[d].cell = 0
  BY Alone DEF Goto, TypeOK, ClientType
<1>2. \A d \in Clients : CallInv(d)'
  BY <1>1 DEF CallInv
<1> QED
  BY <1>1, <1>2, Alone DEF LockInv, ClientInv

LEMMA LeaveKeeps ==
  ASSUME TypeOK, IInv, NEW c \in Clients, pc[c] # "idle", Leave(c)
  PROVE  LockInv' /\ ClientInv'
<1>1. \A d \in Clients : pc'[d] = "idle" /\ mine'[d].cell = 0
  BY Alone DEF Leave, Goto, TypeOK, ClientType, Blank
<1> QED
  BY <1>1 DEF LockInv, ClientInv, CallInv

(* A submitter that finds nobody busy goes on; a prober would leave.       *)
LEMMA NotBusyGoesOn ==
  ASSUME TypeOK, IInv, NEW c \in Clients, pc[c] # "idle", NotBusy(c)
  PROVE  Goto(c, "owner") /\ lock' = lock /\ mine' = mine
BY Alone DEF NotBusy

(* What the submitter judges by.                                           *)
LEMMA DeadIsFree == ASSUME TypeOK, IInv, SeemsDead PROVE Free
BY FieldTypes DEF SeemsDead, Gone, IInv, OwnerInv, Free

LEMMA RestIsGuarded == ASSUME TypeOK, IInv, ~Running PROVE Free \/ MarkerGuards
<1>1. CASE running.stage = "published"
  <2>1. running # Idle
    BY <1>1 DEF Idle
  <2> QED
    BY <1>1, <2>1, FieldTypes DEF Running, IInv, NumberInv
<1>2. CASE running.stage # "published"
  BY <1>2 DEF IInv, GuardInv
<1> QED
  BY <1>1, <1>2

LEMMA GuardStands ==
  ASSUME TypeOK, IInv, MarkerGuards, Discharged(pending) PROVE Free
<1> SUFFICES ASSUME ~Free PROVE FALSE
  OBVIOUS
<1>1. live # 0 /\ owner = live
  BY DEF IInv, OwnerInv, Free
<1>2. pending.cell # 0
  BY <1>1 DEF Discharged, MarkerGuards
<1>3. pending.cell = running.cell /\ running # Idle
  BY <1>2 DEF MarkerGuards, Idle
<1>4. running.cell \in records \/ current > running.cell
  BY <1>1, <1>3 DEF Discharged, MarkerGuards
<1> QED
  BY <1>3, <1>4, FieldTypes DEF IInv, NumberInv
(* One step of the lock holder, action by action.                          *)
LEMMA ClientKeeps ==
  ASSUME Probers = {}, TypeOK, IInv, NEW c \in Clients,
         Acquire(c) \/ Probe(c) \/ ClientStep(c) \/ Crash(c)
  PROVE  IInv'
<1> USE DEF At
<1> DEFINE Calm == LockInv' /\ ClientInv' /\ pending' = pending
                     /\ UNCHANGED <<kernelVars, cellVars>>
<1>0. ASSUME Calm PROVE IInv'
  BY <1>0, QuietKeeps DEF IInv
<1>1. CASE Acquire(c)
  <2>1. \A d \in Clients : pc[d] = "idle" /\ mine[d].cell = 0
    BY <1>1, NobodyAssumption DEF Acquire, IInv, LockInv, ClientInv, CallInv
  <2>2. LockInv' /\ ClientInv'
    BY <1>1, <2>1 DEF Acquire, Goto, LockInv, ClientInv, CallInv, TypeOK, ClientType
  <2> QED
    BY <1>0, <1>1, <2>2 DEF Acquire
<1>2. CASE Probe(c)
  BY <1>2 DEF Probe
<1>3. CASE CheckCurrent(c)
  <2>1. CASE Leave(c)
    BY <1>0, <1>3, <2>1, LeaveKeeps DEF CheckCurrent
  <2>2. CASE Goto(c, "marker") /\ UNCHANGED <<lock, mine>> /\ (~Running \/ SeemsDead)
    <3>1. Free \/ MarkerGuards
      BY <2>2, DeadIsFree, RestIsGuarded
    <3>2. CallInv(c)'
      BY <1>3, <2>2, <3>1 DEF CheckCurrent, CallInv, Goto, TypeOK, ClientType,
         IInv, ClientInv, Empty, Free, MarkerGuards, kernelVars, cellVars
    <3> QED
      BY <1>0, <1>3, <2>2, <3>2, GotoKeeps DEF CheckCurrent
  <2> QED
    BY <1>3, <2>1, <2>2 DEF CheckCurrent
<1>4. CASE ReadMarker(c)
  <2>1. CASE pending = NoMarker
    <3>1. NotBusy(c)
      BY <1>4, <2>1 DEF ReadMarker
    <3>2. Goto(c, "owner") /\ lock' = lock /\ mine' = mine
      BY <1>4, <3>1, NotBusyGoesOn DEF ReadMarker
    <3>3. Free
      BY <1>4, <2>1 DEF ReadMarker, IInv, ClientInv, CallInv, MarkerGuards,
         NoMarker, OwnerInv, Free
    <3>4. CallInv(c)'
      BY <1>4, <3>2, <3>3 DEF ReadMarker, CallInv, Goto, TypeOK, ClientType,
         IInv, ClientInv, Empty, Free, kernelVars, cellVars
    <3> QED
      BY <1>0, <1>4, <3>2, <3>4, GotoKeeps DEF ReadMarker
  <2>2. CASE pending # NoMarker
    <3>1. /\ mine'[c].seen = pending /\ mine'[c].cell = mine[c].cell
          /\ pc'[c] = "judge"
      BY <1>4, <2>2 DEF ReadMarker, Goto, TypeOK, ClientType, Locals
    <3>2. CallInv(c)'
      BY <1>4, <2>2, <3>1 DEF ReadMarker, CallInv, IInv, ClientInv, Empty, Free,
         MarkerGuards, kernelVars, cellVars
    <3> QED
      BY <1>0, <1>4, <2>2, <3>2, GotoKeeps DEF ReadMarker, TypeOK, ClientType
  <2> QED
    BY <2>1, <2>2
<1>5. CASE Judge(c)
  <2>1. CASE Leave(c)
    BY <1>0, <1>5, <2>1, LeaveKeeps DEF Judge
  <2>2. CASE /\ Goto(c, "discard") /\ UNCHANGED <<lock, mine>>
             /\ SeemsDead \/ Discharged(mine[c].seen)
    <3>1. Free
      BY <1>5, <2>2, DeadIsFree, GuardStands DEF Judge, IInv, ClientInv, CallInv
    <3>2. CallInv(c)'
      BY <1>5, <2>2, <3>1 DEF Judge, CallInv, Goto, TypeOK, ClientType,
         IInv, ClientInv, Empty, Free, kernelVars, cellVars
    <3> QED
      BY <1>0, <1>5, <2>2, <3>2, GotoKeeps DEF Judge
  <2> QED
    BY <1>5, <2>1, <2>2 DEF Judge
<1>6. CASE Discard(c)
  <2>1. Goto(c, "owner") /\ lock' = lock /\ mine' = mine
    BY <1>6, NotBusyGoesOn DEF Discard
  <2>2. Free
    BY <1>6 DEF Discard, IInv, ClientInv, CallInv
  <2>3. CallInv(c)'
    BY <1>6, <2>1, <2>2 DEF Discard, CallInv, Goto, TypeOK, ClientType,
       IInv, ClientInv, Empty, Free, kernelVars, cellVars
  <2>4. LockInv' /\ ClientInv'
    BY <1>6, <2>1, <2>3, GotoKeeps DEF Discard
  <2> QED
    BY <1>6, <2>2, <2>4, QuietKeeps DEF Discard, IInv
<1>7. CASE ReadOwner(c)
  <2>1. CASE Leave(c)
    BY <1>0, <1>7, <2>1, LeaveKeeps DEF ReadOwner
  <2>2. CASE ~Leave(c)
    <3>1. /\ mine'[c].cell = mine[c].cell /\ pc'[c] = "connect"
          /\ mine'[c].bound = owner /\ owner # 0
      BY <1>7, <2>2 DEF ReadOwner, Goto, TypeOK, ClientType, Locals
    <3>2. CallInv(c)'
      BY <1>7, <2>2, <3>1 DEF ReadOwner, CallInv, IInv, ClientInv, Empty, Free,
         kernelVars, cellVars
    <3> QED
      BY <1>0, <1>7, <2>2, <3>2, GotoKeeps DEF ReadOwner, TypeOK, ClientType
  <2> QED
    BY <2>1, <2>2
<1>8. CASE Connect(c)
  <2>1. CASE Leave(c)
    BY <1>0, <1>8, <2>1, LeaveKeeps DEF Connect
  <2>2. CASE ~Leave(c)
    <3>1. conn \in 1..spawned
      BY <1>8, <2>2, FieldTypes DEF Connect, ShellAnswers, IInv, OwnerInv
    <3>2. /\ mine'[c].cell = mine[c].cell /\ mine'[c].link = conn
          /\ mine'[c].bound = mine[c].bound
          /\ pc'[c] = "confirm" /\ Empty
      BY <1>8, <2>2 DEF Connect, ShellAnswers, Empty, Goto, TypeOK, ClientType, Locals
    <3>3. CallInv(c)'
      BY <1>8, <2>2, <3>1, <3>2 DEF Connect, CallInv, IInv, ClientInv, Empty, Free,
         kernelVars, cellVars
    <3> QED
      BY <1>0, <1>8, <2>2, <3>3, GotoKeeps DEF Connect, TypeOK, ClientType
  <2> QED
    BY <2>1, <2>2
<1>9. CASE Confirm(c)
  <2>1. CASE Leave(c)
    BY <1>0, <1>9, <2>1, LeaveKeeps DEF Confirm
  <2>2. CASE ~Leave(c)
    <3>1. live # 0 => owner \in {0, live}
      BY DEF IInv, OwnerInv
    <3>2. /\ mine'[c].cell = mine[c].cell /\ mine'[c].link = mine[c].link
          /\ mine'[c].bound = mine[c].bound
          /\ pc'[c] = "owner" \/ (pc'[c] = "mark" /\ owner = mine[c].bound)
      BY <1>9, <2>2 DEF Confirm, Goto, TypeOK, ClientType, Locals
    <3>3. CallInv(c)'
      BY <1>9, <2>2, <3>1, <3>2 DEF Confirm, CallInv, IInv, ClientInv, Empty, Free,
         kernelVars, cellVars
    <3> QED
      BY <1>0, <1>9, <2>2, <3>3, GotoKeeps DEF Confirm, TypeOK, ClientType
  <2> QED
    BY <2>1, <2>2
<1>10. CASE Mark(c)
  <2>1. Empty /\ mine[c].link # 0
    BY <1>10 DEF Mark, IInv, ClientInv, CallInv
  <2>2. CallInv(c)'
    <3>1. /\ mine'[c].cell = mine[c].cell /\ mine'[c].link = mine[c].link
          /\ mine'[c].bound = mine[c].bound /\ mine'[c].base = current
          /\ pc'[c] = "send"
      BY <1>10 DEF Mark, Goto, TypeOK, ClientType, Locals
    <3>2. /\ mine[c].link \in 1..spawned /\ mine[c].cell = 0
          /\ live = mine[c].link => mine[c].bound = live
      BY <1>10, <2>1, FieldTypes DEF Mark, IInv, ClientInv, CallInv
    <3>3. pending'.inc = mine[c].bound /\ pending'.cell = 0
      BY <1>10 DEF Mark
    <3> QED
      BY <1>10, <2>1, <3>1, <3>2, <3>3, FieldTypes DEF Mark, CallInv, Empty,
         kernelVars, cellVars
  <2>3. LockInv' /\ ClientInv'
    BY <1>10, <2>2, GotoKeeps DEF Mark, TypeOK, ClientType
  <2> QED
    BY <1>10, <2>1, <2>3, QuietKeeps DEF Mark, IInv, Free
<1>11. CASE Send(c)
  <2>1. /\ Empty /\ mine[c].link \in 1..spawned
        /\ live = mine[c].link =>
             pending.inc = live /\ pending.cell = 0 /\ mine[c].bound = live
        /\ current <= mine[c].base /\ mine[c].cell = 0
    BY <1>11 DEF Send, IInv, ClientInv, CallInv
  <2>2. \/ queue' = <<>>
        \/ live = mine[c].link /\ queue' = <<sent'>>
    BY <1>11, <2>1, FieldTypes DEF Send, Empty
  <2>3. running' = Idle /\ running = Idle
    BY <1>11, <2>1 DEF Send, Empty
  <2>4. OwnerInv' /\ OneInv' /\ NumberInv' /\ GuardInv'
    <3>1. UNCHANGED <<owner, ready, live, spawned, spawner, count, current, records, pending>>
      BY <1>11 DEF Send, kernelVars
    <3>2. mine[c].link # 0
      <4>1. spawned \in Nat
        BY FieldTypes
      <4> QED
        BY <2>1, <4>1
    <3>3. OwnerInv'
      BY <2>2, <2>3, <3>1, <3>2 DEF IInv, OwnerInv, Empty, Expiring, Idle
    <3>4. OneInv'
      BY <2>2, <2>3 DEF OneInv
    <3>5. NumberInv'
      BY <2>3, <3>1 DEF IInv, NumberInv
    <3>6. GuardInv'
      BY <2>1, <2>2, <2>3, <3>1 DEF GuardInv, MarkerGuards, Empty, Free
    <3> QED
      BY <3>3, <3>4, <3>5, <3>6
  <2>5. CallInv(c)'
    <3>1. /\ mine'[c].cell = mine[c].cell /\ mine'[c].bound = mine[c].bound
          /\ mine'[c].base = mine[c].base /\ pc'[c] = "await"
      BY <1>11 DEF Send, Goto, TypeOK, ClientType, Locals
    <3> QED
      BY <1>11, <2>1, <2>2, <2>3, <3>1 DEF Send, CallInv, Empty, kernelVars
  <2>6. LockInv' /\ ClientInv'
    BY <1>11, <2>5, GotoKeeps DEF Send, TypeOK, ClientType
  <2> QED
    BY <2>4, <2>6 DEF IInv
<1>12. CASE Learn(c)
  <2>1. PICK n \in Nat \ {0} :
          /\ \/ n = current /\ current > mine[c].base
             \/ n = running.cell
          /\ mine' = [mine EXCEPT ![c].cell = n]
    BY <1>12, FieldTypes DEF Learn
  <2>2. Unpublished => n = running.cell /\ running # Idle
    <3>1. Unpublished => current <= mine[c].base
      BY <1>12 DEF Learn, IInv, ClientInv, CallInv
    <3>2. ~(current <= mine[c].base /\ current > mine[c].base)
      <4>1. current \in Nat /\ mine[c].base \in Nat
        BY FieldTypes
      <4> QED
        BY <4>1
    <3>3. running.cell # 0 => running # Idle
      BY DEF Idle
    <3> QED
      BY <2>1, <3>1, <3>2, <3>3
  <2>3. CallInv(c)'
    BY <1>12, <2>1, <2>2 DEF Learn, CallInv, Goto, TypeOK, ClientType, Locals,
       IInv, ClientInv, Empty, Unpublished, kernelVars, cellVars
  <2> QED
    BY <1>0, <1>12, <2>1, <2>3, GotoKeeps DEF Learn, TypeOK, ClientType
<1>13. CASE Published(c)
  <2>1. ~Unpublished
    <3> SUFFICES ASSUME Unpublished PROVE FALSE
      OBVIOUS
    <3>1. pc[c] = "publish" /\ current = mine[c].cell
      BY <1>13 DEF Published
    <3>2. running # Idle /\ current = running.cell
      BY <3>1 DEF IInv, ClientInv, CallInv
    <3>3. running.stage = "taken"
      BY <3>2 DEF IInv, OneInv, Unpublished
    <3>4. current < running.cell
      BY <3>2, <3>3 DEF IInv, NumberInv
    <3> QED
      BY <3>2, <3>4, FieldTypes
  <2>2. CallInv(c)'
    BY <1>13, <2>1 DEF Published, CallInv, Goto, TypeOK, ClientType,
       Unpublished, cellVars
  <2> QED
    BY <1>0, <1>13, <2>2, GotoKeeps DEF Published
<1>14. CASE GiveUp(c)
  <2>1. CallInv(c)'
    BY <1>14 DEF GiveUp, CallInv, Goto, TypeOK, ClientType, IInv, ClientInv,
       Empty, Free, Unpublished, kernelVars, cellVars
  <2> QED
    BY <1>0, <1>14, <2>1, GotoKeeps DEF GiveUp
<1>15. CASE Refresh(c)
  <2>1. CASE Leave(c)
    BY <1>0, <1>15, <2>1, LeaveKeeps DEF Refresh
  <2>2. CASE Goto(c, "rewrite") /\ UNCHANGED <<lock, mine>>
    <3>1. CallInv(c)'
      BY <1>15, <2>2 DEF Refresh, CallInv, Goto, TypeOK, ClientType, IInv, ClientInv,
         Empty, Unpublished, kernelVars, cellVars
    <3> QED
      BY <1>0, <1>15, <2>2, <3>1, GotoKeeps DEF Refresh
  <2> QED
    BY <1>15, <2>1, <2>2 DEF Refresh
<1>16. CASE Rewrite(c)
  <2>1. LockInv' /\ ClientInv'
    BY <1>16, LeaveKeeps DEF Rewrite
  <2>2. GuardInv'
    <3>1. SUFFICES ASSUME ~Free, running.stage # "published" PROVE MarkerGuards'
      BY <1>16 DEF Rewrite, GuardInv, Empty, Free, kernelVars, cellVars
    <3>2. Unpublished
      BY <3>1, FieldTypes DEF Unpublished, Empty, Free, IInv, NumberInv, TypeOK, CellType
    <3>3. mine[c].bound = live /\ mine[c].cell \in {0, running.cell}
      BY <1>16, <3>1, <3>2 DEF Rewrite, IInv, ClientInv, CallInv, Free
    <3> QED
      BY <1>16, <3>3 DEF Rewrite, MarkerGuards, kernelVars, cellVars
  <2> QED
    BY <1>16, <2>1, <2>2, QuietKeeps DEF Rewrite, IInv
<1>17. CASE Clear(c)
  <2>1. CASE Leave(c)
    BY <1>0, <1>17, <2>1, LeaveKeeps DEF Clear
  <2>2. CASE Goto(c, "unmark") /\ UNCHANGED <<lock, mine>>
    <3>1. CallInv(c)'
      BY <1>17, <2>2 DEF Clear, CallInv, Goto, TypeOK, ClientType, IInv, ClientInv,
         Unpublished, cellVars
    <3> QED
      BY <1>0, <1>17, <2>2, <3>1, GotoKeeps DEF Clear
  <2> QED
    BY <1>17, <2>1, <2>2 DEF Clear
<1>18. CASE Unmark(c)
  <2>1. LockInv' /\ ClientInv'
    BY <1>18, LeaveKeeps DEF Unmark
  <2>2. Empty \/ running.stage = "published"
    BY <1>18, FieldTypes DEF Unmark, IInv, ClientInv, CallInv, NumberInv, Unpublished,
       Empty, TypeOK, CellType
  <2>3. GuardInv'
    BY <1>18, <2>2 DEF Unmark, GuardInv, Empty, Free, kernelVars, cellVars
  <2> QED
    BY <1>18, <2>1, <2>3, QuietKeeps DEF Unmark, IInv
<1>19. CASE Crash(c)
  BY <1>0, <1>19, LeaveKeeps DEF Crash
<1> QED
  BY <1>1, <1>2, <1>3, <1>4, <1>5, <1>6, <1>7, <1>8, <1>9, <1>10, <1>11, <1>12,
     <1>13, <1>14, <1>15, <1>16, <1>17, <1>18, <1>19 DEF ClientStep

(* IInv is inductive when markers are discarded under the lock only and no *)
(* kernel is seen before it is ready (is_busy, ensure_kernel).             *)
THEOREM Inductive ==
  ASSUME Probers = {}, SlowStart = FALSE
  PROVE  Spec => []IInv
<1>1. Init => IInv
  BY DEF Init, IInv, LockInv, OwnerInv, OneInv, NumberInv, GuardInv, ClientInv,
     CallInv, Empty, Free, Expiring, Idle, Blank, Unpublished, NoMarker
<1>2. TypeOK /\ IInv /\ [Next]_vars => IInv'
  <2> SUFFICES ASSUME TypeOK, IInv, [Next]_vars PROVE IInv'
    OBVIOUS
  <2>1. ASSUME NEW c \in Clients, Acquire(c) \/ Probe(c) \/ ClientStep(c) \/ Crash(c)
        PROVE  IInv'
    BY <2>1, ClientKeeps
  <2>2. CASE MakeReady \/ LaunchFails
    BY <2>2 DEF MakeReady, LaunchFails, IInv, OwnerInv
  <2>3. CASE UNCHANGED vars
    BY <2>3, QuietKeeps DEF vars, clientVars, IInv, LockInv, ClientInv, CallInv,
       kernelVars, cellVars, Empty, Free, MarkerGuards, Unpublished
  <2> QED
    BY <2>1, <2>2, <2>3, TakeKeeps, PublishKeeps, FinishKeeps, KernelDiesKeeps,
       KillKernelKeeps, CleanStaleKeeps, RotateKeeps, LaunchKeeps, SpawnerDiesKeeps,
       WatchdogKeeps
       DEF Next, Kernel, Host
<1> QED
  BY <1>1, <1>2, TypeCorrect, PTL DEF Spec

(* Whatever submitters, kernels and spawners die in between, the busy model *)
(* lets nobody by while the key's owner holds a request (is_busy).          *)
THEOREM BusyIsSound ==
  ASSUME Probers = {}, SlowStart = FALSE
  PROVE  Spec => []AdmittedOnlyWhenFree
<1>1. TypeOK /\ IInv => AdmittedOnlyWhenFree
  <2> SUFFICES ASSUME IInv, NEW c \in Clients, pc[c] \in {"owner", "connect"}
               PROVE  Due = {}
    BY DEF AdmittedOnlyWhenFree
  <2>1. Free
    BY DEF IInv, ClientInv, CallInv
  <2> QED
    BY <2>1 DEF Free, Empty, Held, Due
<1> QED
  BY <1>1, Inductive, TypeCorrect, PTL
-----------------------------------------------------------------------------
(* The refinement of Slot rests on less: on the lock, which lets one        *)
(* submitter past is_busy() at a time, and on the shell's answer.           *)
Past == {"owner", "connect", "confirm", "mark", "send", "await", "publish",
         "clear", "unmark", "refresh", "rewrite"}

Linked == {"confirm", "mark", "send"}

SlotInv ==
  /\ \A c \in Clients : (pc[c] \in Past => lock = c) /\ (lock = c => pc[c] # "idle")
  /\ \A c \in Clients : pc[c] \in Linked =>
       mine[c].link \in 1..spawned /\ (live = mine[c].link => Empty)
  /\ live = 0 => Empty
  /\ live <= spawned /\ conn <= spawned
  /\ spawner \in {"cleaned", "rotated"} => live = 0
  /\ OneInv

(* A send leaves the queue as it is, or fills an empty one.                 *)
LEMMA SendQueues ==
  ASSUME TypeOK, NEW c \in Clients, Send(c), queue' # queue => Empty
  PROVE  queue' = queue \/ (Empty /\ queue' = <<sent'>>)
<1>1. CASE queue' = queue
  BY <1>1
<1>2. CASE queue' # queue
  <2>1. queue = <<>> /\ Empty
    BY <1>2 DEF Empty
  <2>2. queue' = Append(queue, sent')
    BY <1>2 DEF Send
  <2> QED
    BY <2>1, <2>2
<1> QED
  BY <1>1, <1>2

(* A client's step but its send leaves the kernel alone.                    *)
LEMMA ClientSlot ==
  ASSUME TypeOK, SlotInv, NEW c \in Clients,
         Acquire(c) \/ Probe(c) \/ ClientStep(c) \/ Crash(c)
  PROVE  SlotInv'
<1> USE DEF At, Goto
<1>1. CASE Send(c)
  <2>1. mine[c].link \in 1..spawned /\ lock = c /\ (live = mine[c].link => Empty)
    BY <1>1 DEF Send, SlotInv, Linked, Past
  <2>2. \A d \in Clients : pc'[d] \notin Linked
    BY <1>1, <2>1 DEF Send, SlotInv, Linked, Past, TypeOK, ClientType
  <2>3. \A d \in Clients :
          (pc'[d] \in Past => lock' = d) /\ (lock' = d => pc'[d] # "idle")
    BY <1>1, <2>1 DEF Send, SlotInv, Past, TypeOK, ClientType
  <2>4. live = 0 => queue' = queue
    BY <1>1, <2>1 DEF Send
  <2>5. queue' = queue \/ (Empty /\ queue' = <<sent'>>)
    BY <1>1, <2>1, SendQueues DEF Send
  <2>6. OneInv'
    <3>1. CASE queue' = queue
      BY <1>1, <3>1 DEF Send, SlotInv, OneInv
    <3>2. CASE Empty /\ queue' = <<sent'>>
      BY <1>1, <3>2 DEF Send, OneInv, Empty
    <3> QED
      BY <2>5, <3>1, <3>2
  <2>7. live' = 0 => Empty'
    BY <1>1, <2>4 DEF Send, SlotInv, Empty, kernelVars
  <2> QED
    BY <1>1, <2>2, <2>3, <2>6, <2>7 DEF Send, SlotInv, kernelVars
<1>2. CASE ~Send(c)
  <2>1. UNCHANGED <<kernelVars, queue, running>>
    BY <1>2 DEF Acquire, Probe, ClientStep, CheckCurrent, ReadMarker, Judge, Discard,
       ReadOwner, Connect, Confirm, Mark, Learn, Published, GiveUp, Refresh, Rewrite,
       Clear, Unmark, Crash, cellVars
  <2>2. \A d \in Clients \ {c} : pc'[d] = pc[d] /\ mine'[d] = mine[d]
    BY <1>2 DEF Acquire, Probe, ClientStep, CheckCurrent, ReadMarker, Judge, Discard,
       ReadOwner, Connect, Confirm, Mark, Learn, Published, GiveUp, Refresh, Rewrite,
       Clear, Unmark, Crash, NotBusy, Leave, TypeOK, ClientType
  <2>3. \A d \in Clients :
          (pc'[d] \in Past => lock' = d) /\ (lock' = d => pc'[d] # "idle")
    <3>1. CASE Leave(c)
      BY <3>1, <2>2, NobodyAssumption DEF Leave, SlotInv, Past, TypeOK, ClientType
    <3>2. CASE Acquire(c)
      <4>1. \A d \in Clients : pc[d] \notin Past
        BY <3>2, NobodyAssumption DEF Acquire, SlotInv
      <4> QED
        BY <3>2, <4>1, <2>2 DEF Acquire, Past, TypeOK, ClientType
    <3>3. CASE ~Leave(c) /\ ~Acquire(c)
      <4>1. lock' = lock
        BY <1>2, <3>3 DEF Probe, ClientStep, CheckCurrent, ReadMarker, Judge, Discard,
           ReadOwner, Connect, Confirm, Mark, Learn, Published, GiveUp, Refresh,
           Rewrite, Clear, Unmark, Crash, NotBusy
      <4>2. (pc'[c] \in Past => lock = c) /\ pc'[c] # "idle"
        BY <1>2, <3>3 DEF Probe, ClientStep, CheckCurrent, ReadMarker, Judge, Discard,
           ReadOwner, Connect, Confirm, Mark, Learn, Published, GiveUp, Refresh,
           Rewrite, Clear, Unmark, Crash, NotBusy, SlotInv, Past, TypeOK, ClientType
      <4> QED
        BY <4>1, <4>2, <2>2 DEF SlotInv
    <3> QED
      BY <3>1, <3>2, <3>3
  <2>4. pc'[c] \in Linked =>
          mine'[c].link \in 1..spawned /\ (live = mine'[c].link => Empty)
    <3>1. CASE Connect(c)
      <4>1. CASE Leave(c)
        BY <4>1 DEF Leave, Linked, TypeOK, ClientType
      <4>2. CASE ~Leave(c)
        <5>1. mine'[c].link = conn /\ conn # 0 /\ Empty
          BY <3>1, <4>2 DEF Connect, ShellAnswers, Empty, TypeOK, ClientType, Locals
        <5>2. conn \in Nat /\ spawned \in Nat /\ conn <= spawned
          BY DEF TypeOK, KernelType, SlotInv
        <5> QED
          BY <5>1, <5>2
      <4> QED
        BY <4>1, <4>2
    <3>2. CASE ~Connect(c)
      <4>1. pc'[c] \in Linked => pc[c] \in Linked /\ mine'[c].link = mine[c].link
        BY <1>2, <3>2 DEF Acquire, Probe, ClientStep, CheckCurrent, ReadMarker, Judge,
           Discard, ReadOwner, Confirm, Mark, Learn, Published, GiveUp, Refresh,
           Rewrite, Clear, Unmark, Crash, NotBusy, Leave, Linked, TypeOK, ClientType,
           Locals
      <4> QED
        BY <4>1 DEF SlotInv
    <3> QED
      BY <3>1, <3>2
  <2> QED
    BY <2>1, <2>2, <2>3, <2>4 DEF SlotInv, OneInv, Empty, kernelVars
<1> QED
  BY <1>1, <1>2

LEMMA SlotKeeps == ASSUME TypeOK, SlotInv, [Next]_vars PROVE SlotInv'
<1>1. ASSUME NEW c \in Clients, Acquire(c) \/ Probe(c) \/ ClientStep(c) \/ Crash(c)
      PROVE  SlotInv'
  BY <1>1, ClientSlot
<1>2. CASE Take
  <2>1. queue \in Seq(Nat) /\ queue # <<>> /\ Len(queue) = 1 /\ live # 0
    BY <1>2, FieldTypes DEF Take, SlotInv, OneInv
  <2>2. queue' = <<>> /\ ~Empty
    BY <1>2, <2>1, TailOfOne DEF Take, Empty
  <2> QED
    BY <1>2, <2>1, <2>2 DEF Take, SlotInv, OneInv, clientVars
<1>3. CASE Publish
  <2>1. running # Idle /\ running'.stage # "none"
    BY <1>3, FieldTypes DEF Publish, Idle
  <2>2. queue' = <<>> /\ live # 0 /\ ~Empty
    BY <1>3, <2>1 DEF Publish, SlotInv, OneInv, Empty
  <2> QED
    BY <1>3, <2>2 DEF Publish, SlotInv, OneInv, clientVars
<1>4. CASE Finish
  <2>1. running # Idle
    BY <1>4 DEF Finish, Idle
  <2>2. queue' = <<>> /\ running' = Idle
    BY <1>4, <2>1 DEF Finish, SlotInv, OneInv
  <2> QED
    BY <1>4, <2>2 DEF Finish, SlotInv, OneInv, Empty, clientVars, kernelVars
<1>5. CASE KernelDies \/ Exit \/ KillKernel \/ CleanStale \/ LaunchFails
  <2>1. queue' = <<>> /\ running' = Idle /\ live' = 0
        /\ spawned' = spawned /\ conn' \in {0, conn} /\ UNCHANGED clientVars
    BY <1>5 DEF KernelDies, Exit, KillKernel, CleanStale, LaunchFails, EndProcess
  <2> QED
    BY <2>1, FieldTypes DEF SlotInv, OneInv, Empty, clientVars
<1>6. CASE Rotate \/ MakeReady \/ SpawnerDies \/ UNCHANGED vars
  BY <1>6 DEF Rotate, MakeReady, SpawnerDies, vars, cellVars, clientVars, kernelVars,
     SlotInv, OneInv, Empty
<1>8. CASE Expire \/ Vacate \/ CloseReady \/ Balk
  BY <1>8 DEF Expire, Vacate, CloseReady, Balk, cellVars, clientVars, SlotInv, OneInv, Empty
<1>7. CASE Launch
  <2>1. Empty /\ queue' = queue /\ running' = running
    BY <1>7 DEF Launch, SlotInv
  <2>2. /\ live' = spawned + 1 /\ spawned' = spawned + 1 /\ conn' = spawned + 1
        /\ spawner' \in {"boot", "none"} /\ UNCHANGED clientVars
    BY <1>7 DEF Launch
  <2>3. OneInv' /\ Empty'
    BY <2>1 DEF SlotInv, OneInv, Empty
  <2>4. spawned \in Nat
    BY FieldTypes
  <2>5. 1..spawned \subseteq 1..spawned' /\ live' <= spawned' /\ conn' <= spawned' /\ live' # 0
    BY <2>2, <2>4
  <2>6. \A c \in Clients : pc[c] \in Linked => mine[c].link \in 1..spawned'
    BY <2>5 DEF SlotInv
  <2> QED
    BY <2>2, <2>3, <2>5, <2>6 DEF SlotInv, clientVars
<1> QED
  BY <1>1, <1>2, <1>3, <1>4, <1>5, <1>6, <1>7, <1>8 DEF Next, Kernel, Host, Watchdog

(* Which requests the kernel can hold.                                      *)
Sending == {"current", "marker", "judge", "discard", "owner", "connect",
            "confirm", "mark", "send"}

SentInv ==
  /\ sent <= MaxReq
  /\ settled \subseteq 1..sent
  /\ \A i \in DOMAIN queue : queue[i] \in 1..sent
  /\ running # Idle => running.req \in 1..sent
  /\ \A c \in Clients : pc[c] \in Sending /\ lock = c => sent < MaxReq

(* A send is the lock holder's, and finds the kernel empty or gone.         *)
LEMMA SendFinds ==
  ASSUME TypeOK, SlotInv, SentInv, NEW c \in Clients, Send(c)
  PROVE  /\ lock = c /\ sent < MaxReq /\ sent \in Nat
         /\ queue' # queue => Empty
BY FieldTypes DEF Send, At, SlotInv, SentInv, Past, Linked, Sending

LEMMA SentKeeps ==
  ASSUME TypeOK, SlotInv, SentInv, [Next]_vars
  PROVE  SentInv'
<1> USE DEF At, Goto, Sending
<1>1. ASSUME NEW c \in Clients, Acquire(c)
      PROVE  SentInv'
  <2>1. sent < MaxReq /\ UNCHANGED <<sent, settled, queue, running>>
    BY <1>1 DEF Acquire, cellVars
  <2> QED
    BY <2>1, FieldTypes DEF SentInv, Idle
<1>2. ASSUME NEW c \in Clients, Send(c)
      PROVE  SentInv'
  <2>1. lock = c /\ sent < MaxReq /\ sent \in Nat /\ (queue' # queue => Empty)
    BY <1>2, SendFinds
  <2>2. sent' = sent + 1 /\ UNCHANGED <<running, settled, lock>>
    BY <1>2 DEF Send
  <2>3. queue' = queue \/ queue' = <<sent'>>
    BY <1>2, <2>1, SendQueues
  <2>4. \A i \in DOMAIN queue' : queue'[i] \in 1..sent'
    BY <2>1, <2>2, <2>3 DEF SentInv
  <2>5. pc'[c] \notin Sending
    BY <1>2 DEF Send, TypeOK, ClientType
  <2>6. /\ settled' \subseteq 1..sent' /\ sent' <= MaxReq
        /\ running' # Idle => running'.req \in 1..sent'
    BY <2>1, <2>2, AdmissionAssumption DEF SentInv, Idle
  <2> QED
    BY <2>1, <2>2, <2>4, <2>5, <2>6 DEF SentInv
<1>10. ASSUME NEW c \in Clients, Probe(c)
       PROVE  SentInv'
  <2>1. UNCHANGED <<sent, settled, queue, running, lock>>
    BY <1>10 DEF Probe, cellVars
  <2>2. lock # c
    BY <1>10 DEF Probe, SlotInv
  <2> QED
    BY <1>10, <2>1, <2>2 DEF Probe, SentInv, TypeOK, ClientType, Idle
<1>3. ASSUME UNCHANGED <<sent, settled, queue, running>>,
             \A d \in Clients :
               pc'[d] \in Sending /\ lock' = d => pc[d] \in Sending /\ lock = d
      PROVE  SentInv'
  BY <1>3 DEF SentInv, Idle
<1>4. ASSUME NEW c \in Clients, ClientStep(c) \/ Crash(c), ~Send(c)
      PROVE  SentInv'
  <2>1. UNCHANGED <<sent, settled, queue, running>>
    BY <1>4 DEF ClientStep, CheckCurrent, ReadMarker, Judge, Discard, ReadOwner,
       Connect, Confirm, Mark, Learn, Published, GiveUp, Refresh, Rewrite, Clear,
       Unmark, Crash, cellVars
  <2>2. \A d \in Clients :
          pc'[d] \in Sending /\ lock' = d => pc[d] \in Sending /\ lock = d
    BY <1>4, NobodyAssumption DEF ClientStep, CheckCurrent, ReadMarker, Judge, Discard,
       ReadOwner, Connect, Confirm, Mark, Learn, Published, GiveUp, Refresh, Rewrite,
       Clear, Unmark, Crash, NotBusy, Leave, TypeOK, ClientType
  <2> QED
    BY <1>3, <2>1, <2>2
<1>5. CASE Take
  <2>1. queue \in Seq(Nat) /\ queue # <<>> /\ Len(queue) = 1 /\ Head(queue) = queue[1]
    BY <1>5, FieldTypes DEF Take, SlotInv, OneInv
  <2>2. Tail(queue) = <<>> /\ 1 \in DOMAIN queue
    <3>1. Tail(queue) = <<>>
      BY <2>1, TailOfOne
    <3>2. 1 \in DOMAIN queue
      BY <2>1
    <3> QED
      BY <3>1, <3>2
  <2>3. running'.req \in 1..sent /\ queue' = <<>>
    BY <1>5, <2>1, <2>2 DEF Take, SentInv
  <2> QED
    BY <1>5, <2>3 DEF Take, SentInv, clientVars
<1>6. CASE Publish
  <2>1. Idle.stage = "none" /\ running.stage = "taken"
    BY <1>6 DEF Publish, Idle
  <2>2. running'.req \in 1..sent
    BY <1>6, <2>1, FieldTypes DEF Publish, SentInv
  <2> QED
    BY <1>6, <2>2 DEF Publish, SentInv, clientVars
<1>7. CASE Finish
  <2>1. Idle.stage = "none" /\ running.stage = "published"
    BY <1>7 DEF Finish, Idle
  <2> QED
    BY <1>7, <2>1 DEF Finish, SentInv, clientVars
<1>8. CASE KernelDies \/ Exit \/ KillKernel \/ CleanStale \/ LaunchFails
  <2>1. /\ queue' = <<>> /\ running' = Idle
        /\ UNCHANGED <<sent, settled, pc, lock>>
    BY <1>8 DEF KernelDies, Exit, KillKernel, CleanStale, LaunchFails, EndProcess, clientVars
  <2>2. DOMAIN queue' = {}
    BY <2>1
  <2> QED
    BY <2>1, <2>2 DEF SentInv
<1>9. CASE Rotate \/ Launch \/ MakeReady \/ SpawnerDies \/ UNCHANGED vars
  BY <1>3, <1>9 DEF Rotate, Launch, MakeReady, SpawnerDies, vars, cellVars, clientVars
<1>11. CASE Expire \/ Vacate \/ CloseReady \/ Balk
  BY <1>3, <1>11 DEF Expire, Vacate, CloseReady, Balk, cellVars, clientVars
<1> QED
  BY <1>1, <1>2, <1>4, <1>5, <1>6, <1>7, <1>8, <1>9, <1>10, <1>11
     DEF Next, Kernel, Host, Watchdog

(* Every step fills the empty slot, empties it, or leaves it alone.        *)
LEMMA StepMaps ==
  ASSUME TypeOK, SlotInv, SentInv, [Next]_vars
  PROVE  [S!Next]_(S!svars)
<1> USE DEF At, Goto
<1>0. ASSUME UNCHANGED <<queue, running, settled>> PROVE UNCHANGED S!svars
  BY <1>0 DEF S!svars, Held, Idle
<1>1. ASSUME NEW c \in Clients, Send(c)
      PROVE  [S!Next]_(S!svars)
  <2>1. sent < MaxReq /\ sent \in Nat /\ (queue' # queue => Empty)
    BY <1>1, SendFinds
  <2>2. sent' = sent + 1 /\ UNCHANGED <<running, settled>>
    BY <1>1 DEF Send
  <2>3. CASE queue' = queue
    BY <1>0, <2>2, <2>3
  <2>4. CASE queue' # queue
    <3>1. Empty /\ queue' = <<sent'>>
      BY <1>1, <2>1, <2>4 DEF Send, Empty
    <3>2. Held = {} /\ Held' = {sent'}
      BY <2>2, <3>1 DEF Held, Empty
    <3>3. sent' \in 1..MaxReq /\ sent' \notin settled
      BY <2>1, <2>2, AdmissionAssumption DEF SentInv
    <3>4. S!Place(sent')
      BY <3>2, <3>3, <2>2 DEF S!Place
    <3> QED
      BY <3>3, <3>4 DEF S!Next, Requests
  <2> QED
    BY <2>3, <2>4
<1>2. ASSUME NEW c \in Clients, Acquire(c) \/ Probe(c) \/ ClientStep(c) \/ Crash(c),
             ~Send(c)
      PROVE  UNCHANGED S!svars
  BY <1>0, <1>2 DEF Acquire, Probe, ClientStep, CheckCurrent, ReadMarker, Judge, Discard,
     ReadOwner, Connect, Confirm, Mark, Learn, Published, GiveUp, Refresh, Rewrite,
     Clear, Unmark, Crash, cellVars
<1>3. CASE Take
  <2>1. queue \in Seq(Nat) /\ queue # <<>> /\ Len(queue) = 1 /\ Head(queue) = queue[1]
        /\ running = Idle
    BY <1>3, FieldTypes DEF Take, SlotInv, OneInv
  <2>2. Tail(queue) = <<>> /\ DOMAIN queue = {1}
    <3>1. Tail(queue) = <<>>
      BY <2>1, TailOfOne
    <3>2. DOMAIN queue = 1..1
      BY <2>1
    <3> QED
      BY <3>1, <3>2
  <2>3. running'.req = queue[1] /\ running' # Idle /\ queue' = <<>> /\ settled' = settled
    <3>1. Idle.stage = "none" /\ running'.stage = "taken"
      BY <1>3 DEF Take, Idle
    <3> QED
      BY <1>3, <2>1, <2>2, <3>1 DEF Take
  <2>4. Held = {queue[1]} /\ Held' = {queue[1]}
    BY <2>1, <2>2, <2>3 DEF Held
  <2> QED
    BY <2>3, <2>4 DEF S!svars
<1>4. CASE Publish
  <2>1. Idle.stage = "none" /\ running.stage = "taken" /\ running'.stage = "published"
        /\ running'.req = running.req
    BY <1>4, FieldTypes DEF Publish, Idle
  <2>2. queue' = queue /\ settled' = settled /\ Held' = Held
    BY <1>4, <2>1 DEF Publish, Held
  <2> QED
    BY <2>2 DEF S!svars
<1>5. CASE Finish
  <2>1. Idle.stage = "none" /\ running.stage = "published"
    BY <1>5 DEF Finish, Idle
  <2>2. queue = <<>> /\ running # Idle
    BY <2>1 DEF SlotInv, OneInv
  <2>3. Held = {running.req} /\ Held' = {} /\ running.req \in 1..MaxReq
    BY <1>5, <2>2, FieldTypes, AdmissionAssumption DEF Finish, Held, SentInv
  <2>4. S!Settle(running.req)
    BY <1>5, <2>3 DEF S!Settle, Finish
  <2> QED
    BY <2>3, <2>4 DEF S!Next, Requests
<1>6. CASE KernelDies \/ Exit \/ KillKernel \/ CleanStale \/ LaunchFails
  <2>1. Held' = {} /\ settled' = settled
    BY <1>6 DEF KernelDies, Exit, KillKernel, CleanStale, LaunchFails, EndProcess, Held
  <2> QED
    BY <2>1 DEF S!Next, S!EpochEnds
<1>7. CASE Rotate \/ Launch \/ MakeReady \/ SpawnerDies \/ UNCHANGED vars
  BY <1>0, <1>7 DEF Rotate, Launch, MakeReady, SpawnerDies, vars, cellVars
<1>8. CASE Expire \/ Vacate \/ CloseReady \/ Balk
  BY <1>0, <1>8 DEF Expire, Vacate, CloseReady, Balk, cellVars
<1> QED
  BY <1>1, <1>2, <1>3, <1>4, <1>5, <1>6, <1>7, <1>8 DEF Next, Kernel, Host, Watchdog

(* F2: a request is never placed behind another (exec_cell): admission      *)
(* implements the one-slot kernel, probers and slow starts included.        *)
THEOREM OneSlot == Spec => SlotSpec
<1>1. Init => SlotInv /\ SentInv /\ S!Init
  BY AdmissionAssumption, NobodyAssumption DEF Init, SlotInv, SentInv, S!Init, Held, Idle, Sending,
     OneInv, Past, Linked, Empty
<1>2. TypeOK /\ SlotInv /\ SentInv /\ [Next]_vars =>
        SlotInv' /\ SentInv' /\ [S!Next]_(S!svars)
  BY SlotKeeps, SentKeeps, StepMaps
<1> QED
  BY <1>1, <1>2, TypeCorrect, PTL DEF Spec, SlotSpec, S!Spec
-----------------------------------------------------------------------------
(* Cell numbers: a running kernel counts from above every log there is.    *)
CountInv ==
  /\ live = 0 => running = Idle
  /\ spawner \in {"cleaned", "rotated"} => live = 0
  /\ live # 0 => lastLog <= count
  /\ running.stage = "taken" => running.cell = count /\ lastLog < count

LEMMA CountKeeps ==
  ASSUME TypeOK, CountInv, [Next]_vars
  PROVE  CountInv' /\ (current' \in {0, current} \/ current' > lastLog)
<1> USE DEF CountInv
<1>1. ASSUME NEW c \in Clients, Acquire(c) \/ Probe(c) \/ ClientStep(c) \/ Crash(c)
      PROVE  /\ UNCHANGED <<live, spawner, lastLog, count, running, current>>
  BY <1>1 DEF Acquire, Probe, ClientStep, CheckCurrent, ReadMarker, Judge, Discard,
     ReadOwner, Connect, Confirm, Mark, Send, Learn, Published, GiveUp, Refresh,
     Rewrite, Clear, Unmark, Crash, kernelVars, cellVars
<1>2. CASE UNCHANGED <<live, spawner, lastLog, count, running, current>>
  BY <1>2
<1>3. CASE Take
  <2>1. live # 0 /\ running'.stage = "taken" /\ running'.cell = count'
    BY <1>3 DEF Take
  <2>2. count' = count + 1 /\ lastLog < count + 1
    BY <1>3, FieldTypes DEF Take
  <2>3. lastLog <= count + 1
    BY <2>2, FieldTypes
  <2> QED
    BY <1>3, <2>1, <2>2, <2>3 DEF Take
<1>4. CASE Publish
  <2>1. Idle.stage = "none" /\ running.stage = "taken"
    BY <1>4 DEF Publish, Idle
  <2>2. running'.stage = "published" /\ live # 0 /\ running.cell = count /\ lastLog < count
    BY <1>4, <2>1, FieldTypes DEF Publish
  <2> QED
    BY <1>4, <2>2, FieldTypes DEF Publish
<1>5. CASE Finish
  <2>1. running'.stage = "none"
    BY <1>5 DEF Finish, Idle
  <2> QED
    BY <1>5, <2>1 DEF Finish, kernelVars
<1>6. CASE KernelDies \/ Exit \/ KillKernel \/ CleanStale \/ LaunchFails
  <2>1. live' = 0 /\ running' = Idle /\ running'.stage = "none" /\ current' = current
    BY <1>6 DEF KernelDies, Exit, KillKernel, CleanStale, LaunchFails, EndProcess, Idle
  <2> QED
    BY <2>1
<1>7. CASE Rotate \/ SpawnerDies \/ MakeReady
  BY <1>7 DEF Rotate, SpawnerDies, MakeReady, cellVars
<1>9. CASE Expire \/ Vacate \/ CloseReady \/ Balk
  BY <1>9 DEF Expire, Vacate, CloseReady, Balk, cellVars
<1>8. CASE Launch
  <2>1. live = 0 /\ running.stage = "none"
    BY <1>8 DEF Launch, Idle
  <2> QED
    BY <1>8, <2>1, FieldTypes DEF Launch
<1> QED
  BY <1>1, <1>2, <1>3, <1>4, <1>5, <1>6, <1>7, <1>8, <1>9
     DEF Next, Kernel, Host, Watchdog, vars, kernelVars, cellVars

(* F3: no cell number is published twice under the key, with or without    *)
(* probers and slow starts (install).                                      *)
THEOREM Numbering == Spec => IdsNeverReused
<1>1. Init => CountInv
  BY DEF Init, CountInv, Idle
<1>2. TypeOK /\ CountInv /\ [Next]_vars =>
        CountInv' /\ [current' \notin {0, current} => current' > lastLog]_vars
  BY CountKeeps
<1> QED
  BY <1>1, <1>2, TypeCorrect, PTL DEF Spec, IdsNeverReused
-----------------------------------------------------------------------------
(* The marker: a connection confirmed by two looks at owner.json reaches    *)
(* the kernel that both named, since no number owns the key twice.          *)
Bound == {"mark", "send", "await", "publish", "clear", "unmark", "refresh", "rewrite"}

BoundInv(c) ==
  /\ pc[c] \in {"connect", "confirm"} \cup Bound => mine[c].bound \in 1..spawned
  /\ pc[c] = "confirm" => mine[c].link = mine[c].bound \/ owner # mine[c].bound
  /\ pc[c] \in Bound => mine[c].link = mine[c].bound

LinkInv ==
  /\ live # 0 => owner \in {0, live}
  /\ owner <= spawned
  /\ pending # NoMarker => pending.link = pending.inc
  /\ \A c \in Clients : BoundInv(c)

(* A client's step moves that client alone, and but for a send leaves the   *)
(* kernel as it is.                                                         *)
LEMMA StepsAside ==
  ASSUME TypeOK, NEW c \in Clients,
         Acquire(c) \/ Probe(c) \/ ClientStep(c) \/ Crash(c)
  PROVE  /\ UNCHANGED <<kernelVars, running, current, ranAs>>
         /\ ~Send(c) => queue' = queue
         /\ \A d \in Clients \ {c} : pc'[d] = pc[d] /\ mine'[d] = mine[d]
<1> USE DEF Goto
<1>1. UNCHANGED <<kernelVars, running, current, ranAs>> /\ (~Send(c) => queue' = queue)
  BY DEF Acquire, Probe, ClientStep, CheckCurrent, ReadMarker, Judge, Discard,
     ReadOwner, Connect, Confirm, Mark, Send, Learn, Published, GiveUp, Refresh,
     Rewrite, Clear, Unmark, Crash, cellVars
<1>2. \A d \in Clients \ {c} : pc'[d] = pc[d] /\ mine'[d] = mine[d]
  BY DEF Acquire, Probe, ClientStep, CheckCurrent, ReadMarker, Judge, Discard,
     ReadOwner, Connect, Confirm, Mark, Send, Learn, Published, GiveUp, Refresh,
     Rewrite, Clear, Unmark, Crash, NotBusy, Leave, TypeOK, ClientType
<1> QED
  BY <1>1, <1>2

LEMMA LinkClient ==
  ASSUME TypeOK, LinkInv, NEW c \in Clients,
         Acquire(c) \/ Probe(c) \/ ClientStep(c) \/ Crash(c)
  PROVE  LinkInv'
<1> USE DEF At, Goto
<1>1. UNCHANGED <<owner, live, conn, spawned>>
  BY StepsAside DEF kernelVars
<1>2. ASSUME NEW d \in Clients \ {c} PROVE BoundInv(d)'
  BY <1>1, StepsAside DEF LinkInv, BoundInv
<1>3. /\ mine[c].bound \in Nat /\ mine[c].link \in Nat /\ owner \in Nat /\ spawned \in Nat
      /\ BoundInv(c)
  BY FieldTypes DEF LinkInv
<1>4. BoundInv(c)'
  <2>1. CASE Leave(c)
    <3>1. pc'[c] = "idle"
      BY <2>1 DEF Leave, TypeOK, ClientType
    <3> QED
      BY <3>1 DEF BoundInv, Bound
  <2>2. CASE ReadOwner(c) /\ ~Leave(c)
    <3>1. pc'[c] = "connect" /\ mine'[c].bound = owner /\ owner # 0
      BY <2>2 DEF ReadOwner, TypeOK, ClientType, Locals
    <3>2. owner \in 1..spawned
      BY <1>3, <3>1 DEF LinkInv
    <3> QED
      BY <1>1, <3>1, <3>2 DEF BoundInv, Bound
  <2>3. CASE Connect(c) /\ ~Leave(c)
    <3>1. /\ pc[c] = "connect" /\ pc'[c] = "confirm" /\ mine'[c].bound = mine[c].bound
          /\ mine'[c].link = conn /\ conn # 0 /\ conn = live
      BY <2>3 DEF Connect, ShellAnswers, TypeOK, ClientType, Locals
    <3>2. owner \in {0, conn} /\ mine[c].bound # 0
      BY <1>3, <3>1 DEF LinkInv, BoundInv
    <3> QED
      BY <1>1, <1>3, <3>1, <3>2 DEF BoundInv, Bound
  <2>4. CASE Confirm(c) /\ ~Leave(c)
    <3>1. /\ pc[c] = "confirm" /\ mine'[c].bound = mine[c].bound
          /\ mine'[c].link = mine[c].link
          /\ pc'[c] = "owner" \/ (pc'[c] = "mark" /\ owner = mine[c].bound)
      BY <2>4 DEF Confirm, TypeOK, ClientType, Locals
    <3> QED
      BY <1>1, <1>3, <3>1 DEF BoundInv, Bound
  <2>5. CASE /\ ~Leave(c)
             /\ \/ Mark(c) \/ Send(c) \/ Learn(c) \/ Published(c) \/ GiveUp(c)
                \/ Refresh(c) \/ Rewrite(c) \/ Clear(c) \/ Unmark(c)
    <3>1. pc[c] \in Bound /\ pc'[c] \in Bound
      BY <2>5 DEF Mark, Send, Learn, Published, GiveUp, Refresh, Rewrite, Clear, Unmark,
         Bound, TypeOK, ClientType
    <3>2. mine'[c].bound = mine[c].bound /\ mine'[c].link = mine[c].link
      BY <2>5 DEF Mark, Send, Learn, Published, GiveUp, Refresh, Rewrite, Clear, Unmark,
         TypeOK, ClientType, Locals
    <3> QED
      BY <1>1, <1>3, <3>1, <3>2 DEF BoundInv, Bound
  <2>6. CASE /\ ~Leave(c)
             /\ \/ Acquire(c) \/ Probe(c) \/ CheckCurrent(c) \/ ReadMarker(c) \/ Judge(c)
                \/ Discard(c) \/ Crash(c)
    <3>1. pc'[c] \in {"current", "marker", "judge", "discard", "owner"}
      BY <2>6 DEF Acquire, Probe, CheckCurrent, ReadMarker, Judge, Discard, Crash, NotBusy,
         TypeOK, ClientType
    <3> QED
      BY <3>1 DEF BoundInv, Bound
  <2> QED
    BY <2>1, <2>2, <2>3, <2>4, <2>5, <2>6 DEF ClientStep
<1>5. pending' # NoMarker => pending'.link = pending'.inc
  <2>1. CASE Mark(c)
    BY <1>3, <2>1 DEF Mark, BoundInv, Bound
  <2>2. CASE Rewrite(c)
    BY <1>3, <2>2 DEF Rewrite, BoundInv, Bound
  <2>3. CASE ~Mark(c) /\ ~Rewrite(c)
    <3>1. pending' = pending \/ pending' = NoMarker
      BY <2>3 DEF Acquire, Probe, ClientStep, CheckCurrent, ReadMarker, Judge, Discard,
         ReadOwner, Connect, Confirm, Send, Learn, Published, GiveUp, Refresh, Clear,
         Unmark, Crash
    <3> QED
      BY <3>1 DEF LinkInv
  <2> QED
    BY <2>1, <2>2, <2>3
<1> QED
  BY <1>1, <1>2, <1>4, <1>5 DEF LinkInv

(* The key's owner goes, stays, or is a kernel there never was.             *)
LEMMA LinkHost ==
  ASSUME TypeOK, LinkInv, UNCHANGED <<pc, mine>>, pending' \in {pending, NoMarker},
         \/ UNCHANGED <<owner, spawned>> /\ live' \in {live, 0}
         \/ spawned' = spawned /\ owner' = 0 /\ live' \in {live, 0}
         \/ spawned' = spawned + 1 /\ owner' = spawned' /\ live' = spawned'
  PROVE  LinkInv'
<1>1. /\ owner \in Nat /\ spawned \in Nat /\ spawned' \in Nat /\ spawned <= spawned'
      /\ owner' = owner \/ owner' = 0 \/ owner' > spawned
  BY FieldTypes
<1>2. ASSUME NEW c \in Clients PROVE BoundInv(c)'
  <2>1. mine[c].bound \in Nat /\ mine[c].link \in Nat /\ BoundInv(c)
    BY FieldTypes DEF LinkInv
  <2>2. mine[c].bound \in 1..spawned =>
          /\ mine[c].bound \in 1..spawned'
          /\ owner # mine[c].bound => owner' # mine[c].bound
    BY <1>1, <2>1
  <2> QED
    BY <2>1, <2>2 DEF BoundInv
<1>3. (live' # 0 => owner' \in {0, live'}) /\ owner' <= spawned'
  BY <1>1 DEF LinkInv
<1>4. pending' # NoMarker => pending'.link = pending'.inc
  BY DEF LinkInv
<1> QED
  BY <1>2, <1>3, <1>4 DEF LinkInv

LEMMA LinkKeeps == ASSUME TypeOK, LinkInv, [Next]_vars PROVE LinkInv'
<1>1. ASSUME NEW c \in Clients, Acquire(c) \/ Probe(c) \/ ClientStep(c) \/ Crash(c)
      PROVE  LinkInv'
  BY <1>1, LinkClient
<1>2. CASE Take \/ Publish \/ Finish \/ MakeReady \/ SpawnerDies \/ Rotate \/ KernelDies
  BY <1>2, LinkHost DEF Take, Publish, Finish, MakeReady, SpawnerDies, Rotate, KernelDies,
     EndProcess, kernelVars, clientVars
<1>6. CASE Watchdog
  BY <1>6, LinkHost DEF Watchdog, Expire, Vacate, CloseReady, Exit, Balk, EndProcess, clientVars
<1>3. CASE KillKernel \/ CleanStale \/ LaunchFails
  BY <1>3, LinkHost DEF KillKernel, CleanStale, LaunchFails, EndProcess, clientVars
<1>4. CASE Launch
  BY <1>4, LinkHost DEF Launch, clientVars
<1>5. CASE UNCHANGED vars
  BY <1>5, LinkHost DEF vars, kernelVars, clientVars
<1> QED
  BY <1>1, <1>2, <1>3, <1>4, <1>5, <1>6 DEF Next, Kernel, Host

(* A marker blocks a key only while the kernel it was sent to owns it, so a *)
(* replacement is not held busy by a request that never reached it.         *)
THEOREM MarkerIsCurrent == Spec => []BlockingMarkerIsCurrent
<1>1. Init => LinkInv
  BY DEF Init, LinkInv, BoundInv, Bound
<1>2. TypeOK /\ LinkInv /\ [Next]_vars => LinkInv'
  BY LinkKeeps
<1>3. LinkInv => BlockingMarkerIsCurrent
  BY DEF LinkInv, BlockingMarkerIsCurrent, Discharged
<1> QED
  BY <1>1, <1>2, <1>3, TypeCorrect, PTL DEF Spec
-----------------------------------------------------------------------------
(* The answer: whoever holds the submit lock was let through by an empty    *)
(* kernel, so whatever any kernel has, runs or publishes from then on is    *)
(* that client's request.                                                   *)
Own(c) == /\ \A i \in DOMAIN queue : queue[i] = mine[c].req
          /\ running # Idle => running.req = mine[c].req

RanAs(n, req) == n \in DOMAIN ranAs /\ ranAs[n] = req

AnswerInv(c) ==
  /\ pc[c] \in Linked => Empty
  /\ pc[c] = "send" => current <= mine[c].base
  /\ pc[c] \in {"await", "publish"} => Own(c)
  /\ pc[c] = "await" /\ current > mine[c].base => RanAs(current, mine[c].req)
  /\ pc[c] = "publish" =>
       /\ mine[c].cell # 0
       /\ mine[c].cell \in DOMAIN ranAs => RanAs(mine[c].cell, mine[c].req)
  /\ pc[c] \in {"clear", "unmark"} => RanAs(mine[c].cell, mine[c].req)

(* What was published stays known, and nothing takes its number again.      *)
CellsInv ==
  /\ DOMAIN ranAs \subseteq 1..lastLog
  /\ current # 0 => current \in DOMAIN ranAs
  /\ running.stage = "none" => running = Idle
  /\ running.stage = "published" => RanAs(running.cell, running.req)

WitnessInv == CellsInv /\ \A c \in Clients : AnswerInv(c)

(* Who may answer a claim of AnswerInv is past the empty kernel.            *)
LEMMA OnlyHolder ==
  ASSUME TypeOK, SlotInv, NEW c \in Clients, pc[c] \in Past,
         NEW d \in Clients \ {c}
  PROVE  pc[d] \notin Past
BY DEF SlotInv

LEMMA WitnessClient ==
  ASSUME TypeOK, SlotInv, CountInv, WitnessInv, NEW c \in Clients,
         Acquire(c) \/ Probe(c) \/ ClientStep(c) \/ Crash(c)
  PROVE  WitnessInv'
<1> USE DEF At, Goto
<1>1. UNCHANGED <<lastLog, running, current, ranAs>> /\ (~Send(c) => queue' = queue)
  BY StepsAside DEF kernelVars
<1>2. CellsInv'
  BY <1>1 DEF WitnessInv, CellsInv, RanAs
<1>3. ASSUME NEW d \in Clients \ {c} PROVE AnswerInv(d)'
  <2>1. pc'[d] = pc[d] /\ mine'[d] = mine[d]
    BY StepsAside
  <2>2. CASE Send(c)
    <3>1. pc[d] \notin Past
      BY <2>2, OnlyHolder DEF Send, Past
    <3> QED
      BY <2>1, <3>1 DEF AnswerInv, Past, Linked
  <2>3. CASE ~Send(c)
    BY <1>1, <2>1, <2>3 DEF WitnessInv, AnswerInv, Own, RanAs, Empty
  <2> QED
    BY <2>2, <2>3
<1>4. AnswerInv(c) /\ CellsInv
  BY DEF WitnessInv
<1>5. /\ current \in Nat /\ lastLog \in Nat /\ running.cell \in Nat
      /\ mine[c].base \in Nat
  BY FieldTypes DEF TypeOK, KernelType, CellType
<1>6. AnswerInv(c)'
  <2>1. CASE Leave(c)
    <3>1. pc'[c] = "idle"
      BY <2>1 DEF Leave, TypeOK, ClientType
    <3> QED
      BY <3>1 DEF AnswerInv, Linked
  <2>2. CASE Connect(c) /\ ~Leave(c)
    <3>1. Empty /\ pc'[c] = "confirm"
      BY <2>2 DEF Connect, ShellAnswers, Empty, TypeOK, ClientType
    <3>2. Empty'
      BY <1>1, <2>2, <3>1 DEF Connect, Send, Empty
    <3> QED
      BY <3>1, <3>2 DEF AnswerInv, Linked
  <2>3. CASE Confirm(c) /\ ~Leave(c)
    <3>1. Empty' /\ pc'[c] \in {"owner", "mark"}
      BY <1>1, <1>4, <2>3 DEF Confirm, Send, AnswerInv, Linked, Empty, TypeOK, ClientType
    <3> QED
      BY <3>1 DEF AnswerInv, Linked
  <2>4. CASE Mark(c)
    <3>1. Empty' /\ pc'[c] = "send" /\ mine'[c].base = current
      BY <1>1, <1>4, <2>4
      DEF Mark, Send, AnswerInv, Linked, Empty, TypeOK, ClientType, Locals
    <3> QED
      BY <1>1, <1>5, <3>1 DEF AnswerInv, Linked
  <2>5. CASE Send(c)
    <3>1. Empty /\ current <= mine[c].base
      BY <1>4, <2>5 DEF Send, AnswerInv, Linked
    <3>2. /\ pc'[c] = "await" /\ mine'[c].base = mine[c].base
          /\ mine'[c].req = sent'
      BY <2>5 DEF Send, TypeOK, ClientType, Locals
    <3>3. running' = Idle /\ (queue' = <<>> \/ queue' = <<sent'>>)
      BY <1>1, <2>5, <3>1, SendQueues DEF Empty
    <3>4. Own(c)'
      BY <3>2, <3>3 DEF Own
    <3> QED
      BY <1>1, <1>5, <3>1, <3>2, <3>4 DEF AnswerInv, Linked
  <2>6. CASE Learn(c)
    <3>1. PICK n \in {current, running.cell} \ {0} :
            /\ \/ n = current /\ current > mine[c].base
               \/ n = running.cell /\ running.req = mine[c].req
            /\ mine' = [mine EXCEPT ![c].cell = n]
      BY <2>6 DEF Learn
    <3>2. /\ pc[c] = "await" /\ pc'[c] = "publish" /\ mine'[c].cell = n
          /\ mine'[c].req = mine[c].req /\ queue' = queue
      BY <1>1, <2>6, <3>1 DEF Learn, Send, TypeOK, ClientType, Locals
    <3>3. n \in DOMAIN ranAs => RanAs(n, mine[c].req)
      <4>1. CASE n = current /\ current > mine[c].base
        BY <1>4, <3>2, <4>1 DEF AnswerInv
      <4>2. CASE n = running.cell /\ running.req = mine[c].req
        <5>1. CASE running.stage = "published"
          BY <1>4, <4>2, <5>1 DEF CellsInv
        <5>2. CASE running.stage = "taken"
          <6>1. lastLog < n
            BY <4>2, <5>2 DEF CountInv
          <6> QED
            BY <1>4, <1>5, <4>2, <6>1 DEF CellsInv
        <5>3. running.stage # "none"
          BY <1>4, <3>1, <4>2 DEF CellsInv, Idle
        <5> QED
          BY <5>1, <5>2, <5>3 DEF TypeOK, CellType
      <4> QED
        BY <3>1, <4>1, <4>2
    <3>4. Own(c)'
      BY <1>1, <1>4, <3>2 DEF AnswerInv, Own
    <3> QED
      BY <1>1, <3>1, <3>2, <3>3, <3>4 DEF AnswerInv, Linked, RanAs
  <2>7. CASE Published(c)
    <3>1. /\ pc[c] = "publish" /\ pc'[c] = "clear" /\ mine' = mine
          /\ current = mine[c].cell
      BY <2>7 DEF Published, TypeOK, ClientType
    <3>2. RanAs(mine[c].cell, mine[c].req)
      BY <1>4, <3>1 DEF AnswerInv, CellsInv
    <3> QED
      BY <1>1, <3>1, <3>2 DEF AnswerInv, Linked, RanAs
  <2>8. CASE Clear(c) /\ ~Leave(c)
    <3>1. pc[c] = "clear" /\ pc'[c] = "unmark" /\ mine' = mine
      BY <2>8 DEF Clear, TypeOK, ClientType
    <3> QED
      BY <1>1, <1>4, <3>1 DEF AnswerInv, Linked, RanAs
  <2>9. CASE /\ ~Leave(c)
             /\ \/ Acquire(c) \/ Probe(c) \/ CheckCurrent(c) \/ ReadMarker(c) \/ Judge(c)
                \/ Discard(c) \/ ReadOwner(c) \/ GiveUp(c) \/ Refresh(c) \/ Rewrite(c)
                \/ Unmark(c) \/ Crash(c)
    <3>1. pc'[c] \in {"current", "marker", "judge", "discard", "owner", "connect",
                      "refresh", "rewrite"}
      BY <2>9 DEF Acquire, Probe, CheckCurrent, ReadMarker, Judge, Discard, ReadOwner,
         GiveUp, Refresh, Rewrite, Unmark, Crash, NotBusy, TypeOK, ClientType
    <3> QED
      BY <3>1 DEF AnswerInv, Linked
  <2> QED
    BY <2>1, <2>2, <2>3, <2>4, <2>5, <2>6, <2>7, <2>8, <2>9 DEF ClientStep
<1> QED
  BY <1>2, <1>3, <1>6 DEF WitnessInv

(* What ends or is forgotten takes no claim away.                           *)
LEMMA WitnessShrinks ==
  ASSUME TypeOK, WitnessInv, UNCHANGED <<pc, mine, ranAs, lastLog>>,
         current' \in {0, current},
         queue' \in {<<>>, queue}, running' \in {Idle, running}
  PROVE  WitnessInv'
<1>1. CellsInv'
  BY DEF WitnessInv, CellsInv, RanAs, Idle
<1>2. ASSUME NEW c \in Clients PROVE AnswerInv(c)'
  <2>1. AnswerInv(c) /\ current \in Nat /\ mine[c].base \in Nat
    BY FieldTypes DEF WitnessInv, TypeOK, CellType
  <2>2. Empty => Empty'
    BY DEF Empty
  <2>3. Own(c) => Own(c)'
    BY DEF Own
  <2>4. /\ current <= mine[c].base => current' <= mine[c].base
        /\ current' > mine[c].base => current' = current
    BY <2>1
  <2> QED
    BY <2>1, <2>2, <2>3, <2>4 DEF AnswerInv, RanAs
<1> QED
  BY <1>1, <1>2 DEF WitnessInv

LEMMA WitnessTake ==
  ASSUME TypeOK, SlotInv, WitnessInv, Take
  PROVE  WitnessInv'
<1>1. /\ queue \in Seq(Nat) /\ queue # <<>> /\ Len(queue) = 1
  BY FieldTypes DEF Take, SlotInv, OneInv
<1>2. queue' = <<>> /\ 1 \in DOMAIN queue /\ running'.req = queue[1]
  BY <1>1, TailOfOne DEF Take
<1>3. CellsInv'
  BY DEF Take, WitnessInv, CellsInv, RanAs
<1>4. ASSUME NEW c \in Clients PROVE AnswerInv(c)'
  <2>1. AnswerInv(c) /\ UNCHANGED <<pc, mine, current, ranAs>> /\ ~Empty
    BY <1>1 DEF Take, WitnessInv, clientVars, Empty
  <2>2. Own(c) => Own(c)'
    BY <1>2, <2>1 DEF Own
  <2> QED
    BY <2>1, <2>2 DEF AnswerInv, RanAs
<1> QED
  BY <1>3, <1>4 DEF WitnessInv

LEMMA WitnessPublish ==
  ASSUME TypeOK, CountInv, WitnessInv, Publish
  PROVE  WitnessInv'
<1>1. /\ lastLog \in Nat /\ running.cell \in Nat /\ lastLog < running.cell
      /\ lastLog' = running.cell
  BY FieldTypes DEF Publish, CountInv, TypeOK, KernelType, CellType
<1>2. running.cell \notin DOMAIN ranAs
  BY <1>1 DEF WitnessInv, CellsInv
<1>3. /\ DOMAIN ranAs' = DOMAIN ranAs \cup {running.cell}
      /\ ranAs'[running.cell] = running.req
      /\ \A n \in DOMAIN ranAs : ranAs'[n] = ranAs[n]
  BY <1>2 DEF Publish
<1>4. CellsInv'
  <2>1. DOMAIN ranAs' \subseteq 1..lastLog'
    BY <1>1, <1>3 DEF WitnessInv, CellsInv
  <2>2. current' \in DOMAIN ranAs'
    BY <1>3 DEF Publish
  <2>3. /\ running'.stage = "published" /\ running'.cell = running.cell
        /\ running'.req = running.req
    BY DEF Publish, TypeOK, CellType
  <2> QED
    BY <1>3, <2>1, <2>2, <2>3 DEF CellsInv, RanAs
<1>5. ASSUME NEW c \in Clients PROVE AnswerInv(c)'
  <2>1. /\ AnswerInv(c) /\ UNCHANGED <<pc, mine, queue>> /\ ~Empty
        /\ current' = running.cell /\ running # Idle
    BY DEF Publish, WitnessInv, clientVars, Empty, Idle
  <2>2. Own(c) => Own(c)' /\ running.req = mine[c].req
    BY <2>1 DEF Publish, Own, TypeOK, CellType
  <2>3. \A n, r : RanAs(n, r) => RanAs(n, r)'
    BY <1>3 DEF RanAs
  <2>4. pc[c] \notin Linked
    BY <2>1 DEF AnswerInv
  <2>5. /\ pc[c] \in {"await", "publish"} => ranAs'[running.cell] = mine[c].req
        /\ current' \in DOMAIN ranAs' /\ current' = running.cell
    BY <1>3, <2>1, <2>2 DEF AnswerInv
  <2>6. pc[c] = "publish" /\ mine[c].cell \in DOMAIN ranAs' =>
          RanAs(mine[c].cell, mine[c].req)'
    BY <1>3, <2>1, <2>3, <2>5 DEF AnswerInv, RanAs
  <2>7. pc[c] \in {"clear", "unmark"} => RanAs(mine[c].cell, mine[c].req)'
    BY <2>1, <2>3 DEF AnswerInv, RanAs
  <2> QED
    BY <2>1, <2>2, <2>4, <2>5, <2>6, <2>7 DEF AnswerInv, RanAs, Linked
<1> QED
  BY <1>4, <1>5 DEF WitnessInv

LEMMA WitnessKeeps ==
  ASSUME TypeOK, SlotInv, CountInv, WitnessInv, [Next]_vars
  PROVE  WitnessInv'
<1>1. ASSUME NEW c \in Clients, Acquire(c) \/ Probe(c) \/ ClientStep(c) \/ Crash(c)
      PROVE  WitnessInv'
  BY <1>1, WitnessClient
<1>2. CASE Take \/ Publish
  BY <1>2, WitnessTake, WitnessPublish
<1>3. CASE Finish \/ KernelDies
  BY <1>3, WitnessShrinks DEF Finish, KernelDies, EndProcess, kernelVars, clientVars
<1>4. CASE KillKernel \/ CleanStale \/ LaunchFails
  BY <1>4, WitnessShrinks DEF KillKernel, CleanStale, LaunchFails, EndProcess, clientVars
<1>7. CASE Watchdog
  BY <1>7, WitnessShrinks DEF Watchdog, Expire, Vacate, CloseReady, Exit, Balk, EndProcess,
     cellVars, clientVars
<1>5. CASE Rotate \/ Launch \/ MakeReady \/ SpawnerDies
  BY <1>5, WitnessShrinks DEF Rotate, Launch, MakeReady, SpawnerDies, cellVars, clientVars
<1>6. CASE UNCHANGED vars
  BY <1>6, WitnessShrinks DEF vars, kernelVars, cellVars, clientVars
<1> QED
  BY <1>1, <1>2, <1>3, <1>4, <1>5, <1>6, <1>7 DEF Next, Kernel, Host

(* The number exec_cell goes on to follow is the one its own request ran    *)
(* as: the lock keeps every other request away from the kernel it found     *)
(* empty, and no cell takes a number that was published before.             *)
THEOREM AnswersAreOwn == Spec => []AnswerIsOwn
<1>1. Init => SlotInv /\ CountInv /\ WitnessInv
  BY AdmissionAssumption, NobodyAssumption DEF Init, SlotInv, CountInv, WitnessInv, CellsInv,
     AnswerInv, Past, Linked, OneInv, Empty, Idle
<1>2. TypeOK /\ SlotInv /\ CountInv /\ WitnessInv /\ [Next]_vars
        => (SlotInv /\ CountInv /\ WitnessInv)'
  BY SlotKeeps, CountKeeps, WitnessKeeps
<1>3. WitnessInv => AnswerIsOwn
  BY DEF WitnessInv, AnswerInv, RanAs, AnswerIsOwn
<1> QED
  BY <1>1, <1>2, <1>3, TypeCorrect, PTL DEF Spec
-----------------------------------------------------------------------------
(* The promise to waiters and interrupters: what was shown before has its   *)
(* record when the kernel is asked for more.                                *)
RestInv == live # 0 /\ running.stage # "published" => current \in records \cup {0}

LEMMA RestKeeps == ASSUME TypeOK, IInv, RestInv, [Next]_vars PROVE RestInv'
<1>1. ASSUME NEW c \in Clients, Acquire(c) \/ Probe(c) \/ ClientStep(c) \/ Crash(c)
      PROVE  RestInv'
  <2>1. UNCHANGED <<live, running, current, records>>
    BY <1>1 DEF Acquire, Probe, ClientStep, CheckCurrent, ReadMarker, Judge, Discard,
       ReadOwner, Connect, Confirm, Mark, Send, Learn, Published, GiveUp, Refresh,
       Rewrite, Clear, Unmark, Crash, kernelVars, cellVars
  <2> QED
    BY <2>1 DEF RestInv
<1>2. CASE Take
  BY <1>2 DEF Take, RestInv, Idle
<1>3. CASE Publish
  BY <1>3, FieldTypes DEF Publish, RestInv
<1>4. CASE Finish
  <2>1. running # Idle /\ current = running.cell
    BY <1>4 DEF Finish, Idle, IInv, NumberInv
  <2> QED
    BY <1>4, <2>1 DEF Finish, RestInv
<1>5. CASE KernelDies \/ Exit \/ KillKernel \/ CleanStale \/ LaunchFails
  BY <1>5 DEF KernelDies, Exit, KillKernel, CleanStale, LaunchFails, EndProcess, RestInv
<1>6. CASE Rotate \/ Launch
  BY <1>6 DEF Rotate, Launch, RestInv, IInv, OwnerInv
<1>7. CASE MakeReady \/ SpawnerDies \/ UNCHANGED vars
  BY <1>7 DEF MakeReady, SpawnerDies, vars, kernelVars, cellVars, RestInv
<1>8. CASE Expire \/ Vacate \/ CloseReady \/ Balk
  BY <1>8 DEF Expire, Vacate, CloseReady, Balk, cellVars, RestInv
<1> QED
  BY <1>1, <1>2, <1>3, <1>4, <1>5, <1>6, <1>7, <1>8 DEF Next, Kernel, Host, Watchdog

(* A request is due unless the kernel is empty or gives up.                 *)
LEMMA DueIfFull == ASSUME TypeOK PROVE Due = {} <=> Free
<1>1. queue \in Seq(Nat)
  BY FieldTypes
<1>2. queue # <<>> => 1 \in DOMAIN queue
  BY <1>1, EmptySeq
<1> QED
  BY <1>2 DEF Due, Held, Empty, Free

LEMMA DueIfFullNext == ASSUME TypeOK' PROVE Due' = {} <=> Free'
<1>1. queue' \in Seq(Nat)
  BY DEF TypeOK, CellType
<1>2. queue' # <<>> => 1 \in DOMAIN queue'
  BY <1>1, EmptySeq
<1> QED
  BY <1>2 DEF Due, Held, Empty, Free

Quiet == UNCHANGED <<current, records, ranAs>>

(* The marker goes only where nothing is held, or what is held is shown.    *)
LEMMA FeedUnmarks ==
  ASSUME TypeOK, TypeOK', IInv, Quiet, UNCHANGED <<queue, running, owner, live>>,
         pending' = NoMarker, Free \/ ~Unpublished
  PROVE  F!Unmark
<1>1. (Due' # {}) = (Due # {})
  BY DEF Due, Held
<1>2. Due # {} => current # 0 /\ current \notin records
  <2> SUFFICES ASSUME ~Free PROVE current # 0 /\ current \notin records
    BY DueIfFull
  <2>1. running # Idle /\ running.stage # "taken"
    BY DEF Free, Empty, Unpublished
  <2>2. running.stage = "published"
    BY <2>1 DEF IInv, NumberInv, TypeOK, CellType
  <2> QED
    BY <2>1, <2>2 DEF IInv, NumberInv
<1>3. NoMarker.cell = 0
  BY DEF NoMarker
<1> QED
  BY <1>1, <1>2, <1>3 DEF F!Unmark, F!Open, Quiet

(* A client: its marks, its send, its unmarking; the rest is out of sight.  *)
LEMMA FeedClient ==
  ASSUME Probers = {}, TypeOK, TypeOK', IInv, RestInv, LinkInv, NEW c \in Clients,
         Acquire(c) \/ Probe(c) \/ ClientStep(c) \/ Crash(c)
  PROVE  [F!Next]_(F!fvars)
<1> USE DEF At
<1>1. UNCHANGED <<running, owner, live>> /\ Quiet /\ (~Send(c) => queue' = queue)
  BY DEF Acquire, Probe, ClientStep, CheckCurrent, ReadMarker, Judge, Discard,
     ReadOwner, Connect, Confirm, Mark, Send, Learn, Published, GiveUp, Refresh,
     Rewrite, Clear, Unmark, Crash, kernelVars, cellVars, Quiet
<1>2. ~Send(c) => (Due' # {}) = (Due # {})
  BY <1>1 DEF Due, Held
<1>3. CASE Mark(c) \/ Rewrite(c)
  <2>1. ~Send(c) /\ pc[c] \in Bound
    BY <1>3 DEF Mark, Rewrite, Send, Bound
  <2>2. mine[c].bound # 0
    <3>1. spawned \in Nat /\ mine[c].bound \in 1..spawned
      BY <2>1, FieldTypes DEF LinkInv, BoundInv
    <3> QED
      BY <3>1
  <2>3. pending'.inc = mine[c].bound /\ pending'.cell \in {0, mine[c].cell}
    BY <1>3 DEF Mark, Rewrite
  <2>4. pending' # NoMarker /\ pending'.cell \in Nat
    <3>1. mine[c].cell \in Nat
      BY FieldTypes
    <3>2. pending' # NoMarker
      BY <2>2, <2>3 DEF NoMarker
    <3> QED
      BY <2>3, <3>1, <3>2
  <2>5. F!Mark
    BY <1>1, <1>2, <2>1, <2>4 DEF F!Mark, Quiet
  <2> QED
    BY <2>5 DEF F!Next
<1>4. CASE Send(c)
  <2>1. /\ Empty /\ mine[c].link \in 1..spawned
        /\ live = mine[c].link => pending.inc = live /\ pending.cell = 0
    BY <1>4 DEF Send, IInv, ClientInv, CallInv
  <2>2. pending' = pending
    BY <1>4 DEF Send
  <2>3. CASE queue' = queue \/ owner # live
    <3>1. (Due' # {}) = (Due # {})
      BY <1>1, <2>3 DEF Due, Held
    <3> QED
      BY <1>1, <2>2, <3>1 DEF F!fvars, Quiet
  <2>4. CASE queue' # queue /\ owner = live
    <3>1. live = mine[c].link
      BY <1>4, <2>4 DEF Send
    <3>2. live # 0
      <4>1. spawned \in Nat
        BY FieldTypes
      <4> QED
        BY <2>1, <3>1, <4>1
    <3>3. queue' # <<>>
      BY <2>1, <2>4 DEF Empty
    <3>4. Due = {} /\ Due' # {}
      BY <1>1, <2>1, <2>4, <3>3, DueIfFull, DueIfFullNext DEF Empty, Free
    <3>5. current = 0 \/ current \in records
      BY <2>1, <3>2 DEF RestInv, Empty, Idle
    <3>6. pending # NoMarker /\ pending.cell = 0
      BY <2>1, <3>1, <3>2 DEF NoMarker
    <3>7. F!Accept
      BY <1>1, <2>2, <3>4, <3>5, <3>6 DEF F!Accept, F!Open, Quiet
    <3> QED
      BY <3>7 DEF F!Next
  <2> QED
    BY <2>3, <2>4
<1>5. CASE Discard(c) \/ Unmark(c)
  <2>1. ~Send(c) /\ pending' = NoMarker
    BY <1>5 DEF Discard, Unmark, Send
  <2>2. Free \/ ~Unpublished
    BY <1>5 DEF Discard, Unmark, IInv, ClientInv, CallInv
  <2>3. F!Unmark
    BY <1>1, <2>1, <2>2, FeedUnmarks
  <2> QED
    BY <2>3 DEF F!Next
<1>6. CASE ~(Mark(c) \/ Rewrite(c) \/ Send(c) \/ Discard(c) \/ Unmark(c))
  <2>1. pending' = pending
    BY <1>6 DEF Acquire, Probe, ClientStep, CheckCurrent, ReadMarker, Judge,
       ReadOwner, Connect, Confirm, Learn, Published, GiveUp, Refresh, Clear, Crash
  <2> QED
    BY <1>1, <1>2, <1>6, <2>1 DEF F!fvars, Quiet
<1> QED
  BY <1>3, <1>4, <1>5, <1>6

(* A cell begins: its marker still stands, and is about no other.           *)
LEMMA FeedPublish ==
  ASSUME TypeOK, TypeOK', IInv, CountInv, CellsInv, RestInv, Publish
  PROVE  F!Show(running.cell) /\ running.cell \in (DOMAIN ranAs)'
<1>1. running # Idle /\ running' # Idle
  BY FieldTypes DEF Publish, Idle
<1>2. live # 0 /\ owner = live /\ Due # {} /\ Due' # {}
  <2>1. live # 0 /\ owner = live /\ UNCHANGED <<live, owner>>
    BY <1>1 DEF Publish, Empty, IInv, OwnerInv, Expiring
  <2> QED
    BY <1>1, <2>1, DueIfFull, DueIfFullNext DEF Empty, Free
<1>3. /\ running.cell # 0 /\ running.cell \notin records
      /\ pending.inc = live /\ pending.cell \in {0, running.cell}
  BY <1>1, <1>2 DEF Publish, IInv, NumberInv, GuardInv, MarkerGuards, Empty, Free
<1>4. pending # NoMarker /\ pending' = pending
  BY <1>2, <1>3 DEF NoMarker, Publish
<1>5. current = 0 \/ current \in records
  BY <1>2 DEF RestInv, Publish
<1>6. \A l \in DOMAIN ranAs : l < running.cell
  <2>1. lastLog \in Nat /\ running.cell \in Nat /\ lastLog < running.cell
    BY FieldTypes DEF Publish, CountInv
  <2> QED
    BY <2>1 DEF CellsInv
<1>7. /\ current' = running.cell /\ records' = records
      /\ DOMAIN ranAs' = DOMAIN ranAs \cup {running.cell}
  BY DEF Publish
<1>8. F!MayBe(running.cell)
  BY <1>2, <1>3, <1>4, <1>5 DEF F!MayBe, F!Open
<1> QED
  BY <1>2, <1>3, <1>4, <1>6, <1>7, <1>8 DEF F!Show

LEMMA FeedStep ==
  ASSUME Probers = {}, SlowStart = FALSE, TypeOK, TypeOK', IInv, CountInv, CellsInv,
         LinkInv, RestInv, [Next]_vars
  PROVE  [F!Next]_(F!fvars)
<1>1. ASSUME NEW c \in Clients, Acquire(c) \/ Probe(c) \/ ClientStep(c) \/ Crash(c)
      PROVE  [F!Next]_(F!fvars)
  BY <1>1, FeedClient
<1>2. CASE Take
  <2>1. ~Empty /\ ~Empty' /\ UNCHANGED <<pending, owner, live>> /\ Quiet
    BY <1>2 DEF Take, Empty, Idle, Quiet
  <2>2. (Due' # {}) = (Due # {})
    BY <2>1, DueIfFull, DueIfFullNext DEF Free
  <2> QED
    BY <2>1, <2>2 DEF F!fvars, Quiet
<1>3. CASE Publish
  BY <1>3, FeedPublish DEF F!Next
<1>4. CASE Finish
  <2>1. running # Idle /\ queue = <<>> /\ owner = live
    BY <1>4 DEF Finish, Idle, IInv, OneInv, OwnerInv, Expiring, Empty
  <2>2. Due # {} /\ Due' = {}
    BY <1>4, <2>1, DueIfFull, DueIfFullNext DEF Finish, Empty, Free
  <2>3. current = running.cell /\ current # 0 /\ current \notin records
    BY <1>4, <2>1 DEF Finish, IInv, NumberInv
  <2>4. F!Settle
    BY <1>4, <2>2, <2>3 DEF Finish, F!Settle, F!Open
  <2> QED
    BY <2>4 DEF F!Next
<1>5. CASE KernelDies \/ Vacate \/ Exit \/ KillKernel \/ CleanStale \/ LaunchFails
  <2>1. Free' /\ pending' = pending /\ Quiet
    <3>1. CASE Vacate
      BY <3>1 DEF Vacate, IInv, OwnerInv, Expiring, Free, cellVars, Quiet
    <3>2. CASE ~Vacate
      BY <1>5, <3>2 DEF KernelDies, Exit, KillKernel, CleanStale, LaunchFails, EndProcess,
         Empty, Free, Quiet
    <3> QED
      BY <3>1, <3>2
  <2>2. F!Lose
    BY <2>1, DueIfFullNext DEF F!Lose, Quiet
  <2> QED
    BY <2>2 DEF F!Next
<1>6. CASE Rotate \/ Launch
  <2>1. Empty /\ Empty' /\ (Launch => current = 0)
    BY <1>6 DEF Rotate, Launch, Empty, IInv, OwnerInv
  <2>2. Due = {} /\ Due' = {}
    BY <2>1, DueIfFull, DueIfFullNext DEF Free
  <2>3. Rotate => F!Rotate
    BY <2>2 DEF Rotate, F!Rotate, NoMarker
  <2>4. Launch => F!Boot
    BY <2>1, <2>2 DEF Launch, F!Boot
  <2> QED
    BY <1>6, <2>3, <2>4 DEF F!Next
<1>7. CASE \/ MakeReady \/ SpawnerDies \/ Expire \/ CloseReady \/ Balk
           \/ UNCHANGED vars
  <2>1. UNCHANGED <<queue, running, current, records, ranAs, pending, owner, live>>
    BY <1>7 DEF MakeReady, SpawnerDies, Expire, CloseReady, Balk, vars, kernelVars, cellVars
  <2>2. (Due' # {}) = (Due # {})
    BY <2>1 DEF Due, Held
  <2> QED
    BY <2>1, <2>2 DEF F!fvars
<1> QED
  BY <1>1, <1>2, <1>3, <1>4, <1>5, <1>6, <1>7 DEF Next, Kernel, Host, Watchdog

(* Admission keeps the promise of Feed.tla on the conditions of             *)
(* BusyIsSound: the marker is about the request in flight from the send to  *)
(* the publication, and requests and records come one after the other.      *)
THEOREM Feeds ==
  ASSUME Probers = {}, SlowStart = FALSE
  PROVE  Spec => FeedSpec
<1>1. Init => SlotInv /\ CountInv /\ WitnessInv /\ LinkInv /\ RestInv /\ F!Init
  <2> SUFFICES ASSUME Init
               PROVE  SlotInv /\ CountInv /\ WitnessInv /\ LinkInv /\ RestInv /\ F!Init
    OBVIOUS
  <2>1. SlotInv /\ CountInv /\ WitnessInv
    BY AdmissionAssumption, NobodyAssumption DEF Init, SlotInv, CountInv, WitnessInv, CellsInv,
       AnswerInv, Past, Linked, OneInv, Empty, Idle
  <2>2. LinkInv /\ RestInv
    BY DEF Init, LinkInv, BoundInv, Bound, RestInv
  <2>3. F!Init
    BY DEF Init, F!Init, Due, Held, NoMarker
  <2> QED
    BY <2>1, <2>2, <2>3
<1>2. TypeOK /\ SlotInv /\ CountInv /\ WitnessInv /\ LinkInv /\ IInv /\ RestInv /\ [Next]_vars
        => SlotInv' /\ CountInv' /\ WitnessInv' /\ LinkInv' /\ RestInv'
  BY SlotKeeps, CountKeeps, WitnessKeeps, LinkKeeps, RestKeeps
<1>3. TypeOK /\ TypeOK' /\ IInv /\ CountInv /\ WitnessInv /\ LinkInv /\ RestInv /\ [Next]_vars
        => [F!Next]_(F!fvars)
  BY FeedStep DEF WitnessInv
<1> QED
  BY <1>1, <1>2, <1>3, TypeCorrect, Inductive, PTL DEF Spec, FeedSpec, F!Spec
=============================================================================

-------------------------- MODULE AgentHandleProofs --------------------------
(***************************************************************************)
(* Permits come back, children are held, a result is settled, a row tells  *)
(* no phantom and turns do not overlap: for any number of handles, calling *)
(* tasks, permits and turns.                                               *)
(*                                                                         *)
(* Sound says what the fields of one handle mean to one another: a driver  *)
(* on its way, and not cancelled, is a running handle's; a session is kept *)
(* only by a handle that runs or is settled.  Caller says what a task that *)
(* waits in send, interrupt or close may rely on; Handled ties each handle *)
(* to the name and to the tasks that will settle it.                       *)
(***************************************************************************)
EXTENDS AgentHandle, FiniteSetTheorems, TLAPS

Early == {"unstarted", "queued", "connecting", "opening", "turn"}
Down == {"undo", "closing"} \cup Over
Holds(r) == r.phase \in WithPermit /\ r.kind # "host"

Sound(r) ==
  /\ r.phase = "none" <=> r.status \in {"unborn", "lost"}
  /\ r.phase = "none" => /\ ~r.session /\ ~r.cancelled /\ ~r.interrupting
                         /\ r.child = "none" /\ r.turns = 0
  /\ r.phase \in {"connecting", "opening", "undo", "closing"} => r.turns = 0 /\ ~r.session
  /\ r.session /\ r.turns = 0 => r.phase = "turn" \/ r.phase \in Over
  /\ r.phase \in Over => ~r.cancelled
  /\ r.kind = "host" =>
       /\ ~r.session /\ r.turns = 0
       /\ r.phase \notin {"queued", "connecting", "opening", "undo", "closing"}
  /\ r.phase \in Early /\ ~r.cancelled =>
       /\ r.turns = 0 => r.status = "running" /\ r.result = "pending"
       /\ r.child = "alive" => r.status = "running"
  /\ r.child = "alive" => r.phase \in {"opening", "undo"} \/ r.session
  /\ r.session /\ r.status \in Terminal => r.phase \in Over /\ r.result # "pending"
  /\ r.session /\ r.turns = 0 /\ r.result # "pending" => r.phase \in Over
  /\ r.turns > 0 => r.result # "pending"
  /\ r.status \in Terminal /\ r.result = "pending" => r.phase = "closing" \/ r.phase \in Over

Caller(t) ==
  LET r == handle[task[t].on] IN
  /\ task[t].pc \in {"idle", "wanting", "running"} <=> task[t].on = None
  /\ task[t].on # None => r.phase # "none"
  /\ task[t].pc \in {"settling", "turning"} => r.lock = t
  /\ task[t].pc = "turning" => r.turns > 0
  /\ task[t].pc \in {"drain", "cancelling"} => task[t].turn <= r.turns
  /\ task[t].pc = "cancelling" /\ r.turns = 0 => r.cancelled \/ r.phase \in Down
  /\ task[t].pc = "reaping" => ~r.session /\ (r.cancelled \/ r.phase \in Down)
  /\ task[t].pc = "closing" => r.result # "pending"

At(h, pcs) == \E t \in Tasks : task[t].on = h /\ task[t].pc \in pcs

Handled(h) ==
  LET r == handle[h] IN
  /\ Sound(r)
  /\ r.status = "running" \/ r.session => bound = h
  /\ r.turns > 0 /\ r.phase \notin Over => At(h, {"turning"})
  /\ r.interrupting /\ r.result = "pending" => At(h, {"drain", "cancelling"})
  /\ r.cancelled /\ r.result = "pending" => r.cut \/ At(h, {"cancelling", "reaping"})
  /\ r.phase \in Over /\ r.result = "pending" =>
       r.cut \/ At(h, {"drain", "cancelling", "reaping"})

Senders(h) == {u \in Tasks : /\ task[u].on = h
                             /\ task[u].pc \in {"locking", "settling"}}
Room(h) == handle[h].turns + Cardinality(Senders(h)) <= MaxTurns

Typed ==
  /\ handle \in [Handles -> Handle] /\ task \in [Tasks -> Task]
  /\ permits \in Nat /\ bound \in Handles \cup {None}
  /\ row \in [of : Handles \cup {None},
              status : {"none", "running", "orphaned"} \cup Terminal]
  /\ row.status = "running" => row.of \in Handles

IInv ==
  /\ Typed /\ PermitsKept /\ NoPhantoms
  /\ \A t \in Tasks : Caller(t)
  /\ \A h \in Handles : Handled(h) /\ Room(h)

-----------------------------------------------------------------------------
LEMMA Sizes ==
  /\ Cap \in Nat \ {0} /\ MaxTurns \in Nat
  /\ IsFiniteSet(Handles) /\ IsFiniteSet(Tasks)
  /\ None \notin Handles /\ None \notin Tasks /\ Handles \cap Tasks = {}
  /\ CliHandles \subseteq Handles /\ HostHandles \subseteq Handles
BY CapAssumption, KindsAssumption DEF Handles

(* What both drivers and callers leave to a handle r: s is the handle      *)
(* after the step.  What the tasks at work on it rely on, but for the      *)
(* lock of the one that takes the step.                                    *)
Relies(r, s) ==
  /\ s \in Handle /\ Sound(s) /\ s.phase # "none"
  /\ s.turns >= r.turns
  /\ r.result # "pending" => s.result # "pending"
  /\ (r.cancelled \/ r.phase \in Down) /\ s.turns = 0 => s.cancelled \/ s.phase \in Down
  /\ (r.cancelled \/ r.phase \in Down) /\ ~r.session =>
       ~s.session /\ (s.cancelled \/ s.phase \in Down)

(* What the driver of a handle leaves alone.                               *)
Keeps(r, s) == /\ s.kind = r.kind /\ s.turns = r.turns /\ s.lock = r.lock /\ s.cut = r.cut
               /\ s.interrupting = r.interrupting

(* What a step of a driver may do.  It does not settle twice, and what is  *)
(* on its way down stays so.                                               *)
Drives(r, s) ==
  /\ Relies(r, s) /\ Keeps(r, s) /\ r.phase # "none"
  /\ s.cancelled => r.cancelled
  /\ s.status = "running" \/ s.session => r.status = "running" \/ r.session
  /\ r.phase \in Over => s.phase \in Over
  /\ s.phase \in Over /\ s.result = "pending" =>
       r.phase \in Over \/ r.interrupting \/ r.cancelled

(* and to the registry's row and the semaphore.                            *)
Tells(h, r, s) ==
  /\ row' = row \/ row' \in [of : {h}, status : {"running"} \cup Terminal]
  /\ row'.of = h /\ row'.status = "running" =>
       s.status = "running" \/ (row' = row /\ r.status # "running")

Accounts(h, r, s) ==
  /\ Tells(h, r, s)
  /\ permits' = permits + (IF Holds(r) THEN 1 ELSE 0) - (IF Holds(s) THEN 1 ELSE 0)
  /\ Holds(s) /\ ~Holds(r) => permits > 0
  /\ UNCHANGED <<bound, task>>

DriverStep(h) ==
  \E s \in Handle : /\ handle' = [handle EXCEPT ![h] = s]
                    /\ Drives(handle[h], s) /\ Accounts(h, handle[h], s)

-----------------------------------------------------------------------------
(* The parts the operations on a handle are made of.                       *)

LEMMA SettledParts ==
  ASSUME NEW r \in Handle, NEW value \in {"value", "exception"}
  PROVE  LET s == Settled(r, value) IN
         /\ s \in Handle /\ Keeps(r, s)
         /\ s.status = r.status /\ s.phase = r.phase /\ s.cancelled = r.cancelled
         /\ s.session = r.session /\ s.child = r.child
         /\ s.result = IF r.result = "pending" THEN value ELSE r.result
BY DEF Settled, Handle, Keeps

LEMMA LeavesParts ==
  ASSUME NEW r \in Handle, NEW phase \in {"closing"} \cup Over
  PROVE  LET s == Leaves(r, phase) IN
         /\ s \in Handle /\ Keeps(r, s)
         /\ s.status = r.status /\ s.phase = phase /\ s.cancelled = FALSE
         /\ s.session = r.session /\ s.child = r.child /\ s.result = r.result
BY ZenonT(60) DEF Leaves, Handle, Keeps

LEMMA DisconnectingParts ==
  ASSUME NEW r \in Handle
  PROVE  LET s == Disconnecting(r) IN
         /\ s \in Handle /\ Keeps(r, s)
         /\ s.status = r.status /\ s.phase = r.phase /\ s.cancelled = r.cancelled
         /\ s.session = FALSE /\ s.child = IF r.child = "alive" THEN "closing" ELSE r.child
         /\ s.result = r.result
<1> DEFINE c == IF r.child = "alive" THEN "closing" ELSE r.child
<1>1. c \in {"none", "alive", "closing", "gone", "torn"}
  BY DEF Handle
<1>2. Disconnecting(r) = [r EXCEPT !.session = FALSE, !.child = c]
  BY DEF Disconnecting, Handle
<1> HIDE DEF c
<1>3. LET s == [r EXCEPT !.session = FALSE, !.child = c] IN
      /\ s \in Handle /\ Keeps(r, s)
      /\ s.status = r.status /\ s.phase = r.phase /\ s.cancelled = r.cancelled
      /\ s.session = FALSE /\ s.child = c /\ s.result = r.result
  BY <1>1, ZenonT(90) DEF Handle, Keeps
<1> QED
  BY <1>2, <1>3 DEF c

LEMMA CancellingParts ==
  ASSUME NEW r \in Handle
  PROVE  LET s == Cancelling(r) IN
         /\ s \in Handle /\ Keeps(r, s)
         /\ s.status = r.status /\ s.phase = r.phase /\ s.cancelled = (r.phase \notin Over)
         /\ s.session = r.session /\ s.child = r.child /\ s.result = r.result
BY DEF Cancelling, Handle, Keeps

LEMMA StatusParts ==
  ASSUME NEW r \in Handle, NEW status \in {"running"} \cup Terminal
  PROVE  LET s == [r EXCEPT !.status = status] IN
         /\ s \in Handle /\ Keeps(r, s)
         /\ s.status = status /\ s.phase = r.phase /\ s.cancelled = r.cancelled
         /\ s.session = r.session /\ s.child = r.child /\ s.result = r.result
BY DEF Handle, Keeps, Terminal

LEMMA CutParts ==
  ASSUME NEW r \in Handle, NEW i \in BOOLEAN
  PROVE  LET s == [r EXCEPT !.interrupting = i, !.cut = TRUE] IN
         /\ s \in Handle /\ s.kind = r.kind /\ s.status = r.status /\ s.phase = r.phase
         /\ s.turns = r.turns /\ s.cancelled = r.cancelled /\ s.session = r.session
         /\ s.child = r.child /\ s.interrupting = i /\ s.result = r.result
         /\ s.lock = r.lock /\ s.cut = TRUE
BY DEF Handle

LEMMA ChildParts ==
  ASSUME NEW r \in Handle, NEW child \in {"gone", "torn"}
  PROVE  LET s == [r EXCEPT !.child = child] IN
         /\ s \in Handle /\ Keeps(r, s)
         /\ s.status = r.status /\ s.phase = r.phase /\ s.cancelled = r.cancelled
         /\ s.session = r.session /\ s.child = child /\ s.result = r.result
         /\ s.why = r.why
BY DEF Handle, Keeps

LEMMA FailingParts ==
  ASSUME NEW r \in Handle
  PROVE  LET s == Failing(r) IN
         /\ s \in Handle /\ Keeps(r, s)
         /\ s.status = "error" /\ s.cancelled = FALSE /\ s.session = FALSE
         /\ s.phase = IF r.session THEN "closing" ELSE "failed"
         /\ s.child = IF r.session /\ r.child = "alive" THEN "closing" ELSE r.child
         /\ s.result = IF ~r.session /\ r.result = "pending" THEN "exception" ELSE r.result
<1> DEFINE e == [r EXCEPT !.status = "error"]
<1>1. /\ e \in Handle /\ Keeps(r, e)
      /\ e.status = "error" /\ e.phase = r.phase /\ e.cancelled = r.cancelled
      /\ e.session = r.session /\ e.child = r.child /\ e.result = r.result
  BY StatusParts DEF Terminal
<1>2. Failing(r) = IF r.session THEN Leaves(Disconnecting(e), "closing")
                                ELSE Leaves(Settled(e, "exception"), "failed")
  BY DEF Failing
<1>3. r.session \in BOOLEAN
  BY DEF Handle
<1> HIDE DEF e
<1>4. CASE r.session
  <2> DEFINE d == Disconnecting(e)
             s == Leaves(d, "closing")
  <2>1. /\ d \in Handle /\ Keeps(e, d) /\ d.status = e.status /\ d.session = FALSE
        /\ d.child = (IF e.child = "alive" THEN "closing" ELSE e.child) /\ d.result = e.result
    BY <1>1, DisconnectingParts
  <2> HIDE DEF d
  <2>2. /\ s \in Handle /\ Keeps(d, s) /\ s.status = d.status /\ s.phase = "closing"
        /\ s.cancelled = FALSE /\ s.session = d.session /\ s.child = d.child
        /\ s.result = d.result
    BY <2>1, LeavesParts, ZenonT(40)
  <2>3. Failing(r) = s
    BY <1>2, <1>4 DEF d
  <2> QED
    BY <1>1, <1>4, <2>1, <2>2, <2>3 DEF Keeps
<1>5. CASE ~r.session
  <2> DEFINE d == Settled(e, "exception")
             s == Leaves(d, "failed")
  <2>1. /\ d \in Handle /\ Keeps(e, d) /\ d.status = e.status /\ d.session = e.session
        /\ d.child = e.child
        /\ d.result = IF e.result = "pending" THEN "exception" ELSE e.result
    BY <1>1, SettledParts
  <2> HIDE DEF d
  <2>2. /\ s \in Handle /\ Keeps(d, s) /\ s.status = d.status /\ s.phase = "failed"
        /\ s.cancelled = FALSE /\ s.session = d.session /\ s.child = d.child
        /\ s.result = d.result
    BY <2>1, LeavesParts, ZenonT(40) DEF Over
  <2>3. Failing(r) = s
    BY <1>2, <1>5 DEF d
  <2> QED
    BY <1>1, <1>3, <1>5, <2>1, <2>2, <2>3 DEF Keeps
<1> QED
  BY <1>3, <1>4, <1>5

LEMMA StoppingParts ==
  ASSUME NEW r \in Handle
  PROVE  LET s == Stopping(r) IN
         /\ s \in Handle /\ Keeps(r, s)
         /\ s.status = IF Speaks(r) THEN "interrupted" ELSE r.status
         /\ s.phase = "cancelled" /\ s.cancelled = FALSE /\ s.session = r.session
         /\ s.child = r.child
         /\ s.result = IF Speaks(r) /\ r.result = "pending" THEN "exception" ELSE r.result
<1>1. CASE Speaks(r)
  <2> DEFINE e == [r EXCEPT !.status = "interrupted"]
             d == Settled(e, "exception")
             s == Leaves(d, "cancelled")
  <2>1. /\ e \in Handle /\ Keeps(r, e) /\ e.status = "interrupted"
        /\ e.session = r.session /\ e.child = r.child /\ e.result = r.result
    BY StatusParts DEF Terminal
  <2> HIDE DEF e
  <2>2. /\ d \in Handle /\ Keeps(e, d) /\ d.status = e.status /\ d.session = e.session
        /\ d.child = e.child
        /\ d.result = IF e.result = "pending" THEN "exception" ELSE e.result
    BY <2>1, SettledParts
  <2> HIDE DEF d
  <2>3. /\ s \in Handle /\ Keeps(d, s) /\ s.status = d.status /\ s.phase = "cancelled"
        /\ s.cancelled = FALSE /\ s.session = d.session /\ s.child = d.child
        /\ s.result = d.result
    BY <2>2, LeavesParts, ZenonT(40) DEF Over
  <2>4. Stopping(r) = s
    BY <1>1 DEF Stopping, d, e
  <2> QED
    BY <1>1, <2>1, <2>2, <2>3, <2>4 DEF Keeps
<1>2. CASE ~Speaks(r)
  BY <1>2, LeavesParts DEF Stopping, Over
<1> QED
  BY <1>1, <1>2

LEMMA Written ==
  ASSUME NEW h \in Handles, NEW st \in {"running"} \cup Terminal, Writes(h, st)
  PROVE  /\ row' \in [of : {h}, status : {"running"} \cup Terminal]
         /\ row'.of = h /\ row'.status = st
BY DEF Writes

-----------------------------------------------------------------------------
(* Steps of a driver.                                                      *)

LEMMA Shape ==
  ASSUME IInv, NEW h \in Handles
  PROVE  /\ handle[h] \in Handle /\ Sound(handle[h]) /\ handle[h].turns \in Nat
         /\ permits \in Nat /\ handle = [handle EXCEPT ![h] = handle[h]]
<1>1. handle \in [Handles -> Handle] /\ permits \in Nat /\ Sound(handle[h])
  BY DEF IInv, Typed, Handled
<1>2. handle[h] \in Handle
  BY <1>1
<1>3. handle[h].turns \in Nat
  BY <1>2, Sizes DEF Handle
<1> QED
  BY <1>1, <1>2, <1>3

(* A driver that ends, or goes into its own close(), whichever way.        *)
LEMMA Ending ==
  ASSUME IInv, NEW h \in Handles, NEW s \in Handle,
         handle' = [handle EXCEPT ![h] = s],
         Keeps(handle[h], s), Relies(handle[h], s),
         s.phase \in {"closing"} \cup Over, ~s.cancelled,
         s.status = "running" \/ s.session => handle[h].status = "running" \/ handle[h].session,
         handle[h].phase # "none", handle[h].phase \notin Over,
         s.result # "pending" \/ s.phase = "closing" \/ handle[h].interrupting
           \/ handle[h].cancelled,
         \/ row' = row /\ s.status = handle[h].status
         \/ \E st \in Terminal : Writes(h, st),
         GivesBack(handle[h]), UNCHANGED <<bound, task>>
  PROVE  DriverStep(h)
<1> DEFINE r == handle[h]
<1>1. /\ r \in Handle /\ permits \in Nat
  BY Shape
<1> HIDE DEF r
<1>2. Drives(r, s)
  BY <1>1 DEF Drives, Over, r
<1>3. Tells(h, r, s)
  <2>1. CASE row' = row /\ s.status = r.status
    BY <2>1 DEF Tells
  <2>2. ASSUME NEW st \in Terminal, Writes(h, st) PROVE Tells(h, r, s)
    BY <2>2, Written DEF Tells, Terminal
  <2> QED
    BY <2>1, <2>2 DEF r
<1>4. ~Holds(s)
  BY DEF Holds, WithPermit, Over
<1>5. permits' = permits + (IF Holds(r) THEN 1 ELSE 0)
  BY DEF GivesBack, Holds, r
<1>6. Accounts(h, r, s)
  BY <1>1, <1>3, <1>4, <1>5 DEF Accounts
<1> QED
  BY <1>2, <1>6 DEF DriverStep, r

LEMMA DoneParts ==
  ASSUME NEW o \in Handle
  PROVE  LET s == Leaves(Settled(o, "value"), "ok") IN
         /\ s \in Handle /\ Keeps(o, s)
         /\ s.status = o.status /\ s.phase = "ok" /\ s.cancelled = FALSE
         /\ s.session = o.session /\ s.child = o.child
         /\ s.result # "pending"
<1> DEFINE d == Settled(o, "value")
<1>1. /\ d \in Handle /\ Keeps(o, d) /\ d.status = o.status /\ d.session = o.session
      /\ d.child = o.child /\ d.result # "pending"
  BY SettledParts
<1> HIDE DEF d
<1>2. LET s == Leaves(d, "ok") IN
      /\ s \in Handle /\ Keeps(d, s)
      /\ s.status = d.status /\ s.phase = "ok" /\ s.cancelled = FALSE
      /\ s.session = d.session /\ s.child = d.child /\ s.result = d.result
  BY <1>1, LeavesParts DEF Over
<1> QED
  BY <1>1, <1>2 DEF Keeps, d

LEMMA ResumedDrives ==
  ASSUME IInv, NEW h \in Handles, Resumed(h)
  PROVE  DriverStep(h)
<1> DEFINE r == handle[h]
           o == [r EXCEPT !.session = TRUE, !.status = "done"]
           s == Leaves(Settled(o, "value"), "ok")
<1>1. r \in Handle /\ Sound(r) /\ r.turns \in Nat
  BY Shape
<1>2. /\ r.phase = "opening" /\ ~r.cancelled /\ handle' = [handle EXCEPT ![h] = s]
      /\ Writes(h, "done") /\ GivesBack(r) /\ UNCHANGED <<bound, task>>
  BY DEF Resumed, Becomes
<1>3. /\ o \in Handle /\ Keeps(r, o) /\ o.status = "done" /\ o.session = TRUE
      /\ o.child = r.child /\ o.result = r.result
  BY <1>1 DEF Handle, Keeps, Terminal
<1> HIDE DEF o
<1>4. /\ s \in Handle /\ Keeps(o, s)
      /\ s.status = o.status /\ s.phase = "ok" /\ s.cancelled = FALSE
      /\ s.session = o.session /\ s.child = o.child /\ s.result # "pending"
  BY <1>3, DoneParts
<1> HIDE DEF r, s
<1>5. /\ Keeps(r, s) /\ s.status = "done" /\ s.session = TRUE /\ s.child = r.child
  BY <1>3, <1>4 DEF Keeps
<1>6. Relies(r, s)
  BY <1>1, <1>2, <1>4, <1>5 DEF Sound, Relies, Keeps, Early, Down, Over, Terminal
<1>7. r.status = "running"
  BY <1>1, <1>2 DEF Sound, Early
<1> QED
  BY <1>2, <1>4, <1>5, <1>6, <1>7, Ending DEF r, Over, Terminal

LEMMA CompletesDrives ==
  ASSUME IInv, NEW h \in Handles, Completes(h), GivesBack(handle[h]),
         handle[h].phase = "turn", handle[h].turns = 0, ~handle[h].cancelled,
         UNCHANGED <<bound, task>>
  PROVE  DriverStep(h)
<1> DEFINE r == handle[h]
           o == [r EXCEPT !.status = "done"]
           s == Leaves(Settled(o, "value"), "ok")
<1>1. r \in Handle /\ Sound(r) /\ r.turns \in Nat
  BY Shape
<1>2. /\ handle' = [handle EXCEPT ![h] = s] /\ Writes(h, "done")
  BY DEF Completes, Becomes
<1>3. /\ o \in Handle /\ Keeps(r, o) /\ o.status = "done" /\ o.session = r.session
      /\ o.child = r.child /\ o.result = r.result
  BY <1>1, StatusParts DEF Terminal
<1> HIDE DEF o
<1>4. /\ s \in Handle /\ Keeps(o, s)
      /\ s.status = o.status /\ s.phase = "ok" /\ s.cancelled = FALSE
      /\ s.session = o.session /\ s.child = o.child /\ s.result # "pending"
  BY <1>3, DoneParts
<1> HIDE DEF r, s
<1>5. /\ Keeps(r, s) /\ s.status = "done" /\ s.session = r.session /\ s.child = r.child
      /\ r.phase = "turn" /\ r.turns = 0 /\ ~r.cancelled
  BY <1>3, <1>4 DEF Keeps, r
<1>6. Relies(r, s)
  BY <1>1, <1>4, <1>5 DEF Sound, Relies, Keeps, Early, Down, Over, Terminal
<1>7. r.status = "running"
  BY <1>1, <1>5 DEF Sound, Early
<1> QED
  BY <1>2, <1>4, <1>5, <1>6, <1>7, Ending DEF r, Over, Terminal

(* A follow-up turn ends, or its driver with it: the handle is the send's. *)
LEMMA FollowUpDrives ==
  ASSUME IInv, NEW h \in Handles, NEW phase \in Over,
         handle' = [handle EXCEPT ![h] = Leaves(handle[h], phase)],
         handle[h].phase \in {"queued", "connecting", "turn"}, handle[h].turns > 0,
         ~handle[h].cancelled, GivesBack(handle[h]), UNCHANGED <<row, bound, task>>
  PROVE  DriverStep(h)
<1> DEFINE r == handle[h]
           s == Leaves(r, phase)
<1>1. r \in Handle /\ Sound(r) /\ r.turns \in Nat
  BY Shape
<1>2. /\ s \in Handle /\ Keeps(r, s)
      /\ s.status = r.status /\ s.phase = phase /\ s.cancelled = FALSE
      /\ s.session = r.session /\ s.child = r.child /\ s.result = r.result
  BY <1>1, LeavesParts
<1>3. handle' = [handle EXCEPT ![h] = s] /\ r.phase \in {"queued", "connecting", "turn"}
      /\ r.turns > 0 /\ ~r.cancelled
  OBVIOUS
<1> HIDE DEF r, s
<1>4. Relies(r, s)
  BY <1>1, <1>2, <1>3 DEF Sound, Relies, Keeps, Early, Down, Over, Terminal
<1>5. s.result # "pending"
  BY <1>1, <1>2, <1>3 DEF Sound
<1> QED
  BY <1>2, <1>3, <1>4, <1>5, Ending DEF r, Over

(* drive's `except Exception`, from an await or from open_session's        *)
(* teardown.                                                               *)
LEMMA FailingDrives ==
  ASSUME IInv, NEW h \in Handles, NEW q \in Handle,
         handle' = [handle EXCEPT ![h] = Failing(q)],
         Keeps(handle[h], q), q.session = handle[h].session, q.result = handle[h].result,
         q.child = "alive" => handle[h].child = "alive" /\ handle[h].phase # "undo",
         handle[h].phase \in {"queued", "connecting", "turn", "undo"}, handle[h].turns = 0,
         Writes(h, "error"), GivesBack(handle[h]), UNCHANGED <<bound, task>>
  PROVE  DriverStep(h)
<1> DEFINE r == handle[h]
           s == Failing(q)
<1>1. r \in Handle /\ Sound(r) /\ r.turns \in Nat
  BY Shape
<1>2. /\ s \in Handle /\ Keeps(q, s)
      /\ s.status = "error" /\ s.cancelled = FALSE /\ s.session = FALSE
      /\ s.phase = IF q.session THEN "closing" ELSE "failed"
      /\ s.child = IF q.session /\ q.child = "alive" THEN "closing" ELSE q.child
      /\ s.result = IF ~q.session /\ q.result = "pending" THEN "exception" ELSE q.result
  BY FailingParts
<1>3. /\ handle' = [handle EXCEPT ![h] = s] /\ r.turns = 0
      /\ r.phase \in {"queued", "connecting", "turn", "undo"}
      /\ Keeps(r, q) /\ q.session = r.session /\ q.result = r.result
      /\ q.child = "alive" => r.child = "alive" /\ r.phase # "undo"
  OBVIOUS
<1> HIDE DEF r, s
<1>4. /\ Keeps(r, s)
  BY <1>2, <1>3 DEF Keeps
<1>5. s.child # "alive"
  BY <1>1, <1>2, <1>3 DEF Sound
<1>6. s.phase \in {"closing", "failed"} /\ (s.phase = "closing" <=> r.session)
      /\ (s.phase = "failed" => s.result # "pending")
      /\ (s.result = r.result \/ s.result = "exception")
  BY <1>2, <1>3
<1>7. Relies(r, s)
  BY <1>1, <1>2, <1>3, <1>4, <1>5, <1>6
     DEF Sound, Relies, Keeps, Early, Down, Over, Terminal
<1> QED
  BY <1>2, <1>3, <1>4, <1>6, <1>7, Ending DEF r, Over, Terminal

(* drive's `except CancelledError`, likewise.                              *)
LEMMA StoppingDrives ==
  ASSUME IInv, NEW h \in Handles, NEW q \in Handle,
         handle' = [handle EXCEPT ![h] = Stopping(q)],
         Keeps(handle[h], q), q.status = handle[h].status,
         q.session = handle[h].session, q.result = handle[h].result,
         q.child = "alive" => handle[h].child = "alive" /\ handle[h].phase # "undo",
         handle[h].phase \in {"queued", "connecting", "turn", "undo"},
         handle[h].cancelled \/ handle[h].phase = "undo",
         \/ row' = row /\ ~Speaks(q)
         \/ Writes(h, "interrupted"),
         GivesBack(handle[h]), UNCHANGED <<bound, task>>
  PROVE  DriverStep(h)
<1> DEFINE r == handle[h]
           s == Stopping(q)
<1>1. r \in Handle /\ Sound(r) /\ r.turns \in Nat
  BY Shape
<1>2. /\ s \in Handle /\ Keeps(q, s)
      /\ s.status = IF Speaks(q) THEN "interrupted" ELSE q.status
      /\ s.phase = "cancelled" /\ s.cancelled = FALSE /\ s.session = q.session
      /\ s.child = q.child
      /\ s.result = IF Speaks(q) /\ q.result = "pending" THEN "exception" ELSE q.result
  BY StoppingParts
<1>3. /\ handle' = [handle EXCEPT ![h] = s]
      /\ r.phase \in {"queued", "connecting", "turn", "undo"}
      /\ r.cancelled \/ r.phase = "undo"
      /\ Keeps(r, q) /\ q.status = r.status /\ q.session = r.session /\ q.result = r.result
      /\ q.child = "alive" => r.child = "alive" /\ r.phase # "undo"
  OBVIOUS
<1>4. Speaks(q) <=> r.turns = 0 /\ r.status \notin Terminal /\ ~r.interrupting
  BY DEF Speaks, Keeps
<1> HIDE DEF r, s
<1>5. Keeps(r, s)
  BY <1>2, <1>3 DEF Keeps
<1>6. s.result # "pending" \/ r.interrupting \/ r.cancelled
  BY <1>1, <1>2, <1>3, <1>4 DEF Sound, Over
<1>7. (s.status = r.status /\ s.result = r.result)
        \/ (s.status = "interrupted" /\ s.result # "pending" /\ r.turns = 0
             /\ r.status \notin Terminal)
  BY <1>1, <1>2, <1>3, <1>4 DEF Handle
<1>8. Relies(r, s)
  BY <1>1, <1>2, <1>3, <1>5, <1>6, <1>7
     DEF Sound, Relies, Keeps, Early, Down, Over, Terminal
<1>9. \/ row' = row /\ s.status = r.status
      \/ Writes(h, "interrupted")
  BY <1>2, <1>3, <1>4
<1> QED
  BY <1>1, <1>2, <1>3, <1>5, <1>6, <1>7, <1>8, <1>9, Ending DEF r, Over, Terminal

LEMMA DriverStartsDrives ==
  ASSUME IInv, NEW h \in Handles, DriverStarts(h)
  PROVE  DriverStep(h)
<1> DEFINE r == handle[h]
           s == [r EXCEPT !.phase = IF r.kind = "host" THEN "turn" ELSE "queued"]
<1>1. /\ r \in Handle /\ Sound(r) /\ r.turns \in Nat /\ permits \in Nat
      /\ handle = [handle EXCEPT ![h] = r]
  BY Shape
<1>2. /\ r.phase = "unstarted" /\ ~r.cancelled
      /\ handle' = [handle EXCEPT ![h] = s]
      /\ UNCHANGED <<permits, bound, row, task>>
  BY <1>1 DEF DriverStarts, Becomes
<1>3. /\ s \in Handle /\ Keeps(r, s)
      /\ s.status = r.status /\ s.phase = (IF r.kind = "host" THEN "turn" ELSE "queued") /\ s.cancelled = r.cancelled
      /\ s.session = r.session /\ s.child = r.child /\ s.result = r.result
  BY <1>1, <1>2 DEF Keeps, Handle, WithPermit, Over
<1> HIDE DEF r, s
<1>4. Relies(r, s)
  BY <1>1, <1>2, <1>3 DEF Sound, Relies, Keeps, Early, Down, Over, Terminal
<1>5. Drives(r, s)
  BY <1>1, <1>2, <1>3, <1>4 DEF Sound, Drives, Early, Down, Over, Terminal
<1>6. Accounts(h, r, s)
  BY <1>1, <1>2, <1>3 DEF Accounts, Tells, Holds, Keeps, WithPermit, Over, Terminal, Sound
<1> QED
  BY <1>2, <1>3, <1>5, <1>6 DEF DriverStep, r

LEMMA AcquiresDrives ==
  ASSUME IInv, NEW h \in Handles, Acquires(h)
  PROVE  DriverStep(h)
<1> DEFINE r == handle[h]
           s == [r EXCEPT !.phase = IF r.turns = 0 THEN "connecting" ELSE "turn"]
<1>1. /\ r \in Handle /\ Sound(r) /\ r.turns \in Nat /\ permits \in Nat
      /\ handle = [handle EXCEPT ![h] = r]
  BY Shape
<1>2. /\ r.phase = "queued" /\ ~r.cancelled /\ permits > 0
      /\ handle' = [handle EXCEPT ![h] = s]
      /\ permits' = permits - 1 /\ UNCHANGED <<bound, row, task>>
  BY <1>1 DEF Acquires, Becomes
<1>3. /\ s \in Handle /\ Keeps(r, s)
      /\ s.status = r.status /\ s.phase = (IF r.turns = 0 THEN "connecting" ELSE "turn") /\ s.cancelled = r.cancelled
      /\ s.session = r.session /\ s.child = r.child /\ s.result = r.result
  BY <1>1, <1>2 DEF Keeps, Handle, WithPermit, Over
<1> HIDE DEF r, s
<1>4. Relies(r, s)
  BY <1>1, <1>2, <1>3 DEF Sound, Relies, Keeps, Early, Down, Over, Terminal
<1>5. Drives(r, s)
  BY <1>1, <1>2, <1>3, <1>4 DEF Sound, Drives, Early, Down, Over, Terminal
<1>6. Accounts(h, r, s)
  BY <1>1, <1>2, <1>3 DEF Accounts, Tells, Holds, Keeps, WithPermit, Over, Terminal, Sound
<1> QED
  BY <1>2, <1>3, <1>5, <1>6 DEF DriverStep, r

LEMMA ConnectedDrives ==
  ASSUME IInv, NEW h \in Handles, Connected(h)
  PROVE  DriverStep(h)
<1> DEFINE r == handle[h]
           s == [r EXCEPT !.phase = "opening", !.child = "alive"]
<1>1. /\ r \in Handle /\ Sound(r) /\ r.turns \in Nat /\ permits \in Nat
      /\ handle = [handle EXCEPT ![h] = r]
  BY Shape
<1>2. /\ r.phase = "connecting" /\ ~r.cancelled
      /\ handle' = [handle EXCEPT ![h] = s]
      /\ UNCHANGED <<permits, bound, row, task>>
  BY <1>1 DEF Connected, Becomes
<1>3. /\ s \in Handle /\ Keeps(r, s)
      /\ s.status = r.status /\ s.phase = "opening" /\ s.cancelled = r.cancelled
      /\ s.session = r.session /\ s.child = "alive" /\ s.result = r.result
  BY <1>1, <1>2 DEF Keeps, Handle, WithPermit, Over
<1> HIDE DEF r, s
<1>4. Relies(r, s)
  BY <1>1, <1>2, <1>3 DEF Sound, Relies, Keeps, Early, Down, Over, Terminal
<1>5. Drives(r, s)
  BY <1>1, <1>2, <1>3, <1>4 DEF Sound, Drives, Early, Down, Over, Terminal
<1>6. Accounts(h, r, s)
  BY <1>1, <1>2, <1>3 DEF Accounts, Tells, Holds, Keeps, WithPermit, Over, Terminal, Sound
<1> QED
  BY <1>2, <1>3, <1>5, <1>6 DEF DriverStep, r

LEMMA OpenedDrives ==
  ASSUME IInv, NEW h \in Handles, Opened(h)
  PROVE  DriverStep(h)
<1> DEFINE r == handle[h]
           s == [[r EXCEPT !.session = TRUE] EXCEPT !.phase = "turn"]
<1>1. /\ r \in Handle /\ Sound(r) /\ r.turns \in Nat /\ permits \in Nat
      /\ handle = [handle EXCEPT ![h] = r]
  BY Shape
<1>2. /\ r.phase = "opening" /\ ~r.cancelled /\ r.kind = "spawn"
      /\ handle' = [handle EXCEPT ![h] = s]
      /\ Writes(h, "running") /\ UNCHANGED <<permits, bound, task>>
  BY <1>1 DEF Opened, Becomes
<1>3. /\ s \in Handle /\ Keeps(r, s)
      /\ s.status = r.status /\ s.phase = "turn" /\ s.cancelled = r.cancelled
      /\ s.session = TRUE /\ s.child = r.child /\ s.result = r.result
  BY <1>1, <1>2 DEF Keeps, Handle, WithPermit, Over
<1> HIDE DEF r, s
<1>4. Relies(r, s)
  BY <1>1, <1>2, <1>3 DEF Sound, Relies, Keeps, Early, Down, Over, Terminal
<1>5. Drives(r, s)
  BY <1>1, <1>2, <1>3, <1>4 DEF Sound, Drives, Early, Down, Over, Terminal
<1>6. /\ row' \in [of : {h}, status : {"running"} \cup Terminal]
      /\ row'.of = h /\ row'.status = "running"
  BY <1>2, Written DEF Terminal
<1>7. s.status = "running" \/ row'.status # "running"
  BY <1>1, <1>2, <1>3, <1>6 DEF Sound, Early
<1>8. Tells(h, r, s)
  BY <1>6, <1>7 DEF Tells
<1>9. Accounts(h, r, s)
  BY <1>1, <1>2, <1>3, <1>8 DEF Accounts, Holds, Keeps, WithPermit, Over, Terminal, Sound
<1> QED
  BY <1>2, <1>3, <1>5, <1>9 DEF DriverStep, r

LEMMA LearnsIdDrives ==
  ASSUME IInv, NEW h \in Handles, LearnsId(h)
  PROVE  DriverStep(h)
<1> DEFINE r == handle[h]
           s == r
<1>1. /\ r \in Handle /\ Sound(r) /\ r.turns \in Nat /\ permits \in Nat
      /\ handle = [handle EXCEPT ![h] = r]
  BY Shape
<1>2. /\ r.phase = "turn" /\ r.turns = 0 /\ r.kind = "spawn" /\ ~r.cancelled
      /\ handle' = [handle EXCEPT ![h] = s]
      /\ Writes(h, "running") /\ UNCHANGED <<permits, bound, task>>
  BY <1>1 DEF LearnsId, Becomes
<1>3. /\ s \in Handle /\ Keeps(r, s)
      /\ s.status = r.status /\ s.phase = r.phase /\ s.cancelled = r.cancelled
      /\ s.session = r.session /\ s.child = r.child /\ s.result = r.result
  BY <1>1, <1>2 DEF Keeps, Handle, WithPermit, Over
<1> HIDE DEF r, s
<1>4. Relies(r, s)
  BY <1>1, <1>2, <1>3 DEF Sound, Relies, Keeps, Early, Down, Over, Terminal
<1>5. Drives(r, s)
  BY <1>1, <1>2, <1>3, <1>4 DEF Sound, Drives, Early, Down, Over, Terminal
<1>6. /\ row' \in [of : {h}, status : {"running"} \cup Terminal]
      /\ row'.of = h /\ row'.status = "running"
  BY <1>2, Written DEF Terminal
<1>7. s.status = "running" \/ row'.status # "running"
  BY <1>1, <1>2, <1>3, <1>6 DEF Sound, Early
<1>8. Tells(h, r, s)
  BY <1>6, <1>7 DEF Tells
<1>9. Accounts(h, r, s)
  BY <1>1, <1>2, <1>3, <1>8 DEF Accounts, Holds, Keeps, WithPermit, Over, Terminal, Sound
<1> QED
  BY <1>2, <1>3, <1>5, <1>9 DEF DriverStep, r

LEMMA HostTakesDrives ==
  ASSUME IInv, NEW h \in Handles, HostTakes(h)
  PROVE  DriverStep(h)
<1> DEFINE r == handle[h]
           s == r
<1>1. /\ r \in Handle /\ Sound(r) /\ r.turns \in Nat /\ permits \in Nat
      /\ handle = [handle EXCEPT ![h] = r]
  BY Shape
<1>2. /\ r.phase = "turn" /\ r.kind = "host" /\ ~r.cancelled
      /\ handle' = [handle EXCEPT ![h] = s]
      /\ Writes(h, "running") /\ UNCHANGED <<permits, bound, task>>
  BY <1>1 DEF HostTakes, Becomes
<1>3. /\ s \in Handle /\ Keeps(r, s)
      /\ s.status = r.status /\ s.phase = r.phase /\ s.cancelled = r.cancelled
      /\ s.session = r.session /\ s.child = r.child /\ s.result = r.result
  BY <1>1, <1>2 DEF Keeps, Handle, WithPermit, Over
<1> HIDE DEF r, s
<1>4. Relies(r, s)
  BY <1>1, <1>2, <1>3 DEF Sound, Relies, Keeps, Early, Down, Over, Terminal
<1>5. Drives(r, s)
  BY <1>1, <1>2, <1>3, <1>4 DEF Sound, Drives, Early, Down, Over, Terminal
<1>6. /\ row' \in [of : {h}, status : {"running"} \cup Terminal]
      /\ row'.of = h /\ row'.status = "running"
  BY <1>2, Written DEF Terminal
<1>7. s.status = "running" \/ row'.status # "running"
  BY <1>1, <1>2, <1>3, <1>6 DEF Sound, Early
<1>8. Tells(h, r, s)
  BY <1>6, <1>7 DEF Tells
<1>9. Accounts(h, r, s)
  BY <1>1, <1>2, <1>3, <1>8 DEF Accounts, Holds, Keeps, WithPermit, Over, Terminal, Sound
<1> QED
  BY <1>2, <1>3, <1>5, <1>9 DEF DriverStep, r

LEMMA OpenFailsDrives ==
  ASSUME IInv, NEW h \in Handles, NEW why \in {"failed", "timeout"},
         OpenFails(h, why)
  PROVE  DriverStep(h)
<1> DEFINE r == handle[h]
           s == [r EXCEPT !.phase = "undo", !.why = why]
<1>1. /\ r \in Handle /\ Sound(r) /\ r.turns \in Nat /\ permits \in Nat
      /\ handle = [handle EXCEPT ![h] = r]
  BY Shape
<1>2. /\ r.phase = "opening" /\ ~r.cancelled
      /\ handle' = [handle EXCEPT ![h] = s]
      /\ UNCHANGED <<permits, bound, row, task>>
  BY <1>1 DEF OpenFails, Becomes
<1>3. /\ s \in Handle /\ Keeps(r, s)
      /\ s.status = r.status /\ s.phase = "undo" /\ s.cancelled = r.cancelled
      /\ s.session = r.session /\ s.child = r.child /\ s.result = r.result
  BY <1>1, <1>2 DEF Keeps, Handle, WithPermit, Over
<1> HIDE DEF r, s
<1>4. Relies(r, s)
  BY <1>1, <1>2, <1>3 DEF Sound, Relies, Keeps, Early, Down, Over, Terminal
<1>5. Drives(r, s)
  BY <1>1, <1>2, <1>3, <1>4 DEF Sound, Drives, Early, Down, Over, Terminal
<1>6. Accounts(h, r, s)
  BY <1>1, <1>2, <1>3 DEF Accounts, Tells, Holds, Keeps, WithPermit, Over, Terminal, Sound
<1> QED
  BY <1>2, <1>3, <1>5, <1>6 DEF DriverStep, r

LEMMA DisconnectedDrives ==
  ASSUME IInv, NEW h \in Handles, Disconnected(h)
  PROVE  DriverStep(h)
<1> DEFINE r == handle[h]
           s == [r EXCEPT !.child = "gone"]
<1>1. /\ r \in Handle /\ Sound(r) /\ r.turns \in Nat /\ permits \in Nat
      /\ handle = [handle EXCEPT ![h] = r]
  BY Shape
<1>2. /\ r.child = "closing"
      /\ handle' = [handle EXCEPT ![h] = s]
      /\ UNCHANGED <<permits, bound, row, task>>
  BY <1>1 DEF Disconnected, Becomes
<1>3. /\ s \in Handle /\ Keeps(r, s)
      /\ s.status = r.status /\ s.phase = r.phase /\ s.cancelled = r.cancelled
      /\ s.session = r.session /\ s.child = "gone" /\ s.result = r.result
  BY <1>1, <1>2 DEF Keeps, Handle, WithPermit, Over
<1> HIDE DEF r, s
<1>4. Relies(r, s)
  BY <1>1, <1>2, <1>3 DEF Sound, Relies, Keeps, Early, Down, Over, Terminal
<1>5. Drives(r, s)
  BY <1>1, <1>2, <1>3, <1>4 DEF Sound, Drives, Early, Down, Over, Terminal
<1>6. Accounts(h, r, s)
  BY <1>1, <1>2, <1>3 DEF Accounts, Tells, Holds, Keeps, WithPermit, Over, Terminal, Sound
<1> QED
  BY <1>2, <1>3, <1>5, <1>6 DEF DriverStep, r

LEMMA TurnEndsDrives ==
  ASSUME IInv, NEW h \in Handles, TurnEnds(h) \/ HostAnswers(h)
  PROVE  DriverStep(h)
<1> DEFINE r == handle[h]
<1>1. r \in Handle /\ Sound(r) /\ r.turns \in Nat /\ permits \in Nat
  BY Shape
<1>2. /\ r.phase = "turn" /\ ~r.cancelled /\ GivesBack(r) /\ UNCHANGED <<bound, task>>
      /\ \/ r.turns = 0 /\ Completes(h)
         \/ r.turns > 0 /\ Becomes(h, Leaves(r, "ok")) /\ UNCHANGED row
  BY <1>1 DEF TurnEnds, HostAnswers, GivesBack, Sound
<1>3. CASE r.turns = 0 /\ Completes(h)
  BY <1>2, <1>3, CompletesDrives
<1>4. CASE r.turns > 0 /\ Becomes(h, Leaves(r, "ok")) /\ UNCHANGED row
  BY <1>2, <1>4, FollowUpDrives DEF Becomes, Over
<1> QED
  BY <1>2, <1>3, <1>4

LEMMA DriverFailsDrives ==
  ASSUME IInv, NEW h \in Handles, DriverFails(h)
  PROVE  DriverStep(h)
<1> DEFINE r == handle[h]
<1>1. r \in Handle /\ Sound(r) /\ r.turns \in Nat
  BY Shape
<1>2. /\ r.phase \in {"queued", "connecting", "turn"} /\ ~r.cancelled
      /\ Becomes(h, IF r.turns = 0 THEN Failing(r) ELSE Leaves(r, "failed"))
      /\ WritesIf(r.turns = 0, h, "error") /\ GivesBack(r) /\ UNCHANGED <<bound, task>>
  BY DEF DriverFails
<1>3. Keeps(r, r)
  BY DEF Keeps
<1> HIDE DEF r
<1>4. CASE r.turns = 0
  <2>1. /\ handle' = [handle EXCEPT ![h] = Failing(r)] /\ Writes(h, "error")
        /\ r.phase # "undo"
    BY <1>2, <1>4 DEF Becomes, WritesIf
  <2> QED
    BY <1>1, <1>2, <1>3, <1>4, <2>1, FailingDrives DEF r
<1>5. CASE r.turns > 0
  <2>1. ~(r.turns = 0)
    BY <1>1, <1>5
  <2>2. handle' = [handle EXCEPT ![h] = Leaves(r, "failed")] /\ UNCHANGED row
    BY <1>2, <2>1 DEF Becomes, WritesIf
  <2> QED
    BY <1>1, <1>2, <1>5, <2>2, FollowUpDrives DEF r, Over
<1> QED
  BY <1>1, <1>4, <1>5

(* q is the handle with its child gone or torn, and the reason to raise.   *)
LEMMA RaisesDrives ==
  ASSUME IInv, NEW h \in Handles, NEW q \in Handle, Raises(h, q),
         Keeps(handle[h], q), q.status = handle[h].status,
         q.session = handle[h].session, q.result = handle[h].result,
         q.child # "alive", handle[h].phase = "undo",
         GivesBack(handle[h]), UNCHANGED <<bound, task>>
  PROVE  DriverStep(h)
<1>1. handle[h].turns = 0
  BY Shape DEF Sound
<1>2. CASE q.why = "cancelled"
  <2>1. handle' = [handle EXCEPT ![h] = Stopping(q)]
        /\ ((row' = row /\ ~Speaks(q)) \/ Writes(h, "interrupted"))
    BY <1>2 DEF Raises, Becomes, WritesIf
  <2> QED
    BY <2>1, StoppingDrives
<1>3. CASE q.why # "cancelled"
  <2>1. handle' = [handle EXCEPT ![h] = Failing(q)] /\ Writes(h, "error")
    BY <1>3 DEF Raises, Becomes
  <2> QED
    BY <1>1, <2>1, FailingDrives
<1> QED
  BY <1>2, <1>3

LEMMA UndoneDrives ==
  ASSUME IInv, NEW h \in Handles, Undone(h) \/ UndoCut(h)
  PROVE  DriverStep(h)
<1> DEFINE r == handle[h]
<1>1. r \in Handle
  BY Shape
<1>2. /\ r.phase = "undo" /\ GivesBack(r) /\ UNCHANGED <<bound, task>>
  BY DEF Undone, UndoCut, GivesBack, WithPermit
<1>3. CASE Undone(h)
  <2> DEFINE q == [r EXCEPT !.child = "gone"]
  <2>1. /\ q \in Handle /\ Keeps(r, q) /\ q.status = r.status /\ q.session = r.session
        /\ q.result = r.result /\ q.child # "alive"
    BY <1>1, ChildParts
  <2>2. Raises(h, q)
    BY <1>3 DEF Undone
  <2> HIDE DEF q
  <2> QED
    BY <1>2, <2>1, <2>2, RaisesDrives
<1>4. CASE UndoCut(h)
  <2> DEFINE c == [r EXCEPT !.child = "torn"]
             q == IF c.cancelled THEN [c EXCEPT !.why = "cancelled"] ELSE c
  <2>1. /\ c \in Handle /\ Keeps(r, c) /\ c.status = r.status /\ c.session = r.session
        /\ c.result = r.result /\ c.child = "torn"
    BY <1>1, ChildParts
  <2>2. Raises(h, q)
    BY <1>4 DEF UndoCut
  <2> HIDE DEF c
  <2>3. /\ q \in Handle /\ Keeps(c, q) /\ q.status = c.status /\ q.session = c.session
        /\ q.result = c.result /\ q.child = c.child
    BY <2>1 DEF Handle, Keeps
  <2> HIDE DEF q
  <2>4. Keeps(r, q)
    BY <2>1, <2>3 DEF Keeps
  <2> QED
    BY <1>2, <2>1, <2>2, <2>3, <2>4, RaisesDrives
<1> QED
  BY <1>3, <1>4

LEMMA CancelHitsOpening ==
  ASSUME IInv, NEW h \in Handles, handle[h].phase = "opening", handle[h].cancelled,
         handle' = [handle EXCEPT ![h] = [handle[h] EXCEPT !.phase = "undo",
                                             !.why = "cancelled", !.cancelled = FALSE]],
         UNCHANGED <<permits, bound, row, task>>
  PROVE  DriverStep(h)
<1> DEFINE r == handle[h]
           s == [r EXCEPT !.phase = "undo", !.why = "cancelled", !.cancelled = FALSE]
<1>1. r \in Handle /\ Sound(r) /\ r.turns \in Nat /\ permits \in Nat
  BY Shape
<1>2. handle' = [handle EXCEPT ![h] = s] /\ r.phase = "opening" /\ r.cancelled
  OBVIOUS
<1>3. /\ s \in Handle /\ Keeps(r, s)
      /\ s.status = r.status /\ s.phase = "undo" /\ s.cancelled = FALSE
      /\ s.session = r.session /\ s.child = r.child /\ s.result = r.result
  BY <1>1 DEF Keeps, Handle, WithPermit
<1> HIDE DEF r, s
<1>4. Relies(r, s)
  BY <1>1, <1>2, <1>3 DEF Sound, Relies, Keeps, Early, Down, Over, Terminal
<1>5. Drives(r, s)
  BY <1>1, <1>2, <1>3, <1>4 DEF Sound, Drives, Early, Down, Over, Terminal
<1>6. Accounts(h, r, s)
  BY <1>1, <1>2, <1>3 DEF Accounts, Tells, Holds, Keeps, WithPermit
<1> QED
  BY <1>2, <1>3, <1>5, <1>6 DEF DriverStep, r

(* A driver that says nothing on its way out: an interrupt that took the   *)
(* handle down, or a close, settles it.                                    *)
LEMMA SilentlyDrives ==
  ASSUME IInv, NEW h \in Handles, handle[h].phase \in {"unstarted", "closing"},
         handle[h].cancelled, handle' = [handle EXCEPT ![h] = Leaves(handle[h], "cancelled")],
         GivesBack(handle[h]), UNCHANGED <<bound, row, task>>
  PROVE  DriverStep(h)
<1> DEFINE r == handle[h]
           s == Leaves(r, "cancelled")
<1>1. r \in Handle /\ Sound(r) /\ r.turns \in Nat
  BY Shape
<1>2. handle' = [handle EXCEPT ![h] = s] /\ r.phase \in {"unstarted", "closing"} /\ r.cancelled
  OBVIOUS
<1>3. /\ s \in Handle /\ Keeps(r, s)
      /\ s.status = r.status /\ s.phase = "cancelled" /\ s.cancelled = FALSE
      /\ s.session = r.session /\ s.child = r.child /\ s.result = r.result
  BY <1>1, LeavesParts DEF Over
<1> HIDE DEF r, s
<1>4. Relies(r, s)
  BY <1>1, <1>2, <1>3 DEF Sound, Relies, Keeps, Early, Down, Over, Terminal
<1> QED
  BY <1>2, <1>3, <1>4, Ending DEF r, Over

LEMMA DriverClosedDrives ==
  ASSUME IInv, NEW h \in Handles, DriverClosed(h)
  PROVE  DriverStep(h)
<1> DEFINE r == handle[h]
           d == Settled(r, "exception")
           s == Leaves(d, "failed")
<1>1. r \in Handle /\ Sound(r) /\ r.turns \in Nat /\ permits \in Nat
  BY Shape
<1>2. /\ handle' = [handle EXCEPT ![h] = s] /\ r.phase = "closing" /\ ~r.cancelled
      /\ UNCHANGED <<permits, bound, row, task>>
  BY DEF DriverClosed, Becomes
<1>3. /\ d \in Handle /\ Keeps(r, d) /\ d.status = r.status /\ d.session = r.session
      /\ d.child = r.child /\ d.result # "pending"
  BY <1>1, SettledParts
<1> HIDE DEF d
<1>4. /\ s \in Handle /\ Keeps(d, s) /\ s.status = d.status /\ s.phase = "failed"
      /\ s.cancelled = FALSE /\ s.session = d.session /\ s.child = d.child
      /\ s.result = d.result
  BY <1>3, LeavesParts DEF Over
<1> HIDE DEF r, s
<1>5. Keeps(r, s)
  BY <1>3, <1>4 DEF Keeps
<1>6. Relies(r, s)
  BY <1>1, <1>2, <1>3, <1>4, <1>5 DEF Sound, Relies, Keeps, Early, Down, Over, Terminal
<1>7. GivesBack(r)
  BY <1>1, <1>2 DEF GivesBack, WithPermit
<1> QED
  BY <1>2, <1>3, <1>4, <1>5, <1>6, <1>7, Ending DEF r, Over

LEMMA CancelHitsDrives ==
  ASSUME IInv, NEW h \in Handles, CancelHits(h)
  PROVE  DriverStep(h)
<1> DEFINE r == handle[h]
<1>1. r \in Handle
  BY Shape
<1>2. r.cancelled /\ UNCHANGED <<bound, task>>
  BY DEF CancelHits
<1>3. CASE r.phase = "opening"
  <2>1. handle' = [handle EXCEPT ![h] = [r EXCEPT !.phase = "undo", !.why = "cancelled",
                                                  !.cancelled = FALSE]]
        /\ UNCHANGED <<permits, row>>
    BY <1>3 DEF CancelHits, Becomes
  <2> QED
    BY <1>2, <1>3, <2>1, CancelHitsOpening
<1>4. CASE r.phase \in {"unstarted", "closing"}
  <2>1. handle' = [handle EXCEPT ![h] = Leaves(r, "cancelled")] /\ GivesBack(r)
        /\ UNCHANGED row
    BY <1>4 DEF CancelHits, Becomes
  <2> QED
    BY <1>2, <1>4, <2>1, SilentlyDrives
<1>5. CASE r.phase \in {"queued", "connecting", "turn"}
  <2>1. handle' = [handle EXCEPT ![h] = Stopping(r)] /\ GivesBack(r)
        /\ ((row' = row /\ ~Speaks(r)) \/ Writes(h, "interrupted"))
    BY <1>5 DEF CancelHits, Becomes, WritesIf
  <2>2. Keeps(r, r)
    BY DEF Keeps
  <2>3. r.phase # "undo"
    BY <1>5
  <2> HIDE DEF r
  <2> QED
    BY <1>1, <1>2, <1>5, <2>1, <2>2, <2>3, StoppingDrives DEF r
<1> QED
  BY <1>3, <1>4, <1>5 DEF CancelHits

LEMMA DriverSteps ==
  ASSUME IInv, NEW h \in Handles, DriverNext(h)
  PROVE  DriverStep(h)
<1>1. ASSUME NEW why \in {"failed", "timeout"}, OpenFails(h, why) PROVE DriverStep(h)
  BY <1>1, OpenFailsDrives
<1> QED
  BY <1>1, DriverStartsDrives, AcquiresDrives, ConnectedDrives, OpenedDrives, ResumedDrives,
     LearnsIdDrives, HostTakesDrives, TurnEndsDrives, DriverFailsDrives, UndoneDrives,
     CancelHitsDrives, DriverClosedDrives, DisconnectedDrives DEF DriverNext

-----------------------------------------------------------------------------
(* What a step on one handle h leaves of the rest.  `task` may change for  *)
(* tasks that are at h or nowhere, before the step and after it.           *)
AtMost(h) ==
  /\ handle' \in [Handles -> Handle] /\ task' \in [Tasks -> Task]
  /\ \A g \in Handles : g # h => handle'[g] = handle[g]
  /\ \A u \in Tasks : task'[u] # task[u] =>
       task[u].on \in {h, None} /\ task'[u].on \in {h, None}

LEMMA OthersHandled ==
  ASSUME IInv, NEW h, AtMost(h), NEW g \in Handles, g # h,
         bound' = bound \/ ~(handle[g].status = "running" \/ handle[g].session)
  PROVE  Handled(g)' /\ Room(g)'
<1>1. handle'[g] = handle[g] /\ Handled(g) /\ Room(g) /\ g # None
  BY Sizes DEF AtMost, IInv
<1>2. \A u \in Tasks : task'[u].on = g \/ task[u].on = g => task'[u] = task[u]
  BY <1>1 DEF AtMost
<1>3. ASSUME NEW pcs PROVE At(g, pcs)' <=> At(g, pcs)
  BY <1>2 DEF At
<1>4. At(g, {"turning"})' <=> At(g, {"turning"})
  BY <1>3
<1>5. At(g, {"drain", "cancelling"})' <=> At(g, {"drain", "cancelling"})
  BY <1>3
<1>6. At(g, {"cancelling", "reaping"})' <=> At(g, {"cancelling", "reaping"})
  BY <1>3
<1>7. At(g, {"drain", "cancelling", "reaping"})' <=> At(g, {"drain", "cancelling", "reaping"})
  BY <1>3
<1>8. Sound(handle[g])' <=> Sound(handle[g])
  BY <1>1 DEF Sound
<1>9. Handled(g)'
  BY <1>1, <1>4, <1>5, <1>6, <1>7, <1>8 DEF Handled
<1>10. Senders(g)' = Senders(g)
  BY <1>2 DEF Senders
<1>11. Room(g)'
  BY <1>1, <1>10 DEF Room
<1> QED
  BY <1>9, <1>11

(* A task that does not move goes on relying on what it relied on.         *)
LEMMA OthersRely ==
  ASSUME IInv, NEW h, AtMost(h), NEW u \in Tasks, task'[u] = task[u],
         h \in Handles /\ handle[h].phase # "none" =>
           /\ Relies(handle[h], handle'[h])
           /\ handle[h].lock = u => handle'[h].lock = u
  PROVE  Caller(u)'
<1> DEFINE g == task[u].on
           x == task[u]
<1>1. Caller(u) /\ x \in Task
  BY DEF IInv, Typed
<1>2. CASE g = None
  <2>1. x.pc \in {"idle", "wanting", "running"}
    BY <1>1, <1>2 DEF Caller
  <2> QED
    BY <1>2, <2>1 DEF Caller
<1>3. CASE g # None /\ g # h
  <2>1. g \in Handles
    BY <1>1, <1>3 DEF Task
  <2>2. handle'[g] = handle[g]
    BY <1>3, <2>1 DEF AtMost
  <2> QED
    BY <1>1, <2>2 DEF Caller
<1>4. CASE g = h /\ g # None
  <2>1. h \in Handles
    BY <1>1, <1>4 DEF Task
  <2> DEFINE r == handle[h]
             s == handle'[h]
  <2>2. /\ x.pc \notin {"idle", "wanting", "running"} /\ r.phase # "none"
        /\ x.pc \in {"settling", "turning"} => r.lock = u
        /\ x.pc = "turning" => r.turns > 0
        /\ x.pc \in {"drain", "cancelling"} => x.turn <= r.turns
        /\ x.pc = "cancelling" /\ r.turns = 0 => r.cancelled \/ r.phase \in Down
        /\ x.pc = "reaping" => ~r.session /\ (r.cancelled \/ r.phase \in Down)
        /\ x.pc = "closing" => r.result # "pending"
    BY <1>1, <1>4 DEF Caller
  <2>3. Relies(r, s) /\ (r.lock = u => s.lock = u) /\ r.turns \in Nat /\ x.turn \in Nat
    BY <1>1, <2>2, <2>1, Shape, Sizes DEF Task
  <2>4. s.turns \in Nat
    BY <2>3, Sizes DEF Relies, Handle
  <2> HIDE DEF r, s
  <2>5. /\ s.phase # "none"
        /\ x.pc \in {"settling", "turning"} => s.lock = u
        /\ x.pc = "turning" => s.turns > 0
        /\ x.pc \in {"drain", "cancelling"} => x.turn <= s.turns
        /\ x.pc = "cancelling" /\ s.turns = 0 => s.cancelled \/ s.phase \in Down
        /\ x.pc = "reaping" => ~s.session /\ (s.cancelled \/ s.phase \in Down)
        /\ x.pc = "closing" => s.result # "pending"
    BY <2>2, <2>3, <2>4 DEF Relies
  <2> QED
    BY <1>4, <2>2, <2>5 DEF Caller, s
<1> QED
  BY <1>2, <1>3, <1>4

(* The semaphore's books.                                                  *)
LEMMA HoldersAre ==
  Holders = {h \in Handles : Holds(handle[h])} \cup {t \in Tasks : task[t].pc = "running"}
BY DEF Holders, Holds

LEMMA HoldersFinite ==
  /\ IsFiniteSet(Holders) /\ Cardinality(Holders) \in Nat
  /\ IsFiniteSet(Holders') /\ Cardinality(Holders') \in Nat
<1>1. IsFiniteSet(Handles \cup Tasks)
  BY Sizes, FS_Union
<1>2. Holders \subseteq Handles \cup Tasks /\ Holders' \subseteq Handles \cup Tasks
  BY DEF Holders
<1> QED
  BY <1>1, <1>2, FS_Subset, FS_CardinalityType

LEMMA PermitsSame ==
  ASSUME PermitsKept, permits' = permits, Holders' = Holders
  PROVE  PermitsKept'
BY DEF PermitsKept

LEMMA PermitTaken ==
  ASSUME PermitsKept, permits \in Nat, permits > 0, permits' = permits - 1,
         NEW x, x \notin Holders, Holders' = Holders \cup {x}
  PROVE  PermitsKept' /\ permits' \in Nat
<1>1. Cardinality(Holders') = Cardinality(Holders) + 1
  BY HoldersFinite, FS_AddElement
<1> QED
  BY <1>1, HoldersFinite DEF PermitsKept

LEMMA PermitBack ==
  ASSUME PermitsKept, permits \in Nat, permits' = permits + 1,
         NEW x \in Holders, Holders' = Holders \ {x}
  PROVE  PermitsKept' /\ permits' \in Nat
<1>1. Cardinality(Holders') = Cardinality(Holders) - 1
  BY HoldersFinite, FS_RemoveElement
<1> QED
  BY <1>1, HoldersFinite DEF PermitsKept

(* Steps that leave the semaphore alone.                                   *)
LEMMA PermitsUntouched ==
  ASSUME IInv, NEW h \in Handles, AtMost(h), permits' = permits,
         Holds(handle[h]) <=> Holds(handle'[h]),
         \A u \in Tasks : task'[u].pc = "running" <=> task[u].pc = "running"
  PROVE  PermitsKept' /\ permits' \in Nat
<1>1. \A g \in Handles : Holds(handle'[g]) <=> Holds(handle[g])
  BY DEF AtMost
<1>2. Holders' = {g \in Handles : Holds(handle'[g])} \cup {t \in Tasks : task'[t].pc = "running"}
  BY HoldersAre DEF Holders, Holds
<1>3. Holders' = Holders
  BY <1>1, <1>2, HoldersAre
<1> QED
  BY <1>3, PermitsSame DEF IInv, Typed

LEMMA AtLess ==
  ASSUME NEW h \in Handles
  PROVE  /\ At(h, {"drain", "cancelling"}) => At(h, {"drain", "cancelling", "reaping"})
         /\ At(h, {"cancelling", "reaping"}) => At(h, {"drain", "cancelling", "reaping"})
BY DEF At

LEMMA DriverKeeps ==
  ASSUME IInv, NEW h \in Handles, DriverNext(h)
  PROVE  IInv'
<1> DEFINE r == handle[h]
<1>1. PICK s \in Handle : /\ handle' = [handle EXCEPT ![h] = s]
                          /\ Drives(r, s) /\ Accounts(h, r, s)
  BY DriverSteps DEF DriverStep
<1>2. handle \in [Handles -> Handle] /\ task \in [Tasks -> Task] /\ handle'[h] = s
  BY <1>1 DEF IInv, Typed
<1>3. AtMost(h) /\ task' = task /\ bound' = bound
  BY <1>1, <1>2 DEF AtMost, Accounts
<1>4. Handled(h) /\ Room(h) /\ r.turns \in Nat
  BY Shape DEF IInv
<1>5. Relies(r, s) /\ Keeps(r, s)
  BY <1>1 DEF Drives
<1>6. \A u \in Tasks : Caller(u)'
  BY <1>2, <1>3, <1>5, OthersRely DEF Keeps
<1>7. \A g \in Handles : g # h => Handled(g)' /\ Room(g)'
  BY <1>3, OthersHandled
<1>8. Room(h)'
  <2>1. Senders(h)' = Senders(h)
    BY <1>3 DEF Senders
  <2> QED
    BY <1>2, <1>4, <1>5, <2>1 DEF Room, Keeps
<1>9. Handled(h)'
  <2>1. /\ At(h, {"turning"})' <=> At(h, {"turning"})
        /\ At(h, {"drain", "cancelling"})' <=> At(h, {"drain", "cancelling"})
        /\ At(h, {"cancelling", "reaping"})' <=> At(h, {"cancelling", "reaping"})
        /\ At(h, {"drain", "cancelling", "reaping"})'
             <=> At(h, {"drain", "cancelling", "reaping"})
    BY <1>3 DEF At
  <2>2. Sound(s) /\ (s.result = "pending" => r.result = "pending")
    BY <1>5 DEF Relies
  <2>3. /\ r.status = "running" \/ r.session => bound = h
        /\ r.turns > 0 /\ r.phase \notin Over => At(h, {"turning"})
        /\ r.interrupting /\ r.result = "pending" => At(h, {"drain", "cancelling"})
        /\ r.cancelled /\ r.result = "pending" => r.cut \/ At(h, {"cancelling", "reaping"})
        /\ r.phase \in Over /\ r.result = "pending" =>
             r.cut \/ At(h, {"drain", "cancelling", "reaping"})
    BY <1>4 DEF Handled
  <2> HIDE DEF r
  <2>4. /\ s.status = "running" \/ s.session => bound' = h
        /\ s.turns > 0 /\ s.phase \notin Over => At(h, {"turning"})'
        /\ s.interrupting /\ s.result = "pending" => At(h, {"drain", "cancelling"})'
        /\ s.cancelled /\ s.result = "pending" => s.cut \/ At(h, {"cancelling", "reaping"})'
        /\ s.phase \in Over /\ s.result = "pending" =>
             s.cut \/ At(h, {"drain", "cancelling", "reaping"})'
    BY <1>1, <1>3, <1>5, <2>1, <2>2, <2>3, AtLess DEF Drives, Keeps
  <2> QED
    BY <1>2, <2>2, <2>4 DEF Handled
<1>10. NoPhantoms'
  <2> SUFFICES ASSUME row'.status = "running"
               PROVE  \/ handle'[row'.of].status = "running"
                      \/ handle'[row'.of].cut
                      \/ \E t \in Tasks : task'[t].pc = "closing" /\ task'[t].on = row'.of
    BY DEF NoPhantoms
  <2>1. Tells(h, r, s)
    BY <1>1 DEF Accounts
  <2>2. CASE row' # row
    <3>1. row'.of = h
      BY <2>1, <2>2 DEF Tells
    <3> QED
      BY <1>2, <2>1, <2>2, <3>1 DEF Tells
  <2>3. CASE row' = row
    <3>1. row.of \in Handles /\ NoPhantoms
      BY <2>3 DEF IInv, Typed
    <3>2. CASE row.of # h
      <4>1. handle'[row.of] = handle[row.of]
        BY <1>3, <3>1, <3>2 DEF AtMost
      <4> QED
        BY <1>3, <2>3, <3>1, <4>1 DEF NoPhantoms
    <3>3. CASE row.of = h
      <4>1. s.status = "running" \/ r.status # "running"
        BY <2>1, <2>3, <3>3 DEF Tells
      <4>2. s.cut = r.cut
        BY <1>5 DEF Keeps
      <4> QED
        BY <1>2, <1>3, <2>3, <3>1, <3>3, <4>1, <4>2 DEF NoPhantoms
    <3> QED
      BY <3>2, <3>3
  <2> QED
    BY <2>2, <2>3
<1>11. PermitsKept' /\ permits' \in Nat
  <2>1. \A u \in Tasks : task'[u].pc = "running" <=> task[u].pc = "running"
    BY <1>3
  <2>2. permits \in Nat /\ PermitsKept
    BY DEF IInv, Typed
  <2>3. /\ permits' = permits + (IF Holds(r) THEN 1 ELSE 0) - (IF Holds(s) THEN 1 ELSE 0)
        /\ Holds(s) /\ ~Holds(r) => permits > 0
    BY <1>1 DEF Accounts
  <2>4. Holders' = {g \in Handles : Holds(handle'[g])}
                     \cup {t \in Tasks : task'[t].pc = "running"}
    BY HoldersAre DEF Holders, Holds
  <2>5. h \notin {t \in Tasks : task[t].pc = "running"}
    BY Sizes
  <2>6. \A g \in Handles : g # h => handle'[g] = handle[g]
    BY <1>3 DEF AtMost
  <2>7. CASE Holds(r) <=> Holds(s)
    BY <1>2, <1>3, <2>1, <2>2, <2>3, <2>7, PermitsUntouched
  <2>8. CASE Holds(s) /\ ~Holds(r)
    <3>1. h \notin Holders
      BY <2>5, <2>8, HoldersAre
    <3>2. Holders' = Holders \cup {h}
      BY <1>2, <2>1, <2>4, <2>6, <2>8, HoldersAre
    <3> QED
      BY <2>2, <2>3, <2>8, <3>1, <3>2, PermitTaken
  <2>9. CASE Holds(r) /\ ~Holds(s)
    <3>1. h \in Holders
      BY <2>9, HoldersAre
    <3>2. Holders' = Holders \ {h}
      BY <1>2, <2>1, <2>4, <2>5, <2>6, <2>9, HoldersAre
    <3> QED
      BY <2>2, <2>3, <2>9, <3>1, <3>2, PermitBack
  <2> QED
    BY <2>7, <2>8, <2>9
<1>12. Typed'
  <2>1. /\ row' \in [of : Handles \cup {None},
                     status : {"none", "running", "orphaned"} \cup Terminal]
        /\ row'.status = "running" => row'.of \in Handles
    <3>1. CASE row' = row
      BY <3>1 DEF IInv, Typed
    <3>2. CASE row' \in [of : {h}, status : {"running"} \cup Terminal]
      BY <3>2
    <3> QED
      BY <1>1, <3>1, <3>2 DEF Accounts, Tells
  <2>2. bound' \in Handles \cup {None}
    BY <1>3 DEF IInv, Typed
  <2> QED
    BY <1>3, <1>11, <2>1, <2>2 DEF Typed, AtMost
<1> QED
  BY <1>6, <1>7, <1>8, <1>9, <1>10, <1>11, <1>12 DEF IInv

(* Turns of one handle do not overlap.                                     *)
TurnsApart ==
  \A h \in Handles : handle'[h].turns > handle[h].turns => handle[h].phase \in Over

LEMMA DriverTurns ==
  ASSUME IInv, NEW h \in Handles, DriverNext(h)
  PROVE  TurnsApart
<1>1. PICK s \in Handle : handle' = [handle EXCEPT ![h] = s] /\ Drives(handle[h], s)
  BY DriverSteps DEF DriverStep
<1>2. \A g \in Handles : handle'[g].turns = handle[g].turns
  BY <1>1 DEF IInv, Typed, Drives, Keeps
<1>3. \A g \in Handles : handle[g].turns \in Nat
  BY Shape
<1> QED
  BY <1>2, <1>3 DEF TurnsApart

-----------------------------------------------------------------------------
(* Steps of a calling task t at a handle h, which becomes s while the task *)
(* becomes x.  Only what concerns the two is asked for.                    *)
Sends(x, h) == x.on = h /\ x.pc \in {"locking", "settling"}

Waits(x, h, pcs) == x.on = h /\ x.pc \in pcs

\* The task relies on what Caller says, of the handle as it becomes.
Relied(t, h, s, x) ==
  /\ x.pc \in {"idle", "wanting", "running"} <=> x.on = None
  /\ x.pc \in {"settling", "turning"} => s.lock = t
  /\ x.pc = "turning" => s.turns > 0
  /\ x.pc \in {"drain", "cancelling"} => x.turn <= s.turns
  /\ x.pc = "cancelling" /\ s.turns = 0 => s.cancelled \/ s.phase \in Down
  /\ x.pc = "reaping" => ~s.session /\ (s.cancelled \/ s.phase \in Down)
  /\ x.pc = "closing" => s.result # "pending"

\* Whoever will settle the handle, or end its turn, does not go.
Stays(h, r, s, y, x) ==
  /\ s.status = "running" \/ s.session => r.status = "running" \/ r.session
  /\ s.turns > 0 /\ s.phase \notin Over =>
       \/ Waits(x, h, {"turning"})
       \/ r.turns > 0 /\ r.phase \notin Over /\ y.pc # "turning"
  /\ r.cut => s.cut
  /\ \/ s.result # "pending"
     \/ /\ s.interrupting => \/ Waits(x, h, {"drain", "cancelling"})
                             \/ r.interrupting /\ y.pc \notin {"drain", "cancelling"}
        /\ s.cancelled => \/ s.cut \/ Waits(x, h, {"cancelling", "reaping"})
                          \/ r.cancelled /\ y.pc \notin {"cancelling", "reaping"}
        /\ s.phase \in Over =>
             \/ s.cut \/ Waits(x, h, {"drain", "cancelling", "reaping"})
             \/ r.phase \in Over /\ y.pc \notin {"drain", "cancelling", "reaping"}

\* The row is kept or written.
Rows(h, r, s, y, x) ==
  \/ /\ row' = row
     /\ r.status = "running" => s.status = "running" \/ s.cut \/ Waits(x, h, {"closing"})
     /\ y.pc = "closing" => s.cut
  \/ \E st \in {"running"} \cup Terminal :
       Writes(h, st) /\ (st = "running" => s.status = "running")

\* Room is left for the sends under way.
Rooms(h, r, s, y, x) ==
  \/ s.turns = r.turns /\ (Sends(x, h) => Sends(y, h))
  \/ s.turns = r.turns + 1 /\ Sends(y, h) /\ ~Sends(x, h)
  \/ s.turns = r.turns /\ r.turns + Cardinality(Senders(h)) < MaxTurns

CallStep(t, h, s, x) ==
  /\ handle' = [handle EXCEPT ![h] = s] /\ task' = [task EXCEPT ![t] = x]
  /\ x.on \in {h, None} /\ task[t].on \in {h, None}
  /\ UNCHANGED <<permits, bound>>
  /\ Relies(handle[h], s)
  /\ Holds(s) <=> Holds(handle[h])
  /\ x.pc # "running" /\ task[t].pc # "running"
  /\ s.lock # handle[h].lock => handle[h].lock \in {t, None}
  /\ s.turns > handle[h].turns => handle[h].phase \in Over
  /\ Relied(t, h, s, x)
  /\ Stays(h, handle[h], s, task[t], x)
  /\ Rows(h, handle[h], s, task[t], x)
  /\ Rooms(h, handle[h], s, task[t], x)

LEMMA CallHandled ==
  ASSUME IInv, NEW t \in Tasks, NEW h \in Handles, NEW s \in Handle, NEW x \in Task,
         CallStep(t, h, s, x)
  PROVE  Handled(h)'
<1> DEFINE r == handle[h]
           y == task[t]
<1>1. /\ Stays(h, r, s, y, x) /\ Sound(s)
      /\ s.result = "pending" => r.result = "pending"
      /\ handle'[h] = s /\ bound' = bound
  BY DEF CallStep, Relies, IInv, Typed
<1>2. /\ task'[t] = x /\ \A u \in Tasks : u # t => task'[u] = task[u]
  BY DEF CallStep, IInv, Typed
<1>3. ASSUME NEW pcs PROVE /\ Waits(x, h, pcs) => At(h, pcs)'
                           /\ At(h, pcs) /\ y.pc \notin pcs => At(h, pcs)'
  BY <1>2 DEF At, Waits
<1>4. /\ Waits(x, h, {"turning"}) => At(h, {"turning"})'
      /\ At(h, {"turning"}) /\ y.pc # "turning" => At(h, {"turning"})'
  BY <1>3
<1>5. /\ Waits(x, h, {"drain", "cancelling"}) => At(h, {"drain", "cancelling"})'
      /\ At(h, {"drain", "cancelling"}) /\ y.pc \notin {"drain", "cancelling"} =>
           At(h, {"drain", "cancelling"})'
  BY <1>3
<1>6. /\ Waits(x, h, {"cancelling", "reaping"}) => At(h, {"cancelling", "reaping"})'
      /\ At(h, {"cancelling", "reaping"}) /\ y.pc \notin {"cancelling", "reaping"} =>
           At(h, {"cancelling", "reaping"})'
  BY <1>3
<1>7. /\ Waits(x, h, {"drain", "cancelling", "reaping"}) =>
           At(h, {"drain", "cancelling", "reaping"})'
      /\ At(h, {"drain", "cancelling", "reaping"})
           /\ y.pc \notin {"drain", "cancelling", "reaping"} =>
           At(h, {"drain", "cancelling", "reaping"})'
  BY <1>3
<1>8. /\ r.status = "running" \/ r.session => bound = h
      /\ r.turns > 0 /\ r.phase \notin Over => At(h, {"turning"})
      /\ r.interrupting /\ r.result = "pending" => At(h, {"drain", "cancelling"})
      /\ r.cancelled /\ r.result = "pending" => r.cut \/ At(h, {"cancelling", "reaping"})
      /\ r.phase \in Over /\ r.result = "pending" =>
           r.cut \/ At(h, {"drain", "cancelling", "reaping"})
  BY DEF IInv, Handled
<1> HIDE DEF r, y
<1>9. /\ s.status = "running" \/ s.session => bound' = h
      /\ s.turns > 0 /\ s.phase \notin Over => At(h, {"turning"})'
      /\ s.interrupting /\ s.result = "pending" => At(h, {"drain", "cancelling"})'
      /\ s.cancelled /\ s.result = "pending" => s.cut \/ At(h, {"cancelling", "reaping"})'
      /\ s.phase \in Over /\ s.result = "pending" =>
           s.cut \/ At(h, {"drain", "cancelling", "reaping"})'
  BY <1>1, <1>4, <1>5, <1>6, <1>7, <1>8 DEF Stays
<1> QED
  BY <1>1, <1>9 DEF Handled

LEMMA CallRoom ==
  ASSUME IInv, NEW t \in Tasks, NEW h \in Handles, NEW s \in Handle, NEW x \in Task,
         CallStep(t, h, s, x)
  PROVE  Room(h)'
<1> DEFINE r == handle[h]
           y == task[t]
<1>1. /\ Rooms(h, r, s, y, x) /\ handle'[h] = s
      /\ task'[t] = x /\ \A u \in Tasks : u # t => task'[u] = task[u]
  BY DEF CallStep, IInv, Typed
<1>2. /\ Senders(h) = {u \in Tasks : Sends(task[u], h)}
      /\ Senders(h)' = {u \in Tasks : Sends(task'[u], h)}
  BY DEF Senders, Sends
<1>3. IsFiniteSet(Senders(h)) /\ Cardinality(Senders(h)) \in Nat
  BY <1>2, Sizes, FS_Subset, FS_CardinalityType
<1>4. r.turns + Cardinality(Senders(h)) <= MaxTurns /\ r.turns \in Nat
  BY Shape DEF IInv, Room
<1> HIDE DEF r
<1>5. CASE s.turns = r.turns /\ (Sends(x, h) => Sends(y, h))
  <2>1. Senders(h)' \subseteq Senders(h)
    BY <1>1, <1>2, <1>5
  <2>2. Cardinality(Senders(h)') <= Cardinality(Senders(h)) /\ Cardinality(Senders(h)') \in Nat
    BY <1>3, <2>1, FS_Subset, FS_CardinalityType
  <2> QED
    BY <1>1, <1>3, <1>4, <1>5, <2>2, Sizes DEF Room
<1>6. CASE s.turns = r.turns + 1 /\ Sends(y, h) /\ ~Sends(x, h)
  <2>1. Senders(h)' = Senders(h) \ {t} /\ t \in Senders(h)
    BY <1>1, <1>2, <1>6
  <2>2. Cardinality(Senders(h)') = Cardinality(Senders(h)) - 1
    BY <1>3, <2>1, FS_RemoveElement
  <2> QED
    BY <1>1, <1>3, <1>4, <1>6, <2>2, Sizes DEF Room
<1>7. CASE s.turns = r.turns /\ r.turns + Cardinality(Senders(h)) < MaxTurns
  <2>1. Senders(h)' \subseteq Senders(h) \cup {t}
    BY <1>1, <1>2
  <2>2. /\ IsFiniteSet(Senders(h) \cup {t})
        /\ Cardinality(Senders(h) \cup {t}) <= Cardinality(Senders(h)) + 1
    <3>1. t \in Senders(h) => Senders(h) \cup {t} = Senders(h)
      OBVIOUS
    <3>2. t \notin Senders(h) => /\ IsFiniteSet(Senders(h) \cup {t})
                                 /\ Cardinality(Senders(h) \cup {t}) = Cardinality(Senders(h)) + 1
      BY <1>3, FS_AddElement
    <3> QED
      BY <1>3, <3>1, <3>2
  <2>3. /\ Cardinality(Senders(h)') <= Cardinality(Senders(h) \cup {t})
        /\ Cardinality(Senders(h)') \in Nat /\ Cardinality(Senders(h) \cup {t}) \in Nat
    BY <2>1, <2>2, FS_Subset, FS_CardinalityType
  <2> QED
    BY <1>1, <1>3, <1>4, <1>7, <2>2, <2>3, Sizes DEF Room
<1> QED
  BY <1>1, <1>5, <1>6, <1>7 DEF Rooms

LEMMA CallRow ==
  ASSUME IInv, NEW t \in Tasks, NEW h \in Handles, NEW s \in Handle, NEW x \in Task,
         CallStep(t, h, s, x)
  PROVE  /\ NoPhantoms'
         /\ row' \in [of : Handles \cup {None},
                      status : {"none", "running", "orphaned"} \cup Terminal]
         /\ row'.status = "running" => row'.of \in Handles
<1> DEFINE r == handle[h]
           y == task[t]
<1>1. /\ Rows(h, r, s, y, x) /\ handle'[h] = s /\ (r.cut => s.cut)
      /\ task'[t] = x /\ \A u \in Tasks : u # t => task'[u] = task[u]
      /\ \A g \in Handles : g # h => handle'[g] = handle[g]
      /\ y.on \in {h, None}
  BY DEF CallStep, Stays, IInv, Typed
<1>2. ASSUME NEW st \in {"running"} \cup Terminal, Writes(h, st),
             st = "running" => s.status = "running"
      PROVE  /\ NoPhantoms'
             /\ row' \in [of : Handles \cup {None},
                          status : {"none", "running", "orphaned"} \cup Terminal]
             /\ row'.status = "running" => row'.of \in Handles
  <2>1. row' \in [of : {h}, status : {"running"} \cup Terminal] /\ row'.of = h
        /\ row'.status = st
    BY <1>2, Written
  <2> QED
    BY <1>1, <1>2, <2>1 DEF NoPhantoms
<1>3. CASE /\ row' = row
           /\ r.status = "running" => s.status = "running" \/ s.cut \/ Waits(x, h, {"closing"})
           /\ y.pc = "closing" => s.cut
  <2>1. /\ row' \in [of : Handles \cup {None},
                     status : {"none", "running", "orphaned"} \cup Terminal]
        /\ row'.status = "running" => row'.of \in Handles
    BY <1>3 DEF IInv, Typed
  <2>2. NoPhantoms'
    <3> SUFFICES ASSUME row.status = "running"
                 PROVE  \/ handle'[row.of].status = "running"
                        \/ handle'[row.of].cut
                        \/ \E u \in Tasks : task'[u].pc = "closing" /\ task'[u].on = row.of
      BY <1>3 DEF NoPhantoms
    <3>1. /\ row.of \in Handles
          /\ \/ handle[row.of].status = "running"
             \/ handle[row.of].cut
             \/ \E u \in Tasks : task[u].pc = "closing" /\ task[u].on = row.of
      BY DEF IInv, Typed, NoPhantoms
    <3>2. CASE row.of # h
      BY <1>1, <3>1, <3>2, Sizes
    <3>3. CASE row.of = h
      BY <1>1, <1>3, <3>1, <3>3 DEF Waits
    <3> QED
      BY <3>2, <3>3
  <2> QED
    BY <2>1, <2>2
<1> QED
  BY <1>1, <1>2, <1>3 DEF Rows

LEMMA CallKeeps ==
  ASSUME IInv, NEW t \in Tasks, NEW h \in Handles, NEW s \in Handle, NEW x \in Task,
         CallStep(t, h, s, x)
  PROVE  IInv' /\ TurnsApart
<1> DEFINE r == handle[h]
           y == task[t]
<1>1. /\ handle'[h] = s /\ task'[t] = x
      /\ \A u \in Tasks : u # t => task'[u] = task[u]
      /\ \A g \in Handles : g # h => handle'[g] = handle[g]
      /\ handle' \in [Handles -> Handle] /\ task' \in [Tasks -> Task]
      /\ x.on \in {h, None} /\ y.on \in {h, None}
  BY DEF CallStep, IInv, Typed
<1>2. AtMost(h) /\ bound' = bound
  BY <1>1 DEF AtMost, CallStep
<1>3. Relies(r, s) /\ (s.lock # r.lock => r.lock \in {t, None})
  BY DEF CallStep
<1>4. ASSUME NEW u \in Tasks PROVE Caller(u)'
  <2>1. CASE u # t
    BY <1>1, <1>2, <1>3, <2>1, OthersRely, Sizes
  <2>2. CASE u = t
    <3>1. Relied(t, h, s, x) /\ s.phase # "none" /\ h # None
      BY <1>3, Sizes DEF CallStep, Relies
    <3> QED
      BY <1>1, <2>2, <3>1 DEF Relied, Caller
  <2> QED
    BY <2>1, <2>2
<1>5. \A g \in Handles : Handled(g)' /\ Room(g)'
  BY <1>2, OthersHandled, CallHandled, CallRoom
<1>6. PermitsKept' /\ permits' \in Nat
  <2>1. permits' = permits /\ (Holds(s) <=> Holds(r)) /\ x.pc # "running" /\ y.pc # "running"
    BY DEF CallStep
  <2> QED
    BY <1>1, <1>2, <2>1, PermitsUntouched
<1>7. Typed'
  BY <1>1, <1>2, <1>6, CallRow DEF Typed, IInv
<1>8. TurnsApart
  <2>1. \A g \in Handles : handle[g].turns \in Nat
    BY Shape
  <2> QED
    BY <1>1, <2>1 DEF TurnsApart, CallStep
<1> QED
  BY <1>4, <1>5, <1>6, <1>7, <1>8, CallRow DEF IInv

LEMMA AtWork ==
  ASSUME IInv, NEW t \in Tasks, task[t].pc \notin {"idle", "wanting", "running"}
  PROVE  /\ task[t] \in Task /\ task[t].on \in Handles
         /\ handle[task[t].on].phase # "none"
<1>1. Caller(t) /\ task[t] \in Task
  BY DEF IInv, Typed
<1> QED
  BY <1>1 DEF Caller, Task

LEMMA AtRest ==
  ASSUME IInv, NEW t \in Tasks, task[t].pc \in {"idle", "wanting", "running"}
  PROVE  task[t] \in Task /\ task[t].on = None
BY DEF IInv, Typed, Caller

(* A call begins: the handle as it becomes keeps what tasks rely on.       *)
LEMMA Alive ==
  ASSUME IInv, NEW h \in Handles, handle[h].status \notin {"unborn", "lost"}
  PROVE  handle[h].phase # "none"
BY Shape DEF Sound

LEMMA SendCallsKeeps ==
  ASSUME IInv, NEW t \in Tasks, NEW h \in Handles, SendCalls(t, h)
  PROVE  IInv' /\ TurnsApart
<1> DEFINE r == handle[h]
           y == task[t]
           x == [Idle EXCEPT !.pc = "locking", !.on = h]
<1>1. /\ r \in Handle /\ Sound(r) /\ r.turns \in Nat /\ handle' = [handle EXCEPT ![h] = r]
      /\ y.pc = "idle" /\ y.on = None /\ r.phase # "none" /\ h # None
      /\ task' = [task EXCEPT ![t] = x] /\ UNCHANGED <<permits, bound, row>>
      /\ r.turns + Cardinality(Senders(h)) < MaxTurns
  BY Shape, AtRest, Alive, Sizes DEF SendCalls, Senders
<1>2. x \in Task /\ x.pc = "locking" /\ x.on = h
  <2>1. Idle \in Task
    BY Sizes DEF Idle, Task
  <2> QED
    BY <2>1 DEF Task
<1> HIDE DEF r, x, y
<1>3. Relies(r, r)
  BY <1>1 DEF Relies
<1>4. Stays(h, r, r, y, x) /\ Rows(h, r, r, y, x) /\ Rooms(h, r, r, y, x)
      /\ Relied(t, h, r, x)
  BY <1>1, <1>2 DEF Stays, Rows, Rooms, Relied
<1>5. CallStep(t, h, r, x)
  BY <1>1, <1>2, <1>3, <1>4 DEF CallStep, r, y
<1> QED
  BY <1>1, <1>2, <1>5, CallKeeps

LEMMA SendLocksKeeps ==
  ASSUME IInv, NEW t \in Tasks, SendLocks(t)
  PROVE  IInv' /\ TurnsApart
<1> DEFINE y == task[t]
           h == y.on
           r == handle[h]
           s == [r EXCEPT !.lock = t]
           x == [y EXCEPT !.pc = "settling"]
<1>1. /\ y.pc = "locking" /\ r.lock = None
      /\ handle' = [handle EXCEPT ![h] = s] /\ UNCHANGED <<permits, bound, row>>
  BY DEF SendLocks, Becomes
<1>2. /\ y \in Task /\ h \in Handles /\ r.phase # "none" /\ h # None /\ y.on = h
  BY <1>1, AtWork, Sizes
<1>3. r \in Handle /\ Sound(r) /\ r.turns \in Nat
  BY <1>2, Shape
<1>4. /\ x \in Task /\ x.pc = "settling" /\ x.on = h /\ task' = [task EXCEPT ![t] = x]
  BY <1>2 DEF Task, SendLocks, Moves
<1>5. /\ s \in Handle /\ s.kind = r.kind /\ s.status = r.status /\ s.phase = r.phase
      /\ s.turns = r.turns /\ s.cancelled = r.cancelled /\ s.session = r.session
      /\ s.child = r.child /\ s.interrupting = r.interrupting /\ s.result = r.result
      /\ s.lock = t /\ s.cut = r.cut
  BY <1>3 DEF Handle
<1>6. r = handle[h] /\ y = task[t]
  OBVIOUS
<1> HIDE DEF h, r, s, x, y
<1>7. Relies(r, s)
  BY <1>2, <1>3, <1>5 DEF Relies, Sound
<1>8. Stays(h, r, s, y, x) /\ Rows(h, r, s, y, x) /\ Rooms(h, r, s, y, x)
      /\ Relied(t, h, s, x)
  BY <1>1, <1>2, <1>3, <1>4, <1>5 DEF Stays, Rows, Rooms, Relied, Sends
<1>9. CallStep(t, h, s, x)
  BY <1>1, <1>2, <1>3, <1>4, <1>5, <1>7, <1>8, <1>6 DEF CallStep, Holds
<1> QED
  BY <1>2, <1>4, <1>5, <1>9, CallKeeps

(* A send that is refused lets go of the turn lock.                        *)
Unlocking(t) ==
  /\ task[t].pc = "settling"
  /\ Becomes(task[t].on, [handle[task[t].on] EXCEPT !.lock = None])
  /\ Returns(t) /\ UNCHANGED <<permits, bound, row>>

LEMMA Unlocks ==
  ASSUME IInv, NEW t \in Tasks, Unlocking(t)
  PROVE  IInv' /\ TurnsApart
<1> DEFINE y == task[t]
           h == y.on
           r == handle[h]
           s == [r EXCEPT !.lock = None]
           x == Idle
<1>1. /\ y.pc = "settling" /\ handle' = [handle EXCEPT ![h] = s]
      /\ UNCHANGED <<permits, bound, row>> /\ task' = [task EXCEPT ![t] = x]
  BY DEF Unlocking, Becomes, Returns
<1>2. /\ y \in Task /\ h \in Handles /\ r.phase # "none" /\ h # None /\ y.on = h
      /\ r.lock = t
  BY <1>1, AtWork, Sizes DEF IInv, Caller
<1>3. r \in Handle /\ Sound(r) /\ r.turns \in Nat
  BY <1>2, Shape
<1>4. x \in Task /\ x.pc = "idle" /\ x.on = None
  BY Sizes DEF Task, Idle
<1>5. /\ s \in Handle /\ s.kind = r.kind /\ s.status = r.status /\ s.phase = r.phase
      /\ s.turns = r.turns /\ s.cancelled = r.cancelled /\ s.session = r.session
      /\ s.child = r.child /\ s.interrupting = r.interrupting /\ s.result = r.result
      /\ s.lock = None /\ s.cut = r.cut
  BY <1>3 DEF Handle
<1>6. r = handle[h] /\ y = task[t]
  OBVIOUS
<1> HIDE DEF h, r, s, x, y
<1>7. Relies(r, s)
  BY <1>2, <1>3, <1>5 DEF Relies, Sound
<1>8. Stays(h, r, s, y, x) /\ Rows(h, r, s, y, x) /\ Rooms(h, r, s, y, x)
      /\ Relied(t, h, s, x)
  BY <1>1, <1>2, <1>3, <1>4, <1>5 DEF Stays, Rows, Rooms, Relied, Sends
<1>9. CallStep(t, h, s, x)
  BY <1>1, <1>2, <1>3, <1>4, <1>5, <1>7, <1>8, <1>6 DEF CallStep, Holds
<1> QED
  BY <1>2, <1>4, <1>5, <1>9, CallKeeps

(* A send on a session that is kept finds the driver before it done.       *)
LEMMA SessionIdle ==
  ASSUME IInv, NEW t \in Tasks, task[t].pc = "settling",
         handle[task[t].on].session,
         handle[task[t].on].status = "running" => handle[task[t].on].result # "pending"
  PROVE  handle[task[t].on].phase \in Over /\ handle[task[t].on].result # "pending"
<1> DEFINE h == task[t].on
           r == handle[h]
<1>1. h \in Handles /\ r.phase # "none" /\ r.lock = t
  BY AtWork DEF IInv, Caller
<1>2. r \in Handle /\ Sound(r) /\ r.turns \in Nat /\ Handled(h)
  BY <1>1, Shape DEF IInv
<1>3. r.turns > 0 => r.phase \in Over
  <2> SUFFICES ASSUME r.turns > 0, r.phase \notin Over PROVE FALSE
    OBVIOUS
  <2>1. PICK u \in Tasks : task[u].on = h /\ task[u].pc = "turning"
    BY <1>2 DEF Handled, At
  <2>2. handle[h].lock = u
    BY <2>1 DEF IInv, Caller
  <2> QED
    BY <1>1, <2>1, <2>2
<1>4. r.session /\ (r.status = "running" => r.result # "pending")
  OBVIOUS
<1> HIDE DEF h, r
<1>5. r.status \in {"running"} \cup Terminal
  BY <1>1, <1>2 DEF Sound, Handle
<1>6. r.result # "pending"
  BY <1>2, <1>4, <1>5 DEF Sound
<1>7. r.phase \in Over
  BY <1>2, <1>3, <1>4, <1>6 DEF Sound
<1> QED
  BY <1>6, <1>7 DEF h, r

LEMMA SendGoesKeeps ==
  ASSUME IInv, NEW t \in Tasks, SendGoes(t)
  PROVE  IInv' /\ TurnsApart
<1> DEFINE y == task[t]
           h == y.on
           r == handle[h]
           s == [r EXCEPT !.status = "running", !.phase = "unstarted", !.turns = @ + 1]
           x == [y EXCEPT !.pc = "turning"]
           refused == ~r.session \/ (r.status = "running" /\ r.result = "exception")
<1>1. /\ y.pc = "settling" /\ (r.status = "running" => r.result # "pending")
      /\ UNCHANGED <<permits, bound>>
  BY DEF SendGoes
<1>2. CASE refused
  <2>1. Unlocking(t)
    BY <1>2 DEF SendGoes, Unlocking
  <2> QED
    BY <2>1, Unlocks
<1>3. CASE ~refused
  <2>1. /\ handle' = [handle EXCEPT ![h] = s] /\ Writes(h, "running") /\ r.session
        /\ task' = [task EXCEPT ![t] = [task[t] EXCEPT !.pc = "turning"]]
    BY <1>3 DEF SendGoes, Becomes, Moves
  <2>2. /\ y \in Task /\ h \in Handles /\ r.phase # "none" /\ h # None /\ y.on = h
        /\ r.lock = t
    BY <1>1, AtWork, Sizes DEF IInv, Caller
  <2>3. r.phase \in Over /\ r.result # "pending"
    BY <1>1, <2>1, SessionIdle
  <2>4. r \in Handle /\ Sound(r) /\ r.turns \in Nat
    BY <2>2, Shape
  <2>5. r.turns + 1 \in 0..MaxTurns
    <3>1. IsFiniteSet(Senders(h)) /\ t \in Senders(h)
      BY <1>1, <2>2, Sizes, FS_Subset DEF Senders
    <3>2. Cardinality(Senders(h)) \in Nat /\ Cardinality(Senders(h)) # 0
      BY <3>1, FS_CardinalityType, FS_EmptySet
    <3>3. r.turns + Cardinality(Senders(h)) <= MaxTurns
      BY <2>2 DEF IInv, Room
    <3> QED
      BY <2>4, <3>2, <3>3, Sizes
  <2>6. /\ s \in Handle /\ s.kind = r.kind /\ s.status = "running" /\ s.phase = "unstarted"
        /\ s.turns = r.turns + 1 /\ s.cancelled = r.cancelled /\ s.session = r.session
        /\ s.child = r.child /\ s.interrupting = r.interrupting /\ s.result = r.result
        /\ s.lock = t /\ s.cut = r.cut
    BY <2>2, <2>4, <2>5 DEF Handle
  <2>7. /\ x \in Task /\ x.pc = "turning" /\ x.on = h /\ task' = [task EXCEPT ![t] = x]
    BY <2>1, <2>2 DEF Task
  <2>8. r = handle[h] /\ y = task[t]
    OBVIOUS
  <2> HIDE DEF h, r, s, x, y
  <2>9. Relies(r, s)
    BY <2>1, <2>2, <2>3, <2>4, <2>6 DEF Relies, Sound, Over, Early, Down, Terminal
  <2>10. Stays(h, r, s, y, x) /\ Rows(h, r, s, y, x)
    BY <1>1, <2>1, <2>2, <2>3, <2>6, <2>7 DEF Stays, Rows, Waits
  <2>11. Rooms(h, r, s, y, x) /\ Relied(t, h, s, x)
    BY <1>1, <2>2, <2>4, <2>6, <2>7 DEF Rooms, Relied, Sends
  <2>12. CallStep(t, h, s, x)
    BY <1>1, <2>1, <2>2, <2>3, <2>4, <2>6, <2>7, <2>9, <2>10, <2>11, <2>8
       DEF CallStep, Holds, WithPermit, Over
  <2> QED
    BY <2>2, <2>6, <2>7, <2>12, CallKeeps
<1> QED
  BY <1>2, <1>3

LEMMA SendEndsKeeps ==
  ASSUME IInv, NEW t \in Tasks, SendEnds(t)
  PROVE  IInv' /\ TurnsApart
<1>0. PICK cancelled \in BOOLEAN : SendResumes(t, cancelled)
  BY DEF SendEnds
<1> DEFINE y == task[t]
           h == y.on
           r == handle[h]
           l == [r EXCEPT !.lock = None]
           st == CASE cancelled \/ l.phase = "cancelled" -> "interrupted"
                   [] ~cancelled /\ l.phase = "ok" -> "done"
                   [] ~cancelled /\ l.phase = "failed" -> "error"
           silent == st = "done" /\ (l.interrupting \/ l.status \in Terminal)
           e == [l EXCEPT !.status = st]
           s == IF silent THEN l
                ELSE IF st # "done" /\ l.session THEN Disconnecting(e) ELSE e
           x == Idle
<1>1. /\ y.pc = "turning" /\ l.phase \in Over /\ UNCHANGED <<permits, bound>>
      /\ task' = [task EXCEPT ![t] = x]
      /\ handle' = [handle EXCEPT ![h] = s]
      /\ (silent => row' = row) /\ (~silent => Writes(h, st))
  <2>1. /\ y.pc = "turning" /\ l.phase \in Over /\ UNCHANGED <<permits, bound>>
        /\ task' = [task EXCEPT ![t] = x]
    BY <1>0 DEF SendResumes, Returns
  <2>2. silent => handle' = [handle EXCEPT ![h] = l] /\ row' = row
    BY <1>0 DEF SendResumes, Becomes
  <2>3. ~silent => /\ handle' = [handle EXCEPT ![h] = IF st # "done" /\ l.session
                                                     THEN Disconnecting(e) ELSE e]
                   /\ Writes(h, st)
    BY <1>0 DEF SendResumes, Becomes
  <2>4. silent => s = l
    OBVIOUS
  <2>5. ~silent => s = IF st # "done" /\ l.session THEN Disconnecting(e) ELSE e
    OBVIOUS
  <2> HIDE DEF silent, st, e, l, s
  <2>6. handle' = [handle EXCEPT ![h] = s]
    BY <2>2, <2>3, <2>4, <2>5
  <2>7. (silent => row' = row) /\ (~silent => Writes(h, st))
    BY <2>2, <2>3
  <2> QED
    BY <2>1, <2>6, <2>7
<1>2. /\ y \in Task /\ h \in Handles /\ r.phase # "none" /\ h # None /\ y.on = h
      /\ r.lock = t /\ r.turns > 0
  BY <1>1, AtWork, Sizes DEF IInv, Caller
<1>3. r \in Handle /\ Sound(r) /\ r.turns \in Nat
  BY <1>2, Shape
<1>4. x \in Task /\ x.pc = "idle" /\ x.on = None
  BY Sizes DEF Task, Idle
<1>5. /\ l \in Handle /\ l.kind = r.kind /\ l.status = r.status /\ l.phase = r.phase
      /\ l.turns = r.turns /\ l.cancelled = r.cancelled /\ l.session = r.session
      /\ l.child = r.child /\ l.interrupting = r.interrupting /\ l.result = r.result
      /\ l.lock = None /\ l.cut = r.cut
  BY <1>3 DEF Handle
<1>6. r = handle[h] /\ y = task[t]
  OBVIOUS
<1> HIDE DEF h, r, x, y, l
<1>7. st \in Terminal
  BY <1>1 DEF Over, Terminal
<1>8. /\ e \in Handle /\ Keeps(l, e) /\ e.status = st /\ e.phase = l.phase
      /\ e.cancelled = l.cancelled /\ e.session = l.session /\ e.child = l.child
      /\ e.result = l.result
  BY <1>5, <1>7, StatusParts, ZenonT(40)
<1> HIDE DEF st, e
<1>9. /\ s \in Handle /\ Keeps(l, s) /\ s.phase = r.phase /\ s.cancelled = r.cancelled
      /\ s.result = r.result
      /\ \/ s.status = r.status /\ row' = row
         \/ s.status = st /\ Writes(h, st)
      /\ \/ s.session = r.session /\ s.child = r.child
         \/ s.session = FALSE /\ s.child # "alive"
  <2>1. CASE silent
    BY <1>1, <1>5, <2>1 DEF Keeps
  <2>2. CASE ~silent /\ ~(st # "done" /\ l.session)
    BY <1>1, <1>5, <1>8, <2>2
  <2>3. CASE ~silent /\ st # "done" /\ l.session
    <3>1. LET d == Disconnecting(e) IN
          /\ d \in Handle /\ Keeps(e, d) /\ d.status = e.status /\ d.phase = e.phase
          /\ d.cancelled = e.cancelled /\ d.session = FALSE /\ d.result = e.result
          /\ d.child # "alive"
      BY <1>8, DisconnectingParts
    <3>2. s = Disconnecting(e)
      BY <2>3
    <3> HIDE DEF s
    <3> QED
      BY ZenonT(60), <1>1, <1>5, <1>8, <2>3, <3>1, <3>2 DEF Keeps
  <2> QED
    BY <2>1, <2>2, <2>3
<1> HIDE DEF s, silent
<1>10. /\ s.kind = r.kind /\ s.turns = r.turns /\ s.lock = None /\ s.cut = r.cut
      /\ s.interrupting = r.interrupting
  BY <1>5, <1>9 DEF Keeps
<1>11. r.phase \in Over /\ r.result # "pending" /\ ~r.cancelled
  BY <1>1, <1>2, <1>3, <1>5 DEF Sound
<1>12. Relies(r, s)
  BY <1>2, <1>3, <1>7, <1>9, <1>10, <1>11 DEF Relies, Sound, Over, Early, Down, Terminal
<1>13. Rows(h, r, s, y, x)
  BY <1>1, <1>7, <1>9 DEF Rows, Terminal
<1>14. Stays(h, r, s, y, x)
  BY <1>7, <1>9, <1>10, <1>11 DEF Stays, Terminal
<1>15. Rooms(h, r, s, y, x) /\ Relied(t, h, s, x)
  BY <1>2, <1>4, <1>10 DEF Rooms, Relied, Sends
<1>16. CallStep(t, h, s, x)
  BY <1>1, <1>2, <1>3, <1>4, <1>9, <1>10, <1>12, <1>13, <1>14, <1>15, <1>6 DEF CallStep, Holds
<1> QED
  BY <1>2, <1>4, <1>9, <1>16, CallKeeps

-----------------------------------------------------------------------------
(* interrupt() and close().                                                *)

LEMMA InterruptCallsKeeps ==
  ASSUME IInv, NEW t \in Tasks, NEW h \in Handles, InterruptCalls(t, h)
  PROVE  IInv' /\ TurnsApart
<1> DEFINE y == task[t]
           r == handle[h]
           i == [r EXCEPT !.interrupting = TRUE]
           s == IF r.session THEN i ELSE Cancelling(i)
           x == [pc |-> IF r.session THEN "drain" ELSE "cancelling",
                 on |-> h, turn |-> r.turns]
<1>1. /\ y.pc = "idle" /\ r.status = "running" /\ UNCHANGED <<permits, bound, row>>
      /\ handle' = [handle EXCEPT ![h] = s] /\ task' = [task EXCEPT ![t] = x]
  BY DEF InterruptCalls, Becomes
<1>2. /\ r \in Handle /\ Sound(r) /\ r.turns \in Nat /\ r.phase # "none" /\ y.on = None
      /\ h # None
  BY <1>1, Shape, AtRest, Alive, Sizes
<1>3. /\ i \in Handle /\ i.kind = r.kind /\ i.status = r.status /\ i.phase = r.phase
      /\ i.turns = r.turns /\ i.cancelled = r.cancelled /\ i.session = r.session
      /\ i.child = r.child /\ i.interrupting = TRUE /\ i.result = r.result
      /\ i.lock = r.lock /\ i.cut = r.cut
  BY <1>2 DEF Handle
<1>4. /\ x \in Task /\ x.on = h /\ x.turn = r.turns
      /\ x.pc = IF r.session THEN "drain" ELSE "cancelling"
  BY <1>2 DEF Task, Handle
<1> HIDE DEF i
<1>5. /\ s \in Handle /\ Keeps(i, s) /\ s.status = r.status /\ s.phase = r.phase
      /\ s.session = r.session /\ s.child = r.child /\ s.result = r.result
      /\ s.cancelled = IF r.session THEN r.cancelled ELSE r.phase \notin Over
  <2>1. CASE r.session
    BY <1>3, <2>1 DEF Keeps
  <2>2. CASE ~r.session
    BY <1>3, <2>2, CancellingParts
  <2> QED
    BY <2>1, <2>2
<1>6. /\ s.kind = r.kind /\ s.turns = r.turns /\ s.lock = r.lock /\ s.cut = r.cut
      /\ s.interrupting = TRUE
  BY <1>3, <1>5 DEF Keeps
<1>7. r = handle[h] /\ y = task[t]
  OBVIOUS
<1> HIDE DEF y, r, s, x
<1>8. Sound(s) /\ (r.cancelled \/ r.phase \in Down => s.cancelled \/ s.phase \in Down)
  <2>1. CASE r.session
    BY <1>1, <1>2, <1>5, <1>6, <2>1 DEF Sound, Over, Early, Down, Terminal
  <2>2. CASE ~r.session
    BY <1>1, <1>2, <1>5, <1>6, <2>2 DEF Sound, Over, Early, Down, Terminal
  <2> QED
    BY <2>1, <2>2
<1>9. Relies(r, s)
  BY <1>2, <1>5, <1>6, <1>8 DEF Relies
<1>10. Relied(t, h, s, x)
  <2>1. CASE r.session
    BY <1>2, <1>4, <1>6, <2>1 DEF Relied
  <2>2. CASE ~r.session
    <3>1. x.pc = "cancelling" /\ s.cancelled = (r.phase \notin Over)
      BY <1>4, <1>5, <2>2
    <3>2. s.cancelled \/ s.phase \in Down
      BY <1>5, <3>1 DEF Down
    <3> QED
      BY <1>2, <1>4, <1>6, <3>1, <3>2 DEF Relied
  <2> QED
    BY <2>1, <2>2
<1>11. Stays(h, r, s, y, x)
  BY <1>1, <1>2, <1>4, <1>5, <1>6 DEF Stays, Waits
<1>12. Rows(h, r, s, y, x) /\ Rooms(h, r, s, y, x)
  BY <1>1, <1>2, <1>4, <1>5, <1>6 DEF Rows, Rooms, Sends
<1>13. CallStep(t, h, s, x)
  BY <1>1, <1>2, <1>4, <1>5, <1>6, <1>7, <1>9, <1>10, <1>11, <1>12 DEF CallStep, Holds
<1> QED
  BY <1>4, <1>5, <1>13, CallKeeps

LEMMA DrainWedgedKeeps ==
  ASSUME IInv, NEW t \in Tasks, DrainWedged(t)
  PROVE  IInv' /\ TurnsApart
<1> DEFINE y == task[t]
           h == y.on
           r == handle[h]
           s == Cancelling(r)
           x == [y EXCEPT !.pc = "cancelling"]
<1>1. /\ y.pc = "drain" /\ r.phase \notin Over /\ UNCHANGED <<permits, bound, row>>
      /\ handle' = [handle EXCEPT ![h] = s] /\ task' = [task EXCEPT ![t] = x]
  BY DEF DrainWedged, Drained, Becomes, Moves
<1>2. /\ y \in Task /\ h \in Handles /\ r.phase # "none" /\ h # None /\ y.on = h
      /\ y.turn <= r.turns
  BY <1>1, AtWork, Sizes DEF IInv, Caller
<1>3. r \in Handle /\ Sound(r) /\ r.turns \in Nat
  BY <1>2, Shape
<1>4. x \in Task /\ x.pc = "cancelling" /\ x.on = h /\ x.turn = y.turn
  BY <1>2 DEF Task
<1>5. /\ s \in Handle /\ Keeps(r, s) /\ s.status = r.status /\ s.phase = r.phase
      /\ s.cancelled = TRUE /\ s.session = r.session /\ s.child = r.child
      /\ s.result = r.result
  BY <1>1, <1>3, CancellingParts
<1>6. /\ s.kind = r.kind /\ s.turns = r.turns /\ s.lock = r.lock /\ s.cut = r.cut
      /\ s.interrupting = r.interrupting
  BY <1>5 DEF Keeps
<1>7. r = handle[h] /\ y = task[t]
  OBVIOUS
<1> HIDE DEF y, h, r, s, x
<1>8. Relies(r, s)
  BY <1>1, <1>2, <1>3, <1>5, <1>6 DEF Relies, Sound, Over, Early, Down, Terminal
<1>9. Relied(t, h, s, x)
  BY <1>2, <1>4, <1>5, <1>6 DEF Relied
<1>10. Stays(h, r, s, y, x)
  BY <1>1, <1>2, <1>4, <1>5, <1>6 DEF Stays, Waits
<1>11. Rows(h, r, s, y, x) /\ Rooms(h, r, s, y, x)
  BY <1>1, <1>2, <1>4, <1>5, <1>6 DEF Rows, Rooms, Sends
<1>12. CallStep(t, h, s, x)
  BY <1>1, <1>2, <1>3, <1>4, <1>5, <1>6, <1>7, <1>8, <1>9, <1>10, <1>11 DEF CallStep, Holds
<1> QED
  BY <1>2, <1>4, <1>5, <1>12, CallKeeps

(* A drained handle has no driver left in its first turn.                  *)
LEMMA InterruptSettlesKeeps ==
  ASSUME IInv, NEW t \in Tasks, InterruptSettles(t)
  PROVE  IInv' /\ TurnsApart
<1> DEFINE y == task[t]
           h == y.on
           r == handle[h]
           e == [r EXCEPT !.status = "interrupted"]
           d == Settled(e, "exception")
           s == IF d.session THEN Disconnecting(d) ELSE Cancelling(d)
           x == [y EXCEPT !.pc = "closing"]
<1>1. /\ y.pc \in {"cancelling", "drain"}
      /\ y.pc # "cancelling" /\ r.turns = y.turn => r.phase \in Over
      /\ UNCHANGED <<permits, bound, row>>
      /\ handle' = [handle EXCEPT ![h] = s] /\ task' = [task EXCEPT ![t] = x]
  <2>1. y.pc \in {"cancelling", "drain"}
    BY DEF InterruptSettles, Becomes
  <2>2. y.pc # "cancelling" => Drained(t)
    BY DEF InterruptSettles, Becomes
  <2>3. y.pc # "cancelling" /\ r.turns = y.turn => r.phase \in Over
    BY <2>2 DEF Drained
  <2>4. UNCHANGED <<permits, bound, row>> /\ task' = [task EXCEPT ![t] = x]
    BY DEF InterruptSettles, Moves
  <2>5. handle' = [handle EXCEPT ![h] = s]
    BY DEF InterruptSettles, Becomes
  <2> HIDE DEF s, x
  <2> QED
    BY <2>1, <2>3, <2>4, <2>5
<1>2. /\ y \in Task /\ h \in Handles /\ r.phase # "none" /\ h # None /\ y.on = h
      /\ y.turn <= r.turns
      /\ y.pc = "cancelling" /\ r.turns = 0 => r.cancelled \/ r.phase \in Down
  BY <1>1, AtWork, Sizes DEF IInv, Caller
<1>3. r \in Handle /\ Sound(r) /\ r.turns \in Nat /\ y.turn \in Nat
  BY <1>2, Shape, Sizes DEF Task
<1>4. x \in Task /\ x.pc = "closing" /\ x.on = h
  BY <1>2 DEF Task
<1>5. /\ e \in Handle /\ Keeps(r, e) /\ e.status = "interrupted" /\ e.phase = r.phase
      /\ e.cancelled = r.cancelled /\ e.session = r.session /\ e.child = r.child
  BY <1>3, StatusParts DEF Terminal
<1> HIDE DEF e
<1>6. /\ d \in Handle /\ Keeps(e, d) /\ d.status = e.status /\ d.phase = e.phase
      /\ d.cancelled = e.cancelled /\ d.session = e.session /\ d.child = e.child
      /\ d.result # "pending"
  BY <1>5, SettledParts
<1> HIDE DEF d
<1>7. /\ s \in Handle /\ Keeps(d, s) /\ s.status = "interrupted" /\ s.phase = r.phase
      /\ s.session = FALSE /\ s.result # "pending"
      /\ s.cancelled = IF r.session THEN r.cancelled ELSE r.phase \notin Over
      /\ s.child = "alive" => r.child = "alive" /\ ~r.session
  <2>1. CASE r.session
    BY ZenonT(60), <1>5, <1>6, <2>1, DisconnectingParts
  <2>2. CASE ~r.session
    <3>1. r.session = FALSE
      BY <1>3, <2>2 DEF Handle
    <3> QED
      BY <1>5, <1>6, <2>2, <3>1, CancellingParts
  <2> QED
    BY <2>1, <2>2
<1>8. /\ s.kind = r.kind /\ s.turns = r.turns /\ s.lock = r.lock /\ s.cut = r.cut
      /\ s.interrupting = r.interrupting
  BY <1>5, <1>6, <1>7 DEF Keeps
<1>9. r = handle[h] /\ y = task[t]
  OBVIOUS
<1> HIDE DEF y, h, r, s, x
<1>10. r.turns = 0 => r.cancelled \/ r.phase \in Down
  BY <1>1, <1>2, <1>3 DEF Down
<1>11. Sound(s) /\ (r.cancelled \/ r.phase \in Down => s.cancelled \/ s.phase \in Down)
  <2>1. CASE r.session
    BY <1>2, <1>3, <1>7, <1>8, <1>10, <2>1 DEF Sound, Over, Early, Down, Terminal
  <2>2. CASE ~r.session
    BY <1>2, <1>3, <1>7, <1>8, <1>10, <2>2 DEF Sound, Over, Early, Down, Terminal
  <2> QED
    BY <2>1, <2>2
<1>12. Relies(r, s)
  BY <1>2, <1>3, <1>7, <1>8, <1>11 DEF Relies
<1>13. Relied(t, h, s, x)
  BY <1>2, <1>4, <1>7 DEF Relied
<1>14. Stays(h, r, s, y, x)
  BY <1>1, <1>7, <1>8 DEF Stays
<1>15. Rows(h, r, s, y, x) /\ Rooms(h, r, s, y, x)
  BY <1>1, <1>2, <1>4, <1>8 DEF Rows, Rooms, Sends, Waits
<1>16. CallStep(t, h, s, x)
  BY <1>1, <1>2, <1>3, <1>4, <1>7, <1>8, <1>9, <1>12, <1>13, <1>14, <1>15
     DEF CallStep, Holds
<1> QED
  BY <1>2, <1>4, <1>7, <1>16, CallKeeps

LEMMA InterruptReturnsKeeps ==
  ASSUME IInv, NEW t \in Tasks, InterruptReturns(t)
  PROVE  IInv' /\ TurnsApart
<1> DEFINE y == task[t]
           h == y.on
           r == handle[h]
           x == Idle
<1>1. /\ y.pc = "closing" /\ UNCHANGED <<permits, bound>>
      /\ Writes(h, "interrupted") /\ task' = [task EXCEPT ![t] = x]
  BY DEF InterruptReturns, Returns
<1>2. /\ y \in Task /\ h \in Handles /\ r.phase # "none" /\ h # None /\ y.on = h
  BY <1>1, AtWork, Sizes
<1>3. /\ r \in Handle /\ Sound(r) /\ r.turns \in Nat /\ handle' = [handle EXCEPT ![h] = r]
  BY <1>2, Shape DEF InterruptReturns
<1>4. x \in Task /\ x.pc = "idle" /\ x.on = None
  BY Sizes DEF Task, Idle
<1>5. r = handle[h] /\ y = task[t]
  OBVIOUS
<1> HIDE DEF y, h, r, x
<1>6. Relies(r, r)
  BY <1>2, <1>3 DEF Relies
<1>7. Rows(h, r, r, y, x)
  BY <1>1 DEF Rows, Terminal
<1>8. Stays(h, r, r, y, x) /\ Rooms(h, r, r, y, x) /\ Relied(t, h, r, x)
  BY <1>1, <1>2, <1>4 DEF Stays, Rooms, Relied, Sends
<1>9. CallStep(t, h, r, x)
  BY <1>1, <1>2, <1>3, <1>4, <1>5, <1>6, <1>7, <1>8 DEF CallStep, Holds
<1> QED
  BY <1>2, <1>3, <1>4, <1>9, CallKeeps

LEMMA CloseCallsKeeps ==
  ASSUME IInv, NEW t \in Tasks, NEW h \in Handles, CloseCalls(t, h)
  PROVE  IInv' /\ TurnsApart
<1> DEFINE y == task[t]
           r == handle[h]
           s == IF r.session THEN Disconnecting(r) ELSE Cancelling(r)
           z == [Idle EXCEPT !.pc = "reaping", !.on = h]
           x == IF r.session THEN y ELSE z
<1>1. /\ y.pc = "idle" /\ r.status \notin {"unborn", "lost"}
      /\ UNCHANGED <<permits, bound, row>>
      /\ \/ /\ r.session /\ handle' = [handle EXCEPT ![h] = Disconnecting(r)]
            /\ task' = task
         \/ /\ ~r.session /\ r.phase \notin Over
            /\ handle' = [handle EXCEPT ![h] = Cancelling(r)]
            /\ task' = [task EXCEPT ![t] = z]
  BY DEF CloseCalls, Becomes
<1>2. /\ r \in Handle /\ Sound(r) /\ r.turns \in Nat /\ r.phase # "none"
      /\ y \in Task /\ y.on = None /\ h # None
  BY <1>1, Shape, AtRest, Alive, Sizes
<1>3. z \in Task /\ z.pc = "reaping" /\ z.on = h
  <2>1. Idle \in Task
    BY Sizes DEF Idle, Task
  <2> QED
    BY <2>1 DEF Task
<1>4. task = [task EXCEPT ![t] = y]
  BY DEF IInv, Typed
<1> HIDE DEF z
<1>5. /\ handle' = [handle EXCEPT ![h] = s] /\ task' = [task EXCEPT ![t] = x]
      /\ r.session \/ r.phase \notin Over
  BY <1>1, <1>4
<1>6. /\ s \in Handle /\ Keeps(r, s) /\ s.status = r.status /\ s.phase = r.phase
      /\ s.session = FALSE /\ s.result = r.result
      /\ s.cancelled = IF r.session THEN r.cancelled ELSE TRUE
      /\ s.child = "alive" => r.child = "alive" /\ ~r.session
  <2>1. CASE r.session
    BY <1>2, <2>1, DisconnectingParts
  <2>2. CASE ~r.session
    <3>1. r.session = FALSE /\ r.phase \notin Over
      BY <1>2, <1>5, <2>2 DEF Handle
    <3> QED
      BY <1>2, <2>2, <3>1, CancellingParts
  <2> QED
    BY <2>1, <2>2
<1>7. /\ x \in Task /\ x.on \in {h, None} /\ x.pc = (IF r.session THEN "idle" ELSE "reaping")
      /\ x.on = IF r.session THEN None ELSE h
  BY <1>1, <1>2, <1>3
<1>8. /\ s.kind = r.kind /\ s.turns = r.turns /\ s.lock = r.lock /\ s.cut = r.cut
      /\ s.interrupting = r.interrupting
  BY <1>6 DEF Keeps
<1>9. r = handle[h] /\ y = task[t]
  OBVIOUS
<1> HIDE DEF y, r, s, x
<1>10. Sound(s) /\ (r.cancelled \/ r.phase \in Down => s.cancelled \/ s.phase \in Down)
  <2>1. CASE r.session
    BY <1>2, <1>6, <1>8, <2>1 DEF Sound, Over, Early, Down, Terminal
  <2>2. CASE ~r.session
    BY <1>2, <1>5, <1>6, <1>8, <2>2 DEF Sound, Over, Early, Down, Terminal
  <2> QED
    BY <2>1, <2>2
<1>11. Relies(r, s)
  BY <1>2, <1>6, <1>8, <1>10 DEF Relies
<1>12. Relied(t, h, s, x)
  BY <1>2, <1>5, <1>6, <1>7 DEF Relied
<1>13. Stays(h, r, s, y, x)
  BY <1>1, <1>6, <1>7, <1>8 DEF Stays, Waits
<1>14. Rows(h, r, s, y, x) /\ Rooms(h, r, s, y, x)
  BY <1>1, <1>2, <1>6, <1>7, <1>8 DEF Rows, Rooms, Sends
<1>15. CallStep(t, h, s, x)
  BY <1>1, <1>2, <1>5, <1>6, <1>7, <1>8, <1>9, <1>11, <1>12, <1>13, <1>14
     DEF CallStep, Holds
<1> QED
  BY <1>6, <1>7, <1>15, CallKeeps

LEMMA CloseReturnsKeeps ==
  ASSUME IInv, NEW t \in Tasks, CloseReturns(t)
  PROVE  IInv' /\ TurnsApart
<1> DEFINE y == task[t]
           h == y.on
           r == handle[h]
           belt == r.status \notin Terminal
           e == [r EXCEPT !.status = IF belt THEN "interrupted" ELSE r.status]
           s == Settled(e, "exception")
           x == Idle
<1>1. /\ y.pc = "reaping" /\ UNCHANGED <<permits, bound>>
      /\ (belt => Writes(h, "interrupted")) /\ (~belt => row' = row)
      /\ handle' = [handle EXCEPT ![h] = s] /\ task' = [task EXCEPT ![t] = x]
  BY DEF CloseReturns, Becomes, Returns, WritesIf
<1>2. /\ y \in Task /\ h \in Handles /\ r.phase # "none" /\ h # None /\ y.on = h
      /\ ~r.session /\ (r.cancelled \/ r.phase \in Down)
  BY <1>1, AtWork, Sizes DEF IInv, Caller
<1>3. r \in Handle /\ Sound(r) /\ r.turns \in Nat
  BY <1>2, Shape
<1>4. x \in Task /\ x.pc = "idle" /\ x.on = None
  BY Sizes DEF Task, Idle
<1>5. /\ e \in Handle /\ Keeps(r, e) /\ e.status \in Terminal
      /\ belt \/ e.status = r.status
      /\ e.phase = r.phase /\ e.cancelled = r.cancelled /\ e.session = r.session
      /\ e.child = r.child
  <2>1. (IF belt THEN "interrupted" ELSE r.status) \in Terminal
    BY DEF Terminal
  <2> QED
    BY <1>3, <2>1, StatusParts
<1> HIDE DEF e
<1>6. /\ s \in Handle /\ Keeps(e, s) /\ s.status = e.status /\ s.phase = e.phase
      /\ s.cancelled = e.cancelled /\ s.session = e.session /\ s.child = e.child
      /\ s.result # "pending"
  BY <1>5, SettledParts
<1>7. /\ s.kind = r.kind /\ s.turns = r.turns /\ s.lock = r.lock /\ s.cut = r.cut
      /\ s.interrupting = r.interrupting
  BY <1>5, <1>6 DEF Keeps
<1>8. r = handle[h] /\ y = task[t]
  OBVIOUS
<1>9. Rows(h, r, s, y, x)
  BY <1>1, <1>5, <1>6 DEF Rows, Terminal
<1> HIDE DEF y, h, r, s, x, belt
<1>10. Relies(r, s)
  BY <1>2, <1>3, <1>5, <1>6, <1>7 DEF Relies, Sound, Over, Early, Down, Terminal
<1>11. Stays(h, r, s, y, x)
  BY <1>1, <1>5, <1>6, <1>7 DEF Stays, Terminal
<1>12. Rooms(h, r, s, y, x) /\ Relied(t, h, s, x)
  BY <1>2, <1>4, <1>7 DEF Rooms, Relied, Sends
<1>13. CallStep(t, h, s, x)
  BY <1>1, <1>2, <1>3, <1>4, <1>5, <1>6, <1>7, <1>8, <1>9, <1>10, <1>11, <1>12
     DEF CallStep, Holds
<1> QED
  BY <1>2, <1>4, <1>6, <1>13, CallKeeps

-----------------------------------------------------------------------------
(* A caller is cancelled.                                                  *)

\* Cancelled in a send's turn: the task waits on, its driver is cancelled.
LEMMA CancelledInTurn ==
  ASSUME IInv, NEW t \in Tasks, CallerCancelled(t), task[t].pc = "turning"
  PROVE  IInv' /\ TurnsApart
<1> DEFINE y == task[t]
           h == y.on
           r == handle[h]
           s == Cancelling(r)
<1>1. /\ y.pc = "turning" /\ r.phase \notin Over /\ UNCHANGED <<permits, bound, row>>
      /\ handle' = [handle EXCEPT ![h] = s]
  BY DEF CallerCancelled, Becomes
<1>2. /\ y \in Task /\ h \in Handles /\ r.phase # "none" /\ h # None /\ y.on = h
      /\ r.lock = t /\ r.turns > 0
  BY <1>1, AtWork, Sizes DEF IInv, Caller
<1>3. r \in Handle /\ Sound(r) /\ r.turns \in Nat
  BY <1>2, Shape
<1>4. task' = [task EXCEPT ![t] = y]
  BY <1>1 DEF IInv, Typed, CallerCancelled
<1>5. /\ s \in Handle /\ Keeps(r, s) /\ s.status = r.status /\ s.phase = r.phase
      /\ s.cancelled = TRUE /\ s.session = r.session /\ s.child = r.child
      /\ s.result = r.result
  BY <1>1, <1>3, CancellingParts
<1>6. /\ s.kind = r.kind /\ s.turns = r.turns /\ s.lock = r.lock /\ s.cut = r.cut
      /\ s.interrupting = r.interrupting
  BY <1>5 DEF Keeps
<1>7. r = handle[h] /\ y = task[t]
  OBVIOUS
<1> HIDE DEF y, h, r, s
<1>8. Relies(r, s)
  BY <1>1, <1>2, <1>3, <1>5, <1>6 DEF Relies, Sound, Over, Early, Down, Terminal
<1>9. Relied(t, h, s, y)
  BY <1>1, <1>2, <1>6 DEF Relied
<1>10. s.result # "pending"
  BY <1>2, <1>3, <1>5 DEF Sound
<1>11. Stays(h, r, s, y, y)
  BY <1>1, <1>2, <1>5, <1>6, <1>10 DEF Stays, Waits
<1>12. Rows(h, r, s, y, y) /\ Rooms(h, r, s, y, y)
  BY <1>1, <1>2, <1>5, <1>6 DEF Rows, Rooms
<1>13. CallStep(t, h, s, y)
  BY <1>1, <1>2, <1>3, <1>4, <1>5, <1>6, <1>7, <1>8, <1>9, <1>11, <1>12
     DEF CallStep, Holds
<1> QED
  BY <1>2, <1>5, <1>13, CallKeeps

\* Cancelled in the middle of an interrupt or of a close.
LEMMA CancelledInTeardown ==
  ASSUME IInv, NEW t \in Tasks, CallerCancelled(t),
         task[t].pc \in {"drain", "cancelling", "closing", "reaping"}
  PROVE  IInv' /\ TurnsApart
<1> DEFINE y == task[t]
           h == y.on
           r == handle[h]
           i == IF y.pc = "reaping" THEN r.interrupting ELSE FALSE
           s == [r EXCEPT !.interrupting = i, !.cut = TRUE]
           x == Idle
<1>1. y.pc \in {"drain", "cancelling", "closing", "reaping"}
  OBVIOUS
<1>2. /\ y \in Task /\ h \in Handles /\ r.phase # "none" /\ h # None /\ y.on = h
  BY <1>1, AtWork, Sizes
<1>3. r \in Handle /\ Sound(r) /\ r.turns \in Nat
  BY <1>2, Shape
<1>4. x \in Task /\ x.pc = "idle" /\ x.on = None
  BY Sizes DEF Task, Idle
<1>5. i \in BOOLEAN /\ (i => r.interrupting)
  BY <1>3 DEF Handle
<1>6. UNCHANGED <<permits, bound, row>> /\ task' = [task EXCEPT ![t] = x]
  BY <1>1 DEF CallerCancelled, Returns
<1>7. handle' = [handle EXCEPT ![h] = s]
  <2>1. CASE y.pc = "reaping"
    <3>1. handle' = [handle EXCEPT ![h] = [r EXCEPT !.cut = TRUE]]
      BY <2>1 DEF CallerCancelled, Becomes
    <3>2. [r EXCEPT !.cut = TRUE] = s
      BY <1>3, <2>1 DEF Handle
    <3> QED
      BY <3>1, <3>2
  <2>2. CASE y.pc \in {"drain", "cancelling", "closing"}
    BY <2>2 DEF CallerCancelled, Becomes
  <2> QED
    BY <1>1, <2>1, <2>2
<1> HIDE DEF i
<1>8. /\ s \in Handle /\ s.kind = r.kind /\ s.status = r.status /\ s.phase = r.phase
      /\ s.turns = r.turns /\ s.cancelled = r.cancelled /\ s.session = r.session
      /\ s.child = r.child /\ s.interrupting = i /\ s.result = r.result
      /\ s.lock = r.lock /\ s.cut = TRUE
  <2> HIDE DEF y, h, r
  <2> QED
    BY <1>3, <1>5, CutParts
<1>9. r = handle[h] /\ y = task[t]
  OBVIOUS
<1> HIDE DEF y, h, r, s, x
<1>10. Relies(r, s)
  BY <1>2, <1>3, <1>5, <1>8 DEF Relies, Sound
<1>11. y.pc \in {"drain", "cancelling"} => ~i
  BY <1>9 DEF i
<1>12. i => y.pc \notin {"drain", "cancelling"}
  BY <1>11
<1>13. Stays(h, r, s, y, x)
  BY <1>1, <1>5, <1>8, <1>12 DEF Stays
<1>14. Rows(h, r, s, y, x) /\ Rooms(h, r, s, y, x) /\ Relied(t, h, s, x)
  BY <1>1, <1>2, <1>4, <1>6, <1>8 DEF Rows, Rooms, Relied, Sends
<1>15. CallStep(t, h, s, x)
  BY <1>1, <1>2, <1>3, <1>4, <1>6, <1>7, <1>8, <1>9, <1>10, <1>13, <1>14 DEF CallStep, Holds
<1> QED
  BY <1>2, <1>4, <1>8, <1>15, CallKeeps

\* Cancelled while it waits for the turn lock.
LEMMA CancelledAtLock ==
  ASSUME IInv, NEW t \in Tasks, CallerCancelled(t), task[t].pc = "locking"
  PROVE  IInv' /\ TurnsApart
<1> DEFINE y == task[t]
           h == y.on
           r == handle[h]
           x == Idle
<1>1. /\ y.pc = "locking" /\ UNCHANGED <<permits, bound, row>>
      /\ task' = [task EXCEPT ![t] = x]
  BY DEF CallerCancelled, Returns
<1>2. /\ y \in Task /\ h \in Handles /\ r.phase # "none" /\ h # None /\ y.on = h
  BY <1>1, AtWork, Sizes
<1>3. /\ r \in Handle /\ Sound(r) /\ r.turns \in Nat /\ handle' = [handle EXCEPT ![h] = r]
  BY <1>2, Shape DEF CallerCancelled
<1>4. x \in Task /\ x.pc = "idle" /\ x.on = None
  BY Sizes DEF Task, Idle
<1>5. r = handle[h] /\ y = task[t]
  OBVIOUS
<1> HIDE DEF y, h, r, x
<1>6. Relies(r, r)
  BY <1>2, <1>3 DEF Relies
<1>7. Rows(h, r, r, y, x)
  BY <1>1 DEF Rows
<1>8. Stays(h, r, r, y, x) /\ Rooms(h, r, r, y, x) /\ Relied(t, h, r, x)
  BY <1>1, <1>2, <1>4 DEF Stays, Rooms, Relied, Sends
<1>9. CallStep(t, h, r, x)
  BY <1>1, <1>2, <1>3, <1>4, <1>5, <1>6, <1>7, <1>8 DEF CallStep, Holds
<1> QED
  BY <1>2, <1>3, <1>4, <1>9, CallKeeps

LEMMA CallerCancelledKeeps ==
  ASSUME IInv, NEW t \in Tasks, CallerCancelled(t)
  PROVE  IInv' /\ TurnsApart
<1>1. task[t].pc \in {"locking", "settling", "turning", "drain", "cancelling", "closing",
                      "reaping"}
  BY DEF CallerCancelled
<1>2. CASE task[t].pc = "settling"
  <2>1. Unlocking(t)
    BY <1>2 DEF CallerCancelled, Unlocking
  <2> QED
    BY <2>1, Unlocks
<1> QED
  BY <1>1, <1>2, CancelledAtLock, CancelledInTurn, CancelledInTeardown

-----------------------------------------------------------------------------
(* Calls that touch no handle.                                             *)

LEMMA RunsKeep ==
  ASSUME IInv, NEW t \in Tasks, NEW x \in Task,
         task[t].pc \in {"idle", "wanting", "running"},
         x.pc \in {"idle", "wanting", "running"}, x.on = None,
         task' = [task EXCEPT ![t] = x], UNCHANGED <<handle, bound, row>>,
         \/ permits' = permits /\ task[t].pc # "running" /\ x.pc # "running"
         \/ /\ permits > 0 /\ permits' = permits - 1
            /\ task[t].pc # "running" /\ x.pc = "running"
         \/ permits' = permits + 1 /\ task[t].pc = "running" /\ x.pc # "running"
  PROVE  IInv' /\ TurnsApart
<1> DEFINE y == task[t]
<1>1. /\ y.on = None /\ task'[t] = x /\ permits \in Nat /\ PermitsKept
      /\ \A u \in Tasks : u # t => task'[u] = task[u]
      /\ handle' \in [Handles -> Handle] /\ task' \in [Tasks -> Task]
  BY AtRest DEF IInv, Typed
<1>2. AtMost(None) /\ bound' = bound /\ None \notin Handles
  BY <1>1, Sizes DEF AtMost
<1>3. ASSUME NEW u \in Tasks PROVE Caller(u)'
  <2>1. CASE u # t
    BY <1>1, <1>2, <2>1, OthersRely
  <2>2. CASE u = t
    BY <1>1, <2>2 DEF Caller
  <2> QED
    BY <2>1, <2>2
<1>4. \A g \in Handles : Handled(g)' /\ Room(g)'
  BY <1>2, OthersHandled
<1>5. PermitsKept' /\ permits' \in Nat
  <2>1. /\ Holders = {g \in Handles : Holds(handle[g])} \cup {u \in Tasks : task[u].pc = "running"}
        /\ Holders' = {g \in Handles : Holds(handle[g])}
                        \cup {u \in Tasks : task'[u].pc = "running"}
    BY HoldersAre DEF Holders, Holds
  <2>2. t \notin Handles
    BY Sizes
  <2>3. CASE permits' = permits /\ y.pc # "running" /\ x.pc # "running"
    <3>1. Holders' = Holders
      BY <1>1, <2>1, <2>3
    <3> QED
      BY <1>1, <2>3, <3>1, PermitsSame
  <2>4. CASE permits > 0 /\ permits' = permits - 1 /\ y.pc # "running" /\ x.pc = "running"
    <3>1. t \notin Holders /\ Holders' = Holders \cup {t}
      BY <1>1, <2>1, <2>2, <2>4
    <3> QED
      BY <1>1, <2>4, <3>1, PermitTaken
  <2>5. CASE permits' = permits + 1 /\ y.pc = "running" /\ x.pc # "running"
    <3>1. t \in Holders /\ Holders' = Holders \ {t}
      BY <1>1, <2>1, <2>2, <2>5
    <3> QED
      BY <1>1, <2>5, <3>1, PermitBack
  <2> QED
    BY <2>3, <2>4, <2>5
<1>6. NoPhantoms'
  <2>1. \A u \in Tasks : task[u].pc = "closing" => task'[u] = task[u]
    BY <1>1
  <2> QED
    BY <2>1 DEF IInv, NoPhantoms
<1>7. Typed'
  BY <1>1, <1>2, <1>5 DEF Typed, IInv
<1>8. TurnsApart
  <2>1. \A g \in Handles : handle[g].turns \in Nat
    BY Shape
  <2> QED
    BY <2>1 DEF TurnsApart
<1> QED
  BY <1>3, <1>4, <1>5, <1>6, <1>7, <1>8 DEF IInv

LEMMA RunNextKeeps ==
  ASSUME IInv, NEW t \in Tasks, RunCalls(t) \/ RunStarts(t) \/ RunEnds(t)
  PROVE  IInv' /\ TurnsApart
<1> DEFINE y == task[t]
<1>1. y.pc \in {"idle", "wanting", "running"} /\ UNCHANGED <<handle, bound, row>>
  BY DEF RunCalls, RunStarts, RunEnds
<1>2. y \in Task /\ y.on = None /\ permits \in Nat
  BY <1>1, AtRest DEF IInv, Typed
<1>3. CASE RunCalls(t)
  <2> DEFINE x == [y EXCEPT !.pc = "wanting"]
  <2>1. x \in Task /\ x.pc = "wanting" /\ x.on = None
    BY <1>2 DEF Task
  <2>2. permits' = permits /\ y.pc # "running" /\ task' = [task EXCEPT ![t] = x]
    BY <1>3 DEF RunCalls, Moves
  <2> HIDE DEF x
  <2> QED
    BY <1>1, <2>1, <2>2, RunsKeep
<1>4. CASE RunStarts(t)
  <2> DEFINE x == [y EXCEPT !.pc = "running"]
  <2>1. x \in Task /\ x.pc = "running" /\ x.on = None
    BY <1>2 DEF Task
  <2>2. /\ permits > 0 /\ permits' = permits - 1 /\ y.pc # "running"
        /\ task' = [task EXCEPT ![t] = x]
    BY <1>4 DEF RunStarts, Moves
  <2> HIDE DEF x
  <2> QED
    BY <1>1, <2>1, <2>2, RunsKeep
<1>5. CASE RunEnds(t)
  <2> DEFINE x == Idle
  <2>1. x \in Task /\ x.pc = "idle" /\ x.on = None
    BY Sizes DEF Task, Idle
  <2>2. /\ (permits' = permits /\ y.pc # "running") \/ (permits' = permits + 1 /\ y.pc = "running")
        /\ task' = [task EXCEPT ![t] = x]
    <3>1. permits' = permits + (IF y.pc = "running" THEN 1 ELSE 0)
      BY <1>5 DEF RunEnds
    <3>2. task' = [task EXCEPT ![t] = x]
      BY <1>5 DEF RunEnds, Returns
    <3>3. y.pc # "running" => permits' = permits
      BY <1>2, <3>1
    <3>4. y.pc = "running" => permits' = permits + 1
      BY <3>1
    <3> HIDE DEF y, x
    <3>5. (permits' = permits /\ y.pc # "running") \/ (permits' = permits + 1 /\ y.pc = "running")
      <4>1. CASE y.pc = "running"
        BY <3>4, <4>1
      <4>2. CASE y.pc # "running"
        BY <3>3, <4>2
      <4> QED
        BY <4>1, <4>2
    <3> QED
      BY <3>2, <3>5
  <2> HIDE DEF x
  <2> QED
    BY <1>1, <2>1, <2>2, RunsKeep
<1> QED
  BY <1>3, <1>4, <1>5

-----------------------------------------------------------------------------
(* A handle is made; the kernel is killed; the beginning.                  *)

LEMMA MakesKeeps ==
  ASSUME IInv, NEW h \in Handles, NEW kind \in {"spawn", "resume", "host"}, Makes(h, kind),
         UNCHANGED row \/ Writes(h, "running")
  PROVE  IInv' /\ TurnsApart
<1> DEFINE r == handle[h]
           s == [Unborn EXCEPT !.kind = kind, !.status = "running", !.phase = "unstarted"]
<1>1. /\ r.status = "unborn" /\ NameFree /\ handle' = [handle EXCEPT ![h] = s] /\ bound' = h
      /\ UNCHANGED <<permits, task>>
  BY DEF Makes, Becomes
<1>2. r \in Handle /\ Sound(r) /\ handle \in [Handles -> Handle] /\ task \in [Tasks -> Task]
  BY Shape DEF IInv, Typed
<1>3. Unborn \in Handle
  BY Sizes DEF Unborn, Handle
<1>4. /\ s \in Handle /\ s.kind = kind /\ s.status = "running" /\ s.phase = "unstarted"
      /\ s.turns = 0 /\ s.cancelled = FALSE /\ s.session = FALSE /\ s.child = "none"
      /\ s.interrupting = FALSE /\ s.result = "pending" /\ s.lock = None /\ s.cut = FALSE
  BY <1>3 DEF Unborn, Handle
<1>5. r.phase = "none" /\ r.turns = 0
  BY <1>1, <1>2 DEF Sound
<1> HIDE DEF s
<1>6. handle'[h] = s /\ \A g \in Handles : g # h => handle'[g] = handle[g]
  BY <1>1, <1>2
<1>7. AtMost(h)
  BY <1>1, <1>2, <1>4, <1>6 DEF AtMost
<1>8. Sound(s)
  BY <1>4 DEF Sound, Early, Over, Terminal
<1>9. ASSUME NEW u \in Tasks PROVE Caller(u)'
  BY <1>1, <1>5, <1>7, OthersRely
<1>10. ASSUME NEW g \in Handles, g # h PROVE Handled(g)' /\ Room(g)'
  <2>1. ~(handle[g].status = "running" \/ handle[g].session)
    <3> SUFFICES ASSUME handle[g].status = "running" \/ handle[g].session PROVE FALSE
      OBVIOUS
    <3>1. bound = g
      BY DEF IInv, Handled
    <3> QED
      BY <1>1, <3>1, Sizes DEF NameFree
  <2> QED
    BY <1>7, <1>10, <2>1, OthersHandled
<1>11. Handled(h)'
  BY <1>1, <1>4, <1>6, <1>8 DEF Handled, Over
<1>12. Room(h)'
  <2>1. Senders(h)' = Senders(h)
    BY <1>1 DEF Senders
  <2> QED
    BY <1>4, <1>5, <1>6, <2>1 DEF IInv, Room
<1>13. PermitsKept' /\ permits' \in Nat
  <2>1. Holds(r) <=> Holds(s)
    BY <1>4, <1>5 DEF Holds, WithPermit
  <2> QED
    BY <1>1, <1>6, <1>7, <2>1, PermitsUntouched
<1>14. /\ NoPhantoms'
       /\ row' \in [of : Handles \cup {None},
                    status : {"none", "running", "orphaned"} \cup Terminal]
       /\ row'.status = "running" => row'.of \in Handles
  <2>1. CASE UNCHANGED row
    <3>1. /\ row \in [of : Handles \cup {None},
                      status : {"none", "running", "orphaned"} \cup Terminal]
          /\ row.status = "running" => row.of \in Handles
          /\ NoPhantoms
      BY DEF IInv, Typed
    <3> QED
      BY <1>1, <1>4, <1>6, <2>1, <3>1 DEF NoPhantoms
  <2>2. CASE Writes(h, "running")
    <3>1. row' \in [of : {h}, status : {"running"} \cup Terminal] /\ row'.of = h
      BY <2>2, Written
    <3> QED
      BY <1>4, <1>6, <3>1 DEF NoPhantoms
  <2> QED
    BY <2>1, <2>2
<1>15. Typed'
  BY <1>1, <1>7, <1>13, <1>14 DEF Typed, AtMost
<1>16. TurnsApart
  <2>1. \A g \in Handles : handle[g].turns \in Nat
    BY Shape
  <2> QED
    BY <1>4, <1>5, <1>6, <2>1 DEF TurnsApart
<1> QED
  BY <1>9, <1>10, <1>11, <1>12, <1>13, <1>14, <1>15, <1>16 DEF IInv

(* Where nothing is under way: at the start and after a restart.           *)
LEMMA FreshIsSound ==
  ASSUME NEW s \in Handle, s = Unborn \/ s = [Unborn EXCEPT !.status = "lost"]
  PROVE  /\ Sound(s) /\ s.turns = 0 /\ s.phase = "none" /\ s.result = "pending"
         /\ ~s.session /\ ~s.interrupting /\ ~s.cancelled /\ s.status # "running"
BY DEF Unborn, Sound, Over, Early, Terminal

Quiet ==
  /\ \A h \in Handles : handle[h] = Unborn \/ handle[h] = [Unborn EXCEPT !.status = "lost"]
  /\ \A t \in Tasks : task[t] = Idle
  /\ handle \in [Handles -> Handle] /\ task \in [Tasks -> Task]
  /\ permits = Cap /\ bound = None
  /\ row \in [of : Handles \cup {None},
              status : {"none", "running", "orphaned"} \cup Terminal]
  /\ row.status # "running"

LEMMA QuietIsFine == Quiet => IInv
<1> SUFFICES ASSUME Quiet PROVE IInv
  OBVIOUS
<1>1. ASSUME NEW h \in Handles
      PROVE  /\ Sound(handle[h]) /\ handle[h].turns = 0 /\ handle[h].phase = "none"
             /\ handle[h].result = "pending" /\ ~handle[h].session
             /\ ~handle[h].interrupting /\ ~handle[h].cancelled
             /\ handle[h].status # "running"
  BY FreshIsSound DEF Quiet
<1>2. ASSUME NEW t \in Tasks PROVE task[t].pc = "idle" /\ task[t].on = None
  BY DEF Quiet, Idle
<1>3. \A h \in Handles : Handled(h)
  BY <1>1 DEF Handled, Over
<1>4. \A t \in Tasks : Caller(t)
  BY <1>2 DEF Caller
<1>5. ASSUME NEW h \in Handles PROVE Room(h)
  <2>1. Senders(h) = {}
    BY <1>2 DEF Senders
  <2> QED
    BY <1>1, <2>1, Sizes, FS_EmptySet DEF Room
<1>6. PermitsKept
  <2>1. Holders = {}
    BY <1>1, <1>2 DEF Holders, WithPermit
  <2> QED
    BY <2>1, Sizes, FS_EmptySet DEF PermitsKept, Quiet
<1>7. Typed /\ NoPhantoms
  BY Sizes DEF Typed, NoPhantoms, Quiet
<1> QED
  BY <1>3, <1>4, <1>5, <1>6, <1>7 DEF IInv

LEMMA FreshIsTyped ==
  /\ Unborn \in Handle /\ [Unborn EXCEPT !.status = "lost"] \in Handle /\ Idle \in Task
<1>1. Unborn \in Handle
  BY Sizes DEF Unborn, Handle
<1>2. [Unborn EXCEPT !.status = "lost"] \in Handle
  <2>1. \A r \in Handle : [r EXCEPT !.status = "lost"] \in Handle
    BY DEF Handle
  <2> QED
    BY <1>1, <2>1
<1>3. Idle \in Task
  BY Sizes DEF Idle, Task
<1> QED
  BY <1>1, <1>2, <1>3

LEMMA RestartKeeps ==
  ASSUME IInv, Restart
  PROVE  IInv' /\ TurnsApart
<1>1. ASSUME NEW h \in Handles
      PROVE  handle'[h] = Unborn \/ handle'[h] = [Unborn EXCEPT !.status = "lost"]
  BY DEF Restart
<1>2. \A t \in Tasks : task'[t] = Idle
  BY DEF Restart
<1>3. handle' \in [Handles -> Handle] /\ task' \in [Tasks -> Task]
  BY FreshIsTyped DEF Restart
<1>4. /\ row' \in [of : Handles \cup {None},
                   status : {"none", "running", "orphaned"} \cup Terminal]
      /\ row'.status # "running"
  BY DEF Restart, IInv, Typed
<1>5. Quiet'
  BY <1>1, <1>2, <1>3, <1>4 DEF Quiet, Restart
<1>6. TurnsApart
  <2>1. \A h \in Handles : handle'[h].turns = 0 /\ handle[h].turns \in Nat
    BY <1>1, <1>3, Shape, FreshIsSound
  <2> QED
    BY <2>1 DEF TurnsApart
<1>7. IInv'
  BY <1>5, QuietIsFine, PTL
<1> QED
  BY <1>6, <1>7

LEMMA Starting == Init => IInv
<1> SUFFICES ASSUME Init PROVE Quiet
  BY QuietIsFine
<1> QED
  BY FreshIsTyped, Sizes DEF Init, Quiet

-----------------------------------------------------------------------------
LEMMA NextKeeps ==
  ASSUME IInv, [Next]_vars
  PROVE  IInv' /\ [TurnsApart]_vars
<1>1. ASSUME NEW h \in Handles, Spawn(h) \/ SpawnOnHost(h) \/ Resume(h)
      PROVE  IInv' /\ TurnsApart
  BY <1>1, MakesKeeps DEF Spawn, SpawnOnHost, Resume
<1>2. ASSUME NEW h \in Handles, DriverNext(h) PROVE IInv' /\ TurnsApart
  BY <1>2, DriverKeeps, DriverTurns
<1>3. ASSUME NEW t \in Tasks, CallNext(t) PROVE IInv' /\ TurnsApart
  BY <1>3, SendCallsKeeps, InterruptCallsKeeps, CloseCallsKeeps, SendLocksKeeps,
     SendGoesKeeps, SendEndsKeeps, DrainWedgedKeeps, InterruptSettlesKeeps,
     InterruptReturnsKeeps, CloseReturnsKeeps, RunNextKeeps, CallerCancelledKeeps
     DEF CallNext
<1>4. CASE UNCHANGED vars
  <2>1. UNCHANGED <<handle, permits, bound, row, task>>
    BY <1>4 DEF vars
  <2>2. Typed' /\ PermitsKept' /\ NoPhantoms'
    BY <2>1 DEF IInv, Typed, PermitsKept, Holders, NoPhantoms
  <2>3. \A t \in Tasks : Caller(t)'
    BY <2>1 DEF IInv, Caller
  <2>4. ASSUME NEW h \in Handles PROVE Handled(h)' /\ Room(h)'
    <3>1. Handled(h) /\ Room(h)
      BY DEF IInv
    <3> QED
      BY <2>1, <3>1 DEF Handled, At, Room, Senders, Sound
  <2> QED
    BY <1>4, <2>2, <2>3, <2>4 DEF IInv
<1> QED
  BY <1>1, <1>2, <1>3, <1>4, RestartKeeps DEF Next

(* IInv holds of every behaviour: every handle's fields fit each other and *)
(* the tasks at work on it.                                                *)
THEOREM Invariant == Spec => []IInv
<1>1. IInv /\ [Next]_vars => IInv'
  BY NextKeeps
<1> QED
  BY Starting, <1>1, PTL DEF Spec

(* Handles, tasks, the name and the row have their types, and the          *)
(* semaphore is never over-released (agents.py: _guarded).                 *)
THEOREM HandlesTyped == Spec => []TypeOK
<1>1. IInv => TypeOK
  <2> SUFFICES ASSUME IInv PROVE permits \in 0..Cap
    BY DEF IInv, Typed, TypeOK
  <2> QED
    BY HoldersFinite, Sizes DEF IInv, Typed, PermitsKept
<1> QED
  BY Invariant, <1>1, PTL

(* "No path leaves a permit held or a CLI process tree alive" (agents.py), *)
(* but for a child whose teardown was cut short.                           *)
THEOREM NothingIsLeft == Spec => []NothingLeftBehind
<1>1. IInv => NothingLeftBehind
  <2> SUFFICES ASSUME IInv, NEW h \in Handles, handle[h].child = "alive"
               PROVE  \/ handle[h].phase \in {"opening", "undo"}
                      \/ handle[h].session /\ bound = h
    BY DEF NothingLeftBehind, ChildHeld, IInv
  <2> QED
    BY DEF IInv, Handled, Sound
<1> QED
  BY Invariant, <1>1, PTL

(* No turn is run, and billed, under a terminal label: interrupt and close *)
(* leave a driver cancelled or a child gone (agents.py).                   *)
THEOREM BilledOnlyRunning == Spec => []BilledWhileRunning
<1>1. IInv => BilledWhileRunning
  <2> SUFFICES ASSUME IInv, NEW h \in Handles, Billed(h)
               PROVE  handle[h].status = "running" \/ handle[h].cancelled
    BY DEF BilledWhileRunning
  <2> QED
    BY Shape DEF IInv, Handled, Sound, Billed, Early
<1> QED
  BY Invariant, <1>1, PTL

(* agent.list() shows no phantom: whoever wrote the registry row last, a   *)
(* row that says running is a running handle's (agents.py).                *)
THEOREM RowsTellTrue == Spec => []NoPhantoms
<1>1. IInv => NoPhantoms
  BY DEF IInv
<1> QED
  BY Invariant, <1>1, PTL

(* Whoever awaits result() is answered by the driver, an interrupt or a    *)
(* close, none of which trusts another that is not there (agents.py).      *)
THEOREM ResultsAreSettled == Spec => []SettlerAtHand
<1>1. IInv => SettlerAtHand
  <2> SUFFICES ASSUME IInv, NEW h \in Handles,
                      handle[h].phase \in Over, handle[h].result = "pending"
               PROVE  \/ handle[h].cut
                      \/ At(h, {"drain", "cancelling", "reaping"})
    BY DEF SettlerAtHand, At
  <2> QED
    BY DEF IInv, Handled
<1> QED
  BY Invariant, <1>1, PTL

(* The turn lock and the first turn's result keep the turns of a session   *)
(* apart (agents.py: send).                                                *)
THEOREM TurnsDoNotOverlap == Spec => OneTurnAtATime
<1>1. IInv /\ [Next]_vars => [TurnsApart]_vars
  BY NextKeeps
<1> QED
  BY Invariant, <1>1, PTL DEF Spec, OneTurnAtATime, TurnsApart
=============================================================================

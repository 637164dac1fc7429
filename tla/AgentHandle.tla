----------------------------- MODULE AgentHandle -----------------------------
(***************************************************************************)
(* Agent handles in a kernel (runtime/agents.py): a handle's driver task   *)
(* takes a permit, opens a session on a CLI child and runs a turn, while   *)
(* other tasks of the same event loop send to the handle, interrupt it or  *)
(* close it, and may themselves be cancelled at any await.  A step goes    *)
(* from one await to the next.  All handles are spawned under one name, so *)
(* `_handles` is one variable and the name's registry row another.         *)
(*                                                                         *)
(* A bounded wait (`_bounded`) may end before what it waits for: nothing   *)
(* below assumes that a teardown or a drain fits its budget.  What happens *)
(* inside the SDK's connect() is the SDK's: the child is ours from the     *)
(* moment connect() has returned.                                          *)
(***************************************************************************)
EXTENDS Integers, FiniteSets

CONSTANTS CliHandles,   \* handles on a CLI child, made by spawn or resume
          HostHandles,  \* handles on the agent host's subagents
          Tasks,        \* tasks that call run, send, interrupt and close
          None,         \* no handle, no task
          Cap,          \* max_concurrency, the shared semaphore's permits
          MaxTurns      \* bound: follow-up turns of one handle

Handles == CliHandles \cup HostHandles

ASSUME CapAssumption == Cap \in Nat \ {0} /\ MaxTurns \in Nat
ASSUME KindsAssumption == /\ CliHandles \cap HostHandles = {}
                          /\ None \notin Handles /\ None \notin Tasks
                          /\ IsFiniteSet(Handles) /\ IsFiniteSet(Tasks)
                          /\ Handles \cap Tasks = {}

VARIABLES handle,     \* the handles, each with its driver and its child
          permits,    \* what the semaphore has left
          bound,      \* _handles[name]
          row,        \* the name's row in agents.json, and who wrote it
          task        \* where the calling tasks stand

vars == <<handle, permits, bound, row, task>>

Terminal == {"done", "error", "interrupted"}
Over == {"ok", "failed", "cancelled"}                   \* driver.done()
WithPermit == {"connecting", "opening", "turn", "undo"}  \* inside _guarded

\* A handle before it is made.  `phase` is where its driver stands, `turns`
\* how many sends have replaced the driver, `cancelled` a cancel() not yet
\* delivered, `why` what sent open_session to its own teardown, `child` the
\* CLI process ("torn": its disconnect was cut short and nobody holds it).
\* `cut` remembers that a caller was cancelled while it was taking the handle
\* down; no code reads it.
Unborn == [kind |-> "none", status |-> "unborn", phase |-> "none",
           turns |-> 0, cancelled |-> FALSE, why |-> "none",
           session |-> FALSE, child |-> "none", interrupting |-> FALSE,
           result |-> "pending", lock |-> None, cut |-> FALSE]

Idle == [pc |-> "idle", on |-> None, turn |-> 0]

Handle == [kind : {"none", "spawn", "resume", "host"},
           status : {"unborn", "running", "lost"} \cup Terminal,
           phase : {"none", "unstarted", "queued", "closing"}
                     \cup WithPermit \cup Over,
           turns : 0..MaxTurns,
           cancelled : BOOLEAN,
           why : {"none", "failed", "timeout", "cancelled"},
           session : BOOLEAN,
           child : {"none", "alive", "closing", "gone", "torn"},
           interrupting : BOOLEAN,
           result : {"pending", "value", "exception"},
           lock : Tasks \cup {None},
           cut : BOOLEAN]

Task == [pc : {"idle", "locking", "settling", "turning", "drain",
               "cancelling", "closing", "reaping", "wanting", "running"},
         on : Handles \cup {None},
         turn : 0..MaxTurns]

Init == /\ handle = [h \in Handles |-> Unborn]
        /\ permits = Cap
        /\ bound = None
        /\ row = [of |-> None, status |-> "none"]
        /\ task = [t \in Tasks |-> Idle]

-----------------------------------------------------------------------------
(* What the operations do to one handle.                                   *)

\* mutant: whoever settles last is believed.
SettledAnew(r, value) == [r EXCEPT !.result = value]

\* _settle_result, _settle_exception: the first to settle is the last.
Settled(r, value) == IF r.result = "pending" THEN [r EXCEPT !.result = value]
                                             ELSE r

\* close() with a session: the handle lets go of it and disconnects.
Disconnecting(r) == [r EXCEPT !.session = FALSE,
                              !.child = IF @ = "alive" THEN "closing" ELSE @]

\* driver.cancel(): nothing happens to a driver that is done.
Cancelling(r) == [r EXCEPT !.cancelled = r.phase \notin Over]

Leaves(r, phase) == [r EXCEPT !.phase = phase, !.cancelled = FALSE, !.why = "none"]

\* drive's `except Exception`: terminal at once, then close(), then settle.
Failing(r) ==
  LET e == [r EXCEPT !.status = "error"]
  IN  IF r.session THEN Leaves(Disconnecting(e), "closing")
                   ELSE Leaves(Settled(e, "exception"), "failed")

\* drive's `except CancelledError`: an interrupt that is in charge settles.
Speaks(r) == r.turns = 0 /\ r.status \notin Terminal /\ ~r.interrupting

Stopping(r) ==
  IF Speaks(r)
  THEN Leaves(Settled([r EXCEPT !.status = "interrupted"], "exception"),
              "cancelled")
  ELSE Leaves(r, "cancelled")

Becomes(h, r) == handle' = [handle EXCEPT ![h] = r]
Writes(h, status) == row' = [of |-> h, status |-> status]
WritesIf(cond, h, status) == IF cond THEN Writes(h, status) ELSE UNCHANGED row
Moves(t, pc) == task' = [task EXCEPT ![t].pc = pc]
Returns(t) == task' = [task EXCEPT ![t] = Idle]

\* mutant: a release in a `finally` around the acquire.
GivesBackUnheld(r) == permits' = permits + (IF r.kind = "host" THEN 0 ELSE 1)

\* The permit comes back as the driver leaves _guarded.
GivesBack(r) == permits' = permits + (IF r.phase \in WithPermit /\ r.kind # "host"
                                      THEN 1 ELSE 0)

-----------------------------------------------------------------------------
(* Making a handle.                                                        *)

\* mutant: a terminal handle's name is free, its session kept or not.
NameFreeOnceOver == bound # None => handle[bound].status # "running"

\* _claim_name: a finished handle that keeps its session keeps its name.
NameFree == bound # None => /\ handle[bound].status # "running"
                            /\ ~handle[bound].session

\* A new handle, its driver scheduled.
Makes(h, kind) ==
  /\ handle[h].status = "unborn"
  /\ NameFree
  /\ Becomes(h, [Unborn EXCEPT !.kind = kind, !.status = "running",
                               !.phase = "unstarted"])
  /\ bound' = h
  /\ UNCHANGED <<permits, task>>

Spawn(h) == h \in CliHandles /\ Makes(h, "spawn") /\ Writes(h, "running")

SpawnOnHost(h) == h \in HostHandles /\ Makes(h, "host") /\ Writes(h, "running")

\* The row of a resumed session is left as it is until the session is open.
Resume(h) == h \in CliHandles /\ Makes(h, "resume") /\ UNCHANGED row

-----------------------------------------------------------------------------
(* The driver: drive() and open_(), and the turn that a send() puts in     *)
(* their place.                                                            *)

DriverStarts(h) ==
  LET r == handle[h]
  IN  /\ r.phase = "unstarted" /\ ~r.cancelled
      /\ Becomes(h, [r EXCEPT !.phase = IF r.kind = "host" THEN "turn"
                                                           ELSE "queued"])
      /\ UNCHANGED <<permits, bound, row, task>>

Acquires(h) ==
  LET r == handle[h]
  IN  /\ r.phase = "queued" /\ ~r.cancelled
      /\ permits > 0
      /\ permits' = permits - 1
      /\ Becomes(h, [r EXCEPT !.phase = IF r.turns = 0 THEN "connecting"
                                                       ELSE "turn"])
      /\ UNCHANGED <<bound, row, task>>

\* connect() has returned: the child runs, open_session goes on to query().
Connected(h) ==
  LET r == handle[h]
  IN  /\ r.phase = "connecting" /\ ~r.cancelled
      /\ Becomes(h, [r EXCEPT !.phase = "opening", !.child = "alive"])
      /\ UNCHANGED <<permits, bound, row, task>>

\* open_session returned: a spawned handle goes on into its turn, a resumed
\* one is done.
Opened(h) ==
  LET r == handle[h]
      o == [r EXCEPT !.session = TRUE]
  IN  /\ r.phase = "opening" /\ ~r.cancelled
      /\ r.kind = "spawn"
      /\ Becomes(h, [o EXCEPT !.phase = "turn"])
      /\ Writes(h, "running")
      /\ UNCHANGED <<permits, bound, task>>

Resumed(h) ==
  LET r == handle[h]
      o == [r EXCEPT !.session = TRUE, !.status = "done"]
  IN  /\ r.phase = "opening" /\ r.kind = "resume" /\ ~r.cancelled
      /\ Becomes(h, Leaves(Settled(o, "value"), "ok"))
      /\ Writes(h, "done")
      /\ GivesBack(r)
      /\ UNCHANGED <<bound, task>>

\* The child's id arrives in its first turn, and on_session_id tells the row.
LearnsId(h) ==
  LET r == handle[h]
  IN  /\ r.phase = "turn" /\ r.turns = 0 /\ r.kind = "spawn" /\ ~r.cancelled
      /\ Writes(h, "running")
      /\ UNCHANGED <<handle, permits, bound, task>>

\* The host takes the job: the row of its turn.
HostTakes(h) ==
  LET r == handle[h]
  IN  /\ r.phase = "turn" /\ r.kind = "host" /\ ~r.cancelled
      /\ Writes(h, "running")
      /\ UNCHANGED <<handle, permits, bound, task>>

\* The first turn's result settles the handle.
Completes(h) ==
  LET r == handle[h]
  IN  /\ Becomes(h, Leaves(Settled([r EXCEPT !.status = "done"], "value"), "ok"))
      /\ Writes(h, "done")

\* The stream ends: on its own, with the partial result of an interrupt, or
\* because the session was closed under it.
TurnEnds(h) ==
  LET r == handle[h]
  IN  /\ r.phase = "turn" /\ r.kind # "host" /\ ~r.cancelled
      /\ r.child \in {"alive", "closing"}
      /\ \/ r.turns = 0 /\ Completes(h)
         \/ r.turns > 0 /\ Becomes(h, Leaves(r, "ok")) /\ UNCHANGED row
      /\ GivesBack(r)
      /\ UNCHANGED <<bound, task>>

\* The host's answer.
HostAnswers(h) ==
  LET r == handle[h]
  IN  /\ r.phase = "turn" /\ r.kind = "host" /\ ~r.cancelled
      /\ Completes(h)
      /\ UNCHANGED <<permits, bound, task>>

\* An error of the backend, a failed turn, or the call's deadline.
DriverFails(h) ==
  LET r == handle[h]
  IN  /\ r.phase \in {"queued", "connecting", "turn"} /\ ~r.cancelled
      /\ Becomes(h, IF r.turns = 0 THEN Failing(r) ELSE Leaves(r, "failed"))
      /\ WritesIf(r.turns = 0, h, "error")
      /\ GivesBack(r)
      /\ UNCHANGED <<bound, task>>

\* query() failed or ran into the deadline: open_session disconnects.
OpenFails(h, why) ==
  LET r == handle[h]
  IN  /\ r.phase = "opening" /\ ~r.cancelled
      /\ Becomes(h, [r EXCEPT !.phase = "undo", !.why = why])
      /\ UNCHANGED <<permits, bound, row, task>>

\* What open_session raises once its teardown is over.
Raises(h, r) ==
  IF r.why = "cancelled"
  THEN Becomes(h, Stopping(r)) /\ WritesIf(Speaks(r), h, "interrupted")
  ELSE Becomes(h, Failing(r)) /\ Writes(h, "error")

Undone(h) ==
  LET r == handle[h]
  IN  /\ r.phase = "undo" /\ ~r.cancelled
      /\ Raises(h, [r EXCEPT !.child = "gone"])
      /\ GivesBack(r)
      /\ UNCHANGED <<bound, task>>

\* A second cancel, or a deadline that had not fired, lands in that
\* teardown: `except Exception` does not catch it and the child stays.
UndoCut(h) ==
  LET r == [handle[h] EXCEPT !.child = "torn"]
  IN  /\ r.phase = "undo"
      /\ r.cancelled \/ r.why # "timeout"
      /\ Raises(h, IF r.cancelled THEN [r EXCEPT !.why = "cancelled"] ELSE r)
      /\ GivesBack(r)
      /\ UNCHANGED <<bound, task>>

\* A cancel() reaches the driver where it waits.  One that never started, or
\* that is closing after an error, says nothing on its way out.  A job that
\* the host has taken says so in _run_on_host, before the driver may.
CancelHits(h) ==
  LET r == handle[h]
  IN  /\ r.cancelled
      /\ \/ /\ r.phase = "opening"
            /\ Becomes(h, [r EXCEPT !.phase = "undo", !.why = "cancelled",
                                    !.cancelled = FALSE])
            /\ UNCHANGED row
         \/ /\ r.phase \in {"unstarted", "closing"}
            /\ Becomes(h, Leaves(r, "cancelled"))
            /\ UNCHANGED row
         \/ /\ r.phase \in {"queued", "connecting", "turn"}
            /\ Becomes(h, Stopping(r))
            /\ \E taken \in {FALSE, r.kind = "host"} :
                  WritesIf(taken \/ Speaks(r), h, "interrupted")
      /\ IF r.phase = "opening" THEN UNCHANGED permits ELSE GivesBack(r)
      /\ UNCHANGED <<bound, task>>

\* drive's own close() after an error has returned.
DriverClosed(h) ==
  LET r == handle[h]
  IN  /\ r.phase = "closing" /\ ~r.cancelled
      /\ Becomes(h, Leaves(Settled(r, "exception"), "failed"))
      /\ UNCHANGED <<permits, bound, row, task>>

\* A disconnect ends in the background, whoever still waits for it.
Disconnected(h) ==
  /\ handle[h].child = "closing"
  /\ Becomes(h, [handle[h] EXCEPT !.child = "gone"])
  /\ UNCHANGED <<permits, bound, row, task>>

-----------------------------------------------------------------------------
(* send(): the handle's turn lock, the first turn's result, then a turn.   *)

\* MaxTurns bounds the sends made and under way.
SendCalls(t, h) ==
  /\ task[t].pc = "idle" /\ handle[h].status \notin {"unborn", "lost"}
  /\ handle[h].turns + Cardinality({u \in Tasks : /\ task[u].on = h
                                                  /\ task[u].pc \in {"locking", "settling"}})
       < MaxTurns
  /\ task' = [task EXCEPT ![t] = [Idle EXCEPT !.pc = "locking", !.on = h]]
  /\ UNCHANGED <<handle, permits, bound, row>>

\* mutant: no turn lock.
SendLocksFreely(t) ==
  LET h == task[t].on
  IN  /\ task[t].pc = "locking"
      /\ Becomes(h, [handle[h] EXCEPT !.lock = t])
      /\ Moves(t, "settling")
      /\ UNCHANGED <<permits, bound, row>>

\* async with self._turn_lock
SendLocks(t) ==
  LET h == task[t].on
  IN  /\ task[t].pc = "locking"
      /\ handle[h].lock = None
      /\ Becomes(h, [handle[h] EXCEPT !.lock = t])
      /\ Moves(t, "settling")
      /\ UNCHANGED <<permits, bound, row>>

\* A running handle's result is awaited, and not its status asked again.
\* The turn is a task of its own, on the session bound here.
SendGoes(t) ==
  LET h == task[t].on
      r == handle[h]
      refused == ~r.session \/ (r.status = "running" /\ r.result = "exception")
  IN  /\ task[t].pc = "settling"
      /\ r.status = "running" => r.result # "pending"
      /\ IF refused
         THEN /\ Becomes(h, [r EXCEPT !.lock = None])
              /\ Returns(t)
              /\ UNCHANGED row
         ELSE /\ Becomes(h, [r EXCEPT !.status = "running", !.phase = "unstarted",
                                      !.turns = @ + 1])
              /\ Writes(h, "running")
              /\ Moves(t, "turning")
      /\ UNCHANGED <<permits, bound>>

\* The turn is over.  _poison: one that did not end well, or whose caller was
\* cancelled before it could go on, closes the session.
SendResumes(t, cancelled) ==
  LET h == task[t].on
      r == [handle[h] EXCEPT !.lock = None]
      status == CASE cancelled \/ r.phase = "cancelled" -> "interrupted"
                  [] ~cancelled /\ r.phase = "ok" -> "done"
                  [] ~cancelled /\ r.phase = "failed" -> "error"
      silent == status = "done" /\ (r.interrupting \/ r.status \in Terminal)
  IN  /\ task[t].pc = "turning"
      /\ r.phase \in Over
      /\ IF silent
         THEN Becomes(h, r) /\ UNCHANGED row
         ELSE /\ LET s == [r EXCEPT !.status = status]
                 IN  Becomes(h, IF status # "done" /\ r.session
                                THEN Disconnecting(s) ELSE s)
              /\ Writes(h, status)
      /\ Returns(t)
      /\ UNCHANGED <<permits, bound>>

SendEnds(t) == \E cancelled \in BOOLEAN : SendResumes(t, cancelled)

-----------------------------------------------------------------------------
(* interrupt() and close().                                                *)

\* A session is signalled and its driver left to drain; a driver without one
\* is cancelled.  (A terminal handle is closed: Close below.)
InterruptCalls(t, h) ==
  LET r == handle[h]
      i == [r EXCEPT !.interrupting = TRUE]
  IN  /\ task[t].pc = "idle"
      /\ r.status = "running" /\ ~r.interrupting
      /\ Becomes(h, IF r.session THEN i ELSE Cancelling(i))
      /\ task' = [task EXCEPT ![t] = [pc |-> IF r.session THEN "drain" ELSE "cancelling",
                                      on |-> h, turn |-> r.turns]]
      /\ UNCHANGED <<permits, bound, row>>

\* The driver that the interrupt took from the handle at its start is done.
Drained(t) == \/ handle[task[t].on].turns # task[t].turn
              \/ handle[task[t].on].phase \in Over

\* The drain outlived its budget.
DrainWedged(t) ==
  LET h == task[t].on
  IN  /\ task[t].pc = "drain" /\ ~Drained(t)
      /\ Becomes(h, Cancelling(handle[h]))
      /\ Moves(t, "cancelling")
      /\ UNCHANGED <<permits, bound, row>>

\* mutant: the interrupt trusts the driver to have settled the handle.
InterruptTrusts(t) ==
  LET h == task[t].on
      r == [handle[h] EXCEPT !.status = "interrupted"]
  IN  /\ \/ task[t].pc = "cancelling"
         \/ task[t].pc = "drain" /\ Drained(t)
      /\ Becomes(h, IF r.session THEN Disconnecting(r) ELSE Cancelling(r))
      /\ Moves(t, "closing")
      /\ UNCHANGED <<permits, bound, row>>

\* interrupted, settled, and on into close().
InterruptSettles(t) ==
  LET h == task[t].on
      r == Settled([handle[h] EXCEPT !.status = "interrupted"], "exception")
  IN  /\ \/ task[t].pc = "cancelling"
         \/ task[t].pc = "drain" /\ Drained(t)
      /\ Becomes(h, IF r.session THEN Disconnecting(r) ELSE Cancelling(r))
      /\ Moves(t, "closing")
      /\ UNCHANGED <<permits, bound, row>>

InterruptReturns(t) ==
  /\ task[t].pc = "closing"
  /\ Writes(task[t].on, "interrupted")
  /\ Returns(t)
  /\ UNCHANGED <<handle, permits, bound>>

\* mutant: a driver without a session is left to find out.
CloseIdly(t, h) ==
  LET r == handle[h]
  IN  /\ task[t].pc = "idle" /\ r.status \notin {"unborn", "lost"}
      /\ \/ r.session /\ Becomes(h, Disconnecting(r)) /\ UNCHANGED task
         \/ /\ ~r.session /\ r.phase \notin Over
            /\ task' = [task EXCEPT ![t] = [Idle EXCEPT !.pc = "reaping", !.on = h]]
            /\ UNCHANGED handle
      /\ UNCHANGED <<permits, bound, row>>

\* close(): the session is let go, or the driver that has none is cancelled.
CloseCalls(t, h) ==
  LET r == handle[h]
  IN  /\ task[t].pc = "idle" /\ r.status \notin {"unborn", "lost"}
      /\ \/ r.session /\ Becomes(h, Disconnecting(r)) /\ UNCHANGED task
         \/ /\ ~r.session /\ r.phase \notin Over
            /\ Becomes(h, Cancelling(r))
            /\ task' = [task EXCEPT ![t] = [Idle EXCEPT !.pc = "reaping", !.on = h]]
      /\ UNCHANGED <<permits, bound, row>>

\* The belt: for a driver that said nothing, or not yet.
CloseReturns(t) ==
  LET h == task[t].on
      r == handle[h]
      belt == r.status \notin Terminal
  IN  /\ task[t].pc = "reaping"
      /\ Becomes(h, Settled([r EXCEPT !.status = IF belt THEN "interrupted" ELSE @],
                            "exception"))
      /\ WritesIf(belt, h, "interrupted")
      /\ Returns(t)
      /\ UNCHANGED <<permits, bound>>

-----------------------------------------------------------------------------
(* One-shot calls under the same semaphore: run, fork, llm, web_search.    *)

RunCalls(t) ==
  /\ task[t].pc = "idle"
  /\ Moves(t, "wanting")
  /\ UNCHANGED <<handle, permits, bound, row>>

RunStarts(t) ==
  /\ task[t].pc = "wanting" /\ permits > 0
  /\ permits' = permits - 1
  /\ Moves(t, "running")
  /\ UNCHANGED <<handle, bound, row>>

\* Its result, its failure, its deadline or its caller's cancellation.
RunEnds(t) ==
  /\ task[t].pc \in {"wanting", "running"}
  /\ permits' = permits + (IF task[t].pc = "running" THEN 1 ELSE 0)
  /\ Returns(t)
  /\ UNCHANGED <<handle, bound, row>>

-----------------------------------------------------------------------------
(* A caller is cancelled at its await; the kernel is killed.               *)

CallerCancelled(t) ==
  LET h == task[t].on
      r == handle[h]
  IN  /\ \/ /\ task[t].pc = "locking"
            /\ Returns(t)
            /\ UNCHANGED handle
         \/ /\ task[t].pc = "settling"
            /\ Becomes(h, [r EXCEPT !.lock = None])
            /\ Returns(t)
         \/ /\ task[t].pc = "turning" /\ r.phase \notin Over
            /\ Becomes(h, Cancelling(r))
            /\ UNCHANGED task
         \/ /\ task[t].pc \in {"drain", "cancelling", "closing"}
            /\ Becomes(h, [r EXCEPT !.interrupting = FALSE, !.cut = TRUE])
            /\ Returns(t)
         \/ /\ task[t].pc = "reaping"
            /\ Becomes(h, [r EXCEPT !.cut = TRUE])
            /\ Returns(t)
      /\ UNCHANGED <<permits, bound, row>>

\* mutant: the registry of the kernel before is taken as it is.
RestartBlindly ==
  /\ handle' = [h \in Handles |-> IF handle[h].status = "unborn" THEN Unborn
                                  ELSE [Unborn EXCEPT !.status = "lost"]]
  /\ task' = [t \in Tasks |-> Idle]
  /\ permits' = Cap
  /\ bound' = None
  /\ UNCHANGED row

\* A kernel dies with its handles and children, and the next one's
\* _reconcile_registry rewrites the rows that say "running".
Restart ==
  /\ handle' = [h \in Handles |-> IF handle[h].status = "unborn" THEN Unborn
                                  ELSE [Unborn EXCEPT !.status = "lost"]]
  /\ task' = [t \in Tasks |-> Idle]
  /\ permits' = Cap
  /\ bound' = None
  /\ row' = [row EXCEPT !.status = IF @ = "running" THEN "orphaned" ELSE @]

-----------------------------------------------------------------------------
DriverNext(h) ==
  \/ DriverStarts(h) \/ Acquires(h) \/ Connected(h) \/ Opened(h) \/ Resumed(h)
  \/ LearnsId(h) \/ HostTakes(h) \/ TurnEnds(h) \/ HostAnswers(h)
  \/ DriverFails(h)
  \/ \E why \in {"failed", "timeout"} : OpenFails(h, why)
  \/ Undone(h) \/ UndoCut(h) \/ CancelHits(h) \/ DriverClosed(h)
  \/ Disconnected(h)

CallNext(t) ==
  \/ \E h \in Handles : SendCalls(t, h) \/ InterruptCalls(t, h) \/ CloseCalls(t, h)
  \/ SendLocks(t) \/ SendGoes(t) \/ SendEnds(t)
  \/ DrainWedged(t) \/ InterruptSettles(t) \/ InterruptReturns(t)
  \/ CloseReturns(t)
  \/ RunCalls(t) \/ RunStarts(t) \/ RunEnds(t)
  \/ CallerCancelled(t)

Next == \/ \E h \in Handles : Spawn(h) \/ SpawnOnHost(h) \/ Resume(h)
        \/ \E h \in Handles : DriverNext(h)
        \/ \E t \in Tasks : CallNext(t)
        \/ Restart

Spec == Init /\ [][Next]_vars

-----------------------------------------------------------------------------
TypeOK == /\ handle \in [Handles -> Handle]
          /\ permits \in 0..Cap
          /\ bound \in Handles \cup {None}
          /\ row \in [of : Handles \cup {None},
                      status : {"none", "running", "orphaned"} \cup Terminal]
          /\ task \in [Tasks -> Task]

Holders == {h \in Handles : handle[h].phase \in WithPermit /\ handle[h].kind # "host"}
             \cup {t \in Tasks : task[t].pc = "running"}

\* What the semaphore has lost is in the hands of a driver or a call that is
\* still inside it.
PermitsKept == permits + Cardinality(Holders) = Cap

\* A running child is being opened or undone by its driver, or is the session
\* of the handle that holds the name.
ChildHeld ==
  \A h \in Handles : handle[h].child = "alive" =>
    \/ handle[h].phase \in {"opening", "undo"}
    \/ handle[h].session /\ bound = h

\* "no path leaves a permit held or a CLI process tree alive" (agents.py:11)
\* when nobody is left to give it back.  Not promised: the tree of a child whose
\* teardown was cut short ("torn").
NothingLeftBehind == PermitsKept /\ ChildHeld

\* interrupt() and close() leave no turn behind that would "run a whole
\* (billed) turn under an 'interrupted' label": a driver on its way to a child
\* or in a turn on a live one is a running handle's, or has been cancelled.
Billed(h) == /\ handle[h].phase \in {"queued", "connecting", "opening", "turn"}
             /\ handle[h].turns = 0 \/ handle[h].child = "alive"

BilledWhileRunning ==
  \A h \in Handles : Billed(h) => handle[h].status = "running" \/ handle[h].cancelled

\* "agent.list() showed phantoms": a row that says running is that of a
\* running handle, or of one whose interrupt has yet to write it.  An
\* interrupt whose caller was cancelled may never write it.
NoPhantoms ==
  row.status = "running" =>
    \/ handle[row.of].status = "running"
    \/ handle[row.of].cut
    \/ \E t \in Tasks : task[t].pc = "closing" /\ task[t].on = row.of

\* One turn at a time on one session: a send's turn takes the driver's place
\* only when the driver before it is done.
OneTurnAtATime ==
  [][\A h \in Handles : handle'[h].turns > handle[h].turns => handle[h].phase \in Over]_vars

\* Whoever awaits result() is not left alone: once the driver is done the
\* result is there, or an interrupt or a close that will settle it is under
\* way, unless the caller of one was cancelled in the middle of it.
SettlerAtHand ==
  \A h \in Handles :
    handle[h].phase \in Over /\ handle[h].result = "pending" =>
      \/ handle[h].cut
      \/ \E t \in Tasks : task[t].on = h /\ task[t].pc \in {"drain", "cancelling", "reaping"}

\* A handle on the host has no session of its own: it is always ahead.
Ahead(r) ==
  \/ r.status = "unborn" \/ r.kind = "host"
  \/ r.turns = 0 /\ r.phase \in {"unstarted", "queued", "connecting", "opening", "undo"}

Stage(r) == IF r.session THEN "open" ELSE IF Ahead(r) THEN "ahead" ELSE "gone"

A == INSTANCE Agent
       WITH bearer <- bound,
            session <- [h \in Handles |-> Stage(handle[h])],
            working <- {h \in Handles : handle[h].phase \notin Over \cup {"none"}},
            answer <- [h \in Handles |-> handle[h].result]

\* A name stands for one session at a time, whoever interrupts, closes or
\* abandons the handles that had it (_claim_name), and no session is opened,
\* answered or put to a new turn out of its time.
AgentSpec == A!Spec
=============================================================================

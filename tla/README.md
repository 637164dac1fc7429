# ptc-tool in TLA+

ptc-tool gives a coding agent a persistent Python kernel: adapters (an MCP server per
session, a CLI) submit *cells* to an ipykernel process that belongs to a *key*, and code in
the kernel can start agents and models of its own, most of them inside one *agent host*
process. This directory holds TLA+ modules that model that system, TLC configurations that
check them on small instances and TLAPS proofs about them. Paths below are relative to the
repository; `client.py`, `kernel.py`, `lock.py`, `ownership.py` are in `src/ptc/`,
`cells.py`, `bgroups.py`, `toolgroups.py`, `mcp.py` too; `bootstrap.py`, `host.py`, `agents.py`,
`claude_backend.py` and `shell.py` in `src/ptc/runtime/`, `host.tsx` in `host-plugin/hooks/mods/`.

    tlc -workers 2 -config MCAdmission.cfg MCAdmission      # a run
    tlapm AdmissionProofs.tla                               # a proof module

## The system

| Part | State | Operations | Talks to |
|---|---|---|---|
| Kernel lifecycle (`kernel.py`, `ownership.py`) | `owner.json`, `ready`, `connection.json`, `meta.json`, `cells/`, archives, under the key lock | ensure, kill, restart, clean stale, rotate | processes; clients read its files without its lock |
| Key lock (`lock.py`) | the lock file of a directory and its flock | `flock_path`, shared by the key lock and the submit lock | directory sweep |
| Cell admission (`client.py`) | `submit.lock`, `cells/pending.json`, reads `cells/current.json` and records | `exec_cell`, `exec_cell_queued`, `is_busy` | the kernel's shell and iopub channels, the lifecycle |
| Waiting and reading (`client.py`, `cells.py`) | output cursors | `_follow`, `wait_cell`, `cell_output`, `interrupt` | files the kernel writes and the lifecycle rotates |
| Kernel-side hooks and watchdog (`bootstrap.py`) | execution count, `current.json`, records, `expired.marker` | pre-run, post-run, expiry, reap | the shell, the lifecycle |
| Agent host, kernel half (`host.py`) | generations, jobs, permits, crash window | `submit`, start, hello, poll, results, lease, retire, close | the mod, over a long poll |
| Agent host, mod (`host.tsx`) | running jobs, ack, stopped flag | poll loop, dispatch, spawn, turn.complete, post | the engine, the kernel half |
| Agent handles (`agents.py`, backends) | status, session, latches, the registry file | spawn, send, interrupt, close, fork, resume | semaphore, backends, host |
| Shell and process groups (`shell.py`, `bgroups.py`, `toolgroups.py`) | rows of groups with start times | register, retire, reap, stop | the OS, the sweeps |
| Virtual environments (`venv.py`, `bin/ptc-launch`) | builds, references of kernels | provision, collect | kernels' `meta.json` |
| MCP adapter, CLI, hooks, discovery | session records | tools that call the above | everything |

What makes it hard: nothing but two file locks keeps processes apart, and most readers take
neither; a kernel's state is a set of files written at different moments; any process may be
killed between two of them; the agent host is reached over a channel that loses requests and
answers, and callers give up at any time. `PROJECT.json` lists the hazards line by line.

What each part must get right:

* admission: one request at a time per kernel; *busy* is never answered "free" while a
  request is there; answers and markers go to the right request; the lock comes back;
* key lock: one holder, however often the file is unlinked; nobody stranded on a dead file;
* lifecycle: one kernel per key, which `owner.json` names; cell numbers are never reused;
* agent host: permits conserved, cap kept, every call settled, no agent run twice;
* handles: a turn is interrupted, closed or poisoned once, and its semaphore given back;
* waiting: an answer is the truth about the cell asked for, no output comes twice or is left
  out, a wait for something that is over ends, an interrupt hits what it was meant for;
* groups and environments: nothing that is in use is killed or removed, and nothing of ours
  is left running with no record that leads to it.

## The modules

| Module | What it is | Stands for |
|---|---|---|
| `Tenancy` | promise: one kernel under a key, never expired with a cell in flight | `kernel.py` 207-367, `_expire_if_idle`'s docstring |
| `Lifecycle` | detailed model | `ensure_kernel`, `kill_kernel`, `restart_kernel`, and the admission, hooks and watchdog of `bootstrap.py` |
| `Feed` | promise to those who wait: in what order marker, logs, `current.json` and records change | what `wait_cell` and `interrupt` take from `exec_cell` and the hooks |
| `Slot` | promise: a kernel has one slot | the F2 promise in `exec_cell`'s docstring |
| `Admission` | detailed model | `client.py` 137-198, 285-568, the hooks of `bootstrap.py`, spawns and kills of `kernel.py` |
| `Mutex` | promise: one holder of a key | `lock.py`'s docstring |
| `FileLock` | detailed model | `lock.py`, and the sweep `gc_kernel_dirs` that unlinks lock files |
| `Calls` | promise: what a host call may see | `submit`'s docstring, `host.py` 440-451 |
| `AgentHost` | detailed model | `AgentHost` in `host.py` and the mod in `host.tsx` |
| `Agent` | promise: a name stands for one session at a time, an answer is given once | `AgentHandle`'s and `_claim_name`'s contract in `agents.py` |
| `AgentHandle` | detailed model | `AgentHandle` and `_Agent` in `agents.py`, the sessions of `claude_backend.py` |
| `Waiting` | detailed model | `wait_cell`, `_follow`, `_settle_dead`, `_archived`, `interrupt` in `client.py`, `cells.py` |
| `Groups` | detailed model | `shell.py`, `bgroups.py`, the tracker of `toolgroups.py` |
| `MC...` | instances for TLC | |
| `...Proofs` | theorems | |

Definitions named "mutant" or "plausible slip" in the modules are altered copies of the
action below them. They are not part of any specification: substituting one for the original
must make the property it is about fail, which shows that the property depends on that code.

### Admission

Variables: the files of a key (`owner`, `ready`, `conn`, `current`, `records`, `pending`,
`lastLog`), the kernel process (`live`, `queue`, `running`, `count`), the submit lock, and
per client a step and its locals (`pc`, `mine`). Kernels are numbered as they are spawned and
a file that names a kernel holds its number, 0 if absent. `Epoch` maps two consecutive
kernels to one epoch, because the epoch stamp is a whole second. `settled`, `ranAs` and the
`link` in a marker are history.

A client's actions follow `exec_cell` line by line: lock, `is_busy` in its four reads and an
unlink, read owner / connect / confirm owner, marker, send, wait for the id by either
witness, wait for the publication, clear or rewrite the marker after one more look at the
owner. `Probe` enters the same `is_busy` steps without the lock. `Leave` is every return or
raise. The kernel takes requests in the order received (`Take`, `Publish`, `Finish`); the key
lock's side kills, cleans, rotates, launches, and may die between any two of those.

* `SlowStart` says whether a client may meet a kernel between its `owner.json` and its
  `ready` file. Only the bootstrapped part of that window is modelled.
* `Connect` is `_wait_shell_ready`: the reply to a kernel_info request comes when every
  earlier request is done. External assumption: ZeroMQ's shell channel is ordered and
  ipykernel handles shell messages one after another. Otherwise the 20 s pass.
* `Mark` writes the marker and reads the baseline in one step: only this client's request
  or a rotation can come between.
* `KillKernel` and `CleanStale` are one step each, and so is `Launch` (Popen, `owner.json`, ports
  and bootstrap); `Lifecycle` takes those apart.
* The idle watchdog is `Expire`, `Vacate`, `CloseReady`, `Exit` and `Balk`, under the key lock
  (`spawner`): `owner.json` goes first, then `ready`, the process last, and a request it has
  taken waits in `_admit` meanwhile (`Publish`). `KernelDies` is a crash, at any time.
* What such a kernel still holds when it has given up `owner.json` never runs, and `is_busy` does
  let the next submitter past it. So `AdmittedOnlyWhenFree` and `FeedSpec` speak of the requests
  that are `Due`: held by the kernel that `owner.json` names.
* A cleanup that fails between `owner.json` and `ready`, and a kernel whose spawner was killed at
  the fork, leave a kernel that no file names. Such kernels are left to `Lifecycle` (`lost`).

Properties: `AdmittedOnlyWhenFree`, `AnswerIsOwn`, `BlockingMarkerIsCurrent`, `IdsNeverReused`,
`SubmitLockReleased`, and two refinements: `SlotSpec`, of `Slot` with
`slot <- Held` (the requests queued or running), and `FeedSpec`, of `Feed` with the marker, the
cell it names, the logs (`DOMAIN ranAs`, which rotations keep), `current.json` and the records.

### Lifecycle

Variables: the files (`owner`, `ready`, `marker`, `meta`), the key lock, each kernel's `state`
(unborn, up, asked to bootstrap, booted, dead), its cell and its watchdog's place, and of each
caller a step and its locals (`pc`, `my`). `config` and `lost` are history: the configuration
a kernel lives under, and the running kernels that `owner.json` will not name again. A kernel is
lost when its spawner is killed between `Popen` and `write_owner`; when its own cleanup fails at
`ready`, with `owner.json` already gone (`Balk`); or when a kernel lost before, which goes on
watching itself, expires again and removes the `owner.json` of its successor (`Vacate`).

A call takes the lock, looks, kills what stands, removes the files, forks, publishes the
owner, describes, boots, waits for the reply, writes `ready`, and takes the expiry notice; any
step between fork and `ready` may fail, and the caller may be killed at any. A restart is a
kill and an ensure with the lock given back in between. The watchdog samples without a lock,
takes the key lock, and from its last check on holds the admission lock too (`Admitting`).

* The lock is one variable, held by a caller, by a kernel's watchdog or by nobody: that
  `flock_path` provides as much is `FileLockProofs!Exclusive`.
* `config` is the caller that chose it; a restart that finds no recorded one uses its own.
* `settled_owner_state` answers the truth or refuses (`Doubt`).
* `Replace` may also replace a kernel that could be attached to: its venv or protocol is gone.
* A kernel runs one cell at a time; which idle rule a sample goes by is left open, so `Sample`
  may succeed whenever no cell is in flight.
* A cleanup of the watchdog may fail at the marker, at `owner.json` or at `ready` (`Balk`).
* `Spend` takes the notice and returns in one step: nothing of the call's lies between the two.
* `connection.json`, rotation and process groups do not appear; rotation is in `Admission`.

Properties: `RunningIsNamed`, `ToldIsBooted`, `NoticeDelivered`, `KeyFreed`, and
`TenancySpec`, the refinement of `Tenancy` with `standing` the kernels that run and are not
lost, `busy` those of them with a cell in flight, `leaving` those whose watchdog has bound itself.

### FileLock

Lock files are inodes numbered as they are created; `path` is the one at the lock's path and
`holder` the flock of each. A process goes through mkdir, open, flock, the same-file check,
and out; collectors do it with `timeout=0`. What lockers do inside: `Fork`, then `WriteOwner` or
`ForkFails`; `Kill`, in one step; and, for a kernel's watchdog, `Expire` (which removes
`owner.json`), then `Exit` or `Balk`. `hand` is the kernel that is being forked or expired, `lost`
as in `Lifecycle`. `List`, `RemoveLock`, `RemoveOwner`, `RemoveDir` are what `shutil.rmtree`
does. Refinement:
`Mutex` with `inside` the processes past the check; a collector is taken to leave the key
when it unlinks the lock file, which is exactly why `LiveKernelIsOwned` fails: that property says
that a running kernel which is not lost is named by `owner.json` or in the holder's hands.

### AgentHost

One job per caller, so a job is named by its call. Three layers: the call (`pc`, `told`), the
kernel's job table and generations (`job`, `future`, `free`, `gen`, `retired`, `queue`,
`cancels`, `seq`, `held`, ...), and the mod (`up`, `loop`, `stopped`, `ack`, `wire`, `run`,
`asked`). `wire` is the reply under way. `Retire` is `_retire` in full: every job of the
generation fails and gives its slot back; it is part of every action whose handler calls it
(watch, lease, failed start, delivery loss at a poll, the abandoned-cap rule, close).
Refinement: `Calls`, with the stages of the call's agent.

* `queue` and `cancels` are sets: any non-empty part of the queue may fit a reply.
* failures are never forgotten: a behaviour is shorter than the crash window.
* `close()` is one step. `Lapse` may come while the mod polls, because a cell that blocks the
  kernel's event loop delays the answers that `last_poll` comes from.
* poll requests reach the kernel in the order sent. (A superseded poll's empty answer, line
  653, carries the current `seq`; only the mod that gave that poll up could read it.)
* a lost answer to a result shows as `Post` without the mod's step: the result is sent again.
* model jobs (`runComplete`) go through the same stages as agents.

### AgentHandle

Variables: `handle` (each handle with its driver task, its CLI child, its latches and its
result), `permits` of the shared semaphore, `bound` (`_handles[name]`), `row` (the name's row in
`agents.json`, with the handle that wrote it last) and `task`, the calls under way. All handles
take one name, so that the claim of a name, the row and the handles meet. A step runs from one
`await` to the next. `phase` is where a driver stands: `unstarted`, `queued` on the semaphore,
`connecting` (inside the SDK's `connect()`), `opening` (`query()`), `undo` (the `disconnect()` of
`open_session`'s own error path), `turn`, `closing` (its own `close()` after an error), or over.
A follow-up turn (`SendGoes`) is a new task in the driver's place, with `turns` > 0.

* `cancelled` is a `task.cancel()` that has been asked for and not delivered: `CancelHits` is
  its delivery, different at each `await`. The caller of any operation may itself be cancelled
  (`CallerCancelled`), a send also after its turn's end and before it resumes (`SendEnds`), which
  poisons the handle; `cut` remembers that this hit an interrupt or a close half-way.
* `_bounded` stops waiting and lets the teardown finish: `Disconnected` comes whenever it
  comes, and a drain may or may not fit its budget (`DrainWedged`).
* `Restart` loses every handle and child (`lost`) and rewrites the row.
* A host handle has no permit and no child; its job's life is `AgentHost`.

Properties: `NothingLeftBehind` (permits and children), `BilledWhileRunning`, `NoPhantoms`,
`SettlerAtHand`, `OneTurnAtATime`, and `AgentSpec`, the refinement of `Agent` with
`bearer <- bound`, `working` the handles whose driver is under way, `answer` the result, and a
session that is ahead until a driver opened it, open while the handle has it, gone after.

### Waiting

Variables: the kernel (`kernel`; `inc`; the cell it has `queued` or is `running`), `current`,
`marker`, and for each cell its `place` (in `cells/`, in the last archive, in an older one), the
length of its log (`out`) and whether it has a record; for each caller the cursors in
`cells/offsets` (`live`) and those a rotation took into the archive (`kept`), a step `pc` and
its locals `my`, and the answer `said`. `served` (where the caller's last recorded read ended)
and `swapped` (a cell began since the last look at the target, or the marker that was read has
changed since) are history. `kernel` follows the files: `up`; `down`, when the process is dead;
`unowned` and `rotated`, as the next spawn unlinks and moves them; `booting`, alive and named but
with no `ready` file, in which it may already run the cell of a submitter that attached before;
and `leaving`, alive and disowned by its own watchdog, in which it begins nothing.

`wait_cell`'s loop is one action per look at a file, in the code's order: record, output, log,
archive, life, marker, death, scan, deadline; `_settle_dead` has its three looks. `_follow` is
the same loop begun at the log's start. The `is_busy` of an interrupter holds no lock and is
three looks and an unlink by name: at `current.json` and its record (`FindsInFlight`,
`FindsNoneInFlight`), at the marker (`ReadsMarker`), at what discharges it (`JudgesGone`,
`JudgesStanding`), and `Discards`. `_target_stands` is one look.

* An unreadable identity is a choice: `LooksForLife` may find a live kernel not alive,
  `FindsNotDead` a dead one not dead, as the two readings of "unknown" do.
* Output is a length, and one read takes `Chunk` of it at most (`READ_CHUNK_BYTES`). Whether new
  text matches `until=` is a choice, and the window of a long scan is left out.
* A kernel that has no `ready` file is judged dead, though it may run cells: `doubt` marks an
  answer or a verdict that came of it.
* Cells are admitted by `Submit` when nothing is in flight, and marker, log, `current.json` and
  record follow in order: all of that is inside `Feed`, which `Admission` implements too. That a
  second request may come in once the marker was taken is `Admission`'s to show (finding 1).
* A caller is one process; two threads of one adapter would share its cursors.
* Kernels that no file names are left to `Lifecycle`, and another process's `is_busy`, which takes
  the marker of a kernel not ready or discharged, is `Unmark`.

Properties: `AnswersTrue`, `NothingTwice`, `StruckAsMeant`, `WaitEnds`, a liveness property, and
`FeedSpec`: the kernels and submitters of this module do what `Feed` says, and so does each look
of its interrupters' `is_busy`, but for two verdicts that take the marker from a request which
needs it (`Mistaken`): one about a marker that is not the one unlinked any more, which is finding
1, and one about a kernel that is not ready yet. Nothing is promised while a request stands
`Stripped` of its marker. A final answer carries the output to the log's end or one whole chunk
of it (`AnswersTrue`); a `KernelDied` in `doubt` is set apart.

### Groups

Variables: the process table (`lead`, `kids`, `own`: who leads a number, whether the group has
other members, whose it is), the commands (`pc`, `num`, and `code`: the leader is out, has been
collected by the child watcher, or its `returncode` is set), the registry (`row`, and `live`,
the row that stands under a number, which is also the file), the watchers (`watch`), the claude
child (`agent`) with the tracker's rows (`tool`), and `hand`, a signal between its check and its
delivery. A row remembers whose group it was written of (`of`, the birth stamp): `Register`
reads whoever wears the number by then. `dropped` is history: groups that lost their row while
they go on, or were never given one - `kill()` or a reap for want of proof, a call that ends
between its leader's waitpid and the `returncode` (`Bereft`), a tool under a number that the
tracker has a row for already.

A number without members is handed to anybody (`Recycled`, or another command's `Starts`).
Each check of `bgroups.signalable` is taken with an identity that can or cannot be read, and the
signal leaves in a later step. Inside one kernel the checks and signals of `shell.py` do not
interleave with one another (they are synchronous code of one event loop); a tick of the
tracker's thread is taken to fall before or after them. A command may be cancelled while it
awaits its process (`CancelledEarly`: asyncio kills the leader, nothing is recorded), and while it
runs or reads; it may time out whatever has become of its leader.

* All strangers are one: of a stranger's pid it does not matter whose it is, only that it is not
  ours; it is taken to lead its own group.
* A zombie leader is found by `killpg(n, 0)` and by `getpgid`, as on Linux.
* `bgroups.reap`'s rows are read one by one; rows of one file do not affect each other.
* `stop_all_and_reap` differs from `stop_and_kill` in signalling the tools before it kills the
  stopped claudes: `ReapTool` is enabled from the reading on.

Properties: `NoStrangerKilled`, `NoneAstray`. Each names what it does not promise: a command
whose leader was collected before `_register` (`Late`) may record and later hit the stranger who
wore the number then; a call that is cancelled or times out when its leader has been collected
kills by pid; a command cancelled before `_register` leaves no record.

## The runs

| Run | Instance | Shows |
|---|---|---|
| `MCAdmission` | 3 interchangeable clients, 3 kernels, 3 requests; no probers, ready kernels | 66,083 states: nobody is let past `is_busy` while a request is held that will run; marker, logs and records change as `Feed` says |
| `MCAdmissionRaces` | 2 clients, one of them a prober; slow starts; 2 kernels, 2 requests | 201,587 states: one slot, right answers, right markers, unique numbers, the lock comes back |
| `MCAdmissionProbe` | as above with ready kernels | **violation** of `AdmittedOnlyWhenFree` |
| `MCLifecycle` | 2 callers, 2 kernels, 1 cell | 1,087,477 states: named or lost in a named way, booted, one at a time, no cell expired, the notice delivered, the lock given back |
| `MCLifecycleRestart` | 2 callers, 2 kernels, no cell | **violation** of `RestartKeepsConfig` |
| `MCFileLock` | 2 lockers, 1 collector, 3 lock files, 2 kernels | 36,096 states: mutual exclusion, nobody stranded |
| `MCFileLockCollect` | the same | **violation** of `LiveKernelIsOwned` |
| `MCAgentHost` | 2 callers, 1 slot, up to 3 generations, the first failure turns the host off | 66,636 states: types, conserved slots, the cap, the contract |
| `MCAgentHostLive` | 2 callers, 2 slots, up to 2 generations | 140,938 states: room to work, nobody stranded, slots return |
| `MCAgentHandle` | 1 CLI and 1 host handle of one name, 1 permit, 2 interchangeable tasks, 2 follow-ups | 1,167,329 states: nothing left behind, nothing billed under a terminal label, no phantom rows, results settled, one turn at a time, one session of a name |
| `MCWaiting` | 1 caller, 2 cells, the second of which writes up to 2 chunks, 2 kernels | @waiting states: true answers, no output twice, interrupts as meant; a wait for a cell that is over ends; the kernels are those of `Feed` |
| `MCGroups` | 1 number, a background and a foreground command, two interchangeable tools, of which two at most are started (`CONSTRAINT Few`) | 1,549,881 states: no stranger signalled, nothing of ours unrecorded |

Bounds. `MaxInc` kernels and `MaxReq` requests: a stale file needs one restart, a stale marker
one more request than the one it is about; three of each allow a second round. Three lock files:
one unlinked, one replaced, one more. `MaxKernel` = 2 has one kernel replaced by another, by a
call of the same caller or of the other, and one cell is enough to meet the expiry before, while
and after it runs; the proofs have no bounds. `MaxGen` never binds with two callers, as a caller
starts a generation only when it finds none and `CrashLimit` stops the third. `AgentHandle`: two
handles are a name's holder and the one that wants it, two tasks a call and the one that gets in
its way (what three callers may do to one handle was not run), one permit is a semaphore with a
queue. `Waiting`: two cells, so that a number can be reused after a restart and a cell can begin
under an interrupt; the second writes, two chunks at most, so that a read may or may not reach
the end. Callers share no cursor; the one thing of a caller's that others see is the marker that
its `is_busy` unlinks, and `Unmark` does as much for another, so one is enough. `Groups`: all
that jobs share is a number, hence one; any two of the commands and the tools start in any order,
with strangers before, between and after them (`CONSTRAINT Few`): each property is about one job
and one other that has its number. A claude that has started no tool is not stopped. Deadlock
checking is off but for `Lifecycle`, `AgentHandle`, `Waiting` and `Groups`, which never run out
of steps: with the bounds used up, a host closed, or every call settled, the other models stop,
as the system does.

Fairness. `Admission`: each client's own step, because every wait in `exec_cell` has a
deadline; no progress of kernels, spawners or new calls is assumed. `Lifecycle`: whoever holds
the key lock goes on (`HolderGoesOn`). A call's waits for ports, answers and the bootstrap are
bounded, and where one runs out the spawn fails; a watchdog's release of the backends has a
budget. Kernels, cells, samples and calls without the lock are not fair. `FileLock`: processes in
the lock code are scheduled and work under a lock ends. `AgentHost`: the kernel's tasks, the
mod's loop and posts (both retry within a time limit and then stop), the watch of a dead
process, the teardown of a retired one, and the lease when the mod polls no more; an agent
ends for certain only when it was asked to stop (TaskStop is assumed to work). Deaths,
timeouts and callers' patience are never fair. `Waiting`: a caller that polls goes on polling,
its deadline never comes, and the identity of a dead kernel does not stay unreadable for ever
(strong fairness of `FindsDead`: each poll reads it afresh); kernels, restarts and submitters
are not fair. `AgentHandle` and `Groups` state safety only.

## Findings

1. **A probe may unlink a live marker** (`client.py:299`, run `MCAdmissionProbe`). `is_busy()`
   is also called without the submit lock (476, 559, `interrupt`, `mcp.py:215`). Between
   judging a marker discharged and unlinking the file, the file may have become a newer
   submitter's. If that submitter is then killed before its cell is published, the next one
   is let past `is_busy`. The comments at 529 and 311-315 say that cannot be. The damage is
   bounded: `OneSlot` below holds anyway, since the shell does not answer the next submitter.
2. **The sweep outlives its lock** (`kernel.py:696`, run `MCFileLockCollect`). `rmtree` unlinks
   the lock file and may then unlink the `owner.json` of a kernel spawned under the new one.
3. **A restart replaces a kernel it knows nothing of** (`kernel.py:552`, run
   `MCLifecycleRestart`). `restart_kernel` reads `meta.json` before it waits for the key lock.
   If another spawn is under way, the kernel it then kills is not the one it read about: that
   kernel's depth, maximum depth and TTL are lost, the case its docstring (513-524) is about.

Smaller observations, by module.

*Admission.* A provisional kernel counts as dead: `_kernel_known_dead` (`client.py:198`) takes a
missing `ready` file for proof of death, but `owner.json` is written long before it and
`exec_cell` binds by `owner.json`. `MCAdmission` with `SlowStart = TRUE` violates
`AdmittedOnlyWhenFree` in this way: a submitter past `is_busy` when a restart begins connects to
the bootstrapped kernel before its `ready` file is there and publishes its cell, which the next
`is_busy` takes for a dead kernel's. An acknowledged cell that was never published leaves no log,
so its number is used again after a restart.

*AgentHandle.* A second cancel, or a deadline that had not fired, that lands in `open_session`'s
own `disconnect()` (`claude_backend.py` 350-354, `except Exception`) leaves a CLI process nobody
holds (`torn` in the model), against `agents.py` 11. An interrupt whose caller is cancelled inside
its `close()` (408) leaves the row at "running", and one whose `close()` takes long may write
"interrupted" (409) over the row of a handle that has meanwhile taken the name. An interrupt of
a first turn that ends while it waits goes on to close the session under a send that was
queued. A close or an interrupt that is cancelled while it takes down a driver which never ran
or is closing after an error leaves `result()` unsettled (`cut`).

*Waiting.* A kernel without its `ready` file is taken for dead here too: a wait for a cell that
runs in it is answered `KernelDied` (264-272), and an interrupter's `is_busy()` takes the marker
of a request it holds (298-299). After a second restart the archive that holds a log keeps the
cursor of the first one, so a cursorless wait may replay output (635-661). `_settle_dead`'s
record path has no `_rotated_under_the_record`: a rotation between its two reads gives Completed
without output (225-227). A cell whose log is looked for before it begins and whose marker is
looked for after it has been cleared is answered NotFound, against 738-742. The interrupt tool
asks `is_busy()` before `interrupt()` captures a cell of its own, so the cell struck and the cell
reported may differ (`mcp.py` 215-220). The interrupt request is bound to no incarnation, only
the SIGINT is. `client.py:211` says execution counts restart at 1 in every epoch, `bootstrap.py`
544-561 continues them.

*Groups.* The child watcher may collect a leader before `_register` looks it up. Then `getpgid`
(`shell.py:50`) and `proc_start_time` (93) read whoever wears the number by now, the row vouches
for that process, and a later `kill()` or reap signals it. A `bash()` cancelled while it awaits
`create_subprocess_shell` (436-437) loses its leader to asyncio and leaves the descendants
unrecorded. A call that ends between its leader's waitpid and the `returncode` is treated as one
whose leader lives: it drops the row although orphans go on, and on a timeout or a cancel it kills
whoever wears the pid. The tracker's `_refresh` keeps the row it has under a number, so a new tool
that wears the number of an earlier one, whose group never was seen empty, is not recorded.
`kill()` of a row it cannot prove (no identity was ever read, or it cannot be read now)
kills the leader alone and drops the row: the descendants leak, which its docstring (350-355) is
about. `kill()` of an old handle whose number was handed out again drops the row of the command
that has it now. A foreground `bash()` cancelled while it awaits its readers (468) derives the
group from a pid that has been collected, against the docstring of `_killpg_or_kill` (195-198).
`bgroups.reap` does not mark leaders that exited after the kernel died, as `reap_rows` does, so
the orphans of such a command are not signalled.

*Others.* `_post_run_cell` writes the record (`bootstrap.py:159`) before it stamps
`last_activity` (160), so a sample in between may expire a kernel whose long cell has just ended;
if the watchdog's unlink of `ready` fails after that of `owner.json` (501-502), the kernel stays
up with no record naming it, against the comment at 515, and since it goes on watching itself,
its next expiry unlinks the `owner.json` of its successor; a marker may stand beside a live
kernel once a cleanup has failed after writing it, against `kernel.py` 249-250; `flock_path` can
raise FileNotFoundError between its mkdir and its open; a failed start that had said hello in
time to be retired is counted twice toward the crash limit.

## What is proved

For every value of the constants, by `tlapm`:

| Theorem | Says |
|---|---|
| `AdmissionProofs!TypeCorrect` | types, always |
| `AdmissionProofs!Inductive`, `BusyIsSound` | `AdmittedOnlyWhenFree`, if `Probers = {}` and `SlowStart = FALSE` |
| `AdmissionProofs!OneSlot` | `Admission` implements `Slot`, unconditionally |
| `AdmissionProofs!Numbering`, `MarkerIsCurrent`, `AnswersAreOwn` | `IdsNeverReused`, `BlockingMarkerIsCurrent`, `AnswerIsOwn`, unconditionally |
| `AdmissionProofs!Feeds` | `Admission` implements `Feed`, if `Probers = {}` and `SlowStart = FALSE` |
| `LifecycleProofs!TypeCorrect`, `RunningNamed`, `ToldBooted`, `NoticeIsDelivered` | `TypeOK`, `RunningIsNamed`, `ToldIsBooted`, `NoticeDelivered` |
| `LifecycleProofs!Implements` | `Lifecycle` implements `Tenancy` |
| `LifecycleProofs!MetaTrue` | a ready kernel's `meta.json` records the configuration it lives under |
| `LifecycleProofs!UndisturbedRestart` | `RestartKeepsConfig`, if calls never overlap |
| `FileLockProofs!Typed`, `Exclusive` | `FileLock` implements `Mutex` |
| `FileLockProofs!OwnedUnlessSwept` | `LiveKernelIsOwned`, if `Collectors = {}` |
| `AgentHostProofs!HostTyped`, `Accounted`, `Capped`, `RoomStays`, `Faithful` | types, slots conserved, cap kept, `RoomToWork`, `AgentHost` implements `Calls` |
| `AgentHandleProofs!HandlesTyped`, `NothingIsLeft`, `BilledOnlyRunning` | `TypeOK`, `NothingLeftBehind`, `BilledWhileRunning` |
| `AgentHandleProofs!RowsTellTrue`, `ResultsAreSettled`, `TurnsDoNotOverlap` | `NoPhantoms`, `SettlerAtHand`, `OneTurnAtATime` |
| `AgentProofs!Implements` | `AgentHandle` implements `Agent` |
| `WaitingProofs!WaitingTyped`, `AnswersAreTrue`, `NothingComesTwice`, `InterruptsHitHome` | `TypeOK`, `AnswersTrue`, `NothingTwice`, `StruckAsMeant` |
| `WaitingProofs!FeedsOnIt` | `Waiting` implements `Feed` |
| `GroupsProofs!GroupsTyped`, `NoneGoesAstray`, `StrangersSpared` | `TypeOK`, `NoneAstray`, `NoStrangerKilled` |

The assumptions are those the modules declare about their constants, and no more; the bounds
that a run gives a value (`MaxTurns`, `MaxCell`, `MaxInc`, ...) are arbitrary numbers in the proofs.

The two conditions of `BusyIsSound` are exactly what breaks the property: lifting the first
is the run `MCAdmissionProbe`, lifting the second the observation about provisional kernels.
What a kernel holds after it has given up `owner.json` to expire is set apart by the property
itself (`Due`): it never runs.
In the same way `OwnedUnlessSwept` and `UndisturbedRestart` say what findings 2 and 3 are due to:
the sweep, where no kernel is lost; overlapping calls and nothing else. `RunningNamed` and
`Implements` of `Lifecycle` hold of the kernels that are not lost, and the three ways to lose one
are steps of the model. Every other theorem holds under the declared assumptions alone.

*Admission.* The property alone is not inductive: what keeps a submitter out after its
predecessor died lies in the marker. `IInv` says that each request held by the kernel that
`owner.json` names is covered: by the lock holder that sent it, by a marker that is not
discharged (naming the live kernel and no settled cell), or by a published cell without a record
(`GuardInv`), together with who may stand past `is_busy` (`LockInv`, `ClientInv`), what owner and
ready files say of the live kernel, its own watchdog's unlinks included (`OwnerInv`), that one
request is held at most (`OneInv`) and how numbers grow (`NumberInv`). `OneSlot` needs none of
that: `SlotInv` only says that past the confirmation a client holds the lock and its connection's
kernel is empty or gone, and `SentInv` that no settled request is among those held. `Numbering`
rests on `CountInv`: an execution count is never below the highest log. `MarkerIsCurrent` rests
on `LinkInv`: no incarnation owns the key twice, so a connection made between two looks at
`owner.json` that agree reaches the kernel that both named, and the marker names it too.
`AnswersAreOwn` joins the two (`WitnessInv`): what the kernel holds while a client awaits its
answer is that client's request (`Own`), because it was sent to an empty kernel under the lock,
and a cell that has not published yet takes a number that nothing was published under.

*Feed.* `Admission` and `Waiting` model two sides of the same files, and each leaves out what the
other has. `Feed` is their common interface: `Feeds` shows that the submitters, kernels and
restarts of `Admission` stay within it, `FeedsOnIt` that those of `Waiting` do. `Feeds` joins the
invariants above with one more fact (`RestInv`): a live kernel's `current.json` names a cell that
has its record, until the next one is published. Its conditions are those
of `BusyIsSound`, for the same two reasons. `FeedsOnIt` adds to `Waiting`'s invariant that the
number in flight is the newest there is, and that an `is_busy` which judged a marker gone has
judged right, as long as nobody has changed the marker since and the kernel was ready (`Covers`,
`Spares`). The two verdicts that `FeedSpec` sets apart are the ones for which that is not so.

*Lifecycle.* `RunningIsNamed` speaks of the free lock only; what holds at every step is that at
most one kernel stands, besides lost ones (`Single`), and that it is named, or in the hands of
the one process inside the lock (`Named`): a spawner at its fork, a watchdog on its way out.
`Aimed` says that a call kills the kernel that stands and forks where none does, `Mine` that the
kernel it brings up is its own, `Settled` that a bound watchdog has no cell in flight, `Booted`
that `ready` stands only beside a bootstrapped kernel. `MetaTrue` follows the spawner, which
writes `meta.json` between `owner.json` and `ready` (`Described`); `UndisturbedRestart` follows
one call alone, from its look at `meta.json` to the kernel it is told (`Keeps`).

*FileLock.* A process inside holds the flock of the inode that is at the path, and a flock has
one holder (`IInv` in the proofs module). Without a sweep the lock keeps kernels apart as well: the
one that is neither named nor lost is in the hands of the process inside (`HandInv`).

*AgentHost.* `CallInv` ties a call's step to its job, `RunInv` the mod's stage to the job and
its process, `QueueInv` says where a queued job may be, `WireInv` that a reply under way carries
delivered jobs of its generation that do not run yet, `BusyInv` that every agent running in an
unretired generation has a job that holds a slot; with `SlotsConserved` that bounds the running
agents by the cap. `RoomStays` adds that giving a job up is the only step that makes one more
abandoned, and that this step retires the generation when the count reaches the cap.

*AgentHandle.* Six properties from one invariant. `Sound` says what the fields of a handle mean
to one another: a driver on its way and not cancelled is a running handle's and has not settled
it; a session is kept only by a handle that runs, or one that is settled and whose driver is
done; a live child is being opened, being undone, or the session. `Caller` is what a task may
rely on at its await (a send in its turn holds the lock; an interrupt that has cancelled a first
driver finds it cancelled or on its way down; a close has let go of the session; what waits in
the last close of an interrupt is settled). `Handled` ties a handle to the others: a running
handle or one with a session has the name, a follow-up turn has its send, an unsettled result has
its settler. Since every step changes one handle and at most one task, the proof says once what
a step of a driver (`Drives`) and of a caller (`CallStep`) may do to its handle, shows that such a
step keeps the invariant, and then that each action is such a step. `Room` counts the sends
under way: it is what makes `MaxTurns` a bound of the model and not of the proof.
`AgentProofs` reads each step through `Agent`: nearly all of them, whoever takes them, wind a
handle down or change nothing that `Agent` tells (`Winds`), and that a session opens for the bearer
of the name only is what `Sound` and `Handled` were for.

*Waiting.* Cells only age: a record stays, a log moves from `cells/` to the archives and never
back. So what a call found earlier it still knows when it answers (`Knows`), which is the truth
of the answer although every look is a step of its own; what came of a look at a kernel that was
not ready is marked (`doubt`) and claims nothing. `Marks` says that a caller's cursor is
where it was last served, whether beside the log or with the archive, and `Resumes` that the call
in progress began there. `Flight` says that one cell at most is queued or running and that a
marker names it; hence (`Aims`) the captured cell, if it has no record, is the one in flight
unless another began since the last look.

*Groups.* `NoneAstray` and `NoStrangerKilled` speak of numbers, which are reused. `Worn` says
that a number with members has an owner, `Leads` that an uncollected command's leader, alive or a
zombie, wears the number it was started with, and nobody who was collected does: a kill by pid is
safe until the command has been collected. `Written` says that a row is about its own job's
group, unless the leader was collected before `_register` looked, and `Meant` that a signal under
way rests on a check that found the group the row was written of, or no leader at all. `Ended`
says that a killed command that was not collected left nothing that runs, so the row its return
drops covers nobody; `InSight` and `Tracked` are the two halves of `NoneAstray`.

Only model-checked: the liveness properties (`SubmitLockReleased`, `KeyFreed`, `NobodyStranded`,
`NeverStranded`, `SlotsReturn`, `WaitEnds`): liveness and ENABLED are outside this prover. Every
invariant and every other action property that a passing run checks is proved.

## Not modelled

* *Codex backend* (`codex_backend.py`): a JSON-RPC client with its own reader; a turn has no id
  until `turn/start` is answered, and the reader's failure must fail every request once.
  `AgentHandle` models the handles on claude's backend only. Next in order.
* *Virtual environments* (`venv.py`, `bin/ptc-launch`): references of kernels are collected
  before the provisioning lock is taken; half of the protocol is shell code.
* *The composition of `Admission` and `Lifecycle`*: `Admission` has the kills, cleanings and
  launches of a restart as steps of its own, without the key lock's holder.
* *Call routing* (`routes.py`, `_llm.py`, `profiles.py`): decisions of one call; deadlines are
  `AgentHost`'s and `AgentHandle`'s timeouts.
* *Names* (`_generated_name`, `_resumed_name`) and a registry of several names: each write of
  `agents.json` is synchronous code of the one process that owns the kernel directory.
* *`reap_leaderless_group`, `kill_process_tree`*: the group of the kernel itself.
* Left out for good: argument parsing and rendering (`cli.py`, `shape.py`, most of `mcp.py`),
  platform readings (`memory.py`), web and file helpers, transcripts, policy matching, the peek
  service, skills and docs: sequential code or pure I/O with no state that two actors share.

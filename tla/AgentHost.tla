----------------------------- MODULE AgentHost -----------------------------
(***************************************************************************)
(* The agent host: AgentHost (src/src/ptc/runtime/host.py), the kernel's   *)
(* half of the channel, and the mod that long-polls it                     *)
(* (src/host-plugin/hooks/mods/host.tsx), the host process's half.         *)
(*                                                                         *)
(* One job per call. A generation is one started host process: a call that *)
(* finds none starts the next. Fetches fail, replies are lost, processes   *)
(* die and callers give up at any step.                                    *)
(***************************************************************************)
EXTENDS Naturals, FiniteSets

CONSTANTS
  Callers,      \* calls of submit(), one job each
  Cap,          \* PTC_HOST_MAX_CONCURRENCY: the slots
  CrashLimit,   \* CRASH_LIMIT: failures that turn the host off
  MaxGen        \* bound: generations started

ASSUME AgentHostAssumption ==
  /\ IsFiniteSet(Callers)
  /\ Cap \in Nat \ {0}
  /\ CrashLimit \in Nat \ {0}
  /\ MaxGen \in Nat

Gens == 1..MaxGen          \* 0 stands for no generation

VARIABLES
  \* submit(), per call
  pc,         \* where its caller stands
  told,       \* what its caller got
  on,         \* the generation whose start it awaits, then the one its job is on
  \* the job table
  job,        \* none, queued, delivered, abandoned, released
  future,     \* none, pending, result, failed, cancelled
  free,       \* permits of the semaphore
  \* AgentHost
  gen, starting, n, failures, closed,
  \* per generation, in the kernel
  started,    \* its start task: no, launching, up, failed, cancelled
  said,       \* has it said hello?
  retired,
  queue, cancels,   \* as sets: no property tells which job goes first
  seq,
  held,       \* the newest held poll: none, live, or dead (its fetch failed)
  \* per generation, in the host process
  up,         \* does the process run?
  loop,       \* pollLoop: off, idle, asked, ended
  stopped, ack,
  wire,       \* the replies on their way to the mod: none or one
  \* per job, in the host process
  run,        \* none, given, spawning, alive, early, running, posting, over
  asked       \* cancelRequested

callVars == <<pc, told, on>>
jobVars == <<job, future, free>>
hostVars == <<starting, n, closed, started, said>>
retireVars == <<gen, failures, retired, queue, cancels>>
modVars == <<up, loop, stopped, ack, wire>>
runVars == <<run, asked>>
vars == <<callVars, jobVars, hostVars, retireVars, seq, held, modVars, runVars>>

HeldStates == {"queued", "delivered", "abandoned"}
Held(c) == job[c] \in HeldStates
JobsOf(g) == {c \in Callers : on[c] = g /\ Held(c)}
Abandoned(g) == {c \in Callers : on[c] = g /\ job[c] = "abandoned"}
Live(g) == g # 0 /\ ~retired[g]

Init ==
  /\ pc = [c \in Callers |-> "enter"] /\ told = [c \in Callers |-> "nothing"]
  /\ on = [c \in Callers |-> 0]
  /\ job = [c \in Callers |-> "none"] /\ future = [c \in Callers |-> "none"]
  /\ free = Cap
  /\ gen = 0 /\ starting = 0 /\ n = 0 /\ failures = 0 /\ closed = FALSE
  /\ started = [g \in Gens |-> "no"] /\ said = [g \in Gens |-> FALSE]
  /\ retired = [g \in Gens |-> FALSE]
  /\ queue = [g \in Gens |-> {}] /\ cancels = [g \in Gens |-> {}]
  /\ seq = [g \in Gens |-> 0] /\ held = [g \in Gens |-> "none"]
  /\ up = [g \in Gens |-> FALSE] /\ loop = [g \in Gens |-> "off"]
  /\ stopped = [g \in Gens |-> FALSE] /\ ack = [g \in Gens |-> 0]
  /\ wire = [g \in Gens |-> {}]
  /\ run = [c \in Callers |-> "none"] /\ asked = [c \in Callers |-> FALSE]

Goto(c, step) == pc' = [pc EXCEPT ![c] = step]
Tell(c, t) == Goto(c, "done") /\ told' = [told EXCEPT ![c] = t]

(***************************************************************************)
(* Retirement                                                              *)
(***************************************************************************)
(* failures counts at most to the limit, where it turns the host off for   *)
(* good; the window in which failures count is longer than a behaviour.    *)
Count(k) == failures' = IF failures + k < CrashLimit THEN failures + k ELSE CrashLimit
Looped == failures = CrashLimit

(* _retire: every job still on g fails and gives its slot back. fut are    *)
(* the futures as they stand, k the failures it counts.                    *)
Retire(g, fut, k) ==
  /\ retired' = [retired EXCEPT ![g] = TRUE]
  /\ gen' = IF gen = g THEN 0 ELSE gen
  /\ future' = [c \in Callers |->
       IF c \in JobsOf(g) /\ fut[c] = "pending" THEN "failed" ELSE fut[c]]
  /\ job' = [c \in Callers |-> IF c \in JobsOf(g) THEN "released" ELSE job[c]]
  /\ free' = free + Cardinality(JobsOf(g))
  /\ queue' = [queue EXCEPT ![g] = {}]
  /\ cancels' = [cancels EXCEPT ![g] = {}]
  /\ Count(k)

(* A host that had said hello and was not given up for its callers' doing  *)
(* counts as a crash.                                                      *)
Crashes(g) == IF said[g] THEN 1 ELSE 0

(***************************************************************************)
(* Starting a generation                                                   *)
(***************************************************************************)
(* ensure_started: refused when the host is off, straight on when a host   *)
(* serves, otherwise onto the one start task, which the first caller makes.*)
Enter(c) ==
  /\ pc[c] = "enter"
  /\ \/ /\ closed \/ Looped
        /\ Tell(c, "unavailable")
        /\ UNCHANGED <<on, hostVars>>
     \/ /\ ~closed /\ ~Looped /\ Live(gen)
        /\ Goto(c, "permit")
        /\ UNCHANGED <<told, on, hostVars>>
     \/ /\ ~closed /\ ~Looped /\ ~Live(gen) /\ starting # 0
        /\ Goto(c, "starting")
        /\ on' = [on EXCEPT ![c] = starting]
        /\ UNCHANGED <<told, hostVars>>
     \/ /\ ~closed /\ ~Looped /\ ~Live(gen) /\ starting = 0 /\ n < MaxGen
        /\ Goto(c, "starting")
        /\ n' = n + 1 /\ starting' = n + 1
        /\ on' = [on EXCEPT ![c] = n + 1]
        /\ started' = [started EXCEPT ![n + 1] = "launching"]
        /\ UNCHANGED <<told, closed, said>>
  /\ UNCHANGED <<jobVars, retireVars, seq, held, modVars, runVars>>

(* The launched process says hello, and goes on to its poll loop.          *)
Hello(g) ==
  /\ started[g] = "launching" /\ ~said[g] /\ ~retired[g]
  /\ said' = [said EXCEPT ![g] = TRUE]
  /\ up' = [up EXCEPT ![g] = TRUE]
  /\ loop' = [loop EXCEPT ![g] = "idle"]
  /\ UNCHANGED <<callVars, jobVars, retireVars, starting, n, closed, started,
                 seq, held, stopped, ack, wire, runVars>>

(* _start resumes after the hello and installs the generation, also one    *)
(* that was retired in between.                                            *)
StartDone(g) ==
  /\ started[g] = "launching" /\ said[g]
  /\ started' = [started EXCEPT ![g] = "up"]
  /\ starting' = 0
  /\ gen' = g
  /\ UNCHANGED <<callVars, jobVars, n, closed, said, failures, retired, queue,
                 cancels, seq, held, modVars, runVars>>

(* The launch fails, or no hello comes in time, or the hello comes as time *)
(* runs out: _retire counts that one, and _start counts every failed start.*)
StartFails(g) ==
  /\ started[g] = "launching"
  /\ IF retired[g]
       THEN /\ ~said[g]
            /\ Count(1)
            /\ UNCHANGED <<gen, retired, queue, cancels, jobVars>>
       ELSE Retire(g, future, 1 + Crashes(g))
  /\ started' = [started EXCEPT ![g] = "failed"]
  /\ starting' = 0
  /\ UNCHANGED <<callVars, n, closed, said, seq, held, modVars, runVars>>

(* A caller of ensure_started resumes when the start it awaits is over.    *)
Started(c) ==
  /\ pc[c] = "starting"
  /\ \/ /\ started[on[c]] = "up" /\ Goto(c, "permit") /\ UNCHANGED told
     \/ started[on[c]] = "failed" /\ Tell(c, "unavailable")
     \/ started[on[c]] = "cancelled" /\ Tell(c, "timeout")
  /\ UNCHANGED <<on, jobVars, hostVars, retireVars, seq, held, modVars, runVars>>

(* close(): the start under way is cancelled, or the generation retired.   *)
Close ==
  /\ ~closed
  /\ closed' = TRUE
  /\ \/ /\ starting # 0
        /\ started' = [started EXCEPT ![starting] = "cancelled"]
        /\ starting' = 0
        /\ IF retired[starting] THEN UNCHANGED <<retireVars, jobVars>>
                                ELSE Retire(starting, future, 0)
     \/ /\ starting = 0 /\ Live(gen)
        /\ Retire(gen, future, 0)
        /\ UNCHANGED <<started, starting>>
     \/ /\ starting = 0 /\ ~Live(gen)
        /\ UNCHANGED <<started, starting, retireVars, jobVars>>
  /\ UNCHANGED <<callVars, n, said, seq, held, modVars, runVars>>

(***************************************************************************)
(* A generation's end, seen by the kernel                                  *)
(***************************************************************************)
(* _watch: the SDK's stream ends, with the process or before it.           *)
Watch(g) ==
  /\ started[g] \in {"launching", "up"} /\ ~retired[g]
  /\ Retire(g, future, Crashes(g))
  /\ UNCHANGED <<callVars, hostVars, seq, held, modVars, runVars>>

(* _lease: LEASE_S pass without a poll. They may pass while the mod does   *)
(* poll: a cell that holds the kernel's loop holds its answers back too.   *)
Lapse(g) ==
  /\ started[g] = "up" /\ ~retired[g]
  /\ Retire(g, future, Crashes(g))
  /\ UNCHANGED <<callVars, hostVars, seq, held, modVars, runVars>>

(* The process ends, by itself or by the _teardown of a retired generation,*)
(* and with it every agent in it and all the mod remembers.                *)
ProcessEnds(g) ==
  /\ up[g]
  /\ up' = [up EXCEPT ![g] = FALSE]
  /\ loop' = [loop EXCEPT ![g] = "ended"]
  /\ stopped' = [stopped EXCEPT ![g] = FALSE]
  /\ ack' = [ack EXCEPT ![g] = 0]
  /\ wire' = [wire EXCEPT ![g] = {}]
  /\ held' = [held EXCEPT ![g] = IF held[g] = "live" THEN "dead" ELSE held[g]]
  /\ run' = [c \in Callers |->
               IF on[c] = g /\ run[c] # "none" THEN "over" ELSE run[c]]
  /\ asked' = [c \in Callers |-> asked[c] /\ on[c] # g]
  /\ UNCHANGED <<callVars, jobVars, hostVars, retireVars, seq>>

(***************************************************************************)
(* submit                                                                  *)
(***************************************************************************)
Acquire(c) ==
  /\ pc[c] = "permit" /\ free > 0
  /\ free' = free - 1
  /\ Goto(c, "granted")
  /\ UNCHANGED <<told, on, job, future, hostVars, retireVars, seq, held,
                 modVars, runVars>>

(* A plausible slip: the job goes to the generation as it was awaited,     *)
(* without a second look.                                                  *)
AdmitBlindly(c) ==
  /\ pc[c] = "granted"
  /\ Goto(c, "waiting")
  /\ on' = [on EXCEPT ![c] = gen]
  /\ job' = [job EXCEPT ![c] = "queued"]
  /\ future' = [future EXCEPT ![c] = "pending"]
  /\ queue' = [g \in Gens |-> IF g = gen THEN queue[g] \cup {c} ELSE queue[g]]
  /\ UNCHANGED <<told, free, hostVars, gen, failures, retired, cancels, seq, held,
                 modVars, runVars>>

(* With its permit in hand the call looks again: the generation it awaited *)
(* may have been retired since.                                            *)
Admit(c) ==
  /\ pc[c] = "granted" /\ Live(gen)
  /\ Goto(c, "waiting")
  /\ on' = [on EXCEPT ![c] = gen]
  /\ job' = [job EXCEPT ![c] = "queued"]
  /\ future' = [future EXCEPT ![c] = "pending"]
  /\ queue' = [queue EXCEPT ![gen] = @ \cup {c}]
  /\ UNCHANGED <<told, free, hostVars, gen, failures, retired, cancels, seq, held,
                 modVars, runVars>>

(* A plausible slip: the permit is kept for the next generation's try.     *)
BounceKeeps(c) ==
  /\ pc[c] = "granted" /\ ~Live(gen)
  /\ Goto(c, "enter")
  /\ UNCHANGED <<told, on, jobVars, hostVars, retireVars, seq, held, modVars, runVars>>

Bounce(c) ==
  /\ pc[c] = "granted" /\ ~Live(gen)
  /\ free' = free + 1
  /\ Goto(c, "enter")
  /\ UNCHANGED <<told, on, job, future, hostVars, retireVars, seq, held,
                 modVars, runVars>>

(* The deadline passes, or the caller is cancelled, before the job is      *)
(* queued; or _encode refuses the job.                                     *)
GiveUpEarly(c) ==
  /\ \/ /\ pc[c] \in {"enter", "starting", "permit"}
        /\ Tell(c, "timeout")
        /\ UNCHANGED free
     \/ /\ pc[c] = "granted"
        /\ \/ Tell(c, "timeout")
           \/ Live(gen) /\ Tell(c, "refused")
        /\ free' = free + 1
  /\ UNCHANGED <<on, job, future, hostVars, retireVars, seq, held, modVars, runVars>>

(* A plausible slip: a retired host reads as no host.                      *)
SettleElsewhere(c) ==
  /\ pc[c] = "waiting"
  /\ \/ future[c] = "result" /\ Tell(c, "result")
     \/ future[c] = "failed" /\ Tell(c, "unavailable")
  /\ UNCHANGED <<on, jobVars, hostVars, retireVars, seq, held, modVars, runVars>>

Settle(c) ==
  /\ pc[c] = "waiting"
  /\ \/ future[c] = "result" /\ Tell(c, "result")
     \/ future[c] = "failed" /\ Tell(c, "failed")
  /\ UNCHANGED <<on, jobVars, hostVars, retireVars, seq, held, modVars, runVars>>

(* The deadline, or a cancel, reaches a caller whose job has ended: the    *)
(* job keeps its end, the caller goes.                                     *)
GiveUpLate(c) ==
  /\ pc[c] = "waiting" /\ future[c] # "pending"
  /\ Tell(c, "timeout")
  /\ UNCHANGED <<on, jobVars, hostVars, retireVars, seq, held, modVars, runVars>>

(* _abandon of a job no reply has carried: it is taken back, and its slot  *)
(* with it.                                                                *)
Withdraw(c) ==
  /\ pc[c] = "waiting" /\ future[c] = "pending" /\ job[c] = "queued"
  /\ Tell(c, "timeout")
  /\ future' = [future EXCEPT ![c] = "cancelled"]
  /\ job' = [job EXCEPT ![c] = "released"]
  /\ free' = free + 1
  /\ queue' = [queue EXCEPT ![on[c]] = @ \ {c}]
  /\ UNCHANGED <<on, hostVars, gen, failures, retired, cancels, seq, held,
                 modVars, runVars>>

(* Plausible slips: the slot goes back when the caller is settled; the cap *)
(* of abandoned jobs is not looked at.                                     *)
AbandonReleases(c) ==
  /\ pc[c] = "waiting" /\ future[c] = "pending" /\ job[c] = "delivered"
  /\ Tell(c, "timeout")
  /\ future' = [future EXCEPT ![c] = "cancelled"]
  /\ job' = [job EXCEPT ![c] = "released"]
  /\ free' = free + 1
  /\ cancels' = [cancels EXCEPT ![on[c]] = @ \cup {c}]
  /\ UNCHANGED <<on, hostVars, gen, failures, retired, queue, seq, held, modVars, runVars>>
AbandonUncapped(c) ==
  /\ pc[c] = "waiting" /\ future[c] = "pending" /\ job[c] = "delivered"
  /\ Tell(c, "timeout")
  /\ future' = [future EXCEPT ![c] = "cancelled"]
  /\ job' = [job EXCEPT ![c] = "abandoned"]
  /\ cancels' = [cancels EXCEPT ![on[c]] = @ \cup {c}]
  /\ UNCHANGED <<on, free, hostVars, gen, failures, retired, queue, seq, held,
                 modVars, runVars>>

(* _abandon of a delivered job: it keeps its slot until it ends in the     *)
(* host, unless abandoned jobs then hold every slot: that retires the host.*)
Abandon(c) ==
  /\ pc[c] = "waiting" /\ future[c] = "pending" /\ job[c] = "delivered"
  /\ Tell(c, "timeout")
  /\ LET cancelled == [future EXCEPT ![c] = "cancelled"]
     IN IF Cardinality(Abandoned(on[c]) \cup {c}) >= Cap
          THEN Retire(on[c], cancelled, 0)
          ELSE /\ future' = cancelled
               /\ job' = [job EXCEPT ![c] = "abandoned"]
               /\ cancels' = [cancels EXCEPT ![on[c]] = @ \cup {c}]
               /\ UNCHANGED <<free, gen, failures, retired, queue>>
  /\ UNCHANGED <<on, hostVars, seq, held, modVars, runVars>>

(***************************************************************************)
(* The channel                                                             *)
(***************************************************************************)
(* A plausible slip: an ack that lags is let pass.                         *)
PollTrusts(g) ==
  /\ up[g] /\ loop[g] = "idle" /\ ~stopped[g]
  /\ loop' = [loop EXCEPT ![g] = IF retired[g] THEN "ended" ELSE "asked"]
  /\ held' = [held EXCEPT ![g] = IF retired[g] THEN @ ELSE "live"]
  /\ UNCHANGED <<callVars, jobVars, hostVars, retireVars, seq, up, stopped, ack, wire, runVars>>

(* GET /jobs. A retired generation answers 410 and the mod polls no more;  *)
(* an ack that lags says a reply was lost, with the jobs it carried, and   *)
(* retires the generation; otherwise the poll is held, the one held before *)
(* it superseded.                                                          *)
Poll(g) ==
  /\ up[g] /\ loop[g] = "idle" /\ ~stopped[g]
  /\ IF retired[g]
       THEN /\ loop' = [loop EXCEPT ![g] = "ended"]
            /\ UNCHANGED <<retireVars, jobVars, held>>
       ELSE IF ack[g] < seq[g]
         THEN /\ loop' = [loop EXCEPT ![g] = "ended"]
              /\ Retire(g, future, Crashes(g))
              /\ UNCHANGED held
         ELSE /\ loop' = [loop EXCEPT ![g] = "asked"]
              /\ held' = [held EXCEPT ![g] = "live"]
              /\ UNCHANGED <<retireVars, jobVars>>
  /\ UNCHANGED <<callVars, hostVars, seq, up, stopped, ack, wire, runVars>>

(* A fetch fails: the kernel's held poll is dead and does not know it, or  *)
(* the reply is lost.                                                      *)
FetchFails(g) ==
  /\ up[g] /\ loop[g] = "asked"
  /\ loop' = [loop EXCEPT ![g] = IF stopped[g] THEN "ended" ELSE "idle"]
  /\ held' = [held EXCEPT ![g] = IF @ = "live" THEN "dead" ELSE @]
  /\ wire' = [wire EXCEPT ![g] = {}]
  /\ UNCHANGED <<callVars, jobVars, hostVars, retireVars, seq, up, stopped, ack, runVars>>

(* The mod goes without polls: its fetches failed for POLL_GIVE_UP_MS.     *)
GiveUpPolling(g) ==
  /\ up[g] /\ loop[g] = "idle"
  /\ loop' = [loop EXCEPT ![g] = "ended"]
  /\ UNCHANGED <<callVars, jobVars, hostVars, retireVars, seq, held, up, stopped,
                 ack, wire, runVars>>

(* _response: every queued cancel and as many of the jobs as fit, at least *)
(* one of those there are. A dead poll's reply reaches nobody.             *)
Respond(g) ==
  /\ held[g] # "none" /\ ~retired[g]
  /\ queue[g] # {} \/ cancels[g] # {}
  /\ \E jobs \in SUBSET queue[g] :
       /\ queue[g] # {} => jobs # {}
       /\ queue' = [queue EXCEPT ![g] = @ \ jobs]
       /\ job' = [c \in Callers |-> IF c \in jobs THEN "delivered" ELSE job[c]]
       /\ wire' = [wire EXCEPT ![g] =
            IF held[g] = "live"
              THEN {[seq |-> seq[g] + 1, jobs |-> jobs, cancels |-> cancels[g]]}
              ELSE @]
  /\ cancels' = [cancels EXCEPT ![g] = {}]
  /\ seq' = [seq EXCEPT ![g] = @ + 1]
  /\ held' = [held EXCEPT ![g] = "none"]
  /\ UNCHANGED <<callVars, future, free, hostVars, gen, failures, retired, up, loop,
                 stopped, ack, runVars>>

(* A held poll ends empty: its wait is over, or its generation retired.    *)
HoldEnds(g) ==
  /\ held[g] # "none"
  /\ retired[g] \/ (queue[g] = {} /\ cancels[g] = {})
  /\ held' = [held EXCEPT ![g] = "none"]
  /\ loop' = [loop EXCEPT ![g] =
       IF held[g] # "live" THEN @
       ELSE IF retired[g] \/ stopped[g] THEN "ended" ELSE "idle"]
  /\ UNCHANGED <<callVars, jobVars, hostVars, retireVars, seq, up, stopped, ack,
                 wire, runVars>>

(* The mod reads a reply: it notes the ack, cancels what is asked of it and*)
(* dispatches every job. Once a result of its went unheard it drops the    *)
(* reply and polls no more.                                                *)
Read(g) ==
  /\ up[g] /\ loop[g] = "asked"
  /\ \E reply \in wire[g] :
       IF stopped[g]
         THEN /\ loop' = [loop EXCEPT ![g] = "ended"]
              /\ UNCHANGED <<ack, runVars>>
         ELSE /\ loop' = [loop EXCEPT ![g] = "idle"]
              /\ ack' = [ack EXCEPT ![g] = IF reply.seq > @ THEN reply.seq ELSE @]
              /\ asked' = [c \in Callers |->
                   asked[c] \/ (c \in reply.cancels /\ run[c] \notin {"none", "posting", "over"})]
              /\ run' = [c \in Callers |-> IF c \in reply.jobs THEN "given" ELSE run[c]]
  /\ wire' = [wire EXCEPT ![g] = {}]
  /\ UNCHANGED <<callVars, jobVars, hostVars, retireVars, seq, held, up, stopped>>

(***************************************************************************)
(* A job in the mod: runAgent and runComplete                              *)
(***************************************************************************)
Step(c, step) == run' = [run EXCEPT ![c] = step]

(* The type is registered and the prompt read, or that fails; a job asked  *)
(* to stop by then is never spawned.                                       *)
Prepare(c) ==
  /\ run[c] = "given"
  /\ \/ ~asked[c] /\ Step(c, "spawning")
     \/ Step(c, "posting")
  /\ UNCHANGED <<callVars, jobVars, hostVars, retireVars, seq, held, modVars, asked>>

(* The spawn is denied, or makes the agent, whose turn may be over         *)
(* (turn.complete) before the spawn's answer names it.                     *)
Spawn(c) ==
  /\ run[c] = "spawning"
  /\ \/ Step(c, "alive")
     \/ Step(c, "posting")
  /\ UNCHANGED <<callVars, jobVars, hostVars, retireVars, seq, held, modVars, asked>>

EndsEarly(c) ==
  /\ run[c] = "alive"
  /\ Step(c, "early")
  /\ UNCHANGED <<callVars, jobVars, hostVars, retireVars, seq, held, modVars, asked>>

Answered(c) ==
  /\ \/ run[c] = "alive" /\ Step(c, "running")
     \/ run[c] = "early" /\ Step(c, "posting")
  /\ UNCHANGED <<callVars, jobVars, hostVars, retireVars, seq, held, modVars, asked>>

(* turn.complete, or the model's answer: the agent's work is over, or was  *)
(* stopped.                                                                *)
Ends(c) ==
  /\ run[c] = "running"
  /\ Step(c, "posting")
  /\ UNCHANGED <<callVars, jobVars, hostVars, retireVars, seq, held, modVars, asked>>

(* Plausible slip: a late result frees no slot, its caller being gone.     *)
PostKeepsLate(c) ==
  /\ run[c] = "posting"
  /\ ~retired[on[c]]
  /\ IF Held(c) /\ future[c] = "pending"
       THEN /\ job' = [job EXCEPT ![c] = "released"]
            /\ free' = free + 1
            /\ future' = [future EXCEPT ![c] = "result"]
       ELSE UNCHANGED jobVars
  /\ Step(c, "over") \/ UNCHANGED run
  /\ UNCHANGED <<callVars, hostVars, retireVars, seq, held, modVars, asked>>

(* POST /results: the job ends, late or not, and its slot goes back; a job *)
(* that has ended answers 404, which the mod takes for an end. An answer   *)
(* may be lost, and the result is posted again.                            *)
Post(c) ==
  /\ run[c] = "posting"
  /\ ~retired[on[c]]
  /\ IF Held(c)
       THEN /\ job' = [job EXCEPT ![c] = "released"]
            /\ free' = free + 1
            /\ future' = [future EXCEPT ![c] =
                 IF @ = "pending" THEN "result" ELSE @]
       ELSE UNCHANGED jobVars
  /\ Step(c, "over") \/ UNCHANGED run
  /\ UNCHANGED <<callVars, hostVars, retireVars, seq, held, modVars, asked>>

(* RESULT_TRIES without an answer, or answered 410: the mod stops polling, *)
(* so that the lease retires the host.                                     *)
PostFails(c) ==
  /\ run[c] = "posting"
  /\ Step(c, "over")
  /\ stopped' = [stopped EXCEPT ![on[c]] = TRUE]
  /\ UNCHANGED <<callVars, jobVars, hostVars, retireVars, seq, held, up, loop, ack,
                 wire, asked>>

Next ==
  \/ Close
  \/ \E g \in Gens :
       \/ Hello(g) \/ StartDone(g) \/ StartFails(g) \/ Watch(g) \/ Lapse(g)
       \/ ProcessEnds(g) \/ Poll(g) \/ FetchFails(g) \/ GiveUpPolling(g)
       \/ Respond(g) \/ HoldEnds(g) \/ Read(g)
  \/ \E c \in Callers :
       \/ Enter(c) \/ Started(c) \/ Acquire(c) \/ Admit(c) \/ Bounce(c)
       \/ GiveUpEarly(c) \/ Settle(c) \/ GiveUpLate(c) \/ Withdraw(c) \/ Abandon(c)
       \/ Prepare(c) \/ Spawn(c) \/ EndsEarly(c) \/ Answered(c) \/ Ends(c)
       \/ Post(c) \/ PostFails(c)

Spec == Init /\ [][Next]_vars

(* What the code's own tasks and timers do they do: no fairness for what   *)
(* may never happen (a process's death, a caller's end of patience), and   *)
(* none for an agent's work unless it was asked to stop. A lease lapses    *)
(* for certain only where the mod polls no more.                           *)
Silent(g) == ~up[g] \/ stopped[g] \/ loop[g] = "ended"

Fairness ==
  /\ \A g \in Gens :
       /\ WF_vars(StartDone(g) \/ StartFails(g))
       /\ WF_vars(Poll(g) \/ GiveUpPolling(g)) /\ WF_vars(Respond(g)) /\ WF_vars(Read(g))
       /\ WF_vars(said[g] /\ ~up[g] /\ Watch(g))
       /\ WF_vars(Silent(g) /\ Lapse(g))
       /\ WF_vars(retired[g] /\ ProcessEnds(g))
  /\ \A c \in Callers :
       /\ WF_vars(Enter(c)) /\ WF_vars(Started(c)) /\ WF_vars(Acquire(c))
       /\ WF_vars(Admit(c) \/ Bounce(c)) /\ WF_vars(Settle(c))
       /\ WF_vars(Prepare(c)) /\ WF_vars(Spawn(c)) /\ WF_vars(Answered(c))
       /\ WF_vars(asked[c] /\ Ends(c))
       /\ WF_vars((Post(c) /\ Step(c, "over")) \/ PostFails(c))

FairSpec == Spec /\ Fairness

(***************************************************************************)
(* Properties                                                              *)
(***************************************************************************)
(* The types, and the shape they have in common: only a call that is on a  *)
(* generation awaits its start or has a job, and only a job has a future.  *)
CallTypes ==
  /\ pc \in [Callers -> {"enter", "starting", "permit", "granted", "waiting", "done"}]
  /\ told \in [Callers -> {"nothing", "result", "failed", "timeout", "unavailable", "refused"}]
  /\ on \in [Callers -> 0..MaxGen]
  /\ job \in [Callers -> HeldStates \cup {"none", "released"}]
  /\ future \in [Callers -> {"none", "pending", "result", "failed", "cancelled"}]
  /\ free \in Nat
  /\ \A c \in Callers :
       /\ (pc[c] = "starting" \/ job[c] # "none") => on[c] # 0
       /\ job[c] = "none" <=> future[c] = "none"
HostTypes ==
  /\ gen \in 0..MaxGen /\ starting \in 0..MaxGen /\ n \in 0..MaxGen
  /\ failures \in 0..CrashLimit /\ closed \in BOOLEAN
  /\ started \in [Gens -> {"no", "launching", "up", "failed", "cancelled"}]
  /\ said \in [Gens -> BOOLEAN] /\ retired \in [Gens -> BOOLEAN]
ChannelTypes ==
  /\ queue \in [Gens -> SUBSET Callers] /\ cancels \in [Gens -> SUBSET Callers]
  /\ seq \in [Gens -> Nat] /\ held \in [Gens -> {"none", "live", "dead"}]
  /\ wire \in [Gens -> SUBSET [seq : Nat, jobs : SUBSET Callers, cancels : SUBSET Callers]]
ModTypes ==
  /\ up \in [Gens -> BOOLEAN] /\ loop \in [Gens -> {"off", "idle", "asked", "ended"}]
  /\ stopped \in [Gens -> BOOLEAN] /\ ack \in [Gens -> Nat]
  /\ run \in [Callers -> {"none", "given", "spawning", "alive", "early", "running",
                         "posting", "over"}]
  /\ asked \in [Callers -> BOOLEAN]

TypeOK == CallTypes /\ HostTypes /\ ChannelTypes /\ ModTypes

(* Every permit is accounted for: it is free, in the hands of a caller that*)
(* was just granted it, or held by a job. submit, _release, _abandon and   *)
(* _retire pass permits between them on a dozen paths, some of them twice  *)
(* over the same job.                                                      *)
Permits == {c \in Callers : pc[c] = "granted" \/ Held(c)}
SlotsConserved == free + Cardinality(Permits) = Cap

(* No host process ever runs more agents than the cap, abandoned ones and  *)
(* those of a generation retired but not yet dead included.                *)
Runs(c) == run[c] \in {"alive", "running"}
WithinCap == \A g \in Gens : Cardinality({c \in Callers : on[c] = g /\ Runs(c)}) <= Cap

(* Abandoned jobs never hold every slot of a generation that still serves: *)
(* the next caller would wait for agents nobody waits for.                 *)
RoomToWork == \A g \in Gens : ~retired[g] => Cardinality(Abandoned(g)) < Cap

(* A call waits only for an agent that runs: whichever fetches, replies,   *)
(* results and processes are lost on the way, a caller without a deadline  *)
(* is settled or its agent is at work; one not yet queued waits for the    *)
(* agents that hold the slots.                                             *)
NeverStranded ==
  \A c \in Callers :
    pc[c] # "done" ~> \/ pc[c] = "done"
                      \/ IF pc[c] = "waiting" THEN Runs(c) ELSE \E d \in Callers : Runs(d)

(* An abandoned job's slot comes back: its cancel reaches the host, or the *)
(* generation is retired.                                                  *)
SlotsReturn == \A c \in Callers : job[c] = "abandoned" ~> job[c] = "released"

(* Each agent runs at most once, never after its caller was sent to the    *)
(* CLI route, and a result is told of an agent that has ended.             *)
stage == [c \in Callers |->
  IF run[c] \in {"none", "given", "spawning"} THEN "new"
  ELSE IF Runs(c) THEN "running" ELSE "over"]

Contract == INSTANCE Calls
CallsSpec == Contract!Spec
=============================================================================

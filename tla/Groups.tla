------------------------------- MODULE Groups -------------------------------
(***************************************************************************)
(* The process groups that a kernel's bash() commands and its claude       *)
(* children's tools run in (src/src/ptc/runtime/shell.py, bgroups.py,      *)
(* toolgroups.py): who is recorded, who is signalled, and what becomes of  *)
(* a number that the system hands out again.                               *)
(*                                                                         *)
(* A group is a number worn by its leader, if it lives or is a zombie, and *)
(* kept by its other members; with neither it is free for anybody.  Every  *)
(* job starts one group, so a birth stamp is the name of the job.          *)
(***************************************************************************)
EXTENDS Naturals

CONSTANTS
  Pids,        \* numbers of processes that lead a group
  Background,  \* bash(background=True) commands, with a handle
  Foreground,  \* bash() commands that the caller waits for
  Tools,       \* tools that the claude child starts, each in its own session
  Stranger,    \* any process group that is not ours
  None

Commands == Background \union Foreground
Jobs == Commands \union Tools

ASSUME GroupsAssumption ==
  /\ None \notin Jobs \union Pids
  /\ Stranger \notin Jobs \union {None}
  /\ Background \intersect Foreground = {} /\ Commands \intersect Tools = {}

VARIABLES
  lead,    \* the process that wears the number: live, zombie, none
  kids,    \* the group has other members
  own,     \* who started the group that has the number
  kernel,  \* up or dead
  pc,      \* where the call of each command stands
  num,     \* the group each job has recorded for itself
  code,    \* the command's leader: out, collected, returncode set
  row,     \* each job's row in a registry; `of`: whose group it was written of
  live,    \* _LIVE and bash-pgids.json: whose row stands under a number
  watch,   \* the task that watches a command: for its leader, its orphans
  agent,   \* the claude child: live, stopped, read, dead
  tool,    \* the tracker's rows and agent-pgids.json
  hand,    \* a signal about to be sent: to what, for whom, on what grounds
  dropped  \* history: groups that lost their row, or got none

table == <<lead, kids, own>>
calls == <<pc, num, code, watch>>
vars == <<table, kernel, calls, row, live, agent, tool, hand, dropped>>

Blank == [known |-> FALSE, setsid |-> FALSE, exited |-> FALSE, of |-> None]
Still == [pid |-> None, job |-> None, by |-> "nobody", whose |-> None, led |-> "none"]

Init ==
  /\ lead = [p \in Pids |-> "none"] /\ kids = [p \in Pids |-> FALSE]
  /\ own = [p \in Pids |-> None]
  /\ kernel = "up"
  /\ pc = [j \in Commands |-> "new"] /\ num = [j \in Jobs |-> None]
  /\ code = [j \in Commands |-> "out"]
  /\ row = [j \in Jobs |-> Blank]
  /\ live = [p \in Pids |-> None]
  /\ watch = [j \in Commands |-> "none"]
  /\ agent = "live" /\ tool = [p \in Pids |-> None]
  /\ hand = Still /\ dropped = {}

-----------------------------------------------------------------------------
(* The process table.                                                      *)

(* killpg(p, 0): a zombie is a member until it is collected.               *)
Alive(p) == lead[p] # "none" \/ kids[p]

Starts(j, p) ==
  /\ ~Alive(p)
  /\ lead' = [lead EXCEPT ![p] = "live"]
  /\ own' = [own EXCEPT ![p] = j]
  /\ UNCHANGED kids

Forks(p) ==
  /\ lead[p] = "live" /\ ~kids[p]
  /\ kids' = [kids EXCEPT ![p] = TRUE]
  /\ UNCHANGED <<lead, own, kernel, calls, row, live, agent, tool, hand, dropped>>
LeaderExits(p) ==
  /\ lead[p] = "live"
  /\ lead' = [lead EXCEPT ![p] = "zombie"]
  /\ UNCHANGED <<kids, own, kernel, calls, row, live, agent, tool, hand, dropped>>
OrphansEnd(p) ==
  /\ kids[p]
  /\ kids' = [kids EXCEPT ![p] = FALSE]
  /\ own' = [own EXCEPT ![p] = IF lead[p] = "none" THEN None ELSE @]
  /\ UNCHANGED <<lead, kernel, calls, row, live, agent, tool, hand, dropped>>
(* A free number goes to somebody else's group.                            *)
Recycled(p) ==
  /\ Starts(Stranger, p)
  /\ UNCHANGED <<kernel, calls, row, live, agent, tool, hand, dropped>>
(* The parent collects the zombie: the kernel's child watcher, claude, or  *)
(* init.  The loop hears of it a moment later (Exited).                    *)
Collected(p) ==
  /\ lead[p] = "zombie"
  /\ lead' = [lead EXCEPT ![p] = "none"]
  /\ code' = IF own[p] \in Commands /\ kernel = "up"
             THEN [code EXCEPT ![own[p]] = "collected"] ELSE code
  /\ own' = [own EXCEPT ![p] = IF kids[p] THEN @ ELSE None]
  /\ UNCHANGED <<kids, kernel, pc, num, watch, row, live, agent, tool, hand,
                 dropped>>

(* SIGKILL to the group.                                                   *)
Kills(p) ==
  /\ lead' = [lead EXCEPT ![p] = IF @ = "none" THEN "none" ELSE "zombie"]
  /\ kids' = [kids EXCEPT ![p] = FALSE]
  /\ own' = IF lead[p] = "none" THEN [own EXCEPT ![p] = None] ELSE own
(* SIGKILL to j's leader by its pid, if it has not been collected.         *)
KillsLeader(j) ==
  lead' = [p \in Pids |->
            IF own[p] = j /\ lead[p] = "live" THEN "zombie" ELSE lead[p]]

-----------------------------------------------------------------------------
(* bgroups.signalable.                                                     *)

(* unverifiable: nothing ever proved who led the group.                    *)
Verifiable(r) == r.known \/ (r.setsid /\ r.exited)
RecycledOnDoubt(r, p, readable) ==     \* mutant: no existence gate
  IF r.known /\ readable /\ lead[p] # "none" THEN own[p] # r.of ELSE ~r.exited
(* _recycled: the birth stamp decides; when it cannot be read, a row whose *)
(* leader exited goes by the number being worn by nobody.                  *)
NotOurs(r, p, readable) ==
  IF r.known /\ readable /\ lead[p] # "none" THEN own[p] # r.of
  ELSE ~r.exited \/ lead[p] # "none"
Signalable(r, p, readable) ==
  Verifiable(r) /\ ~NotOurs(r, p, readable)

(* The check has passed; the signal goes out a moment later.               *)
Aims(p, j, by) ==
  hand' = [pid |-> p, job |-> j, by |-> by, whose |-> own[p], led |-> lead[p]]

-----------------------------------------------------------------------------
(* The registry of commands.  It is written by number.                     *)

Leaves(p, j) == live' = [live EXCEPT ![p] = j]
(* Whose group goes on without the row when what stands under p goes.      *)
Bereft(p) == IF Alive(p) /\ live[p] # None THEN {own[p]} ELSE {}
(* _retire: the row goes with the group, or is marked.                     *)
RetireAll(p) ==                        \* mutant: the leader's exit drops the row
  Leaves(p, None) /\ UNCHANGED row
Retire(p) ==
  IF Alive(p)
  THEN /\ row' = IF live[p] = None THEN row
                 ELSE [row EXCEPT ![live[p]].exited = TRUE]
       /\ UNCHANGED live
  ELSE Leaves(p, None) /\ UNCHANGED row

Step(j, here, there) == pc[j] = here /\ pc' = [pc EXCEPT ![j] = there]
Free == kernel = "up" /\ hand = Still

(* create_subprocess with a session of its own.                            *)
Spawn(j) ==
  /\ Free /\ Step(j, "new", "spawned")
  /\ \E p \in Pids : Starts(j, p) /\ num' = [num EXCEPT ![j] = p]
  /\ UNCHANGED <<kernel, code, watch, row, live, agent, tool, hand, dropped>>

(* Cancelled while it awaits the process: asyncio kills the leader, and    *)
(* nothing is recorded of the group.                                       *)
CancelledEarly(j) ==
  /\ Free /\ Step(j, "spawned", "cancelled")
  /\ KillsLeader(j)
  /\ UNCHANGED <<kids, own, kernel, num, code, watch, row, live, agent, tool,
                 hand, dropped>>
(* _process_exited: the returncode, after the child watcher's waitpid.     *)
Exited(j) ==
  /\ Free /\ code[j] = "collected"
  /\ code' = [code EXCEPT ![j] = "set"]
  /\ UNCHANGED <<table, kernel, pc, num, watch, row, live, agent, tool, hand,
                 dropped>>

(* _register: getpgid and ps ask whoever wears the pid by now.  With nobody *)
(* to ask the group is still known by construction; an empty one leaves    *)
(* nothing to record.  A row that stood under the number is written over.  *)
RegisterNothing(j) ==                  \* mutant: no row where nothing was read
  /\ Free /\ Step(j, "spawned", "running")
  /\ watch' = [watch EXCEPT ![j] = IF j \in Background THEN "leader" ELSE "none"]
  /\ UNCHANGED <<table, kernel, num, code, row, live, agent, tool, hand, dropped>>
Register(j) ==
  LET p == num[j]
      worn == lead[p] # "none"
  IN
  /\ Free /\ Step(j, "spawned", "running")
  /\ watch' = [watch EXCEPT ![j] = IF j \in Background THEN "leader" ELSE "none"]
  /\ IF Alive(p)
     THEN /\ \E known \in IF worn THEN BOOLEAN ELSE {FALSE} :
               row' = [row EXCEPT ![j] = [known |-> known, setsid |-> ~known,
                                          exited |-> ~worn, of |-> own[p]]]
          /\ Leaves(p, j)
     ELSE UNCHANGED <<row, live>>
  /\ UNCHANGED <<table, kernel, num, code, agent, tool, hand, dropped>>
Recorded(j) == row[j] # Blank

-----------------------------------------------------------------------------
(* A command with a handle.                                                *)

(* _forget_when_done, and h.wait(), when the leader has been collected.    *)
Forgets(j) ==
  /\ Free /\ code[j] = "set" /\ watch[j] = "leader"
  /\ watch' = [watch EXCEPT ![j] = "orphans"]
  /\ IF Recorded(j) THEN Retire(num[j]) ELSE UNCHANGED <<row, live>>
  /\ UNCHANGED <<table, kernel, pc, num, code, agent, tool, hand, dropped>>
WaitReturns(j) ==
  /\ Free /\ j \in Background /\ code[j] = "set" /\ Recorded(j)
  /\ Retire(num[j])
  /\ UNCHANGED <<table, kernel, calls, agent, tool, hand, dropped>>

(* _watch_orphans: until the group is empty or no row stands there.        *)
SeesOrphansGone(j) ==
  /\ Free /\ watch[j] = "orphans"
  /\ ~Recorded(j) \/ live[num[j]] = None \/ ~Alive(num[j])
  /\ watch' = [watch EXCEPT ![j] = "none"]
  /\ IF Recorded(j) THEN Leaves(num[j], None) ELSE UNCHANGED live
  /\ UNCHANGED <<table, kernel, pc, num, code, row, agent, tool, hand, dropped>>

(* BashHandle.kill: without proof only the leader is killed, and whatever  *)
(* row stands under the number goes.                                       *)
Kill(j) ==
  LET p == num[j] IN
  /\ Free /\ j \in Background /\ pc[j] = "running" /\ Recorded(j)
  /\ \E readable \in BOOLEAN :
       IF Signalable(row[j], p, readable)
       THEN Aims(p, j, "kill") /\ UNCHANGED <<table, live, dropped>>
       ELSE /\ KillsLeader(j)
            /\ Leaves(p, None)
            /\ dropped' = dropped \union Bereft(p)
            /\ UNCHANGED <<kids, own, hand>>
  /\ UNCHANGED <<kernel, calls, row, agent, tool>>
KillSends ==
  /\ hand.by = "kill"
  /\ Kills(hand.pid)
  /\ hand' = [hand EXCEPT !.by = "retire"]
  /\ UNCHANGED <<kernel, calls, row, live, agent, tool, dropped>>
KillRetires ==
  /\ hand.by = "retire"
  /\ Retire(hand.pid)
  /\ hand' = Still
  /\ UNCHANGED <<table, kernel, calls, agent, tool, dropped>>

-----------------------------------------------------------------------------
(* A command in the foreground.                                            *)

(* proc.wait() is over; the pipes may yet be held open.                    *)
Waited(j) ==
  /\ Free /\ j \in Foreground /\ code[j] = "set" /\ Step(j, "running", "reading")
  /\ UNCHANGED <<table, kernel, num, code, watch, row, live, agent, tool, hand,
                 dropped>>
(* _killpg_or_kill: the group of whatever process wears the pid.           *)
KillsByPid(j) ==
  IF lead[num[j]] # "none"
  THEN Kills(num[j]) ELSE UNCHANGED table
(* wait_for's deadline may strike when the leader has been collected.      *)
TimesOut(j) ==
  /\ Free /\ j \in Foreground /\ Step(j, "running", "killed")
  /\ KillsByPid(j)
  /\ UNCHANGED <<kernel, num, code, watch, row, live, agent, tool, hand, dropped>>
Cancelled(j) ==
  /\ Free /\ j \in Foreground
  /\ Step(j, "running", "killed") \/ Step(j, "reading", "killed")
  /\ KillsByPid(j)
  /\ UNCHANGED <<kernel, num, code, watch, row, live, agent, tool, hand, dropped>>
(* The `finally` of bash(): the row of a leader whose returncode is set is *)
(* retired and its orphans are watched, whatever else stands there goes.   *)
Returns(j) ==
  /\ Free
  /\ Step(j, "reading", "done") \/ Step(j, "killed", "done")
  /\ IF ~Recorded(j) THEN UNCHANGED <<row, live, watch, dropped>>
     ELSE IF code[j] = "set"
     THEN /\ Retire(num[j])
          /\ watch' = [watch EXCEPT ![j] =
                         IF live'[num[j]] # None THEN "orphans" ELSE "none"]
          /\ UNCHANGED dropped
     ELSE /\ Leaves(num[j], None)
          /\ dropped' = IF code[j] = "out" THEN dropped
                        ELSE dropped \union Bereft(num[j])
          /\ UNCHANGED <<row, watch>>
  /\ UNCHANGED <<table, kernel, num, code, agent, tool, hand>>

-----------------------------------------------------------------------------
(* The kernel dies, and whoever finds it dead reaps what it recorded.      *)

Dies ==
  /\ kernel = "up"
  /\ kernel' = "dead" /\ hand' = Still
  /\ UNCHANGED <<table, calls, row, live, agent, tool, dropped>>

(* bgroups.reap; the file goes when every row has been looked at.          *)
Reap(p) ==
  /\ kernel = "dead" /\ hand = Still /\ live[p] # None
  /\ \E readable \in BOOLEAN :
       IF Signalable(row[live[p]], p, readable)
       THEN Aims(p, live[p], "reap") /\ UNCHANGED live
       ELSE Leaves(p, None) /\ UNCHANGED hand
  /\ UNCHANGED <<table, kernel, calls, row, agent, tool, dropped>>
ReapSends ==
  /\ hand.by = "reap"
  /\ Kills(hand.pid)
  /\ Leaves(hand.pid, None)
  /\ hand' = Still
  /\ UNCHANGED <<kernel, calls, row, agent, tool, dropped>>

-----------------------------------------------------------------------------
(* The tools of the claude child.                                          *)

ToolStarts(j) ==
  /\ agent = "live" /\ num[j] = None
  /\ \E p \in Pids : Starts(j, p) /\ num' = [num EXCEPT ![j] = p]
  /\ UNCHANGED <<kernel, pc, code, watch, row, live, agent, tool, hand, dropped>>
AgentDies ==
  /\ agent \in {"live", "stopped", "read"}
  /\ agent' = "dead"
  /\ UNCHANGED <<table, kernel, calls, row, live, tool, hand, dropped>>

(* tool_groups: what the agent's direct children lead.                     *)
Led(p) == lead[p] = "live" /\ own[p] \in Tools
(* _note_leader.                                                           *)
Noted(r, p) == [r EXCEPT !.exited = @ \/ lead[p] # "live"]
(* _refresh: rows of emptied groups go, exited leaders are marked, new     *)
(* groups come in under numbers that have no row.                          *)
Refresh ==
  LET stays(p) == tool[p] # None /\ Alive(p)
      new(p) == ~stays(p) /\ Led(p)
      missed == {p \in Pids : stays(p) /\ Led(p) /\ tool[p] # own[p]}
  IN /\ tool' = [p \in Pids |-> IF stays(p) THEN tool[p]
                                ELSE IF new(p) THEN own[p] ELSE None]
     /\ row' = [j \in Jobs |->
          IF \E p \in Pids : new(p) /\ own[p] = j
          THEN [known |-> TRUE, setsid |-> TRUE, exited |-> FALSE, of |-> j]
          ELSE IF j \in Tools /\ \E p \in Pids : stays(p) /\ tool[p] = j
          THEN Noted(row[j], num[j]) ELSE row[j]]
     /\ dropped' = dropped \union {own[p] : p \in missed}

(* The watcher's tick, when the reads hold.                                *)
Tick ==
  /\ Free /\ agent = "live"
  /\ Refresh
  /\ UNCHANGED <<table, kernel, calls, live, agent, hand>>

(* stop_and_kill: stopped, read exactly, killed, reaped - or killed all    *)
(* the same when the reading failed.                                       *)
Stop ==
  /\ Free /\ agent = "live"
  /\ agent' = "stopped"
  /\ UNCHANGED <<table, kernel, calls, row, live, tool, hand, dropped>>
ReadStopped ==
  /\ Free /\ agent = "stopped"
  /\ Refresh
  /\ agent' = "read"
  /\ UNCHANGED <<table, kernel, calls, live, hand>>
KillStopped ==
  /\ Free /\ agent \in {"stopped", "read"}
  /\ agent' = IF agent = "read" THEN "killed" ELSE "dead"
  /\ UNCHANGED <<table, kernel, calls, row, live, tool, hand, dropped>>

(* reap_rows: by the tracker once the agent is gone, or stopped for good   *)
(* (stop_all_and_reap), and by whoever finds the kernel dead.              *)
ReapTool(p) ==
  LET j == tool[p] IN
  /\ hand = Still /\ j # None
  /\ kernel = "dead" \/ agent \in {"read", "dead", "killed"}
  /\ LET r == Noted(row[j], p) IN
     /\ row' = [row EXCEPT ![j] = r]
     /\ \E readable \in BOOLEAN :
          IF Signalable(r, p, readable)
          THEN Aims(p, j, "tools") /\ UNCHANGED <<tool, dropped>>
          ELSE /\ tool' = [tool EXCEPT ![p] = None]
               /\ dropped' = IF Alive(p) THEN dropped \union {own[p]} ELSE dropped
               /\ UNCHANGED hand
  /\ UNCHANGED <<table, kernel, calls, live, agent>>
ReapToolSends ==
  /\ hand.by = "tools"
  /\ Kills(hand.pid)
  /\ tool' = [tool EXCEPT ![hand.pid] = None]
  /\ hand' = Still
  /\ UNCHANGED <<kernel, calls, row, live, agent, dropped>>

-----------------------------------------------------------------------------
Next ==
  \/ \E p \in Pids :
       \/ Forks(p) \/ LeaderExits(p) \/ OrphansEnd(p) \/ Recycled(p)
       \/ Collected(p) \/ Reap(p) \/ ReapTool(p)
  \/ \E j \in Commands :
       \/ Spawn(j) \/ CancelledEarly(j) \/ Exited(j) \/ Register(j)
       \/ Forgets(j) \/ WaitReturns(j)
       \/ SeesOrphansGone(j) \/ Kill(j) \/ Waited(j) \/ TimesOut(j)
       \/ Cancelled(j) \/ Returns(j)
  \/ \E j \in Tools : ToolStarts(j)
  \/ KillSends \/ KillRetires \/ Dies \/ ReapSends
  \/ AgentDies \/ Tick \/ Stop \/ ReadStopped \/ KillStopped \/ ReapToolSends

Spec == Init /\ [][Next]_vars

-----------------------------------------------------------------------------
(* What is promised.                                                       *)

Known(S) == S \union {None}
Anybody == Jobs \union {Stranger, None}

(* Shapes, and who may stand where: a row under a number belongs to a job  *)
(* that started a group there, and a signal is only aimed at a row.        *)
TypeOK ==
  /\ lead \in [Pids -> {"live", "zombie", "none"}]
  /\ kids \in [Pids -> BOOLEAN] /\ own \in [Pids -> Anybody]
  /\ kernel \in {"up", "dead"}
  /\ pc \in [Commands -> {"new", "spawned", "cancelled", "running", "reading",
                          "killed", "done"}]
  /\ num \in [Jobs -> Known(Pids)]
  /\ code \in [Commands -> {"out", "collected", "set"}]
  /\ row \in [Jobs -> [known : BOOLEAN, setsid : BOOLEAN, exited : BOOLEAN,
                       of : Anybody]]
  /\ live \in [Pids -> Known(Commands)] /\ tool \in [Pids -> Known(Tools)]
  /\ watch \in [Commands -> {"none", "leader", "orphans"}]
  /\ agent \in {"live", "stopped", "read", "killed", "dead"}
  /\ hand = Still \/ hand \in [pid : Pids, job : Jobs, whose : Anybody,
                               led : {"live", "zombie", "none"},
                               by : {"kill", "retire", "reap", "tools"}]
  /\ dropped \subseteq Jobs \union {Stranger}
  /\ \A p \in Pids : \A j \in {live[p], tool[p], own[p]} \intersect Jobs : num[j] = p
  /\ \A j \in Commands :
       pc[j] \notin {"new", "spawned", "cancelled"} /\ code[j] = "out" => Recorded(j)

(* The child watcher collected j's leader before _register looked it up.   *)
Late(j) == j \in Commands /\ code[j] # "out"
(* What the check found under the number a signal is aimed at.             *)
Meant ==
  \/ hand.whose \in {hand.job, None} \/ hand.led = "none"
  \/ Late(hand.job) /\ row[hand.job].of = hand.whose
(* No group is killed that is not the one recorded.  What the check found  *)
(* under the number was the job's own group, an empty one, or - as the code *)
(* states - orphans that a second leader left; only a command whose leader *)
(* was collected before _register read its identity may have recorded, and *)
(* hit, whoever wore the number then.  A call that ends while its leader is *)
(* uncollected kills no other group than its own.  Not promised: who has   *)
(* the number in the instant after the check, and whom a call hits that    *)
(* times out, or is cancelled, when its leader has been collected.         *)
NoStrangerKilled == [][
  /\ Meant'
  /\ \A j \in Foreground : pc[j] # "killed" /\ pc'[j] = "killed" /\ code[j] = "out"
       => own[num[j]] = j]_vars

(* A group of a command that has live members stands in the registry under *)
(* a row that was written of it, however its leader ended, so that whatever *)
(* ends the kernel can reach it; and when a claude has been stopped, read  *)
(* and killed, each tool it was running is in the tracker under its own    *)
(* row until it is signalled.  Not: a command that was cancelled before    *)
(* _register; a group whose row a kill() or a reap dropped for want of     *)
(* proof, or a call that ended between its leader's waitpid and the        *)
(* returncode; a tool that wears the number of an earlier one whose row the *)
(* tracker still has.                                                      *)
NoneAstray ==
  \A p \in Pids : (lead[p] = "live" \/ kids[p]) /\ own[p] \notin dropped =>
    /\ own[p] \in Commands /\ kernel = "up"
         /\ pc[own[p]] \notin {"new", "spawned", "cancelled"}
         => live[p] # None /\ row[live[p]].of = own[p]
    /\ agent = "killed" /\ Led(p) => tool[p] = own[p]
=============================================================================

---------------------------- MODULE GroupsProofs ----------------------------
(***************************************************************************)
(* No stranger is killed and no live group is lost sight of: for any       *)
(* number of commands, tools and group numbers.                            *)
(*                                                                         *)
(* A number that has members has an owner (Worn), and while a command has  *)
(* not been collected its leader wears the number it was started with      *)
(* (Leads): so a kill by pid hits the command's own group, and what        *)
(* _register reads is the command's own identity (Written).  A signal is   *)
(* aimed on the grounds that the check found (Meant).  A command that was  *)
(* killed and not collected has left nothing that runs (Ended), so the row *)
(* that its return drops covers nobody; and each tool that runs when the   *)
(* stopped claude is read comes into the tracker (Tracked).                *)
(***************************************************************************)
EXTENDS Groups, TLAPS

PStates == {"new", "spawned", "cancelled", "running", "reading", "killed", "done"}
LStates == {"live", "zombie", "none"}
Rows == [known : BOOLEAN, setsid : BOOLEAN, exited : BOOLEAN, of : Anybody]
Hands == [pid : Pids, job : Jobs, whose : Anybody,
          led : LStates, by : {"kill", "retire", "reap", "tools"}]

TableOK ==
  /\ lead \in [Pids -> LStates] /\ kids \in [Pids -> BOOLEAN]
  /\ own \in [Pids -> Anybody]
  /\ num \in [Jobs -> Known(Pids)] /\ code \in [Commands -> {"out", "collected", "set"}]
  /\ kernel \in {"up", "dead"} /\ pc \in [Commands -> PStates]
  /\ watch \in [Commands -> {"none", "leader", "orphans"}]
  /\ agent \in {"live", "stopped", "read", "killed", "dead"}
BooksOK ==
  /\ row \in [Jobs -> Rows]
  /\ live \in [Pids -> Known(Commands)] /\ tool \in [Pids -> Known(Tools)]
HandOK == hand = Still \/ hand \in Hands
DroppedOK == dropped \subseteq Jobs \union {Stranger}
OwnNum == \A p \in Pids : own[p] \in Jobs => num[own[p]] = p
BookNum == \A p \in Pids :
  /\ live[p] # None => num[live[p]] = p
  /\ tool[p] # None => num[tool[p]] = p
HasRow == \A j \in Commands :
  pc[j] \notin {"new", "spawned", "cancelled"} /\ code[j] = "out" => Recorded(j)

Numbered == \A j \in Commands :
  IF pc[j] = "new" THEN num[j] = None /\ code[j] = "out" ELSE num[j] \in Pids
Worn == \A p \in Pids : Alive(p) => own[p] # None
Leads ==
  /\ \A j \in Commands : pc[j] # "new" /\ code[j] = "out" /\ kernel = "up"
       => lead[num[j]] # "none" /\ own[num[j]] = j
  /\ \A p \in Pids : own[p] \in Commands /\ lead[p] # "none" => code[own[p]] = "out"
Ended == \A j \in Commands :
  /\ pc[j] = "reading" => code[j] = "set"
  /\ pc[j] = "killed" /\ code[j] = "out" /\ kernel = "up"
       => lead[num[j]] = "zombie" /\ ~kids[num[j]]
Written == \A j \in Jobs : row[j].of \in {j, None} \/ Late(j)
InSight == \A p \in Pids :
  /\ lead[p] = "live" \/ kids[p]
  /\ own[p] \in Commands \ dropped /\ kernel = "up"
  /\ pc[own[p]] \notin {"new", "spawned", "cancelled"}
  => live[p] # None /\ row[live[p]].of = own[p]
Tracked == \A p \in Pids :
  agent \in {"read", "killed"} /\ Led(p) /\ own[p] \notin dropped => tool[p] = own[p]

Shapes == TableOK /\ BooksOK /\ HandOK /\ DroppedOK
IInv == /\ Shapes /\ OwnNum /\ BookNum /\ HasRow
        /\ Numbered /\ Worn /\ Leads /\ Ended /\ Written /\ Meant /\ InSight /\ Tracked

-----------------------------------------------------------------------------
LEMMA Kinds ==
  /\ None \notin Jobs /\ None \notin Pids /\ Stranger \notin Jobs /\ Stranger # None
  /\ Commands \subseteq Jobs /\ Tools \subseteq Jobs
  /\ Background \subseteq Commands /\ Foreground \subseteq Commands
  /\ Commands \intersect Tools = {}
BY GroupsAssumption DEF Commands, Jobs

LEMMA TypeParts == TypeOK <=> Shapes /\ OwnNum /\ BookNum /\ HasRow
<1>1. ASSUME TypeOK PROVE Shapes /\ HasRow
  BY <1>1 DEF TypeOK, Shapes, TableOK, BooksOK, HandOK, DroppedOK, HasRow,
     PStates, LStates, Rows, Hands
<1>2. ASSUME TypeOK PROVE OwnNum /\ BookNum
  BY <1>2, Kinds DEF TypeOK, OwnNum, BookNum, Known
<1>3. ASSUME Shapes, OwnNum, BookNum, HasRow PROVE TypeOK
  <2>1. \A p \in Pids : \A j \in {live[p], tool[p], own[p]} \intersect Jobs : num[j] = p
    BY <1>3, Kinds DEF OwnNum, BookNum
  <2> QED
    BY <1>3, <2>1 DEF TypeOK, Shapes, TableOK, BooksOK, HandOK, DroppedOK, HasRow,
       PStates, LStates, Rows, Hands
<1> QED
  BY <1>1, <1>2, <1>3

LEMMA Starting == Init => IInv
<1> SUFFICES ASSUME Init PROVE IInv
  OBVIOUS
<1> USE Kinds DEF Init
<1>1. Shapes
  BY DEF Shapes, TableOK, BooksOK, HandOK, DroppedOK, PStates, LStates, Rows, Known,
     Anybody, Blank
<1>2. OwnNum /\ BookNum /\ HasRow /\ Numbered
  BY DEF OwnNum, BookNum, HasRow, Numbered
<1>3. Worn /\ Leads /\ Ended /\ InSight /\ Tracked
  BY DEF Worn, Alive, Leads, Ended, InSight, Tracked, Led
<1>4. Written /\ Meant
  BY DEF Written, Meant, Still, Blank
<1> QED
  BY <1>1, <1>2, <1>3, <1>4 DEF IInv

(* What the check has found about a number before a signal is aimed at it. *)
LEMMA SignalGrounds ==
  ASSUME NEW r, NEW p, NEW readable, Signalable(r, p, readable)
  PROVE  own[p] = r.of \/ lead[p] = "none"
BY DEF Signalable, NotOurs

LEMMA RetireKeeps ==
  ASSUME Shapes, NEW p, Retire(p)
  PROVE  /\ row' \in [Jobs -> Rows] /\ live' \in [Pids -> Known(Commands)]
         /\ \A k \in Jobs : row'[k].of = row[k].of
         /\ \A k \in Jobs : Recorded(k) => Recorded(k)'
         /\ \A q \in Pids : Alive(q) => live'[q] = live[q]
<1> USE Kinds DEF Shapes, BooksOK, Known
<1>1. CASE ~Alive(p)
  BY <1>1 DEF Retire, Leaves, Recorded
<1>2. CASE Alive(p) /\ live[p] = None
  BY <1>2 DEF Retire, Recorded
<1>3. CASE Alive(p) /\ live[p] # None
  <2>1. /\ UNCHANGED live
        /\ row' = [row EXCEPT ![live[p]] = [row[live[p]] EXCEPT !.exited = TRUE]]
    BY <1>3 DEF Retire
  <2>2. ASSUME NEW k \in Jobs
        PROVE  /\ row'[k] \in Rows /\ row'[k].of = row[k].of
               /\ row[k] # Blank => row'[k] # Blank
    <3>1. CASE k = live[p]
      <4>1. row'[k] = [row[k] EXCEPT !.exited = TRUE]
        BY <2>1, <3>1
      <4>2. row[k] \in Rows
        OBVIOUS
      <4> QED
        <5>1. row'[k] \in Rows /\ row'[k].of = row[k].of /\ row'[k].exited = TRUE
          BY <4>1, <4>2 DEF Rows
        <5>2. Blank.exited = FALSE
          BY DEF Blank
        <5> QED
          BY <5>1, <5>2
    <3>2. CASE k # live[p]
      BY <2>1, <3>2
    <3> QED
      BY <3>1, <3>2
  <2> QED
    <3>1. \A k \in Jobs : row'[k] \in Rows
      BY <2>2
    <3>2. \A k \in Jobs : row'[k].of = row[k].of /\ (Recorded(k) => Recorded(k)')
      BY <2>2 DEF Recorded, Blank
    <3> QED
      BY <2>1, <3>1, <3>2
<1> QED
  BY <1>1, <1>2, <1>3

LEMMA NotedRow ==
  ASSUME NEW r \in Rows, NEW p
  PROVE  Noted(r, p) \in Rows /\ Noted(r, p).of = r.of
BY DEF Noted, Rows

(* A refresh writes the tracker's books: numbers of its own tools, and no  *)
(* command's row.                                                          *)
LEMMA RefreshKeeps ==
  ASSUME IInv, Refresh
  PROVE  /\ row' \in [Jobs -> Rows] /\ tool' \in [Pids -> Known(Tools)]
         /\ \A p \in Pids : tool'[p] # None => num[tool'[p]] = p
         /\ \A p \in Pids : Led(p) /\ own[p] \notin dropped' => tool'[p] = own[p]
         /\ dropped \subseteq dropped' /\ dropped' \subseteq Jobs \union {Stranger}
         /\ \A j \in Jobs : row'[j].of \in {j, row[j].of}
         /\ \A j \in Commands : row'[j] = row[j]
<1> USE Kinds DEF IInv, Shapes, TableOK, BooksOK
<1> DEFINE stays(p) == tool[p] # None /\ Alive(p)
           new(p) == ~stays(p) /\ Led(p)
           missed == {p \in Pids : stays(p) /\ Led(p) /\ tool[p] # own[p]}
           fresh(j) == [known |-> TRUE, setsid |-> TRUE, exited |-> FALSE, of |-> j]
<1>1. tool' = [p \in Pids |-> IF stays(p) THEN tool[p]
                              ELSE IF new(p) THEN own[p] ELSE None]
  BY DEF Refresh
<1>2. row' = [j \in Jobs |->
         IF \E p \in Pids : new(p) /\ own[p] = j
         THEN fresh(j)
         ELSE IF j \in Tools /\ \E p \in Pids : stays(p) /\ tool[p] = j
         THEN Noted(row[j], num[j]) ELSE row[j]]
  BY DEF Refresh
<1>3. \A p \in Pids : new(p) => own[p] \in Tools
  BY DEF Led
<1>9. dropped' = dropped \union {own[p] : p \in missed}
  BY DEF Refresh
<1> HIDE DEF stays, new, fresh
<1>4. tool' \in [Pids -> Known(Tools)]
  BY <1>1, <1>3 DEF Known
<1>5. \A p \in Pids : tool'[p] # None => num[tool'[p]] = p
  BY <1>1, <1>3 DEF OwnNum, BookNum
<1>6. \A p \in Pids : Led(p) /\ own[p] \notin dropped' => tool'[p] = own[p]
  BY <1>1, <1>9 DEF new
<1>7. row' \in [Jobs -> Rows] /\ \A j \in Jobs : row'[j].of \in {j, row[j].of}
  <2>1. \A j \in Jobs : row'[j] \in Rows /\ row'[j].of \in {j, row[j].of}
    <3> TAKE j \in Jobs
    <3>1. fresh(j) \in Rows /\ fresh(j).of = j
      BY DEF Rows, Anybody, fresh
    <3>2. /\ row[j] \in Rows /\ Noted(row[j], num[j]) \in Rows
          /\ Noted(row[j], num[j]).of = row[j].of
      BY NotedRow
    <3> QED
      BY <1>2, <3>1, <3>2
  <2> QED
    BY <1>2, <2>1
<1>8. \A j \in Commands : row'[j] = row[j]
  BY <1>2, <1>3
<1>10. dropped \subseteq dropped' /\ dropped' \subseteq Jobs \union {Stranger}
  BY <1>9 DEF DroppedOK, Led
<1> QED
  BY <1>4, <1>5, <1>6, <1>7, <1>8, <1>10

(* What is recorded of a command that has just been started: the group    *)
(* that has its number, if any has.                                        *)
LEMMA RegisterKeeps ==
  ASSUME IInv, NEW j \in Commands, Register(j)
  PROVE  /\ num[j] \in Pids /\ kernel = "up"
         /\ UNCHANGED <<table, num, code, kernel, tool, dropped>>
         /\ row' \in [Jobs -> Rows] /\ \A k \in Jobs \ {j} : row'[k] = row[k]
         /\ \/ /\ Alive(num[j]) /\ live' = [live EXCEPT ![num[j]] = j]
               /\ row'[j] # Blank /\ row'[j].of = own[num[j]]
            \/ /\ ~Alive(num[j]) /\ UNCHANGED <<row, live>>
<1> USE Kinds DEF IInv, Shapes, TableOK, BooksOK
<1>1. /\ num[j] \in Pids /\ kernel = "up"
      /\ UNCHANGED <<table, num, code, kernel, tool, dropped>>
  BY DEF Register, Free, Step, Numbered
<1>2. CASE Alive(num[j])
  <2> DEFINE worn == lead[num[j]] # "none"
             new(known) == [known |-> known, setsid |-> ~known, exited |-> ~worn,
                            of |-> own[num[j]]]
  <2>1. PICK known \in BOOLEAN : row' = [row EXCEPT ![j] = new(known)]
    BY <1>2 DEF Register
  <2>2. new(known) \in Rows /\ new(known) # Blank /\ new(known).of = own[num[j]]
    BY <1>1 DEF Rows, Blank
  <2>3. /\ row' \in [Jobs -> Rows] /\ \A k \in Jobs \ {j} : row'[k] = row[k]
        /\ row'[j] # Blank /\ row'[j].of = own[num[j]]
    BY <2>1, <2>2
  <2> QED
    BY <1>1, <1>2, <2>3 DEF Register, Leaves
<1>3. CASE ~Alive(num[j])
  BY <1>1, <1>3 DEF Register
<1> QED
  BY <1>2, <1>3

LEMMA TableStep == IInv /\ [Next]_vars => TableOK'
<1> SUFFICES ASSUME IInv, [Next]_vars PROVE TableOK'
  OBVIOUS
<1> USE Kinds DEF IInv, Shapes, TableOK, HandOK, Hands, PStates, LStates,
       Known, Anybody, Still, Numbered, table, calls
<1>1. ASSUME NEW p \in Pids, Forks(p) PROVE TableOK'
  BY <1>1 DEF Forks
<1>2. ASSUME NEW p \in Pids, LeaderExits(p) PROVE TableOK'
  BY <1>2 DEF LeaderExits
<1>3. ASSUME NEW p \in Pids, OrphansEnd(p) PROVE TableOK'
  BY <1>3 DEF OrphansEnd
<1>4. ASSUME NEW p \in Pids, Recycled(p) PROVE TableOK'
  BY <1>4 DEF Recycled, Starts
<1>5. ASSUME NEW p \in Pids, Collected(p) PROVE TableOK'
  BY <1>5 DEF Collected
<1>6. ASSUME NEW j \in Commands, Spawn(j) PROVE TableOK'
  BY <1>6 DEF Spawn, Step, Starts, Free
<1>7. ASSUME NEW j \in Commands, Register(j) PROVE TableOK'
  BY <1>7 DEF Register, Step, Leaves, Free
<1>8. ASSUME NEW j \in Commands, Forgets(j) PROVE TableOK'
  BY <1>8 DEF Forgets, Free, Retire, Leaves
<1>9. ASSUME NEW j \in Commands, SeesOrphansGone(j) PROVE TableOK'
  BY <1>9 DEF SeesOrphansGone, Free, Leaves
<1>10. ASSUME NEW j \in Commands, Kill(j) PROVE TableOK'
  BY <1>10 DEF Kill, Free, Aims, KillsLeader, Leaves
<1>11. ASSUME NEW j \in Commands, Waited(j) PROVE TableOK'
  BY <1>11 DEF Waited, Free, Step
<1>12. ASSUME NEW j \in Commands, TimesOut(j) PROVE TableOK'
  BY <1>12 DEF TimesOut, Free, Step, KillsByPid, Kills
<1>13. ASSUME NEW j \in Commands, Cancelled(j) PROVE TableOK'
  BY ZenonT(60), <1>13 DEF Cancelled, Free, Step, KillsByPid, Kills
<1>14. ASSUME NEW j \in Commands, Returns(j) PROVE TableOK'
  BY <1>14 DEF Returns, Free, Step, Retire, Leaves
<1>15. ASSUME NEW j \in Tools, ToolStarts(j) PROVE TableOK'
  BY <1>15 DEF ToolStarts, Starts
<1>16. ASSUME KillSends PROVE TableOK'
  BY <1>16 DEF KillSends, Kills
<1>17. ASSUME Dies PROVE TableOK'
  BY <1>17 DEF Dies
<1>18. ASSUME ReapSends PROVE TableOK'
  BY <1>18 DEF ReapSends, Kills, Leaves
<1>19. ASSUME AgentDies PROVE TableOK'
  BY <1>19 DEF AgentDies
<1>20. ASSUME Stop PROVE TableOK'
  BY <1>20 DEF Stop, Free
<1>21. ASSUME ReadStopped PROVE TableOK'
  BY <1>21 DEF ReadStopped, Refresh, Free
<1>22. ASSUME KillStopped PROVE TableOK'
  BY <1>22 DEF KillStopped, Free
<1>23. ASSUME ReapToolSends PROVE TableOK'
  BY <1>23 DEF ReapToolSends, Kills
<1>24. ASSUME NEW j \in Commands, CancelledEarly(j) PROVE TableOK'
  BY <1>24 DEF CancelledEarly, Free, Step, KillsLeader
<1>25. ASSUME NEW j \in Commands, Exited(j) PROVE TableOK'
  BY <1>25 DEF Exited, Free
<1>26. ASSUME \/ UNCHANGED vars
              \/ (\E p \in Pids : Reap(p) \/ ReapTool(p))
              \/ (\E j \in Commands : WaitReturns(j))
              \/ KillRetires \/ Tick
       PROVE  TableOK'
  BY <1>26 DEF vars, Reap, ReapTool, WaitReturns, KillRetires, Tick
<1> QED
  BY <1>1, <1>2, <1>3, <1>4, <1>5, <1>6, <1>7, <1>8, <1>9, <1>10, <1>11, <1>12,
     <1>13, <1>14, <1>15, <1>16, <1>17, <1>18, <1>19, <1>20, <1>21, <1>22, <1>23,
     <1>24, <1>25, <1>26 DEF Next

LEMMA BooksStep == IInv /\ [Next]_vars => BooksOK'
<1> SUFFICES ASSUME IInv, [Next]_vars PROVE BooksOK'
  OBVIOUS
<1> USE Kinds DEF IInv, Shapes, TableOK, BooksOK, HandOK, Hands, PStates,
       LStates, Known, Still, Numbered, table, calls
<1>1. ASSUME NEW p \in Pids, Reap(p) PROVE BooksOK'
  BY <1>1 DEF Reap, Leaves, Aims
<1>2. ASSUME NEW p \in Pids, ReapTool(p) PROVE BooksOK'
  <2>1. PICK r \in Rows : row' = [row EXCEPT ![tool[p]] = r]
    BY <1>2, NotedRow DEF ReapTool
  <2> QED
    BY <1>2, <2>1 DEF ReapTool
<1>3. ASSUME NEW j \in Commands, Register(j) PROVE BooksOK'
  BY <1>3, RegisterKeeps
<1>4. ASSUME NEW j \in Commands, Forgets(j) PROVE BooksOK'
  BY <1>4, RetireKeeps DEF Forgets
<1>5. ASSUME NEW j \in Commands, WaitReturns(j) PROVE BooksOK'
  BY <1>5, RetireKeeps DEF WaitReturns
<1>6. ASSUME NEW j \in Commands, SeesOrphansGone(j) PROVE BooksOK'
  BY <1>6 DEF SeesOrphansGone, Free, Leaves
<1>7. ASSUME NEW j \in Commands, Kill(j) PROVE BooksOK'
  BY <1>7 DEF Kill, Free, Aims, KillsLeader, Leaves
<1>8. ASSUME NEW j \in Commands, Returns(j) PROVE BooksOK'
  <2>1. CASE Recorded(j) /\ code[j] = "set"
    BY <1>8, <2>1, RetireKeeps DEF Returns
  <2>2. CASE ~(Recorded(j) /\ code[j] = "set")
    BY <1>8, <2>2 DEF Returns, Leaves
  <2> QED
    BY <2>1, <2>2
<1>9. ASSUME KillRetires PROVE BooksOK'
  BY <1>9, RetireKeeps DEF KillRetires
<1>10. ASSUME ReapSends PROVE BooksOK'
  BY <1>10 DEF ReapSends, Kills, Leaves
<1>11. ASSUME Tick PROVE BooksOK'
  BY <1>11, RefreshKeeps DEF Tick
<1>12. ASSUME ReadStopped PROVE BooksOK'
  BY <1>12, RefreshKeeps DEF ReadStopped
<1>13. ASSUME ReapToolSends PROVE BooksOK'
  BY <1>13 DEF ReapToolSends, Kills
<1>14. ASSUME \/ UNCHANGED vars
              \/ (\E p \in Pids : Forks(p) \/ LeaderExits(p) \/ OrphansEnd(p)
                  \/ Recycled(p) \/ Collected(p))
              \/ (\E j \in Commands : CancelledEarly(j) \/ Exited(j) \/ Spawn(j) \/
                  Waited(j) \/ TimesOut(j) \/
                  Cancelled(j))
              \/ (\E j \in Tools : ToolStarts(j))
              \/ KillSends \/ Dies \/ AgentDies \/ Stop \/ KillStopped
       PROVE  BooksOK'
  BY <1>14 DEF vars, CancelledEarly, Exited, Forks, LeaderExits, OrphansEnd, Recycled,
     Collected, Spawn, Waited, TimesOut, Cancelled, ToolStarts, KillSends, Dies,
     AgentDies, Stop, KillStopped
<1> QED
  BY <1>1, <1>2, <1>3, <1>4, <1>5, <1>6, <1>7, <1>8, <1>9, <1>10, <1>11,
     <1>12, <1>13, <1>14 DEF Next

LEMMA HandStep == IInv /\ [Next]_vars => HandOK'
<1> SUFFICES ASSUME IInv, [Next]_vars PROVE HandOK'
  OBVIOUS
<1> USE Kinds DEF IInv, Shapes, TableOK, BooksOK, HandOK, Hands, LStates,
       Known, Numbered, table, calls
<1>1. ASSUME NEW p \in Pids, Reap(p) PROVE HandOK'
  BY <1>1 DEF Reap, Leaves, Aims
<1>2. ASSUME NEW p \in Pids, ReapTool(p) PROVE HandOK'
  BY <1>2 DEF ReapTool, Aims
<1>3. ASSUME NEW j \in Commands, Kill(j) PROVE HandOK'
  BY <1>3 DEF Kill, Free, Aims, KillsLeader, Leaves
<1>4. ASSUME KillSends PROVE HandOK'
  <2>1. hand # Still
    BY <1>4 DEF KillSends, Still
  <2> QED
    BY <1>4, <2>1 DEF KillSends
<1>5. ASSUME KillRetires PROVE HandOK'
  BY <1>5 DEF KillRetires, Retire, Leaves
<1>6. ASSUME Dies PROVE HandOK'
  BY <1>6 DEF Dies
<1>7. ASSUME ReapSends PROVE HandOK'
  BY <1>7 DEF ReapSends, Kills, Leaves
<1>8. ASSUME ReapToolSends PROVE HandOK'
  BY <1>8 DEF ReapToolSends, Kills
<1>9. ASSUME \/ UNCHANGED vars
             \/ (\E p \in Pids : Forks(p) \/ LeaderExits(p) \/ OrphansEnd(p)
                 \/ Recycled(p) \/ Collected(p))
             \/ (\E j \in Commands : CancelledEarly(j) \/ Exited(j) \/ Spawn(j) \/
                 Register(j) \/ Forgets(j) \/
                 WaitReturns(j) \/ SeesOrphansGone(j) \/ Waited(j) \/
                 TimesOut(j) \/ Cancelled(j) \/ Returns(j))
             \/ (\E j \in Tools : ToolStarts(j))
             \/ AgentDies \/ Tick \/ Stop \/ ReadStopped \/ KillStopped
      PROVE  HandOK'
  <2>1. UNCHANGED hand
    BY <1>9 DEF vars, CancelledEarly, Exited, Forks, LeaderExits, OrphansEnd,
       Recycled, Collected, Spawn, Register, Forgets, WaitReturns, SeesOrphansGone,
       Waited, TimesOut, Cancelled, Returns, ToolStarts, AgentDies, Tick, Stop,
       ReadStopped, KillStopped
  <2> QED
    BY <2>1
<1> QED
  BY <1>1, <1>2, <1>3, <1>4, <1>5, <1>6, <1>7, <1>8, <1>9 DEF Next

LEMMA DroppedStep == IInv /\ [Next]_vars => DroppedOK'
<1> SUFFICES ASSUME IInv, [Next]_vars PROVE DroppedOK'
  OBVIOUS
<1> USE Kinds DEF IInv, Shapes, TableOK, BooksOK, DroppedOK, Numbered, Worn,
       Known, Anybody, table, calls
<1>1. ASSUME NEW p \in Pids, ReapTool(p) PROVE DroppedOK'
  BY <1>1 DEF ReapTool, Aims
<1>2. ASSUME NEW j \in Commands, Returns(j) PROVE DroppedOK'
  BY <1>2 DEF Returns, Free, Step, Retire, Leaves, Bereft
<1>3. ASSUME NEW j \in Commands, Kill(j) PROVE DroppedOK'
  BY <1>3 DEF Kill, Free, Aims, KillsLeader, Leaves, Bereft
<1>4. ASSUME Tick \/ ReadStopped PROVE DroppedOK'
  BY <1>4, RefreshKeeps DEF Tick, ReadStopped
<1>5. ASSUME \/ UNCHANGED vars
             \/ (\E p \in Pids : Forks(p) \/ LeaderExits(p) \/ OrphansEnd(p)
                 \/ Recycled(p) \/ Collected(p) \/ Reap(p))
             \/ (\E j \in Commands : CancelledEarly(j) \/ Exited(j) \/ Spawn(j) \/
                 Forgets(j) \/ WaitReturns(j)
                 \/ SeesOrphansGone(j) \/ Waited(j) \/ TimesOut(j) \/
                 Cancelled(j) \/ Register(j))
             \/ (\E j \in Tools : ToolStarts(j))
             \/ KillSends \/ KillRetires \/ Dies \/ ReapSends \/ AgentDies \/
                 Stop \/ KillStopped \/ ReapToolSends
      PROVE  DroppedOK'
  <2>1. UNCHANGED dropped
    BY <1>5 DEF vars, CancelledEarly, Exited, Forks, LeaderExits, OrphansEnd,
       Recycled, Collected, Reap, Spawn, Forgets, WaitReturns, SeesOrphansGone,
       Waited, TimesOut, Cancelled, Register, ToolStarts, KillSends, KillRetires,
       Dies, ReapSends, AgentDies, Stop, KillStopped, ReapToolSends
  <2> QED
    BY <2>1
<1> QED
  BY <1>1, <1>2, <1>3, <1>4, <1>5 DEF Next

LEMMA OwnNumStep == IInv /\ [Next]_vars => OwnNum'
<1> SUFFICES ASSUME IInv, [Next]_vars PROVE OwnNum'
  OBVIOUS
<1> USE Kinds DEF IInv, Shapes, TableOK, HandOK, Hands, Known, Still,
       Numbered, OwnNum, table, calls
<1>1. ASSUME NEW p \in Pids, OrphansEnd(p) PROVE OwnNum'
  BY <1>1 DEF OrphansEnd
<1>2. ASSUME NEW p \in Pids, Recycled(p) PROVE OwnNum'
  BY <1>2 DEF Recycled, Starts
<1>3. ASSUME NEW p \in Pids, Collected(p) PROVE OwnNum'
  BY <1>3 DEF Collected
<1>4. ASSUME NEW j \in Commands, Spawn(j) PROVE OwnNum'
  BY <1>4 DEF Spawn, Step, Starts, Free
<1>5. ASSUME NEW j \in Commands, TimesOut(j) PROVE OwnNum'
  BY <1>5 DEF TimesOut, Free, Step, KillsByPid, Kills
<1>6. ASSUME NEW j \in Commands, Cancelled(j) PROVE OwnNum'
  BY <1>6 DEF Cancelled, Free, Step, KillsByPid, Kills
<1>7. ASSUME NEW j \in Tools, ToolStarts(j) PROVE OwnNum'
  BY <1>7 DEF ToolStarts, Starts
<1>8. ASSUME KillSends PROVE OwnNum'
  BY <1>8 DEF KillSends, Kills
<1>9. ASSUME ReapSends PROVE OwnNum'
  BY <1>9 DEF ReapSends, Kills, Leaves
<1>10. ASSUME ReapToolSends PROVE OwnNum'
  BY <1>10 DEF ReapToolSends, Kills
<1>11. ASSUME \/ UNCHANGED vars
              \/ (\E p \in Pids : Forks(p) \/ LeaderExits(p) \/ Reap(p) \/
                  ReapTool(p))
              \/ (\E j \in Commands : CancelledEarly(j) \/ Exited(j) \/ Register(j) \/
                  Forgets(j) \/
                  WaitReturns(j) \/ SeesOrphansGone(j) \/ Kill(j) \/ Waited(j)
                  \/ Returns(j))
              \/ KillRetires \/ Dies \/ AgentDies \/ Tick \/ Stop \/
                  ReadStopped \/ KillStopped
       PROVE  OwnNum'
  BY <1>11 DEF vars, CancelledEarly, Exited, Forks, LeaderExits, Reap, ReapTool,
     Register, Forgets, WaitReturns, SeesOrphansGone, Kill, Waited, Returns,
     KillRetires, Dies, AgentDies, Tick, Stop, ReadStopped, KillStopped
<1> QED
  BY <1>1, <1>2, <1>3, <1>4, <1>5, <1>6, <1>7, <1>8, <1>9, <1>10, <1>11 DEF
     Next

LEMMA BookNumStep == IInv /\ [Next]_vars => BookNum'
<1> SUFFICES ASSUME IInv, [Next]_vars PROVE BookNum'
  OBVIOUS
<1> USE Kinds DEF IInv, Shapes, TableOK, BooksOK, HandOK, Hands, Known, Still,
       Numbered, OwnNum, BookNum, table, calls
<1>1. ASSUME NEW p \in Pids, Reap(p) PROVE BookNum'
  BY <1>1 DEF Reap, Leaves, Aims
<1>2. ASSUME NEW p \in Pids, ReapTool(p) PROVE BookNum'
  BY <1>2 DEF ReapTool, Aims
<1>3. ASSUME NEW j \in Commands, Spawn(j) PROVE BookNum'
  BY <1>3 DEF Spawn, Step, Starts, Free
<1>4. ASSUME NEW j \in Commands, Register(j) PROVE BookNum'
  BY <1>4, RegisterKeeps
<1>5. ASSUME NEW j \in Commands, Forgets(j) PROVE BookNum'
  BY <1>5 DEF Forgets, Free, Retire, Leaves
<1>6. ASSUME NEW j \in Commands, WaitReturns(j) PROVE BookNum'
  BY <1>6 DEF WaitReturns, Free, Retire, Leaves
<1>7. ASSUME NEW j \in Commands, SeesOrphansGone(j) PROVE BookNum'
  BY <1>7 DEF SeesOrphansGone, Free, Leaves
<1>8. ASSUME NEW j \in Commands, Kill(j) PROVE BookNum'
  BY <1>8 DEF Kill, Free, Aims, KillsLeader, Leaves
<1>9. ASSUME NEW j \in Commands, Returns(j) PROVE BookNum'
  BY <1>9 DEF Returns, Free, Step, Retire, Leaves
<1>10. ASSUME NEW j \in Tools, ToolStarts(j) PROVE BookNum'
  BY <1>10 DEF ToolStarts, Starts
<1>11. ASSUME KillRetires PROVE BookNum'
  BY <1>11 DEF KillRetires, Retire, Leaves
<1>12. ASSUME ReapSends PROVE BookNum'
  BY <1>12 DEF ReapSends, Kills, Leaves
<1>13. ASSUME Tick PROVE BookNum'
  BY <1>13, RefreshKeeps DEF Tick
<1>14. ASSUME ReadStopped PROVE BookNum'
  BY <1>14, RefreshKeeps DEF ReadStopped
<1>15. ASSUME ReapToolSends PROVE BookNum'
  BY <1>15 DEF ReapToolSends, Kills
<1>16. ASSUME \/ UNCHANGED vars
              \/ (\E p \in Pids : Forks(p) \/ LeaderExits(p) \/ OrphansEnd(p)
                  \/ Recycled(p) \/ Collected(p))
              \/ (\E j \in Commands : CancelledEarly(j) \/ Exited(j) \/ Waited(j) \/
                  TimesOut(j) \/
                  Cancelled(j))
              \/ KillSends \/ Dies \/ AgentDies \/ Stop \/ KillStopped
       PROVE  BookNum'
  BY <1>16 DEF vars, CancelledEarly, Exited, Forks, LeaderExits, OrphansEnd, Recycled,
     Collected, Waited, TimesOut, Cancelled, KillSends, Dies, AgentDies, Stop,
     KillStopped
<1> QED
  BY <1>1, <1>2, <1>3, <1>4, <1>5, <1>6, <1>7, <1>8, <1>9, <1>10, <1>11,
     <1>12, <1>13, <1>14, <1>15, <1>16 DEF Next

LEMMA HasRowStep == IInv /\ [Next]_vars => HasRow'
<1> SUFFICES ASSUME IInv, [Next]_vars PROVE HasRow'
  OBVIOUS
<1> USE Kinds DEF IInv, Shapes, TableOK, BooksOK, HandOK, Hands, Known,
       Still, Numbered, HasRow, Recorded, table, calls
<1>1. ASSUME NEW p \in Pids, Collected(p) PROVE HasRow'
  BY <1>1 DEF Collected
<1>2. ASSUME NEW p \in Pids, ReapTool(p) PROVE HasRow'
  <2>1. UNCHANGED <<pc, code>> /\ \A k \in Commands : row'[k] = row[k]
    BY <1>2 DEF ReapTool
  <2> QED
    BY <2>1
<1>3. ASSUME NEW j \in Commands, Spawn(j) PROVE HasRow'
  BY <1>3 DEF Spawn, Step, Starts, Free
<1>4. ASSUME NEW j \in Commands, Register(j) PROVE HasRow'
  <2>1. \A k \in Commands \ {j} : pc'[k] = pc[k] /\ row'[k] = row[k]
    BY <1>4, RegisterKeeps DEF Register, Step
  <2>2. code[j] # "out" \/ row'[j] # Blank
    BY <1>4, RegisterKeeps DEF Leads, Alive, Register, Step
  <2> QED
    BY <1>4, <2>1, <2>2, RegisterKeeps
<1>5. ASSUME NEW j \in Commands, Forgets(j) PROVE HasRow'
  <2>1. UNCHANGED <<pc, code>>
    BY <1>5 DEF Forgets
  <2> QED
    BY <1>5, <2>1, RetireKeeps DEF Forgets
<1>6. ASSUME NEW j \in Commands, WaitReturns(j) PROVE HasRow'
  BY <1>6, RetireKeeps DEF WaitReturns
<1>7. ASSUME NEW j \in Commands, Waited(j) PROVE HasRow'
  BY <1>7 DEF Waited, Free, Step
<1>8. ASSUME NEW j \in Commands, TimesOut(j) PROVE HasRow'
  BY <1>8 DEF TimesOut, Free, Step, KillsByPid, Kills
<1>9. ASSUME NEW j \in Commands, Cancelled(j) PROVE HasRow'
  BY <1>9 DEF Cancelled, Free, Step, KillsByPid, Kills
<1>10. ASSUME NEW j \in Commands, Returns(j) PROVE HasRow'
  <2>1. /\ UNCHANGED code /\ pc[j] \in {"reading", "killed"}
        /\ \A k \in Commands \ {j} : pc'[k] = pc[k]
    BY <1>10 DEF Returns, Step
  <2>2. \A k \in Jobs : Recorded(k) => Recorded(k)'
    BY <1>10, RetireKeeps DEF Returns
  <2> QED
    BY <2>1, <2>2
<1>11. ASSUME KillRetires PROVE HasRow'
  BY <1>11, RetireKeeps DEF KillRetires
<1>12. ASSUME Dies PROVE HasRow'
  BY <1>12 DEF Dies
<1>13. ASSUME Tick PROVE HasRow'
  BY <1>13, RefreshKeeps DEF Tick
<1>14. ASSUME ReadStopped PROVE HasRow'
  BY <1>14, RefreshKeeps DEF ReadStopped
<1>15. ASSUME NEW j \in Commands, CancelledEarly(j) PROVE HasRow'
  BY <1>15 DEF CancelledEarly, Free, Step, KillsLeader
<1>16. ASSUME NEW j \in Commands, Exited(j) PROVE HasRow'
  BY <1>16 DEF Exited, Free
<1>17. ASSUME \/ UNCHANGED vars
              \/ (\E p \in Pids : Forks(p) \/ LeaderExits(p) \/ OrphansEnd(p)
                  \/ Recycled(p) \/ Reap(p))
              \/ (\E j \in Commands : SeesOrphansGone(j) \/ Kill(j))
              \/ (\E j \in Tools : ToolStarts(j))
              \/ KillSends \/ ReapSends \/ AgentDies \/ Stop \/ KillStopped \/
                  ReapToolSends
       PROVE  HasRow'
  BY <1>17 DEF vars, Forks, LeaderExits, OrphansEnd, Recycled, Reap, SeesOrphansGone,
     Kill, ToolStarts, KillSends, ReapSends, AgentDies, Stop, KillStopped,
     ReapToolSends
<1> QED
  BY <1>1, <1>2, <1>3, <1>4, <1>5, <1>6, <1>7, <1>8, <1>9, <1>10, <1>11, <1>12,
     <1>13, <1>14, <1>15, <1>16, <1>17 DEF Next

LEMMA NumberedStep == IInv /\ [Next]_vars => Numbered'
<1> SUFFICES ASSUME IInv, [Next]_vars PROVE Numbered'
  OBVIOUS
<1> USE Kinds DEF IInv, Shapes, TableOK, Numbered, table, calls
<1>1. ASSUME NEW j \in Commands, Spawn(j) PROVE Numbered'
  BY <1>1 DEF Spawn, Step, Starts, Free
<1>2. ASSUME NEW j \in Commands, Register(j) PROVE Numbered'
  BY <1>2 DEF Register, Step, Leaves, Free
<1>3. ASSUME NEW j \in Commands, Waited(j) PROVE Numbered'
  BY <1>3 DEF Waited, Free, Step
<1>4. ASSUME NEW j \in Commands, TimesOut(j) PROVE Numbered'
  BY <1>4 DEF TimesOut, Free, Step, KillsByPid, Kills
<1>5. ASSUME NEW j \in Commands, Cancelled(j) PROVE Numbered'
  BY <1>5 DEF Cancelled, Free, Step, KillsByPid, Kills
<1>6. ASSUME NEW j \in Commands, Returns(j) PROVE Numbered'
  BY <1>6 DEF Returns, Free, Step, Retire, Leaves
<1>7. ASSUME NEW j \in Tools, ToolStarts(j) PROVE Numbered'
  BY <1>7 DEF ToolStarts, Starts
<1>8. ASSUME NEW j \in Commands, CancelledEarly(j) PROVE Numbered'
  BY <1>8 DEF CancelledEarly, Free, Step, KillsLeader
<1>9. ASSUME NEW p \in Pids, Collected(p) PROVE Numbered'
  BY <1>9 DEF Collected, OwnNum
<1>10. ASSUME NEW j \in Commands, Exited(j) PROVE Numbered'
  BY <1>10 DEF Exited
<1>11. ASSUME \/ UNCHANGED vars
             \/ (\E p \in Pids : Forks(p) \/ LeaderExits(p) \/ OrphansEnd(p)
                 \/ Recycled(p) \/ Reap(p) \/ ReapTool(p))
             \/ (\E j \in Commands : Forgets(j) \/ WaitReturns(j) \/
                 SeesOrphansGone(j) \/ Kill(j))
             \/ KillSends \/ KillRetires \/ Dies \/ ReapSends \/ AgentDies \/
                 Tick \/ Stop \/ ReadStopped \/ KillStopped \/ ReapToolSends
      PROVE  Numbered'
  BY <1>11 DEF vars, Forks, LeaderExits, OrphansEnd, Recycled, Reap, ReapTool,
     Forgets, WaitReturns, SeesOrphansGone, Kill, KillSends, KillRetires, Dies,
     ReapSends, AgentDies, Tick, Stop, ReadStopped, KillStopped, ReapToolSends
<1> QED
  BY <1>1, <1>2, <1>3, <1>4, <1>5, <1>6, <1>7, <1>8, <1>9, <1>10, <1>11 DEF Next

LEMMA WornStep == IInv /\ [Next]_vars => Worn'
<1> SUFFICES ASSUME IInv, [Next]_vars PROVE Worn'
  OBVIOUS
<1> USE Kinds DEF IInv, Shapes, TableOK, HandOK, Hands, Still, Numbered, Worn,
       Alive, table, calls
<1>1. ASSUME NEW p \in Pids, Forks(p) PROVE Worn'
  BY <1>1 DEF Forks
<1>2. ASSUME NEW p \in Pids, LeaderExits(p) PROVE Worn'
  BY <1>2 DEF LeaderExits
<1>3. ASSUME NEW p \in Pids, OrphansEnd(p) PROVE Worn'
  BY <1>3 DEF OrphansEnd
<1>4. ASSUME NEW p \in Pids, Recycled(p) PROVE Worn'
  BY <1>4 DEF Recycled, Starts
<1>5. ASSUME NEW p \in Pids, Collected(p) PROVE Worn'
  BY <1>5 DEF Collected
<1>6. ASSUME NEW j \in Commands, Spawn(j) PROVE Worn'
  BY <1>6 DEF Spawn, Step, Starts, Free
<1>7. ASSUME NEW j \in Commands, Kill(j) PROVE Worn'
  BY <1>7 DEF Kill, Free, Aims, KillsLeader, Leaves
<1>8. ASSUME NEW j \in Commands, TimesOut(j) PROVE Worn'
  BY <1>8 DEF TimesOut, Free, Step, KillsByPid, Kills
<1>9. ASSUME NEW j \in Commands, Cancelled(j) PROVE Worn'
  BY <1>9 DEF Cancelled, Free, Step, KillsByPid, Kills
<1>10. ASSUME NEW j \in Tools, ToolStarts(j) PROVE Worn'
  BY <1>10 DEF ToolStarts, Starts
<1>11. ASSUME KillSends PROVE Worn'
  BY <1>11 DEF KillSends, Kills
<1>12. ASSUME ReapSends PROVE Worn'
  BY <1>12 DEF ReapSends, Kills, Leaves
<1>13. ASSUME ReapToolSends PROVE Worn'
  BY <1>13 DEF ReapToolSends, Kills
<1>14. ASSUME NEW j \in Commands, CancelledEarly(j) PROVE Worn'
  BY <1>14 DEF CancelledEarly, Free, Step, KillsLeader
<1>15. ASSUME \/ UNCHANGED vars
              \/ (\E p \in Pids : Reap(p) \/ ReapTool(p))
              \/ (\E j \in Commands : Exited(j) \/ Register(j) \/ Forgets(j) \/
                  WaitReturns(j) \/ SeesOrphansGone(j) \/ Waited(j) \/
                  Returns(j))
              \/ KillRetires \/ Dies \/ AgentDies \/ Tick \/ Stop \/
                  ReadStopped \/ KillStopped
       PROVE  Worn'
  BY <1>15 DEF vars, Exited, Reap, ReapTool, Register, Forgets, WaitReturns,
     SeesOrphansGone, Waited, Returns, KillRetires, Dies, AgentDies, Tick, Stop,
     ReadStopped, KillStopped
<1> QED
  BY <1>1, <1>2, <1>3, <1>4, <1>5, <1>6, <1>7, <1>8, <1>9, <1>10, <1>11, <1>12,
     <1>13, <1>14, <1>15 DEF Next

LEMMA LeadsStep == IInv /\ [Next]_vars => Leads'
<1> SUFFICES ASSUME IInv, [Next]_vars PROVE Leads'
  OBVIOUS
<1> USE Kinds DEF IInv, Shapes, TableOK, HandOK, Hands, Still, Numbered,
       Leads, LStates, Alive, OwnNum, table, calls
<1>1. ASSUME NEW p \in Pids, LeaderExits(p) PROVE Leads'
  BY <1>1 DEF LeaderExits
<1>2. ASSUME NEW p \in Pids, OrphansEnd(p) PROVE Leads'
  BY <1>2 DEF OrphansEnd
<1>3. ASSUME NEW p \in Pids, Recycled(p) PROVE Leads'
  BY <1>3 DEF Recycled, Starts
<1>4. ASSUME NEW p \in Pids, Collected(p) PROVE Leads'
  BY <1>4 DEF Collected
<1>5. ASSUME NEW j \in Commands, Spawn(j) PROVE Leads'
  BY <1>5 DEF Spawn, Step, Starts, Free
<1>6. ASSUME NEW j \in Commands, Register(j) PROVE Leads'
  BY <1>6 DEF Register, Step, Leaves, Free
<1>7. ASSUME NEW j \in Commands, Kill(j) PROVE Leads'
  BY <1>7 DEF Kill, Free, Aims, KillsLeader, Leaves
<1>8. ASSUME NEW j \in Commands, Waited(j) PROVE Leads'
  BY <1>8 DEF Waited, Free, Step
<1>9. ASSUME NEW j \in Commands, TimesOut(j) PROVE Leads'
  BY <1>9 DEF TimesOut, Free, Step, KillsByPid, Kills
<1>10. ASSUME NEW j \in Commands, Cancelled(j) PROVE Leads'
  BY <1>10 DEF Cancelled, Free, Step, KillsByPid, Kills
<1>11. ASSUME NEW j \in Commands, Returns(j) PROVE Leads'
  BY <1>11 DEF Returns, Free, Step, Retire, Leaves
<1>12. ASSUME NEW j \in Tools, ToolStarts(j) PROVE Leads'
  BY <1>12 DEF ToolStarts, Starts
<1>13. ASSUME KillSends PROVE Leads'
  BY <1>13 DEF KillSends, Kills
<1>14. ASSUME Dies PROVE Leads'
  BY <1>14 DEF Dies
<1>15. ASSUME ReapSends PROVE Leads'
  BY <1>15 DEF ReapSends, Kills, Leaves
<1>16. ASSUME ReapToolSends PROVE Leads'
  BY <1>16 DEF ReapToolSends, Kills
<1>17. ASSUME NEW j \in Commands, CancelledEarly(j) PROVE Leads'
  BY <1>17 DEF CancelledEarly, Free, Step, KillsLeader
<1>18. ASSUME NEW j \in Commands, Exited(j) PROVE Leads'
  BY <1>18 DEF Exited, Free
<1>19. ASSUME \/ UNCHANGED vars
              \/ (\E p \in Pids : Forks(p) \/ Reap(p) \/ ReapTool(p))
              \/ (\E j \in Commands : Forgets(j) \/ WaitReturns(j) \/
                  SeesOrphansGone(j))
              \/ KillRetires \/ AgentDies \/ Tick \/ Stop \/ ReadStopped \/
                  KillStopped
       PROVE  Leads'
  BY <1>19 DEF vars, Forks, Reap, ReapTool, Forgets, WaitReturns, SeesOrphansGone,
     KillRetires, AgentDies, Tick, Stop, ReadStopped, KillStopped
<1> QED
  BY <1>1, <1>2, <1>3, <1>4, <1>5, <1>6, <1>7, <1>8, <1>9, <1>10, <1>11, <1>12,
     <1>13, <1>14, <1>15, <1>16, <1>17, <1>18, <1>19 DEF Next

LEMMA EndedStep == IInv /\ [Next]_vars => Ended'
<1> SUFFICES ASSUME IInv, [Next]_vars PROVE Ended'
  OBVIOUS
<1> USE Kinds DEF IInv, Shapes, TableOK, HandOK, Hands, Still, Numbered,
       Leads, LStates, Ended, Alive, OwnNum, table, calls
<1>1. ASSUME NEW p \in Pids, Forks(p) PROVE Ended'
  BY <1>1 DEF Forks
<1>2. ASSUME NEW p \in Pids, LeaderExits(p) PROVE Ended'
  BY <1>2 DEF LeaderExits
<1>3. ASSUME NEW p \in Pids, OrphansEnd(p) PROVE Ended'
  BY <1>3 DEF OrphansEnd
<1>4. ASSUME NEW p \in Pids, Recycled(p) PROVE Ended'
  BY <1>4 DEF Recycled, Starts
<1>5. ASSUME NEW p \in Pids, Collected(p) PROVE Ended'
  BY <1>5 DEF Collected
<1>6. ASSUME NEW j \in Commands, Spawn(j) PROVE Ended'
  BY <1>6 DEF Spawn, Step, Starts, Free
<1>7. ASSUME NEW j \in Commands, Register(j) PROVE Ended'
  BY <1>7 DEF Register, Step, Leaves, Free
<1>8. ASSUME NEW j \in Commands, Kill(j) PROVE Ended'
  BY <1>8 DEF Kill, Free, Aims, KillsLeader, Leaves
<1>9. ASSUME NEW j \in Commands, Waited(j) PROVE Ended'
  BY <1>9 DEF Waited, Free, Step
<1>10. ASSUME NEW j \in Commands, TimesOut(j) PROVE Ended'
  BY <1>10 DEF TimesOut, Free, Step, KillsByPid, Kills
<1>11. ASSUME NEW j \in Commands, Cancelled(j) PROVE Ended'
  BY <1>11 DEF Cancelled, Free, Step, KillsByPid, Kills
<1>12. ASSUME NEW j \in Commands, Returns(j) PROVE Ended'
  BY <1>12 DEF Returns, Free, Step, Retire, Leaves
<1>13. ASSUME NEW j \in Tools, ToolStarts(j) PROVE Ended'
  BY <1>13 DEF ToolStarts, Starts
<1>14. ASSUME KillSends PROVE Ended'
  BY <1>14 DEF KillSends, Kills
<1>15. ASSUME Dies PROVE Ended'
  BY <1>15 DEF Dies
<1>16. ASSUME ReapSends PROVE Ended'
  BY <1>16 DEF ReapSends, Kills, Leaves
<1>17. ASSUME ReapToolSends PROVE Ended'
  BY <1>17 DEF ReapToolSends, Kills
<1>18. ASSUME NEW j \in Commands, CancelledEarly(j) PROVE Ended'
  BY <1>18 DEF CancelledEarly, Free, Step, KillsLeader
<1>19. ASSUME NEW j \in Commands, Exited(j) PROVE Ended'
  BY <1>19 DEF Exited, Free
<1>20. ASSUME \/ UNCHANGED vars
              \/ (\E p \in Pids : Reap(p) \/ ReapTool(p))
              \/ (\E j \in Commands : Forgets(j) \/ WaitReturns(j) \/
                  SeesOrphansGone(j))
              \/ KillRetires \/ AgentDies \/ Tick \/ Stop \/ ReadStopped \/
                  KillStopped
       PROVE  Ended'
  BY <1>20 DEF vars, Reap, ReapTool, Forgets, WaitReturns, SeesOrphansGone,
     KillRetires, AgentDies, Tick, Stop, ReadStopped, KillStopped
<1> QED
  BY <1>1, <1>2, <1>3, <1>4, <1>5, <1>6, <1>7, <1>8, <1>9, <1>10, <1>11, <1>12,
     <1>13, <1>14, <1>15, <1>16, <1>17, <1>18, <1>19, <1>20 DEF Next

LEMMA WrittenStep == IInv /\ [Next]_vars => Written'
<1> SUFFICES ASSUME IInv, [Next]_vars PROVE Written'
  OBVIOUS
<1> USE Kinds DEF IInv, Shapes, TableOK, BooksOK, HandOK, Hands, Still, Numbered,
       Written, Late, table, calls
<1>1. ASSUME NEW p \in Pids, Collected(p) PROVE Written'
  BY <1>1 DEF Collected
<1>2. ASSUME NEW p \in Pids, ReapTool(p) PROVE Written'
  <2>1. tool[p] \in Tools /\ Noted(row[tool[p]], p).of = row[tool[p]].of
    BY <1>2, NotedRow DEF ReapTool, Known
  <2>2. UNCHANGED code /\ row' = [row EXCEPT ![tool[p]] = Noted(row[tool[p]], p)]
    BY <1>2 DEF ReapTool
  <2> QED
    BY <2>1, <2>2
<1>3. ASSUME NEW j \in Commands, Exited(j) PROVE Written'
  BY <1>3 DEF Exited
<1>4. ASSUME NEW j \in Commands, Register(j) PROVE Written'
  <2>1. code[j] # "out" \/ own[num[j]] = j
    BY <1>4 DEF Leads, Register, Step, Free
  <2>2. row'[j] = row[j] \/ row'[j].of = own[num[j]]
    BY <1>4, RegisterKeeps
  <2> QED
    BY <1>4, <2>1, <2>2, RegisterKeeps
<1>5. ASSUME NEW j \in Commands, Forgets(j) \/ WaitReturns(j) PROVE Written'
  BY <1>5, RetireKeeps DEF Forgets, WaitReturns
<1>6. ASSUME NEW j \in Commands, Returns(j) PROVE Written'
  <2>1. CASE Recorded(j) /\ code[j] = "set"
    BY <1>6, <2>1, RetireKeeps DEF Returns
  <2>2. CASE ~(Recorded(j) /\ code[j] = "set")
    BY <1>6, <2>2 DEF Returns
  <2> QED
    BY <2>1, <2>2
<1>7. ASSUME KillRetires PROVE Written'
  BY <1>7, RetireKeeps DEF KillRetires
<1>8. ASSUME Tick \/ ReadStopped PROVE Written'
  BY <1>8, RefreshKeeps DEF Tick, ReadStopped
<1>9. ASSUME \/ UNCHANGED vars
             \/ (\E p \in Pids : Forks(p) \/ LeaderExits(p) \/ OrphansEnd(p)
                 \/ Recycled(p) \/ Reap(p))
             \/ (\E j \in Commands : Spawn(j) \/ CancelledEarly(j) \/ Kill(j) \/
                 SeesOrphansGone(j) \/ Waited(j) \/ TimesOut(j) \/ Cancelled(j))
             \/ (\E j \in Tools : ToolStarts(j))
             \/ KillSends \/ Dies \/ ReapSends \/ AgentDies \/ Stop \/ KillStopped
             \/ ReapToolSends
      PROVE  Written'
  BY <1>9 DEF vars, Forks, LeaderExits, OrphansEnd, Recycled, Reap, Spawn,
     CancelledEarly, Kill, SeesOrphansGone, Waited, TimesOut, Cancelled, ToolStarts,
     KillSends, Dies, ReapSends, AgentDies, Stop, KillStopped, ReapToolSends
<1> QED
  BY <1>1, <1>2, <1>3, <1>4, <1>5, <1>6, <1>7, <1>8, <1>9 DEF Next

LEMMA MeantStep == IInv /\ [Next]_vars => Meant'
<1> SUFFICES ASSUME IInv, [Next]_vars PROVE Meant'
  OBVIOUS
<1> USE Kinds DEF IInv, Meant, Late, Still, HandOK, Hands, Shapes, BooksOK, table, calls
<1>1. ASSUME NEW p \in Pids, Reap(p) PROVE Meant'
  <2>1. CASE UNCHANGED hand
    BY <1>1, <2>1 DEF Reap
  <2>2. CASE hand' # hand
    <3>1. own[p] = row[live[p]].of \/ lead[p] = "none"
      BY <1>1, <2>2, SignalGrounds DEF Reap
    <3>2. live[p] \in Jobs /\ UNCHANGED <<row, code>>
      BY <1>1 DEF Reap, Known
    <3> QED
      BY <1>1, <2>2, <3>1, <3>2 DEF Reap, Aims, Written
  <2> QED
    BY <2>1, <2>2
<1>2. ASSUME NEW p \in Pids, ReapTool(p) PROVE Meant'
  <2>1. CASE UNCHANGED hand
    BY <1>2, <2>1 DEF ReapTool
  <2>2. CASE hand' # hand
    <3>1. tool[p] \in Tools /\ Noted(row[tool[p]], p).of = row[tool[p]].of
      BY <1>2, NotedRow DEF ReapTool, Known
    <3>2. own[p] = row[tool[p]].of \/ lead[p] = "none"
      BY <1>2, <2>2, <3>1, SignalGrounds DEF ReapTool
    <3>3. row[tool[p]].of \in {tool[p], None}
      BY <3>1 DEF Written
    <3> QED
      BY <1>2, <2>2, <3>1, <3>2, <3>3 DEF ReapTool, Aims
  <2> QED
    BY <2>1, <2>2
<1>3. ASSUME NEW j \in Commands, Kill(j) PROVE Meant'
  <2>1. CASE UNCHANGED hand
    BY <1>3, <2>1 DEF Kill
  <2>2. CASE hand' # hand
    <3>1. own[num[j]] = row[j].of \/ lead[num[j]] = "none"
      BY <1>3, <2>2, SignalGrounds DEF Kill
    <3>2. UNCHANGED <<row, code>>
      BY <1>3 DEF Kill
    <3> QED
      BY <1>3, <2>2, <3>1, <3>2 DEF Kill, Aims, Written
  <2> QED
    BY <2>1, <2>2
<1>4. ASSUME KillSends PROVE Meant'
  BY <1>4 DEF KillSends, Kills
<1>5. ASSUME KillRetires PROVE Meant'
  BY <1>5 DEF KillRetires, Retire, Leaves
<1>6. ASSUME Dies PROVE Meant'
  BY <1>6 DEF Dies
<1>7. ASSUME ReapSends PROVE Meant'
  BY <1>7 DEF ReapSends, Kills, Leaves
<1>8. ASSUME ReapToolSends PROVE Meant'
  BY <1>8 DEF ReapToolSends, Kills
<1>9. ASSUME NEW p \in Pids, Collected(p) PROVE Meant'
  BY <1>9 DEF Collected, TableOK
<1>10. ASSUME \/ (\E j \in Commands : Spawn(j) \/ CancelledEarly(j) \/ Exited(j) \/
                  Register(j) \/ Forgets(j) \/ WaitReturns(j) \/ SeesOrphansGone(j)
                  \/ Waited(j) \/ TimesOut(j) \/ Cancelled(j) \/ Returns(j))
              \/ Tick \/ Stop \/ ReadStopped \/ KillStopped
       PROVE  Meant'
  <2>1. UNCHANGED hand /\ hand = Still
    BY <1>10 DEF Spawn, CancelledEarly, Exited, Register, Forgets, WaitReturns,
       SeesOrphansGone, Waited, TimesOut, Cancelled, Returns, Tick, Stop, ReadStopped,
       KillStopped, Free
  <2> QED
    BY <2>1
<1>11. ASSUME \/ UNCHANGED vars
              \/ (\E p \in Pids : Forks(p) \/ LeaderExits(p) \/ OrphansEnd(p)
                  \/ Recycled(p))
              \/ (\E j \in Tools : ToolStarts(j)) \/ AgentDies
       PROVE  Meant'
  <2>1. UNCHANGED <<hand, row, code>>
    BY <1>11 DEF vars, Forks, LeaderExits, OrphansEnd, Recycled, ToolStarts, AgentDies
  <2> QED
    BY <2>1
<1> QED
  BY <1>1, <1>2, <1>3, <1>4, <1>5, <1>6, <1>7, <1>8, <1>9, <1>10, <1>11 DEF Next

(* A step that leaves the table alone, and every row that covers something *)
(* that runs.                                                              *)
LEMMA SightKept ==
  ASSUME IInv, UNCHANGED <<lead, kids, own, kernel>>, dropped \subseteq dropped',
         \A k \in Commands : pc[k] \in {"new", "spawned", "cancelled"} => pc'[k] = pc[k],
         \A k \in Commands : row'[k].of = row[k].of,
         \A p \in Pids : /\ lead[p] = "live" \/ kids[p]
                        /\ own[p] \in Commands \ dropped'
                        => live'[p] = live[p]
  PROVE  InSight'
BY Kinds DEF IInv, Shapes, TableOK, BooksOK, Known, InSight

LEMMA InSightStep == IInv /\ [Next]_vars => InSight'
<1> SUFFICES ASSUME IInv, [Next]_vars PROVE InSight'
  OBVIOUS
<1> USE Kinds DEF IInv, Shapes, TableOK, BooksOK, HandOK, Hands, Still,
       Numbered, Leads, LStates, Ended, Alive, OwnNum, BookNum, InSight,
       table, calls
<1>1. ASSUME NEW p \in Pids, Forks(p) PROVE InSight'
  BY <1>1 DEF Forks
<1>2. ASSUME NEW p \in Pids, LeaderExits(p) PROVE InSight'
  BY <1>2 DEF LeaderExits
<1>3. ASSUME NEW p \in Pids, OrphansEnd(p) PROVE InSight'
  BY <1>3 DEF OrphansEnd
<1>4. ASSUME NEW p \in Pids, Recycled(p) PROVE InSight'
  BY <1>4 DEF Recycled, Starts
<1>5. ASSUME NEW p \in Pids, Collected(p) PROVE InSight'
  BY <1>5 DEF Collected
<1>6. ASSUME NEW p \in Pids, Reap(p) PROVE InSight'
  BY <1>6 DEF Reap, Leaves, Aims
<1>7. ASSUME NEW p \in Pids, ReapTool(p) PROVE InSight'
  <2>1. \A k \in Commands : row'[k] = row[k]
    BY <1>7 DEF ReapTool, Known
  <2>2. UNCHANGED <<lead, kids, own, kernel, pc, live>> /\ dropped \subseteq dropped'
    BY <1>7 DEF ReapTool, Aims
  <2> QED
    BY <2>1, <2>2, SightKept
<1>8. ASSUME NEW j \in Commands, Spawn(j) PROVE InSight'
  BY <1>8 DEF Spawn, Step, Starts, Free
<1>9. ASSUME NEW j \in Commands, Register(j) PROVE InSight'
  <2>1. \A k \in Commands \ {j} : pc'[k] = pc[k]
    BY <1>9 DEF Register, Step
  <2>2. UNCHANGED <<lead, kids, own, num, code, kernel, dropped>> /\ num[j] \in Pids
    BY <1>9, RegisterKeeps DEF table
  <2>3. ASSUME NEW p \in Pids, lead[p] = "live" \/ kids[p],
               own[p] \in Commands \ dropped, kernel = "up",
               pc'[own[p]] \notin {"new", "spawned", "cancelled"}
        PROVE  live'[p] # None /\ row'[live'[p]].of = own[p]
    <3>1. CASE p = num[j]
      <4>1. Alive(num[j])
        BY <2>3, <3>1 DEF Alive
      <4> QED
        BY <1>9, <2>2, <3>1, <4>1, RegisterKeeps
    <3>2. CASE p # num[j]
      <4>1. own[p] # j /\ live'[p] = live[p]
        BY <1>9, <2>3, <3>2, RegisterKeeps
      <4>2. live[p] # None /\ row[live[p]].of = own[p]
        BY <2>1, <2>3, <4>1
      <4>3. live[p] \in Jobs \ {j}
        BY <2>2, <3>2, <4>2 DEF Known
      <4> QED
        BY <1>9, <4>1, <4>2, <4>3, RegisterKeeps
    <3> QED
      BY <3>1, <3>2
  <2> QED
    BY <2>2, <2>3
<1>10. ASSUME NEW j \in Commands, Forgets(j) PROVE InSight'
  <2>1. UNCHANGED <<lead, kids, own, kernel, pc, dropped>>
    BY <1>10 DEF Forgets
  <2>2. /\ \A k \in Jobs : row'[k].of = row[k].of
        /\ \A p \in Pids : Alive(p) => live'[p] = live[p]
    BY <1>10, RetireKeeps DEF Forgets
  <2> QED
    BY <2>1, <2>2, SightKept DEF Alive
<1>11. ASSUME NEW j \in Commands, WaitReturns(j) PROVE InSight'
  <2>1. UNCHANGED <<lead, kids, own, kernel, pc, dropped>>
    BY <1>11 DEF WaitReturns
  <2>2. /\ \A k \in Jobs : row'[k].of = row[k].of
        /\ \A p \in Pids : Alive(p) => live'[p] = live[p]
    BY <1>11, RetireKeeps DEF WaitReturns
  <2> QED
    BY <2>1, <2>2, SightKept DEF Alive
<1>12. ASSUME NEW j \in Commands, SeesOrphansGone(j) PROVE InSight'
  BY <1>12 DEF SeesOrphansGone, Free, Leaves
<1>13. ASSUME NEW j \in Commands, Kill(j) PROVE InSight'
  BY <1>13 DEF Kill, Free, Aims, KillsLeader, Leaves, Bereft
<1>14. ASSUME NEW j \in Commands, Waited(j) PROVE InSight'
  BY <1>14 DEF Waited, Free, Step
<1>15. ASSUME NEW j \in Commands, TimesOut(j) PROVE InSight'
  BY <1>15 DEF TimesOut, Free, Step, KillsByPid, Kills
<1>16. ASSUME NEW j \in Commands, Cancelled(j) PROVE InSight'
  BY <1>16 DEF Cancelled, Free, Step, KillsByPid, Kills
<1>17. ASSUME NEW j \in Commands, Returns(j) PROVE InSight'
  <2>1. /\ UNCHANGED <<lead, kids, own, kernel>> /\ dropped \subseteq dropped'
        /\ pc[j] \in {"reading", "killed"}
        /\ \A k \in Commands \ {j} : pc'[k] = pc[k]
    BY <1>17 DEF Returns, Step
  <2>2. CASE ~Recorded(j)
    BY <1>17, <2>1, <2>2, SightKept DEF Returns
  <2>3. CASE Recorded(j) /\ code[j] = "set"
    <3>1. /\ \A k \in Jobs : row'[k].of = row[k].of
          /\ \A p \in Pids : Alive(p) => live'[p] = live[p]
      BY <1>17, <2>3, RetireKeeps DEF Returns
    <3> QED
      BY <2>1, <3>1, SightKept DEF Alive
  <2>4. CASE Recorded(j) /\ code[j] # "set"
    BY <1>17, <2>1, <2>4 DEF Returns, Leaves, Bereft, Free
  <2> QED
    BY <2>2, <2>3, <2>4
<1>18. ASSUME NEW j \in Tools, ToolStarts(j) PROVE InSight'
  BY <1>18 DEF ToolStarts, Starts
<1>19. ASSUME KillSends PROVE InSight'
  BY <1>19 DEF KillSends, Kills
<1>20. ASSUME KillRetires PROVE InSight'
  <2>1. UNCHANGED <<lead, kids, own, kernel, pc, dropped>>
    BY <1>20 DEF KillRetires
  <2>2. /\ \A k \in Jobs : row'[k].of = row[k].of
        /\ \A p \in Pids : Alive(p) => live'[p] = live[p]
    BY <1>20, RetireKeeps DEF KillRetires
  <2> QED
    BY <2>1, <2>2, SightKept DEF Alive
<1>21. ASSUME Dies PROVE InSight'
  BY <1>21 DEF Dies
<1>22. ASSUME ReapSends PROVE InSight'
  BY <1>22 DEF ReapSends, Kills, Leaves
<1>23. ASSUME ReapToolSends PROVE InSight'
  BY <1>23 DEF ReapToolSends, Kills
<1>24. ASSUME NEW j \in Commands, CancelledEarly(j) PROVE InSight'
  BY <1>24 DEF CancelledEarly, Free, Step, KillsLeader
<1>25. ASSUME NEW j \in Commands, Exited(j) PROVE InSight'
  BY <1>25 DEF Exited, Free
<1>26. ASSUME Tick \/ ReadStopped PROVE InSight'
  <2>1. UNCHANGED <<lead, kids, own, kernel, pc, live>>
    BY <1>26 DEF Tick, ReadStopped
  <2> QED
    BY <1>26, <2>1, RefreshKeeps, SightKept DEF Tick, ReadStopped
<1>27. ASSUME UNCHANGED vars \/ AgentDies \/ Stop \/ KillStopped PROVE InSight'
  BY <1>27 DEF vars, AgentDies, Stop, KillStopped
<1> QED
  BY <1>1, <1>2, <1>3, <1>4, <1>5, <1>6, <1>7, <1>8, <1>9, <1>10, <1>11, <1>12,
     <1>13, <1>14, <1>15, <1>16, <1>17, <1>18, <1>19, <1>20, <1>21, <1>22, <1>23,
     <1>24, <1>25, <1>26, <1>27 DEF Next

LEMMA TrackedStep == IInv /\ [Next]_vars => Tracked'
<1> SUFFICES ASSUME IInv, [Next]_vars PROVE Tracked'
  OBVIOUS
<1> USE Kinds DEF IInv, Shapes, TableOK, BooksOK, HandOK, Hands, Still,
       LStates, Alive, Tracked, Led, Numbered, table, calls
<1>1. ASSUME NEW p \in Pids, LeaderExits(p) PROVE Tracked'
  BY <1>1 DEF LeaderExits
<1>2. ASSUME NEW p \in Pids, OrphansEnd(p) PROVE Tracked'
  BY <1>2 DEF OrphansEnd
<1>3. ASSUME NEW p \in Pids, Recycled(p) PROVE Tracked'
  BY <1>3 DEF Recycled, Starts
<1>4. ASSUME NEW p \in Pids, Collected(p) PROVE Tracked'
  BY <1>4 DEF Collected
<1>5. ASSUME NEW p \in Pids, ReapTool(p) PROVE Tracked'
  BY <1>5 DEF ReapTool, Aims
<1>6. ASSUME NEW j \in Commands, Spawn(j) PROVE Tracked'
  BY <1>6 DEF Spawn, Step, Starts, Free
<1>7. ASSUME NEW j \in Commands, Register(j) PROVE Tracked'
  BY <1>7 DEF Register, Step, Leaves, Free
<1>8. ASSUME NEW j \in Commands, Kill(j) PROVE Tracked'
  BY <1>8 DEF Kill, Free, Aims, KillsLeader, Leaves
<1>9. ASSUME NEW j \in Commands, TimesOut(j) PROVE Tracked'
  BY <1>9 DEF TimesOut, Free, Step, KillsByPid, Kills
<1>10. ASSUME NEW j \in Commands, Cancelled(j) PROVE Tracked'
  BY <1>10 DEF Cancelled, Free, Step, KillsByPid, Kills
<1>11. ASSUME NEW j \in Tools, ToolStarts(j) PROVE Tracked'
  BY <1>11 DEF ToolStarts, Starts
<1>12. ASSUME KillSends PROVE Tracked'
  BY <1>12 DEF KillSends, Kills
<1>13. ASSUME ReapSends PROVE Tracked'
  BY <1>13 DEF ReapSends, Kills, Leaves
<1>14. ASSUME AgentDies PROVE Tracked'
  BY <1>14 DEF AgentDies
<1>15. ASSUME Tick PROVE Tracked'
  BY <1>15, RefreshKeeps DEF Tick, Free
<1>16. ASSUME Stop PROVE Tracked'
  BY <1>16 DEF Stop, Free
<1>17. ASSUME ReadStopped PROVE Tracked'
  BY <1>17, RefreshKeeps DEF ReadStopped, Free
<1>18. ASSUME KillStopped PROVE Tracked'
  BY <1>18 DEF KillStopped, Free
<1>19. ASSUME ReapToolSends PROVE Tracked'
  BY <1>19 DEF ReapToolSends, Kills
<1>20. ASSUME NEW j \in Commands, CancelledEarly(j) PROVE Tracked'
  BY <1>20 DEF CancelledEarly, Free, Step, KillsLeader
<1>21. ASSUME \/ UNCHANGED vars
              \/ (\E p \in Pids : Forks(p) \/ Reap(p))
              \/ (\E j \in Commands : Exited(j) \/ Forgets(j) \/ WaitReturns(j) \/
                  SeesOrphansGone(j) \/ Waited(j) \/ Returns(j))
              \/ KillRetires \/ Dies
       PROVE  Tracked'
  BY <1>21 DEF vars, Exited, Forks, Reap, Forgets, WaitReturns, SeesOrphansGone,
     Waited, Returns, KillRetires, Dies
<1> QED
  BY <1>1, <1>2, <1>3, <1>4, <1>5, <1>6, <1>7, <1>8, <1>9, <1>10, <1>11, <1>12,
     <1>13, <1>14, <1>15, <1>16, <1>17, <1>18, <1>19, <1>20, <1>21 DEF Next

(* Only a deadline and a cancellation kill by pid, and both find a command *)
(* that has been started.                                                  *)
LEMMA KilledFrom ==
  ASSUME IInv, Next, NEW j \in Commands, pc[j] # "killed", pc'[j] = "killed"
  PROVE  pc[j] # "new" /\ kernel = "up"
<1> USE DEF IInv, Shapes, TableOK, calls
<1>1. ASSUME NEW k \in Commands,
             \/ Spawn(k) \/ CancelledEarly(k) \/ Register(k) \/ Waited(k)
             \/ Returns(k)
      PROVE  FALSE
  BY <1>1 DEF Spawn, CancelledEarly, Register, Waited, Returns, Step
<1>2. ASSUME NEW k \in Commands, TimesOut(k) \/ Cancelled(k)
      PROVE  pc[j] # "new" /\ kernel = "up"
  BY <1>2 DEF TimesOut, Cancelled, Step, Free
<1>3. ASSUME NEW k \in Commands,
             Exited(k) \/ Forgets(k) \/ WaitReturns(k) \/ SeesOrphansGone(k) \/ Kill(k)
      PROVE  FALSE
  BY <1>3 DEF Exited, Forgets, WaitReturns, SeesOrphansGone, Kill
<1>4. ASSUME NEW p \in Pids,
             \/ Forks(p) \/ LeaderExits(p) \/ OrphansEnd(p) \/ Recycled(p)
             \/ Collected(p) \/ Reap(p) \/ ReapTool(p)
      PROVE  FALSE
  BY <1>4 DEF Forks, LeaderExits, OrphansEnd, Recycled, Collected, Reap, ReapTool
<1>5. ASSUME \/ (\E k \in Tools : ToolStarts(k)) \/ KillSends \/ KillRetires \/ Dies
             \/ ReapSends \/ AgentDies \/ Tick \/ Stop \/ ReadStopped \/ KillStopped
             \/ ReapToolSends
      PROVE  FALSE
  BY <1>5 DEF ToolStarts, KillSends, KillRetires, Dies, ReapSends, AgentDies, Tick,
     Stop,
     ReadStopped, KillStopped, ReapToolSends
<1> QED
  BY <1>1, <1>2, <1>3, <1>4, <1>5 DEF Next
-----------------------------------------------------------------------------
(* IInv holds of every behaviour: a command that leads a number has its    *)
(* row there, and whoever signals it does so on a check that still holds.  *)
THEOREM Invariant == Spec => []IInv
<1>1. IInv /\ [Next]_vars => IInv'
  BY TableStep, BooksStep, HandStep, DroppedStep, OwnNumStep, BookNumStep, HasRowStep,
     NumberedStep, WornStep, LeadsStep, EndedStep, WrittenStep, MeantStep, InSightStep,
     TrackedStep
     DEF IInv, Shapes
<1> QED
  BY Starting, <1>1, PTL DEF Spec

(* Shapes; a row under a number belongs to a job that started a group      *)
(* there, and a command past _register whose leader was not collected has  *)
(* a row (shell.py:44-110).                                                *)
THEOREM GroupsTyped == Spec => []TypeOK
<1>1. IInv => TypeOK
  BY TypeParts DEF IInv
<1> QED
  BY Invariant, <1>1, PTL

(* However a leader ended, its group stands under a row written of it      *)
(* while it lives (shell.py: _register, _retire), and no tool of a claude  *)
(* that was stopped, read and killed is out of the tracker's sight         *)
(* (toolgroups.py) - those aside whose row was dropped, or never written,  *)
(* as NoneAstray says.                                                     *)
THEOREM NoneGoesAstray == Spec => []NoneAstray
<1>1. IInv => NoneAstray
  <2> SUFFICES ASSUME IInv, NEW p \in Pids, lead[p] = "live" \/ kids[p],
                      own[p] \notin dropped
               PROVE  /\ own[p] \in Commands /\ kernel = "up"
                         /\ pc[own[p]] \notin {"new", "spawned", "cancelled"}
                         => live[p] # None /\ row[live[p]].of = own[p]
                      /\ agent = "killed" /\ Led(p) => tool[p] = own[p]
    BY DEF NoneAstray
  <2> QED
    BY DEF IInv, InSight, Tracked
<1> QED
  BY Invariant, <1>1, PTL

(* bgroups.signalable lets no signal go out on a number that its check saw *)
(* worn by the leader of a group other than the one the row was written of *)
(* (which is the command's own unless its leader was collected before      *)
(* _register), and a call whose leader has not been collected kills that   *)
(* command's own group (shell.py: _killpg_or_kill).                        *)
THEOREM StrangersSpared == Spec => NoStrangerKilled
<1> DEFINE Spares ==
      /\ Meant'
      /\ \A j \in Foreground : pc[j] # "killed" /\ pc'[j] = "killed" /\ code[j] = "out"
           => own[num[j]] = j
<1>1. IInv /\ IInv' /\ [Next]_vars => [Spares]_vars
  <2> SUFFICES ASSUME IInv, Meant', Next PROVE Spares
    BY DEF IInv
  <2>1. ASSUME NEW j \in Foreground, pc[j] # "killed", pc'[j] = "killed", code[j] = "out"
        PROVE  own[num[j]] = j
    <3>1. pc[j] # "new" /\ kernel = "up"
      BY <2>1, Kinds, KilledFrom
    <3> QED
      BY <2>1, <3>1, Kinds DEF IInv, Leads
  <2> QED
    BY <2>1
<1> QED
  BY Invariant, <1>1, PTL DEF Spec, NoStrangerKilled
=============================================================================

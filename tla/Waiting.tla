------------------------------ MODULE Waiting ------------------------------
(***************************************************************************)
(* Callers that follow, read and interrupt the cells of a kernel key       *)
(* (wait_cell, _follow, _settle_dead, interrupt in src/src/ptc/client.py,  *)
(* cells.py, the interrupt tool of mcp.py) by the files a kernel leaves in *)
(* cells/, while the kernel runs cells, dies or expires, and a restart     *)
(* moves cells/ to an archive and starts another.  A caller's looks at the *)
(* files are steps of their own, those of is_busy() too.                   *)
(***************************************************************************)
EXTENDS Naturals

CONSTANTS
  Callers,  \* processes that wait: each has cursors of its own
  MaxCell,  \* bound: cell numbers
  Chunk,    \* what one read hands back at most (READ_CHUNK_BYTES)
  MaxOut,   \* bound: output of a cell
  Verbose,  \* bound: the cells that write any output
  MaxInc    \* bound: kernels spawned under the key

ASSUME WaitingAssumption ==
  /\ MaxCell \in Nat /\ MaxOut \in Nat /\ Verbose \subseteq 1..MaxCell
  /\ Chunk \in Nat \ {0} /\ MaxInc \in Nat \ {0}

Cells == 1..MaxCell
Unnamed == MaxCell + 1      \* pending.json names no cell yet
NoMark == MaxOut + 1        \* there is no cursor sidecar

VARIABLES
  kernel,   \* up; down: dead, owner.json and cells/ still there; unowned:
            \*   owner.json unlinked; rotated: cells/ too; booting: alive and
            \*   named, with no ready file yet; leaving: alive still, and its
            \*   owner.json unlinked by its own watchdog
  inc,      \* the incarnation that owner.json names or named last
  queued, running,  \* the cell the kernel has accepted, the one it executes
  current,  \* cells/current.json
  marker,   \* cells/pending.json: a cell, Unnamed, or 0
  place,    \* where each cell's log and record are: in cells/, in the archive
            \*   of the last restart, or in one of a restart before
  out,      \* the length of each cell's log
  records,  \* the cells with a terminal record
  live,     \* each caller's cursor sidecars in cells/offsets
  kept,     \* those that an archive holds beside the cell's log
  served,   \* history: where each caller's last recorded read of a cell ended
  pc, my,   \* where each caller stands, and what it knows
  said,     \* the answer of a call that has just returned
  swapped   \* history: since the caller last looked at its target a cell began,
            \*   or since it read the marker another was written or none is left

kernelVars == <<kernel, inc, queued, running, current, marker>>
cellVars == <<place, out, records>>
callerVars == <<live, kept, served, pc, my>>
vars == <<kernelVars, cellVars, callerVars, said, swapped>>

Nowhere == [cell |-> 0, implicit |-> TRUE, off |-> 0, scan |-> 0, rec |-> FALSE,
            logged |-> FALSE, doubt |-> FALSE, entry |-> 0, target |-> 0,
            sent |-> FALSE, seen |-> 0, stamp |-> 0]
Silence == [cell |-> 0, kind |-> "none", from |-> 0, to |-> 0]

Live(c) == c \in Cells /\ place[c] = "live"
Archived(c) == place[c] \in {"prev", "older"}
(* read_record: a record in cells/ - an archived one is not seen there.    *)
Recorded(c) == Live(c) /\ c \in records
Alive == kernel \in {"up", "booting"}

Init ==
  /\ kernel = "up" /\ inc = 1
  /\ queued = 0 /\ running = 0 /\ current = 0 /\ marker = 0
  /\ place = [c \in Cells |-> "none"]
  /\ out = [c \in Cells |-> 0]
  /\ records = {}
  /\ live = [w \in Callers |-> [c \in Cells |-> NoMark]]
  /\ kept = live
  /\ served = [w \in Callers |-> [c \in Cells |-> 0]]
  /\ pc = [w \in Callers |-> "idle"]
  /\ my = [w \in Callers |-> Nowhere]
  /\ said = [w \in Callers |-> Silence]
  /\ swapped = [w \in Callers |-> FALSE]

-----------------------------------------------------------------------------
(* The kernel and those who submit to it and restart it.                   *)

(* A step that is no caller's.                                             *)
Unheard ==
  UNCHANGED callerVars /\ said' = [w \in Callers |-> Silence]

Judging == {"judge", "discard"}
(* pending.json becomes m, unnoticed by those who have read it before.     *)
Remark(m) ==
  /\ marker' = m
  /\ swapped' = [w \in Callers |-> swapped[w] \/ pc[w] \in Judging]

(* A submitter, under the submit lock, attached to the key earlier: the    *)
(* kernel may be one that has no ready file yet.  (What is sent to one     *)
(* that is leaving dies with it, like what it held before.)  Nothing is in *)
(* flight: that a marker once lost lets a second request in beside the     *)
(* first is Admission's to show.  A new number is above every log there    *)
(* is, archived or not.                                                    *)
Submit ==
  /\ Alive
  /\ queued = 0 /\ running = 0 /\ marker = 0
  /\ \E n \in Cells :
       /\ \A c \in Cells : place[c] # "none" => c < n
       /\ n > 1 => place[n - 1] # "none"
       /\ queued' = n
  /\ Remark(Unnamed)
  /\ Unheard /\ UNCHANGED <<kernel, inc, running, current, cellVars>>

(* From its acceptance to its publication a request needs the marker.      *)
Needed == Alive /\ (queued # 0 \/ running \notin {0, current})

(* The acknowledgement names the cell in the marker, which is written anew *)
(* where it is gone.                                                       *)
Acknowledge ==
  /\ marker = Unnamed \/ (marker = 0 /\ Needed)
  /\ (queued # 0 \/ running # 0)
  /\ Remark(IF queued # 0 THEN queued ELSE running)
  /\ Unheard /\ UNCHANGED <<kernel, inc, queued, running, current, cellVars>>

(* _pre_run_cell: first the log, then current.json.  The kernel that is    *)
(* leaving keeps the admission lock, and a request that waits for it.      *)
BeginUnlogged ==                       \* mutant: the log is opened later
  /\ Alive /\ queued # 0
  /\ running' = queued /\ queued' = 0
  /\ Unheard /\ UNCHANGED <<kernel, inc, current, marker, cellVars, swapped>>
Begin ==
  /\ Alive /\ queued # 0
  /\ running' = queued /\ queued' = 0
  /\ place' = [place EXCEPT ![queued] = "live"]
  /\ swapped' = [w \in Callers |->
       swapped[w] \/ pc[w] \in {"look", "request", "verify", "kill"}]
  /\ Unheard /\ UNCHANGED <<kernel, inc, current, marker, out, records>>

Publish ==
  /\ running # 0 /\ current # running
  /\ current' = running
  /\ Unheard /\ UNCHANGED <<kernel, inc, queued, running, marker, cellVars, swapped>>

(* The submitter sees its cell published, or the is_busy() of the next one *)
(* finds it settled, or its kernel dead: also one that is not ready yet.   *)
Unmark ==
  /\ marker # 0
  /\ kernel # "up" \/ (queued = 0 /\ current # 0 /\ running \in {0, current})
  /\ Remark(0)
  /\ Unheard /\ UNCHANGED <<kernel, inc, queued, running, current, cellVars>>

Write ==
  /\ running # 0 /\ current = running
  /\ running \in Verbose /\ out[running] < MaxOut
  /\ out' = [out EXCEPT ![running] = @ + 1]
  /\ Unheard /\ UNCHANGED <<kernelVars, place, records, swapped>>

(* _post_run_cell.                                                         *)
Finish ==
  /\ running # 0 /\ current = running
  /\ records' = records \union {running}
  /\ running' = 0
  /\ Unheard /\ UNCHANGED <<kernel, inc, queued, current, marker, place, out, swapped>>

(* A crash, os._exit, a kill by restart().                                 *)
Die ==
  /\ Alive
  /\ kernel' = "down" /\ queued' = 0 /\ running' = 0
  /\ Unheard /\ UNCHANGED <<inc, current, marker, cellVars, swapped>>

(* The idle watchdog, under the key lock and the admission lock: no cell   *)
(* runs, and none begins any more.  owner.json goes, the process later.    *)
Expire ==
  /\ kernel = "up" /\ running = 0
  /\ kernel' = "leaving"
  /\ Unheard /\ UNCHANGED <<inc, queued, running, current, marker, cellVars, swapped>>
Exit ==
  /\ kernel = "leaving"
  /\ kernel' = "unowned" /\ queued' = 0
  /\ Unheard /\ UNCHANGED <<inc, running, current, marker, cellVars, swapped>>

(* _clean_stale: owner.json and ready first.                               *)
Disown ==
  /\ kernel = "down"
  /\ kernel' = "unowned"
  /\ Unheard /\ UNCHANGED <<inc, queued, running, current, marker, cellVars, swapped>>

(* _rotate_cells: one rename takes logs, records, cursors, current.json    *)
(* and the marker.                                                         *)
Rotate ==
  /\ kernel = "unowned"
  /\ kernel' = "rotated" /\ current' = 0 /\ Remark(0)
  /\ place' = [c \in Cells |-> CASE place[c] = "live" -> "prev"
                                 [] place[c] = "prev" -> "older"
                                 [] OTHER -> place[c]]
  /\ kept' = [w \in Callers |-> [c \in Cells |->
                IF Live(c) THEN live[w][c] ELSE kept[w][c]]]
  /\ live' = [w \in Callers |-> [c \in Cells |-> NoMark]]
  /\ said' = [w \in Callers |-> Silence]
  /\ UNCHANGED <<inc, queued, running, out, records, served, pc, my>>

(* Popen, owner.json and the bootstrap; then the ready file.               *)
Spawn ==
  /\ kernel = "rotated" /\ inc < MaxInc
  /\ kernel' = "booting" /\ inc' = inc + 1
  /\ Unheard /\ UNCHANGED <<queued, running, current, marker, cellVars, swapped>>

Ready ==
  /\ kernel = "booting"
  /\ kernel' = "up"
  /\ Unheard /\ UNCHANGED <<inc, queued, running, current, marker, cellVars, swapped>>

-----------------------------------------------------------------------------
(* A caller.                                                               *)

At(w, step) == pc[w] = step
Goto(w, step) == pc' = [pc EXCEPT ![w] = step]
Moves(w, step) ==
  Goto(w, step) /\ UNCHANGED <<live, kept, served, my, said, swapped>>
Cell(w) == my[w].cell

(* read_since: a read ends where the log does, or a chunk further on;      *)
(* read_output_since where it was to begin, if there is no log in cells/.  *)
ReadTo(c, from) == IF from + Chunk < out[c] THEN from + Chunk ELSE out[c]
LiveTo(c, from) == IF Live(c) THEN ReadTo(c, from) ELSE from

(* Begin to wait for c; since < 0 is the implicit request.                 *)
Starts(w, c, implicit) ==
  LET off == IF implicit /\ live[w][c] # NoMark THEN live[w][c] ELSE 0
  IN /\ my' = [my EXCEPT ![w] = [Nowhere EXCEPT
                 !.cell = c, !.implicit = implicit,
                 !.off = off, !.scan = off, !.logged = place[c] # "none"]]
     /\ said' = [said EXCEPT ![w] = Silence]
     /\ Goto(w, "record")

(* wait_cell is called, or exec_cell goes on to _follow the cell that it   *)
(* has seen published: that cell has a log and no cursor yet, and the      *)
(* loops are otherwise alike.                                              *)
Call(w) ==
  /\ At(w, "idle")
  /\ \E c \in Cells, implicit \in BOOLEAN : Starts(w, c, implicit)
  /\ UNCHANGED <<kernelVars, cellVars, live, kept, served, swapped>>

(* The call returns what it read; save_offset moves the implicit cursor.   *)
Says(w, kind, from, to) ==
  /\ said' = [said EXCEPT ![w] =
                [cell |-> Cell(w), kind |-> kind, from |-> from, to |-> to]]
  /\ Goto(w, "idle")
  /\ my' = [my EXCEPT ![w] = Nowhere]
  /\ UNCHANGED <<kernelVars, cellVars, kept, swapped>>
Saves(w, to) ==
  /\ live' = [live EXCEPT ![w][Cell(w)] = to]
  /\ served' = [served EXCEPT ![w][Cell(w)] = to]
OutTo(w) == LiveTo(Cell(w), my[w].off)
SaysLive(w, kind) == Says(w, kind, my[w].off, OutTo(w)) /\ Saves(w, OutTo(w))

(* _archived, from _archived_start: an implicit request without a cursor   *)
(* goes by the one the archive keeps.                                      *)
StartOver(w, c) == my[w].off           \* mutant: archived cursor not consulted
ArchivedStart(w, c) ==
  IF my[w].implicit /\ my[w].off = 0 /\ live[w][c] = NoMark /\ kept[w][c] # NoMark
  THEN kept[w][c]
  ELSE my[w].off
SaysArchived(w) ==
  LET c == Cell(w)
      from == ArchivedStart(w, c)
  IN /\ Archived(c)
     /\ Says(w, IF c \in records THEN "done" ELSE "ended", from, ReadTo(c, from))
     /\ Saves(w, ReadTo(c, from))

LooksForRecord(w) ==
  /\ At(w, "record")
  /\ Moves(w, IF Recorded(Cell(w)) THEN "output" ELSE "log")
  /\ UNCHANGED <<kernelVars, cellVars>>

(* The record stands: the rest of the log, unless a rotation has taken it  *)
(* meanwhile (_rotated_under_the_record).                                  *)
SaysDoneBlindly(w) ==                  \* mutant: the rotation goes unnoticed
  At(w, "output") /\ SaysLive(w, "done")
SaysDone(w) ==
  /\ At(w, "output")
  /\ \/ /\ Live(Cell(w))
        /\ SaysLive(w, "done")
     \/ SaysArchived(w)

LooksForLogOnly(w) ==                  \* mutant: no look into the archives
  /\ At(w, "log")
  /\ Moves(w, IF Live(Cell(w)) \/ kernel # "up" THEN "death" ELSE "late")
  /\ UNCHANGED <<kernelVars, cellVars>>
LooksForLog(w) ==
  /\ At(w, "log")
  /\ \/ Live(Cell(w)) /\ Moves(w, "death") /\ UNCHANGED <<kernelVars, cellVars>>
     \/ SaysArchived(w)
     \/ /\ place[Cell(w)] = "none"
        /\ Moves(w, "alive")
        /\ UNCHANGED <<kernelVars, cellVars>>

(* kernel_alive: an identity that cannot be read is "not alive".           *)
LooksForLife(w) ==
  /\ At(w, "alive")
  /\ (kernel = "up" /\ Moves(w, "marker")) \/ Moves(w, "death")
  /\ UNCHANGED <<kernelVars, cellVars>>

(* _pending_names: the kernel has acknowledged the cell and not begun it.  *)
LooksForMarker(w) ==
  /\ At(w, "marker")
  /\ \/ /\ marker = Cell(w)
        /\ Moves(w, "death")
        /\ UNCHANGED <<kernelVars, cellVars>>
     \/ /\ marker # Cell(w)
        /\ Says(w, "notfound", 0, 0)
        /\ UNCHANGED <<live, served>>

(* _kernel_known_dead: no owner.json, a dead process, or no ready file;    *)
(* an identity that cannot be read is "not dead".  A kernel that is not    *)
(* ready yet is taken for dead, though it may run cells (doubt).           *)
KnownDead == kernel # "up"
MaybeAlive == kernel \in {"up", "down", "booting"}
FindsDead(w) ==
  /\ At(w, "death") /\ KnownDead
  /\ my' = [my EXCEPT ![w].doubt = Alive]
  /\ Goto(w, "settle")
  /\ UNCHANGED <<kernelVars, cellVars, live, kept, served, said, swapped>>
FindsNotDead(w) ==
  /\ At(w, "death") /\ MaybeAlive
  /\ \E next \in {"scan", "late"} : Moves(w, next)
  /\ UNCHANGED <<kernelVars, cellVars>>

(* _settle_dead: the record again, then the archive if the live log is     *)
(* gone, then what there is.  Only the archive moves the cursor.           *)
SettlesByRecord(w) ==
  /\ At(w, "settle")
  /\ IF Recorded(Cell(w))
     THEN my' = [my EXCEPT ![w].rec = TRUE] /\ Goto(w, "lastwords")
     ELSE Goto(w, "archive") /\ UNCHANGED my
  /\ UNCHANGED <<kernelVars, cellVars, live, kept, served, said, swapped>>
SettlesByArchive(w) ==
  /\ At(w, "archive")
  /\ \/ SaysArchived(w)
     \/ /\ ~Archived(Cell(w))
        /\ Moves(w, "lastwords")
        /\ UNCHANGED <<kernelVars, cellVars>>
SaysLastWords(w) ==
  /\ At(w, "lastwords")
  /\ Says(w, IF my[w].rec THEN "done" ELSE "died", my[w].off, OutTo(w))
  /\ UNCHANGED <<live, served>>

(* A wait with a pattern: new output is searched; a match answers unless a *)
(* record has come meanwhile, and more output is drained without a pause.  *)
(* What a long scan drops from its window, window_start tells.             *)
Scans(w) ==
  /\ At(w, "scan")
  /\ LET to == LiveTo(Cell(w), my[w].scan)
     IN /\ my' = [my EXCEPT ![w].scan = to]
        /\ IF to = my[w].scan THEN Goto(w, "late")
           ELSE \E next \in {"match", "record", "late"} : Goto(w, next)
  /\ UNCHANGED <<kernelVars, cellVars, live, kept, served, said, swapped>>
Matches(w) ==
  /\ At(w, "match")
  /\ \/ /\ Recorded(Cell(w))
        /\ Moves(w, "record")
        /\ UNCHANGED <<kernelVars, cellVars>>
     \/ /\ ~Recorded(Cell(w))
        /\ Says(w, "running", my[w].off, my[w].scan)
        /\ Saves(w, my[w].scan)

(* The budget is not spent yet, or it is.                                  *)
PollsAgain(w) ==
  /\ At(w, "late")
  /\ Moves(w, "record")
  /\ UNCHANGED <<kernelVars, cellVars>>
Expires(w) ==
  /\ At(w, "late")
  /\ SaysLive(w, "running")

-----------------------------------------------------------------------------
(* Interrupting.                                                           *)

(* interrupt() returns.                                                    *)
Leaves(w) ==
  /\ Goto(w, "idle")
  /\ my' = [my EXCEPT ![w] = Nowhere]
  /\ swapped' = [swapped EXCEPT ![w] = FALSE]

(* interrupt(): the incarnation, then the cell.                            *)
Interrupt(w) ==
  /\ At(w, "idle")
  /\ my' = [my EXCEPT ![w].entry =
              IF kernel \in {"leaving", "unowned", "rotated"} THEN 0 ELSE inc]
  /\ said' = [said EXCEPT ![w] = Silence]
  /\ Goto(w, "ask")
  /\ UNCHANGED <<kernelVars, cellVars, live, kept, served, swapped>>

(* The target stands: the request, and after it more looks, then SIGINT.   *)
Onward(w) ==
  /\ IF my[w].sent THEN \E next \in {"look", "verify"} : Goto(w, next)
     ELSE Goto(w, "request")
  /\ swapped' = [swapped EXCEPT ![w] = FALSE]

(* is_busy() holds no lock here and looks three times: at the cell that    *)
(* current.json names, at the marker, and at what tells that this one has  *)
(* had its day; then it unlinks pending.json by name.  Asked first, it     *)
(* captures the target; asked again, about a cell that has no number yet,  *)
(* it says whether anything is under way.                                  *)
Told(w, cell) ==
  /\ my' = [my EXCEPT ![w] =
       [my[w] EXCEPT !.seen = 0, !.stamp = 0,
                     !.target = IF my[w].target = 0 THEN cell ELSE my[w].target]]
  /\ IF my[w].target # 0 THEN Onward(w)
     ELSE Goto(w, "look") /\ swapped' = [swapped EXCEPT ![w] = FALSE]
FindsInFlight(w) ==
  /\ At(w, "ask")
  /\ current # 0 /\ ~Recorded(current) /\ MaybeAlive
  /\ Told(w, current)
  /\ UNCHANGED <<kernelVars, cellVars, live, kept, served, said>>
FindsNoneInFlight(w) ==
  /\ At(w, "ask")
  /\ current = 0 \/ Recorded(current) \/ KnownDead
  /\ Moves(w, "pending")
  /\ UNCHANGED <<kernelVars, cellVars>>
ReadsMarker(w) ==
  /\ At(w, "pending")
  /\ IF marker = 0 THEN Leaves(w)
     ELSE /\ my' = [my EXCEPT ![w] = [@ EXCEPT !.seen = marker, !.stamp = inc]]
          /\ swapped' = [swapped EXCEPT ![w] = FALSE]
          /\ Goto(w, "judge")
  /\ UNCHANGED <<kernelVars, cellVars, live, kept, served, said>>

(* _pending_discharged: of marker m, written under the kernel inc.         *)
DischargedByAny(m, i) ==               \* mutant: any other cell shown will do
  \/ kernel \in {"up", "booting", "down"} /\ inc # i
  \/ m \in Cells /\ current # m
Discharged(m, i) ==
  \/ kernel \in {"up", "booting", "down"} /\ inc # i
  \/ m \in Cells /\ (Recorded(m) \/ current > m)
JudgesGone(w) ==
  /\ At(w, "judge")
  /\ KnownDead \/ Discharged(my[w].seen, my[w].stamp)
  /\ my' = [my EXCEPT ![w] = [Nowhere EXCEPT !.doubt = KnownDead /\ Alive]]
  /\ Goto(w, "discard")
  /\ UNCHANGED <<kernelVars, cellVars, live, kept, served, said, swapped>>
JudgesStanding(w) ==
  /\ At(w, "judge")
  /\ MaybeAlive /\ ~Discharged(my[w].seen, my[w].stamp)
  /\ Told(w, my[w].seen)
  /\ UNCHANGED <<kernelVars, cellVars, live, kept, served, said>>
Discards(w) ==
  /\ At(w, "discard")
  /\ marker' = 0
  /\ swapped' = [u \in Callers |-> u # w /\ (swapped[u] \/ pc[u] \in Judging)]
  /\ Goto(w, "idle")
  /\ my' = [my EXCEPT ![w] = Nowhere]
  /\ UNCHANGED <<kernel, inc, queued, running, current, cellVars, live, kept,
                 served, said>>

(* _target_stands: is the captured cell still the one worked on?           *)
Stands(w) ==
  LET t == my[w].target IN
  ~Recorded(t) /\ (current \in {0, t} \/ Recorded(current))

(* Before the request, in the grace and after it.                          *)
Checks(w) ==
  /\ At(w, "look")
  /\ CASE my[w].target = Unnamed -> Goto(w, "ask") /\ UNCHANGED <<my, swapped>>
       [] my[w].target # Unnamed /\ Stands(w) -> Onward(w) /\ UNCHANGED my
       [] OTHER -> Leaves(w)
  /\ UNCHANGED <<kernelVars, cellVars, live, kept, served, said>>

(* interrupt_request reaches whatever kernel the connection file names, or *)
(* fails.                                                                  *)
Requests(w) ==
  /\ At(w, "request")
  /\ my' = [my EXCEPT ![w].sent = TRUE]
  /\ Goto(w, "look")
  /\ UNCHANGED <<kernelVars, cellVars, live, kept, served, said, swapped>>

(* The fallback is for the kernel of the entry alone.  From here on entry  *)
(* is the pid that was read.                                               *)
SameOwner(w) == Alive /\ inc = my[w].entry
TrustsOwner(w) ==                      \* mutant: whoever is the owner now
  /\ At(w, "verify")
  /\ my' = [my EXCEPT ![w].entry = inc] /\ Goto(w, "kill") /\ UNCHANGED swapped
  /\ UNCHANGED <<kernelVars, cellVars, live, kept, served, said>>
VerifiesOwner(w) ==
  /\ At(w, "verify")
  /\ \/ SameOwner(w) /\ Goto(w, "kill") /\ UNCHANGED <<my, swapped>>
     \/ Leaves(w)         \* also when the identity cannot be read
  /\ UNCHANGED <<kernelVars, cellVars, live, kept, served, said>>
(* SIGINT to that pid.                                                     *)
Kills(w) ==
  /\ At(w, "kill")
  /\ Leaves(w)
  /\ UNCHANGED <<kernelVars, cellVars, live, kept, served, said>>

-----------------------------------------------------------------------------
Waits(w) ==
  \/ LooksForRecord(w) \/ SaysDone(w) \/ LooksForLog(w) \/ LooksForLife(w)
  \/ LooksForMarker(w) \/ FindsDead(w) \/ FindsNotDead(w)
  \/ SettlesByRecord(w) \/ SettlesByArchive(w) \/ SaysLastWords(w)
  \/ Scans(w) \/ Matches(w) \/ PollsAgain(w)

Stops(w) ==
  \/ FindsInFlight(w) \/ FindsNoneInFlight(w) \/ ReadsMarker(w)
  \/ JudgesGone(w) \/ JudgesStanding(w) \/ Discards(w)
  \/ Checks(w) \/ Requests(w) \/ VerifiesOwner(w) \/ Kills(w)

Kernel ==
  \/ Submit \/ Acknowledge \/ Begin \/ Publish \/ Unmark \/ Write \/ Finish
  \/ Die \/ Expire \/ Exit \/ Disown \/ Rotate \/ Spawn \/ Ready

Next ==
  \/ Kernel
  \/ \E w \in Callers :
       Call(w) \/ Interrupt(w) \/ Waits(w) \/ Expires(w) \/ Stops(w)

(* A caller that polls keeps polling, and does not fail for ever to read   *)
(* the identity of a dead kernel.  No deadline is relied on, nor anything  *)
(* of the kernel or of those who restart it.                               *)
Fairness == \A w \in Callers :
  WF_vars(Waits(w)) /\ SF_vars(FindsDead(w))

Spec == Init /\ [][Next]_vars /\ Fairness

-----------------------------------------------------------------------------
(* What is promised.                                                       *)

Polling == {"record", "output", "log", "alive", "marker", "death", "settle",
            "archive", "lastwords", "scan", "match", "late"}
Stopping == {"ask", "pending", "judge", "discard", "look", "request", "verify",
             "kill"}

(* Shapes, and what the files say of one another: a record has a log, the  *)
(* cell that runs has none yet, and nothing runs in a kernel that is down. *)
TypeOK ==
  /\ kernel \in {"up", "down", "unowned", "rotated", "booting", "leaving"}
  /\ inc \in 0..MaxInc
  /\ queued \in 0..MaxCell /\ running \in 0..MaxCell
  /\ current \in 0..MaxCell /\ marker \in 0..Unnamed
  /\ place \in [Cells -> {"none", "live", "prev", "older"}]
  /\ out \in [Cells -> 0..MaxOut]
  /\ records \subseteq {c \in Cells : place[c] # "none"}
  /\ live \in [Callers -> [Cells -> 0..NoMark]]
  /\ kept \in [Callers -> [Cells -> 0..NoMark]]
  /\ served \in [Callers -> [Cells -> 0..MaxOut]]
  /\ pc \in [Callers -> {"idle"} \union Polling \union Stopping]
  /\ \A w \in Callers :
       /\ my[w].cell \in 0..Unnamed /\ my[w].target \in 0..Unnamed
       /\ my[w].off \in 0..MaxOut /\ my[w].scan \in my[w].off..MaxOut
       /\ pc[w] \in Polling => my[w].cell \in Cells
       /\ said[w].kind \in {"none", "done", "ended", "died", "running", "notfound"}
  /\ swapped \in [Callers -> BOOLEAN]
  /\ ~Alive => running = 0 /\ (kernel # "leaving" => queued = 0)
  /\ running # 0 => Live(running) /\ running \notin records

(* An answer is the truth about the cell the caller asked for.  Completed  *)
(* with a record: there is one.  KernelDied or "the epoch ended": it left  *)
(* none and runs no more.  The output of either goes to the end of the log *)
(* or is a whole chunk.  NotFound: the cell had no log when the call was   *)
(* made.  Not promised: KernelDied from a kernel that had no ready file    *)
(* yet (doubt), the output of a cell whose log is rotated between the two  *)
(* reads of _settle_dead, and what a number that stood for no cell yet     *)
(* comes to mean during the call.                                          *)
Answered(w) == said'[w] # said[w] /\ said'[w].kind # "none"
Torn(w) == At(w, "lastwords") /\ ~Live(Cell(w))
AnswersTrue == [][\A w \in Callers : Answered(w) =>
  LET a == said'[w]
      whole == a.to \in {out[a.cell], a.from + Chunk} \/ Torn(w)
  IN /\ a.kind = "done" => a.cell \in records /\ whole
     /\ a.kind \in {"died", "ended"} /\ my[w].logged =>
          \/ a.cell \notin records /\ a.cell # running /\ whole
          \/ a.kind = "died" /\ my[w].doubt
     /\ a.kind = "notfound" => ~my[w].logged]_vars

(* An implicit request resumes where this caller was last served: no byte  *)
(* comes twice and none is left out, though a restart moves the cursor     *)
(* with the log.  Not promised: a log that a second restart has aged, whose*)
(* archive keeps the cursor of the first.                                  *)
NothingTwice == [][\A w \in Callers :
  Answered(w) /\ my[w].implicit /\ said'[w].kind # "notfound"
  /\ place[said'[w].cell] # "older"
    => said'[w].from = served[w][said'[w].cell]]_vars

(* An interrupt hits the cell it was meant for or one that began after the *)
(* last look at it - the residue the code states; the request alone may    *)
(* also reach a kernel that replaced the one it was meant for.  A target   *)
(* that had no number yet is not told from another.                        *)
Hit(w) == running \in {0, my[w].target} \/ swapped[w] \/ my[w].target = Unnamed
StruckAsMeant == [][\A w \in Callers :
  /\ At(w, "request") /\ pc'[w] = "look" /\ inc = my[w].entry => Hit(w)
  /\ At(w, "kill") /\ pc'[w] = "idle" /\ inc = my[w].entry => Hit(w)]_vars

(* A wait for a cell that is over - it has its record, or its kernel is    *)
(* dead, or a restart has archived it - ends long before its deadline.     *)
(* A cell that is over stays so: what does not last is the wait for it.    *)
WaitEnds == \A w \in Callers :
  []<>~(pc[w] \in Polling /\ place[Cell(w)] # "none" /\ running # Cell(w))

Logged == {c \in Cells : place[c] # "none"}
Terminal == {c \in Cells : Recorded(c)}
F == INSTANCE Feed WITH held <- Alive /\ (queued # 0 \/ running # 0),
                        marked <- marker # 0,
                        named <- IF marker \in Cells THEN marker ELSE 0,
                        logs <- Logged, shown <- current, done <- Terminal

(* What this module takes for granted of kernels and submitters is what    *)
(* Admission keeps (Feed.tla), and its own is_busy() (_pending_discharged) *)
(* takes the marker from a request that needs it in two ways alone: by the *)
(* verdict on a marker that is not the one it unlinks any more, and by the *)
(* verdict that a kernel without its ready file is dead.  What follows     *)
(* while such a request is without its marker is not promised.             *)
Stripped == Needed /\ marker = 0
Mistaken ==
  \/ marker' = 0 /\ kernel = "booting"
  \/ \E w \in Callers :
       At(w, "discard") /\ pc'[w] = "idle" /\ (swapped[w] \/ my[w].doubt)
FeedSpec == F!Init /\ [][Stripped \/ Mistaken \/ F!Next]_(F!fvars)
=============================================================================

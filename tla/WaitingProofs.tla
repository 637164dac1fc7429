--------------------------- MODULE WaitingProofs ---------------------------
(***************************************************************************)
(* What a caller is told of a cell is true, an implicit wait resumes where *)
(* the caller was last served, and an interrupt hits what it was meant     *)
(* for: for any number of callers, cells and restarts.                     *)
(*                                                                         *)
(* Cells only age: a record stays, a log moves from cells/ to the archives *)
(* and never back.  So what a caller found earlier in its call it still    *)
(* knows when it answers (Knows): that the record is there, or that the    *)
(* cell ran in a kernel that has died since.  The cursors of a cell, in    *)
(* cells/ or beside the archived log, are where the caller was served      *)
(* (Marks), and the call in progress started there (Resumes).  One cell at *)
(* most is in flight (Flight), so the captured one, if it is not recorded, *)
(* is that one unless another began since the last look (Aims).            *)
(*                                                                         *)
(* What all this takes for granted of kernels and submitters is no more    *)
(* than Feed.tla allows them (FeedsOnIt), and that is what Admission keeps *)
(* (AdmissionProofs!Feeds); an is_busy() of an interrupter takes the       *)
(* marker of a request that needs it only by a verdict that had gone stale *)
(* or that took a kernel without its ready file for dead.                  *)
(***************************************************************************)
EXTENDS Waiting, TLAPS

Calls == [cell : 0..MaxCell, implicit : BOOLEAN, off : 0..MaxOut, scan : 0..MaxOut,
          rec : BOOLEAN, logged : BOOLEAN, doubt : BOOLEAN, entry : 0..MaxInc,
          target : 0..Unnamed, sent : BOOLEAN, seen : 0..Unnamed, stamp : 0..MaxInc]
Answers == [cell : 0..MaxCell,
            kind : {"none", "done", "ended", "died", "running", "notfound"},
            from : 0..MaxOut, to : 0..MaxOut]

KernelOK ==
  /\ kernel \in {"up", "down", "unowned", "rotated", "booting", "leaving"}
  /\ inc \in 0..MaxInc
  /\ queued \in 0..MaxCell /\ running \in 0..MaxCell
  /\ current \in 0..MaxCell /\ marker \in 0..Unnamed
  /\ ~Alive => running = 0 /\ (kernel # "leaving" => queued = 0)
FilesOK ==
  /\ place \in [Cells -> {"none", "live", "prev", "older"}]
  /\ out \in [Cells -> 0..MaxOut]
  /\ records \subseteq {c \in Cells : place[c] # "none"}
  /\ \A c \in Cells : place[c] = "none" => out[c] = 0
  /\ queued # 0 => place[queued] = "none"
  /\ running # 0 => Live(running) /\ running \notin records
  /\ current # 0 => Live(current)
BooksOK ==
  /\ live \in [Callers -> [Cells -> 0..NoMark]]
  /\ kept \in [Callers -> [Cells -> 0..NoMark]]
  /\ served \in [Callers -> [Cells -> 0..MaxOut]]
  /\ pc \in [Callers -> {"idle"} \union Polling \union Stopping]
  /\ my \in [Callers -> Calls] /\ said \in [Callers -> Answers]
  /\ swapped \in [Callers -> BOOLEAN]

Working == Alive \/ kernel = "leaving"
Flight ==
  /\ queued = 0 \/ running = 0
  /\ kernel = "rotated" => current = 0 /\ marker = 0
  /\ Working =>
       /\ current \notin {0, running} => current \in records
       /\ marker \in Cells =>
            /\ queued \in {0, marker} /\ running \in {0, marker}
            /\ marker \in {queued, running} \/ Recorded(marker)

Marks(w) == \A c \in Cells :
  /\ served[w][c] <= out[c]
  /\ live[w][c] # NoMark => live[w][c] = served[w][c]
  /\ live[w][c] = NoMark =>
       /\ place[c] \in {"none", "live"} => served[w][c] = 0
       /\ place[c] = "prev" =>
            served[w][c] = IF kept[w][c] = NoMark THEN 0 ELSE kept[w][c]

Within(w) ==
  /\ my[w].off <= my[w].scan
  /\ Cell(w) = 0 => my[w].scan = 0
  /\ Cell(w) # 0 => my[w].scan <= out[Cell(w)]
  /\ pc[w] \in Polling => Cell(w) # 0

Over == {"settle", "archive", "lastwords"}
Knows(w) ==
  /\ my[w].logged => Cell(w) # 0 /\ place[Cell(w)] # "none"
  /\ pc[w] \in {"alive", "marker"} => ~my[w].logged
  /\ pc[w] = "output" \/ my[w].rec => Cell(w) \in records
  /\ my[w].logged /\ ~my[w].doubt =>
       /\ pc[w] \in Over => Cell(w) # running
       /\ pc[w] = "archive" /\ Live(Cell(w)) => Cell(w) \notin records
       /\ pc[w] = "lastwords" /\ ~my[w].rec => Cell(w) \notin records

Resumes(w) ==
  pc[w] \in Polling /\ my[w].implicit =>
    \/ served[w][Cell(w)] = my[w].off
    \/ /\ pc[w] \in {"record", "log"} /\ my[w].off = 0
       /\ Archived(Cell(w)) /\ live[w][Cell(w)] = NoMark

Captured == {"look", "request", "verify", "kill"}
(* The one cell there can be, or one that has had its turn.                *)
Stood(c) == Working /\ c \in Cells => c \in {queued, running} \/ Recorded(c)
Aims(w) ==
  /\ my[w].entry <= inc /\ my[w].stamp <= inc
  /\ pc[w] \in {"idle", "ask", "pending", "judge"} => my[w].target \in {0, Unnamed}
  /\ pc[w] = "judge" =>
       my[w].seen # 0 /\ (my[w].stamp = inc => Stood(my[w].seen))
  /\ pc[w] \in Captured =>
       my[w].target # 0 /\ (my[w].entry = inc => Hit(w) /\ Stood(my[w].target))

Each(w) == Marks(w) /\ Within(w) /\ Knows(w) /\ Resumes(w) /\ Aims(w)
IInv == KernelOK /\ FilesOK /\ BooksOK /\ Flight /\ \A w \in Callers : Each(w)

-----------------------------------------------------------------------------
LEMMA Sizes ==
  /\ MaxCell \in Nat /\ MaxOut \in Nat /\ MaxInc \in Nat \ {0} /\ Chunk \in Nat \ {0}
  /\ Cells = 1..MaxCell /\ Unnamed = MaxCell + 1 /\ NoMark = MaxOut + 1
BY WaitingAssumption DEF Cells, Unnamed, NoMark

LEMMA Stages ==
  /\ Captured \intersect Polling = {} /\ Captured \subseteq Stopping
  /\ "idle" \notin Polling \union Stopping
  /\ Stopping \intersect Polling = {} /\ Over \subseteq Polling
BY DEF Captured, Polling, Stopping, Over

LEMMA NowhereOK == Nowhere \in Calls /\ Silence \in Answers
BY Sizes DEF Nowhere, Calls, Silence, Answers

LEMMA Fields ==
  ASSUME IInv, NEW w \in Callers
  PROVE  /\ my[w].cell \in 0..MaxCell /\ my[w].target \in 0..Unnamed
         /\ my[w].off \in 0..MaxOut /\ my[w].scan \in 0..MaxOut
         /\ my[w].entry \in 0..MaxInc /\ my[w].stamp \in 0..MaxInc
         /\ my[w].seen \in 0..Unnamed /\ my[w].sent \in BOOLEAN
         /\ my[w].rec \in BOOLEAN /\ my[w].logged \in BOOLEAN
         /\ my[w].implicit \in BOOLEAN /\ my[w].doubt \in BOOLEAN
         /\ said[w].kind \in {"none", "done", "ended", "died", "running", "notfound"}
<1>1. my[w] \in Calls /\ said[w] \in Answers
  BY DEF IInv, BooksOK
<1> QED
  BY <1>1 DEF Calls, Answers

LEMMA Known ==
  ASSUME IInv, NEW w \in Callers
  PROVE  my[w] \in Calls
BY DEF IInv, BooksOK

LEMMA Typing == IInv => TypeOK
<1> SUFFICES ASSUME IInv PROVE TypeOK
  OBVIOUS
<1>1. ASSUME NEW w \in Callers
      PROVE  /\ my[w].cell \in 0..Unnamed /\ my[w].target \in 0..Unnamed
             /\ my[w].off \in 0..MaxOut /\ my[w].scan \in my[w].off..MaxOut
             /\ pc[w] \in Polling => my[w].cell \in Cells
             /\ said[w].kind \in {"none", "done", "ended", "died", "running", "notfound"}
  <2>1. my[w].off <= my[w].scan /\ (pc[w] \in Polling => my[w].cell # 0)
    BY DEF IInv, Each, Within, Cell
  <2> QED
    BY <2>1, Fields, Sizes
<1> QED
  BY <1>1 DEF IInv, KernelOK, FilesOK, BooksOK, TypeOK

LEMMA Starting == Init => IInv
<1> SUFFICES ASSUME Init PROVE IInv
  OBVIOUS
<1> USE Sizes DEF Init
<1>1. KernelOK /\ FilesOK /\ Flight
  BY DEF KernelOK, FilesOK, Flight
<1>2. BooksOK
  BY NowhereOK DEF BooksOK
<1>3. ASSUME NEW w \in Callers PROVE Each(w)
  <2>1. Marks(w)
    BY DEF Marks
  <2>2. Within(w) /\ Knows(w) /\ Resumes(w)
    BY Stages DEF Within, Knows, Resumes, Cell, Nowhere, Over
  <2>3. Aims(w)
    BY DEF Aims, Nowhere, Captured
  <2> QED
    BY <2>1, <2>2, <2>3 DEF Each
<1> QED
  BY <1>1, <1>2, <1>3 DEF IInv

-----------------------------------------------------------------------------
(* A step of one caller touches nothing of the others, and of the shared   *)
(* state at most the marker, which is_busy() unlinks.                      *)
Acts(w) == Call(w) \/ Interrupt(w) \/ Waits(w) \/ Expires(w) \/ Stops(w)

Apart(w) ==
  /\ UNCHANGED <<kernel, inc, queued, running, current, place, out, records, kept>>
  /\ marker' \in {0, marker}
  /\ \A u \in Callers \ {w} :
       /\ pc'[u] = pc[u] /\ my'[u] = my[u] /\ said'[u] = said[u]
       /\ live'[u] = live[u] /\ served'[u] = served[u]
       /\ swapped'[u] = (swapped[u] \/ (At(w, "discard") /\ pc[u] \in Judging))

LEMMA ActsAlone ==
  ASSUME IInv, NEW w \in Callers, Acts(w)
  PROVE  Apart(w)
<1> USE DEF IInv, BooksOK, Apart, At, kernelVars, cellVars
<1>1. ASSUME Call(w) PROVE Apart(w)
  BY <1>1 DEF Call, Goto, Starts
<1>2. ASSUME Interrupt(w) PROVE Apart(w)
  BY <1>2 DEF Interrupt, Goto
<1>3. ASSUME LooksForRecord(w) PROVE Apart(w)
  BY <1>3 DEF LooksForRecord, Moves, Goto
<1>4. ASSUME SaysDone(w) PROVE Apart(w)
  BY <1>4 DEF SaysDone, SaysLive, SaysArchived, Says, Saves, Goto
<1>5. ASSUME LooksForLog(w) PROVE Apart(w)
  BY <1>5 DEF LooksForLog, SaysArchived, Says, Saves, Moves, Goto
<1>6. ASSUME LooksForLife(w) PROVE Apart(w)
  BY <1>6 DEF LooksForLife, Moves, Goto
<1>7. ASSUME LooksForMarker(w) PROVE Apart(w)
  BY <1>7 DEF LooksForMarker, Says, Moves, Goto
<1>8. ASSUME FindsDead(w) PROVE Apart(w)
  BY <1>8 DEF FindsDead, Moves, Goto
<1>9. ASSUME FindsNotDead(w) PROVE Apart(w)
  BY <1>9 DEF FindsNotDead, Moves, Goto
<1>10. ASSUME SettlesByRecord(w) PROVE Apart(w)
  BY <1>10 DEF SettlesByRecord, Goto
<1>11. ASSUME SettlesByArchive(w) PROVE Apart(w)
  BY <1>11 DEF SettlesByArchive, SaysArchived, Says, Saves, Moves, Goto
<1>12. ASSUME SaysLastWords(w) PROVE Apart(w)
  BY <1>12 DEF SaysLastWords, Says, Goto
<1>13. ASSUME Scans(w) PROVE Apart(w)
  BY <1>13 DEF Scans, Goto
<1>14. ASSUME Matches(w) PROVE Apart(w)
  BY <1>14 DEF Matches, Says, Saves, Moves, Goto
<1>15. ASSUME PollsAgain(w) PROVE Apart(w)
  BY <1>15 DEF PollsAgain, Moves, Goto
<1>16. ASSUME Expires(w) PROVE Apart(w)
  BY <1>16 DEF Expires, SaysLive, Says, Saves, Goto
<1>17. ASSUME Requests(w) PROVE Apart(w)
  BY <1>17 DEF Requests, Goto
<1>18. ASSUME Checks(w) PROVE Apart(w)
  BY <1>18 DEF Checks, Onward, Leaves, Goto
<1>19. ASSUME VerifiesOwner(w) PROVE Apart(w)
  BY <1>19 DEF VerifiesOwner, Leaves, Goto
<1>20. ASSUME Kills(w) PROVE Apart(w)
  BY <1>20 DEF Kills, Leaves, Goto
<1>21. ASSUME FindsInFlight(w) PROVE Apart(w)
  BY <1>21 DEF FindsInFlight, Told, Onward, Goto
<1>22. ASSUME FindsNoneInFlight(w) PROVE Apart(w)
  BY <1>22 DEF FindsNoneInFlight, Moves, Goto
<1>23. ASSUME ReadsMarker(w) PROVE Apart(w)
  BY <1>23 DEF ReadsMarker, Leaves, Goto
<1>24. ASSUME JudgesGone(w) PROVE Apart(w)
  BY <1>24 DEF JudgesGone, Goto
<1>25. ASSUME JudgesStanding(w) PROVE Apart(w)
  BY <1>25 DEF JudgesStanding, Told, Onward, Goto
<1>26. ASSUME Discards(w) PROVE Apart(w)
  BY <1>26 DEF Discards, Goto
<1> QED
  BY <1>1, <1>2, <1>3, <1>4, <1>5, <1>6, <1>7, <1>8, <1>9, <1>10, <1>11, <1>12, <1>13,
     <1>14, <1>15, <1>16, <1>17, <1>18, <1>19, <1>20, <1>21, <1>22, <1>23, <1>24, <1>25,
     <1>26 DEF Acts, Waits, Stops
-----------------------------------------------------------------------------
(* The kernel's side.                                                      *)

LEMMA OutGrows ==
  ASSUME IInv, Write, NEW c \in Cells
  PROVE  out[c] \in Nat /\ out'[c] \in Nat /\ out[c] <= out'[c]
<1>1. out \in [Cells -> 0..MaxOut] /\ out' = [out EXCEPT ![running] = out[running] + 1]
  BY DEF IInv, FilesOK, Write
<1>2. out[c] \in Nat
  BY <1>1, Sizes
<1>3. CASE c = running
  BY <1>1, <1>2, <1>3
<1>4. CASE c # running
  BY <1>1, <1>2, <1>4
<1> QED
  BY <1>2, <1>3, <1>4

LEMMA BeginsNew ==
  ASSUME IInv, Begin, NEW c \in Cells, place[c] # "none"
  PROVE  c # queued /\ place'[c] = place[c]
<1>1. queued # 0 /\ place' = [place EXCEPT ![queued] = "live"] /\ place[queued] = "none"
  BY DEF Begin, IInv, FilesOK
<1>2. place \in [Cells -> {"none", "live", "prev", "older"}]
  BY DEF IInv, FilesOK
<1> QED
  BY <1>1, <1>2

LEMMA KernelKept ==
  ASSUME IInv, Kernel
  PROVE  KernelOK'
<1> USE Sizes DEF IInv, Alive, Needed, KernelOK, FilesOK, kernelVars, cellVars, callerVars, Unheard,
       Remark
<1>1. ASSUME Submit PROVE KernelOK'
  BY <1>1 DEF Submit
<1>2. ASSUME Acknowledge PROVE KernelOK'
  BY <1>2 DEF Acknowledge
<1>3. ASSUME Begin PROVE KernelOK'
  BY <1>3 DEF Begin
<1>4. ASSUME Publish PROVE KernelOK'
  BY <1>4 DEF Publish
<1>5. ASSUME Unmark PROVE KernelOK'
  BY <1>5 DEF Unmark
<1>6. ASSUME Write PROVE KernelOK'
  BY <1>6 DEF Write
<1>7. ASSUME Finish PROVE KernelOK'
  BY <1>7 DEF Finish
<1>8. ASSUME Die PROVE KernelOK'
  BY <1>8 DEF Die
<1>9. ASSUME Expire PROVE KernelOK'
  BY <1>9 DEF Expire
<1>10. ASSUME Exit PROVE KernelOK'
  BY <1>10 DEF Exit
<1>11. ASSUME Disown PROVE KernelOK'
  BY <1>11 DEF Disown
<1>12. ASSUME Rotate PROVE KernelOK'
  BY <1>12 DEF Rotate
<1>13. ASSUME Spawn PROVE KernelOK'
  BY <1>13 DEF Spawn
<1>14. ASSUME Ready PROVE KernelOK'
  BY <1>14 DEF Ready
<1> QED
  BY <1>1, <1>2, <1>3, <1>4, <1>5, <1>6, <1>7, <1>8, <1>9, <1>10, <1>11, <1>12, <1>13, <1>14
     DEF Kernel

LEMMA FilesKept ==
  ASSUME IInv, Kernel
  PROVE  FilesOK'
<1> USE Sizes DEF IInv, Alive, KernelOK, FilesOK, Live, kernelVars, cellVars,
       callerVars, Unheard, Remark
<1>1. ASSUME Submit PROVE FilesOK'
  BY <1>1 DEF Submit
<1>2. ASSUME Acknowledge PROVE FilesOK'
  BY <1>2 DEF Acknowledge
<1>3. ASSUME Begin PROVE FilesOK'
  BY <1>3 DEF Begin
<1>4. ASSUME Publish PROVE FilesOK'
  BY <1>4 DEF Publish
<1>5. ASSUME Unmark PROVE FilesOK'
  BY <1>5 DEF Unmark
<1>6. ASSUME Write PROVE FilesOK'
  BY <1>6 DEF Write
<1>7. ASSUME Finish PROVE FilesOK'
  BY <1>7 DEF Finish
<1>8. ASSUME Die PROVE FilesOK'
  BY <1>8 DEF Die
<1>9. ASSUME Expire PROVE FilesOK'
  BY <1>9 DEF Expire
<1>10. ASSUME Exit PROVE FilesOK'
  BY <1>10 DEF Exit
<1>11. ASSUME Disown PROVE FilesOK'
  BY <1>11 DEF Disown
<1>12. ASSUME Rotate PROVE FilesOK'
  BY <1>12 DEF Rotate
<1>13. ASSUME Spawn PROVE FilesOK'
  BY <1>13 DEF Spawn
<1>14. ASSUME Ready PROVE FilesOK'
  BY <1>14 DEF Ready
<1> QED
  BY <1>1, <1>2, <1>3, <1>4, <1>5, <1>6, <1>7, <1>8, <1>9, <1>10, <1>11, <1>12, <1>13, <1>14
     DEF Kernel

LEMMA BooksKept ==
  ASSUME IInv, Kernel
  PROVE  BooksOK'
<1> USE Sizes, NowhereOK DEF IInv, BooksOK, kernelVars, cellVars, callerVars, Unheard,
       Remark
<1>1. ASSUME Submit PROVE BooksOK'
  BY <1>1 DEF Submit
<1>2. ASSUME Acknowledge PROVE BooksOK'
  BY <1>2 DEF Acknowledge
<1>3. ASSUME Begin PROVE BooksOK'
  BY <1>3 DEF Begin
<1>4. ASSUME Publish PROVE BooksOK'
  BY <1>4 DEF Publish
<1>5. ASSUME Unmark PROVE BooksOK'
  BY <1>5 DEF Unmark
<1>6. ASSUME Write PROVE BooksOK'
  BY <1>6 DEF Write
<1>7. ASSUME Finish PROVE BooksOK'
  BY <1>7 DEF Finish
<1>8. ASSUME Die PROVE BooksOK'
  BY <1>8 DEF Die
<1>9. ASSUME Expire PROVE BooksOK'
  BY <1>9 DEF Expire
<1>10. ASSUME Exit PROVE BooksOK'
  BY <1>10 DEF Exit
<1>11. ASSUME Disown PROVE BooksOK'
  BY <1>11 DEF Disown
<1>12. ASSUME Rotate PROVE BooksOK'
  BY <1>12 DEF Rotate
<1>13. ASSUME Spawn PROVE BooksOK'
  BY <1>13 DEF Spawn
<1>14. ASSUME Ready PROVE BooksOK'
  BY <1>14 DEF Ready
<1> QED
  BY <1>1, <1>2, <1>3, <1>4, <1>5, <1>6, <1>7, <1>8, <1>9, <1>10, <1>11, <1>12, <1>13, <1>14
     DEF Kernel

LEMMA FlightKept ==
  ASSUME IInv, Kernel
  PROVE  Flight'
<1> USE Sizes DEF IInv, Alive, Working, Needed, KernelOK, FilesOK, Flight, Live, Recorded, kernelVars,
       cellVars, callerVars, Unheard, Remark
<1>1. ASSUME Submit PROVE Flight'
  BY <1>1 DEF Submit
<1>2. ASSUME Acknowledge PROVE Flight'
  BY <1>2 DEF Acknowledge
<1>3. ASSUME Begin PROVE Flight'
  BY <1>3 DEF Begin
<1>4. ASSUME Publish PROVE Flight'
  BY <1>4 DEF Publish
<1>5. ASSUME Unmark PROVE Flight'
  BY <1>5 DEF Unmark
<1>6. ASSUME Write PROVE Flight'
  BY <1>6 DEF Write
<1>7. ASSUME Finish PROVE Flight'
  BY <1>7 DEF Finish
<1>8. ASSUME Die PROVE Flight'
  BY <1>8 DEF Die
<1>9. ASSUME Expire PROVE Flight'
  BY <1>9 DEF Expire
<1>10. ASSUME Exit PROVE Flight'
  BY <1>10 DEF Exit
<1>11. ASSUME Disown PROVE Flight'
  BY <1>11 DEF Disown
<1>12. ASSUME Rotate PROVE Flight'
  BY <1>12 DEF Rotate
<1>13. ASSUME Spawn PROVE Flight'
  BY <1>13 DEF Spawn
<1>14. ASSUME Ready PROVE Flight'
  BY <1>14 DEF Ready
<1> QED
  BY <1>1, <1>2, <1>3, <1>4, <1>5, <1>6, <1>7, <1>8, <1>9, <1>10, <1>11, <1>12, <1>13, <1>14
     DEF Kernel

LEMMA MarksKept ==
  ASSUME IInv, Kernel, NEW w \in Callers
  PROVE  Marks(w)'
<1> USE Sizes, Stages DEF KernelOK, FilesOK, BooksOK, Marks, Live, kernelVars,
       cellVars, callerVars, Unheard, Remark
<1>1. IInv /\ KernelOK /\ FilesOK /\ BooksOK /\ Flight /\ Within(w) /\ Marks(w)
  BY DEF IInv, Each
<1>2. ASSUME Submit PROVE Marks(w)'
  BY <1>1, <1>2 DEF Submit
<1>3. ASSUME Acknowledge PROVE Marks(w)'
  BY <1>1, <1>3 DEF Acknowledge
<1>4. ASSUME Begin PROVE Marks(w)'
  BY <1>1, <1>4 DEF Begin
<1>5. ASSUME Publish PROVE Marks(w)'
  BY <1>1, <1>5 DEF Publish
<1>6. ASSUME Unmark PROVE Marks(w)'
  BY <1>1, <1>6 DEF Unmark
<1>7. ASSUME Write PROVE Marks(w)'
  <2>1. \A c \in Cells : out[c] \in Nat /\ out'[c] \in Nat /\ out[c] <= out'[c]
    BY <1>1, <1>7, OutGrows
  <2>2. UNCHANGED <<live, kept, served, place>>
    BY <1>7 DEF Write
  <2>3. \A c \in Cells : served[w][c] \in Nat
    BY <1>1
  <2>4. \A c \in Cells : served[w][c] <= out[c]
    BY <1>1
  <2>5. \A c \in Cells : served[w][c] <= out'[c]
    BY <2>1, <2>3, <2>4
  <2> QED
    BY <1>1, <2>2, <2>5
<1>8. ASSUME Finish PROVE Marks(w)'
  BY <1>1, <1>8 DEF Finish
<1>9. ASSUME Die PROVE Marks(w)'
  BY <1>1, <1>9 DEF Die
<1>10. ASSUME Expire PROVE Marks(w)'
  BY <1>1, <1>10 DEF Expire
<1>11. ASSUME Exit PROVE Marks(w)'
  BY <1>1, <1>11 DEF Exit
<1>12. ASSUME Disown PROVE Marks(w)'
  BY <1>1, <1>12 DEF Disown
<1>13. ASSUME Rotate PROVE Marks(w)'
  <2> SUFFICES ASSUME NEW c \in Cells
               PROVE  /\ served'[w][c] <= out'[c]
                      /\ live'[w][c] = NoMark
                      /\ place'[c] \in {"none", "live"} => served'[w][c] = 0
                      /\ place'[c] = "prev" => served'[w][c] =
                           IF kept'[w][c] = NoMark THEN 0 ELSE kept'[w][c]
    OBVIOUS
  <2>1. /\ UNCHANGED <<served, out>> /\ live'[w][c] = NoMark
        /\ kept'[w][c] = IF place[c] = "live" THEN live[w][c] ELSE kept[w][c]
        /\ place'[c] = IF place[c] = "live" THEN "prev"
                       ELSE IF place[c] = "prev" THEN "older" ELSE place[c]
    BY <1>13 DEF Rotate
  <2>2. /\ served[w][c] <= out[c] /\ place[c] \in {"none", "live", "prev", "older"}
        /\ served[w][c] \in 0..MaxOut /\ (place[c] = "none" => out[c] = 0)
        /\ live[w][c] # NoMark => live[w][c] = served[w][c]
        /\ live[w][c] = NoMark =>
             /\ place[c] \in {"none", "live"} => served[w][c] = 0
             /\ place[c] = "prev" =>
                  served[w][c] = IF kept[w][c] = NoMark THEN 0 ELSE kept[w][c]
    <3>1. served[w][c] \in 0..MaxOut
      BY <1>1
    <3>2. place[c] \in {"none", "live", "prev", "older"} /\ (place[c] = "none" => out[c] = 0)
      BY <1>1
    <3> HIDE DEF KernelOK, FilesOK, BooksOK
    <3> QED
      BY <1>1, <3>1, <3>2
  <2> HIDE DEF KernelOK, FilesOK, BooksOK, Marks
  <2>3. CASE place[c] = "live"
    BY <2>1, <2>2, <2>3
  <2>4. CASE place[c] # "live"
    BY <2>1, <2>2, <2>4
  <2> QED
    BY <2>3, <2>4
<1>14. ASSUME Spawn PROVE Marks(w)'
  BY <1>1, <1>14 DEF Spawn
<1>15. ASSUME Ready PROVE Marks(w)'
  BY <1>1, <1>15 DEF Ready
<1> QED
  BY <1>2, <1>3, <1>4, <1>5, <1>6, <1>7, <1>8, <1>9, <1>10, <1>11, <1>12, <1>13, <1>14, <1>15
     DEF Kernel

LEMMA WithinKept ==
  ASSUME IInv, Kernel, NEW w \in Callers
  PROVE  Within(w)'
<1> USE Sizes, Stages DEF KernelOK, FilesOK, BooksOK, Within, Live, Cell,
       kernelVars, cellVars, callerVars, Unheard, Remark
<1>1. IInv /\ KernelOK /\ FilesOK /\ BooksOK /\ Flight /\ Within(w) /\ Within(w)
  BY DEF IInv, Each
<1>2. ASSUME Submit PROVE Within(w)'
  BY <1>1, <1>2 DEF Submit
<1>3. ASSUME Acknowledge PROVE Within(w)'
  BY <1>1, <1>3 DEF Acknowledge
<1>4. ASSUME Begin PROVE Within(w)'
  BY <1>1, <1>4 DEF Begin
<1>5. ASSUME Publish PROVE Within(w)'
  BY <1>1, <1>5 DEF Publish
<1>6. ASSUME Unmark PROVE Within(w)'
  BY <1>1, <1>6 DEF Unmark
<1>7. ASSUME Write PROVE Within(w)'
  <2>1. \A c \in Cells : out[c] \in Nat /\ out'[c] \in Nat /\ out[c] <= out'[c]
    BY <1>1, <1>7, OutGrows
  <2>2. UNCHANGED <<my, pc>>
    BY <1>7 DEF Write
  <2>3. CASE Cell(w) = 0
    BY <1>1, <2>2, <2>3
  <2>4. CASE Cell(w) # 0
    <3>1. Cell(w) \in Cells /\ my[w].scan \in Nat
      BY <2>4, Fields
    <3>2. my[w].scan <= out[Cell(w)]
      BY <1>1, <2>4
    <3>3. my[w].scan <= out'[Cell(w)]
      BY <2>1, <3>1, <3>2
    <3> QED
      BY <1>1, <2>2, <2>4, <3>3
  <2> QED
    BY <2>3, <2>4
<1>8. ASSUME Finish PROVE Within(w)'
  BY <1>1, <1>8 DEF Finish
<1>9. ASSUME Die PROVE Within(w)'
  BY <1>1, <1>9 DEF Die
<1>10. ASSUME Expire PROVE Within(w)'
  BY <1>1, <1>10 DEF Expire
<1>11. ASSUME Exit PROVE Within(w)'
  BY <1>1, <1>11 DEF Exit
<1>12. ASSUME Disown PROVE Within(w)'
  BY <1>1, <1>12 DEF Disown
<1>13. ASSUME Rotate PROVE Within(w)'
  BY <1>1, <1>13 DEF Rotate
<1>14. ASSUME Spawn PROVE Within(w)'
  BY <1>1, <1>14 DEF Spawn
<1>15. ASSUME Ready PROVE Within(w)'
  BY <1>1, <1>15 DEF Ready
<1> QED
  BY <1>2, <1>3, <1>4, <1>5, <1>6, <1>7, <1>8, <1>9, <1>10, <1>11, <1>12, <1>13, <1>14, <1>15
     DEF Kernel

LEMMA KnowsKept ==
  ASSUME IInv, Kernel, NEW w \in Callers
  PROVE  Knows(w)'
<1> USE Sizes, Stages DEF Alive, KernelOK, FilesOK, BooksOK, Knows, Within, Live, Cell,
       kernelVars, cellVars, callerVars, Unheard, Remark
<1>1. IInv /\ KernelOK /\ FilesOK /\ BooksOK /\ Flight /\ Within(w) /\ Knows(w)
  BY DEF IInv, Each
<1>2. ASSUME Submit PROVE Knows(w)'
  BY <1>1, <1>2 DEF Submit
<1>3. ASSUME Acknowledge PROVE Knows(w)'
  BY <1>1, <1>3 DEF Acknowledge
<1>4. ASSUME Begin PROVE Knows(w)'
  <2>1. Cell(w) # 0 => Cell(w) \in Cells
    BY Fields
  <2>2. Cell(w) # 0 /\ place[Cell(w)] # "none" =>
          Cell(w) # queued /\ place'[Cell(w)] = place[Cell(w)]
    BY <1>4, <2>1, BeginsNew
  <2> QED
    BY <1>1, <1>4, <2>2 DEF Begin
<1>5. ASSUME Publish PROVE Knows(w)'
  BY <1>1, <1>5 DEF Publish
<1>6. ASSUME Unmark PROVE Knows(w)'
  BY <1>1, <1>6 DEF Unmark
<1>7. ASSUME Write PROVE Knows(w)'
  BY <1>1, <1>7 DEF Write
<1>8. ASSUME Finish PROVE Knows(w)'
  <2>1. running # 0 /\ records' = records \union {running}
    BY <1>8 DEF Finish
  <2>2. pc[w] = "archive" \/ pc[w] = "lastwords" => pc[w] \in Over
    BY DEF Over
  <2> QED
    BY <1>1, <1>8, <2>1, <2>2 DEF Finish
<1>9. ASSUME Die PROVE Knows(w)'
  BY <1>1, <1>9 DEF Die
<1>10. ASSUME Expire PROVE Knows(w)'
  BY <1>1, <1>10 DEF Expire
<1>11. ASSUME Exit PROVE Knows(w)'
  BY <1>1, <1>11 DEF Exit
<1>12. ASSUME Disown PROVE Knows(w)'
  BY <1>1, <1>12 DEF Disown
<1>13. ASSUME Rotate PROVE Knows(w)'
  <2>1. Cell(w) # 0 /\ place[Cell(w)] # "none" =>
          place'[Cell(w)] # "none" /\ place'[Cell(w)] # "live"
    BY <1>1, <1>13, Fields DEF Rotate
  <2> QED
    BY <1>1, <1>13, <2>1 DEF Rotate
<1>14. ASSUME Spawn PROVE Knows(w)'
  BY <1>1, <1>14 DEF Spawn
<1>15. ASSUME Ready PROVE Knows(w)'
  BY <1>1, <1>15 DEF Ready
<1> QED
  BY <1>2, <1>3, <1>4, <1>5, <1>6, <1>7, <1>8, <1>9, <1>10, <1>11, <1>12, <1>13, <1>14, <1>15
     DEF Kernel

LEMMA ResumesKept ==
  ASSUME IInv, Kernel, NEW w \in Callers
  PROVE  Resumes(w)'
<1> USE Sizes, Stages DEF KernelOK, FilesOK, BooksOK, Resumes, Within, Live,
       Archived, Cell, kernelVars, cellVars, callerVars, Unheard,
       Remark
<1>1. IInv /\ KernelOK /\ FilesOK /\ BooksOK /\ Flight /\ Within(w) /\ Resumes(w)
  BY DEF IInv, Each
<1>2. ASSUME Submit PROVE Resumes(w)'
  BY <1>1, <1>2 DEF Submit
<1>3. ASSUME Acknowledge PROVE Resumes(w)'
  BY <1>1, <1>3 DEF Acknowledge
<1>4. ASSUME Begin PROVE Resumes(w)'
  <2>1. Cell(w) # 0 => Cell(w) \in Cells
    BY Fields
  <2>2. Archived(Cell(w)) /\ Cell(w) # 0 => Archived(Cell(w))'
    BY <1>4, <2>1, BeginsNew DEF Begin
  <2> QED
    BY <1>1, <1>4, <2>2 DEF Begin
<1>5. ASSUME Publish PROVE Resumes(w)'
  BY <1>1, <1>5 DEF Publish
<1>6. ASSUME Unmark PROVE Resumes(w)'
  BY <1>1, <1>6 DEF Unmark
<1>7. ASSUME Write PROVE Resumes(w)'
  BY <1>1, <1>7 DEF Write
<1>8. ASSUME Finish PROVE Resumes(w)'
  BY <1>1, <1>8 DEF Finish
<1>9. ASSUME Die PROVE Resumes(w)'
  BY <1>1, <1>9 DEF Die
<1>10. ASSUME Expire PROVE Resumes(w)'
  BY <1>1, <1>10 DEF Expire
<1>11. ASSUME Exit PROVE Resumes(w)'
  BY <1>1, <1>11 DEF Exit
<1>12. ASSUME Disown PROVE Resumes(w)'
  BY <1>1, <1>12 DEF Disown
<1>13. ASSUME Rotate PROVE Resumes(w)'
  <2>1. Cell(w) # 0 => (Archived(Cell(w)) => Archived(Cell(w))') /\ live'[w][Cell(w)] = NoMark
    BY <1>1, <1>13, Fields DEF Rotate
  <2> QED
    BY <1>1, <1>13, <2>1 DEF Rotate
<1>14. ASSUME Spawn PROVE Resumes(w)'
  BY <1>1, <1>14 DEF Spawn
<1>15. ASSUME Ready PROVE Resumes(w)'
  BY <1>1, <1>15 DEF Ready
<1> QED
  BY <1>2, <1>3, <1>4, <1>5, <1>6, <1>7, <1>8, <1>9, <1>10, <1>11, <1>12, <1>13, <1>14, <1>15
     DEF Kernel

LEMMA AimsKept ==
  ASSUME IInv, Kernel, NEW w \in Callers
  PROVE  Aims(w)'
<1> USE Sizes, Stages DEF KernelOK, FilesOK, BooksOK, Aims, Flight, Hit,
       Stood, Alive, Working, Needed, Captured, Live, Recorded, kernelVars, cellVars, callerVars, Unheard,
       Remark
<1>1. IInv /\ KernelOK /\ FilesOK /\ BooksOK /\ Flight /\ Within(w) /\ Aims(w)
  BY DEF IInv, Each
<1>2. ASSUME Submit PROVE Aims(w)'
  BY <1>1, <1>2 DEF Submit
<1>3. ASSUME Acknowledge PROVE Aims(w)'
  BY <1>1, <1>3 DEF Acknowledge
<1>4. ASSUME Begin PROVE Aims(w)'
  BY <1>1, <1>4 DEF Begin
<1>5. ASSUME Publish PROVE Aims(w)'
  BY <1>1, <1>5 DEF Publish
<1>6. ASSUME Unmark PROVE Aims(w)'
  BY <1>1, <1>6 DEF Unmark
<1>7. ASSUME Write PROVE Aims(w)'
  BY <1>1, <1>7 DEF Write
<1>8. ASSUME Finish PROVE Aims(w)'
  BY <1>1, <1>8 DEF Finish
<1>9. ASSUME Die PROVE Aims(w)'
  BY <1>1, <1>9 DEF Die
<1>10. ASSUME Expire PROVE Aims(w)'
  BY <1>1, <1>10 DEF Expire
<1>11. ASSUME Exit PROVE Aims(w)'
  BY <1>1, <1>11 DEF Exit
<1>12. ASSUME Disown PROVE Aims(w)'
  BY <1>1, <1>12 DEF Disown
<1>13. ASSUME Rotate PROVE Aims(w)'
  BY <1>1, <1>13 DEF Rotate
<1>14. ASSUME Spawn PROVE Aims(w)'
  <2>1. my[w].entry < inc' /\ my[w].stamp < inc'
    BY <1>1, <1>14, Fields DEF Spawn
  <2>2. UNCHANGED <<my, pc>> /\ my[w].entry \in Nat /\ my[w].stamp \in Nat /\ inc' \in Nat
    BY <1>1, <1>14, Fields DEF Spawn
  <2> HIDE DEF Hit, Stood, Live, Recorded, KernelOK, FilesOK, BooksOK, Flight
  <2> QED
    BY <1>1, <2>1, <2>2
<1>15. ASSUME Ready PROVE Aims(w)'
  BY <1>1, <1>15 DEF Ready
<1> QED
  BY <1>2, <1>3, <1>4, <1>5, <1>6, <1>7, <1>8, <1>9, <1>10, <1>11, <1>12, <1>13, <1>14, <1>15
     DEF Kernel
-----------------------------------------------------------------------------
(* The callers' side.                                                      *)

LEMMA SharedKept ==
  ASSUME IInv, NEW w \in Callers, Acts(w)
  PROVE  KernelOK' /\ FilesOK' /\ Flight'
<1>1. Apart(w)
  BY ActsAlone
<1>2. KernelOK'
  BY <1>1, Sizes, SMTT(30) DEF IInv, KernelOK, Apart, Alive
<1>3. FilesOK'
  BY <1>1 DEF IInv, FilesOK, Apart, Live
<1>4. Flight'
  BY <1>1, Sizes DEF IInv, Flight, Apart, Recorded, Live, Working, Alive
<1> QED
  BY <1>2, <1>3, <1>4

LEMMA OthersKept ==
  ASSUME IInv, NEW w \in Callers, Acts(w), NEW u \in Callers \ {w}
  PROVE  Each(u)'
<1>1. Apart(w) /\ Each(u)
  BY ActsAlone DEF IInv
<1> USE DEF Each, Apart, Cell, Live, Archived, Recorded, Stood, Working, Alive
<1>2. Marks(u)'
  BY <1>1 DEF Marks
<1>3. Within(u)' /\ Knows(u)'
  BY <1>1 DEF Within, Knows
<1>4. Resumes(u)'
  BY <1>1 DEF Resumes
<1>5. Aims(u)'
  BY <1>1 DEF Aims, Hit
<1> QED
  BY <1>2, <1>3, <1>4, <1>5

(* The steps of a caller: it moves on, knowing what it has looked at, it   *)
(* returns, or it does one of the few things that change what it knows.    *)
Way(w, next) ==
  /\ pc[w] \in Polling /\ next \in Polling \ {"settle", "archive"}
  /\ next = "output" => Recorded(Cell(w))
  /\ next = "alive" => place[Cell(w)] = "none"
  /\ next = "marker" => pc[w] = "alive"
  /\ next = "lastwords" => pc[w] = "archive" /\ ~Archived(Cell(w))
  /\ next \notin {"record", "log"} =>
       pc[w] \notin {"record", "log"} \/ ~Archived(Cell(w))

GoesOn(w) == \E next \in Polling : Way(w, next) /\ Moves(w, next)

Settled(w) ==
  \/ UNCHANGED <<live, served>>
  \/ Cell(w) \in Cells /\ \E to \in 0..MaxOut : to <= out[Cell(w)] /\ Saves(w, to)

Ends(w) ==
  /\ pc'[w] = "idle" /\ my'[w] = Nowhere
  /\ said' \in [Callers -> Answers] /\ pc' = [pc EXCEPT ![w] = "idle"]
  /\ my' = [my EXCEPT ![w] = Nowhere]
  /\ swapped' \in [Callers -> BOOLEAN] /\ Settled(w)

LEMMA Answering ==
  ASSUME IInv, NEW w \in Callers, NEW kind, NEW from, NEW to, Says(w, kind, from, to),
         kind \in {"none", "done", "ended", "died", "running", "notfound"},
         from \in 0..MaxOut, to \in 0..MaxOut, Settled(w)
  PROVE  /\ Ends(w)
         /\ said'[w] = [cell |-> Cell(w), kind |-> kind, from |-> from, to |-> to]
<1>1. [cell |-> Cell(w), kind |-> kind, from |-> from, to |-> to] \in Answers
  BY Fields DEF Answers, Cell
<1> QED
  BY <1>1 DEF IInv, BooksOK, Says, Goto, Ends

LEMMA Reads ==
  ASSUME NEW c, NEW from \in 0..MaxOut, out[c] \in 0..MaxOut
  PROVE  /\ ReadTo(c, from) \in 0..MaxOut /\ ReadTo(c, from) <= out[c]
         /\ from <= out[c] => from <= ReadTo(c, from)
BY Sizes DEF ReadTo

(* Where a caller that polls stands, in numbers.                           *)
LEMMA Placed ==
  ASSUME IInv, NEW w \in Callers, pc[w] \in Polling
  PROVE  /\ Cell(w) \in Cells /\ out[Cell(w)] \in 0..MaxOut
         /\ my[w].off <= out[Cell(w)] /\ my[w].scan <= out[Cell(w)]
         /\ OutTo(w) \in 0..MaxOut /\ OutTo(w) <= out[Cell(w)]
         /\ ArchivedStart(w, Cell(w)) \in 0..MaxOut
         /\ ReadTo(Cell(w), ArchivedStart(w, Cell(w))) \in 0..MaxOut
         /\ ReadTo(Cell(w), ArchivedStart(w, Cell(w))) <= out[Cell(w)]
<1> DEFINE c == Cell(w)
<1>1. c \in Cells
  BY Fields, Sizes DEF IInv, Each, Within, Cell
<1>2. out[c] \in 0..MaxOut /\ kept[w][c] \in 0..NoMark
  BY <1>1 DEF IInv, FilesOK, BooksOK
<1>3. /\ my[w].off \in 0..MaxOut /\ my[w].scan \in 0..MaxOut
      /\ my[w].off <= my[w].scan /\ my[w].scan <= out[c]
  BY <1>1, Fields, Sizes DEF IInv, Each, Within
<1>4. my[w].off <= out[c]
  BY <1>2, <1>3, Sizes
<1>5. OutTo(w) \in 0..MaxOut /\ OutTo(w) <= out[c]
  BY <1>2, <1>3, <1>4, Reads DEF OutTo, LiveTo
<1>6. ArchivedStart(w, c) \in 0..MaxOut
  BY <1>2, <1>3, Sizes DEF ArchivedStart
<1>7. ReadTo(c, ArchivedStart(w, c)) \in 0..MaxOut /\ ReadTo(c, ArchivedStart(w, c)) <= out[c]
  BY <1>2, <1>6, Reads
<1> QED
  BY <1>1, <1>2, <1>3, <1>4, <1>5, <1>6, <1>7

LEMMA AnsweringLive ==
  ASSUME IInv, NEW w \in Callers, pc[w] \in Polling, NEW kind, SaysLive(w, kind),
         kind \in {"done", "running"}
  PROVE  /\ Ends(w)
         /\ said'[w] = [cell |-> Cell(w), kind |-> kind, from |-> my[w].off, to |-> OutTo(w)]
<1>1. Settled(w)
  BY Placed DEF SaysLive, Settled
<1> QED
  BY <1>1, Answering, Placed, Fields DEF SaysLive

LEMMA AnsweringArchived ==
  ASSUME IInv, NEW w \in Callers, pc[w] \in Polling, SaysArchived(w)
  PROVE  /\ Ends(w) /\ Archived(Cell(w))
         /\ said'[w] = [cell |-> Cell(w),
                        kind |-> IF Cell(w) \in records THEN "done" ELSE "ended",
                        from |-> ArchivedStart(w, Cell(w)),
                        to |-> ReadTo(Cell(w), ArchivedStart(w, Cell(w)))]
<1>1. Settled(w)
  BY Placed DEF SaysArchived, Settled
<1> QED
  BY <1>1, Answering, Placed, Fields DEF SaysArchived

LEMMA Leaving ==
  ASSUME IInv, NEW w \in Callers, Leaves(w), UNCHANGED <<live, served, said>>
  PROVE  Ends(w)
BY DEF IInv, BooksOK, Leaves, Goto, Ends, Settled

Turns(w) ==
  \/ Call(w) \/ FindsDead(w) \/ SettlesByRecord(w) \/ Scans(w)
  \/ Interrupt(w) \/ FindsInFlight(w) \/ FindsNoneInFlight(w)
  \/ ReadsMarker(w) /\ marker # 0
  \/ JudgesGone(w) \/ JudgesStanding(w) \/ Requests(w)
  \/ Checks(w) /\ (my[w].target = Unnamed \/ Stands(w))
  \/ VerifiesOwner(w) /\ SameOwner(w) /\ Goto(w, "kill") /\ UNCHANGED <<my, swapped>>

LEMMA ThreeWays ==
  ASSUME IInv, NEW w \in Callers, Acts(w)
  PROVE  GoesOn(w) \/ Ends(w) \/ Turns(w)
<1>1. At(w, "record") \/ At(w, "output") \/ At(w, "log") \/ At(w, "alive")
      \/ At(w, "marker") \/ At(w, "death") \/ At(w, "archive") \/ At(w, "lastwords")
      \/ At(w, "match") \/ At(w, "late") => pc[w] \in Polling
  BY DEF At, Polling
<1> USE DEF GoesOn, Way, Turns
<1>2. ASSUME LooksForRecord(w) PROVE GoesOn(w)
  <2>1. CASE Recorded(Cell(w))
    <3>1. Way(w, "output") /\ Moves(w, "output") /\ "output" \in Polling
      BY <1>1, <1>2, <2>1 DEF LooksForRecord, At, Polling, Recorded, Live, Archived
    <3> QED
      BY <3>1
  <2>2. CASE ~Recorded(Cell(w))
    BY <1>1, <1>2, <2>2 DEF LooksForRecord, At, Polling
  <2> QED
    BY <2>1, <2>2
<1>3. ASSUME SaysDone(w) PROVE Ends(w)
  BY <1>1, <1>3, AnsweringLive, AnsweringArchived DEF SaysDone
<1>4. ASSUME LooksForLog(w) PROVE GoesOn(w) \/ Ends(w)
  <2>1. ASSUME Live(Cell(w)), Moves(w, "death") PROVE GoesOn(w)
    BY <1>1, <1>4, <2>1 DEF LooksForLog, Polling, Live, Archived
  <2>2. ASSUME SaysArchived(w) PROVE Ends(w)
    BY <1>1, <1>4, <2>2, AnsweringArchived DEF LooksForLog
  <2>3. ASSUME place[Cell(w)] = "none", Moves(w, "alive") PROVE GoesOn(w)
    BY <1>1, <1>4, <2>3 DEF LooksForLog, Polling, Archived
  <2> QED
    BY <1>4, <2>1, <2>2, <2>3 DEF LooksForLog
<1>5. ASSUME LooksForLife(w) PROVE GoesOn(w)
  BY <1>1, <1>5 DEF LooksForLife, At, Polling
<1>6. ASSUME LooksForMarker(w) PROVE GoesOn(w) \/ Ends(w)
  <2>1. ASSUME Moves(w, "death") PROVE GoesOn(w)
    BY <1>1, <1>6, <2>1 DEF LooksForMarker, At, Polling
  <2>2. ASSUME Says(w, "notfound", 0, 0), UNCHANGED <<live, served>> PROVE Ends(w)
    <3>1. Settled(w) /\ 0 \in 0..MaxOut
      BY <2>2, Sizes DEF Settled
    <3> QED
      BY <2>2, <3>1, Answering
  <2> QED
    BY <1>6, <2>1, <2>2 DEF LooksForMarker
<1>7. ASSUME FindsNotDead(w) PROVE GoesOn(w)
  <2>1. PICK next \in {"scan", "late"} : Moves(w, next)
    BY <1>7 DEF FindsNotDead
  <2> QED
    BY <1>1, <1>7, <2>1 DEF FindsNotDead, At, Polling
<1>9. ASSUME SettlesByArchive(w) PROVE GoesOn(w) \/ Ends(w)
  <2>1. ASSUME ~Archived(Cell(w)), Moves(w, "lastwords") PROVE GoesOn(w)
    BY <1>1, <1>9, <2>1 DEF SettlesByArchive, At, Polling
  <2>2. ASSUME SaysArchived(w) PROVE Ends(w)
    BY <1>1, <1>9, <2>2, AnsweringArchived DEF SettlesByArchive
  <2> QED
    BY <1>9, <2>1, <2>2 DEF SettlesByArchive
<1>10. ASSUME SaysLastWords(w) PROVE Ends(w)
  BY <1>1, <1>10, Answering, Placed, Fields DEF SaysLastWords, Settled
<1>11. ASSUME Matches(w) PROVE GoesOn(w) \/ Ends(w)
  <2>1. ASSUME Moves(w, "record") PROVE GoesOn(w)
    BY <1>1, <1>11, <2>1 DEF Matches, At, Polling
  <2>2. ASSUME Says(w, "running", my[w].off, my[w].scan), Saves(w, my[w].scan)
        PROVE  Ends(w)
    BY <1>1, <1>11, <2>2, Answering, Placed, Fields DEF Matches, Settled
  <2> QED
    BY <1>11, <2>1, <2>2 DEF Matches
<1>12. ASSUME PollsAgain(w) PROVE GoesOn(w)
  BY <1>1, <1>12 DEF PollsAgain, At, Polling
<1>13. ASSUME Expires(w) PROVE Ends(w)
  BY <1>1, <1>13, AnsweringLive DEF Expires
<1>8. ASSUME ReadsMarker(w), marker = 0 PROVE Ends(w)
  BY <1>8, Leaving DEF ReadsMarker
<1>14. ASSUME Discards(w) PROVE Ends(w)
  BY <1>14 DEF IInv, BooksOK, Discards, Goto, Ends, Settled
<1>15. ASSUME Checks(w), my[w].target # Unnamed, ~Stands(w) PROVE Ends(w)
  BY <1>15, Leaving DEF Checks
<1>16. ASSUME VerifiesOwner(w) PROVE Ends(w) \/ Turns(w)
  BY <1>16, Leaving DEF VerifiesOwner
<1>17. ASSUME Kills(w) PROVE Ends(w)
  BY <1>17, Leaving DEF Kills
<1> QED
  BY <1>2, <1>3, <1>4, <1>5, <1>6, <1>7, <1>8, <1>9, <1>10, <1>11, <1>12, <1>13, <1>14,
     <1>15, <1>16, <1>17 DEF Acts, Waits, Stops

Own(w) == BooksOK /\ Each(w)

LEMMA EndsWell ==
  ASSUME IInv, NEW w \in Callers, Acts(w), Ends(w)
  PROVE  Own(w)'
<1>1. Apart(w) /\ BooksOK /\ Each(w) /\ FilesOK
  BY ActsAlone DEF IInv
<1>2. BooksOK' /\ Marks(w)'
  <2> USE <1>1 DEF Apart, Ends, Each, Marks
  <2>1. CASE UNCHANGED <<live, served>>
    <3>1. BooksOK'
      BY <2>1, NowhereOK DEF BooksOK
    <3> QED
      BY <2>1, <3>1
  <2>2. ASSUME NEW to \in 0..MaxOut, to <= out[Cell(w)], Saves(w, to), Cell(w) \in Cells
        PROVE  BooksOK' /\ Marks(w)'
    <3>1. /\ live' = [live EXCEPT ![w] = [live[w] EXCEPT ![Cell(w)] = to]]
          /\ served' = [served EXCEPT ![w] = [served[w] EXCEPT ![Cell(w)] = to]]
      BY <2>2 DEF Saves
    <3>2. to \in 0..NoMark /\ to # NoMark
      BY <2>2, Sizes
    <3>3. live' \in [Callers -> [Cells -> 0..NoMark]]
      BY <3>1, <3>2 DEF BooksOK
    <3>4. served' \in [Callers -> [Cells -> 0..MaxOut]]
      BY <2>2, <3>1 DEF BooksOK
    <3>5. BooksOK'
      BY <3>3, <3>4, NowhereOK DEF BooksOK
    <3>6. ASSUME NEW c \in Cells
          PROVE  /\ live'[w][c] = IF c = Cell(w) THEN to ELSE live[w][c]
                 /\ served'[w][c] = IF c = Cell(w) THEN to ELSE served[w][c]
      BY <3>1 DEF BooksOK
    <3> QED
      BY <2>2, <3>2, <3>5, <3>6
  <2> QED
    BY <2>1, <2>2 DEF Settled
<1>3. pc'[w] = "idle" /\ my'[w] = Nowhere
  BY DEF Ends
<1>4. Within(w)' /\ Knows(w)' /\ Resumes(w)'
  BY <1>3, Stages DEF Within, Knows, Resumes, Cell, Nowhere
<1>5. Aims(w)'
  BY <1>1, <1>3, Sizes DEF IInv, KernelOK, Apart, Aims, Nowhere, Captured
<1> QED
  BY <1>2, <1>4, <1>5 DEF Each, Own

LEMMA GoesOnWell ==
  ASSUME IInv, NEW w \in Callers, Acts(w), GoesOn(w)
  PROVE  Own(w)'
<1>1. Apart(w) /\ BooksOK /\ Each(w) /\ FilesOK /\ KernelOK
  BY ActsAlone DEF IInv
<1>2. PICK next \in Polling : Way(w, next) /\ Moves(w, next)
  BY DEF GoesOn
<1>3. /\ pc'[w] = next /\ pc' = [pc EXCEPT ![w] = next]
      /\ UNCHANGED <<live, kept, served, my, said, swapped, place, out, records, running>>
  BY <1>1, <1>2 DEF Moves, Goto, Apart, BooksOK
<1>4. BooksOK'
  BY <1>1, <1>3 DEF BooksOK
<1>5. Marks(w)'
  BY <1>1, <1>3 DEF Each, Marks
<1>6. Cell(w) \in Cells
  BY <1>2, Placed DEF Way
<1>7. Within(w)'
  BY <1>1, <1>3, <1>6, Sizes DEF Each, Within, Cell
<1>8. Knows(w)'
  <2>1. my[w].logged => place[Cell(w)] # "none"
    BY <1>1 DEF Each, Knows
  <2>2. next \in {"alive", "marker"} => ~my[w].logged
    BY <1>1, <1>2, <2>1 DEF Each, Knows, Way
  <2>3. next = "output" => Cell(w) \in records
    BY <1>2 DEF Way, Recorded
  <2>4. next \in Over => next = "lastwords"
    BY <1>2 DEF Way, Over
  <2>5. next = "lastwords" /\ my[w].logged /\ ~my[w].doubt =>
          Cell(w) # running /\ Cell(w) \notin records
    <3> SUFFICES ASSUME next = "lastwords", my[w].logged, ~my[w].doubt
                 PROVE  Cell(w) # running /\ Cell(w) \notin records
      OBVIOUS
    <3>1. pc[w] = "archive" /\ ~Archived(Cell(w))
      BY <1>2 DEF Way
    <3>2. Live(Cell(w))
      BY <1>1, <1>6, <2>1, <3>1 DEF Live, Archived, FilesOK
    <3> QED
      BY <1>1, <3>1, <3>2 DEF Each, Knows, Over
  <2> QED
    BY <1>1, <1>2, <1>3, <2>2, <2>3, <2>4, <2>5 DEF Each, Knows, Cell, Live, Way
<1>9. Resumes(w)'
  BY <1>1, <1>2, <1>3 DEF Each, Resumes, Cell, Archived, Way
<1>10. Aims(w)'
  BY <1>1, <1>2, <1>3 DEF Each, Aims, Apart, Polling, Captured
<1> QED
  BY <1>4, <1>5, <1>7, <1>8, <1>9, <1>10 DEF Each, Own

(* A call to wait begins where the cursor stands, or at the start.         *)
LEMMA CallsWell ==
  ASSUME IInv, NEW w \in Callers, Call(w)
  PROVE  Own(w)'
<1>1. Apart(w) /\ BooksOK /\ Each(w) /\ FilesOK
  BY ActsAlone DEF IInv, Acts
<1>2. PICK c \in Cells, implicit \in BOOLEAN : Starts(w, c, implicit)
  BY DEF Call
<1> DEFINE off == IF implicit /\ live[w][c] # NoMark THEN live[w][c] ELSE 0
           m == [Nowhere EXCEPT !.cell = c, !.implicit = implicit,
                   !.off = off, !.scan = off, !.logged = place[c] # "none"]
<1>3. /\ my' = [my EXCEPT ![w] = m] /\ said' = [said EXCEPT ![w] = Silence]
      /\ pc' = [pc EXCEPT ![w] = "record"]
      /\ UNCHANGED <<kernelVars, cellVars, live, kept, served, swapped>>
  BY <1>2 DEF Starts, Goto, Call
<1>4. off \in 0..MaxOut /\ off <= out[c]
  <2>1. live[w][c] \in 0..NoMark /\ out[c] \in 0..MaxOut /\ served[w][c] \in 0..MaxOut
    BY <1>1 DEF BooksOK, FilesOK
  <2> QED
    BY <1>1, <2>1, Sizes DEF Each, Marks
<1>5. /\ m.cell = c /\ m.implicit = implicit /\ m.off = off /\ m.scan = off
      /\ m.rec = FALSE /\ m.logged = (place[c] # "none") /\ m.entry = 0 /\ m.stamp = 0
  BY DEF Nowhere
<1>6. m \in Calls
  <2>1. c \in 0..MaxCell
    BY Sizes
  <2> HIDE DEF off
  <2> QED
    BY <1>4, <2>1, NowhereOK DEF Calls
<1> HIDE DEF m
<1>7. BooksOK'
  BY <1>1, <1>3, <1>6, NowhereOK DEF BooksOK, Polling
<1>8. my'[w] = m /\ pc'[w] = "record"
  BY <1>1, <1>3 DEF BooksOK
<1>9. Marks(w)'
  BY <1>1, <1>3 DEF Each, Marks, cellVars
<1>10. Within(w)'
  <2> HIDE DEF off
  <2> QED
    BY <1>3, <1>4, <1>5, <1>8, Sizes DEF Within, Cell, cellVars
<1>11. Knows(w)'
  <2>1. c # 0 /\ "record" \notin Over /\ UNCHANGED place
    BY <1>3, Sizes DEF Over, cellVars
  <2> QED
    BY <1>5, <1>8, <2>1 DEF Knows, Cell
<1>12. Resumes(w)'
  <2> SUFFICES ASSUME implicit
               PROVE  \/ served[w][c] = off
                      \/ off = 0 /\ Archived(c) /\ live[w][c] = NoMark
    <3> HIDE DEF off
    <3> QED
      BY <1>3, <1>5, <1>8 DEF Resumes, Cell, cellVars, Archived
  <2>1. place[c] \in {"none", "live", "prev", "older"}
    BY <1>1 DEF FilesOK
  <2> QED
    BY <1>1, <2>1 DEF Each, Marks, Archived
<1>13. Aims(w)'
  <2>1. inc' \in Nat /\ inc' >= 0
    BY <1>1, Sizes DEF IInv, KernelOK, Apart
  <2> QED
    BY <1>5, <1>8, <2>1 DEF Aims, Captured
<1> QED
  BY <1>7, <1>9, <1>10, <1>11, <1>12, <1>13 DEF Each, Own

(* A step of interrupt() that does not return: of what waiting is about it *)
(* keeps what the caller knew, or drops it all.                            *)
LEMMA StopsWell ==
  ASSUME IInv, NEW w \in Callers, Apart(w), NEW next \in Stopping, NEW m \in Calls,
         pc' = [pc EXCEPT ![w] = next], my' = [my EXCEPT ![w] = m],
         UNCHANGED <<live, kept, served>>, said' \in [Callers -> Answers],
         swapped' \in [Callers -> BOOLEAN],
         \/ /\ m.cell = my[w].cell /\ m.off = my[w].off /\ m.scan = my[w].scan
            /\ m.logged = my[w].logged /\ m.rec = my[w].rec
         \/ m.cell = 0 /\ m.off = 0 /\ m.scan = 0 /\ ~m.logged /\ ~m.rec
  PROVE  /\ BooksOK' /\ Marks(w)' /\ Within(w)' /\ Knows(w)' /\ Resumes(w)'
         /\ pc'[w] = next /\ my'[w] = m
<1>1. BooksOK /\ Each(w)
  BY DEF IInv
<1>2. BooksOK' /\ pc'[w] = next /\ my'[w] = m
  BY <1>1 DEF BooksOK
<1>3. next \notin Polling /\ next \notin Over
  BY Stages
<1>4. Marks(w)'
  BY <1>1 DEF Each, Marks, Apart
<1>5. Within(w)' /\ Resumes(w)'
  BY <1>1, <1>2, <1>3, Sizes DEF Each, Within, Resumes, Cell, Apart
<1>6. Knows(w)'
  BY <1>1, <1>2, <1>3 DEF Each, Knows, Cell, Apart, Polling, Over
<1> QED
  BY <1>2, <1>4, <1>5, <1>6

(* is_busy() tells interrupt() of a cell: the one it captures, if none was.*)
LEMMA Telling ==
  ASSUME IInv, NEW w \in Callers, Apart(w), NEW cell \in 0..Unnamed, cell # 0,
         pc[w] \in {"ask", "judge"}, Told(w, cell), UNCHANGED <<live, served, said>>,
         running \in {0, cell} \/ cell = Unnamed, Stood(cell)
  PROVE  Own(w)'
<1> DEFINE m == [my[w] EXCEPT !.seen = 0, !.stamp = 0,
                              !.target = IF my[w].target = 0 THEN cell ELSE my[w].target]
<1>1. Apart(w) /\ BooksOK /\ Each(w) /\ KernelOK
  BY DEF IInv
<1>2. my' = [my EXCEPT ![w] = m]
  BY DEF Told
<1>3. m \in Calls
  <2> DEFINE t == IF my[w].target = 0 THEN cell ELSE my[w].target
  <2>1. t \in 0..Unnamed /\ 0 \in 0..Unnamed /\ 0 \in 0..MaxInc /\ my[w] \in Calls
    BY <1>1, Fields, Sizes DEF BooksOK
  <2> HIDE DEF t
  <2> QED
    BY <2>1, ZenonT(40) DEF Calls
<1>4. /\ m.cell = my[w].cell /\ m.off = my[w].off /\ m.scan = my[w].scan
      /\ m.logged = my[w].logged /\ m.rec = my[w].rec /\ m.entry = my[w].entry
      /\ m.stamp = 0 /\ m.target = IF my[w].target = 0 THEN cell ELSE my[w].target
  BY <1>1 DEF BooksOK, Calls
<1> HIDE DEF m
<1>5. PICK next \in Captured : pc' = [pc EXCEPT ![w] = next]
  BY DEF Told, Onward, Goto, Captured
<1>6. swapped' = [swapped EXCEPT ![w] = FALSE]
  BY DEF Told, Onward
<1>7. /\ BooksOK' /\ Marks(w)' /\ Within(w)' /\ Knows(w)' /\ Resumes(w)'
      /\ pc'[w] = next /\ my'[w] = m
  <2>1. next \in Stopping /\ swapped' \in [Callers -> BOOLEAN] /\ UNCHANGED kept
        /\ said' \in [Callers -> Answers]
    BY <1>1, <1>5, <1>6, Stages DEF Apart, BooksOK
  <2>2. /\ m.cell = my[w].cell /\ m.off = my[w].off /\ m.scan = my[w].scan
        /\ m.logged = my[w].logged /\ m.rec = my[w].rec
    BY <1>4
  <2> QED
    BY <1>2, <1>3, <1>5, <2>1, <2>2, StopsWell
<1>8. my[w].target \in {0, Unnamed}
  BY <1>1 DEF Each, Aims
<1>9. Unnamed \notin Cells /\ Unnamed # 0 /\ inc \in 0..MaxInc
  BY <1>1, Sizes DEF KernelOK
<1>10. Hit(w)' /\ Stood(my[w].target)' /\ m.target # 0
  BY <1>1, <1>4, <1>7, <1>8, <1>9
     DEF Hit, Stood, Working, Alive, Recorded, Live, Apart
<1>11. Aims(w)'
  <2>1. my[w].entry <= inc /\ 0 <= inc /\ inc' = inc
    BY <1>1, <1>9, Sizes DEF Each, Aims, Apart
  <2> QED
    BY <1>4, <1>5, <1>7, <1>10, <2>1 DEF Aims, Captured
<1> QED
  BY <1>7, <1>11 DEF Each, Own

(* What changes one field of what the caller knows, or none: in a wait ... *)
LEMMA WaitsOn ==
  ASSUME IInv, NEW w \in Callers, Acts(w),
         Call(w) \/ FindsDead(w) \/ SettlesByRecord(w) \/ Scans(w)
  PROVE  Own(w)'
<1>1. Apart(w) /\ BooksOK /\ Each(w) /\ FilesOK /\ KernelOK /\ Flight
  BY ActsAlone DEF IInv
<1>2. CASE Call(w)
  BY <1>2, CallsWell
<1>3. ASSUME UNCHANGED <<live, served>> PROVE Marks(w)'
  BY <1>1, <1>3 DEF Each, Marks, Apart
<1>4. CASE SettlesByRecord(w)
  <2>1. pc[w] = "settle" /\ Cell(w) \in Cells
    BY <1>4, Placed DEF SettlesByRecord, At, Polling
  <2>2. UNCHANGED <<kernelVars, cellVars, live, kept, served, said, swapped>>
    BY <1>4 DEF SettlesByRecord
  <2>3. CASE Recorded(Cell(w))
    <3>1. /\ my' = [my EXCEPT ![w] = [my[w] EXCEPT !.rec = TRUE]]
          /\ pc' = [pc EXCEPT ![w] = "lastwords"]
      BY <1>4, <2>3 DEF SettlesByRecord, Goto
    <3>2. [my[w] EXCEPT !.rec = TRUE] \in Calls
      BY Known DEF Calls
    <3>3. BooksOK'
      BY <1>1, <2>2, <3>1, <3>2 DEF BooksOK, Polling
    <3>4. my'[w] = [my[w] EXCEPT !.rec = TRUE] /\ pc'[w] = "lastwords"
      BY <1>1, <3>1 DEF BooksOK
    <3>5. /\ my'[w].cell = my[w].cell /\ my'[w].off = my[w].off /\ my'[w].scan = my[w].scan
          /\ my'[w].logged = my[w].logged /\ my'[w].rec /\ my'[w].entry = my[w].entry
          /\ my'[w].implicit = my[w].implicit /\ my'[w].stamp = my[w].stamp
          /\ my'[w].doubt = my[w].doubt
      BY <1>1, <3>4 DEF BooksOK, Calls
    <3>6. Within(w)' /\ Knows(w)' /\ Resumes(w)'
      BY <1>1, <2>1, <2>2, <2>3, <3>4, <3>5
         DEF Each, Within, Knows, Resumes, Cell, Polling, Over, Recorded, cellVars, kernelVars
    <3>7. Aims(w)'
      BY <1>1, <2>2, <3>4, <3>5 DEF Each, Aims, Captured, kernelVars
    <3> QED
      BY <1>3, <2>2, <3>3, <3>6, <3>7 DEF Each, Own
  <2>4. CASE ~Recorded(Cell(w))
    <3>1. UNCHANGED my /\ pc' = [pc EXCEPT ![w] = "archive"]
      BY <1>4, <2>4 DEF SettlesByRecord, Goto
    <3>2. BooksOK' /\ pc'[w] = "archive"
      BY <1>1, <2>2, <3>1 DEF BooksOK, Polling
    <3>3. Within(w)' /\ Knows(w)' /\ Resumes(w)'
      BY <1>1, <2>1, <2>2, <2>4, <3>1, <3>2
         DEF Each, Within, Knows, Resumes, Cell, Polling, Over, Recorded, Live,
             cellVars, kernelVars
    <3>4. Aims(w)'
      BY <1>1, <2>2, <3>1, <3>2 DEF Each, Aims, Captured, kernelVars
    <3> QED
      BY <1>3, <2>2, <3>2, <3>3, <3>4 DEF Each, Own
  <2> QED
    BY <2>3, <2>4
<1>5. CASE Scans(w)
  <2>1. pc[w] = "scan" /\ Cell(w) \in Cells
    BY <1>5, Placed DEF Scans, At, Polling
  <2> DEFINE to == LiveTo(Cell(w), my[w].scan)
  <2>2. /\ to \in 0..MaxOut /\ my[w].scan <= to /\ to <= out[Cell(w)]
        /\ my' = [my EXCEPT ![w] = [my[w] EXCEPT !.scan = to]]
    <3>1. my[w].scan \in 0..MaxOut /\ out[Cell(w)] \in 0..MaxOut /\ my[w].scan <= out[Cell(w)]
      BY <2>1, Placed, Fields DEF Polling
    <3>2. to \in 0..MaxOut /\ my[w].scan <= to /\ to <= out[Cell(w)]
      BY <3>1, Reads DEF LiveTo
    <3> QED
      BY <1>5, <3>2 DEF Scans
  <2> HIDE DEF to
  <2>3. PICK next \in {"match", "record", "late"} : pc' = [pc EXCEPT ![w] = next]
    BY <1>5 DEF Scans, Goto
  <2>4. UNCHANGED <<kernelVars, cellVars, live, kept, served, said, swapped>>
    BY <1>5 DEF Scans
  <2>5. [my[w] EXCEPT !.scan = to] \in Calls
    BY <2>2, Known DEF Calls
  <2>6. BooksOK'
    BY <1>1, <2>2, <2>3, <2>4, <2>5 DEF BooksOK, Polling
  <2>7. my'[w] = [my[w] EXCEPT !.scan = to] /\ pc'[w] = next
    BY <1>1, <2>2, <2>3 DEF BooksOK
  <2>8. /\ my'[w].cell = my[w].cell /\ my'[w].off = my[w].off /\ my'[w].scan = to
        /\ my'[w].logged = my[w].logged /\ my'[w].rec = my[w].rec
        /\ my'[w].entry = my[w].entry /\ my'[w].implicit = my[w].implicit
        /\ my'[w].stamp = my[w].stamp /\ my'[w].doubt = my[w].doubt
    BY <1>1, <2>7 DEF BooksOK, Calls
  <2>9. Within(w)'
    <3>1. my[w].off <= to
      BY <1>1, <2>2, Fields, Sizes DEF Each, Within
    <3> QED
      BY <2>1, <2>2, <2>4, <2>8, <3>1, Sizes DEF Within, Cell, cellVars
  <2>10. Knows(w)' /\ Resumes(w)'
    BY <1>1, <2>1, <2>3, <2>4, <2>7, <2>8
       DEF Each, Knows, Resumes, Cell, Polling, Over, cellVars, kernelVars
  <2>11. Aims(w)'
    BY <1>1, <2>3, <2>4, <2>7, <2>8 DEF Each, Aims, Captured, kernelVars
  <2> QED
    BY <1>3, <2>4, <2>6, <2>9, <2>10, <2>11 DEF Each, Own
<1>6. CASE FindsDead(w)
  <2>1. /\ pc[w] = "death" /\ Cell(w) \in Cells
        /\ my' = [my EXCEPT ![w] = [my[w] EXCEPT !.doubt = Alive]]
        /\ pc' = [pc EXCEPT ![w] = "settle"]
        /\ UNCHANGED <<kernelVars, cellVars, live, kept, served, said, swapped>>
    BY <1>6, Placed DEF FindsDead, Goto, At, Polling
  <2>2. [my[w] EXCEPT !.doubt = Alive] \in Calls
    <3>1. Alive \in BOOLEAN
      BY DEF Alive
    <3> QED
      BY <3>1, Known DEF Calls
  <2>3. BooksOK'
    BY <1>1, <2>1, <2>2 DEF BooksOK, Polling
  <2>4. my'[w] = [my[w] EXCEPT !.doubt = Alive] /\ pc'[w] = "settle"
    BY <1>1, <2>1 DEF BooksOK
  <2>5. /\ my'[w].cell = my[w].cell /\ my'[w].off = my[w].off /\ my'[w].scan = my[w].scan
        /\ my'[w].logged = my[w].logged /\ my'[w].rec = my[w].rec
        /\ my'[w].entry = my[w].entry /\ my'[w].implicit = my[w].implicit
        /\ my'[w].stamp = my[w].stamp /\ my'[w].doubt = Alive
    BY <1>1, <2>4 DEF BooksOK, Calls
  <2>6. Within(w)' /\ Resumes(w)'
    BY <1>1, <2>1, <2>4, <2>5
       DEF Each, Within, Resumes, Cell, Polling, cellVars
  <2>7. Knows(w)'
    <3>1. ~Alive => running = 0
      BY <1>1 DEF KernelOK
    <3> QED
      BY <1>1, <2>1, <2>4, <2>5, <3>1, Sizes
         DEF Each, Knows, Cell, Polling, Over, cellVars, kernelVars
  <2>8. Aims(w)'
    BY <1>1, <2>1, <2>4, <2>5 DEF Each, Aims, Captured, kernelVars
  <2> QED
    BY <1>3, <2>1, <2>3, <2>6, <2>7, <2>8 DEF Each, Own
<1> QED
  BY <1>2, <1>4, <1>5, <1>6

(* ... and in interrupt().                                                 *)
LEMMA StopsOn ==
  ASSUME IInv, NEW w \in Callers, Acts(w),
         \/ Interrupt(w) \/ FindsInFlight(w) \/ FindsNoneInFlight(w)
         \/ ReadsMarker(w) /\ marker # 0
         \/ JudgesGone(w) \/ JudgesStanding(w) \/ Requests(w)
         \/ Checks(w) /\ (my[w].target = Unnamed \/ Stands(w))
         \/ VerifiesOwner(w) /\ SameOwner(w) /\ Goto(w, "kill") /\ UNCHANGED <<my, swapped>>
  PROVE  Own(w)'
<1>1. Apart(w) /\ BooksOK /\ Each(w) /\ FilesOK /\ KernelOK /\ Flight
  BY ActsAlone DEF IInv
<1>2. inc \in 0..MaxInc /\ inc' = inc /\ 0 \in 0..MaxInc
  BY <1>1, Sizes DEF KernelOK, Apart
<1>3. CASE Interrupt(w)
  <2> DEFINE e == IF kernel \in {"leaving", "unowned", "rotated"} THEN 0 ELSE inc
             m == [my[w] EXCEPT !.entry = e]
  <2>1. e \in 0..MaxInc /\ e <= inc /\ my' = [my EXCEPT ![w] = m]
    BY <1>2, <1>3, Sizes DEF Interrupt
  <2> HIDE DEF e
  <2>2. m \in Calls
    BY <2>1, Known DEF Calls
  <2>3. /\ m.cell = my[w].cell /\ m.off = my[w].off /\ m.scan = my[w].scan
        /\ m.logged = my[w].logged /\ m.rec = my[w].rec
        /\ m.entry = e /\ m.stamp = my[w].stamp /\ m.target = my[w].target
    BY <1>1 DEF BooksOK, Calls
  <2> HIDE DEF m
  <2>4. /\ pc' = [pc EXCEPT ![w] = "ask"] /\ "ask" \in Stopping
        /\ UNCHANGED <<live, kept, served>> /\ said' \in [Callers -> Answers]
        /\ swapped' \in [Callers -> BOOLEAN]
    BY <1>1, <1>3, NowhereOK DEF Interrupt, Goto, BooksOK, Stopping
  <2>5. /\ BooksOK' /\ Marks(w)' /\ Within(w)' /\ Knows(w)' /\ Resumes(w)'
        /\ pc'[w] = "ask" /\ my'[w] = m
    <3>1. /\ m.cell = my[w].cell /\ m.off = my[w].off /\ m.scan = my[w].scan
          /\ m.logged = my[w].logged /\ m.rec = my[w].rec
      BY <2>3
    <3> QED
      BY <1>1, <2>1, <2>2, <2>4, <3>1, StopsWell
  <2>6. my[w].target \in {0, Unnamed}
    BY <1>1, <1>3 DEF Interrupt, At, Each, Aims
  <2>7. Aims(w)'
    BY <1>1, <1>2, <2>1, <2>3, <2>5, <2>6 DEF Each, Aims, Captured
  <2> QED
    BY <2>5, <2>7 DEF Each, Own
<1>4. CASE FindsInFlight(w)
  <2>1. /\ pc[w] = "ask" /\ current # 0 /\ ~Recorded(current)
        /\ kernel \in {"up", "down", "booting"} /\ Told(w, current)
        /\ UNCHANGED <<live, served, said>>
    BY <1>4 DEF FindsInFlight, At, MaybeAlive
  <2>2. current \in 0..Unnamed
    BY <1>1, Sizes DEF KernelOK
  <2>3. Working => current = running
    BY <1>1, <2>1 DEF Flight, FilesOK, Recorded
  <2>4. ~Working => running = 0
    BY <1>1 DEF KernelOK, Working
  <2>5. running \in {0, current} /\ Stood(current)
    BY <2>3, <2>4 DEF Stood
  <2> QED
    BY <1>1, <2>1, <2>2, <2>5, Telling
<1>5. CASE JudgesStanding(w)
  <2> DEFINE m == my[w].seen
  <2>1. /\ pc[w] = "judge" /\ kernel \in {"up", "down", "booting"}
        /\ ~Discharged(m, my[w].stamp) /\ Told(w, m) /\ UNCHANGED <<live, served, said>>
    BY <1>5 DEF JudgesStanding, At, MaybeAlive
  <2>2. m \in 0..Unnamed /\ m # 0
    BY <1>1, <2>1, Fields DEF Each, Aims
  <2>3. my[w].stamp = inc /\ (m \in Cells => ~Recorded(m))
    BY <2>1 DEF Discharged
  <2>4. Stood(m)
    BY <1>1, <2>1, <2>3 DEF Each, Aims
  <2>5. m \in Cells \/ m = Unnamed
    BY <2>2, Sizes
  <2>6. running \in {0, m} \/ m = Unnamed
    <3>1. CASE Working
      BY <1>1, <2>2, <2>3, <2>4, <2>5, <3>1 DEF Stood, Flight
    <3>2. CASE ~Working
      BY <1>1, <3>2 DEF KernelOK, Working
    <3> QED
      BY <3>1, <3>2
  <2> QED
    BY <1>1, <2>1, <2>2, <2>4, <2>6, Telling
<1>6. ASSUME NEW next \in Stopping, pc' = [pc EXCEPT ![w] = next],
             UNCHANGED <<live, kept, served, my, said>>, swapped' \in [Callers -> BOOLEAN]
      PROVE  /\ BooksOK' /\ Marks(w)' /\ Within(w)' /\ Knows(w)' /\ Resumes(w)'
             /\ pc'[w] = next /\ my'[w] = my[w]
  <2>1. my' = [my EXCEPT ![w] = my[w]] /\ my[w] \in Calls /\ said' \in [Callers -> Answers]
    BY <1>1, <1>6 DEF BooksOK
  <2> QED
    BY <1>1, <1>6, <2>1, StopsWell
<1>7. CASE FindsNoneInFlight(w)
  <2>1. /\ pc[w] = "ask" /\ BooksOK' /\ Marks(w)' /\ Within(w)' /\ Knows(w)' /\ Resumes(w)'
        /\ pc'[w] = "pending" /\ my'[w] = my[w]
    BY <1>1, <1>6, <1>7 DEF FindsNoneInFlight, At, Moves, Goto, Stopping, BooksOK
  <2>2. Aims(w)'
    BY <1>1, <1>2, <2>1 DEF Each, Aims, Captured
  <2> QED
    BY <2>1, <2>2 DEF Each, Own
<1>8. CASE ReadsMarker(w) /\ marker # 0
  <2> DEFINE m == [my[w] EXCEPT !.seen = marker, !.stamp = inc]
  <2>1. /\ my' = [my EXCEPT ![w] = m]
        /\ pc' = [pc EXCEPT ![w] = "judge"] /\ "judge" \in Stopping
        /\ UNCHANGED <<live, kept, served>> /\ said' \in [Callers -> Answers]
        /\ swapped' \in [Callers -> BOOLEAN]
    BY <1>1, <1>8 DEF ReadsMarker, At, Goto, BooksOK, Stopping
  <2>2. m \in Calls
    <3>1. marker \in 0..Unnamed /\ my[w] \in Calls
      BY <1>1 DEF KernelOK, BooksOK
    <3> QED
      BY <1>2, <3>1, ZenonT(40) DEF Calls
  <2>3. /\ m.cell = my[w].cell /\ m.off = my[w].off /\ m.scan = my[w].scan
        /\ m.logged = my[w].logged /\ m.rec = my[w].rec /\ m.entry = my[w].entry
        /\ m.target = my[w].target /\ m.seen = marker /\ m.stamp = inc
    BY <1>1 DEF BooksOK, Calls
  <2> HIDE DEF m
  <2>4. /\ BooksOK' /\ Marks(w)' /\ Within(w)' /\ Knows(w)' /\ Resumes(w)'
        /\ pc'[w] = "judge" /\ my'[w] = m
    <3>1. /\ m.cell = my[w].cell /\ m.off = my[w].off /\ m.scan = my[w].scan
          /\ m.logged = my[w].logged /\ m.rec = my[w].rec
      BY <2>3
    <3> QED
      BY <1>1, <2>1, <2>2, <3>1, StopsWell
  <2>5. Stood(marker)'
    <3>1. marker' = marker /\ UNCHANGED <<kernel, queued, running, records, place>>
      BY <1>1, <1>8 DEF ReadsMarker, kernelVars, Apart
    <3> QED
      BY <1>1, <3>1 DEF Flight, Stood, Working, Alive, Recorded, Live
  <2>6. Aims(w)'
    <3>1. marker' = marker /\ my[w].entry <= inc /\ inc <= inc /\ my[w].target \in {0, Unnamed}
      BY <1>1, <1>2, <1>8, Sizes DEF ReadsMarker, At, kernelVars, Each, Aims
    <3> QED
      BY <1>2, <1>8, <2>3, <2>4, <2>5, <3>1 DEF Aims, Captured
  <2> QED
    BY <2>4, <2>6 DEF Each, Own
<1>9. CASE JudgesGone(w)
  <2> DEFINE d == KnownDead /\ Alive
             m == [Nowhere EXCEPT !.doubt = d]
  <2>1. /\ my' = [my EXCEPT ![w] = m]
        /\ pc' = [pc EXCEPT ![w] = "discard"] /\ "discard" \in Stopping
        /\ UNCHANGED <<live, kept, served>> /\ said' \in [Callers -> Answers]
        /\ swapped' \in [Callers -> BOOLEAN]
    BY <1>1, <1>9 DEF JudgesGone, Goto, BooksOK, Stopping
  <2>2. m \in Calls
    <3>1. d \in BOOLEAN
      BY DEF KnownDead, Alive
    <3> HIDE DEF d
    <3> QED
      BY <3>1, NowhereOK, ZenonT(40) DEF Calls
  <2>3. /\ m.cell = 0 /\ m.off = 0 /\ m.scan = 0 /\ ~m.logged /\ ~m.rec
        /\ m.entry = 0 /\ m.stamp = 0
    BY DEF Nowhere
  <2> HIDE DEF m
  <2>4. /\ BooksOK' /\ Marks(w)' /\ Within(w)' /\ Knows(w)' /\ Resumes(w)'
        /\ pc'[w] = "discard" /\ my'[w] = m
    BY <1>1, <2>1, <2>2, <2>3, StopsWell
  <2>5. Aims(w)'
    BY <1>2, <2>3, <2>4, Sizes DEF Aims, Captured
  <2> QED
    BY <2>4, <2>5 DEF Each, Own
<1>10. CASE Requests(w)
  <2> DEFINE m == [my[w] EXCEPT !.sent = TRUE]
  <2>1. /\ pc[w] = "request" /\ my' = [my EXCEPT ![w] = m]
        /\ pc' = [pc EXCEPT ![w] = "look"] /\ "look" \in Stopping
        /\ UNCHANGED <<live, kept, served, swapped>> /\ said' \in [Callers -> Answers]
        /\ swapped' \in [Callers -> BOOLEAN]
    BY <1>1, <1>10 DEF Requests, At, Goto, BooksOK, Stopping
  <2>2. m \in Calls
    BY Known DEF Calls
  <2>3. /\ m.cell = my[w].cell /\ m.off = my[w].off /\ m.scan = my[w].scan
        /\ m.logged = my[w].logged /\ m.rec = my[w].rec
        /\ m.entry = my[w].entry /\ m.stamp = my[w].stamp /\ m.target = my[w].target
    BY <1>1 DEF BooksOK, Calls
  <2> HIDE DEF m
  <2>4. /\ BooksOK' /\ Marks(w)' /\ Within(w)' /\ Knows(w)' /\ Resumes(w)'
        /\ pc'[w] = "look" /\ my'[w] = m
    <3>1. /\ m.cell = my[w].cell /\ m.off = my[w].off /\ m.scan = my[w].scan
          /\ m.logged = my[w].logged /\ m.rec = my[w].rec
      BY <2>3
    <3> QED
      BY <1>1, <2>1, <2>2, <3>1, StopsWell
  <2>5. Aims(w)'
    BY <1>1, <1>2, <2>1, <2>3, <2>4
       DEF Each, Aims, Hit, Stood, Working, Alive, Captured, Recorded, Live, Apart
  <2> QED
    BY <2>4, <2>5 DEF Each, Own
<1>11. CASE Checks(w) /\ my[w].target = Unnamed
  <2>1. /\ pc[w] = "look" /\ BooksOK' /\ Marks(w)' /\ Within(w)' /\ Knows(w)' /\ Resumes(w)'
        /\ pc'[w] = "ask" /\ my'[w] = my[w]
    BY <1>1, <1>6, <1>11 DEF Checks, At, Goto, Stopping, BooksOK
  <2>2. Aims(w)'
    BY <1>1, <1>2, <1>11, <2>1 DEF Each, Aims, Captured
  <2> QED
    BY <2>1, <2>2 DEF Each, Own
<1>12. CASE Checks(w) /\ my[w].target # Unnamed /\ Stands(w)
  <2>1. /\ pc[w] = "look" /\ swapped' = [swapped EXCEPT ![w] = FALSE]
        /\ UNCHANGED <<kernelVars, cellVars, live, kept, served, my, said>>
    BY <1>12 DEF Checks, Onward, At
  <2>2. PICK next \in Captured : pc' = [pc EXCEPT ![w] = next]
    BY <1>12 DEF Checks, Onward, Goto, Captured
  <2>3. /\ BooksOK' /\ Marks(w)' /\ Within(w)' /\ Knows(w)' /\ Resumes(w)'
        /\ pc'[w] = next /\ my'[w] = my[w]
    <3>1. next \in Stopping /\ swapped' \in [Callers -> BOOLEAN]
      BY <1>1, <2>1, <2>2, Stages DEF BooksOK
    <3> QED
      BY <1>6, <2>1, <2>2, <3>1
  <2>4. ASSUME my[w].entry = inc PROVE running \in {0, my[w].target}
    <3>1. my[w].target # 0 /\ my[w].target \in 0..Unnamed
      BY <1>1, <2>1, Fields DEF Each, Aims, Captured
    <3>2. ~Recorded(my[w].target) /\ my[w].target \in Cells
      BY <1>12, <3>1, Sizes DEF Stands
    <3>3. CASE Working
      <4>1. my[w].target \in {queued, running}
        BY <1>1, <2>1, <2>4, <3>2, <3>3 DEF Each, Aims, Stood, Captured
      <4> QED
        BY <1>1, <3>1, <3>3, <4>1 DEF Flight
    <3>4. CASE ~Working
      BY <1>1, <3>4 DEF KernelOK, Working
    <3> QED
      BY <3>3, <3>4
  <2>5. Aims(w)'
    BY <1>1, <1>2, <2>1, <2>2, <2>3, <2>4
       DEF Each, Aims, Hit, Stood, Working, Alive, Captured, Recorded, Live, kernelVars, cellVars
  <2> QED
    BY <2>3, <2>5 DEF Each, Own
<1>13. CASE VerifiesOwner(w) /\ SameOwner(w) /\ Goto(w, "kill") /\ UNCHANGED <<my, swapped>>
  <2>1. /\ pc[w] = "verify" /\ BooksOK' /\ Marks(w)' /\ Within(w)' /\ Knows(w)' /\ Resumes(w)'
        /\ pc'[w] = "kill" /\ my'[w] = my[w] /\ UNCHANGED swapped
    BY <1>1, <1>6, <1>13 DEF VerifiesOwner, At, Goto, Stopping, BooksOK
  <2>2. Aims(w)'
    BY <1>1, <1>2, <2>1
       DEF Each, Aims, Hit, Stood, Working, Alive, Captured, Recorded, Live, Apart
  <2> QED
    BY <2>1, <2>2 DEF Each, Own
<1> QED
  BY <1>3, <1>4, <1>5, <1>7, <1>8, <1>9, <1>10, <1>11, <1>12, <1>13

LEMMA TurnsWell ==
  ASSUME IInv, NEW w \in Callers, Acts(w), Turns(w)
  PROVE  Own(w)'
BY WaitsOn, StopsOn DEF Turns

-----------------------------------------------------------------------------
LEMMA Preserved == IInv /\ [Next]_vars => IInv'
<1>1. ASSUME IInv, Kernel PROVE IInv'
  <2>1. ASSUME NEW w \in Callers PROVE Each(w)'
    BY <1>1, MarksKept, WithinKept, KnowsKept, ResumesKept, AimsKept DEF Each
  <2> QED
    BY <1>1, <2>1, KernelKept, FilesKept, BooksKept, FlightKept DEF IInv
<1>2. ASSUME IInv, NEW w \in Callers, Acts(w) PROVE IInv'
  <2>1. Own(w)'
    BY <1>2, ThreeWays, GoesOnWell, EndsWell, TurnsWell
  <2>2. ASSUME NEW u \in Callers PROVE Each(u)'
    BY <1>2, <2>1, OthersKept DEF Own
  <2> QED
    BY <1>2, <2>1, <2>2, SharedKept DEF IInv, Own
<1>3. ASSUME IInv, UNCHANGED vars PROVE IInv'
  <2> USE <1>3 DEF IInv, vars, kernelVars, cellVars, callerVars
  <2>1. KernelOK' /\ FilesOK' /\ BooksOK' /\ Flight'
    BY DEF KernelOK, FilesOK, BooksOK, Flight, Live, Recorded, Alive, Working
  <2>2. ASSUME NEW w \in Callers PROVE Each(w)'
    BY DEF Each, Marks, Within, Knows, Resumes, Aims, Hit, Cell, Live, Archived, Recorded,
       Stood, Alive, Working
  <2> QED
    BY <2>1, <2>2
<1> QED
  BY <1>1, <1>2, <1>3 DEF Next, Acts

(* IInv holds of every behaviour: what files and cursors say of the cells, *)
(* and what each caller may rely on at its step.                           *)
THEOREM Invariant == Spec => []IInv
BY Starting, Preserved, PTL DEF Spec

(* A record has a log, the cell that runs has none yet, and nothing runs   *)
(* in a kernel that is down (kernel.py, cells.py).                         *)
THEOREM WaitingTyped == Spec => []TypeOK
BY Invariant, Typing, PTL

-----------------------------------------------------------------------------
(* What the answers are worth.                                             *)

Truth(w) ==
  LET a == said'[w]
      whole == a.to \in {out[a.cell], a.from + Chunk} \/ Torn(w)
  IN /\ a.kind = "done" => a.cell \in records /\ whole
     /\ a.kind \in {"died", "ended"} /\ my[w].logged =>
          \/ a.cell \notin records /\ a.cell # running /\ whole
          \/ a.kind = "died" /\ my[w].doubt
     /\ a.kind = "notfound" => ~my[w].logged
Fresh(w) ==
  my[w].implicit /\ said'[w].kind # "notfound" /\ place[said'[w].cell] # "older"
    => said'[w].from = served[w][said'[w].cell]
Silent(w) == said'[w] = said[w] \/ said'[w].kind = "none"

LEMMA HonestArchived ==
  ASSUME IInv, NEW w \in Callers, pc[w] \in Polling, SaysArchived(w)
  PROVE  Truth(w) /\ Fresh(w)
<1> DEFINE c == Cell(w)
<1>1. /\ Archived(c) /\ c \in Cells
      /\ said'[w] = [cell |-> c, kind |-> IF c \in records THEN "done" ELSE "ended",
                     from |-> ArchivedStart(w, c), to |-> ReadTo(c, ArchivedStart(w, c))]
  BY AnsweringArchived, Placed
<1>2. c # running
  <2>1. running = 0 \/ Live(running)
    BY DEF IInv, FilesOK
  <2> QED
    BY <1>1, <2>1, Sizes DEF Live, Archived
<1>3. Truth(w)
  BY <1>1, <1>2 DEF Truth, ReadTo
<1>4. Fresh(w)
  <2> SUFFICES ASSUME my[w].implicit, place[c] = "prev"
               PROVE  ArchivedStart(w, c) = served[w][c]
    BY <1>1 DEF Fresh, Archived
  <2>1. Marks(w) /\ Resumes(w)
    BY DEF IInv, Each
  <2>2. live[w][c] = NoMark => served[w][c] = IF kept[w][c] = NoMark THEN 0 ELSE kept[w][c]
    BY <1>1, <2>1 DEF Marks
  <2>3. served[w][c] = my[w].off \/ (my[w].off = 0 /\ live[w][c] = NoMark)
    BY <2>1 DEF Resumes
  <2> QED
    BY <2>2, <2>3 DEF ArchivedStart
<1> QED
  BY <1>3, <1>4

(* Past its first looks, a call stands where the caller was last served.   *)
LEMMA Resumed ==
  ASSUME IInv, NEW w \in Callers, pc[w] \in Polling \ {"record", "log"}, my[w].implicit
  PROVE  my[w].off = served[w][Cell(w)]
BY DEF IInv, Each, Resumes

LEMMA HonestLive ==
  ASSUME IInv, NEW w \in Callers, pc[w] \in Polling \ {"record", "log"},
         NEW kind \in {"done", "running"}, SaysLive(w, kind),
         kind = "done" => Live(Cell(w)) /\ Cell(w) \in records
  PROVE  Truth(w) /\ Fresh(w)
<1>1. said'[w] = [cell |-> Cell(w), kind |-> kind, from |-> my[w].off, to |-> OutTo(w)]
  BY AnsweringLive
<1>2. Fresh(w)
  BY <1>1, Resumed DEF Fresh
<1>3. Truth(w)
  BY <1>1 DEF Truth, OutTo, LiveTo, ReadTo
<1> QED
  BY <1>2, <1>3

LEMMA HonestLastWords ==
  ASSUME IInv, NEW w \in Callers, SaysLastWords(w)
  PROVE  Truth(w) /\ Fresh(w)
<1> DEFINE kind == IF my[w].rec THEN "done" ELSE "died"
<1>1. pc[w] = "lastwords" /\ pc[w] \in Polling \ {"record", "log"} /\ pc[w] \in Over
  BY DEF SaysLastWords, At, Polling, Over
<1>2. said'[w] = [cell |-> Cell(w), kind |-> kind, from |-> my[w].off, to |-> OutTo(w)]
  <2>1. Settled(w) /\ my[w].off \in 0..MaxOut /\ OutTo(w) \in 0..MaxOut
    BY <1>1, Placed, Fields DEF SaysLastWords, Settled
  <2> QED
    BY <2>1, Answering DEF SaysLastWords
<1>3. Fresh(w)
  BY <1>1, <1>2, Resumed DEF Fresh
<1>4. Truth(w)
  <2>1. Knows(w)
    BY DEF IInv, Each
  <2>2. OutTo(w) \in {out[Cell(w)], my[w].off + Chunk} \/ Torn(w)
    BY <1>1 DEF OutTo, LiveTo, ReadTo, Torn, At
  <2>3. my[w].rec => Cell(w) \in records
    BY <2>1 DEF Knows
  <2>4. ~my[w].rec /\ my[w].logged /\ ~my[w].doubt =>
          Cell(w) \notin records /\ Cell(w) # running
    BY <1>1, <2>1 DEF Knows
  <2> QED
    BY <1>2, <2>2, <2>3, <2>4 DEF Truth
<1> QED
  BY <1>3, <1>4

LEMMA Honest ==
  ASSUME IInv, NEW w \in Callers, Acts(w)
  PROVE  Silent(w) \/ (Truth(w) /\ Fresh(w))
<1>1. Each(w) /\ BooksOK
  BY DEF IInv
<1>2. CASE SaysDone(w)
  <2>1. pc[w] = "output" /\ pc[w] \in Polling \ {"record", "log"}
    BY <1>2 DEF SaysDone, At, Polling
  <2>2. Cell(w) \in records
    BY <1>1, <2>1 DEF Each, Knows
  <2> QED
    BY <1>2, <2>1, <2>2, HonestLive, HonestArchived DEF SaysDone
<1>3. CASE LooksForLog(w)
  <2>1. pc[w] \in Polling
    BY <1>3 DEF LooksForLog, At, Polling
  <2> QED
    BY <1>3, <2>1, HonestArchived DEF LooksForLog, Moves, Silent
<1>4. CASE LooksForMarker(w)
  <2>1. ASSUME Says(w, "notfound", 0, 0) PROVE Truth(w) /\ Fresh(w)
    <3>1. said'[w] = [cell |-> Cell(w), kind |-> "notfound", from |-> 0, to |-> 0]
      BY <1>1, <2>1 DEF BooksOK, Says
    <3>2. ~my[w].logged
      BY <1>1, <1>4 DEF LooksForMarker, At, Each, Knows
    <3> QED
      BY <3>1, <3>2 DEF Truth, Fresh
  <2> QED
    BY <1>4, <2>1 DEF LooksForMarker, Moves, Silent
<1>5. CASE SettlesByArchive(w)
  <2>1. pc[w] \in Polling
    BY <1>5 DEF SettlesByArchive, At, Polling
  <2> QED
    BY <1>5, <2>1, HonestArchived DEF SettlesByArchive, Moves, Silent
<1>6. CASE SaysLastWords(w)
  BY <1>6, HonestLastWords
<1>7. CASE Matches(w)
  <2>1. pc[w] \in Polling \ {"record", "log"}
    BY <1>7 DEF Matches, At, Polling
  <2>2. ASSUME Says(w, "running", my[w].off, my[w].scan) PROVE Truth(w) /\ Fresh(w)
    <3>1. said'[w] = [cell |-> Cell(w), kind |-> "running", from |-> my[w].off,
                      to |-> my[w].scan]
      BY <1>1, <2>2 DEF BooksOK, Says
    <3> QED
      BY <2>1, <3>1, Resumed DEF Truth, Fresh
  <2> QED
    BY <1>7, <2>2 DEF Matches, Moves, Silent
<1>8. CASE Expires(w)
  <2>1. pc[w] \in Polling \ {"record", "log"}
    BY <1>8 DEF Expires, At, Polling
  <2> QED
    BY <1>8, <2>1, HonestLive DEF Expires
<1>9. CASE Call(w) \/ Interrupt(w)
  <2>1. said' = [said EXCEPT ![w] = Silence]
    BY <1>9 DEF Call, Starts, Interrupt
  <2> QED
    BY <1>1, <2>1 DEF BooksOK, Silence, Silent
<1>10. CASE \/ LooksForRecord(w) \/ LooksForLife(w) \/ FindsDead(w) \/ FindsNotDead(w)
            \/ SettlesByRecord(w) \/ Scans(w) \/ PollsAgain(w) \/ Stops(w)
  BY <1>10 DEF LooksForRecord, LooksForLife, FindsDead, FindsNotDead, SettlesByRecord,
     Scans, PollsAgain, Stops, FindsInFlight, FindsNoneInFlight, ReadsMarker, JudgesGone,
     JudgesStanding, Discards, Requests, Checks, VerifiesOwner, Kills, Moves, Silent
<1> QED
  BY <1>2, <1>3, <1>4, <1>5, <1>6, <1>7, <1>8, <1>9, <1>10 DEF Acts, Waits

(* Whoever answered in a step is the caller that took it.                  *)
LEMMA EachHonest ==
  ASSUME IInv, [Next]_vars, NEW w \in Callers
  PROVE  Silent(w) \/ (Truth(w) /\ Fresh(w))
<1>1. ASSUME Kernel PROVE Silent(w)
  <2>1. said' = [u \in Callers |-> Silence]
    BY <1>1 DEF Kernel, Submit, Acknowledge, Begin, Publish, Unmark, Write, Finish, Die,
       Expire, Exit, Disown, Rotate, Spawn, Ready, Unheard
  <2> QED
    BY <2>1 DEF Silent, Silence
<1>2. ASSUME NEW u \in Callers, Acts(u) PROVE Silent(w) \/ (Truth(w) /\ Fresh(w))
  BY <1>2, Honest, ActsAlone DEF Apart, Silent
<1> QED
  BY <1>1, <1>2 DEF Next, Acts, vars, Silent

(* A wait says "done" of a cell that left its record, "died" or "the epoch *)
(* ended" of one that left none and runs no more - unless the kernel was   *)
(* alive and not ready yet -, each with its output to the end or a whole   *)
(* chunk of it, and "not found" of one that had no log (client.py:         *)
(* _follow, _kernel_known_dead, _settle_dead, _archived).                  *)
THEOREM AnswersAreTrue == Spec => AnswersTrue
<1>1. IInv /\ [Next]_vars => [\A w \in Callers : Answered(w) => Truth(w)]_vars
  BY EachHonest DEF Answered, Silent
<1> QED
  BY Invariant, <1>1, PTL DEF Spec, AnswersTrue, Truth

(* An implicit wait resumes where its caller was last served, whatever     *)
(* restart has moved the log and the cursor meanwhile (client.py:          *)
(* _archived_start, cells.py: load_offset).                                *)
THEOREM NothingComesTwice == Spec => NothingTwice
<1>1. IInv /\ [Next]_vars => [\A w \in Callers :
        Answered(w) /\ my[w].implicit /\ said'[w].kind # "notfound"
        /\ place[said'[w].cell] # "older"
          => said'[w].from = served[w][said'[w].cell]]_vars
  BY EachHonest DEF Answered, Silent, Fresh
<1> QED
  BY Invariant, <1>1, PTL DEF Spec, NothingTwice

(* In the kernel it was meant for, interrupt() hits the cell it captured,  *)
(* or one that began after its last look (client.py: interrupt,            *)
(* _target_stands).                                                        *)
THEOREM InterruptsHitHome == Spec => StruckAsMeant
<1>1. IInv /\ [Next]_vars => [\A w \in Callers :
        /\ At(w, "request") /\ pc'[w] = "look" /\ inc = my[w].entry => Hit(w)
        /\ At(w, "kill") /\ pc'[w] = "idle" /\ inc = my[w].entry => Hit(w)]_vars
  BY DEF IInv, Each, Aims, Captured, At
<1> QED
  BY Invariant, <1>1, PTL DEF Spec, StruckAsMeant
-----------------------------------------------------------------------------
(* What is taken for granted here is what Feed.tla promises. The number in *)
(* flight is the newest there is; and who has read the marker and finds it *)
(* unchanged judges the marker that is, and of a request that needs it no  *)
(* more: another will write its own.                                       *)
Spares(w) ==
  /\ pc[w] = "judge" /\ ~swapped[w] => marker = my[w].seen /\ my[w].stamp = inc
  /\ pc[w] = "discard" /\ ~swapped[w] /\ ~my[w].doubt => ~Needed
Covers ==
  /\ \A c \in Cells : place[c] # "none" =>
       /\ queued # 0 => c < queued
       /\ running # 0 => c <= running
  /\ \A w \in Callers : Spares(w)

LEMMA Numbers ==
  ASSUME IInv
  PROVE  /\ MaxCell \in Nat /\ queued \in 0..MaxCell /\ running \in 0..MaxCell
         /\ current \in 0..MaxCell /\ marker \in 0..MaxCell + 1 /\ inc \in Nat
         /\ Unnamed = MaxCell + 1 /\ Cells = 1..MaxCell
BY Sizes DEF IInv, KernelOK

(* _pending_discharged says so of no marker that is needed.                *)
LEMMA JudgingSpares ==
  ASSUME IInv, Covers, kernel = "up", Discharged(marker, inc)
  PROVE  ~Needed
<1> SUFFICES ASSUME queued # 0 \/ running # 0
             PROVE  FALSE
  BY DEF Needed
<1>1. FilesOK /\ Flight /\ Working
  BY DEF IInv, Working, Alive
<1>2. marker \in Cells /\ (Recorded(marker) \/ current > marker)
  BY DEF Discharged
<1>3. CASE queued # 0
  <2>1. marker = queued /\ place[queued] = "none"
    BY <1>1, <1>2, <1>3 DEF Flight, FilesOK
  <2>2. current > queued
    BY <1>2, <2>1 DEF Recorded, Live
  <2>3. current \in Cells /\ place[current] # "none"
    BY <1>1, <2>2, Numbers DEF FilesOK, Live
  <2>4. current < queued
    BY <1>3, <2>3 DEF Covers
  <2> QED
    BY <2>2, <2>4, Numbers
<1>4. CASE running # 0
  <2>1. marker = running /\ running \notin records
    BY <1>1, <1>2, <1>4 DEF Flight, FilesOK
  <2>2. current > running
    BY <1>2, <2>1 DEF Recorded
  <2>3. current \in Cells /\ place[current] # "none"
    BY <1>1, <2>2, Numbers DEF FilesOK, Live
  <2>4. current <= running
    BY <1>4, <2>3 DEF Covers
  <2> QED
    BY <2>2, <2>4, Numbers
<1> QED
  BY <1>3, <1>4

(* What a caller's step changes of what the feed shows: the marker, and    *)
(* only where is_busy() unlinks it.                                        *)
LEMMA ActsAsk ==
  ASSUME IInv, NEW w \in Callers, Acts(w)
  PROVE  /\ UNCHANGED <<kernel, inc, queued, running, current, place, out, records>>
         /\ marker' = marker \/ Discards(w)
<1>1. UNCHANGED <<kernel, inc, queued, running, current, place, out, records>>
  BY ActsAlone DEF Apart
<1>2. ASSUME ~Discards(w) PROVE UNCHANGED marker
  BY <1>2 DEF Acts, Waits, Stops, Call, Starts, Interrupt, LooksForRecord, SaysDone,
     SaysLive, SaysArchived, Says, LooksForLog, LooksForLife, LooksForMarker,
     FindsDead, FindsNotDead, SettlesByRecord, SettlesByArchive, SaysLastWords, Scans,
     Matches, PollsAgain, Expires, FindsInFlight, FindsNoneInFlight, ReadsMarker,
     JudgesGone, JudgesStanding, Requests, Checks, VerifiesOwner, Kills, Moves,
     kernelVars
<1> QED
  BY <1>1, <1>2

(* Whoever is about to unlink the marker, or to judge it.                  *)
LEMMA SparesActs ==
  ASSUME IInv, Covers, NEW w \in Callers, Acts(w), NEW u \in Callers
  PROVE  Spares(u)'
<1>1. /\ UNCHANGED <<kernel, inc, queued, running, current, place, records>>
      /\ Apart(w) /\ BooksOK /\ Spares(u)
  BY ActsAsk, ActsAlone DEF IInv, Covers
<1>2. CASE u # w
  <2>1. /\ pc'[u] = pc[u] /\ my'[u] = my[u]
        /\ swapped'[u] = (swapped[u] \/ (At(w, "discard") /\ pc[u] \in Judging))
    BY <1>1, <1>2 DEF Apart
  <2>2. marker' = marker \/ At(w, "discard")
    BY ActsAsk DEF Discards
  <2> QED
    BY <1>1, <2>1, <2>2 DEF Spares, Needed, Alive, Judging
<1>3. CASE u = w
  <2>1. CASE ReadsMarker(w)
    <3>1. /\ pc[w] = "pending" /\ marker' = marker
          /\ \/ pc' = [pc EXCEPT ![w] = "idle"]
             \/ /\ pc' = [pc EXCEPT ![w] = "judge"]
                /\ my' = [my EXCEPT ![w] = [my[w] EXCEPT !.seen = marker, !.stamp = inc]]
      BY <2>1 DEF ReadsMarker, At, Goto, Leaves, kernelVars
    <3>2. CASE pc' = [pc EXCEPT ![w] = "idle"]
      BY <1>1, <1>3, <3>2 DEF Spares, BooksOK
    <3>3. CASE /\ pc' = [pc EXCEPT ![w] = "judge"]
               /\ my' = [my EXCEPT ![w] = [my[w] EXCEPT !.seen = marker, !.stamp = inc]]
      <4>1. /\ pc'[w] = "judge"
            /\ my'[w] = [my[w] EXCEPT !.seen = marker, !.stamp = inc]
        BY <1>1, <3>3 DEF BooksOK
      <4>2. my'[w].seen = marker /\ my'[w].stamp = inc
        BY <1>1, <4>1 DEF BooksOK, Calls
      <4> QED
        BY <1>1, <1>3, <3>1, <4>1, <4>2 DEF Spares
    <3> QED
      BY <3>1, <3>2, <3>3
  <2>2. CASE JudgesGone(w)
    <3>1. /\ pc[w] = "judge" /\ pc' = [pc EXCEPT ![w] = "discard"]
          /\ my' = [my EXCEPT ![w] = [Nowhere EXCEPT !.doubt = KnownDead /\ Alive]]
          /\ UNCHANGED swapped
          /\ KnownDead \/ Discharged(my[w].seen, my[w].stamp)
      BY <2>2 DEF JudgesGone, At, Goto
    <3>2. pc'[w] = "discard" /\ my'[w].doubt = (KnownDead /\ Alive)
      BY <1>1, <3>1 DEF BooksOK, Nowhere
    <3>3. ASSUME ~swapped[w], ~(KnownDead /\ Alive) PROVE ~Needed
      <4>1. CASE KnownDead
        BY <3>3, <4>1 DEF Needed
      <4>2. CASE ~KnownDead
        <5>1. kernel = "up" /\ Discharged(marker, inc)
          BY <1>1, <1>3, <3>1, <3>3, <4>2 DEF Spares, KnownDead
        <5> QED
          BY <5>1, JudgingSpares
      <4> QED
        BY <4>1, <4>2
    <3> QED
      BY <1>1, <1>3, <3>1, <3>2, <3>3 DEF Spares, Needed, Alive
  <2>3. CASE ~ReadsMarker(w) /\ ~JudgesGone(w)
    <3>1. pc'[w] \notin Judging
      <4>1. GoesOn(w) \/ Ends(w) \/ Turns(w)
        BY ThreeWays
      <4>2. CASE GoesOn(w)
        <5>1. PICK next \in Polling : pc' = [pc EXCEPT ![w] = next]
          BY <4>2 DEF GoesOn, Moves, Goto
        <5> QED
          BY <1>1, <5>1 DEF BooksOK, Polling, Judging
      <4>3. CASE Ends(w)
        BY <4>3 DEF Ends, Judging
      <4>4. CASE Turns(w)
        <5>1. PICK next \in {"record", "settle", "lastwords", "archive", "match", "late",
                             "ask", "pending", "look", "verify", "request", "kill"} :
                pc' = [pc EXCEPT ![w] = next]
          BY <2>3, <4>4 DEF Turns, Call, Starts, FindsDead, SettlesByRecord, Scans,
             Interrupt, FindsInFlight, FindsNoneInFlight, JudgesStanding, Told, Onward,
             Requests, Checks, VerifiesOwner, Moves, Goto
        <5> QED
          BY <1>1, <5>1 DEF BooksOK, Judging
      <4> QED
        BY <4>1, <4>2, <4>3, <4>4
    <3> QED
      BY <1>3, <3>1 DEF Spares, Judging
  <2> QED
    BY <2>1, <2>2, <2>3
<1> QED
  BY <1>2, <1>3

(* No step of a kernel or a submitter makes a request need the marker that *)
(* was judged, but for the one that writes another.                        *)
LEMMA SparesKernel ==
  ASSUME IInv, Covers, Kernel, NEW u \in Callers
  PROVE  Spares(u)'
<1> USE Numbers DEF Spares, Needed, Alive, Unheard, Remark, Judging, kernelVars, cellVars,
        callerVars
<1>1. Spares(u) /\ KernelOK /\ FilesOK /\ BooksOK /\ Flight /\ Aims(u)
  BY DEF Covers, IInv, Each
<1>2. CASE Submit
  BY <1>1, <1>2 DEF Submit
<1>3. CASE Acknowledge
  BY <1>1, <1>3 DEF Acknowledge
<1>4. CASE Begin
  <2>1. pc[u] = "discard" => swapped[u] \/ my[u].doubt
    BY <1>1, <1>4 DEF Begin
  <2>2. UNCHANGED <<marker, inc, my, pc>> /\ (swapped[u] => swapped'[u])
    BY <1>1, <1>4 DEF Begin
  <2> QED
    BY <1>1, <2>1, <2>2
<1>5. CASE Publish
  BY <1>1, <1>5 DEF Publish
<1>6. CASE Unmark
  BY <1>1, <1>6 DEF Unmark
<1>7. CASE Finish
  BY <1>1, <1>7 DEF Finish
<1>8. CASE Write
  BY <1>1, <1>8 DEF Write
<1>9. CASE Die
  BY <1>1, <1>9 DEF Die
<1>10. CASE Expire
  BY <1>1, <1>10 DEF Expire
<1>11. CASE Exit
  BY <1>1, <1>11 DEF Exit
<1>12. CASE Disown
  BY <1>1, <1>12 DEF Disown
<1>13. CASE Rotate
  BY <1>1, <1>13 DEF Rotate
<1>14. CASE Spawn
  <2>1. marker = 0 /\ queued = 0 /\ running = 0
    BY <1>1, <1>14 DEF Spawn, Flight, KernelOK
  <2>2. pc[u] = "judge" => swapped[u]
    BY <1>1, <2>1 DEF Aims
  <2> QED
    BY <1>1, <1>14, <2>1, <2>2 DEF Spawn
<1>15. CASE Ready
  BY <1>1, <1>15 DEF Ready
<1> QED
  BY <1>2, <1>3, <1>4, <1>5, <1>6, <1>7, <1>8, <1>9, <1>10, <1>11, <1>12, <1>13, <1>14, <1>15
     DEF Kernel

LEMMA CoversKept == ASSUME IInv, Covers, [Next]_vars PROVE Covers'
<1> USE Numbers DEF kernelVars, cellVars
<1> DEFINE Newest == \A c \in Cells : place[c] # "none" =>
                       /\ queued # 0 => c < queued
                       /\ running # 0 => c <= running
<1>1. Newest
  BY DEF Covers
<1>2. ASSUME NEW w \in Callers, Acts(w) PROVE Covers'
  <2>1. Newest'
    BY <1>1, <1>2, ActsAsk
  <2> QED
    BY <1>2, <2>1, SparesActs DEF Covers
<1>3. ASSUME Kernel PROVE Newest'
  <2>1. CASE Submit
    BY <1>1, <2>1 DEF Submit
  <2>2. CASE Begin
    <3>1. /\ queued # 0 /\ running' = queued /\ queued' = 0 /\ queued \in Cells
          /\ place' = [place EXCEPT ![queued] = "live"]
      BY <2>2 DEF Begin
    <3>2. \A c \in Cells : place'[c] # "none" => c = queued \/ place[c] # "none"
      BY <3>1 DEF IInv, FilesOK
    <3> QED
      BY <1>1, <3>1, <3>2
  <2>3. CASE Acknowledge \/ Publish \/ Unmark
    BY <1>1, <2>3 DEF Acknowledge, Publish, Unmark
  <2>4. CASE Finish \/ Write
    BY <1>1, <2>4 DEF Finish, Write
  <2>5. CASE Die \/ Expire \/ Exit
    BY <1>1, <2>5 DEF Die, Expire, Exit
  <2>6. CASE Disown \/ Spawn \/ Ready
    BY <1>1, <2>6 DEF Disown, Spawn, Ready
  <2>7. CASE Rotate
    <3>1. queued' = 0 /\ running' = 0
      BY <2>7 DEF Rotate, IInv, KernelOK, Alive
    <3> QED
      BY <3>1
  <2> QED
    BY <1>3, <2>1, <2>2, <2>3, <2>4, <2>5, <2>6, <2>7 DEF Kernel
<1>4. CASE Kernel
  BY <1>3, <1>4, SparesKernel DEF Covers
<1>5. CASE UNCHANGED vars
  BY <1>5 DEF vars, callerVars, Covers, Spares, Needed, Alive
<1> QED
  BY <1>2, <1>4, <1>5 DEF Next, Acts

(* A cell in flight that is not published: the one shown is settled, and   *)
(* the marker, if it stands, names no other.                               *)
LEMMA InTheFeed ==
  ASSUME IInv, Needed, ~Stripped, NEW n, n = IF queued # 0 THEN queued ELSE running
  PROVE  F!MayBe(n)
<1>1. Alive /\ Working /\ (queued # 0 \/ running # 0) /\ Flight /\ FilesOK
  BY Numbers DEF IInv, Needed, Working
<1>2. queued # 0 => running = 0
  BY <1>1 DEF Flight
<1>3. current # 0 => current \in records /\ Live(current)
  BY <1>1, <1>2 DEF Flight, FilesOK, Needed
<1>4. ~F!Open
  BY <1>3, Numbers DEF F!Open, Recorded, Terminal
<1>5. marker \in Cells => marker = n
  BY <1>1, <1>2 DEF Flight
<1>6. marker # 0
  BY DEF Stripped
<1> QED
  BY <1>1, <1>4, <1>5, <1>6 DEF F!MayBe

LEMMA FeedActs ==
  ASSUME IInv, Covers, NEW w \in Callers, Acts(w), ~Mistaken
  PROVE  [F!Next]_(F!fvars)
<1>1. UNCHANGED <<kernel, inc, queued, running, current, place, out, records>>
  BY ActsAsk
<1>2. CASE marker' = marker
  BY <1>1, <1>2 DEF F!fvars, Recorded, Live, Logged, Terminal, Alive
<1>3. CASE marker' # marker
  <2>1. At(w, "discard") /\ pc'[w] = "idle" /\ marker' = 0
    BY <1>3, ActsAsk DEF Discards, Goto, IInv, BooksOK
  <2>2. ~Needed
    BY <2>1 DEF Mistaken, Covers, Spares, At
  <2>3. Alive /\ (queued # 0 \/ running # 0) => running # 0 /\ current = running
    BY <2>2 DEF Needed
  <2>4. running # 0 => ~Recorded(running)
    BY DEF IInv, FilesOK, Recorded
  <2>5. F!Unmark
    BY <1>1, <2>1, <2>3, <2>4, Numbers
       DEF F!Unmark, F!Open, Recorded, Live, Logged, Terminal, Alive
  <2> QED
    BY <2>5 DEF F!Next
<1> QED
  BY <1>2, <1>3

LEMMA FeedKernel ==
  ASSUME IInv, IInv', Covers, Kernel, ~Stripped, ~Mistaken
  PROVE  [F!Next]_(F!fvars)
<1> USE Numbers DEF kernelVars, cellVars, Remark
<1>1. KernelOK /\ FilesOK /\ Flight
  BY DEF IInv
<1>2. CASE Submit
  <2>1. /\ Alive /\ Alive' /\ queued = 0 /\ running = 0 /\ queued' # 0
        /\ marker' = Unnamed /\ UNCHANGED <<running, current, place, records>>
    BY <1>2 DEF Submit, Alive
  <2>2. current # 0 => Recorded(current)
    BY <1>1, <2>1 DEF Flight, FilesOK, Recorded, Working
  <2>3. F!Accept
    BY <2>1, <2>2 DEF F!Accept, F!Open, Recorded, Live, Logged, Terminal
  <2> QED
    BY <2>3 DEF F!Next
<1>3. CASE Acknowledge
  <2>1. marker' \in Cells /\ UNCHANGED <<kernel, queued, running, current, place, records>>
    BY <1>3 DEF Acknowledge
  <2>2. marker # 0
    BY <1>3 DEF Acknowledge, Stripped
  <2>3. F!Mark
    BY <2>1, <2>2 DEF F!Mark, Recorded, Live, Logged, Terminal, Alive
  <2> QED
    BY <2>3 DEF F!Next
<1>4. CASE Begin
  <2>1. /\ queued \in Cells /\ running' = queued /\ queued' = 0
        /\ UNCHANGED <<kernel, current, marker, records>>
        /\ place' = [place EXCEPT ![queued] = "live"] /\ place[queued] = "none"
        /\ queued \notin records /\ Needed /\ Alive
    BY <1>1, <1>4 DEF Begin, FilesOK, Needed
  <2>2. Logged' = Logged \cup {queued}
    BY <1>1, <2>1 DEF Logged, FilesOK
  <2>3. Terminal' = Terminal
    BY <1>1, <2>1 DEF Terminal, Recorded, Live, FilesOK
  <2>4. \A l \in Logged : l < queued
    BY <2>1 DEF Logged, Covers
  <2>5. F!MayBe(queued)
    BY <2>1, InTheFeed
  <2>6. F!Log(queued)
    BY <2>1, <2>2, <2>3, <2>4, <2>5 DEF F!Log, Alive
  <2>7. queued \in Logged'
    BY <2>2
  <2> QED
    BY <2>6, <2>7 DEF F!Next
<1>5. CASE Publish
  <2>1. /\ running \in Cells /\ current # running /\ current' = running
        /\ UNCHANGED <<kernel, queued, running, marker, place, records>> /\ Alive
    BY <1>1, <1>5 DEF Publish, KernelOK
  <2>2. queued = 0 /\ Live(running) /\ ~Recorded(running)
    BY <1>1, <2>1 DEF Flight, FilesOK, Recorded
  <2>3. F!MayBe(running)
    BY <2>1, <2>2, InTheFeed DEF Needed
  <2>4. Logged' = Logged /\ Terminal' = Terminal /\ running \in Logged
    BY <2>1, <2>2 DEF Logged, Terminal, Recorded, Live
  <2>5. \A l \in Logged : l < running \/ l = running
    BY <2>1 DEF Logged, Covers
  <2>6. F!Show(running)
    BY <2>1, <2>2, <2>3, <2>4, <2>5 DEF F!Show, Terminal, Alive
  <2>7. running \in Logged'
    BY <2>4
  <2> QED
    BY <2>6, <2>7 DEF F!Next
<1>6. CASE Unmark
  <2>1. marker' = 0 /\ UNCHANGED <<kernel, queued, running, current, place, records>>
    BY <1>6 DEF Unmark
  <2>2. Alive /\ (queued # 0 \/ running # 0) => running # 0 /\ current = running
    BY <1>6, <2>1 DEF Unmark, Alive, Mistaken
  <2>3. running # 0 => ~Recorded(running)
    BY <1>1 DEF FilesOK, Recorded
  <2>4. F!Unmark
    BY <2>1, <2>2, <2>3 DEF F!Unmark, F!Open, Recorded, Live, Logged, Terminal, Alive
  <2> QED
    BY <2>4 DEF F!Next
<1>7. CASE Finish
  <2>1. /\ running # 0 /\ current = running /\ running' = 0
        /\ records' = records \cup {running}
        /\ UNCHANGED <<kernel, queued, current, marker, place>> /\ Alive
    BY <1>1, <1>7 DEF Finish, KernelOK
  <2>2. queued = 0 /\ Live(running) /\ ~Recorded(running)
    BY <1>1, <2>1 DEF Flight, FilesOK, Recorded
  <2>3. Logged' = Logged /\ Terminal' = Terminal \cup {current}
    BY <2>1, <2>2 DEF Logged, Terminal, Recorded, Live
  <2>4. F!Open
    BY <2>1, <2>2 DEF F!Open, Terminal
  <2>5. F!Settle
    BY <2>1, <2>2, <2>3, <2>4 DEF F!Settle
  <2> QED
    BY <2>5 DEF F!Next
<1>8. CASE Die
  <2>1. F!Lose
    BY <1>8 DEF Die, F!Lose, Recorded, Live, Logged, Terminal, Alive
  <2> QED
    BY <2>1 DEF F!Next
<1>9. CASE Expire
  <2>1. F!Lose
    BY <1>9 DEF Expire, F!Lose, Recorded, Live, Logged, Terminal, Alive
  <2> QED
    BY <2>1 DEF F!Next
<1>10. CASE Rotate
  <2>1. /\ ~Alive /\ ~Alive' /\ current' = 0 /\ marker' = 0
        /\ UNCHANGED <<queued, running>>
    BY <1>10 DEF Rotate, Alive
  <2>2. \A c \in Cells : (place'[c] # "none" <=> place[c] # "none") /\ place'[c] # "live"
    BY <1>1, <1>10 DEF Rotate, FilesOK
  <2>3. Logged' = Logged
    BY <2>2 DEF Logged
  <2>4. Terminal' = {}
    BY <2>2 DEF Terminal, Recorded, Live
  <2>5. F!Rotate
    BY <2>1, <2>3, <2>4 DEF F!Rotate
  <2> QED
    BY <2>5 DEF F!Next
<1>11. CASE Write
  BY <1>11 DEF Write, F!fvars, Recorded, Live, Logged, Terminal, Alive
<1>12. CASE Exit \/ Disown \/ Ready
  BY <1>12 DEF Exit, Disown, Ready, F!fvars, Recorded, Live, Logged, Terminal, Alive
<1>13. CASE Spawn
  <2>1. queued = 0 /\ running = 0
    BY <1>1, <1>13 DEF Spawn, KernelOK, Alive
  <2> QED
    BY <1>13, <2>1 DEF Spawn, F!fvars, Recorded, Live, Logged, Terminal
<1> QED
  BY <1>2, <1>3, <1>4, <1>5, <1>6, <1>7, <1>8, <1>9, <1>10, <1>11, <1>12, <1>13 DEF Kernel

(* The kernels and submitters that the answers and the interrupts are      *)
(* proved against do what Feed.tla says, and so do the callers, but where  *)
(* the is_busy() of an interrupter unlinks a marker written since it read  *)
(* one, or took a kernel without its ready file for dead (Mistaken), and   *)
(* while a request goes without the marker it lost that way (Stripped).    *)
THEOREM FeedsOnIt == Spec => FeedSpec
<1>1. Init => Covers /\ F!Init
  BY Numbers, Starting DEF Init, Covers, Spares, F!Init, Recorded, Live, Logged, Terminal
<1>2. IInv /\ Covers /\ [Next]_vars => Covers'
  BY CoversKept
<1>3. IInv /\ IInv' /\ Covers /\ [Next]_vars => [Stripped \/ Mistaken \/ F!Next]_(F!fvars)
  <2> SUFFICES ASSUME IInv, IInv', Covers, [Next]_vars, ~Stripped, ~Mistaken
               PROVE  [F!Next]_(F!fvars)
    OBVIOUS
  <2>1. ASSUME NEW w \in Callers, Acts(w) PROVE [F!Next]_(F!fvars)
    BY <2>1, FeedActs
  <2>2. CASE Kernel
    BY <2>2, FeedKernel
  <2>3. CASE UNCHANGED vars
    BY <2>3 DEF vars, kernelVars, cellVars, F!fvars, Recorded, Live, Logged, Terminal, Alive
  <2> QED
    BY <2>1, <2>2, <2>3 DEF Next, Acts
<1> QED
  BY <1>1, <1>2, <1>3, Invariant, PTL DEF Spec, FeedSpec
=============================================================================

-------------------------------- MODULE Feed --------------------------------
(***************************************************************************)
(* What those who submit cells to a key promise those who follow, read and *)
(* interrupt them (exec_cell and the cell hooks towards wait_cell and      *)
(* interrupt, src/src/ptc/client.py): in what order the marker, the logs,  *)
(* current.json and the records may change around the one request that a   *)
(* kernel holds.  Admission keeps the promise, Waiting asks for no more.   *)
(***************************************************************************)
EXTENDS Naturals

VARIABLES
  held,     \* has the kernel a request that has no record yet?
  marked,   \* does pending.json stand?
  named,    \* the cell that it names, or 0
  logs,     \* the cells that have a log, in cells/ or archived
  shown,    \* the cell that current.json names, or 0
  done      \* the cells with a record in cells/

fvars == <<held, marked, named, logs, shown, done>>

Init ==
  /\ held = FALSE /\ marked = FALSE /\ named = 0
  /\ logs = {} /\ shown = 0 /\ done = {}

(* The cell shown is still without a record.                               *)
Open == shown # 0 /\ shown \notin done

(* The marker is written, or written again with the cell it is about.      *)
Mark ==
  /\ marked' = TRUE /\ named' \in Nat
  /\ UNCHANGED <<held, logs, shown, done>>

(* A request is sent to a kernel that has settled everything, and from     *)
(* then on a marker that names no cell speaks for it.                      *)
Accept ==
  /\ ~held /\ ~Open
  /\ held' = TRUE /\ marked' = TRUE /\ named' = 0
  /\ UNCHANGED <<logs, shown, done>>

(* It may begin as cell n: the marker is about that cell or names none.    *)
MayBe(n) == held /\ ~Open /\ marked /\ named \in {0, n}

(* A cell begins under a number above every log there is.                  *)
Log(n) ==
  /\ MayBe(n)
  /\ \A l \in logs : l < n
  /\ logs' = logs \cup {n}
  /\ UNCHANGED <<held, marked, named, shown, done>>

(* current.json names it, once its log is open.                            *)
Show(n) ==
  /\ MayBe(n) /\ n # 0 /\ n \notin done
  /\ \A l \in logs : l < n \/ (l = n /\ shown # n)
  /\ shown' = n
  /\ logs' = logs \cup {n}
  /\ UNCHANGED <<held, marked, named, done>>

(* From then on the marker is not needed, nor where nothing is held.       *)
Unmark ==
  /\ held => Open
  /\ marked' = FALSE /\ named' = 0
  /\ UNCHANGED <<held, logs, shown, done>>

Settle ==
  /\ held /\ Open
  /\ held' = FALSE
  /\ done' = done \cup {shown}
  /\ UNCHANGED <<marked, named, logs, shown>>

(* The kernel goes, and with it what it held.                              *)
Lose == held' = FALSE /\ UNCHANGED <<marked, named, logs, shown, done>>

(* A restart starts over, but for the numbers.                             *)
Rotate ==
  /\ ~held
  /\ marked' = FALSE /\ named' = 0 /\ shown' = 0 /\ done' = {}
  /\ UNCHANGED <<held, logs>>

(* The bootstrap cell has a record and is never shown.                     *)
Boot ==
  /\ ~held /\ shown = 0
  /\ done' = {1}
  /\ UNCHANGED <<held, marked, named, logs, shown>>

Next ==
  \/ Mark \/ Accept \/ Unmark \/ Settle \/ Lose \/ Rotate \/ Boot
  \/ \E n \in logs' : Log(n) \/ Show(n)

Spec == Init /\ [][Next]_fvars
=============================================================================

-------------------------------- MODULE Agent --------------------------------
(***************************************************************************)
(* What a named agent promises those who hold its handles (AgentHandle,    *)
(* _claim_name: src/src/ptc/runtime/agents.py).  A name stands for one     *)
(* session at a time; a session is opened once and never again once it is  *)
(* gone; the answer that result() waits for is given once; a follow-up     *)
(* turn begins on an open session that is at rest.                         *)
(***************************************************************************)
CONSTANTS Handles, None

VARIABLES bearer,    \* the handle that the name stands for
          session,   \* of each handle: "ahead", "open" or "gone"
          working,   \* the handles whose driver is under way
          answer     \* what result() returns of each: "pending" until settled

avars == <<bearer, session, working, answer>>

Init ==
  /\ bearer = None /\ working = {}
  /\ session = [h \in Handles |-> "ahead"]
  /\ answer = [h \in Handles |-> "pending"]

NoneOpen == \A h \in Handles : session[h] # "open"

(* The first to answer is the last.                                        *)
Says(h, what) ==
  answer' = [answer EXCEPT ![h] = IF @ = "pending" THEN what ELSE @]

(* A new handle takes the name, and its driver sets out.                   *)
Take(h) ==
  /\ session[h] = "ahead" /\ answer[h] = "pending" /\ h \notin working
  /\ NoneOpen
  /\ bearer' = h
  /\ working' = working \cup {h}
  /\ UNCHANGED <<session, answer>>

(* Only the bearer's session opens; a resumed one answers with that.       *)
Open(h) ==
  /\ bearer = h /\ h \in working /\ session[h] = "ahead" /\ NoneOpen
  /\ session' = [session EXCEPT ![h] = "open"]
  /\ \/ UNCHANGED <<working, answer>>
     \/ working' = working \ {h} /\ Says(h, "value")
  /\ UNCHANGED bearer

(* A turn ends well.                                                       *)
Answer(h) ==
  /\ h \in working
  /\ working' = working \ {h}
  /\ Says(h, "value")
  /\ UNCHANGED <<bearer, session>>

FollowUp(h) ==
  /\ bearer = h /\ session[h] = "open"
  /\ answer[h] # "pending" /\ h \notin working
  /\ working' = working \cup {h}
  /\ UNCHANGED <<bearer, session, answer>>

(* A failure, an interrupt, a close or a cancellation, from any side: what *)
(* has begun ends, nothing begins.  A session still ahead is given up by   *)
(* its driver, and by nobody else.                                         *)
WindDown(h) ==
  /\ working' \in {working, working \ {h}}
  /\ \/ UNCHANGED session
     \/ /\ session[h] = "open" \/ h \in working \ working'
        /\ session' = [session EXCEPT ![h] = "gone"]
  /\ UNCHANGED answer \/ Says(h, "exception")
  /\ UNCHANGED bearer

(* The kernel goes, and with it every handle there was.                    *)
Restart ==
  /\ bearer' = None /\ working' = {}
  /\ answer' = [h \in Handles |-> "pending"]
  /\ \E made \in SUBSET Handles :
       /\ \A h \in Handles : session[h] # "ahead" => h \in made
       /\ session' = [h \in Handles |-> IF h \in made THEN "gone" ELSE session[h]]

Next ==
  \/ \E h \in Handles : WindDown(h) \/ Take(h) \/ Open(h) \/ Answer(h) \/ FollowUp(h)
  \/ Restart

Spec == Init /\ [][Next]_avars
=============================================================================

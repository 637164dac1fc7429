---------------------------- MODULE AgentProofs ----------------------------
(***************************************************************************)
(* Handles implement named agents: for any number of handles, calling      *)
(* tasks, permits and turns, every step of AgentHandle is a step of Agent  *)
(* or changes nothing that Agent tells.                                    *)
(*                                                                         *)
(* Most steps, from either side, wind a handle down or leave it as it is   *)
(* (Winds); a session opens only in a driver that was not cancelled, whose *)
(* handle therefore still runs and still bears the name (Sound, Handled).  *)
(***************************************************************************)
EXTENDS AgentHandleProofs

Works(r) == r.phase \notin Over \cup {"none"}

(* The state of Agent that a state of AgentHandle stands for.              *)
Sessions == [h \in Handles |-> Stage(handle[h])]
Working == {h \in Handles : Works(handle[h])}
Answers == [h \in Handles |-> handle[h].result]

(* What a step that begins nothing does to the handle r.                   *)
Winds(r, s) ==
  /\ Works(s) => Works(r)
  /\ Stage(s) # Stage(r) =>
       Stage(s) = "gone" /\ (Stage(r) = "open" \/ (Works(r) /\ ~Works(s)))
  /\ s.result \in {r.result, IF r.result = "pending" THEN "exception" ELSE r.result}

Finishes(r, s) ==
  /\ Works(r) /\ ~Works(s) /\ Stage(s) = Stage(r)
  /\ s.result = IF r.result = "pending" THEN "value" ELSE r.result

(* A step that changes one handle, and tells Agent no more.                *)
Step(h, s) ==
  /\ h \in Handles /\ s \in Handle
  /\ handle' = [handle EXCEPT ![h] = s]
  /\ bound' = bound

-----------------------------------------------------------------------------
LEMMA Changed ==
  ASSUME IInv, NEW h, NEW s, Step(h, s)
  PROVE  /\ Sessions' = [Sessions EXCEPT ![h] = Stage(s)]
         /\ Working' = IF Works(s) THEN Working \cup {h} ELSE Working \ {h}
         /\ Answers' = [Answers EXCEPT ![h] = s.result]
         /\ Sessions[h] = Stage(handle[h]) /\ Answers[h] = handle[h].result
         /\ h \in Working <=> Works(handle[h])
         /\ Stage(s) = Stage(handle[h]) => Sessions' = Sessions
         /\ s.result = handle[h].result => Answers' = Answers
<1>1. handle \in [Handles -> Handle] /\ h \in Handles
  BY DEF IInv, Typed, Step
<1>2. \A g \in Handles : handle'[g] = IF g = h THEN s ELSE handle[g]
  BY <1>1 DEF Step
<1>3. \A g \in Handles : Stage(handle[g])' = Stage(handle'[g])
  BY DEF Stage, Ahead
<1>4. /\ Sessions' = [g \in Handles |-> IF g = h THEN Stage(s) ELSE Stage(handle[g])]
      /\ Answers' = [g \in Handles |-> IF g = h THEN s.result ELSE handle[g].result]
  BY <1>2, <1>3 DEF Sessions, Answers
<1>5. Working' = IF Works(s) THEN Working \cup {h} ELSE Working \ {h}
  BY <1>1, <1>2 DEF Working, Works
<1> QED
  BY <1>1, <1>4, <1>5 DEF Sessions, Working, Answers

LEMMA Winding ==
  ASSUME IInv, NEW h, NEW s, Step(h, s), Winds(handle[h], s)
  PROVE  A!Next
<1>1. bound' = bound /\ h \in Handles
  BY DEF Step
<1>2. Working' \in {Working, Working \ {h}}
  BY Changed DEF Winds
<1>3. \/ Sessions' = Sessions
      \/ /\ Sessions[h] = "open" \/ h \in Working \ Working'
         /\ Sessions' = [Sessions EXCEPT ![h] = "gone"]
  <2>1. CASE Stage(s) = Stage(handle[h])
    BY <2>1, Changed
  <2>2. CASE Stage(s) # Stage(handle[h])
    BY <2>2, Changed DEF Winds
  <2> QED
    BY <2>1, <2>2
<1>4. \/ Answers' = Answers
      \/ Answers' = [Answers EXCEPT ![h] = IF @ = "pending" THEN "exception" ELSE @]
  <2>1. CASE s.result = handle[h].result
    BY <2>1, Changed
  <2>2. CASE s.result # handle[h].result
    BY <2>2, Changed DEF Winds
  <2> QED
    BY <2>1, <2>2
<1>5. A!WindDown(h)
  BY <1>1, <1>2, <1>3, <1>4 DEF A!WindDown, A!Says, Sessions, Working, Answers, Works
<1> QED
  BY <1>1, <1>5 DEF A!Next

LEMMA Finishing ==
  ASSUME IInv, NEW h, NEW s, Step(h, s), Finishes(handle[h], s)
  PROVE  A!Next
<1>1. bound' = bound /\ h \in Handles
  BY DEF Step
<1>2. h \in Working /\ Working' = Working \ {h}
  BY Changed DEF Finishes
<1>3. Sessions' = Sessions
  BY Changed DEF Finishes
<1>4. Answers' = [Answers EXCEPT ![h] = IF @ = "pending" THEN "value" ELSE @]
  BY Changed DEF Finishes
<1>5. A!Answer(h)
  BY <1>1, <1>2, <1>3, <1>4 DEF A!Answer, A!Says, Sessions, Working, Answers, Works
<1> QED
  BY <1>1, <1>5 DEF A!Next

(* Only the handle that bears the name can be running or have a session.   *)
LEMMA Bearing ==
  ASSUME IInv, NEW h \in Handles, handle[h].status = "running", ~handle[h].session
  PROVE  bound = h /\ \A g \in Handles : Sessions[g] # "open"
<1>1. bound = h
  BY DEF IInv, Handled
<1>2. ASSUME NEW g \in Handles, handle[g].session PROVE FALSE
  BY <1>1, <1>2 DEF IInv, Handled
<1>3. \A g \in Handles : handle[g].session \in BOOLEAN
  BY DEF IInv, Typed, Handle
<1> QED
  BY <1>1, <1>2, <1>3 DEF Sessions, Stage

-----------------------------------------------------------------------------
(* On the way to a session.                                                *)
Setting == {"unstarted", "queued", "connecting", "opening", "undo"}

(* A handle winds down where nothing opens, answers with a value or sets   *)
(* out anew.                                                               *)
Fades(r, s) ==
  /\ s.session => r.session
  /\ Works(s) => Works(r)
  /\ r.turns = 0 /\ r.kind # "host" =>
       /\ s.phase \in Setting => r.phase \in Setting
       /\ r.phase \in Setting => s.phase \in Setting \cup Over
  /\ s.result \in {r.result, IF r.result = "pending" THEN "exception" ELSE r.result}

LEMMA Fading ==
  ASSUME NEW r \in Handle, NEW s \in Handle, Sound(r), Sound(s),
         r.phase # "none", s.phase # "none", s.kind = r.kind, s.turns = r.turns,
         Fades(r, s)
  PROVE  Winds(r, s)
<1>1. r.status # "unborn" /\ s.status # "unborn"
  BY DEF Sound
<1>2. r.session \in BOOLEAN /\ s.session \in BOOLEAN
  BY DEF Handle
<1>3. CASE r.kind = "host" \/ r.turns # 0
  <2>1. Stage(s) # Stage(r) => Stage(r) = "open" /\ Stage(s) = "gone"
    BY <1>1, <1>2, <1>3 DEF Stage, Ahead, Fades, Sound
  <2> QED
    BY <2>1 DEF Fades, Winds
<1>4. CASE r.kind # "host" /\ r.turns = 0
  <2>1. CASE r.session
    <3>1. r.phase \notin Setting
      BY <1>4, <2>1 DEF Sound, Setting, Over
    <3>2. Stage(s) # Stage(r) => Stage(r) = "open" /\ Stage(s) = "gone"
      BY <1>1, <1>2, <1>4, <2>1, <3>1 DEF Stage, Ahead, Fades, Setting
    <3> QED
      BY <3>2 DEF Fades, Winds
  <2>2. CASE ~r.session
    <3>1. Stage(s) # Stage(r) => Stage(s) = "gone" /\ Works(r) /\ ~Works(s)
      BY <1>1, <1>2, <1>4, <2>2 DEF Stage, Ahead, Fades, Setting, Works, Over
    <3> QED
      BY <3>1 DEF Fades, Winds
  <2> QED
    BY <2>1, <2>2
<1> QED
  BY <1>3, <1>4

(* A driver's step is a step on its handle.                                *)
LEMMA DriverIsStep ==
  ASSUME IInv, NEW h \in Handles, DriverNext(h)
  PROVE  LET r == handle[h]
             s == handle'[h]
         IN  /\ Step(h, s) /\ r \in Handle /\ s \in Handle
             /\ Sound(r) /\ Sound(s) /\ r.phase # "none" /\ s.phase # "none"
             /\ s.kind = r.kind /\ s.turns = r.turns
             /\ r.phase \in Over => s.phase \in Over
<1>1. PICK s \in Handle : /\ handle' = [handle EXCEPT ![h] = s]
                          /\ Drives(handle[h], s) /\ Accounts(h, handle[h], s)
  BY DriverSteps DEF DriverStep
<1>2. handle'[h] = s /\ handle[h] \in Handle /\ Sound(handle[h])
  BY <1>1, Shape DEF IInv, Typed
<1> QED
  BY <1>1, <1>2 DEF Step, Drives, Relies, Keeps, Accounts

LEMMA DriverFades ==
  ASSUME IInv, NEW h \in Handles, DriverNext(h), Fades(handle[h], handle'[h])
  PROVE  A!Next
BY DriverIsStep, Fading, Winding

(* Towards the session, and in the turn.                                   *)
LEMMA GoesOn ==
  ASSUME IInv, NEW h \in Handles,
         \/ DriverStarts(h) \/ Acquires(h) \/ Connected(h) \/ LearnsId(h) \/ HostTakes(h)
         \/ Disconnected(h) \/ \E why \in {"failed", "timeout"} : OpenFails(h, why)
  PROVE  A!Next
<1> DEFINE r == handle[h]
           s == handle'[h]
<1>1. DriverNext(h)
  BY DEF DriverNext
<1>2. handle \in [Handles -> Handle] /\ r \in Handle /\ Sound(r)
  BY Shape DEF IInv, Typed
<1> DEFINE Set == s.phase \in Setting \/ (s.phase = "turn" /\ (r.kind = "host" \/ r.turns # 0))
           Goal == /\ s.session = r.session /\ s.result = r.result
                   /\ s.phase = r.phase \/ (r.phase \in Setting /\ Set)
<1>3. ASSUME DriverStarts(h) \/ Acquires(h) PROVE Goal
  BY <1>2, <1>3 DEF DriverStarts, Acquires, Becomes, Handle, Setting
<1>4. ASSUME Connected(h) PROVE Goal
  BY <1>2, <1>4 DEF Connected, Becomes, Handle, Setting
<1>5. ASSUME LearnsId(h) \/ HostTakes(h) PROVE Goal
  BY <1>5 DEF LearnsId, HostTakes
<1>6. ASSUME Disconnected(h) PROVE Goal
  BY <1>2, <1>6 DEF Disconnected, Becomes, Handle
<1>7. ASSUME NEW why \in {"failed", "timeout"}, OpenFails(h, why) PROVE Goal
  BY <1>2, <1>7 DEF OpenFails, Becomes, Handle, Setting
<1>8. Goal
  BY <1>3, <1>4, <1>5, <1>6, <1>7
<1> HIDE DEF r, s
<1>9. Fades(r, s)
  BY <1>8 DEF Fades, Works, Setting, Over
<1> QED
  BY <1>1, <1>9, DriverFades DEF r, s

(* The driver fails or is cancelled.                                       *)
LEMMA GoesDown ==
  ASSUME IInv, NEW h \in Handles,
         DriverFails(h) \/ Undone(h) \/ UndoCut(h) \/ CancelHits(h) \/ DriverClosed(h)
  PROVE  A!Next
<1> DEFINE r == handle[h]
           s == handle'[h]
<1>1. DriverNext(h)
  BY DEF DriverNext
<1>2. handle \in [Handles -> Handle] /\ r \in Handle /\ Sound(r) /\ r.turns \in Nat
  BY Shape DEF IInv, Typed
<1>3. /\ Step(h, s) /\ r.phase # "none" /\ s.phase # "none"
      /\ s.kind = r.kind /\ s.turns = r.turns
  BY <1>1, DriverIsStep
<1>4. \A q : Becomes(h, q) => s = q
  BY <1>2 DEF Becomes
(* Perhaps with another child, or another reason.                          *)
<1> DEFINE Near(q) == /\ q \in Handle /\ q.session = r.session /\ q.result = r.result
<1> HIDE DEF r, s
<1>5. ASSUME NEW q, Near(q), s = Failing(q), r.phase \notin Over,
             r.turns = 0 /\ r.phase \in Setting => ~r.session
      PROVE  Fades(r, s)
  <2>1. /\ s.session = FALSE /\ s.phase = (IF q.session THEN "closing" ELSE "failed")
        /\ s.result = (IF ~q.session /\ q.result = "pending" THEN "exception" ELSE q.result)
    BY <1>5, FailingParts
  <2> QED
    BY <1>2, <1>3, <1>5, <2>1 DEF Fades, Works, Setting, Over, Handle
<1>6. ASSUME NEW q, Near(q), s = Stopping(q), r.phase \notin Over
      PROVE  Fades(r, s)
  <2>1. /\ s.session = q.session /\ s.phase = "cancelled"
        /\ s.result = (IF Speaks(q) /\ q.result = "pending" THEN "exception" ELSE q.result)
    BY <1>6, StoppingParts
  <2> QED
    BY <1>2, <1>6, <2>1 DEF Fades, Works, Setting, Over
<1>7. ASSUME NEW phase \in Over, s = Leaves(r, phase), r.phase \notin Over
      PROVE  Fades(r, s)
  <2>1. s.session = r.session /\ s.phase = phase /\ s.result = r.result
    BY <1>2, <1>7, LeavesParts, Zenon
  <2> QED
    BY <1>2, <1>7, <2>1 DEF Fades, Works, Setting, Over
<1>8. ASSUME DriverFails(h) PROVE Fades(r, s)
  <2>1. /\ r.phase \notin Over /\ (r.turns = 0 /\ r.phase \in Setting => ~r.session)
        /\ s = IF r.turns = 0 THEN Failing(r) ELSE Leaves(r, "failed")
    BY <1>2, <1>4, <1>8 DEF DriverFails, Sound, Setting, Over, r
  <2> QED
    BY <1>2, <1>5, <1>7, <2>1 DEF Over
<1>9. ASSUME NEW q, Near(q), Raises(h, q), r.phase = "undo" PROVE Fades(r, s)
  <2>1. r.phase \notin Over /\ ~r.session
    BY <1>2, <1>9 DEF Over, Sound
  <2>2. s = Stopping(q) \/ s = Failing(q)
    BY <1>4, <1>9 DEF Raises
  <2> QED
    BY <1>5, <1>6, <1>9, <2>1, <2>2
<1>10. ASSUME Undone(h) PROVE Fades(r, s)
  <2>1. Near([r EXCEPT !.child = "gone"])
    BY <1>2, ChildParts
  <2> QED
    BY <1>9, <1>10, <2>1 DEF Undone, r
<1>11. ASSUME UndoCut(h) PROVE Fades(r, s)
  <2> DEFINE c == [r EXCEPT !.child = "torn"]
             q == IF c.cancelled THEN [c EXCEPT !.why = "cancelled"] ELSE c
  <2>1. Near(c)
    BY <1>2, ChildParts
  <2>2. r.phase = "undo" /\ Raises(h, q)
    BY <1>11 DEF UndoCut, r
  <2> HIDE DEF c
  <2>3. Near(q)
    BY <2>1 DEF Handle
  <2> QED
    BY <1>9, <2>2, <2>3
<1>12. ASSUME CancelHits(h) PROVE Fades(r, s)
  <2>1. CASE r.phase = "opening"
    <3>1. s = [r EXCEPT !.phase = "undo", !.why = "cancelled", !.cancelled = FALSE]
      BY <1>4, <1>12, <2>1 DEF CancelHits, r
    <3>2. s.session = r.session /\ s.phase = "undo" /\ s.result = r.result
      BY <1>2, <3>1 DEF Handle
    <3> QED
      BY <2>1, <3>2 DEF Fades, Works, Setting, Over
  <2>2. CASE r.phase \in {"unstarted", "closing"}
    <3>1. s = Leaves(r, "cancelled") /\ r.phase \notin Over
      BY <1>4, <1>12, <2>2 DEF CancelHits, Over, r
    <3> QED
      BY <1>7, <3>1 DEF Over
  <2>3. CASE r.phase \in {"queued", "connecting", "turn"}
    <3>1. s = Stopping(r) /\ r.phase \notin Over
      BY <1>4, <1>12, <2>3 DEF CancelHits, Over, r
    <3> QED
      BY <1>2, <1>6, <3>1
  <2> QED
    BY <1>12, <2>1, <2>2, <2>3 DEF CancelHits, r
<1>13. ASSUME DriverClosed(h) PROVE Fades(r, s)
  <2> DEFINE d == Settled(r, "exception")
  <2>1. r.phase = "closing" /\ s = Leaves(d, "failed")
    BY <1>4, <1>13 DEF DriverClosed, r
  <2>2. /\ d \in Handle /\ d.session = r.session
        /\ d.result = IF r.result = "pending" THEN "exception" ELSE r.result
    BY <1>2, SettledParts
  <2> HIDE DEF d
  <2>3. s.session = d.session /\ s.phase = "failed" /\ s.result = d.result
    BY <2>1, <2>2, LeavesParts, Zenon DEF Over
  <2> QED
    BY <2>1, <2>2, <2>3 DEF Fades, Works, Setting, Over
<1>14. Fades(r, s)
  BY <1>8, <1>10, <1>11, <1>12, <1>13
<1> QED
  BY <1>1, <1>14, DriverFades DEF r, s

LEMMA Left ==
  ASSUME NEW q \in Handle, NEW phase \in Over
  PROVE  LET s == Leaves(q, phase) IN
         s.session = q.session /\ s.phase = phase /\ s.result = q.result
<1>1. phase \in {"closing"} \cup Over
  OBVIOUS
<1> QED
  BY <1>1, LeavesParts, Zenon

(* A driver that was not cancelled opens the session of a running handle.  *)
LEMMA Opening ==
  ASSUME IInv, NEW h \in Handles, Opened(h) \/ Resumed(h)
  PROVE  A!Next
<1> DEFINE r == handle[h]
           s == handle'[h]
           o == [r EXCEPT !.session = TRUE]
           d == [r EXCEPT !.session = TRUE, !.status = "done"]
<1>1. DriverNext(h)
  BY DEF DriverNext
<1>2. r \in Handle /\ Sound(r) /\ handle \in [Handles -> Handle]
  BY Shape DEF IInv, Typed
<1>3. r.phase = "opening" /\ ~r.cancelled
  BY DEF Opened, Resumed
<1>4. /\ r.turns = 0 /\ ~r.session /\ r.status = "running" /\ r.kind # "host"
      /\ Works(r) /\ Stage(r) = "ahead" /\ r.result = "pending"
  BY <1>2, <1>3 DEF Sound, Early, Works, Stage, Ahead, Over
<1>5. \/ s = [o EXCEPT !.phase = "turn"]
      \/ s = Leaves(Settled(d, "value"), "ok")
  BY <1>2 DEF Opened, Resumed, Becomes
<1>6. /\ s.session = TRUE
      /\ \/ Works(s) /\ s.result = r.result
         \/ ~Works(s) /\ s.result = "value"
  <2>1. CASE s = [o EXCEPT !.phase = "turn"]
    BY <1>2, <2>1 DEF Handle, Works, Over
  <2>2. CASE s = Leaves(Settled(d, "value"), "ok")
    <3> DEFINE c == Settled(d, "value")
    <3>1. d \in Handle /\ d.session = TRUE /\ d.result = r.result
      BY <1>2 DEF Handle, Terminal
    <3> HIDE DEF d
    <3>2. c \in Handle /\ c.session = TRUE /\ c.result = "value"
      BY <1>4, <3>1, SettledParts
    <3> HIDE DEF c
    <3>3. s.session = TRUE /\ s.phase = "ok" /\ s.result = "value"
      BY <2>2, <3>2, Left DEF Over, c
    <3> QED
      BY <3>3 DEF Works, Over
  <2> QED
    BY <1>5, <2>1, <2>2
<1>7. Step(h, s) /\ bound' = bound
  BY <1>1, DriverIsStep DEF Step
<1>8. bound = h /\ \A g \in Handles : Sessions[g] # "open"
  BY <1>4, Bearing
<1>9. Stage(s) = "open"
  BY <1>6 DEF Stage
<1> HIDE DEF r, s
<1>10. /\ h \in Working /\ Sessions[h] = "ahead"
       /\ Sessions' = [Sessions EXCEPT ![h] = "open"]
  BY <1>4, <1>7, <1>9, Changed DEF r
<1>11. \/ Working' = Working /\ Answers' = Answers
       \/ /\ Working' = Working \ {h}
          /\ Answers' = [Answers EXCEPT ![h] = IF @ = "pending" THEN "value" ELSE @]
  <2>1. CASE Works(s) /\ s.result = r.result
    <3>1. Working' = Working \cup {h} /\ Answers' = Answers
      BY <1>7, <2>1, Changed DEF r
    <3> QED
      BY <1>10, <3>1
  <2>2. CASE ~Works(s) /\ s.result = "value"
    BY <1>4, <1>7, <2>2, Changed DEF r
  <2> QED
    BY <1>6, <2>1, <2>2
<1>12. A!Open(h)
  BY <1>7, <1>8, <1>10, <1>11
     DEF A!Open, A!Says, A!NoneOpen, Sessions, Working, Answers, Works
<1> QED
  BY <1>12 DEF A!Next

(* A turn ends well.                                                       *)
LEMMA Answering ==
  ASSUME IInv, NEW h \in Handles, TurnEnds(h) \/ HostAnswers(h)
  PROVE  A!Next
<1> DEFINE r == handle[h]
           s == handle'[h]
           o == [r EXCEPT !.status = "done"]
           c == Settled(o, "value")
<1>1. DriverNext(h)
  BY DEF DriverNext
<1>2. r \in Handle /\ Sound(r) /\ r.turns \in Nat /\ handle \in [Handles -> Handle]
  BY Shape DEF IInv, Typed
<1>3. /\ Step(h, s) /\ r.phase # "none" /\ s.phase # "none" /\ Sound(s)
      /\ s.kind = r.kind /\ s.turns = r.turns
  BY <1>1, DriverIsStep
<1>4. /\ r.phase = "turn"
      /\ s = Leaves(c, "ok") \/ (r.turns > 0 /\ s = Leaves(r, "ok"))
  BY <1>2 DEF TurnEnds, HostAnswers, Completes, Becomes
<1>5. /\ s.session = r.session /\ s.phase = "ok"
      /\ s.result = IF r.result = "pending" THEN "value" ELSE r.result
  <2>1. CASE s = Leaves(c, "ok")
    <3>1. o \in Handle /\ o.session = r.session /\ o.result = r.result
      BY <1>2, StatusParts DEF Terminal
    <3> HIDE DEF o
    <3>2. /\ c \in Handle /\ c.session = o.session
          /\ c.result = IF o.result = "pending" THEN "value" ELSE o.result
      BY <3>1, SettledParts
    <3> HIDE DEF c
    <3>3. s.session = c.session /\ s.phase = "ok" /\ s.result = c.result
      BY <2>1, <3>2, Left DEF Over, c
    <3> QED
      BY <3>1, <3>2, <3>3
  <2>2. CASE r.turns > 0 /\ s = Leaves(r, "ok")
    <3>1. s.session = r.session /\ s.phase = "ok" /\ s.result = r.result
      BY <1>2, <2>2, Left DEF Over
    <3>2. r.result # "pending"
      BY <1>2, <2>2 DEF Sound
    <3> QED
      BY <3>1, <3>2
  <2> QED
    BY <1>4, <2>1, <2>2
<1>6. r.status # "unborn" /\ s.status # "unborn"
  BY <1>2, <1>3 DEF Sound
<1> HIDE DEF r, s
<1>7. Finishes(r, s)
  BY <1>3, <1>4, <1>5, <1>6 DEF Finishes, Works, Over, Stage, Ahead
<1> QED
  BY <1>3, <1>7, Finishing DEF r, s

LEMMA DriverMaps ==
  ASSUME IInv, NEW h \in Handles, DriverNext(h)
  PROVE  A!Next
BY GoesOn, GoesDown, Opening, Answering DEF DriverNext

-----------------------------------------------------------------------------
(* A handle that was not made yet has no answer.                           *)
Unanswered == \A h \in Handles : handle[h].status = "unborn" => handle[h].result = "pending"

(* A new handle finds the name free, and no session open.                  *)
LEMMA MakesMaps ==
  ASSUME IInv, Unanswered, NEW h \in Handles, NEW kind \in {"spawn", "resume", "host"},
         Makes(h, kind)
  PROVE  A!Next /\ Unanswered'
<1> DEFINE r == handle[h]
           s == [Unborn EXCEPT !.kind = kind, !.status = "running", !.phase = "unstarted"]
<1>1. r \in Handle /\ Sound(r) /\ handle \in [Handles -> Handle]
  BY Shape DEF IInv, Typed
<1>2. /\ r.status = "unborn" /\ r.phase = "none" /\ ~r.session /\ r.result = "pending"
      /\ handle' = [handle EXCEPT ![h] = s] /\ bound' = h /\ NameFree
  BY <1>1 DEF Makes, Becomes, Sound, Unanswered
<1>3. /\ s.kind = kind /\ s.status = "running" /\ s.phase = "unstarted" /\ s.turns = 0
      /\ s.session = FALSE /\ s.result = "pending"
  BY DEF Unborn
<1>4. Stage(r) = "ahead" /\ Stage(s) = "ahead" /\ ~Works(r) /\ Works(s)
  BY <1>2, <1>3 DEF Stage, Ahead, Works, Over
<1> HIDE DEF s
<1>5. \A g \in Handles : handle'[g] = IF g = h THEN s ELSE handle[g]
  BY <1>1, <1>2
<1>6. \A g \in Handles : Stage(handle[g])' = Stage(handle'[g])
  BY DEF Stage, Ahead
<1>7. Sessions' = Sessions /\ Answers' = Answers /\ Sessions[h] = "ahead"
      /\ Answers[h] = "pending"
  BY <1>2, <1>3, <1>4, <1>5, <1>6 DEF Sessions, Answers
<1>8. Working' = Working \cup {h} /\ h \notin Working
  BY <1>4, <1>5 DEF Working, Works
<1>9. \A g \in Handles : Sessions[g] # "open"
  <2>1. ASSUME NEW g \in Handles, handle[g].session PROVE FALSE
    BY <1>2, <2>1, Sizes DEF NameFree, IInv, Handled
  <2>2. \A g \in Handles : handle[g].session \in BOOLEAN
    BY <1>1 DEF Handle
  <2> QED
    BY <2>1, <2>2 DEF Sessions, Stage
<1>10. A!Take(h)
  BY <1>2, <1>7, <1>8, <1>9 DEF A!Take, A!NoneOpen, Sessions, Working, Answers, Works
<1>11. Unanswered'
  BY <1>3, <1>5 DEF Unanswered
<1> QED
  BY <1>10, <1>11 DEF A!Next

-----------------------------------------------------------------------------
(* What a call does to the handle it is about, but for a follow-up turn.   *)
CallFades(t) ==
  \/ handle' = handle
  \/ \E h \in Handles :
       LET r == handle[h]
           s == handle'[h]
       IN  /\ handle' = [handle EXCEPT ![h] = s]
           /\ r.phase # "none" /\ s.phase = r.phase
           /\ s.kind = r.kind /\ s.turns = r.turns
           /\ s.session => r.session
           /\ s.result \in {r.result, IF r.result = "pending" THEN "exception" ELSE r.result}

(* So much for one that changes the record r of the handle h to q.         *)
LEMMA CallFading ==
  ASSUME IInv, NEW t \in Tasks, NEW h \in Handles, NEW q, Becomes(h, q),
         handle[h].phase # "none", q.phase = handle[h].phase,
         q.kind = handle[h].kind, q.turns = handle[h].turns,
         q.session => handle[h].session,
         q.result \in {handle[h].result,
                       IF handle[h].result = "pending" THEN "exception" ELSE handle[h].result}
  PROVE  CallFades(t)
<1>1. handle \in [Handles -> Handle]
  BY DEF IInv, Typed
<1>2. handle' = [handle EXCEPT ![h] = handle'[h]] /\ handle'[h] = q
  BY <1>1 DEF Becomes
<1> QED
  BY <1>2 DEF CallFades

LEMMA SendFades ==
  ASSUME IInv, NEW t \in Tasks,
         SendLocks(t) \/ SendEnds(t) \/ \E h \in Handles : SendCalls(t, h)
  PROVE  CallFades(t)
<1>1. CASE \E h \in Handles : SendCalls(t, h)
  BY <1>1 DEF SendCalls, CallFades
<1> DEFINE h == task[t].on
           r == handle[h]
<1>2. CASE SendLocks(t)
  <2>1. h \in Handles /\ r.phase # "none" /\ r \in Handle
    BY <1>2, AtWork, Shape DEF SendLocks
  <2> DEFINE q == [r EXCEPT !.lock = t]
  <2>2. /\ q.phase = r.phase /\ q.kind = r.kind /\ q.turns = r.turns
        /\ q.session = r.session /\ q.result = r.result
    BY <2>1 DEF Handle
  <2>3. Becomes(h, q)
    BY <1>2 DEF SendLocks
  <2> HIDE DEF q
  <2> QED
    BY <2>1, <2>2, <2>3, CallFading
<1>3. CASE SendEnds(t)
  <2>0. PICK cancelled \in BOOLEAN : SendResumes(t, cancelled)
    BY <1>3 DEF SendEnds
  <2>1. h \in Handles /\ r.phase # "none" /\ r \in Handle
    BY <2>0, AtWork, Shape DEF SendResumes
  <2> DEFINE u == [r EXCEPT !.lock = None]
             Over3 == CASE cancelled \/ u.phase = "cancelled" -> "interrupted"
                        [] ~cancelled /\ u.phase = "ok" -> "done"
                        [] ~cancelled /\ u.phase = "failed" -> "error"
             v == [u EXCEPT !.status = Over3]
  <2>2. /\ u \in Handle /\ u.phase = r.phase /\ u.kind = r.kind /\ u.turns = r.turns
        /\ u.session = r.session /\ u.result = r.result
    BY <2>1 DEF Handle
  <2>3. u.phase \in Over /\ (Becomes(h, u) \/ Becomes(h, v) \/ Becomes(h, Disconnecting(v)))
    BY <2>0 DEF SendResumes
  <2>4. Over3 \in Terminal
    BY <2>3 DEF Over, Terminal
  <2> HIDE DEF u, Over3
  <2>5. /\ v \in Handle /\ v.phase = u.phase /\ v.kind = u.kind /\ v.turns = u.turns
        /\ v.session = u.session /\ v.result = u.result
    BY <2>2, <2>4, StatusParts DEF Keeps
  <2> HIDE DEF v
  <2> DEFINE w == Disconnecting(v)
  <2>6. /\ w.phase = v.phase /\ w.kind = v.kind /\ w.turns = v.turns
        /\ ~w.session /\ w.result = v.result
    BY <2>5, DisconnectingParts DEF Keeps
  <2> HIDE DEF w
  <2>7. CASE Becomes(h, u)
    BY <2>1, <2>2, <2>7, CallFading
  <2>8. CASE Becomes(h, v)
    BY <2>1, <2>2, <2>5, <2>8, CallFading
  <2>9. CASE Becomes(h, w)
    BY <2>1, <2>2, <2>5, <2>6, <2>9, CallFading
  <2> QED
    BY <2>3, <2>7, <2>8, <2>9 DEF w
<1> QED
  BY <1>1, <1>2, <1>3

LEMMA InterruptFades ==
  ASSUME IInv, NEW t \in Tasks,
         \/ \E h \in Handles : InterruptCalls(t, h)
         \/ DrainWedged(t) \/ InterruptSettles(t) \/ InterruptReturns(t)
  PROVE  CallFades(t)
<1>1. ASSUME NEW h \in Handles, InterruptCalls(t, h) PROVE CallFades(t)
  <2> DEFINE r == handle[h]
             q == [r EXCEPT !.interrupting = TRUE]
             c == Cancelling(q)
  <2>1. r \in Handle /\ r.phase # "none" /\ (Becomes(h, q) \/ Becomes(h, c))
    BY <1>1, Shape, Alive DEF InterruptCalls
  <2>2. /\ q \in Handle /\ q.phase = r.phase /\ q.kind = r.kind /\ q.turns = r.turns
        /\ q.session = r.session /\ q.result = r.result
    BY <2>1 DEF Handle
  <2> HIDE DEF q
  <2>3. /\ c.phase = q.phase /\ c.kind = q.kind /\ c.turns = q.turns
        /\ c.session = q.session /\ c.result = q.result
    BY <2>2, CancellingParts DEF Keeps
  <2> HIDE DEF c
  <2> QED
    BY <2>1, <2>2, <2>3, CallFading
<1> DEFINE h == task[t].on
           r == handle[h]
<1>2. CASE DrainWedged(t)
  <2> DEFINE c == Cancelling(r)
  <2>1. h \in Handles /\ r.phase # "none" /\ r \in Handle /\ Becomes(h, c)
    BY <1>2, AtWork, Shape DEF DrainWedged
  <2>2. /\ c.phase = r.phase /\ c.kind = r.kind /\ c.turns = r.turns
        /\ c.session = r.session /\ c.result = r.result
    BY <2>1, CancellingParts DEF Keeps
  <2> HIDE DEF c
  <2> QED
    BY <2>1, <2>2, CallFading
<1>3. CASE InterruptSettles(t)
  <2> DEFINE i == [r EXCEPT !.status = "interrupted"]
             q == Settled(i, "exception")
             d == Disconnecting(q)
             c == Cancelling(q)
  <2>1. /\ h \in Handles /\ r.phase # "none" /\ r \in Handle
        /\ Becomes(h, d) \/ Becomes(h, c)
    BY <1>3, AtWork, Shape DEF InterruptSettles
  <2>2. /\ i \in Handle /\ i.phase = r.phase /\ i.kind = r.kind /\ i.turns = r.turns
        /\ i.session = r.session /\ i.result = r.result
    BY <2>1 DEF Handle, Terminal
  <2> HIDE DEF i
  <2>3. /\ q \in Handle /\ q.phase = i.phase /\ q.kind = i.kind /\ q.turns = i.turns
        /\ q.session = i.session
        /\ q.result = IF i.result = "pending" THEN "exception" ELSE i.result
    BY <2>2, SettledParts DEF Keeps
  <2> HIDE DEF q
  <2>4. /\ d.phase = q.phase /\ d.kind = q.kind /\ d.turns = q.turns
        /\ ~d.session /\ d.result = q.result
    BY <2>3, DisconnectingParts DEF Keeps
  <2>5. /\ c.phase = q.phase /\ c.kind = q.kind /\ c.turns = q.turns
        /\ c.session = q.session /\ c.result = q.result
    BY <2>3, CancellingParts DEF Keeps
  <2> HIDE DEF c, d
  <2>6. CASE Becomes(h, d)
    BY <2>1, <2>2, <2>3, <2>4, <2>6, CallFading
  <2>7. CASE Becomes(h, c)
    BY <2>1, <2>2, <2>3, <2>5, <2>7, CallFading
  <2> QED
    BY <2>1, <2>6, <2>7
<1>4. CASE InterruptReturns(t)
  BY <1>4 DEF InterruptReturns, CallFades
<1> QED
  BY <1>1, <1>2, <1>3, <1>4

LEMMA CloseFades ==
  ASSUME IInv, NEW t \in Tasks, CloseReturns(t) \/ \E h \in Handles : CloseCalls(t, h)
  PROVE  CallFades(t)
<1>1. ASSUME NEW h \in Handles, CloseCalls(t, h) PROVE CallFades(t)
  <2> DEFINE r == handle[h]
             d == Disconnecting(r)
             c == Cancelling(r)
  <2>1. r \in Handle /\ r.phase # "none" /\ (Becomes(h, d) \/ Becomes(h, c))
    BY <1>1, Shape, Alive DEF CloseCalls
  <2>2. /\ d.phase = r.phase /\ d.kind = r.kind /\ d.turns = r.turns
        /\ ~d.session /\ d.result = r.result
    BY <2>1, DisconnectingParts DEF Keeps
  <2>3. /\ c.phase = r.phase /\ c.kind = r.kind /\ c.turns = r.turns
        /\ c.session = r.session /\ c.result = r.result
    BY <2>1, CancellingParts DEF Keeps
  <2> HIDE DEF c, d
  <2> QED
    BY <2>1, <2>2, <2>3, CallFading
<1>2. CASE CloseReturns(t)
  <2> DEFINE h == task[t].on
             r == handle[h]
             i == [r EXCEPT !.status = IF r.status \notin Terminal THEN "interrupted" ELSE @]
             q == Settled(i, "exception")
  <2>1. h \in Handles /\ r.phase # "none" /\ r \in Handle /\ Becomes(h, q)
    BY <1>2, AtWork, Shape DEF CloseReturns
  <2> DEFINE st == IF r.status \notin Terminal THEN "interrupted" ELSE r.status
  <2>4. st \in Terminal /\ i = [r EXCEPT !.status = st]
    BY DEF Terminal
  <2>2. /\ i \in Handle /\ i.phase = r.phase /\ i.kind = r.kind /\ i.turns = r.turns
        /\ i.session = r.session /\ i.result = r.result
    BY <2>1, <2>4, StatusParts DEF Keeps
  <2> HIDE DEF i
  <2>3. /\ q.phase = i.phase /\ q.kind = i.kind /\ q.turns = i.turns
        /\ q.session = i.session
        /\ q.result = IF i.result = "pending" THEN "exception" ELSE i.result
    BY <2>2, SettledParts DEF Keeps
  <2> HIDE DEF q
  <2> QED
    BY <2>1, <2>2, <2>3, CallFading
<1> QED
  BY <1>1, <1>2

LEMMA CancelFades ==
  ASSUME IInv, NEW t \in Tasks, CallerCancelled(t)
  PROVE  CallFades(t)
<1> DEFINE h == task[t].on
           r == handle[h]
           u == [r EXCEPT !.lock = None]
           c == Cancelling(r)
           x == [r EXCEPT !.interrupting = FALSE, !.cut = TRUE]
           y == [r EXCEPT !.cut = TRUE]
<1>1. h \in Handles /\ r.phase # "none" /\ r \in Handle
  BY AtWork, Shape DEF CallerCancelled
<1>2. \/ handle' = handle
      \/ Becomes(h, u) \/ Becomes(h, c) \/ Becomes(h, x) \/ Becomes(h, y)
  BY DEF CallerCancelled
<1>3. /\ u.phase = r.phase /\ u.kind = r.kind /\ u.turns = r.turns
      /\ u.session = r.session /\ u.result = r.result
  BY <1>1 DEF Handle
<1>4. /\ x.phase = r.phase /\ x.kind = r.kind /\ x.turns = r.turns
      /\ x.session = r.session /\ x.result = r.result
  BY <1>1 DEF Handle
<1>5. /\ y.phase = r.phase /\ y.kind = r.kind /\ y.turns = r.turns
      /\ y.session = r.session /\ y.result = r.result
  BY <1>1 DEF Handle
<1>6. /\ c.phase = r.phase /\ c.kind = r.kind /\ c.turns = r.turns
      /\ c.session = r.session /\ c.result = r.result
  BY <1>1, CancellingParts DEF Keeps
<1> HIDE DEF u, c, x, y
<1>7. CASE handle' = handle
  BY <1>7 DEF CallFades
<1>8. CASE Becomes(h, u) \/ Becomes(h, c)
  BY <1>1, <1>3, <1>6, <1>8, CallFading
<1>9. CASE Becomes(h, x) \/ Becomes(h, y)
  BY <1>1, <1>4, <1>5, <1>9, CallFading
<1> QED
  BY <1>2, <1>7, <1>8, <1>9

-----------------------------------------------------------------------------
LEMMA FadesMap ==
  ASSUME IInv, [Next]_vars, Unanswered, NEW t \in Tasks, CallFades(t), bound' = bound
  PROVE  (A!Next \/ UNCHANGED <<handle, bound>>) /\ Unanswered'
<1>1. CASE handle' = handle
  BY <1>1 DEF Unanswered
<1>2. ASSUME NEW h \in Handles,
             handle' = [handle EXCEPT ![h] = handle'[h]],
             handle[h].phase # "none", handle'[h].phase = handle[h].phase,
             handle'[h].kind = handle[h].kind, handle'[h].turns = handle[h].turns,
             handle'[h].session => handle[h].session,
             handle'[h].result \in
               {handle[h].result,
                IF handle[h].result = "pending" THEN "exception" ELSE handle[h].result}
      PROVE  A!Next /\ Unanswered'
  <2> DEFINE r == handle[h]
             s == handle'[h]
  <2>1. IInv'
    BY NextKeeps
  <2>2. r \in Handle /\ Sound(r) /\ s \in Handle /\ Sound(s)
    BY <2>1, Shape DEF IInv, Typed, Handled, Sound
  <2>3. Step(h, s)
    BY <1>2, <2>2 DEF Step
  <2> HIDE DEF r, s
  <2>4. Fades(r, s)
    BY <1>2 DEF Fades, Works, r, s
  <2>5. Winds(r, s)
    BY <1>2, <2>2, <2>4, Fading DEF r, s
  <2>6. s.status # "unborn"
    BY <1>2, <2>2 DEF Sound, r, s
  <2>7. \A g \in Handles : g # h => handle'[g] = handle[g]
    BY <1>2 DEF IInv, Typed
  <2>8. Unanswered'
    BY <2>6, <2>7 DEF Unanswered, s
  <2> QED
    BY <2>3, <2>5, <2>8, Winding DEF r
<1> QED
  BY <1>1, <1>2 DEF CallFades

(* A follow-up turn finds the session at rest (SessionIdle).               *)
LEMMA FollowingUp ==
  ASSUME IInv, [Next]_vars, Unanswered, NEW t \in Tasks, SendGoes(t)
  PROVE  (A!Next \/ UNCHANGED <<handle, bound>>) /\ Unanswered'
<1> DEFINE h == task[t].on
           r == handle[h]
           u == [r EXCEPT !.lock = None]
           s == [r EXCEPT !.status = "running", !.phase = "unstarted", !.turns = @ + 1]
<1>1. /\ task[t].pc = "settling" /\ (r.status = "running" => r.result # "pending")
      /\ bound' = bound
  BY DEF SendGoes
<1>2. h \in Handles /\ r.phase # "none" /\ r \in Handle /\ Sound(r) /\ r.turns \in Nat
  BY <1>1, AtWork, Shape
<1>3. CASE Becomes(h, u)
  <2>1. /\ u.phase = r.phase /\ u.kind = r.kind /\ u.turns = r.turns
        /\ u.session = r.session /\ u.result = r.result
    BY <1>2 DEF Handle
  <2> HIDE DEF u
  <2>2. CallFades(t)
    BY <1>2, <1>3, <2>1, CallFading
  <2> QED
    BY <1>1, <2>2, FadesMap
<1>4. CASE Becomes(h, s) /\ r.session
  <2>1. r.phase \in Over /\ r.result # "pending"
    BY <1>1, <1>4, SessionIdle
  <2>2. /\ s.session = r.session /\ s.result = r.result /\ s.status = "running"
        /\ s.phase = "unstarted"
    BY <1>2 DEF Handle
  <2>3. handle' = [handle EXCEPT ![h] = s]
    BY <1>4 DEF Becomes
  <2>4. handle'[h] = s /\ \A g \in Handles : g # h => handle'[g] = handle[g]
    BY <1>2, <2>3 DEF IInv, Typed
  <2>5. IInv'
    BY NextKeeps
  <2>6. s \in Handle
    BY <1>2, <2>4, <2>5 DEF IInv, Typed
  <2>7. Step(h, s)
    BY <1>1, <1>2, <2>3, <2>6 DEF Step
  <2>8. bound = h
    BY <1>2, <1>4 DEF IInv, Handled
  <2>9. Stage(r) = "open" /\ Stage(s) = "open" /\ ~Works(r) /\ Works(s)
    BY <1>4, <2>1, <2>2 DEF Stage, Works, Over
  <2>10. Unanswered'
    BY <2>2, <2>4 DEF Unanswered
  <2> HIDE DEF h, r, s
  <2>11. /\ Sessions' = Sessions /\ Answers' = Answers /\ Working' = Working \cup {h}
         /\ h \notin Working /\ Sessions[h] = "open" /\ Answers[h] # "pending"
    BY <2>1, <2>2, <2>7, <2>9, Changed DEF r
  <2>12. PICK g \in Handles : g = h
    BY <1>2
  <2>13. A!FollowUp(g)
    BY <1>1, <2>8, <2>11, <2>12 DEF A!FollowUp, Sessions, Working, Answers, Works
  <2>14. A!Next
    BY <2>13 DEF A!Next
  <2> QED
    BY <2>10, <2>14
<1> QED
  BY <1>3, <1>4 DEF SendGoes

LEMMA RunsLeave ==
  ASSUME NEW t \in Tasks, RunCalls(t) \/ RunStarts(t) \/ RunEnds(t)
  PROVE  UNCHANGED <<handle, bound>>
BY DEF RunCalls, RunStarts, RunEnds

LEMMA CallMaps ==
  ASSUME IInv, [Next]_vars, Unanswered, NEW t \in Tasks, CallNext(t)
  PROVE  (A!Next \/ UNCHANGED <<handle, bound>>) /\ Unanswered'
<1>1. CASE SendGoes(t)
  BY <1>1, FollowingUp
<1>2. CASE RunCalls(t) \/ RunStarts(t) \/ RunEnds(t)
  BY <1>2, RunsLeave DEF Unanswered
<1>3. CASE ~SendGoes(t) /\ ~(RunCalls(t) \/ RunStarts(t) \/ RunEnds(t))
  <2>1. CallFades(t)
    BY <1>3, SendFades, InterruptFades, CloseFades, CancelFades DEF CallNext
  <2>2. bound' = bound
    BY <1>3 DEF CallNext, SendCalls, InterruptCalls, CloseCalls, SendLocks, SendEnds,
       SendResumes, DrainWedged, InterruptSettles, InterruptReturns, CloseReturns,
       CallerCancelled
  <2> QED
    BY <2>1, <2>2, FadesMap
<1> QED
  BY <1>1, <1>2, <1>3

(* A kernel that goes takes every handle that was made.                    *)
LEMMA RestartMaps ==
  ASSUME IInv, Unanswered, Restart
  PROVE  A!Next /\ Unanswered'
<1> DEFINE Made == {h \in Handles : handle[h].status # "unborn"}
<1>1. \A h \in Handles : handle'[h] = IF h \in Made THEN [Unborn EXCEPT !.status = "lost"]
                                                    ELSE Unborn
  BY DEF Restart
<1>2. /\ Stage(Unborn) = "ahead" /\ Stage([Unborn EXCEPT !.status = "lost"]) = "gone"
      /\ ~Works(Unborn) /\ ~Works([Unborn EXCEPT !.status = "lost"])
      /\ Unborn.result = "pending" /\ [Unborn EXCEPT !.status = "lost"].result = "pending"
      /\ [Unborn EXCEPT !.status = "lost"].status = "lost"
  BY DEF Stage, Ahead, Unborn, Works
<1>3. \A h \in Handles : Stage(handle[h])' = Stage(handle'[h])
  BY DEF Stage, Ahead
<1>4. \A h \in Handles \ Made : Stage(handle[h]) = "ahead"
  <2>1. \A h \in Handles : Sound(handle[h]) /\ handle[h].session \in BOOLEAN
    BY Shape DEF Handle
  <2> QED
    BY <2>1 DEF Stage, Ahead, Sound
<1>5. Sessions' = [h \in Handles |-> IF h \in Made THEN "gone" ELSE Sessions[h]]
  BY <1>1, <1>2, <1>3, <1>4 DEF Sessions
<1>6. Answers' = [h \in Handles |-> "pending"]
  BY <1>1, <1>2 DEF Answers
<1>7. Working' = {}
  BY <1>1, <1>2 DEF Working, Works
<1>8. bound' = None
  BY DEF Restart
<1>9. Made \in SUBSET Handles /\ \A h \in Handles : Sessions[h] # "ahead" => h \in Made
  BY <1>4 DEF Sessions
<1>10. A!Restart
  BY <1>5, <1>6, <1>7, <1>8, <1>9 DEF A!Restart, Sessions, Working, Answers, Works
<1>11. Unanswered'
  BY <1>1, <1>2 DEF Unanswered
<1> QED
  BY <1>10, <1>11 DEF A!Next

LEMMA NextMaps ==
  ASSUME IInv, Unanswered, [Next]_vars
  PROVE  [A!Next]_A!avars /\ Unanswered'
<1>1. CASE UNCHANGED <<handle, bound>>
  <2>1. Unanswered'
    BY <1>1 DEF Unanswered
  <2>2. UNCHANGED <<bound, Sessions, Working, Answers>>
    BY <1>1 DEF Sessions, Working, Answers, Stage, Ahead, Works
  <2> QED
    BY <2>1, <2>2 DEF A!avars, Sessions, Working, Answers, Works
<1>2. ASSUME NEW h \in Handles, Spawn(h) \/ SpawnOnHost(h) \/ Resume(h)
      PROVE  A!Next /\ Unanswered'
  BY <1>2, MakesMaps DEF Spawn, SpawnOnHost, Resume
<1>3. ASSUME NEW h \in Handles, DriverNext(h) PROVE A!Next /\ Unanswered'
  <2>1. \A g \in Handles : handle'[g] = handle[g] \/ handle'[g].status # "unborn"
    BY <1>3, DriverIsStep DEF Step, Sound, IInv, Typed
  <2> QED
    BY <1>3, <2>1, DriverMaps DEF Unanswered
<1>4. ASSUME NEW t \in Tasks, CallNext(t)
      PROVE  (A!Next \/ UNCHANGED <<handle, bound>>) /\ Unanswered'
  BY <1>4, CallMaps
<1> QED
  BY <1>1, <1>2, <1>3, <1>4, RestartMaps DEF Next, vars

(* A name stands for one session at a time, whoever interrupts, closes or  *)
(* abandons the handles that had it, and no session is opened, answered or *)
(* put to a new turn out of its time (agents.py: _claim_name, send,        *)
(* interrupt, close).                                                      *)
THEOREM Implements == Spec => AgentSpec
<1>1. Init => A!Init /\ Unanswered
  <2> SUFFICES ASSUME Init PROVE A!Init /\ Unanswered
    OBVIOUS
  <2>1. \A h \in Handles : handle[h] = Unborn
    BY DEF Init
  <2>2. Stage(Unborn) = "ahead" /\ ~Works(Unborn) /\ Unborn.result = "pending"
    BY DEF Unborn, Stage, Ahead, Works
  <2>3. /\ Sessions = [h \in Handles |-> "ahead"] /\ Answers = [h \in Handles |-> "pending"]
        /\ Working = {}
    BY <2>1, <2>2 DEF Sessions, Answers, Working, Works
  <2> QED
    BY <2>1, <2>2, <2>3
       DEF Init, A!Init, Unanswered, Sessions, Answers, Working, Works
<1> QED
  BY <1>1, NextMaps, Invariant, PTL DEF Spec, AgentSpec, A!Spec
=============================================================================

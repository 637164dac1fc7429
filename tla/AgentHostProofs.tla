-------------------------- MODULE AgentHostProofs --------------------------
(***************************************************************************)
(* The agent host's slots and its contract with its callers, proved for    *)
(* any callers, any cap and any number of generations.                     *)
(*                                                                         *)
(* A slot is one of three things: free, granted to a caller that has not   *)
(* queued its job yet, or held by a job. A job that may be at work on a    *)
(* serving host holds its slot (BusyInv), so at most Cap are; and once a   *)
(* generation is retired nothing new is handed to it (CapInv).             *)
(***************************************************************************)
EXTENDS AgentHost, FiniteSetTheorems, TLAPS

Early == {"enter", "starting", "permit", "granted"}

(* A call has no job before it is admitted, and what its caller was told   *)
(* agrees with where it stands.                                            *)
CallInv(c) ==
  /\ pc[c] \in Early => job[c] = "none"
  /\ pc[c] = "done" <=> told[c] # "nothing"
  /\ told[c] \in Contract!Elsewhere => job[c] = "none"
  /\ told[c] = "result" => future[c] = "result"

(* What the host process was handed left the kernel's queue for good.      *)
RunInv(c) ==
  /\ run[c] # "none" => job[c] \notin {"none", "queued"}
  /\ future[c] = "result" => run[c] \in {"posting", "over"}

QueueInv == \A g \in Gens : \A c \in queue[g] : job[c] = "queued" /\ on[c] = g

WireInv ==
  \A g \in Gens : \A r \in wire[g] : \A c \in r.jobs :
    /\ on[c] = g /\ run[c] = "none"
    /\ job[c] \notin {"none", "queued"}

Carried(c) == \E g \in Gens : \E r \in wire[g] : c \in r.jobs
Busy(c) == run[c] \in {"given", "spawning", "alive", "early", "running"} \/ Carried(c)
BusyOn(g) == {c \in Callers : on[c] = g /\ Busy(c)}

BusyInv == \A c \in Callers : Busy(c) /\ ~retired[on[c]] => Held(c)
CapInv == \A g \in Gens : Cardinality(BusyOn(g)) <= Cap

IInv ==
  /\ TypeOK
  /\ \A c \in Callers : CallInv(c) /\ RunInv(c)
  /\ QueueInv /\ WireInv /\ BusyInv
  /\ SlotsConserved /\ CapInv

(***************************************************************************)
(* Types                                                                   *)
(***************************************************************************)
(* A generation holds finitely many jobs.                                  *)
LEMMA JobsFinite ==
  ASSUME CallTypes, NEW g
  PROVE  /\ IsFiniteSet(JobsOf(g))
         /\ Cardinality(JobsOf(g)) \in Nat
<1>1. JobsOf(g) \subseteq Callers
  BY DEF JobsOf
<1>. QED BY <1>1, FS_Subset, FS_CardinalityType, AgentHostAssumption DEF AgentHostAssumption

(* Retirement keeps the types, whatever it counts.                         *)
LEMMA RetireHost ==
  ASSUME HostTypes, NEW g \in Gens, NEW fut, NEW k \in Nat, Retire(g, fut, k)
  PROVE  /\ gen' \in 0..MaxGen
         /\ failures' \in 0..CrashLimit
         /\ retired' \in [Gens -> BOOLEAN]
<1>1. gen' \in 0..MaxGen
  BY AgentHostAssumption DEF HostTypes, Retire, AgentHostAssumption, Gens
<1>2. failures' \in 0..CrashLimit
  <2>1. failures \in Nat /\ failures <= CrashLimit /\ CrashLimit \in Nat
    BY AgentHostAssumption DEF HostTypes, AgentHostAssumption
  <2>2. CASE failures + k < CrashLimit
    BY <2>1, <2>2 DEF Retire, Count
  <2>3. CASE ~(failures + k < CrashLimit)
    BY <2>1, <2>3 DEF Retire, Count
  <2>. QED BY <2>2, <2>3
<1>3. retired' \in [Gens -> BOOLEAN]
  BY DEF HostTypes, Retire
<1>. QED BY <1>1, <1>2, <1>3

(* ... and those of the calls it fails.                                    *)
LEMMA RetireCalls ==
  ASSUME CallTypes, NEW g \in Gens, NEW k, NEW fut, Retire(g, fut, k),
         fut \in [Callers -> {"none", "pending", "result", "failed", "cancelled"}],
         \A c \in Callers : job[c] = "none" <=> fut[c] = "none"
  PROVE  /\ job' \in [Callers -> HeldStates \cup {"none", "released"}]
         /\ future' \in [Callers -> {"none", "pending", "result", "failed", "cancelled"}]
         /\ free' \in Nat
         /\ \A c \in Callers : /\ job'[c] = "none" <=> future'[c] = "none"
                               /\ job'[c] = "none" <=> job[c] = "none"
<1>1. job' \in [Callers -> HeldStates \cup {"none", "released"}]
  BY DEF CallTypes, Retire
<1>2. future' \in [Callers -> {"none", "pending", "result", "failed", "cancelled"}]
  BY DEF Retire
<1>3. free' \in Nat
  BY JobsFinite DEF CallTypes, Retire
<1>4. \A c \in Callers : /\ job'[c] = "none" <=> future'[c] = "none"
                         /\ job'[c] = "none" <=> job[c] = "none"
  BY DEF CallTypes, Retire, JobsOf, Held, HeldStates
<1>. QED BY <1>1, <1>2, <1>3, <1>4

(* Every step keeps the types of the host's state,                         *)
LEMMA HostTypesNext ==
  ASSUME HostTypes, CallTypes, [Next]_vars
  PROVE  HostTypes'
<1>1. CASE Close
  <2>1. /\ started' \in [Gens -> {"no", "launching", "up", "failed", "cancelled"}]
        /\ starting' \in 0..MaxGen /\ closed' \in BOOLEAN /\ UNCHANGED <<n, said>>
    BY <1>1, AgentHostAssumption DEF Close, HostTypes, AgentHostAssumption
  <2>2. \/ UNCHANGED retireVars
        \/ \E g \in Gens : Retire(g, future, 0)
    BY <1>1 DEF Close, HostTypes, Live, Gens
  <2>3. CASE UNCHANGED retireVars
    BY <2>1, <2>3 DEF HostTypes, retireVars
  <2>4. CASE \E g \in Gens : Retire(g, future, 0)
    BY <2>1, <2>4, RetireHost DEF HostTypes
  <2>. QED BY <2>2, <2>3, <2>4
<1>2. ASSUME NEW g \in Gens, Hello(g) PROVE HostTypes'
  BY <1>2 DEF Hello, callVars, jobVars, retireVars, runVars, HostTypes, Gens
<1>3. ASSUME NEW g \in Gens, StartDone(g) PROVE HostTypes'
  <2>. USE <1>3 DEF StartDone, HostTypes, Gens
  <2>1. gen' \in 0..MaxGen /\ starting' \in 0..MaxGen
    BY AgentHostAssumption DEF AgentHostAssumption
  <2>. QED BY <2>1
<1>4. ASSUME NEW g \in Gens, StartFails(g) PROVE HostTypes'
  <2>1. started' \in [Gens -> {"no", "launching", "up", "failed", "cancelled"}]
       /\ starting' = 0 /\ UNCHANGED <<n, closed, said>>
    BY <1>4 DEF StartFails, HostTypes
  <2>2. CASE retired[g]
    <3>1. failures' \in 0..CrashLimit
      BY <1>4, <2>2, AgentHostAssumption DEF StartFails, HostTypes, Count, AgentHostAssumption
    <3>. QED BY <1>4, <2>1, <2>2, <3>1, AgentHostAssumption
               DEF StartFails, HostTypes, AgentHostAssumption
  <2>3. CASE ~retired[g]
    BY <1>4, <2>1, <2>3, RetireHost, AgentHostAssumption
       DEF StartFails, HostTypes, Crashes, AgentHostAssumption
  <2>. QED BY <2>2, <2>3
<1>5. ASSUME NEW g \in Gens, Watch(g) PROVE HostTypes'
  BY <1>5, RetireHost DEF Watch, HostTypes, Crashes, hostVars
<1>6. ASSUME NEW g \in Gens, Lapse(g) PROVE HostTypes'
  BY <1>6, RetireHost DEF Lapse, HostTypes, Crashes, hostVars
<1>7. ASSUME NEW g \in Gens, Poll(g) PROVE HostTypes'
  <2>1. CASE UNCHANGED retireVars
    BY <1>7, <2>1 DEF Poll, HostTypes, hostVars, retireVars
  <2>2. CASE Retire(g, future, Crashes(g))
    BY <1>7, <2>2, RetireHost DEF Poll, HostTypes, Crashes, hostVars
  <2>. QED BY <1>7, <2>1, <2>2 DEF Poll
<1>8. ASSUME NEW g \in Gens, ProcessEnds(g) \/ FetchFails(g) \/
   GiveUpPolling(g) \/ Respond(g) \/ HoldEnds(g) \/ Read(g)
     PROVE  HostTypes'
  BY <1>8 DEF ProcessEnds, FetchFails, GiveUpPolling, Respond, HoldEnds,
     Read, hostVars, retireVars, HostTypes
<1>9. ASSUME NEW c \in Callers, Enter(c) PROVE HostTypes'
  <2>. USE DEF HostTypes, hostVars, retireVars
  <2>1. CASE UNCHANGED hostVars
    BY <1>9, <2>1 DEF Enter
  <2>2. CASE n < MaxGen /\ n' = n + 1 /\ starting' = n + 1 /\ UNCHANGED <<closed, said>>
               /\ started' = [started EXCEPT ![n + 1] = "launching"]
    <3>1. n + 1 \in 0..MaxGen
      BY <2>2, AgentHostAssumption DEF AgentHostAssumption
    <3>2. UNCHANGED <<gen, failures, retired>>
      BY <1>9 DEF Enter
    <3>. QED BY <2>2, <3>1, <3>2
  <2>. QED BY <1>9, <2>1, <2>2 DEF Enter
<1>10. ASSUME NEW c \in Callers, Abandon(c) PROVE HostTypes'
  <2>1. on[c] \in Gens
    BY <1>10 DEF Abandon, CallTypes, Gens
  <2>2. UNCHANGED hostVars
    BY <1>10 DEF Abandon
  <2>3. \/ UNCHANGED <<gen, failures, retired>>
        \/ \E fut : Retire(on[c], fut, 0)
    BY <1>10 DEF Abandon
  <2>4. CASE UNCHANGED <<gen, failures, retired>>
    BY <2>2, <2>4 DEF HostTypes, hostVars
  <2>5. CASE \E fut : Retire(on[c], fut, 0)
    BY <2>1, <2>2, <2>5, RetireHost DEF HostTypes, hostVars
  <2>. QED BY <2>3, <2>4, <2>5
<1>11. ASSUME NEW c \in Callers, Started(c) \/ Acquire(c) \/ Admit(c) \/
   Bounce(c) \/ GiveUpEarly(c) \/ Settle(c) \/ GiveUpLate(c) \/ Withdraw(c)
   \/ Prepare(c) \/ Spawn(c) \/ EndsEarly(c) \/ Answered(c) \/ Ends(c) \/
   Post(c) \/ PostFails(c)
     PROVE  HostTypes'
  BY <1>11 DEF Started, Acquire, Admit, Bounce, GiveUpEarly, Settle,
     GiveUpLate, Withdraw, Prepare, Spawn, EndsEarly, Answered, Ends, Post,
     PostFails, hostVars, retireVars, HostTypes
<1>12. CASE UNCHANGED vars
  BY <1>12 DEF vars, hostVars, retireVars, HostTypes
<1>. QED BY <1>1, <1>2, <1>3, <1>4, <1>5, <1>6, <1>7, <1>8, <1>9, <1>10,
   <1>11, <1>12 DEF Next

(* those of the channel,                                                   *)
LEMMA ChannelTypesNext ==
  ASSUME ChannelTypes, [Next]_vars
  PROVE  ChannelTypes'
<1>1. CASE Close
  BY <1>1 DEF Close, Retire, Live, JobsOf, Held, callVars, jobVars, modVars,
     retireVars, runVars, ChannelTypes, Gens
<1>2. ASSUME NEW g \in Gens, StartFails(g) PROVE ChannelTypes'
  BY <1>2 DEF StartFails, Retire, JobsOf, Held, callVars, jobVars, modVars,
     runVars, ChannelTypes, Gens
<1>3. ASSUME NEW g \in Gens, Watch(g) PROVE ChannelTypes'
  BY <1>3 DEF Watch, Retire, JobsOf, Held, callVars, hostVars, modVars,
     runVars, ChannelTypes, Gens
<1>4. ASSUME NEW g \in Gens, Lapse(g) PROVE ChannelTypes'
  BY <1>4 DEF Lapse, Retire, JobsOf, Held, callVars, hostVars, modVars,
     runVars, ChannelTypes, Gens
<1>5. ASSUME NEW g \in Gens, ProcessEnds(g) PROVE ChannelTypes'
  BY <1>5 DEF ProcessEnds, callVars, hostVars, jobVars, retireVars,
     ChannelTypes, Gens
<1>6. ASSUME NEW g \in Gens, Poll(g) PROVE ChannelTypes'
  BY <1>6 DEF Poll, Retire, JobsOf, Held, callVars, hostVars, jobVars,
     retireVars, runVars, ChannelTypes, Gens
<1>7. ASSUME NEW g \in Gens, FetchFails(g) PROVE ChannelTypes'
  BY <1>7 DEF FetchFails, callVars, hostVars, jobVars, retireVars, runVars,
     ChannelTypes, Gens
<1>8. ASSUME NEW g \in Gens, Respond(g) PROVE ChannelTypes'
  <2>1. queue' \in [Gens -> SUBSET Callers] /\ cancels' \in [Gens -> SUBSET Callers]
       /\ seq' \in [Gens -> Nat] /\ held' \in [Gens -> {"none", "live", "dead"}]
    BY <1>8 DEF Respond, ChannelTypes
  <2>2. PICK jobs \in SUBSET queue[g] :
          wire' = [wire EXCEPT ![g] =
            IF held[g] = "live"
              THEN {[seq |-> seq[g] + 1, jobs |-> jobs, cancels |-> cancels[g]]}
              ELSE @]
    BY <1>8 DEF Respond
  <2>3. [seq |-> seq[g] + 1, jobs |-> jobs, cancels |-> cancels[g]]
          \in [seq : Nat, jobs : SUBSET Callers, cancels : SUBSET Callers]
    BY DEF ChannelTypes
  <2>4. wire' \in [Gens -> SUBSET [seq : Nat, jobs : SUBSET Callers, cancels : SUBSET Callers]]
    BY <2>2, <2>3 DEF ChannelTypes
  <2>. QED BY <2>1, <2>4 DEF ChannelTypes
<1>9. ASSUME NEW g \in Gens, HoldEnds(g) PROVE ChannelTypes'
  BY <1>9 DEF HoldEnds, callVars, hostVars, jobVars, retireVars, runVars,
     ChannelTypes, Gens
<1>10. ASSUME NEW g \in Gens, Read(g) PROVE ChannelTypes'
  BY <1>10 DEF Read, callVars, hostVars, jobVars, retireVars, runVars,
     ChannelTypes, Gens
<1>11. ASSUME NEW g \in Gens, Hello(g) \/ StartDone(g) \/ GiveUpPolling(g)
     PROVE  ChannelTypes'
  BY <1>11 DEF Hello, StartDone, GiveUpPolling, modVars, retireVars,
     ChannelTypes
<1>12. ASSUME NEW c \in Callers, Admit(c) PROVE ChannelTypes'
  BY <1>12 DEF Admit, Goto, Live, hostVars, modVars, runVars, ChannelTypes,
     Gens
<1>13. ASSUME NEW c \in Callers, Withdraw(c) PROVE ChannelTypes'
  BY <1>13 DEF Withdraw, Tell, Goto, hostVars, modVars, runVars,
     ChannelTypes, Gens
<1>14. ASSUME NEW c \in Callers, Abandon(c) PROVE ChannelTypes'
  BY <1>14 DEF Abandon, Tell, Retire, Abandoned, Goto, JobsOf, Held,
     hostVars, modVars, runVars, ChannelTypes, Gens
<1>15. ASSUME NEW c \in Callers, Enter(c) \/ Started(c) \/ Acquire(c) \/
   Bounce(c) \/ GiveUpEarly(c) \/ Settle(c) \/ GiveUpLate(c) \/ Prepare(c) \/
   Spawn(c) \/ EndsEarly(c) \/ Answered(c) \/ Ends(c) \/ Post(c) \/
   PostFails(c)
     PROVE  ChannelTypes'
  BY <1>15 DEF Enter, Started, Acquire, Bounce, GiveUpEarly, Settle,
     GiveUpLate, Prepare, Spawn, EndsEarly, Answered, Ends, Post, PostFails,
     modVars, retireVars, ChannelTypes
<1>16. CASE UNCHANGED vars
  BY <1>16 DEF vars, modVars, retireVars, ChannelTypes
<1>. QED BY <1>1, <1>2, <1>3, <1>4, <1>5, <1>6, <1>7, <1>8, <1>9, <1>10,
   <1>11, <1>12, <1>13, <1>14, <1>15, <1>16 DEF Next

(* those of the mod's state,                                               *)
LEMMA ModTypesNext ==
  ASSUME ChannelTypes, ModTypes, [Next]_vars
  PROVE  ModTypes'
<1>1. CASE Close
  BY <1>1 DEF Close, Retire, Live, JobsOf, Held, callVars, jobVars, modVars,
     retireVars, runVars, ChannelTypes, ModTypes, Gens
<1>2. ASSUME NEW g \in Gens, Hello(g) PROVE ModTypes'
  BY <1>2 DEF Hello, callVars, jobVars, retireVars, runVars, ChannelTypes,
     ModTypes, Gens
<1>3. ASSUME NEW g \in Gens, ProcessEnds(g) PROVE ModTypes'
  BY <1>3 DEF ProcessEnds, callVars, hostVars, jobVars, retireVars,
     ChannelTypes, ModTypes, Gens
<1>4. ASSUME NEW g \in Gens, Poll(g) PROVE ModTypes'
  BY <1>4 DEF Poll, Retire, JobsOf, Held, callVars, hostVars, jobVars,
     retireVars, runVars, ChannelTypes, ModTypes, Gens
<1>5. ASSUME NEW g \in Gens, FetchFails(g) PROVE ModTypes'
  BY <1>5 DEF FetchFails, callVars, hostVars, jobVars, retireVars, runVars,
     ChannelTypes, ModTypes, Gens
<1>6. ASSUME NEW g \in Gens, GiveUpPolling(g) PROVE ModTypes'
  BY <1>6 DEF GiveUpPolling, callVars, hostVars, jobVars, retireVars,
     runVars, ChannelTypes, ModTypes, Gens
<1>7. ASSUME NEW g \in Gens, HoldEnds(g) PROVE ModTypes'
  BY <1>7 DEF HoldEnds, callVars, hostVars, jobVars, retireVars, runVars,
     ChannelTypes, ModTypes, Gens
<1>8. ASSUME NEW g \in Gens, Read(g) PROVE ModTypes'
  BY <1>8 DEF Read, callVars, hostVars, jobVars, retireVars, runVars,
     ChannelTypes, ModTypes, Gens
<1>9. ASSUME NEW g \in Gens, StartDone(g) \/ StartFails(g) \/ Watch(g) \/
   Lapse(g) \/ Respond(g)
     PROVE  ModTypes'
  BY <1>9 DEF StartDone, StartFails, Watch, Lapse, Respond, modVars, runVars,
     ModTypes
<1>10. ASSUME NEW c \in Callers, Prepare(c) PROVE ModTypes'
  BY <1>10 DEF Prepare, Step, callVars, hostVars, jobVars, modVars,
     retireVars, ChannelTypes, ModTypes, Gens
<1>11. ASSUME NEW c \in Callers, Spawn(c) PROVE ModTypes'
  BY <1>11 DEF Spawn, Step, callVars, hostVars, jobVars, modVars, retireVars,
     ChannelTypes, ModTypes, Gens
<1>12. ASSUME NEW c \in Callers, EndsEarly(c) PROVE ModTypes'
  BY <1>12 DEF EndsEarly, Step, callVars, hostVars, jobVars, modVars,
     retireVars, ChannelTypes, ModTypes, Gens
<1>13. ASSUME NEW c \in Callers, Answered(c) PROVE ModTypes'
  BY <1>13 DEF Answered, Step, callVars, hostVars, jobVars, modVars,
     retireVars, ChannelTypes, ModTypes, Gens
<1>14. ASSUME NEW c \in Callers, Ends(c) PROVE ModTypes'
  BY <1>14 DEF Ends, Step, callVars, hostVars, jobVars, modVars, retireVars,
     ChannelTypes, ModTypes, Gens
<1>15. ASSUME NEW c \in Callers, Post(c) PROVE ModTypes'
  BY <1>15 DEF Post, Step, Held, callVars, hostVars, jobVars, modVars,
     retireVars, ChannelTypes, ModTypes, Gens
<1>16. ASSUME NEW c \in Callers, PostFails(c) PROVE ModTypes'
  BY <1>16 DEF PostFails, Step, callVars, hostVars, jobVars, retireVars,
     ChannelTypes, ModTypes, Gens
<1>17. ASSUME NEW c \in Callers, Enter(c) \/ Started(c) \/ Acquire(c) \/
   Admit(c) \/ Bounce(c) \/ GiveUpEarly(c) \/ Settle(c) \/ GiveUpLate(c) \/
   Withdraw(c) \/ Abandon(c)
     PROVE  ModTypes'
  BY <1>17 DEF Enter, Started, Acquire, Admit, Bounce, GiveUpEarly, Settle,
     GiveUpLate, Withdraw, Abandon, modVars, runVars, ModTypes
<1>18. CASE UNCHANGED vars
  BY <1>18 DEF vars, modVars, runVars, ModTypes
<1>. QED BY <1>1, <1>2, <1>3, <1>4, <1>5, <1>6, <1>7, <1>8, <1>9, <1>10,
   <1>11, <1>12, <1>13, <1>14, <1>15, <1>16, <1>17, <1>18 DEF Next

(* and those of the calls and their jobs.                                  *)
LEMMA CallTypesNext ==
  ASSUME CallTypes, HostTypes, QueueInv, [Next]_vars
  PROVE  CallTypes'
<1>1. CASE Close
  <2>1. UNCHANGED callVars
    BY <1>1 DEF Close
  <2>2. \/ UNCHANGED jobVars
        \/ \E g \in Gens : Retire(g, future, 0)
    BY <1>1 DEF Close, HostTypes, Live, Gens
  <2>3. CASE UNCHANGED jobVars
    BY <2>1, <2>3 DEF CallTypes, callVars, jobVars
  <2>4. CASE \E g \in Gens : Retire(g, future, 0)
    BY <2>1, <2>4, RetireCalls DEF CallTypes, callVars
  <2>. QED BY <2>2, <2>3, <2>4
<1>2. ASSUME NEW g \in Gens, StartFails(g) PROVE CallTypes'
  <2>1. CASE UNCHANGED jobVars
    BY <1>2, <2>1 DEF StartFails, CallTypes, callVars, jobVars
  <2>2. CASE Retire(g, future, 1 + Crashes(g))
    BY <1>2, <2>2, RetireCalls DEF StartFails, CallTypes, callVars
  <2>. QED BY <1>2, <2>1, <2>2 DEF StartFails
<1>3. ASSUME NEW g \in Gens, Watch(g) PROVE CallTypes'
  BY <1>3, RetireCalls DEF Watch, CallTypes, callVars
<1>4. ASSUME NEW g \in Gens, Lapse(g) PROVE CallTypes'
  BY <1>4, RetireCalls DEF Lapse, CallTypes, callVars
<1>5. ASSUME NEW g \in Gens, Poll(g) PROVE CallTypes'
  <2>1. CASE UNCHANGED jobVars
    BY <1>5, <2>1 DEF Poll, CallTypes, callVars, jobVars
  <2>2. CASE Retire(g, future, Crashes(g))
    BY <1>5, <2>2, RetireCalls DEF Poll, CallTypes, callVars
  <2>. QED BY <1>5, <2>1, <2>2 DEF Poll
<1>6. ASSUME NEW g \in Gens, Respond(g) PROVE CallTypes'
  <2>1. PICK jobs \in SUBSET queue[g] :
          job' = [d \in Callers |-> IF d \in jobs THEN "delivered" ELSE job[d]]
    BY <1>6 DEF Respond
  <2>2. \A d \in jobs : job[d] = "queued"
    BY DEF QueueInv
  <2>3. UNCHANGED <<callVars, future, free>>
    BY <1>6 DEF Respond
  <2>. QED BY <2>1, <2>2, <2>3 DEF CallTypes, callVars, HeldStates
<1>7. ASSUME NEW g \in Gens, Hello(g) \/ StartDone(g) \/ ProcessEnds(g) \/
   FetchFails(g) \/ GiveUpPolling(g) \/ HoldEnds(g) \/ Read(g)
     PROVE  CallTypes'
  BY <1>7 DEF Hello, StartDone, ProcessEnds, FetchFails, GiveUpPolling,
     HoldEnds, Read, callVars, jobVars, CallTypes
<1>8. ASSUME NEW c \in Callers, Enter(c) PROVE CallTypes'
  <2>1. CASE Tell(c, "unavailable") /\ on' = on
    BY <1>8, <2>1 DEF Enter, CallTypes, jobVars, Tell, Goto
  <2>2. CASE Goto(c, "permit") /\ UNCHANGED <<told, on>>
    BY <1>8, <2>2 DEF Enter, CallTypes, jobVars, Goto
  <2>3. CASE \E g \in Gens : Goto(c, "starting") /\ told' = told /\ on' = [on EXCEPT ![c] = g]
    BY <1>8, <2>3 DEF Enter, CallTypes, jobVars, Goto, Gens
  <2>4. starting # 0 => starting \in Gens
    BY DEF HostTypes, Gens
  <2>5. n < MaxGen => n + 1 \in Gens
    BY AgentHostAssumption DEF HostTypes, Gens, AgentHostAssumption
  <2>. QED BY <1>8, <2>1, <2>2, <2>3, <2>4, <2>5 DEF Enter
<1>9. ASSUME NEW c \in Callers, Started(c) PROVE CallTypes'
  BY <1>9 DEF Started, Goto, Tell, hostVars, jobVars, modVars, retireVars,
     runVars, CallTypes, HostTypes, HeldStates
<1>10. ASSUME NEW c \in Callers, Acquire(c) PROVE CallTypes'
  BY <1>10 DEF Acquire, Goto, hostVars, modVars, retireVars, runVars,
     CallTypes, HostTypes, HeldStates
<1>11. ASSUME NEW c \in Callers, Admit(c) PROVE CallTypes'
  BY <1>11 DEF Admit, Goto, Live, hostVars, modVars, runVars, CallTypes,
     HostTypes, HeldStates
<1>12. ASSUME NEW c \in Callers, Bounce(c) PROVE CallTypes'
  BY <1>12 DEF Bounce, Goto, Live, hostVars, modVars, retireVars, runVars,
     CallTypes, HostTypes, HeldStates
<1>13. ASSUME NEW c \in Callers, GiveUpEarly(c) PROVE CallTypes'
  <2>1. pc' = [pc EXCEPT ![c] = "done"] /\ UNCHANGED <<on, job, future>>
       /\ told' \in [Callers -> {"nothing", "result", "failed", "timeout", "unavailable", "refused"}]
    BY <1>13 DEF GiveUpEarly, CallTypes, Tell, Goto
  <2>2. free' \in Nat
    BY <1>13 DEF GiveUpEarly, CallTypes
  <2>. QED BY <2>1, <2>2 DEF CallTypes
<1>14. ASSUME NEW c \in Callers, Settle(c) PROVE CallTypes'
  BY <1>14 DEF Settle, Tell, Goto, hostVars, jobVars, modVars, retireVars,
     runVars, CallTypes, HostTypes, HeldStates
<1>15. ASSUME NEW c \in Callers, GiveUpLate(c) PROVE CallTypes'
  BY <1>15 DEF GiveUpLate, Tell, Goto, hostVars, jobVars, modVars,
     retireVars, runVars, CallTypes, HostTypes, HeldStates
<1>16. ASSUME NEW c \in Callers, Withdraw(c) PROVE CallTypes'
  BY <1>16 DEF Withdraw, Tell, Goto, hostVars, modVars, runVars, CallTypes,
     HostTypes, HeldStates
<1>17. ASSUME NEW c \in Callers, Abandon(c) PROVE CallTypes'
  <2>1. on[c] \in Gens
    BY <1>17 DEF Abandon, CallTypes, Gens
  <2>2. /\ pc' = [pc EXCEPT ![c] = "done"] /\ told' = [told EXCEPT ![c] = "timeout"]
        /\ on' = on
    BY <1>17 DEF Abandon, Tell, Goto
  <2>. DEFINE fut == [future EXCEPT ![c] = "cancelled"]
  <2>3. /\ fut \in [Callers -> {"none", "pending", "result", "failed", "cancelled"}]
        /\ \A d \in Callers : job[d] = "none" <=> fut[d] = "none"
    BY <1>17 DEF Abandon, CallTypes
  <2>4. CASE Retire(on[c], fut, 0)
    BY ZenonT(60), <2>1, <2>2, <2>3, <2>4, RetireCalls DEF CallTypes
  <2>5. CASE future' = fut /\ job' = [job EXCEPT ![c] = "abandoned"] /\ free' = free
    BY <1>17, <2>2, <2>5 DEF CallTypes, HeldStates, Abandon
  <2>. QED BY <1>17, <2>4, <2>5 DEF Abandon
<1>18. ASSUME NEW c \in Callers, Post(c) PROVE CallTypes'
  <2>1. UNCHANGED callVars
    BY <1>18 DEF Post
  <2>2. CASE Held(c)
    BY <1>18, <2>1, <2>2 DEF Post, CallTypes, callVars, Held, HeldStates
  <2>3. CASE ~Held(c)
    BY <1>18, <2>1, <2>3 DEF Post, CallTypes, callVars, jobVars
  <2>. QED BY <2>2, <2>3
<1>19. ASSUME NEW c \in Callers, Prepare(c) \/ Spawn(c) \/ EndsEarly(c) \/
   Answered(c) \/ Ends(c) \/ PostFails(c)
     PROVE  CallTypes'
  BY <1>19 DEF Prepare, Spawn, EndsEarly, Answered, Ends, PostFails,
     callVars, jobVars, CallTypes
<1>20. CASE UNCHANGED vars
  BY <1>20 DEF vars, callVars, jobVars, CallTypes
<1>. QED BY <1>1, <1>2, <1>3, <1>4, <1>5, <1>6, <1>7, <1>8, <1>9, <1>10,
   <1>11, <1>12, <1>13, <1>14, <1>15, <1>16, <1>17, <1>18, <1>19, <1>20 DEF
   Next

(* Every step keeps a call's job in agreement with where its caller is.    *)
LEMMA CallInvNext ==
  ASSUME CallTypes, QueueInv, \A c \in Callers : CallInv(c), [Next]_vars
  PROVE  \A d \in Callers : CallInv(d)'
<1>1. CASE Close
  BY <1>1 DEF Close, Retire, Live, JobsOf, Held, callVars, jobVars, modVars,
     retireVars, runVars, CallInv, CallTypes, HeldStates, Early, QueueInv,
     Contract!Elsewhere
<1>2. ASSUME NEW g \in Gens, StartFails(g) PROVE \A d \in Callers : CallInv(d)'
  BY <1>2 DEF StartFails, Retire, JobsOf, Held, callVars, jobVars, modVars,
     runVars, CallInv, CallTypes, HeldStates, Early, QueueInv,
     Contract!Elsewhere
<1>3. ASSUME NEW g \in Gens, Watch(g) PROVE \A d \in Callers : CallInv(d)'
  BY <1>3 DEF Watch, Retire, JobsOf, Held, callVars, hostVars, modVars,
     runVars, CallInv, CallTypes, HeldStates, Early, QueueInv,
     Contract!Elsewhere
<1>4. ASSUME NEW g \in Gens, Lapse(g) PROVE \A d \in Callers : CallInv(d)'
  BY <1>4 DEF Lapse, Retire, JobsOf, Held, callVars, hostVars, modVars,
     runVars, CallInv, CallTypes, HeldStates, Early, QueueInv,
     Contract!Elsewhere
<1>5. ASSUME NEW g \in Gens, Poll(g) PROVE \A d \in Callers : CallInv(d)'
  BY <1>5 DEF Poll, Retire, JobsOf, Held, callVars, hostVars, jobVars,
     retireVars, runVars, CallInv, CallTypes, HeldStates, Early, QueueInv,
     Contract!Elsewhere
<1>6. ASSUME NEW g \in Gens, Respond(g) PROVE \A d \in Callers : CallInv(d)'
  BY <1>6 DEF Respond, callVars, hostVars, runVars, CallInv, CallTypes,
     HeldStates, Early, QueueInv, Contract!Elsewhere
<1>7. ASSUME NEW g \in Gens, Hello(g) \/ StartDone(g) \/ ProcessEnds(g) \/
   FetchFails(g) \/ GiveUpPolling(g) \/ HoldEnds(g) \/ Read(g)
     PROVE  \A d \in Callers : CallInv(d)'
  BY <1>7 DEF Hello, StartDone, ProcessEnds, FetchFails, GiveUpPolling,
     HoldEnds, Read, callVars, jobVars, CallInv
<1>8. ASSUME NEW c \in Callers, Enter(c) PROVE \A d \in Callers : CallInv(d)'
  BY <1>8 DEF Enter, Goto, Tell, Live, hostVars, jobVars, modVars,
     retireVars, runVars, CallInv, CallTypes, HeldStates, Early, QueueInv,
     Contract!Elsewhere
<1>9. ASSUME NEW c \in Callers, Started(c) PROVE \A d \in Callers : CallInv(d)'
  BY <1>9 DEF Started, Goto, Tell, hostVars, jobVars, modVars, retireVars,
     runVars, CallInv, CallTypes, HeldStates, Early, QueueInv,
     Contract!Elsewhere
<1>10. ASSUME NEW c \in Callers, Acquire(c) PROVE \A d \in Callers : CallInv(d)'
  BY <1>10 DEF Acquire, Goto, hostVars, modVars, retireVars, runVars,
     CallInv, CallTypes, HeldStates, Early, QueueInv, Contract!Elsewhere
<1>11. ASSUME NEW c \in Callers, Admit(c) PROVE \A d \in Callers : CallInv(d)'
  BY <1>11 DEF Admit, Goto, Live, hostVars, modVars, runVars, CallInv,
     CallTypes, HeldStates, Early, QueueInv, Contract!Elsewhere
<1>12. ASSUME NEW c \in Callers, Bounce(c) PROVE \A d \in Callers : CallInv(d)'
  BY <1>12 DEF Bounce, Goto, Live, hostVars, modVars, retireVars, runVars,
     CallInv, CallTypes, HeldStates, Early, QueueInv, Contract!Elsewhere
<1>13. ASSUME NEW c \in Callers, GiveUpEarly(c) PROVE \A d \in Callers : CallInv(d)'
  BY <1>13 DEF GiveUpEarly, Tell, Live, Goto, hostVars, modVars, retireVars,
     runVars, CallInv, CallTypes, HeldStates, Early, QueueInv,
     Contract!Elsewhere
<1>14. ASSUME NEW c \in Callers, Settle(c) PROVE \A d \in Callers : CallInv(d)'
  BY <1>14 DEF Settle, Tell, Goto, hostVars, jobVars, modVars, retireVars,
     runVars, CallInv, CallTypes, HeldStates, Early, QueueInv,
     Contract!Elsewhere
<1>15. ASSUME NEW c \in Callers, GiveUpLate(c) PROVE \A d \in Callers : CallInv(d)'
  BY <1>15 DEF GiveUpLate, Tell, Goto, hostVars, jobVars, modVars,
     retireVars, runVars, CallInv, CallTypes, HeldStates, Early, QueueInv,
     Contract!Elsewhere
<1>16. ASSUME NEW c \in Callers, Withdraw(c) PROVE \A d \in Callers : CallInv(d)'
  BY <1>16 DEF Withdraw, Tell, Goto, hostVars, modVars, runVars, CallInv,
     CallTypes, HeldStates, Early, QueueInv, Contract!Elsewhere
<1>17. ASSUME NEW c \in Callers, Abandon(c) PROVE \A d \in Callers : CallInv(d)'
  BY <1>17 DEF Abandon, Tell, Retire, Abandoned, Goto, JobsOf, Held,
     hostVars, modVars, runVars, CallInv, CallTypes, HeldStates, Early,
     QueueInv, Contract!Elsewhere
<1>18. ASSUME NEW c \in Callers, Post(c) PROVE \A d \in Callers : CallInv(d)'
  BY <1>18 DEF Post, Step, Held, callVars, hostVars, jobVars, modVars,
     retireVars, CallInv, CallTypes, HeldStates, Early, QueueInv,
     Contract!Elsewhere
<1>19. ASSUME NEW c \in Callers, Prepare(c) \/ Spawn(c) \/ EndsEarly(c) \/
   Answered(c) \/ Ends(c) \/ PostFails(c)
     PROVE  \A d \in Callers : CallInv(d)'
  BY <1>19 DEF Prepare, Spawn, EndsEarly, Answered, Ends, PostFails,
     callVars, jobVars, CallInv
<1>20. CASE UNCHANGED vars
  BY <1>20 DEF vars, callVars, jobVars, CallInv
<1>. QED BY <1>1, <1>2, <1>3, <1>4, <1>5, <1>6, <1>7, <1>8, <1>9, <1>10,
   <1>11, <1>12, <1>13, <1>14, <1>15, <1>16, <1>17, <1>18, <1>19, <1>20 DEF
   Next

(* What a host process was handed stays out of the queue.                  *)
LEMMA RunInvNext ==
  ASSUME CallTypes, ModTypes, QueueInv, WireInv, \A c \in Callers :
     CallInv(c) /\ RunInv(c), [Next]_vars
  PROVE  \A d \in Callers : RunInv(d)'
<1>1. CASE Close
  BY <1>1 DEF Close, Retire, Live, JobsOf, Held, callVars, jobVars, modVars,
     retireVars, runVars, CallInv, RunInv, CallTypes, ModTypes, HeldStates,
     Early, QueueInv, WireInv
<1>2. ASSUME NEW g \in Gens, StartFails(g) PROVE \A d \in Callers : RunInv(d)'
  BY <1>2 DEF StartFails, Retire, JobsOf, Held, callVars, jobVars, modVars,
     runVars, CallInv, RunInv, CallTypes, ModTypes, HeldStates, Early,
     QueueInv, WireInv
<1>3. ASSUME NEW g \in Gens, Watch(g) PROVE \A d \in Callers : RunInv(d)'
  BY <1>3 DEF Watch, Retire, JobsOf, Held, callVars, hostVars, modVars,
     runVars, CallInv, RunInv, CallTypes, ModTypes, HeldStates, Early,
     QueueInv, WireInv
<1>4. ASSUME NEW g \in Gens, Lapse(g) PROVE \A d \in Callers : RunInv(d)'
  BY <1>4 DEF Lapse, Retire, JobsOf, Held, callVars, hostVars, modVars,
     runVars, CallInv, RunInv, CallTypes, ModTypes, HeldStates, Early,
     QueueInv, WireInv
<1>5. ASSUME NEW g \in Gens, ProcessEnds(g) PROVE \A d \in Callers : RunInv(d)'
  BY <1>5 DEF ProcessEnds, callVars, hostVars, jobVars, retireVars, CallInv,
     RunInv, CallTypes, ModTypes, HeldStates, Early, QueueInv, WireInv
<1>6. ASSUME NEW g \in Gens, Poll(g) PROVE \A d \in Callers : RunInv(d)'
  BY <1>6 DEF Poll, Retire, JobsOf, Held, callVars, hostVars, jobVars,
     retireVars, runVars, CallInv, RunInv, CallTypes, ModTypes, HeldStates,
     Early, QueueInv, WireInv
<1>7. ASSUME NEW g \in Gens, Respond(g) PROVE \A d \in Callers : RunInv(d)'
  BY <1>7 DEF Respond, callVars, hostVars, runVars, CallInv, RunInv,
     CallTypes, ModTypes, HeldStates, Early, QueueInv, WireInv
<1>8. ASSUME NEW g \in Gens, Read(g) PROVE \A d \in Callers : RunInv(d)'
  BY <1>8 DEF Read, callVars, hostVars, jobVars, retireVars, runVars,
     CallInv, RunInv, CallTypes, ModTypes, HeldStates, Early, QueueInv,
     WireInv
<1>9. ASSUME NEW g \in Gens, Hello(g) \/ StartDone(g) \/ FetchFails(g) \/
   GiveUpPolling(g) \/ HoldEnds(g)
     PROVE  \A d \in Callers : RunInv(d)'
  BY <1>9 DEF Hello, StartDone, FetchFails, GiveUpPolling, HoldEnds, jobVars,
     runVars, RunInv
<1>10. ASSUME NEW c \in Callers, Admit(c) PROVE \A d \in Callers : RunInv(d)'
  BY <1>10 DEF Admit, Goto, Live, hostVars, modVars, runVars, CallInv,
     RunInv, CallTypes, ModTypes, HeldStates, Early, QueueInv, WireInv
<1>11. ASSUME NEW c \in Callers, Withdraw(c) PROVE \A d \in Callers : RunInv(d)'
  BY <1>11 DEF Withdraw, Tell, Goto, hostVars, modVars, runVars, CallInv,
     RunInv, CallTypes, ModTypes, HeldStates, Early, QueueInv, WireInv
<1>12. ASSUME NEW c \in Callers, Abandon(c) PROVE \A d \in Callers : RunInv(d)'
  BY <1>12 DEF Abandon, Tell, Retire, Abandoned, Goto, JobsOf, Held,
     hostVars, modVars, runVars, CallInv, RunInv, CallTypes, ModTypes,
     HeldStates, Early, QueueInv, WireInv
<1>13. ASSUME NEW c \in Callers, Prepare(c) PROVE \A d \in Callers : RunInv(d)'
  BY <1>13 DEF Prepare, Step, callVars, hostVars, jobVars, modVars,
     retireVars, CallInv, RunInv, CallTypes, ModTypes, HeldStates, Early,
     QueueInv, WireInv
<1>14. ASSUME NEW c \in Callers, Spawn(c) PROVE \A d \in Callers : RunInv(d)'
  BY <1>14 DEF Spawn, Step, callVars, hostVars, jobVars, modVars, retireVars,
     CallInv, RunInv, CallTypes, ModTypes, HeldStates, Early, QueueInv,
     WireInv
<1>15. ASSUME NEW c \in Callers, EndsEarly(c) PROVE \A d \in Callers : RunInv(d)'
  BY <1>15 DEF EndsEarly, Step, callVars, hostVars, jobVars, modVars,
     retireVars, CallInv, RunInv, CallTypes, ModTypes, HeldStates, Early,
     QueueInv, WireInv
<1>16. ASSUME NEW c \in Callers, Answered(c) PROVE \A d \in Callers : RunInv(d)'
  BY <1>16 DEF Answered, Step, callVars, hostVars, jobVars, modVars,
     retireVars, CallInv, RunInv, CallTypes, ModTypes, HeldStates, Early,
     QueueInv, WireInv
<1>17. ASSUME NEW c \in Callers, Ends(c) PROVE \A d \in Callers : RunInv(d)'
  BY <1>17 DEF Ends, Step, callVars, hostVars, jobVars, modVars, retireVars,
     CallInv, RunInv, CallTypes, ModTypes, HeldStates, Early, QueueInv,
     WireInv
<1>18. ASSUME NEW c \in Callers, Post(c) PROVE \A d \in Callers : RunInv(d)'
  BY <1>18 DEF Post, Step, Held, callVars, hostVars, jobVars, modVars,
     retireVars, CallInv, RunInv, CallTypes, ModTypes, HeldStates, Early,
     QueueInv, WireInv
<1>19. ASSUME NEW c \in Callers, PostFails(c) PROVE \A d \in Callers : RunInv(d)'
  BY <1>19 DEF PostFails, Step, callVars, hostVars, jobVars, retireVars,
     CallInv, RunInv, CallTypes, ModTypes, HeldStates, Early, QueueInv,
     WireInv
<1>20. ASSUME NEW c \in Callers, Enter(c) \/ Started(c) \/ Acquire(c) \/
   Bounce(c) \/ GiveUpEarly(c) \/ Settle(c) \/ GiveUpLate(c)
     PROVE  \A d \in Callers : RunInv(d)'
  BY <1>20 DEF Enter, Started, Acquire, Bounce, GiveUpEarly, Settle,
     GiveUpLate, jobVars, runVars, RunInv
<1>21. CASE UNCHANGED vars
  BY <1>21 DEF vars, jobVars, runVars, RunInv
<1>. QED BY <1>1, <1>2, <1>3, <1>4, <1>5, <1>6, <1>7, <1>8, <1>9, <1>10,
   <1>11, <1>12, <1>13, <1>14, <1>15, <1>16, <1>17, <1>18, <1>19, <1>20,
   <1>21 DEF Next

(* The queue holds its own generation's undelivered jobs only.             *)
LEMMA QueueInvNext ==
  ASSUME CallTypes, HostTypes, ChannelTypes, QueueInv, \A c \in Callers :
     CallInv(c) /\ RunInv(c), [Next]_vars
  PROVE  QueueInv'
<1>1. CASE Close
  BY <1>1 DEF Close, Retire, Live, JobsOf, Held, callVars, jobVars, modVars,
     retireVars, runVars, CallInv, RunInv, CallTypes, ChannelTypes,
     HeldStates, Early, QueueInv
<1>2. ASSUME NEW g \in Gens, StartFails(g) PROVE QueueInv'
  BY <1>2 DEF StartFails, Retire, JobsOf, Held, callVars, jobVars, modVars,
     runVars, CallInv, RunInv, CallTypes, ChannelTypes, HeldStates, Early,
     QueueInv
<1>3. ASSUME NEW g \in Gens, Watch(g) PROVE QueueInv'
  BY <1>3 DEF Watch, Retire, JobsOf, Held, callVars, hostVars, modVars,
     runVars, CallInv, RunInv, CallTypes, ChannelTypes, HeldStates, Early,
     QueueInv
<1>4. ASSUME NEW g \in Gens, Lapse(g) PROVE QueueInv'
  BY <1>4 DEF Lapse, Retire, JobsOf, Held, callVars, hostVars, modVars,
     runVars, CallInv, RunInv, CallTypes, ChannelTypes, HeldStates, Early,
     QueueInv
<1>5. ASSUME NEW g \in Gens, Poll(g) PROVE QueueInv'
  BY <1>5 DEF Poll, Retire, JobsOf, Held, callVars, hostVars, jobVars,
     retireVars, runVars, CallInv, RunInv, CallTypes, ChannelTypes,
     HeldStates, Early, QueueInv
<1>6. ASSUME NEW g \in Gens, Respond(g) PROVE QueueInv'
  BY <1>6 DEF Respond, callVars, hostVars, runVars, CallInv, RunInv,
     CallTypes, ChannelTypes, HeldStates, Early, QueueInv
<1>7. ASSUME NEW g \in Gens, Hello(g) \/ StartDone(g) \/ ProcessEnds(g) \/
   FetchFails(g) \/ GiveUpPolling(g) \/ HoldEnds(g) \/ Read(g)
     PROVE  QueueInv'
  BY <1>7 DEF Hello, StartDone, ProcessEnds, FetchFails, GiveUpPolling,
     HoldEnds, Read, callVars, jobVars, retireVars, QueueInv
<1>8. ASSUME NEW c \in Callers, Enter(c) PROVE QueueInv'
  BY <1>8 DEF Enter, Goto, Tell, Live, hostVars, jobVars, modVars,
     retireVars, runVars, CallInv, RunInv, CallTypes, ChannelTypes,
     HeldStates, Early, QueueInv
<1>9. ASSUME NEW c \in Callers, Admit(c) PROVE QueueInv'
  BY <1>9 DEF Admit, Goto, Live, hostVars, modVars, runVars, CallInv, RunInv,
     CallTypes, ChannelTypes, HeldStates, Early, QueueInv
<1>10. ASSUME NEW c \in Callers, Withdraw(c) PROVE QueueInv'
  BY <1>10 DEF Withdraw, Tell, Goto, hostVars, modVars, runVars, CallInv,
     RunInv, CallTypes, ChannelTypes, HeldStates, Early, QueueInv
<1>11. ASSUME NEW c \in Callers, Abandon(c) PROVE QueueInv'
  BY <1>11 DEF Abandon, Tell, Retire, Abandoned, Goto, JobsOf, Held,
     hostVars, modVars, runVars, CallInv, RunInv, CallTypes, ChannelTypes,
     HeldStates, Early, QueueInv
<1>12. ASSUME NEW c \in Callers, Post(c) PROVE QueueInv'
  BY <1>12 DEF Post, Step, Held, callVars, hostVars, jobVars, modVars,
     retireVars, CallInv, RunInv, CallTypes, ChannelTypes, HeldStates, Early,
     QueueInv
<1>13. ASSUME NEW c \in Callers, Started(c) \/ Acquire(c) \/ Bounce(c) \/
   GiveUpEarly(c) \/ Settle(c) \/ GiveUpLate(c) \/ Prepare(c) \/ Spawn(c) \/
   EndsEarly(c) \/ Answered(c) \/ Ends(c) \/ PostFails(c)
     PROVE  QueueInv'
  BY <1>13 DEF Started, Acquire, Bounce, GiveUpEarly, Settle, GiveUpLate,
     Prepare, Spawn, EndsEarly, Answered, Ends, PostFails, callVars, jobVars,
     retireVars, QueueInv
<1>14. CASE UNCHANGED vars
  BY <1>14 DEF vars, callVars, jobVars, retireVars, QueueInv
<1>. QED BY <1>1, <1>2, <1>3, <1>4, <1>5, <1>6, <1>7, <1>8, <1>9, <1>10,
   <1>11, <1>12, <1>13, <1>14 DEF Next

(* A reply on its way carries jobs that no host process has seen.          *)
LEMMA WireInvNext ==
  ASSUME CallTypes, HostTypes, ChannelTypes, ModTypes, QueueInv, WireInv, \A
     c \in Callers : CallInv(c) /\ RunInv(c), [Next]_vars
  PROVE  WireInv'
<1>1. CASE Close
  BY <1>1 DEF Close, Retire, Live, JobsOf, Held, callVars, jobVars, modVars,
     retireVars, runVars, CallInv, RunInv, CallTypes, ChannelTypes, ModTypes,
     HeldStates, Early, QueueInv, WireInv
<1>2. ASSUME NEW g \in Gens, StartFails(g) PROVE WireInv'
  BY <1>2 DEF StartFails, Retire, JobsOf, Held, callVars, jobVars, modVars,
     runVars, CallInv, RunInv, CallTypes, ChannelTypes, ModTypes, HeldStates,
     Early, QueueInv, WireInv
<1>3. ASSUME NEW g \in Gens, Watch(g) PROVE WireInv'
  BY <1>3 DEF Watch, Retire, JobsOf, Held, callVars, hostVars, modVars,
     runVars, CallInv, RunInv, CallTypes, ChannelTypes, ModTypes, HeldStates,
     Early, QueueInv, WireInv
<1>4. ASSUME NEW g \in Gens, Lapse(g) PROVE WireInv'
  BY <1>4 DEF Lapse, Retire, JobsOf, Held, callVars, hostVars, modVars,
     runVars, CallInv, RunInv, CallTypes, ChannelTypes, ModTypes, HeldStates,
     Early, QueueInv, WireInv
<1>5. ASSUME NEW g \in Gens, ProcessEnds(g) PROVE WireInv'
  BY <1>5 DEF ProcessEnds, callVars, hostVars, jobVars, retireVars, CallInv,
     RunInv, CallTypes, ChannelTypes, ModTypes, HeldStates, Early, QueueInv,
     WireInv
<1>6. ASSUME NEW g \in Gens, Poll(g) PROVE WireInv'
  BY <1>6 DEF Poll, Retire, JobsOf, Held, callVars, hostVars, jobVars,
     retireVars, runVars, CallInv, RunInv, CallTypes, ChannelTypes, ModTypes,
     HeldStates, Early, QueueInv, WireInv
<1>7. ASSUME NEW g \in Gens, FetchFails(g) PROVE WireInv'
  BY <1>7 DEF FetchFails, callVars, hostVars, jobVars, retireVars, runVars,
     CallInv, RunInv, CallTypes, ChannelTypes, ModTypes, HeldStates, Early,
     QueueInv, WireInv
<1>8. ASSUME NEW g \in Gens, Respond(g) PROVE WireInv'
  BY <1>8 DEF Respond, callVars, hostVars, runVars, CallInv, RunInv,
     CallTypes, ChannelTypes, ModTypes, HeldStates, Early, QueueInv, WireInv
<1>9. ASSUME NEW g \in Gens, Read(g) PROVE WireInv'
  BY <1>9 DEF Read, callVars, hostVars, jobVars, retireVars, runVars,
     CallInv, RunInv, CallTypes, ChannelTypes, ModTypes, HeldStates, Early,
     QueueInv, WireInv
<1>10. ASSUME NEW g \in Gens, Hello(g) \/ StartDone(g) \/ GiveUpPolling(g) \/
   HoldEnds(g)
     PROVE  WireInv'
  BY <1>10 DEF Hello, StartDone, GiveUpPolling, HoldEnds, callVars, jobVars,
     modVars, runVars, WireInv
<1>11. ASSUME NEW c \in Callers, Enter(c) PROVE WireInv'
  BY <1>11 DEF Enter, Goto, Tell, Live, hostVars, jobVars, modVars,
     retireVars, runVars, CallInv, RunInv, CallTypes, ChannelTypes, ModTypes,
     HeldStates, Early, QueueInv, WireInv
<1>12. ASSUME NEW c \in Callers, Admit(c) PROVE WireInv'
  BY <1>12 DEF Admit, Goto, Live, hostVars, modVars, runVars, CallInv,
     RunInv, CallTypes, ChannelTypes, ModTypes, HeldStates, Early, QueueInv,
     WireInv
<1>13. ASSUME NEW c \in Callers, Withdraw(c) PROVE WireInv'
  BY <1>13 DEF Withdraw, Tell, Goto, hostVars, modVars, runVars, CallInv,
     RunInv, CallTypes, ChannelTypes, ModTypes, HeldStates, Early, QueueInv,
     WireInv
<1>14. ASSUME NEW c \in Callers, Abandon(c) PROVE WireInv'
  BY <1>14 DEF Abandon, Tell, Retire, Abandoned, Goto, JobsOf, Held,
     hostVars, modVars, runVars, CallInv, RunInv, CallTypes, ChannelTypes,
     ModTypes, HeldStates, Early, QueueInv, WireInv
<1>15. ASSUME NEW c \in Callers, Prepare(c) PROVE WireInv'
  BY <1>15 DEF Prepare, Step, callVars, hostVars, jobVars, modVars,
     retireVars, CallInv, RunInv, CallTypes, ChannelTypes, ModTypes,
     HeldStates, Early, QueueInv, WireInv
<1>16. ASSUME NEW c \in Callers, Spawn(c) PROVE WireInv'
  BY <1>16 DEF Spawn, Step, callVars, hostVars, jobVars, modVars, retireVars,
     CallInv, RunInv, CallTypes, ChannelTypes, ModTypes, HeldStates, Early,
     QueueInv, WireInv
<1>17. ASSUME NEW c \in Callers, EndsEarly(c) PROVE WireInv'
  BY <1>17 DEF EndsEarly, Step, callVars, hostVars, jobVars, modVars,
     retireVars, CallInv, RunInv, CallTypes, ChannelTypes, ModTypes,
     HeldStates, Early, QueueInv, WireInv
<1>18. ASSUME NEW c \in Callers, Answered(c) PROVE WireInv'
  BY <1>18 DEF Answered, Step, callVars, hostVars, jobVars, modVars,
     retireVars, CallInv, RunInv, CallTypes, ChannelTypes, ModTypes,
     HeldStates, Early, QueueInv, WireInv
<1>19. ASSUME NEW c \in Callers, Ends(c) PROVE WireInv'
  BY <1>19 DEF Ends, Step, callVars, hostVars, jobVars, modVars, retireVars,
     CallInv, RunInv, CallTypes, ChannelTypes, ModTypes, HeldStates, Early,
     QueueInv, WireInv
<1>20. ASSUME NEW c \in Callers, Post(c) PROVE WireInv'
  BY <1>20 DEF Post, Step, Held, callVars, hostVars, jobVars, modVars,
     retireVars, CallInv, RunInv, CallTypes, ChannelTypes, ModTypes,
     HeldStates, Early, QueueInv, WireInv
<1>21. ASSUME NEW c \in Callers, PostFails(c) PROVE WireInv'
  BY <1>21 DEF PostFails, Step, callVars, hostVars, jobVars, retireVars,
     CallInv, RunInv, CallTypes, ChannelTypes, ModTypes, HeldStates, Early,
     QueueInv, WireInv
<1>22. ASSUME NEW c \in Callers, Started(c) \/ Acquire(c) \/ Bounce(c) \/
   GiveUpEarly(c) \/ Settle(c) \/ GiveUpLate(c)
     PROVE  WireInv'
  BY <1>22 DEF Started, Acquire, Bounce, GiveUpEarly, Settle, GiveUpLate,
     jobVars, modVars, runVars, WireInv
<1>23. CASE UNCHANGED vars
  BY <1>23 DEF vars, callVars, jobVars, modVars, runVars, WireInv
<1>. QED BY <1>1, <1>2, <1>3, <1>4, <1>5, <1>6, <1>7, <1>8, <1>9, <1>10,
   <1>11, <1>12, <1>13, <1>14, <1>15, <1>16, <1>17, <1>18, <1>19, <1>20,
   <1>21, <1>22, <1>23 DEF Next

(* Retirement takes slots from the retired generation's jobs only.          *)
LEMMA BusyRetired ==
  ASSUME HostTypes, BusyInv, NEW g \in Gens, NEW fut, NEW k, Retire(g, fut, k),
         UNCHANGED <<on, run, wire>>
  PROVE  BusyInv'
<1>. SUFFICES ASSUME NEW c \in Callers, Busy(c)', ~retired'[on'[c]] PROVE Held(c)'
  BY DEF BusyInv
<1>1. Busy(c)
  BY DEF Busy, Carried
<1>2. retired' = [retired EXCEPT ![g] = TRUE]
  BY DEF Retire
<1>3. on[c] # g /\ ~retired[on[c]]
  BY <1>2 DEF HostTypes
<1>4. Held(c)
  BY <1>1, <1>3 DEF BusyInv
<1>. QED BY <1>3, <1>4 DEF Retire, JobsOf, Held

(* A step that takes no slot from a job keeps BusyInv.                     *)
LEMMA BusyStays ==
  ASSUME BusyInv, UNCHANGED <<on, run, wire, retired>>, \A c \in Callers : Held(c) => Held(c)'
  PROVE  BusyInv'
BY DEF BusyInv, Busy, Carried

(* A job that may be at work on a serving host keeps its slot.             *)
LEMMA BusyInvNext ==
  ASSUME CallTypes, HostTypes, ChannelTypes, ModTypes, QueueInv, WireInv,
     BusyInv, \A c \in Callers : CallInv(c) /\ RunInv(c), [Next]_vars
  PROVE  BusyInv'
<1>1. CASE Close
  <2>1. UNCHANGED <<on, run, wire>>
    BY <1>1 DEF Close, callVars, modVars, runVars
  <2>2. \/ UNCHANGED <<job, retired>>
        \/ \E h \in Gens, k \in Nat : Retire(h, future, k)
    BY <1>1 DEF Close, Live, HostTypes, Gens, jobVars, retireVars
  <2>3. CASE UNCHANGED <<job, retired>>
    BY <2>1, <2>3, BusyStays DEF Held
  <2>4. CASE \E h \in Gens, k \in Nat : Retire(h, future, k)
    BY <2>1, <2>4, BusyRetired
  <2>. QED BY <2>2, <2>3, <2>4
<1>2. ASSUME NEW g \in Gens, StartFails(g) PROVE BusyInv'
  <2>1. UNCHANGED <<on, run, wire>>
    BY <1>2 DEF StartFails, callVars, modVars, runVars
  <2>2. \/ UNCHANGED <<job, retired>>
        \/ \E h \in Gens, k \in Nat : Retire(h, future, k)
    BY <1>2 DEF StartFails, Crashes, jobVars, retireVars
  <2>3. CASE UNCHANGED <<job, retired>>
    BY <2>1, <2>3, BusyStays DEF Held
  <2>4. CASE \E h \in Gens, k \in Nat : Retire(h, future, k)
    BY <2>1, <2>4, BusyRetired
  <2>. QED BY <2>2, <2>3, <2>4
<1>3. ASSUME NEW g \in Gens, Watch(g) PROVE BusyInv'
  BY <1>3, BusyRetired DEF Watch, callVars, modVars, runVars
<1>4. ASSUME NEW g \in Gens, Lapse(g) PROVE BusyInv'
  BY <1>4, BusyRetired DEF Lapse, callVars, modVars, runVars
<1>5. ASSUME NEW g \in Gens, ProcessEnds(g) PROVE BusyInv'
  BY <1>5 DEF ProcessEnds, callVars, hostVars, jobVars, retireVars, CallInv,
     RunInv, CallTypes, HostTypes, ChannelTypes, ModTypes, HeldStates, Early,
     QueueInv, WireInv, BusyInv, Busy, Carried, Held, Gens
<1>6. ASSUME NEW g \in Gens, Poll(g) PROVE BusyInv'
  <2>1. UNCHANGED <<on, run, wire>>
    BY <1>6 DEF Poll, callVars, modVars, runVars
  <2>2. \/ UNCHANGED <<job, retired>>
        \/ \E h \in Gens, k \in Nat : Retire(h, future, k)
    BY <1>6 DEF Poll, Crashes, jobVars, retireVars
  <2>3. CASE UNCHANGED <<job, retired>>
    BY <2>1, <2>3, BusyStays DEF Held
  <2>4. CASE \E h \in Gens, k \in Nat : Retire(h, future, k)
    BY <2>1, <2>4, BusyRetired
  <2>. QED BY <2>2, <2>3, <2>4
<1>7. ASSUME NEW g \in Gens, FetchFails(g) PROVE BusyInv'
  BY <1>7 DEF FetchFails, callVars, hostVars, jobVars, retireVars, runVars,
     CallInv, RunInv, CallTypes, HostTypes, ChannelTypes, ModTypes,
     HeldStates, Early, QueueInv, WireInv, BusyInv, Busy, Carried, Held, Gens
<1>8. ASSUME NEW g \in Gens, Respond(g) PROVE BusyInv'
  BY <1>8 DEF Respond, callVars, hostVars, runVars, CallInv, RunInv,
     CallTypes, HostTypes, ChannelTypes, ModTypes, HeldStates, Early,
     QueueInv, WireInv, BusyInv, Busy, Carried, Held, Gens
<1>9. ASSUME NEW g \in Gens, Read(g) PROVE BusyInv'
  BY <1>9 DEF Read, callVars, hostVars, jobVars, retireVars, runVars,
     CallInv, RunInv, CallTypes, HostTypes, ChannelTypes, ModTypes,
     HeldStates, Early, QueueInv, WireInv, BusyInv, Busy, Carried, Held, Gens
<1>10. ASSUME NEW g \in Gens, Hello(g) \/ StartDone(g) \/ GiveUpPolling(g) \/
   HoldEnds(g)
     PROVE  BusyInv'
  BY <1>10 DEF Hello, StartDone, GiveUpPolling, HoldEnds, callVars, jobVars,
     modVars, retireVars, runVars, BusyInv, Busy, Carried, Held
<1>11. ASSUME NEW c \in Callers, Enter(c) PROVE BusyInv'
  <2>1. run[c] = "none" /\ ~Carried(c)
    BY <1>11 DEF Enter, CallInv, RunInv, Carried, WireInv, Early
  <2>2. UNCHANGED <<job, run, wire, retired>>
    BY <1>11 DEF Enter, jobVars, retireVars, modVars, runVars
  <2>3. \A d \in Callers : d # c => on'[d] = on[d]
    BY <1>11 DEF Enter, CallTypes
  <2>. QED BY <2>1, <2>2, <2>3 DEF BusyInv, Busy, Carried, Held
<1>12. ASSUME NEW c \in Callers, Admit(c) PROVE BusyInv'
  BY <1>12 DEF Admit, Goto, Live, hostVars, modVars, runVars, CallInv,
     RunInv, CallTypes, HostTypes, ChannelTypes, ModTypes, HeldStates, Early,
     QueueInv, WireInv, BusyInv, Busy, Carried, Held, Gens
<1>13. ASSUME NEW c \in Callers, Withdraw(c) PROVE BusyInv'
  BY <1>13 DEF Withdraw, Tell, Goto, hostVars, modVars, runVars, CallInv,
     RunInv, CallTypes, HostTypes, ChannelTypes, ModTypes, HeldStates, Early,
     QueueInv, WireInv, BusyInv, Busy, Carried, Held, Gens
<1>14. ASSUME NEW c \in Callers, Abandon(c) PROVE BusyInv'
  <2>1. UNCHANGED <<on, run, wire>> /\ on[c] \in Gens
    BY <1>14 DEF Abandon, modVars, runVars, CallTypes, Gens
  <2>2. \/ \E fut : Retire(on[c], fut, 0)
        \/ job' = [job EXCEPT ![c] = "abandoned"] /\ retired' = retired
    BY <1>14 DEF Abandon
  <2>3. CASE \E fut : Retire(on[c], fut, 0)
    BY <2>1, <2>3, BusyRetired
  <2>4. CASE job' = [job EXCEPT ![c] = "abandoned"] /\ retired' = retired
    BY <1>14, <2>1, <2>4, BusyStays DEF Held, HeldStates, CallTypes
  <2>. QED BY <2>2, <2>3, <2>4
<1>15. ASSUME NEW c \in Callers, Prepare(c) PROVE BusyInv'
  BY <1>15 DEF Prepare, Step, callVars, hostVars, jobVars, modVars,
     retireVars, CallInv, RunInv, CallTypes, HostTypes, ChannelTypes,
     ModTypes, HeldStates, Early, QueueInv, WireInv, BusyInv, Busy, Carried,
     Held, Gens
<1>16. ASSUME NEW c \in Callers, Spawn(c) PROVE BusyInv'
  BY <1>16 DEF Spawn, Step, callVars, hostVars, jobVars, modVars, retireVars,
     CallInv, RunInv, CallTypes, HostTypes, ChannelTypes, ModTypes,
     HeldStates, Early, QueueInv, WireInv, BusyInv, Busy, Carried, Held, Gens
<1>17. ASSUME NEW c \in Callers, EndsEarly(c) PROVE BusyInv'
  BY <1>17 DEF EndsEarly, Step, callVars, hostVars, jobVars, modVars,
     retireVars, CallInv, RunInv, CallTypes, HostTypes, ChannelTypes,
     ModTypes, HeldStates, Early, QueueInv, WireInv, BusyInv, Busy, Carried,
     Held, Gens
<1>18. ASSUME NEW c \in Callers, Answered(c) PROVE BusyInv'
  BY <1>18 DEF Answered, Step, callVars, hostVars, jobVars, modVars,
     retireVars, CallInv, RunInv, CallTypes, HostTypes, ChannelTypes,
     ModTypes, HeldStates, Early, QueueInv, WireInv, BusyInv, Busy, Carried,
     Held, Gens
<1>19. ASSUME NEW c \in Callers, Ends(c) PROVE BusyInv'
  BY <1>19 DEF Ends, Step, callVars, hostVars, jobVars, modVars, retireVars,
     CallInv, RunInv, CallTypes, HostTypes, ChannelTypes, ModTypes,
     HeldStates, Early, QueueInv, WireInv, BusyInv, Busy, Carried, Held, Gens
<1>20. ASSUME NEW c \in Callers, Post(c) PROVE BusyInv'
  BY <1>20 DEF Post, Step, Held, callVars, hostVars, jobVars, modVars,
     retireVars, CallInv, RunInv, CallTypes, HostTypes, ChannelTypes,
     ModTypes, HeldStates, Early, QueueInv, WireInv, BusyInv, Busy, Carried,
     Gens
<1>21. ASSUME NEW c \in Callers, PostFails(c) PROVE BusyInv'
  BY <1>21 DEF PostFails, Step, callVars, hostVars, jobVars, retireVars,
     CallInv, RunInv, CallTypes, HostTypes, ChannelTypes, ModTypes,
     HeldStates, Early, QueueInv, WireInv, BusyInv, Busy, Carried, Held, Gens
<1>22. ASSUME NEW c \in Callers, Started(c) \/ Acquire(c) \/ Bounce(c) \/
   GiveUpEarly(c) \/ Settle(c) \/ GiveUpLate(c)
     PROVE  BusyInv'
  BY <1>22 DEF Started, Acquire, Bounce, GiveUpEarly, Settle, GiveUpLate,
     jobVars, modVars, retireVars, runVars, BusyInv, Busy, Carried, Held
<1>23. CASE UNCHANGED vars
  BY <1>23 DEF vars, callVars, jobVars, modVars, retireVars, runVars,
     BusyInv, Busy, Carried, Held
<1>. QED BY <1>1, <1>2, <1>3, <1>4, <1>5, <1>6, <1>7, <1>8, <1>9, <1>10,
   <1>11, <1>12, <1>13, <1>14, <1>15, <1>16, <1>17, <1>18, <1>19, <1>20,
   <1>21, <1>22, <1>23 DEF Next

(***************************************************************************)
(* Slots                                                                   *)
(***************************************************************************)
(* Finitely many calls have a permit.                                      *)
LEMMA PermitsFinite ==
  /\ IsFiniteSet(Permits)
  /\ Cardinality(Permits) \in Nat
<1>1. Permits \subseteq Callers
  BY DEF Permits
<1>. QED BY <1>1, FS_Subset, FS_CardinalityType, AgentHostAssumption DEF AgentHostAssumption

(* A step leaves the permits alone, or moves them in one of three ways.    *)
LEMMA PermitsStay ==
  ASSUME SlotsConserved, Permits' = Permits, free' = free
  PROVE  SlotsConserved'
BY DEF SlotsConserved

(* An acquire takes one,                                                   *)
LEMMA PermitTaken ==
  ASSUME SlotsConserved, CallTypes, NEW c, c \notin Permits, Permits' = Permits \cup {c}, free' = free - 1
  PROVE  SlotsConserved'
<1>1. Cardinality(Permits \cup {c}) = Cardinality(Permits) + 1
  BY PermitsFinite, FS_AddElement
<1>. QED BY <1>1, PermitsFinite, AgentHostAssumption DEF SlotsConserved, CallTypes, AgentHostAssumption

(* a release returns one,                                                  *)
LEMMA PermitReturned ==
  ASSUME SlotsConserved, CallTypes, NEW c \in Permits, Permits' = Permits \ {c}, free' = free + 1
  PROVE  SlotsConserved'
<1>1. Cardinality(Permits \ {c}) = Cardinality(Permits) - 1
  BY PermitsFinite, FS_RemoveElement
<1>. QED BY <1>1, PermitsFinite, AgentHostAssumption DEF SlotsConserved, CallTypes, AgentHostAssumption

(* a retirement returns those of all the generation's jobs.                *)
LEMMA PermitsRetired ==
  ASSUME SlotsConserved, CallTypes, \A c \in Callers : CallInv(c),
         NEW g, NEW fut, NEW k, Retire(g, fut, k),
         \A c \in Callers : (pc[c] = "granted") <=> (pc'[c] = "granted")
  PROVE  SlotsConserved'
<1>1. Permits' = Permits \ JobsOf(g)
  BY DEF Permits, Held, HeldStates, Retire, JobsOf, CallTypes, CallInv, Early
<1>2. Permits \cap JobsOf(g) = JobsOf(g)
  BY DEF Permits, JobsOf
<1>3. Cardinality(Permits \ JobsOf(g)) = Cardinality(Permits) - Cardinality(JobsOf(g))
  BY <1>2, PermitsFinite, FS_Difference
<1>4. free' = free + Cardinality(JobsOf(g))
  BY DEF Retire
<1>. QED BY <1>1, <1>3, <1>4, PermitsFinite, JobsFinite, AgentHostAssumption
         DEF SlotsConserved, CallTypes, AgentHostAssumption

(* Every step is one of them, so no permit is lost or made.                *)
LEMMA SlotsNext ==
  ASSUME CallTypes, ChannelTypes, QueueInv, \A c \in Callers : CallInv(c),
     SlotsConserved, [Next]_vars
  PROVE  SlotsConserved'
<1>1. CASE Close
  <2>1. UNCHANGED pc
    BY <1>1 DEF Close, callVars
  <2>2. \/ UNCHANGED jobVars
        \/ \E g : Retire(g, future, 0)
    BY <1>1 DEF Close
  <2>3. CASE UNCHANGED jobVars
    BY <2>1, <2>3, PermitsStay DEF Permits, Held, jobVars
  <2>4. CASE \E g : Retire(g, future, 0)
    BY <2>1, <2>4, PermitsRetired
  <2>. QED BY <2>2, <2>3, <2>4
<1>2. ASSUME NEW g \in Gens, StartFails(g) PROVE SlotsConserved'
  <2>1. UNCHANGED pc
    BY <1>2 DEF StartFails, callVars
  <2>2. \/ UNCHANGED jobVars
        \/ \E k : Retire(g, future, k)
    BY <1>2 DEF StartFails
  <2>3. CASE UNCHANGED jobVars
    BY <2>1, <2>3, PermitsStay DEF Permits, Held, jobVars
  <2>4. CASE \E k : Retire(g, future, k)
    BY <2>1, <2>4, PermitsRetired
  <2>. QED BY <2>2, <2>3, <2>4
<1>3. ASSUME NEW g \in Gens, Watch(g) PROVE SlotsConserved'
  BY <1>3, PermitsRetired DEF Watch, callVars
<1>4. ASSUME NEW g \in Gens, Lapse(g) PROVE SlotsConserved'
  BY <1>4, PermitsRetired DEF Lapse, callVars
<1>5. ASSUME NEW g \in Gens, Poll(g) PROVE SlotsConserved'
  <2>1. UNCHANGED pc
    BY <1>5 DEF Poll, callVars
  <2>2. \/ UNCHANGED jobVars
        \/ \E k : Retire(g, future, k)
    BY <1>5 DEF Poll
  <2>3. CASE UNCHANGED jobVars
    BY <2>1, <2>3, PermitsStay DEF Permits, Held, jobVars
  <2>4. CASE \E k : Retire(g, future, k)
    BY <2>1, <2>4, PermitsRetired
  <2>. QED BY <2>2, <2>3, <2>4
<1>6. ASSUME NEW g \in Gens, Respond(g) PROVE SlotsConserved'
  <2>1. Permits' = Permits /\ free' = free
    BY <1>6 DEF Respond, callVars, hostVars, runVars, Permits, Held, HeldStates, CallTypes, CallInv, Early, QueueInv
  <2>. QED BY <2>1, PermitsStay
<1>7. ASSUME NEW g \in Gens, Hello(g) \/ StartDone(g) \/ ProcessEnds(g) \/
   FetchFails(g) \/ GiveUpPolling(g) \/ HoldEnds(g) \/ Read(g)
     PROVE  SlotsConserved'
  BY <1>7, PermitsStay DEF Hello, StartDone, ProcessEnds, FetchFails,
     GiveUpPolling, HoldEnds, Read, callVars, jobVars, Permits, Held
<1>8. ASSUME NEW c \in Callers, Enter(c) PROVE SlotsConserved'
  <2>1. Permits' = Permits /\ free' = free
    BY <1>8 DEF Enter, Goto, Tell, Live, hostVars, jobVars, modVars, retireVars, runVars, Permits, Held, HeldStates, CallTypes, CallInv, Early
  <2>. QED BY <2>1, PermitsStay
<1>9. ASSUME NEW c \in Callers, Started(c) PROVE SlotsConserved'
  <2>1. Permits' = Permits /\ free' = free
    BY <1>9 DEF Started, Goto, Tell, hostVars, jobVars, modVars, retireVars, runVars, Permits, Held, HeldStates, CallTypes, CallInv, Early
  <2>. QED BY <2>1, PermitsStay
<1>10. ASSUME NEW c \in Callers, Acquire(c) PROVE SlotsConserved'
  <2>1. c \notin Permits
    BY <1>10 DEF Acquire, Permits, Held, HeldStates, CallTypes, CallInv, Early
  <2>2. Permits' = Permits \cup {c}
    BY <1>10 DEF Acquire, Goto, Permits, Held, HeldStates, CallTypes, CallInv, Early
  <2>3. free' = free - 1
    BY <1>10 DEF Acquire
  <2>. QED BY <2>1, <2>2, <2>3, PermitTaken
<1>11. ASSUME NEW c \in Callers, Admit(c) PROVE SlotsConserved'
  <2>1. Permits' = Permits /\ free' = free
    BY <1>11 DEF Admit, Goto, Live, hostVars, modVars, runVars, Permits, Held, HeldStates, CallTypes, CallInv, Early
  <2>. QED BY <2>1, PermitsStay
<1>12. ASSUME NEW c \in Callers, Bounce(c) PROVE SlotsConserved'
  <2>1. c \in Permits /\ free' = free + 1
    BY <1>12 DEF Bounce, Permits, Held, HeldStates, CallTypes, CallInv, Early
  <2>2. Permits' = Permits \ {c}
    BY <1>12 DEF Bounce, Goto, Tell, Permits, Held, HeldStates, CallTypes, CallInv, Early
  <2>. QED BY <2>1, <2>2, PermitReturned
<1>13. ASSUME NEW c \in Callers, GiveUpEarly(c) PROVE SlotsConserved'
  <2>1. CASE pc[c] = "granted"
    <3>1. c \in Permits /\ free' = free + 1
      BY <1>13, <2>1 DEF GiveUpEarly, Permits, Held, HeldStates, CallTypes, CallInv, Early
    <3>2. Permits' = Permits \ {c}
      BY <1>13, <2>1 DEF GiveUpEarly, Goto, Tell, Permits, Held, HeldStates, CallTypes, CallInv, Early
    <3>. QED BY <3>1, <3>2, PermitReturned
  <2>2. CASE pc[c] # "granted"
    <3>1. Permits' = Permits /\ free' = free
      BY <1>13, <2>2 DEF GiveUpEarly, Goto, Tell, Permits, Held, HeldStates, CallTypes, CallInv, Early
    <3>. QED BY <3>1, PermitsStay
  <2>. QED BY <2>1, <2>2
<1>14. ASSUME NEW c \in Callers, Settle(c) PROVE SlotsConserved'
  <2>1. Permits' = Permits /\ free' = free
    BY <1>14 DEF Settle, Tell, Goto, hostVars, jobVars, modVars, retireVars, runVars, Permits, Held, HeldStates, CallTypes, CallInv, Early
  <2>. QED BY <2>1, PermitsStay
<1>15. ASSUME NEW c \in Callers, GiveUpLate(c) PROVE SlotsConserved'
  <2>1. Permits' = Permits /\ free' = free
    BY <1>15 DEF GiveUpLate, Tell, Goto, hostVars, jobVars, modVars, retireVars, runVars, Permits, Held, HeldStates, CallTypes, CallInv, Early
  <2>. QED BY <2>1, PermitsStay
<1>16. ASSUME NEW c \in Callers, Withdraw(c) PROVE SlotsConserved'
  <2>1. c \in Permits /\ free' = free + 1
    BY <1>16 DEF Withdraw, Permits, Held, HeldStates, CallTypes, CallInv, Early
  <2>2. Permits' = Permits \ {c}
    BY <1>16 DEF Withdraw, Goto, Tell, Permits, Held, HeldStates, CallTypes, CallInv, Early
  <2>. QED BY <2>1, <2>2, PermitReturned
<1>17. ASSUME NEW c \in Callers, Abandon(c) PROVE SlotsConserved'
  <2>1. pc[c] = "waiting" /\ pc' = [pc EXCEPT ![c] = "done"] /\ job[c] = "delivered"
    BY <1>17 DEF Abandon, Tell, Goto
  <2>2. \/ \E fut : Retire(on[c], fut, 0)
        \/ job' = [job EXCEPT ![c] = "abandoned"] /\ free' = free
    BY <1>17 DEF Abandon
  <2>3. CASE \E fut : Retire(on[c], fut, 0)
    BY <2>1, <2>3, PermitsRetired DEF CallTypes
  <2>4. CASE job' = [job EXCEPT ![c] = "abandoned"] /\ free' = free
    <3>1. Permits' = Permits
      BY <2>1, <2>4 DEF Permits, Held, HeldStates, CallTypes
    <3>. QED BY <2>4, <3>1, PermitsStay
  <2>. QED BY <2>2, <2>3, <2>4
<1>18. ASSUME NEW c \in Callers, Post(c) PROVE SlotsConserved'
  <2>1. CASE Held(c)
    <3>1. c \in Permits /\ free' = free + 1
      BY <1>18, <2>1 DEF Post, Permits
    <3>2. Permits' = Permits \ {c}
      BY <1>18, <2>1 DEF Post, callVars, Permits, Held, HeldStates, CallTypes, CallInv, Early
    <3>. QED BY <3>1, <3>2, PermitReturned
  <2>2. CASE ~Held(c)
    BY <1>18, <2>2, PermitsStay DEF Post, callVars, jobVars, Permits, Held
  <2>. QED BY <2>1, <2>2
<1>19. ASSUME NEW c \in Callers, Prepare(c) \/ Spawn(c) \/ EndsEarly(c) \/
   Answered(c) \/ Ends(c) \/ PostFails(c)
     PROVE  SlotsConserved'
  BY <1>19, PermitsStay DEF Prepare, Spawn, EndsEarly, Answered, Ends,
     PostFails, callVars, jobVars, Permits, Held
<1>20. CASE UNCHANGED vars
  BY <1>20, PermitsStay DEF vars, callVars, jobVars, Permits, Held
<1>. QED BY <1>1, <1>2, <1>3, <1>4, <1>5, <1>6, <1>7, <1>8, <1>9, <1>10,
   <1>11, <1>12, <1>13, <1>14, <1>15, <1>16, <1>17, <1>18, <1>19, <1>20 DEF
   Next

(* A generation that is retired is given no more jobs.                     *)
LEMMA BusyShrinks ==
  ASSUME CallTypes, HostTypes, ChannelTypes, ModTypes, QueueInv, WireInv, \A
     c \in Callers : CallInv(c) /\ RunInv(c), [Next]_vars
  PROVE  \A h \in Gens : retired'[h] => BusyOn(h)' \subseteq BusyOn(h)
<1>1. CASE Close
  BY <1>1 DEF Close, Retire, Live, JobsOf, Held, callVars, jobVars, modVars,
     retireVars, runVars, CallInv, RunInv, CallTypes, HostTypes,
     ChannelTypes, ModTypes, HeldStates, Early, QueueInv, WireInv, BusyOn,
     Busy, Carried, Gens
<1>2. ASSUME NEW g \in Gens, StartFails(g) PROVE \A h \in Gens : retired'[h] => BusyOn(h)' \subseteq BusyOn(h)
  BY <1>2 DEF StartFails, Retire, JobsOf, Held, callVars, jobVars, modVars,
     runVars, CallInv, RunInv, CallTypes, HostTypes, ChannelTypes, ModTypes,
     HeldStates, Early, QueueInv, WireInv, BusyOn, Busy, Carried, Gens
<1>3. ASSUME NEW g \in Gens, Watch(g) PROVE \A h \in Gens : retired'[h] => BusyOn(h)' \subseteq BusyOn(h)
  BY <1>3 DEF Watch, Retire, JobsOf, Held, callVars, hostVars, modVars,
     runVars, CallInv, RunInv, CallTypes, HostTypes, ChannelTypes, ModTypes,
     HeldStates, Early, QueueInv, WireInv, BusyOn, Busy, Carried, Gens
<1>4. ASSUME NEW g \in Gens, Lapse(g) PROVE \A h \in Gens : retired'[h] => BusyOn(h)' \subseteq BusyOn(h)
  BY <1>4 DEF Lapse, Retire, JobsOf, Held, callVars, hostVars, modVars,
     runVars, CallInv, RunInv, CallTypes, HostTypes, ChannelTypes, ModTypes,
     HeldStates, Early, QueueInv, WireInv, BusyOn, Busy, Carried, Gens
<1>5. ASSUME NEW g \in Gens, ProcessEnds(g) PROVE \A h \in Gens : retired'[h] => BusyOn(h)' \subseteq BusyOn(h)
  BY <1>5 DEF ProcessEnds, callVars, hostVars, jobVars, retireVars, CallInv,
     RunInv, CallTypes, HostTypes, ChannelTypes, ModTypes, HeldStates, Early,
     QueueInv, WireInv, BusyOn, Busy, Carried, Gens
<1>6. ASSUME NEW g \in Gens, Poll(g) PROVE \A h \in Gens : retired'[h] => BusyOn(h)' \subseteq BusyOn(h)
  BY <1>6 DEF Poll, Retire, JobsOf, Held, callVars, hostVars, jobVars,
     retireVars, runVars, CallInv, RunInv, CallTypes, HostTypes,
     ChannelTypes, ModTypes, HeldStates, Early, QueueInv, WireInv, BusyOn,
     Busy, Carried, Gens
<1>7. ASSUME NEW g \in Gens, FetchFails(g) PROVE \A h \in Gens : retired'[h] => BusyOn(h)' \subseteq BusyOn(h)
  BY <1>7 DEF FetchFails, callVars, hostVars, jobVars, retireVars, runVars,
     CallInv, RunInv, CallTypes, HostTypes, ChannelTypes, ModTypes,
     HeldStates, Early, QueueInv, WireInv, BusyOn, Busy, Carried, Gens
<1>8. ASSUME NEW g \in Gens, Respond(g) PROVE \A h \in Gens : retired'[h] => BusyOn(h)' \subseteq BusyOn(h)
  BY <1>8 DEF Respond, callVars, hostVars, runVars, CallInv, RunInv,
     CallTypes, HostTypes, ChannelTypes, ModTypes, HeldStates, Early,
     QueueInv, WireInv, BusyOn, Busy, Carried, Gens
<1>9. ASSUME NEW g \in Gens, Read(g) PROVE \A h \in Gens : retired'[h] => BusyOn(h)' \subseteq BusyOn(h)
  BY <1>9 DEF Read, callVars, hostVars, jobVars, retireVars, runVars,
     CallInv, RunInv, CallTypes, HostTypes, ChannelTypes, ModTypes,
     HeldStates, Early, QueueInv, WireInv, BusyOn, Busy, Carried, Gens
<1>10. ASSUME NEW g \in Gens, Hello(g) \/ StartDone(g) \/ GiveUpPolling(g) \/
   HoldEnds(g)
     PROVE  \A h \in Gens : retired'[h] => BusyOn(h)' \subseteq BusyOn(h)
  BY <1>10 DEF Hello, StartDone, GiveUpPolling, HoldEnds, callVars, modVars,
     retireVars, runVars, BusyOn, Busy, Carried
<1>11. ASSUME NEW c \in Callers, Enter(c) PROVE \A h \in Gens : retired'[h] => BusyOn(h)' \subseteq BusyOn(h)
  BY <1>11 DEF Enter, Goto, Tell, Live, hostVars, jobVars, modVars,
     retireVars, runVars, CallInv, RunInv, CallTypes, HostTypes,
     ChannelTypes, ModTypes, HeldStates, Early, QueueInv, WireInv, BusyOn,
     Busy, Carried, Gens
<1>12. ASSUME NEW c \in Callers, Admit(c) PROVE \A h \in Gens : retired'[h] => BusyOn(h)' \subseteq BusyOn(h)
  BY <1>12 DEF Admit, Goto, Live, hostVars, modVars, runVars, CallInv,
     RunInv, CallTypes, HostTypes, ChannelTypes, ModTypes, HeldStates, Early,
     QueueInv, WireInv, BusyOn, Busy, Carried, Gens
<1>13. ASSUME NEW c \in Callers, Abandon(c) PROVE \A h \in Gens : retired'[h] => BusyOn(h)' \subseteq BusyOn(h)
  BY <1>13 DEF Abandon, Tell, Retire, Abandoned, Goto, JobsOf, Held,
     hostVars, modVars, runVars, CallInv, RunInv, CallTypes, HostTypes,
     ChannelTypes, ModTypes, HeldStates, Early, QueueInv, WireInv, BusyOn,
     Busy, Carried, Gens
<1>14. ASSUME NEW c \in Callers, Prepare(c) PROVE \A h \in Gens : retired'[h] => BusyOn(h)' \subseteq BusyOn(h)
  BY <1>14 DEF Prepare, Step, callVars, hostVars, jobVars, modVars,
     retireVars, CallInv, RunInv, CallTypes, HostTypes, ChannelTypes,
     ModTypes, HeldStates, Early, QueueInv, WireInv, BusyOn, Busy, Carried,
     Gens
<1>15. ASSUME NEW c \in Callers, Spawn(c) PROVE \A h \in Gens : retired'[h] => BusyOn(h)' \subseteq BusyOn(h)
  BY <1>15 DEF Spawn, Step, callVars, hostVars, jobVars, modVars, retireVars,
     CallInv, RunInv, CallTypes, HostTypes, ChannelTypes, ModTypes,
     HeldStates, Early, QueueInv, WireInv, BusyOn, Busy, Carried, Gens
<1>16. ASSUME NEW c \in Callers, EndsEarly(c) PROVE \A h \in Gens : retired'[h] => BusyOn(h)' \subseteq BusyOn(h)
  BY <1>16 DEF EndsEarly, Step, callVars, hostVars, jobVars, modVars,
     retireVars, CallInv, RunInv, CallTypes, HostTypes, ChannelTypes,
     ModTypes, HeldStates, Early, QueueInv, WireInv, BusyOn, Busy, Carried,
     Gens
<1>17. ASSUME NEW c \in Callers, Answered(c) PROVE \A h \in Gens : retired'[h] => BusyOn(h)' \subseteq BusyOn(h)
  BY <1>17 DEF Answered, Step, callVars, hostVars, jobVars, modVars,
     retireVars, CallInv, RunInv, CallTypes, HostTypes, ChannelTypes,
     ModTypes, HeldStates, Early, QueueInv, WireInv, BusyOn, Busy, Carried,
     Gens
<1>18. ASSUME NEW c \in Callers, Ends(c) PROVE \A h \in Gens : retired'[h] => BusyOn(h)' \subseteq BusyOn(h)
  BY <1>18 DEF Ends, Step, callVars, hostVars, jobVars, modVars, retireVars,
     CallInv, RunInv, CallTypes, HostTypes, ChannelTypes, ModTypes,
     HeldStates, Early, QueueInv, WireInv, BusyOn, Busy, Carried, Gens
<1>19. ASSUME NEW c \in Callers, Post(c) PROVE \A h \in Gens : retired'[h] => BusyOn(h)' \subseteq BusyOn(h)
  BY <1>19 DEF Post, Step, Held, callVars, hostVars, jobVars, modVars,
     retireVars, CallInv, RunInv, CallTypes, HostTypes, ChannelTypes,
     ModTypes, HeldStates, Early, QueueInv, WireInv, BusyOn, Busy, Carried,
     Gens
<1>20. ASSUME NEW c \in Callers, PostFails(c) PROVE \A h \in Gens : retired'[h] => BusyOn(h)' \subseteq BusyOn(h)
  BY <1>20 DEF PostFails, Step, callVars, hostVars, jobVars, retireVars,
     CallInv, RunInv, CallTypes, HostTypes, ChannelTypes, ModTypes,
     HeldStates, Early, QueueInv, WireInv, BusyOn, Busy, Carried, Gens
<1>21. ASSUME NEW c \in Callers, Started(c) \/ Acquire(c) \/ Bounce(c) \/
   GiveUpEarly(c) \/ Settle(c) \/ GiveUpLate(c) \/ Withdraw(c)
     PROVE  \A h \in Gens : retired'[h] => BusyOn(h)' \subseteq BusyOn(h)
  BY <1>21 DEF Started, Acquire, Bounce, GiveUpEarly, Settle, GiveUpLate,
     Withdraw, modVars, retireVars, runVars, BusyOn, Busy, Carried
<1>22. CASE UNCHANGED vars
  BY <1>22 DEF vars, callVars, modVars, retireVars, runVars, BusyOn, Busy,
     Carried
<1>. QED BY <1>1, <1>2, <1>3, <1>4, <1>5, <1>6, <1>7, <1>8, <1>9, <1>10,
   <1>11, <1>12, <1>13, <1>14, <1>15, <1>16, <1>17, <1>18, <1>19, <1>20,
   <1>21, <1>22 DEF Next

(* So no generation is ever handed more jobs at once than there are slots. *)
LEMMA CapNext ==
  ASSUME CallTypes, HostTypes, ChannelTypes, ModTypes, QueueInv, WireInv, CapInv,
         \A c \in Callers : CallInv(c) /\ RunInv(c),
         CallTypes', BusyInv', SlotsConserved', [Next]_vars
  PROVE  CapInv'
<1>. SUFFICES ASSUME NEW g \in Gens PROVE Cardinality(BusyOn(g)') <= Cap
  BY DEF CapInv
<1>1. CASE retired'[g]
  <2>1. BusyOn(g)' \subseteq BusyOn(g)
    BY <1>1, BusyShrinks
  <2>2. IsFiniteSet(BusyOn(g))
    <3>1. BusyOn(g) \subseteq Callers
      BY DEF BusyOn
    <3>. QED BY <3>1, FS_Subset, AgentHostAssumption DEF AgentHostAssumption
  <2>3. IsFiniteSet(BusyOn(g)') /\ Cardinality(BusyOn(g)') <= Cardinality(BusyOn(g))
    BY <2>1, <2>2, FS_Subset
  <2>4. Cardinality(BusyOn(g)') \in Nat /\ Cardinality(BusyOn(g)) \in Nat
    BY <2>2, <2>3, FS_CardinalityType
  <2>5. Cardinality(BusyOn(g)) <= Cap
    BY DEF CapInv
  <2>. QED BY <2>3, <2>4, <2>5, AgentHostAssumption DEF AgentHostAssumption
<1>2. CASE ~retired'[g]
  <2>1. BusyOn(g)' \subseteq Permits'
    BY <1>2 DEF BusyOn, BusyInv, Permits
  <2>2. Permits' \subseteq Callers
    BY DEF Permits
  <2>3. IsFiniteSet(Permits') /\ Cardinality(Permits') \in Nat
    BY <2>2, FS_Subset, FS_CardinalityType, AgentHostAssumption DEF AgentHostAssumption
  <2>4. IsFiniteSet(BusyOn(g)') /\ Cardinality(BusyOn(g)') <= Cardinality(Permits')
    BY <2>1, <2>3, FS_Subset
  <2>5. Cardinality(BusyOn(g)') \in Nat
    BY <2>4, FS_CardinalityType
  <2>6. Cardinality(Permits') <= Cap
    BY <2>3, AgentHostAssumption DEF SlotsConserved, CallTypes, AgentHostAssumption
  <2>. QED BY <2>3, <2>4, <2>5, <2>6, AgentHostAssumption DEF AgentHostAssumption
<1>. QED BY <1>1, <1>2

(***************************************************************************)
(* The invariant, and what follows from it                                 *)
(***************************************************************************)
(* The invariant holds at first,                                           *)
LEMMA InitIInv == Init => IInv
<1>. SUFFICES ASSUME Init PROVE IInv
  OBVIOUS
<1>. USE AgentHostAssumption DEF Init, AgentHostAssumption
<1>1. CallTypes
  BY DEF CallTypes
<1>2. HostTypes
  <2>1. 0 \in 0..MaxGen /\ 0 \in 0..CrashLimit
    OBVIOUS
  <2>. QED BY <2>1 DEF HostTypes
<1>3. ChannelTypes
  BY DEF ChannelTypes
<1>4. ModTypes
  BY DEF ModTypes
<1>5. \A c \in Callers : CallInv(c) /\ RunInv(c)
  BY DEF CallInv, RunInv, Early, Contract!Elsewhere
<1>6. QueueInv /\ WireInv
  BY DEF QueueInv, WireInv
<1>7. \A c \in Callers : ~Busy(c)
  BY DEF Busy, Carried
<1>8. SlotsConserved
  <2>1. Permits = {}
    BY DEF Permits, Held, HeldStates
  <2>. QED BY <2>1, FS_EmptySet DEF SlotsConserved
<1>9. CapInv
  <2>1. \A g \in Gens : BusyOn(g) = {}
    BY <1>7 DEF BusyOn
  <2>2. Cardinality({}) = 0 /\ 0 <= Cap
    BY FS_EmptySet
  <2>. QED BY <2>1, <2>2 DEF CapInv
<1>. QED BY <1>1, <1>2, <1>3, <1>4, <1>5, <1>6, <1>7, <1>8, <1>9 DEF IInv, TypeOK, BusyInv

(* and every step keeps it.                                                *)
LEMMA IInvNext == IInv /\ [Next]_vars => IInv'
<1>. SUFFICES ASSUME IInv, [Next]_vars PROVE IInv'
  OBVIOUS
<1>. USE DEF IInv, TypeOK
<1>1. CallTypes' /\ HostTypes' /\ ChannelTypes' /\ ModTypes'
  BY CallTypesNext, HostTypesNext, ChannelTypesNext, ModTypesNext
<1>2. \A c \in Callers : CallInv(c)' /\ RunInv(c)'
  BY CallInvNext, RunInvNext
<1>3. QueueInv' /\ WireInv'
  BY QueueInvNext, WireInvNext
<1>4. BusyInv'
  BY BusyInvNext
<1>5. SlotsConserved'
  BY SlotsNext
<1>6. CapInv'
  BY <1>1, <1>4, <1>5, CapNext
<1>. QED BY <1>1, <1>2, <1>3, <1>4, <1>5, <1>6

(* The invariant holds of every behaviour: the types of the host's state   *)
(* and the accounting of its slots.                                        *)
THEOREM Accounted == Spec => [](TypeOK /\ SlotsConserved)
<1>1. IInv => TypeOK /\ SlotsConserved
  BY DEF IInv
<1>. QED BY <1>1, InitIInv, IInvNext, PTL DEF Spec

(* Every field of the host, of its generations and of the mod has its type. *)
THEOREM HostTyped == Spec => []TypeOK
BY Accounted, PTL

(* No host process, retired or not, ever runs more agents than the cap:    *)
(* an abandoned agent keeps its slot until it ends or its host does.       *)
THEOREM Capped == Spec => []WithinCap
<1>1. IInv => WithinCap
  <2>. SUFFICES ASSUME IInv, NEW g \in Gens
                PROVE  Cardinality({c \in Callers : on[c] = g /\ Runs(c)}) <= Cap
    BY DEF WithinCap
  <2>. DEFINE R == {c \in Callers : on[c] = g /\ Runs(c)}
  <2>1. R \subseteq BusyOn(g)
    BY DEF BusyOn, Busy, Runs
  <2>2. BusyOn(g) \subseteq Callers
    BY DEF BusyOn
  <2>3. IsFiniteSet(BusyOn(g))
    BY <2>2, FS_Subset, AgentHostAssumption DEF AgentHostAssumption
  <2>4. IsFiniteSet(R) /\ Cardinality(R) <= Cardinality(BusyOn(g))
    BY <2>1, <2>3, FS_Subset
  <2>5. Cardinality(R) \in Nat /\ Cardinality(BusyOn(g)) \in Nat
    BY <2>3, <2>4, FS_CardinalityType
  <2>6. Cardinality(BusyOn(g)) <= Cap
    BY DEF IInv, CapInv
  <2>. QED BY <2>4, <2>5, <2>6, AgentHostAssumption DEF AgentHostAssumption
<1>. QED BY <1>1, InitIInv, IInvNext, PTL DEF Spec

(* Abandoning makes the only abandoned jobs, and it looks at how many its  *)
(* generation has; a job stays where it is.                                *)
Crowding(g) ==
  \/ retired'[g]
  \/ Abandoned(g)' \subseteq Abandoned(g)
  \/ \E c \in Callers : /\ Abandoned(g)' = Abandoned(g) \cup {c}
                        /\ ~(Cardinality(Abandoned(g) \cup {c}) >= Cap)

(* A retirement releases the jobs of one generation and touches no other.  *)
LEMMA RetireThins ==
  ASSUME CallTypes, NEW g, NEW fut, NEW k, Retire(g, fut, k), on' = on,
         NEW h \in Gens
  PROVE  Abandoned(h)' \subseteq Abandoned(h)
BY DEF Retire, Abandoned, JobsOf, Held, HeldStates

LEMMA AbandonedGrows ==
  ASSUME CallTypes, QueueInv, \A c \in Callers : CallInv(c), [Next]_vars,
         NEW h \in Gens
  PROVE  Crowding(h)
<1>. USE DEF Crowding
<1>1. CASE UNCHANGED <<on, job>>
  BY <1>1 DEF Abandoned
<1>2. CASE on' = on /\ \E g, fut, k : Retire(g, fut, k)
  BY <1>2, RetireThins
<1>3. CASE Close
  BY <1>1, <1>2, <1>3 DEF Close, callVars, jobVars
<1>4. ASSUME NEW g \in Gens, StartFails(g) \/ Watch(g) \/ Lapse(g) \/ Poll(g)
      PROVE  Crowding(h)
  <2>1. on' = on /\ (UNCHANGED job \/ \E fut, k : Retire(g, fut, k))
    BY <1>4 DEF StartFails, Watch, Lapse, Poll, callVars, jobVars
  <2>. QED BY <1>1, <1>2, <2>1
<1>5. ASSUME NEW g \in Gens,
             Hello(g) \/ StartDone(g) \/ ProcessEnds(g) \/ FetchFails(g)
               \/ GiveUpPolling(g) \/ HoldEnds(g) \/ Read(g)
      PROVE  Crowding(h)
  BY <1>1, <1>5 DEF Hello, StartDone, ProcessEnds, FetchFails, GiveUpPolling,
     HoldEnds, Read, callVars, jobVars
<1>6. ASSUME NEW g \in Gens, Respond(g) PROVE Crowding(h)
  BY <1>6 DEF Respond, callVars, Abandoned, CallTypes
<1>7. ASSUME NEW c \in Callers, Enter(c) \/ Admit(c) PROVE Crowding(h)
  <2>1. job[c] = "none" /\ job'[c] # "abandoned"
    BY <1>7 DEF Enter, Admit, jobVars, CallInv, Early, CallTypes
  <2>2. \A d \in Callers \ {c} : on'[d] = on[d] /\ job'[d] = job[d]
    BY <1>7 DEF Enter, Admit, jobVars, CallTypes
  <2>. QED BY <2>1, <2>2 DEF Abandoned
<1>8. ASSUME NEW c \in Callers, Withdraw(c) \/ Post(c) PROVE Crowding(h)
  <2>1. on' = on /\ \A d \in Callers : job'[d] = "abandoned" => job[d] = "abandoned"
    BY <1>8 DEF Withdraw, Post, callVars, jobVars, CallTypes
  <2>. QED BY <2>1 DEF Abandoned
<1>9. ASSUME NEW c \in Callers, Abandon(c) PROVE Crowding(h)
  <2>1. on' = on
    BY <1>9 DEF Abandon
  <2>2. CASE \E fut : Retire(on[c], fut, 0)
    BY <1>2, <2>1, <2>2
  <2>3. CASE ~\E fut : Retire(on[c], fut, 0)
    <3>1. /\ ~(Cardinality(Abandoned(on[c]) \cup {c}) >= Cap)
          /\ job' = [job EXCEPT ![c] = "abandoned"]
      BY <1>9, <2>3 DEF Abandon
    <3>2. CASE h = on[c]
      <4>1. Abandoned(h)' = Abandoned(h) \cup {c}
        BY <2>1, <3>1, <3>2 DEF Abandoned, CallTypes
      <4>. QED BY <3>1, <3>2, <4>1
    <3>3. CASE h # on[c]
      <4>1. Abandoned(h)' \subseteq Abandoned(h)
        BY <2>1, <3>1, <3>3 DEF Abandoned, CallTypes
      <4>. QED BY <4>1
    <3>. QED BY <3>2, <3>3
  <2>. QED BY <2>2, <2>3
<1>10. ASSUME NEW c \in Callers,
              Started(c) \/ Acquire(c) \/ Bounce(c) \/ GiveUpEarly(c) \/ Settle(c)
                \/ GiveUpLate(c) \/ Prepare(c) \/ Spawn(c) \/ EndsEarly(c)
                \/ Answered(c) \/ Ends(c) \/ PostFails(c)
       PROVE  Crowding(h)
  BY <1>1, <1>10 DEF Started, Acquire, Bounce, GiveUpEarly, Settle, GiveUpLate,
     Prepare, Spawn, EndsEarly, Answered, Ends, PostFails, callVars, jobVars
<1>11. CASE UNCHANGED vars
  BY <1>1, <1>11 DEF vars, callVars, jobVars
<1>. QED BY <1>3, <1>4, <1>5, <1>6, <1>7, <1>8, <1>9, <1>10, <1>11 DEF Next

(* Nobody takes a retirement back.                                         *)
LEMMA RetiredForGood ==
  ASSUME HostTypes, [Next]_vars, NEW h \in Gens, retired[h]
  PROVE  retired'[h]
<1>1. ASSUME NEW g, NEW fut, NEW k, Retire(g, fut, k) PROVE retired'[h]
  BY <1>1 DEF Retire, HostTypes
<1>2. CASE UNCHANGED retired
  BY <1>2
<1>3. \/ UNCHANGED retired
      \/ \E g, fut, k : Retire(g, fut, k)
  <2>1. ASSUME NEW c \in Callers, Abandon(c)
        PROVE  UNCHANGED retired \/ \E fut : Retire(on[c], fut, 0)
    BY <2>1 DEF Abandon
  <2>2. ASSUME NEW g \in Gens, StartFails(g) \/ Watch(g) \/ Lapse(g) \/ Poll(g)
        PROVE  UNCHANGED retired \/ \E fut, k : Retire(g, fut, k)
    BY <2>2 DEF StartFails, Watch, Lapse, Poll, retireVars
  <2>3. CASE Close
    BY <2>3 DEF Close, retireVars
  <2>4. ASSUME NEW c \in Callers,
               Enter(c) \/ Started(c) \/ Acquire(c) \/ Admit(c) \/ Bounce(c)
                 \/ GiveUpEarly(c) \/ Settle(c) \/ GiveUpLate(c) \/ Withdraw(c)
                 \/ Prepare(c) \/ Spawn(c) \/ EndsEarly(c) \/ Answered(c) \/ Ends(c)
                 \/ Post(c) \/ PostFails(c)
        PROVE  UNCHANGED retired
    BY <2>4 DEF Enter, Started, Acquire, Admit, Bounce, GiveUpEarly, Settle,
       GiveUpLate, Withdraw, Prepare, Spawn, EndsEarly, Answered, Ends, Post,
       PostFails, retireVars
  <2>5. ASSUME NEW g \in Gens,
               Hello(g) \/ StartDone(g) \/ ProcessEnds(g) \/ FetchFails(g)
                 \/ GiveUpPolling(g) \/ Respond(g) \/ HoldEnds(g) \/ Read(g)
        PROVE  UNCHANGED retired
    BY <2>5 DEF Hello, StartDone, ProcessEnds, FetchFails, GiveUpPolling, Respond,
       HoldEnds, Read, retireVars
  <2>6. CASE UNCHANGED vars
    BY <2>6 DEF vars, retireVars
  <2>. QED BY <2>1, <2>2, <2>3, <2>4, <2>5, <2>6 DEF Next
<1>. QED BY <1>1, <1>2, <1>3

(* A generation that serves has a slot that no abandoned job holds, so a   *)
(* call waits for an agent somebody waits for: _abandon retires the host   *)
(* that would have none.                                                   *)
THEOREM RoomStays == Spec => []RoomToWork
<1>1. Init => RoomToWork
  <2>. SUFFICES ASSUME Init, NEW g \in Gens PROVE Cardinality(Abandoned(g)) < Cap
    BY DEF RoomToWork
  <2>1. Abandoned(g) = {}
    BY DEF Init, Abandoned
  <2>. QED BY <2>1, FS_EmptySet, AgentHostAssumption DEF AgentHostAssumption
<1>2. IInv /\ RoomToWork /\ [Next]_vars => RoomToWork'
  <2>. SUFFICES ASSUME IInv, RoomToWork, [Next]_vars, NEW g \in Gens, ~retired'[g]
                PROVE  Cardinality(Abandoned(g)') < Cap
    BY DEF RoomToWork
  <2>1. Crowding(g) /\ ~retired[g]
    BY AbandonedGrows, RetiredForGood DEF IInv, TypeOK
  <2>2. /\ IsFiniteSet(Abandoned(g)) /\ Cardinality(Abandoned(g)) \in Nat
        /\ Cardinality(Abandoned(g)) < Cap
    <3>1. Abandoned(g) \subseteq Callers
      BY DEF Abandoned
    <3>. QED BY <2>1, <3>1, FS_Subset, FS_CardinalityType, AgentHostAssumption
             DEF RoomToWork, AgentHostAssumption
  <2>3. CASE Abandoned(g)' \subseteq Abandoned(g)
    <3>1. Cardinality(Abandoned(g)') <= Cardinality(Abandoned(g))
      BY <2>2, <2>3, FS_Subset
    <3>2. Cardinality(Abandoned(g)') \in Nat
      BY <2>2, <2>3, FS_Subset, FS_CardinalityType
    <3>. QED BY <2>2, <3>1, <3>2, AgentHostAssumption DEF AgentHostAssumption
  <2>4. ASSUME NEW c \in Callers, Abandoned(g)' = Abandoned(g) \cup {c},
               ~(Cardinality(Abandoned(g) \cup {c}) >= Cap)
        PROVE  Cardinality(Abandoned(g)') < Cap
    <3>1. Cardinality(Abandoned(g) \cup {c}) \in Nat
      BY <2>2, FS_AddElement, FS_CardinalityType
    <3>. QED BY <2>4, <3>1, AgentHostAssumption DEF AgentHostAssumption
  <2>. QED BY <2>1, <2>3, <2>4 DEF Crowding
<1>3. IInv /\ RoomToWork /\ [Next]_vars => IInv' /\ RoomToWork'
  BY <1>2, IInvNext
<1>. QED BY <1>1, <1>3, InitIInv, PTL DEF Spec

(***************************************************************************)
(* The contract with the callers                                           *)
(***************************************************************************)
(* Every step of the host is a step of the contract, or none of its business. *)
LEMMA ContractNext ==
  ASSUME CallTypes, ChannelTypes, ModTypes, WireInv, \A c \in Callers :
     CallInv(c) /\ RunInv(c), [Next]_vars
  PROVE  [Contract!Next]_(Contract!cvars)
<1>1. CASE Close
  BY <1>1 DEF Close, Live, callVars, jobVars, modVars, retireVars, runVars,
     stage, Runs, Contract!cvars
<1>2. ASSUME NEW g \in Gens, ProcessEnds(g) PROVE [Contract!Next]_(Contract!cvars)
  <2>. DEFINE S == {c \in Callers : on[c] = g /\ run[c] # "none"}
  <2>1. told' = told
    BY <1>2 DEF ProcessEnds, callVars
  <2>2. stage' = [c \in Callers |-> IF c \in S THEN "over" ELSE stage[c]]
    BY <1>2 DEF ProcessEnds, stage, Runs, ModTypes
  <2>3. Contract!End(S)
    BY <2>1, <2>2 DEF Contract!End
  <2>. QED BY <2>3 DEF Contract!Next
<1>3. ASSUME NEW g \in Gens, Read(g) PROVE [Contract!Next]_(Contract!cvars)
  BY <1>3 DEF Read, callVars, hostVars, jobVars, retireVars, runVars, stage,
     Runs, Contract!cvars, ModTypes, ChannelTypes, WireInv
<1>4. ASSUME NEW g \in Gens, Hello(g) \/ StartDone(g) \/ StartFails(g) \/
   Watch(g) \/ Lapse(g) \/ Poll(g) \/ FetchFails(g) \/ GiveUpPolling(g) \/
   Respond(g) \/ HoldEnds(g)
     PROVE  [Contract!Next]_(Contract!cvars)
  BY <1>4 DEF Hello, StartDone, StartFails, Watch, Lapse, Poll, FetchFails,
     GiveUpPolling, Respond, HoldEnds, callVars, runVars, stage, Runs,
     Contract!cvars
<1>5. ASSUME NEW c \in Callers, Enter(c) PROVE [Contract!Next]_(Contract!cvars)
  <2>1. stage' = stage
    BY <1>5 DEF Enter, stage, Runs, runVars
  <2>2. \/ told' = told
        \/ \E t \in {"unavailable"} : told' = [told EXCEPT ![c] = t]
    BY <1>5 DEF Enter, Tell, Goto
  <2>3. told[c] = "nothing"
    BY <1>5 DEF Enter, CallInv
  <2>4. stage[c] = "new"
    BY <1>5 DEF Enter, CallInv, RunInv, Early, stage
  <2>5. CASE told' = told
    BY <2>1, <2>5 DEF Contract!cvars
  <2>6. CASE \E t \in {"unavailable"} : told' = [told EXCEPT ![c] = t]
    BY <2>1, <2>3, <2>4, <2>6 DEF Contract!Next, Contract!Tell, Contract!Elsewhere
  <2>. QED BY <2>2, <2>5, <2>6
<1>6. ASSUME NEW c \in Callers, Started(c) PROVE [Contract!Next]_(Contract!cvars)
  <2>1. stage' = stage
    BY <1>6 DEF Started, stage, Runs, runVars
  <2>2. \/ told' = told
        \/ \E t \in {"unavailable", "timeout"} : told' = [told EXCEPT ![c] = t]
    BY <1>6 DEF Started, Tell, Goto
  <2>3. told[c] = "nothing"
    BY <1>6 DEF Started, CallInv
  <2>4. stage[c] = "new"
    BY <1>6 DEF Started, CallInv, RunInv, Early, stage
  <2>5. CASE told' = told
    BY <2>1, <2>5 DEF Contract!cvars
  <2>6. CASE \E t \in {"unavailable", "timeout"} : told' = [told EXCEPT ![c] = t]
    BY <2>1, <2>3, <2>4, <2>6 DEF Contract!Next, Contract!Tell, Contract!Elsewhere
  <2>. QED BY <2>2, <2>5, <2>6
<1>7. ASSUME NEW c \in Callers, GiveUpEarly(c) PROVE [Contract!Next]_(Contract!cvars)
  <2>1. stage' = stage
    BY <1>7 DEF GiveUpEarly, stage, Runs, runVars
  <2>2. \E t \in {"timeout", "refused"} : told' = [told EXCEPT ![c] = t]
    BY <1>7 DEF GiveUpEarly, Tell, Goto
  <2>3. told[c] = "nothing"
    BY <1>7 DEF GiveUpEarly, CallInv
  <2>4. stage[c] = "new"
    BY <1>7 DEF GiveUpEarly, CallInv, RunInv, Early, stage
  <2>. QED BY <2>1, <2>2, <2>3, <2>4 DEF Contract!Next, Contract!Tell, Contract!Elsewhere
<1>8. ASSUME NEW c \in Callers, Settle(c) PROVE [Contract!Next]_(Contract!cvars)
  <2>1. stage' = stage
    BY <1>8 DEF Settle, stage, Runs, runVars
  <2>2. \E t \in {"result", "failed"} : told' = [told EXCEPT ![c] = t]
    BY <1>8 DEF Settle, Tell, Goto
  <2>3. told[c] = "nothing"
    BY <1>8 DEF Settle, CallInv
  <2>4. \E t \in {"result", "failed"} : told' = [told EXCEPT ![c] = t] /\ (t = "result" => future[c] = "result")
    BY <1>8 DEF Settle, Tell
  <2>5. future[c] = "result" => stage[c] = "over"
    BY DEF RunInv, stage, Runs
  <2>. QED BY <2>1, <2>3, <2>4, <2>5 DEF Contract!Next, Contract!Tell, Contract!Elsewhere
<1>9. ASSUME NEW c \in Callers, GiveUpLate(c) PROVE [Contract!Next]_(Contract!cvars)
  <2>1. stage' = stage
    BY <1>9 DEF GiveUpLate, stage, Runs, runVars
  <2>2. \E t \in {"timeout"} : told' = [told EXCEPT ![c] = t]
    BY <1>9 DEF GiveUpLate, Tell, Goto
  <2>3. told[c] = "nothing"
    BY <1>9 DEF GiveUpLate, CallInv
  <2>. QED BY <2>1, <2>2, <2>3 DEF Contract!Next, Contract!Tell, Contract!Elsewhere
<1>10. ASSUME NEW c \in Callers, Withdraw(c) PROVE [Contract!Next]_(Contract!cvars)
  <2>1. stage' = stage
    BY <1>10 DEF Withdraw, stage, Runs, runVars
  <2>2. \E t \in {"timeout"} : told' = [told EXCEPT ![c] = t]
    BY <1>10 DEF Withdraw, Tell, Goto
  <2>3. told[c] = "nothing"
    BY <1>10 DEF Withdraw, CallInv
  <2>. QED BY <2>1, <2>2, <2>3 DEF Contract!Next, Contract!Tell, Contract!Elsewhere
<1>11. ASSUME NEW c \in Callers, Abandon(c) PROVE [Contract!Next]_(Contract!cvars)
  <2>1. stage' = stage
    BY <1>11 DEF Abandon, stage, Runs, runVars
  <2>2. \E t \in {"timeout"} : told' = [told EXCEPT ![c] = t]
    BY <1>11 DEF Abandon, Tell, Goto
  <2>3. told[c] = "nothing"
    BY <1>11 DEF Abandon, CallInv
  <2>. QED BY <2>1, <2>2, <2>3 DEF Contract!Next, Contract!Tell, Contract!Elsewhere
<1>12. ASSUME NEW c \in Callers, Prepare(c) PROVE [Contract!Next]_(Contract!cvars)
  <2>1. told' = told
    BY <1>12 DEF Prepare, callVars
  <2>2. CASE Step(c, "posting")
    <3>1. stage' = [d \in Callers |-> IF d \in {c} THEN "over" ELSE stage[d]]
      BY <1>12, <2>2 DEF Prepare, Step, stage, Runs, ModTypes
    <3>2. Contract!End({c})
      BY <2>1, <3>1 DEF Contract!End
    <3>. QED BY <3>2 DEF Contract!Next
  <2>3. CASE Step(c, "spawning")
    <3>1. stage' = stage
      BY <1>12, <2>3 DEF Prepare, Step, stage, Runs, ModTypes
    <3>. QED BY <2>1, <3>1 DEF Contract!cvars
  <2>. QED BY <1>12, <2>2, <2>3 DEF Prepare
<1>13. ASSUME NEW c \in Callers, Spawn(c) PROVE [Contract!Next]_(Contract!cvars)
  <2>1. told' = told
    BY <1>13 DEF Spawn, callVars
  <2>2. CASE Step(c, "posting")
    <3>1. stage' = [d \in Callers |-> IF d \in {c} THEN "over" ELSE stage[d]]
      BY <1>13, <2>2 DEF Spawn, Step, stage, Runs, ModTypes
    <3>2. Contract!End({c})
      BY <2>1, <3>1 DEF Contract!End
    <3>. QED BY <3>2 DEF Contract!Next
  <2>3. CASE Step(c, "alive")
    <3>1. stage[c] = "new" /\ stage' = [stage EXCEPT ![c] = "running"]
      BY <1>13, <2>3 DEF Spawn, Step, stage, Runs, ModTypes
    <3>2. told[c] \notin Contract!Elsewhere
      BY <1>13 DEF Spawn, CallInv, RunInv
    <3>3. Contract!Begin(c)
      BY <2>1, <3>1, <3>2 DEF Contract!Begin
    <3>. QED BY <3>3 DEF Contract!Next
  <2>. QED BY <1>13, <2>2, <2>3 DEF Spawn
<1>14. ASSUME NEW c \in Callers, EndsEarly(c) PROVE [Contract!Next]_(Contract!cvars)
  <2>1. told' = told
    BY <1>14 DEF EndsEarly, callVars
  <2>2. stage' = [d \in Callers |-> IF d \in {c} THEN "over" ELSE stage[d]]
    BY <1>14 DEF EndsEarly, Step, stage, Runs, ModTypes
  <2>3. Contract!End({c})
    BY <2>1, <2>2 DEF Contract!End
  <2>. QED BY <2>3 DEF Contract!Next
<1>15. ASSUME NEW c \in Callers, Answered(c) PROVE [Contract!Next]_(Contract!cvars)
  BY <1>15 DEF Answered, Step, callVars, hostVars, jobVars, modVars,
     retireVars, stage, Runs, Contract!cvars, ModTypes
<1>16. ASSUME NEW c \in Callers, Ends(c) PROVE [Contract!Next]_(Contract!cvars)
  <2>1. told' = told
    BY <1>16 DEF Ends, callVars
  <2>2. stage' = [d \in Callers |-> IF d \in {c} THEN "over" ELSE stage[d]]
    BY <1>16 DEF Ends, Step, stage, Runs, ModTypes
  <2>3. Contract!End({c})
    BY <2>1, <2>2 DEF Contract!End
  <2>. QED BY <2>3 DEF Contract!Next
<1>17. ASSUME NEW c \in Callers, Post(c) PROVE [Contract!Next]_(Contract!cvars)
  BY <1>17 DEF Post, Step, Held, callVars, hostVars, jobVars, modVars,
     retireVars, stage, Runs, Contract!cvars, ModTypes
<1>18. ASSUME NEW c \in Callers, PostFails(c) PROVE [Contract!Next]_(Contract!cvars)
  BY <1>18 DEF PostFails, Step, callVars, hostVars, jobVars, retireVars,
     stage, Runs, Contract!cvars, ModTypes
<1>19. ASSUME NEW c \in Callers, Acquire(c) \/ Admit(c) \/ Bounce(c)
     PROVE  [Contract!Next]_(Contract!cvars)
  BY <1>19 DEF Acquire, Admit, Bounce, runVars, stage, Runs, Contract!cvars
<1>20. CASE UNCHANGED vars
  BY <1>20 DEF vars, callVars, runVars, stage, Runs, Contract!cvars
<1>. QED BY <1>1, <1>2, <1>3, <1>4, <1>5, <1>6, <1>7, <1>8, <1>9, <1>10,
   <1>11, <1>12, <1>13, <1>14, <1>15, <1>16, <1>17, <1>18, <1>19, <1>20 DEF
   Next

(* Each agent runs at most once and never after its caller was sent to the *)
(* CLI route: the host implements the contract, whatever is lost and       *)
(* whoever dies or gives up on the way.                                    *)
THEOREM Faithful == Spec => CallsSpec
<1>1. Init => Contract!Init
  BY DEF Init, Contract!Init, stage, Runs
<1>2. IInv /\ [Next]_vars => [Contract!Next]_(Contract!cvars)
  BY ContractNext DEF IInv, TypeOK
<1>. QED BY <1>1, <1>2, InitIInv, IInvNext, PTL DEF Spec, CallsSpec, Contract!Spec
=============================================================================

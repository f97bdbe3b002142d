------------------------- MODULE Supervisor_proofs --------------------------
(***************************************************************************)
(* Theorems about the daemon's supervisors, for any number of agents,      *)
(* roles, limits, epics and fallbacks and every set of faults.             *)
(***************************************************************************)
EXTENDS Supervisor, FiniteSetTheorems, TLAPS

(* Agents stays opaque: the proofs use only that it is a finite set.       *)

-----------------------------------------------------------------------------
(* AssignWorktree returns an epic or none.                                 *)
LEMMA AssignWorktreeType ==
  ASSUME TypeOK, NEW a \in Agents, NEW e \in AssignWorktree(a)
  PROVE  e \in EpicOrNone
BY DEF TypeOK, AssignWorktree, FirstEpic, Candidates, EpicOrNone

(* Waking the blocked supervisors leaves every location a location.        *)
LEMMA BroadcastType ==
  ASSUME NEW p \in [Agents -> Locations]
  PROVE  Broadcast(p) \in [Agents -> Locations]
BY DEF Broadcast, Locations

(* Release keeps the tracker's and the supervisors' types.                 *)
LEMMA ReleaseType ==
  ASSUME TypeOK, NEW a \in Agents, NEW l \in Locations, Release(a, l)
  PROVE  counts' \in [Roles -> Nat] /\ pc' \in [Agents -> Locations]
         /\ closed' \in BOOLEAN
<1> DEFINE q == [pc EXCEPT ![a] = l]
<1>1. q \in [Agents -> Locations]  BY DEF TypeOK
<1>2. Broadcast(q) \in [Agents -> Locations]  BY <1>1, BroadcastType
<1>3. RoleOf[a] \in Roles  BY SupervisorConstants
<1>4. CASE counts[RoleOf[a]] <= 0
      BY <1>1, <1>3, <1>4 DEF Release, TypeOK, Goto
<1>5. CASE counts[RoleOf[a]] > 0
      <2>1. counts' = [counts EXCEPT ![RoleOf[a]] = @ - 1] /\ pc' = Broadcast(q)
            /\ closed' = closed
            BY <1>3, <1>5 DEF Release, TypeOK
      <2>2. counts[RoleOf[a]] - 1 \in Nat  BY <1>3, <1>5 DEF TypeOK
      <2> QED  BY <1>2, <2>1, <2>2 DEF TypeOK
<1> QED  BY <1>3, <1>4, <1>5 DEF TypeOK

(* The initial state is well typed.                                        *)
LEMMA InitTypeOK == Init => TypeOK
<1> SUFFICES ASSUME Init PROVE TypeOK  OBVIOUS
<1> USE DEF Init
<1>1. shutdown \in BOOLEAN /\ closed \in BOOLEAN /\ ready \subseteq Epics  OBVIOUS
<1>2. counts \in [Roles -> Nat]  OBVIOUS
<1>3. assignments \in [Agents -> EpicOrNone] /\ branch \in [Agents -> EpicOrNone]
      /\ epicID \in [Agents -> EpicOrNone]
      BY DEF EpicOrNone
<1>4. pc \in [Agents -> Locations]  BY DEF Locations
<1>5. /\ proc \in [Agents -> {"none", "running"} \union Classes]
      /\ signal \in [Agents -> {"none", "term", "kill"}]
      /\ lastError \in [Agents -> Classes]
      BY DEF Classes
<1>6. /\ restartCount \in [Agents -> Nat] /\ rateRetryCount \in [Agents -> Nat]
      /\ backendIdx \in [Agents -> 0..NumFallbacks]
      BY SupervisorConstants
<1>7. stopper \in [Stoppers -> StopperState]
      BY SupervisorConstants DEF StopperState
<1> QED  BY <1>1, <1>2, <1>3, <1>4, <1>5, <1>6, <1>7 DEF TypeOK

(* The locations written by a step, and the variable groups it keeps.      *)
LEMMA GotoType ==
  ASSUME TypeOK, NEW a \in Agents, NEW l \in Locations, Goto(a, l)
  PROVE  pc' \in [Agents -> Locations]
BY DEF TypeOK, Goto

(* Moving a stopper within its states keeps its type.                      *)
LEMMA MoveType ==
  ASSUME TypeOK, NEW s \in Stoppers, NEW st \in StopperState, Move(s, st)
  PROVE  stopper' \in [Stoppers -> StopperState]
BY DEF TypeOK, Move

(* Every step of a supervisor preserves the type invariant.                *)
LEMMA SuperviseAgentTypeOK ==
  ASSUME TypeOK, NEW a \in Agents, SuperviseAgent(a)
  PROVE  TypeOK'
<1>1. CASE CheckShutdown(a)
      BY <1>1, GotoType DEF CheckShutdown, TypeOK, tracker, epicVars, process, policy, Locations
<1>2. CASE Acquire(a)
      <2>1. pc' \in [Agents -> Locations]
            BY <1>2, GotoType DEF Acquire, Locations
      <2>2. counts' \in [Roles -> Nat]
            <3> DEFINE r == RoleOf[a]
            <3>1. r \in Roles  BY SupervisorConstants
            <3>2. counts[r] + 1 \in Nat  BY <3>1 DEF TypeOK
            <3>3. counts' = counts \/ counts' = [counts EXCEPT ![r] = @ + 1]
                  BY <1>2 DEF Acquire
            <3> QED  BY <3>1, <3>2, <3>3 DEF TypeOK
      <2> QED  BY <1>2, <2>1, <2>2 DEF Acquire, TypeOK, epicVars, process, policy
<1>3. CASE AssignEpic(a)
      <2>1. pc' \in [Agents -> Locations]  BY <1>3, GotoType DEF AssignEpic, Locations
      <2>2. assignments' \in [Agents -> EpicOrNone] /\ epicID' \in [Agents -> EpicOrNone]
            BY <1>3, AssignWorktreeType DEF AssignEpic, TypeOK
      <2> QED  BY <1>3, <2>1, <2>2 DEF AssignEpic, TypeOK, tracker, process, policy
<1>4. CASE EnsureBranch(a)
      <2>1. pc' \in [Agents -> Locations]  BY <1>4, GotoType DEF EnsureBranch, Locations
      <2>2. branch' \in [Agents -> EpicOrNone]
            BY <1>4 DEF EnsureBranch, BranchSwitched, BranchFailed, TypeOK
      <2> QED  BY <1>4, <2>1, <2>2 DEF EnsureBranch, TypeOK, tracker, process, policy
<1>5. CASE SpawnAgent(a)
      <2>1. pc' \in [Agents -> Locations]  BY <1>5, GotoType DEF SpawnAgent, Locations
      <2> QED  BY <1>5, <2>1 DEF SpawnAgent, TypeOK, tracker, epicVars, process, policy
<1>6. CASE ReleaseAfterFailure(a)
      BY <1>6, ReleaseType DEF ReleaseAfterFailure, TypeOK, epicVars, process, policy, Locations
<1>7. CASE HandleRestartAfterError(a)
      <2>1. pc' \in [Agents -> Locations]  BY <1>7, GotoType DEF HandleRestartAfterError, Locations
      <2>2. restartCount' \in [Agents -> Nat]
            BY <1>7 DEF HandleRestartAfterError, TypeOK
      <2> QED  BY <1>7, <2>1, <2>2 DEF HandleRestartAfterError, TypeOK, tracker, epicVars, process
<1>8. CASE BackoffSleep(a)
      <2>1. pc' \in [Agents -> Locations]  BY <1>8, GotoType DEF BackoffSleep, Locations
      <2> QED  BY <1>8, <2>1 DEF BackoffSleep, TypeOK, tracker, epicVars, process, policy
<1>9. CASE WaitForAgent(a)
      <2>1. pc' \in [Agents -> Locations]  BY <1>9, GotoType DEF WaitForAgent, Locations
      <2>2. stopper' \in [Stoppers -> StopperState]
            <3>1. \A x \in StopperState : [x EXCEPT !.current = FALSE] \in StopperState
                  BY DEF StopperState
            <3>2. stopper \in [Stoppers -> StopperState]  BY DEF TypeOK
            <3> HIDE DEF StopperState
            <3> QED  BY <1>9, <3>1, <3>2 DEF WaitForAgent
      <2> QED  BY <1>9, <2>1, <2>2 DEF WaitForAgent, TypeOK, tracker, epicVars
<1>10. CASE ReleaseWorktree(a)
      <2>1. pc' \in [Agents -> Locations]  BY <1>10, GotoType DEF ReleaseWorktree, Locations
      <2> QED  BY <1>10, <2>1 DEF ReleaseWorktree, TypeOK, tracker, process, policy, EpicOrNone
<1>11. CASE ReleaseSlot(a)
      BY <1>11, ReleaseType DEF ReleaseSlot, TypeOK, epicVars, process, policy, Locations
<1>12. CASE CheckEpicExhausted(a)
      <2>1. pc' \in [Agents -> Locations]  BY <1>12, GotoType DEF CheckEpicExhausted, Locations
      <2> QED  BY <1>12, <2>1 DEF CheckEpicExhausted, TypeOK, tracker, process, policy, EpicOrNone
<1>13. CASE ReassignEpic(a)
      <2>1. pc' \in [Agents -> Locations]  BY <1>13, GotoType DEF ReassignEpic, Locations
      <2>2. assignments' \in [Agents -> EpicOrNone] /\ epicID' \in [Agents -> EpicOrNone]
            BY <1>13, AssignWorktreeType DEF ReassignEpic, TypeOK, EpicOrNone
      <2> QED  BY <1>13, <2>1, <2>2 DEF ReassignEpic, TypeOK, tracker, process, policy
<1>14. CASE SwitchToNonEpicMode(a)
      <2>1. pc' \in [Agents -> Locations]  BY <1>14, GotoType DEF SwitchToNonEpicMode, Locations
      <2>2. branch' \in [Agents -> EpicOrNone]
            BY <1>14 DEF SwitchToNonEpicMode, BranchSwitched, BranchFailed, TypeOK, EpicOrNone
      <2> QED  BY <1>14, <2>1, <2>2 DEF SwitchToNonEpicMode, TypeOK, tracker, process
<1>15. CASE SwitchToNewEpic(a)
      <2>1. pc' \in [Agents -> Locations]  BY <1>15, GotoType DEF SwitchToNewEpic, Locations
      <2>2. /\ branch' \in [Agents -> EpicOrNone] /\ epicID' \in [Agents -> EpicOrNone]
            /\ assignments' \in [Agents -> EpicOrNone]
            BY <1>15 DEF SwitchToNewEpic, BranchSwitched, BranchFailed, TypeOK, EpicOrNone
      <2> QED  BY <1>15, <2>1, <2>2 DEF SwitchToNewEpic, TypeOK, tracker, process
<1>16. CASE CheckShutdownAfterExit(a)
      BY <1>16, GotoType DEF CheckShutdownAfterExit, TypeOK, tracker, epicVars, process, policy, Locations
<1>17. CASE TryFallbackBackend(a)
      <2>1. pc' \in [Agents -> Locations]  BY <1>17, GotoType DEF TryFallbackBackend, Locations
      <2>2. backendIdx[a] + 1 \in 0..NumFallbacks
            <3>1. backendIdx[a] \in 0..NumFallbacks  BY DEF TypeOK
            <3>2. backendIdx[a] + 1 < 1 + NumFallbacks
                  BY <1>17 DEF TryFallbackBackend, FailoverDue
            <3>3. NumFallbacks \in Nat  BY SupervisorConstants
            <3> QED  BY <3>1, <3>2, <3>3
      <2>3. backendIdx' \in [Agents -> 0..NumFallbacks]
            BY <1>17, <2>2 DEF TryFallbackBackend, TypeOK
      <2> QED  BY <1>17, <2>1, <2>3 DEF TryFallbackBackend, TypeOK, tracker, epicVars, process
<1>18. CASE ShouldRestart(a)
      <2>1. pc' \in [Agents -> Locations]  BY <1>18, GotoType DEF ShouldRestart, Locations
      <2>2. restartCount' \in [Agents -> Nat] /\ rateRetryCount' \in [Agents -> Nat]
            BY <1>18 DEF ShouldRestart, TypeOK
      <2>3. backendIdx' \in [Agents -> 0..NumFallbacks]
            <3>1. backendIdx' = backendIdx \/ backendIdx' = [backendIdx EXCEPT ![a] = 0]
                  BY <1>18 DEF ShouldRestart
            <3>2. 0 \in 0..NumFallbacks  BY SupervisorConstants
            <3> QED  BY <3>1, <3>2 DEF TypeOK
      <2> QED  BY <1>18, <2>1, <2>2, <2>3 DEF ShouldRestart, TypeOK, tracker, epicVars, process
<1>19. CASE SupervisorReturns(a)
      <2>1. pc' \in [Agents -> Locations]  BY <1>19, GotoType DEF SupervisorReturns, Locations
      <2> QED  BY <1>19, <2>1 DEF SupervisorReturns, TypeOK, tracker, process, policy, EpicOrNone
<1> QED
  BY <1>1, <1>2, <1>3, <1>4, <1>5, <1>6, <1>7, <1>8, <1>9, <1>10, <1>11, <1>12,
     <1>13, <1>14, <1>15, <1>16, <1>17, <1>18, <1>19 DEF SuperviseAgent

(* So does every step of the stoppers: they move, and set signal.          *)
LEMMA StopAgentTypeOK ==
  ASSUME TypeOK, NEW s \in Stoppers, StopAgent(s)
  PROVE  TypeOK'
<1> DEFINE a == stopper[s].agent
<1>0. stopper[s] \in StopperState  BY DEF TypeOK
<1>1. a \in Agents
      <2>1. CASE Visiting(s)
            BY <1>0, <2>1, SupervisorConstants DEF Visiting, StopperState, Agents
      <2>2. CASE stopper[s].at = "poll"  BY <1>0, <2>2 DEF StopperState
      <2> QED  BY <2>1, <2>2
               DEF StopAgent, SkipAgent, SendSIGTERM, ProcessGone, SendSIGKILL
<1>2. ASSUME Advance(s)
      PROVE  stopper' \in [Stoppers -> StopperState]
      <2>1. [at |-> "next", agent |-> a + 1, current |-> FALSE] \in StopperState
            BY <1>1, SupervisorConstants DEF StopperState, Agents
      <2> QED  BY <1>2, <2>1, MoveType DEF Advance
<1>3. CASE SkipAgent(s)
      BY <1>2, <1>3 DEF SkipAgent, TypeOK, tracker, epicVars, process, policy
<1>4. CASE SendSIGTERM(s)
      <2>2. [at |-> "poll", agent |-> a, current |-> TRUE] \in StopperState
            BY <1>1 DEF StopperState
      <2>3. stopper' \in [Stoppers -> StopperState]
            BY <1>4, <2>2, MoveType DEF SendSIGTERM
      <2>4. signal' \in [Agents -> {"none", "term", "kill"}]
            BY <1>1, <1>4 DEF SendSIGTERM, TypeOK
      <2> QED  BY <1>4, <2>3, <2>4 DEF SendSIGTERM, TypeOK, tracker, epicVars, policy
<1>5. CASE ProcessGone(s)
      BY <1>2, <1>5 DEF ProcessGone, TypeOK, tracker, epicVars, process, policy
<1>6. CASE SendSIGKILL(s)
      <2>1. signal' \in [Agents -> {"none", "term", "kill"}]
            BY <1>1, <1>6 DEF SendSIGKILL, TypeOK
      <2> QED  BY <1>2, <1>6, <2>1 DEF SendSIGKILL, TypeOK, tracker, epicVars, policy
<1> QED  BY <1>3, <1>4, <1>5, <1>6 DEF StopAgent

(* Stop and healthChecker move between their own locations.                *)
LEMMA StopHealthTypeOK ==
  ASSUME TypeOK, Stop \/ Health
  PROVE  TypeOK'
<1>0. /\ "Stop" \in Stoppers /\ "health" \in Stoppers
      /\ stopper["Stop"] \in StopperState /\ stopper["health"] \in StopperState
      BY DEF TypeOK, Stoppers
<1>1. ASSUME NEW s \in Stoppers, stopper[s].at # "poll",
             NEW l \in {"idle", "close", "next", "wait", "done"}
      PROVE  [stopper[s] EXCEPT !.at = l] \in StopperState
      <2>1. stopper[s] \in StopperState  BY DEF TypeOK
      <2> QED  BY <1>1, <2>1 DEF StopperState
<1>2. \A l \in {"idle", "next"} :
         [at |-> l, agent |-> 1, current |-> FALSE] \in StopperState
      BY SupervisorConstants DEF StopperState
<1>3. CASE StopSignals
      <2>1. stopper' \in [Stoppers -> StopperState]
            BY <1>0, <1>1, <1>3, MoveType DEF StopSignals
      <2> QED  BY <1>3, <2>1 DEF StopSignals, TypeOK, tracker, epicVars, process, policy
<1>4. CASE StopClosesTracker
      <2>1. stopper' \in [Stoppers -> StopperState]
            BY <1>0, <1>1, <1>4, MoveType DEF StopClosesTracker
      <2>2. pc' \in [Agents -> Locations]
            BY <1>4, BroadcastType DEF StopClosesTracker, TypeOK
      <2> QED  BY <1>4, <2>1, <2>2
               DEF StopClosesTracker, TypeOK, epicVars, process, policy
<1>5. CASE StopWaits
      <2>1. stopper' \in [Stoppers -> StopperState]
            BY <1>0, <1>1, <1>5, MoveType DEF StopWaits
      <2> QED  BY <1>5, <2>1 DEF StopWaits, TypeOK, tracker, epicVars, process, policy
<1>6. CASE StopReturns
      <2>1. stopper' \in [Stoppers -> StopperState]
            BY <1>0, <1>1, <1>6, MoveType DEF StopReturns
      <2> QED  BY <1>6, <2>1 DEF StopReturns, TypeOK, tracker, epicVars, process, policy
<1>7. CASE HealthTick
      <2>1. stopper' \in [Stoppers -> StopperState]
            BY <1>0, <1>2, <1>7, MoveType DEF HealthTick
      <2> QED  BY <1>7, <2>1 DEF HealthTick, TypeOK, tracker, epicVars, process, policy
<1>8. CASE HealthTickEnds
      <2>1. stopper' \in [Stoppers -> StopperState]
            BY <1>0, <1>2, <1>8, MoveType DEF HealthTickEnds
      <2> QED  BY <1>8, <2>1 DEF HealthTickEnds, TypeOK, tracker, epicVars, process, policy
<1>9. CASE HealthReturns
      <2>1. stopper' \in [Stoppers -> StopperState]
            BY <1>0, <1>1, <1>9, MoveType DEF HealthReturns
      <2> QED  BY <1>9, <2>1 DEF HealthReturns, TypeOK, tracker, epicVars, process, policy
<1> QED  BY <1>3, <1>4, <1>5, <1>6, <1>7, <1>8, <1>9 DEF Stop, Health

(* The subprocess and the task database.                                   *)
LEMMA EnvironmentTypeOK ==
  ASSUME TypeOK,
         \/ TasksChange
         \/ \E a \in Agents : AgentKilled(a) \/ \E c \in ExitClasses : AgentExits(a, c)
  PROVE  TypeOK'
<1>1. CASE TasksChange
      BY <1>1 DEF TasksChange, TypeOK, tracker, epicVars, process, policy
<1>2. ASSUME NEW a \in Agents, AgentKilled(a)  PROVE TypeOK'
      <2>1. proc' \in [Agents -> {"none", "running"} \union Classes]
            BY <1>2 DEF AgentKilled, TypeOK, Classes
      <2> QED  BY <1>2, <2>1 DEF AgentKilled, TypeOK, tracker, epicVars, policy
<1>3. ASSUME NEW a \in Agents, NEW c \in ExitClasses, AgentExits(a, c)  PROVE TypeOK'
      <2>1. proc' \in [Agents -> {"none", "running"} \union Classes]
            BY <1>3, SupervisorConstants DEF AgentExits, TypeOK
      <2> QED  BY <1>3, <2>1 DEF AgentExits, TypeOK, tracker, epicVars, policy
<1> QED  BY <1>1, <1>2, <1>3

(* Every action of Next keeps the state well typed.                        *)
LEMMA NextTypeOK == TypeOK /\ [Next]_vars => TypeOK'
<1> SUFFICES ASSUME TypeOK, [Next]_vars PROVE TypeOK'  OBVIOUS
<1>1. CASE UNCHANGED vars  BY <1>1 DEF vars, TypeOK
<1>2. CASE Terminated  BY <1>1, <1>2 DEF Terminated
<1> QED
  BY <1>1, <1>2, SuperviseAgentTypeOK, StopAgentTypeOK, StopHealthTypeOK,
     EnvironmentTypeOK DEF Next

(* The type invariant holds in every reachable state of the daemon.        *)
THEOREM TypeCorrect == Spec => []TypeOK
BY InitTypeOK, NextTypeOK, PTL DEF Spec

-----------------------------------------------------------------------------
(* The concurrency tracker.  A count within the limit, and a subprocess    *)
(* that exists only while its supervisor waits for it, make the counting   *)
(* invariant inductive.                                                    *)

(* A limited role never has more slots taken than its limit.               *)
WithinLimit == \A r \in Roles : Limit[r] # 0 => counts[r] <= Limit[r]

(* Every subprocess has a supervisor waiting for it.                       *)
SupervisedProcess == \A a \in Agents : proc[a] # "none" => pc[a] = "wait"

(* The inductive invariant of the tracker.                                 *)
SlotInv ==
  /\ TypeOK
  /\ SlotsMatchHolders
  /\ WithinLimit
  /\ NoLostWakeup
  /\ SupervisedProcess

(* The holders of a role are a finite set of agents, so countable.    *)
LEMMA HoldersFinite ==
  ASSUME NEW r
  PROVE  IsFiniteSet(Holders(r)) /\ Cardinality(Holders(r)) \in Nat
<1>1. IsFiniteSet(Agents)  BY SupervisorConstants, FS_Interval DEF Agents
<1>2. Holders(r) \in SUBSET Agents  BY DEF Holders
<1> QED  BY <1>1, <1>2, FS_Subset, FS_CardinalityType

(* A step that moves no supervisor across the boundary of Holding.         *)
LEMMA SlotsKept ==
  ASSUME SlotsMatchHolders, counts' = counts,
         \A b \in Agents : pc'[b] \in Holding <=> pc[b] \in Holding
  PROVE  SlotsMatchHolders'
<1>1. \A r : Holders(r)' = Holders(r)  BY DEF Holders
<1> QED  BY <1>1 DEF SlotsMatchHolders

(* A supervisor enters, and the count of its role goes up.                 *)
LEMMA SlotTaken ==
  ASSUME TypeOK, SlotsMatchHolders, NEW a \in Agents,
         pc[a] \notin Holding, pc'[a] \in Holding,
         \A b \in Agents \ {a} : pc'[b] \in Holding <=> pc[b] \in Holding,
         counts' = [counts EXCEPT ![RoleOf[a]] = @ + 1]
  PROVE  SlotsMatchHolders'
<1>1. SUFFICES ASSUME NEW r \in Roles
               PROVE  counts'[r] = Cardinality(Holders(r)')
      BY DEF SlotsMatchHolders
<1>2. counts[r] = Cardinality(Holders(r))  BY DEF SlotsMatchHolders
<1>3. CASE r = RoleOf[a]
      <2>1. Holders(r)' = Holders(r) \cup {a} /\ a \notin Holders(r)
            BY <1>3 DEF Holders
      <2>2. Cardinality(Holders(r) \cup {a}) = Cardinality(Holders(r)) + 1
            BY <2>1, HoldersFinite, FS_AddElement
      <2>3. counts'[r] = counts[r] + 1  BY <1>3 DEF TypeOK
      <2> QED  BY <1>2, <2>1, <2>2, <2>3
<1>4. CASE r # RoleOf[a]
      <2>1. Holders(r)' = Holders(r)  BY <1>4 DEF Holders
      <2>2. counts'[r] = counts[r]  BY <1>4 DEF TypeOK
      <2> QED  BY <1>2, <2>1, <2>2
<1> QED  BY <1>3, <1>4

(* A supervisor leaves through Release, whose warning case is unreachable. *)
LEMMA SlotReleased ==
  ASSUME SlotInv, NEW a \in Agents, pc[a] \in Holding,
         NEW l \in Locations \ Holding, l # "blocked", Release(a, l)
  PROVE  /\ SlotsMatchHolders' /\ WithinLimit' /\ NoLostWakeup'
         /\ \A b \in Agents \ {a} : pc[b] = "wait" => pc'[b] = "wait"
<1> DEFINE r == RoleOf[a]
           q == [pc EXCEPT ![a] = l]
<1>1. r \in Roles /\ counts \in [Roles -> Nat] /\ pc \in [Agents -> Locations]
      BY SupervisorConstants DEF SlotInv, TypeOK
<1>2. a \in Holders(r)  BY DEF Holders
<1>3. counts[r] > 0
      <2>1. Cardinality(Holders(r)) # 0  BY <1>2, HoldersFinite, FS_EmptySet
      <2>2. counts[r] = Cardinality(Holders(r))  BY <1>1 DEF SlotInv, SlotsMatchHolders
      <2> QED  BY <1>1, <2>1, <2>2
<1>4. /\ counts' = [counts EXCEPT ![r] = @ - 1] /\ pc' = Broadcast(q)
      /\ closed' = closed
      BY <1>1, <1>3 DEF Release
<1>5. /\ \A b \in Agents \ {a} : pc'[b] = (IF pc[b] = "blocked" THEN "acquire" ELSE pc[b])
      /\ pc'[a] = l
      BY <1>1, <1>4 DEF Broadcast
<1>6. pc'[a] \notin Holding
      /\ \A b \in Agents \ {a} : pc'[b] \in Holding <=> pc[b] \in Holding
      BY <1>5 DEF Holding
<1>7. SlotsMatchHolders'
      <2>1. SUFFICES ASSUME NEW s \in Roles
                     PROVE  counts'[s] = Cardinality(Holders(s)')
            BY DEF SlotsMatchHolders
      <2>2. counts[s] = Cardinality(Holders(s))  BY DEF SlotInv, SlotsMatchHolders
      <2>3. CASE s = r
            <3>1. Holders(s)' = Holders(s) \ {a}  BY <1>6, <2>3 DEF Holders
            <3>2. Cardinality(Holders(s) \ {a}) = Cardinality(Holders(s)) - 1
                  BY <1>2, <2>3, HoldersFinite, FS_RemoveElement
            <3>3. counts'[s] = counts[s] - 1  BY <1>1, <1>4, <2>3
            <3> QED  BY <2>2, <3>1, <3>2, <3>3
      <2>4. CASE s # r
            <3>1. Holders(s)' = Holders(s)  BY <1>6, <2>4 DEF Holders
            <3>2. counts'[s] = counts[s]  BY <1>1, <1>4, <2>4
            <3> QED  BY <2>2, <3>1, <3>2
      <2> QED  BY <2>3, <2>4
<1>8. WithinLimit'
      <2>1. \A s \in Roles : counts'[s] <= counts[s] /\ counts'[s] \in Int
            BY <1>1, <1>4
      <2> QED  BY <1>1, <2>1, SupervisorConstants DEF SlotInv, WithinLimit
<1>9. NoLostWakeup'
      <2>1. \A b \in Agents : pc'[b] # "blocked"  BY <1>5
      <2> QED  BY <2>1 DEF NoLostWakeup
<1> QED  BY <1>5, <1>7, <1>8, <1>9

(* A step of one supervisor that neither takes nor releases a slot.        *)
LEMMA SlotInvKept ==
  ASSUME SlotInv, TypeOK', counts' = counts, closed' = closed,
         NEW a \in Agents, NEW l, Goto(a, l), l # "blocked",
         pc[a] \in Holding <=> l \in Holding,
         \A b \in Agents \ {a} : proc'[b] = proc[b],
         proc'[a] # "none" => l = "wait"
  PROVE  SlotInv'
<1>1. pc' = [pc EXCEPT ![a] = l] /\ pc \in [Agents -> Locations]
      BY DEF Goto, SlotInv, TypeOK
<1>2. SlotsMatchHolders'
      BY <1>1, SlotsKept DEF SlotInv
<1>3. NoLostWakeup'  BY <1>1 DEF NoLostWakeup, SlotInv
<1>4. SupervisedProcess'  BY <1>1 DEF SupervisedProcess, SlotInv
<1> QED  BY <1>2, <1>3, <1>4 DEF SlotInv, WithinLimit

(* Every step of a supervisor preserves the tracker's invariant.           *)
LEMMA SuperviseAgentSlotInv ==
  ASSUME SlotInv, TypeOK', NEW a \in Agents, SuperviseAgent(a)
  PROVE  SlotInv'
<1> USE DEF tracker, process, policy, epicVars
<1>0. /\ pc \in [Agents -> Locations] /\ counts \in [Roles -> Nat]
      /\ proc \in [Agents -> {"none", "running"} \union Classes]
      /\ RoleOf[a] \in Roles /\ Limit \in [Roles -> Nat]
      BY SupervisorConstants DEF SlotInv, TypeOK
<1>p. pc[a] # "wait" => proc[a] = "none"
      BY DEF SlotInv, SupervisedProcess
<1>lim. Limit \in [Roles -> Nat] /\ RoleOf[a] \in Roles
      BY SupervisorConstants
<1>1. CASE CheckShutdown(a)
      BY <1>1, <1>p, SlotInvKept DEF CheckShutdown, Holding
<1>2. CASE Acquire(a)
      <2> DEFINE r == RoleOf[a]
      <2>0. pc[a] = "acquire" /\ proc' = proc /\ closed' = closed
            BY <1>2 DEF Acquire
      <2>1. CASE closed /\ Goto(a, "exit") /\ UNCHANGED counts
            BY <1>p, <2>0, <2>1, SlotInvKept DEF Holding
      <2>2. CASE /\ ~closed /\ AtLimit(r)
                 /\ Goto(a, "blocked") /\ UNCHANGED counts
            <3>1. pc' = [pc EXCEPT ![a] = "blocked"]  BY <2>2 DEF Goto
            <3>2. SlotsMatchHolders'
                  BY <1>0, <2>0, <2>2, <3>1, SlotsKept DEF SlotInv, Holding
            <3>3. NoLostWakeup'
                  BY <1>0, <2>0, <2>2, <3>1 DEF NoLostWakeup, SlotInv, AtLimit
            <3>4. SupervisedProcess'
                  BY <1>0, <1>p, <2>0, <3>1 DEF SupervisedProcess, SlotInv
            <3> QED  BY <2>2, <3>2, <3>3, <3>4 DEF SlotInv, WithinLimit
      <2>3. CASE /\ ~closed /\ ~AtLimit(r)
                 /\ counts' = [counts EXCEPT ![r] = @ + 1]
                 /\ Goto(a, "assign")
            <3>1. pc' = [pc EXCEPT ![a] = "assign"]  BY <2>3 DEF Goto
            <3>2. SlotsMatchHolders'
                  BY <1>0, <2>0, <2>3, <3>1, SlotTaken DEF SlotInv, Holding
            <3>3. WithinLimit'
                  BY <1>0, <1>lim, <2>3 DEF WithinLimit, SlotInv, AtLimit, TypeOK
            <3>4. NoLostWakeup'
                  BY <1>0, <2>0, <2>3, <3>1, SupervisorConstants DEF NoLostWakeup, SlotInv
            <3>5. SupervisedProcess'
                  BY <1>0, <1>p, <2>0, <3>1 DEF SupervisedProcess, SlotInv
            <3> QED  BY <3>2, <3>3, <3>4, <3>5 DEF SlotInv
      <2> QED  BY <1>2, <2>1, <2>2, <2>3 DEF Acquire
<1>3. CASE AssignEpic(a)
      BY <1>3, <1>p, SlotInvKept DEF AssignEpic, Holding
<1>4. CASE EnsureBranch(a)
      BY <1>4, <1>p, SlotInvKept DEF EnsureBranch, Holding
<1>5. CASE SpawnAgent(a)
      BY <1>0, <1>5, <1>p, SlotInvKept DEF SpawnAgent, Holding
<1>6. CASE ReleaseAfterFailure(a)
      <2>1. /\ SlotsMatchHolders' /\ WithinLimit' /\ NoLostWakeup'
            /\ \A b \in Agents \ {a} : pc[b] = "wait" => pc'[b] = "wait"
            BY <1>6, SlotReleased DEF ReleaseAfterFailure, Holding, Locations
      <2>2. proc' = proc /\ proc[a] = "none"  BY <1>6, <1>p DEF ReleaseAfterFailure
      <2>3. SupervisedProcess'  BY <2>1, <2>2 DEF SupervisedProcess, SlotInv
      <2> QED  BY <2>1, <2>3 DEF SlotInv
<1>7. CASE HandleRestartAfterError(a)
      BY <1>7, <1>p, SlotInvKept DEF HandleRestartAfterError, Holding
<1>8. CASE BackoffSleep(a)
      BY <1>8, <1>p, SlotInvKept DEF BackoffSleep, Holding
<1>9. CASE WaitForAgent(a)
      BY <1>0, <1>9, SlotInvKept DEF WaitForAgent, Holding
<1>10. CASE ReleaseWorktree(a)
      BY <1>10, <1>p, SlotInvKept DEF ReleaseWorktree, Holding
<1>11. CASE ReleaseSlot(a)
      <2>1. /\ SlotsMatchHolders' /\ WithinLimit' /\ NoLostWakeup'
            /\ \A b \in Agents \ {a} : pc[b] = "wait" => pc'[b] = "wait"
            BY <1>11, SlotReleased DEF ReleaseSlot, Holding, Locations
      <2>2. proc' = proc /\ proc[a] = "none"  BY <1>11, <1>p DEF ReleaseSlot
      <2>3. SupervisedProcess'  BY <2>1, <2>2 DEF SupervisedProcess, SlotInv
      <2> QED  BY <2>1, <2>3 DEF SlotInv
<1>12. CASE CheckEpicExhausted(a)
      BY <1>12, <1>p, SlotInvKept DEF CheckEpicExhausted, Holding
<1>13. CASE ReassignEpic(a)
      BY <1>13, <1>p, SlotInvKept DEF ReassignEpic, Holding
<1>14. CASE SwitchToNonEpicMode(a)
      BY <1>14, <1>p, SlotInvKept DEF SwitchToNonEpicMode, Holding
<1>15. CASE SwitchToNewEpic(a)
      BY <1>15, <1>p, SlotInvKept DEF SwitchToNewEpic, Holding
<1>16. CASE CheckShutdownAfterExit(a)
      BY <1>16, <1>p, SlotInvKept DEF CheckShutdownAfterExit, Holding
<1>17. CASE TryFallbackBackend(a)
      BY <1>17, <1>p, SlotInvKept DEF TryFallbackBackend, Holding
<1>18. CASE ShouldRestart(a)
      BY <1>18, <1>p, SlotInvKept DEF ShouldRestart, Holding
<1>19. CASE SupervisorReturns(a)
      BY <1>19, <1>p, SlotInvKept DEF SupervisorReturns, Holding
<1> QED
  BY <1>1, <1>2, <1>3, <1>4, <1>5, <1>6, <1>7, <1>8, <1>9, <1>10, <1>11, <1>12,
     <1>13, <1>14, <1>15, <1>16, <1>17, <1>18, <1>19 DEF SuperviseAgent

(* Every other step leaves counts alone, creates no subprocess and moves   *)
(* no supervisor, except that Close wakes the blocked ones.                *)
LEMMA OtherSlotInv ==
  ASSUME SlotInv, TypeOK', counts' = counts,
         \A a \in Agents : proc'[a] # "none" => proc[a] # "none",
         \/ pc' = pc /\ closed' = closed
         \/ pc' = Broadcast(pc)
  PROVE  SlotInv'
<1>0. pc \in [Agents -> Locations]  BY DEF SlotInv, TypeOK
<1>1. CASE pc' = pc /\ closed' = closed
      BY <1>1, SlotsKept DEF SlotInv, WithinLimit, NoLostWakeup, SupervisedProcess
<1>2. CASE pc' = Broadcast(pc)
      <2>1. \A b \in Agents :
               pc'[b] = (IF pc[b] = "blocked" THEN "acquire" ELSE pc[b])
            BY <1>0, <1>2 DEF Broadcast
      <2>2. SlotsMatchHolders'  BY <2>1, SlotsKept DEF SlotInv, Holding
      <2>3. NoLostWakeup' /\ SupervisedProcess'
            BY <2>1 DEF SlotInv, NoLostWakeup, SupervisedProcess
      <2> QED  BY <2>2, <2>3 DEF SlotInv, WithinLimit
<1> QED  BY <1>1, <1>2

(* No slot is taken initially.                                             *)
LEMMA InitSlotInv == Init => SlotInv
<1> SUFFICES ASSUME Init PROVE SlotInv  OBVIOUS
<1>1. \A r \in Roles : Holders(r) = {}  BY DEF Init, Holders, Holding
<1>2. SlotsMatchHolders  BY <1>1, FS_EmptySet DEF Init, SlotsMatchHolders
<1>3. WithinLimit  BY SupervisorConstants DEF Init, WithinLimit
<1>4. NoLostWakeup /\ SupervisedProcess  BY DEF Init, NoLostWakeup, SupervisedProcess
<1> QED  BY <1>2, <1>3, <1>4, InitTypeOK DEF SlotInv

(* Every action of Next preserves the slot invariant.                      *)
LEMMA NextSlotInv == SlotInv /\ [Next]_vars => SlotInv'
<1> SUFFICES ASSUME SlotInv, [Next]_vars PROVE SlotInv'  OBVIOUS
<1>0. TypeOK'  BY NextTypeOK DEF SlotInv
<1> USE DEF tracker, process, policy, epicVars
<1>1. CASE UNCHANGED vars
      BY <1>0, <1>1, OtherSlotInv DEF vars
<1>2. CASE Terminated  BY <1>1, <1>2 DEF Terminated
<1>3. ASSUME NEW a \in Agents, SuperviseAgent(a)  PROVE SlotInv'
      BY <1>0, <1>3, SuperviseAgentSlotInv
<1>4. ASSUME NEW a \in Agents,
             AgentKilled(a) \/ \E c \in ExitClasses : AgentExits(a, c)
      PROVE  SlotInv'
      <2>1. \A b \in Agents : proc'[b] # "none" => proc[b] # "none"
            BY <1>4 DEF AgentKilled, AgentExits, SlotInv, TypeOK
      <2> QED  BY <1>0, <1>4, <2>1, OtherSlotInv DEF AgentKilled, AgentExits
<1>5. ASSUME NEW s \in Stoppers, StopAgent(s)  PROVE SlotInv'
      BY <1>0, <1>5, OtherSlotInv
         DEF StopAgent, SkipAgent, SendSIGTERM, ProcessGone, SendSIGKILL
<1>6. CASE Stop
      BY <1>0, <1>6, OtherSlotInv
         DEF Stop, StopSignals, StopClosesTracker, StopWaits, StopReturns
<1>7. CASE Health
      BY <1>0, <1>7, OtherSlotInv DEF Health, HealthTick, HealthTickEnds, HealthReturns
<1>8. CASE TasksChange
      BY <1>0, <1>8, OtherSlotInv DEF TasksChange
<1> QED  BY <1>1, <1>2, <1>3, <1>4, <1>5, <1>6, <1>7, <1>8 DEF Next

(* No slot is leaked or given back twice, whatever path the supervisors    *)
(* take: the tracker's count is the number of holders.                     *)
THEOREM SlotsAreCounted == Spec => []SlotsMatchHolders
<1>1. SlotInv => SlotsMatchHolders  BY DEF SlotInv
<1> QED  BY <1>1, InitSlotInv, NextSlotInv, PTL DEF Spec

(* No wakeup is lost between Acquire, Release and Close.                   *)
THEOREM WakeupsAreKept == Spec => []NoLostWakeup
<1>1. SlotInv => NoLostWakeup  BY DEF SlotInv
<1> QED  BY <1>1, InitSlotInv, NextSlotInv, PTL DEF Spec

(* At most max_concurrency subprocesses of a role exist at any time.       *)
THEOREM ConcurrencyIsLimited == Spec => []ConcurrencyLimit
<1>1. SlotInv => ConcurrencyLimit
      <2> SUFFICES ASSUME SlotInv, NEW r \in Roles, Limit[r] # 0
                   PROVE  Cardinality({a \in Agents : RoleOf[a] = r /\ proc[a] # "none"})
                            <= Limit[r]
          BY DEF ConcurrencyLimit
      <2> DEFINE P == {a \in Agents : RoleOf[a] = r /\ proc[a] # "none"}
      <2>1. P \in SUBSET Holders(r)
            BY DEF SlotInv, SupervisedProcess, Holders, Holding
      <2>2. Cardinality(P) <= Cardinality(Holders(r)) /\ Cardinality(P) \in Nat
            BY <2>1, HoldersFinite, FS_Subset, FS_CardinalityType
      <2>3. Cardinality(Holders(r)) <= Limit[r]
            BY DEF SlotInv, SlotsMatchHolders, WithinLimit
      <2> QED  BY <2>2, <2>3, HoldersFinite, SupervisorConstants
<1> QED  BY <1>1, InitSlotInv, NextSlotInv, PTL DEF Spec

-----------------------------------------------------------------------------
(* Epics.  From AssignWorktree until the release at step 5.6 the           *)
(* supervisor's assignedEpicID is what the assigner holds for its          *)
(* worktree, and once the branch is ensured it is checked out.             *)

(* The inductive invariant of the assignments, epics and branches.         *)
EpicInv ==
  /\ TypeOK
  /\ EpicExclusive
  /\ SupervisedProcess
  /\ \A a \in Agents :
       /\ pc[a] \in {"ensureBranch", "spawn", "wait"} => assignments[a] = epicID[a]
       /\ pc[a] \in {"spawn", "wait"} => branch[a] = epicID[a]

(* AssignWorktree never returns an epic that another worktree holds.       *)
LEMMA AssignWorktreeFresh ==
  ASSUME EpicInv, NEW a \in Agents, NEW e \in AssignWorktree(a),
         NEW b \in Agents \ {a}, e = assignments[b]
  PROVE  e = NoEpic
<1>1. CASE assignments[a] # NoEpic
      BY <1>1 DEF AssignWorktree, EpicInv, EpicExclusive
<1>2. CASE assignments[a] = NoEpic
      BY <1>2 DEF AssignWorktree, FirstEpic, Candidates, Assigned
<1> QED  BY <1>1, <1>2

(* A step that writes one worktree's assignment, epic and branch.          *)
LEMMA EpicInvKept ==
  ASSUME EpicInv, TypeOK', SupervisedProcess', NEW a \in Agents,
         \A b \in Agents \ {a} :
            /\ pc'[b] = pc[b] \/ pc'[b] = "acquire"
            /\ assignments'[b] = assignments[b]
            /\ epicID'[b] = epicID[b] /\ branch'[b] = branch[b],
         \/ assignments'[a] \in {assignments[a], NoEpic}
         \/ assignments'[a] \in AssignWorktree(a),
         pc'[a] \in {"ensureBranch", "spawn", "wait"} => assignments'[a] = epicID'[a],
         pc'[a] \in {"spawn", "wait"} => branch'[a] = epicID'[a]
  PROVE  EpicInv'
<1>1. \A b \in Agents \ {a} : assignments'[a] = assignments'[b] => assignments'[a] = NoEpic
      <2>1. CASE assignments'[a] \in {assignments[a], NoEpic}
            BY <2>1 DEF EpicInv, EpicExclusive
      <2>2. CASE assignments'[a] \in AssignWorktree(a)
            BY <2>2, AssignWorktreeFresh
      <2> QED  BY <2>1, <2>2
<1>2. EpicExclusive'  BY <1>1 DEF EpicInv, EpicExclusive
<1> QED  BY <1>2 DEF EpicInv

(* Every step of a superviseAgent goroutine preserves the epic invariant.  *)
LEMMA SuperviseAgentEpicInv ==
  ASSUME EpicInv, TypeOK', SupervisedProcess', NEW a \in Agents, SuperviseAgent(a)
  PROVE  EpicInv'
<1> USE DEF tracker, process, policy, epicVars, Goto
<1>0. /\ pc \in [Agents -> Locations] /\ assignments \in [Agents -> EpicOrNone]
      /\ epicID \in [Agents -> EpicOrNone] /\ branch \in [Agents -> EpicOrNone]
      BY DEF EpicInv, TypeOK
<1>1. CASE CheckShutdown(a)  BY <1>0, <1>1, EpicInvKept DEF CheckShutdown
<1>2. CASE Acquire(a)  BY <1>0, <1>2, EpicInvKept DEF Acquire
<1>3. CASE AssignEpic(a)
      BY <1>0, <1>3, EpicInvKept DEF AssignEpic
<1>4. CASE EnsureBranch(a)
      BY <1>0, <1>4, EpicInvKept DEF EnsureBranch, EpicInv, BranchSwitched, BranchFailed
<1>5. CASE SpawnAgent(a)  BY <1>0, <1>5, EpicInvKept DEF SpawnAgent, EpicInv
<1>r. ASSUME NEW l \in {"retry", "transition"}, Release(a, l), UNCHANGED epicVars
      PROVE  EpicInv'
      <2>1. \A b \in Agents \ {a} : pc'[b] = pc[b] \/ pc'[b] = "acquire"
            BY <1>0, <1>r DEF Release, Broadcast
      <2>2. pc'[a] = l  BY <1>0, <1>r DEF Release, Broadcast
      <2> QED  BY <1>r, <2>1, <2>2, EpicInvKept
<1>6. CASE ReleaseAfterFailure(a)  BY <1>6, <1>r DEF ReleaseAfterFailure
<1>7. CASE HandleRestartAfterError(a)
      BY <1>0, <1>7, EpicInvKept DEF HandleRestartAfterError
<1>8. CASE BackoffSleep(a)  BY <1>0, <1>8, EpicInvKept DEF BackoffSleep
<1>9. CASE WaitForAgent(a)  BY <1>0, <1>9, EpicInvKept DEF WaitForAgent
<1>10. CASE ReleaseWorktree(a)  BY <1>0, <1>10, EpicInvKept DEF ReleaseWorktree
<1>11. CASE ReleaseSlot(a)  BY <1>11, <1>r DEF ReleaseSlot
<1>12. CASE CheckEpicExhausted(a)
      BY <1>0, <1>12, EpicInvKept DEF CheckEpicExhausted
<1>13. CASE ReassignEpic(a)  BY <1>0, <1>13, EpicInvKept DEF ReassignEpic
<1>14. CASE SwitchToNonEpicMode(a)
      BY <1>0, <1>14, EpicInvKept DEF SwitchToNonEpicMode, BranchSwitched, BranchFailed
<1>15. CASE SwitchToNewEpic(a)
      BY <1>0, <1>15, EpicInvKept DEF SwitchToNewEpic, BranchSwitched, BranchFailed
<1>16. CASE CheckShutdownAfterExit(a)
      BY <1>0, <1>16, EpicInvKept DEF CheckShutdownAfterExit
<1>17. CASE TryFallbackBackend(a)  BY <1>0, <1>17, EpicInvKept DEF TryFallbackBackend
<1>18. CASE ShouldRestart(a)  BY <1>0, <1>18, EpicInvKept DEF ShouldRestart
<1>19. CASE SupervisorReturns(a)  BY <1>0, <1>19, EpicInvKept DEF SupervisorReturns
<1> QED
  BY <1>1, <1>2, <1>3, <1>4, <1>5, <1>6, <1>7, <1>8, <1>9, <1>10, <1>11, <1>12,
     <1>13, <1>14, <1>15, <1>16, <1>17, <1>18, <1>19 DEF SuperviseAgent

(* No epic is assigned initially.                                          *)
LEMMA InitEpicInv == Init => EpicInv
BY InitTypeOK, InitSlotInv DEF EpicInv, SlotInv, Init, EpicExclusive

(* Every action of Next preserves the epic invariant.                      *)
LEMMA NextEpicInv == EpicInv /\ SlotInv' /\ [Next]_vars => EpicInv'
<1> SUFFICES ASSUME EpicInv, SlotInv', [Next]_vars PROVE EpicInv'  OBVIOUS
<1>0. TypeOK' /\ SupervisedProcess'  BY DEF SlotInv
<1> USE DEF tracker, process, policy, epicVars
<1>1. ASSUME UNCHANGED epicVars, pc' = pc \/ pc' = Broadcast(pc)
      PROVE  EpicInv'
      <2>1. \A a \in Agents : pc'[a] = pc[a] \/ pc'[a] = "acquire"
            BY <1>1 DEF Broadcast, EpicInv, TypeOK
      <2> QED  BY <1>0, <1>1, <2>1 DEF EpicInv, EpicExclusive
<1>2. CASE UNCHANGED vars  BY <1>1, <1>2 DEF vars
<1>3. CASE Terminated  BY <1>2, <1>3 DEF Terminated
<1>4. ASSUME NEW a \in Agents, SuperviseAgent(a)  PROVE EpicInv'
      BY <1>0, <1>4, SuperviseAgentEpicInv
<1>5. ASSUME NEW a \in Agents,
             AgentKilled(a) \/ \E c \in ExitClasses : AgentExits(a, c)
      PROVE  EpicInv'
      BY <1>1, <1>5 DEF AgentKilled, AgentExits
<1>6. ASSUME NEW s \in Stoppers, StopAgent(s)  PROVE EpicInv'
      BY <1>1, <1>6
         DEF StopAgent, SkipAgent, SendSIGTERM, ProcessGone, SendSIGKILL
<1>7. CASE Stop
      BY <1>1, <1>7
         DEF Stop, StopSignals, StopClosesTracker, StopWaits, StopReturns
<1>8. CASE Health
      BY <1>1, <1>8 DEF Health, HealthTick, HealthTickEnds, HealthReturns
<1>9. CASE TasksChange  BY <1>1, <1>9 DEF TasksChange
<1> QED  BY <1>2, <1>3, <1>4, <1>5, <1>6, <1>7, <1>8, <1>9 DEF Next

(* The epic invariant holds throughout.                                    *)
LEMMA EpicInvariant == Spec => []EpicInv
<1>1. EpicInv /\ SlotInv /\ [Next]_vars => (EpicInv /\ SlotInv)'
      BY NextSlotInv, NextEpicInv
<1> QED  BY <1>1, InitSlotInv, InitEpicInv, PTL DEF Spec

(* An epic is assigned to at most one worktree.                            *)
THEOREM EpicsAreExclusive == Spec => []EpicExclusive
<1>1. EpicInv => EpicExclusive  BY DEF EpicInv
<1> QED  BY <1>1, EpicInvariant, PTL

(* A subprocess works on the branch of the epic its worktree holds.        *)
THEOREM AgentsWorkOnTheirBranch == Spec => []WorksOnItsBranch
<1>1. EpicInv => WorksOnItsBranch
      BY DEF EpicInv, SupervisedProcess, WorksOnItsBranch
<1> QED  BY <1>1, EpicInvariant, PTL

-----------------------------------------------------------------------------
(* Signals.  What stopAgent relies on when its poll times out: the pid it  *)
(* captured, as long as it is still the agent's, was sent SIGTERM.  A      *)
(* respawn cannot come in between, because a spawn needs the agent to have *)
(* no subprocess, and the exit of the old one made the pid a stale one.    *)

(* A poll of a pid that is still current is the poll of a process that     *)
(* exists and has been signalled.                                          *)
PolledIsSignalled ==
  \A s \in Stoppers : stopper[s].at = "poll" /\ stopper[s].current =>
     proc[stopper[s].agent] # "none" /\ signal[stopper[s].agent] # "none"

(* What TermBeforeKill says of one step.                                   *)
KillsSignalled == \A a \in Agents : signal'[a] = "kill" => signal[a] \in {"term", "kill"}

(* Steps that signal nobody, end no subprocess and poll nobody new.        *)
LEMMA PollKept ==
  ASSUME SlotInv, PolledIsSignalled, signal' = signal,
         \A a \in Agents : proc[a] # "none" => proc'[a] # "none",
         \A s \in Stoppers : stopper'[s] = stopper[s] \/ stopper'[s].at # "poll"
  PROVE  PolledIsSignalled' /\ KillsSignalled
<1>1. \A s \in Stoppers : stopper[s].at = "poll" => stopper[s].agent \in Agents
      BY DEF SlotInv, TypeOK, StopperState
<1>2. PolledIsSignalled'
      BY <1>1 DEF PolledIsSignalled
<1>3. \A a \in Agents : signal[a] \in {"none", "term", "kill"}  BY DEF SlotInv, TypeOK
<1> QED  BY <1>2, <1>3 DEF KillsSignalled

(* The supervisor's spawn and its wait are the steps that reset a signal.  *)
LEMMA SupervisePolls ==
  ASSUME SlotInv, PolledIsSignalled, NEW a \in Agents, SuperviseAgent(a)
  PROVE  PolledIsSignalled' /\ KillsSignalled
<1>0. /\ signal \in [Agents -> {"none", "term", "kill"}] /\ pc \in [Agents -> Locations]
      /\ proc \in [Agents -> {"none", "running"} \union Classes]
      /\ stopper \in [Stoppers -> StopperState]
      BY DEF SlotInv, TypeOK
<1>p. \A s \in Stoppers : stopper[s].at = "poll" => stopper[s].agent \in Agents
      BY <1>0 DEF StopperState
<1>1. CASE SpawnAgent(a) /\ signal' # signal
      <2>1. /\ signal' = [signal EXCEPT ![a] = "none"] /\ proc' = [proc EXCEPT ![a] = "running"]
            /\ stopper' = stopper /\ pc[a] = "spawn"
            BY <1>1 DEF SpawnAgent, process
      <2>2. proc[a] = "none"  BY <2>1 DEF SlotInv, SupervisedProcess
      <2>3. \A s \in Stoppers : stopper[s].at = "poll" /\ stopper[s].current => stopper[s].agent # a
            BY <2>2 DEF PolledIsSignalled
      <2>4. PolledIsSignalled'
            BY <1>0, <1>p, <2>1, <2>3 DEF PolledIsSignalled
      <2>5. \A b \in Agents : signal'[b] = "kill" => signal[b] = "kill"
            BY <1>0, <2>1
      <2> QED  BY <2>4, <2>5 DEF KillsSignalled
<1>2. CASE WaitForAgent(a)
      <2>1. /\ signal' = [signal EXCEPT ![a] = "none"] /\ proc' = [proc EXCEPT ![a] = "none"]
            /\ \A s \in Stoppers :
                  stopper'[s] = IF stopper[s].agent = a
                                THEN [stopper[s] EXCEPT !.current = FALSE] ELSE stopper[s]
            BY <1>2 DEF WaitForAgent
      <2>2. ASSUME NEW s \in Stoppers, stopper'[s].at = "poll", stopper'[s].current
            PROVE  proc'[stopper'[s].agent] # "none" /\ signal'[stopper'[s].agent] # "none"
            <3>1. stopper[s] \in StopperState  BY <1>0
            <3>2. stopper[s].agent # a
                  BY <2>1, <2>2, <3>1 DEF StopperState
            <3>3. stopper'[s] = stopper[s]  BY <2>1, <3>2
            <3>4. stopper[s].at = "poll" /\ stopper[s].current  BY <2>2, <3>3
            <3>5. /\ stopper[s].agent \in Agents
                  /\ proc[stopper[s].agent] # "none" /\ signal[stopper[s].agent] # "none"
                  BY <1>p, <3>4 DEF PolledIsSignalled
            <3> QED  BY <1>0, <2>1, <3>2, <3>3, <3>5
      <2>3. PolledIsSignalled'  BY <2>2 DEF PolledIsSignalled
      <2>4. \A b \in Agents : signal'[b] = "kill" => signal[b] = "kill"
            BY <1>0, <2>1
      <2> QED  BY <2>3, <2>4 DEF KillsSignalled
<1>3. ASSUME signal' = signal, proc' = proc, stopper' = stopper
      PROVE  PolledIsSignalled' /\ KillsSignalled
      BY <1>3, PollKept
<1>4. CASE SpawnAgent(a) /\ signal' = signal
      <2>1. stopper' = stopper /\ (proc' = proc \/ proc' = [proc EXCEPT ![a] = "running"])
            BY <1>4 DEF SpawnAgent, process
      <2>2. \A b \in Agents : proc[b] # "none" => proc'[b] # "none"  BY <1>0, <2>1
      <2> QED  BY <1>4, <2>1, <2>2, PollKept
<1>5. \/ SpawnAgent(a) \/ WaitForAgent(a)
      \/ signal' = signal /\ proc' = proc /\ stopper' = stopper
      BY DEF SuperviseAgent, CheckShutdown, Acquire, AssignEpic, EnsureBranch, ReleaseAfterFailure,
             HandleRestartAfterError, BackoffSleep, ReleaseWorktree, ReleaseSlot, CheckEpicExhausted,
             ReassignEpic, SwitchToNonEpicMode, SwitchToNewEpic, CheckShutdownAfterExit,
             TryFallbackBackend, ShouldRestart, SupervisorReturns, process
<1> QED  BY <1>1, <1>2, <1>3, <1>4, <1>5

(* The calls of stopAgent: only a process that was signalled is killed.    *)
LEMMA StopAgentPolls ==
  ASSUME SlotInv, PolledIsSignalled, NEW s \in Stoppers, StopAgent(s)
  PROVE  PolledIsSignalled' /\ KillsSignalled
<1>0. /\ signal \in [Agents -> {"none", "term", "kill"}]
      /\ stopper \in [Stoppers -> StopperState]
      BY DEF SlotInv, TypeOK
<1>p. \A t \in Stoppers : stopper[t].at = "poll" => stopper[t].agent \in Agents
      BY <1>0 DEF StopperState
<1>1. ASSUME Advance(s)
      PROVE  \A t \in Stoppers : stopper'[t] = stopper[t] \/ stopper'[t].at # "poll"
      BY <1>0, <1>1 DEF Advance, Move
<1>2. CASE SkipAgent(s) \/ ProcessGone(s)
      BY <1>1, <1>2, PollKept DEF SkipAgent, ProcessGone, process
<1>3. CASE SendSIGTERM(s)
      <2> DEFINE a == stopper[s].agent
                 st == [at |-> "poll", agent |-> a, current |-> TRUE]
      <2>1. /\ a <= NumAgents /\ proc[a] # "none" /\ proc' = proc
            /\ signal' = [signal EXCEPT ![a] = IF signal[a] = "none" THEN "term" ELSE signal[a]]
            /\ stopper' = [stopper EXCEPT ![s] = st]
            BY <1>3 DEF SendSIGTERM, Visiting, Move
      <2>2. a \in Agents
            <3>1. a \in 1..(NumAgents + 1)  BY <1>0, SupervisorConstants DEF StopperState, Agents
            <3> QED  BY <2>1, <3>1, SupervisorConstants DEF Agents
      <2>3. \A b \in Agents : (signal[b] # "none" => signal'[b] = signal[b]) /\ signal'[a] # "none"
            BY <1>0, <2>1, <2>2
      <2>4. st.agent = a /\ stopper'[s] = st /\ \A t \in Stoppers \ {s} : stopper'[t] = stopper[t]
            BY <1>0, <2>1
      <2> HIDE DEF st, a
      <2>5. PolledIsSignalled'
            BY <1>p, <2>1, <2>2, <2>3, <2>4 DEF PolledIsSignalled
      <2>6. \A b \in Agents : signal'[b] = "kill" => signal[b] = "kill"
            BY <1>0, <2>1, <2>2
      <2> QED  BY <2>5, <2>6 DEF KillsSignalled
<1>4. CASE SendSIGKILL(s)
      <2> DEFINE a == stopper[s].agent
      <2>1. /\ stopper[s].at = "poll" /\ Advance(s) /\ proc' = proc
            /\ \/ signal' = signal
               \/ signal' = [signal EXCEPT ![a] = "kill"] /\ stopper[s].current
            BY <1>4 DEF SendSIGKILL
      <2>2. a \in Agents  BY <1>p, <2>1
      <2>3. CASE signal' = signal
            BY <1>1, <2>1, <2>3, PollKept
      <2>4. CASE signal' = [signal EXCEPT ![a] = "kill"] /\ stopper[s].current
            <3>1. signal[a] \in {"term", "kill"}
                  BY <1>0, <2>1, <2>2, <2>4 DEF PolledIsSignalled
            <3>2. \A t \in Stoppers : stopper'[t] = stopper[t] \/ stopper'[t].at # "poll"
                  BY <1>1, <2>1
            <3> HIDE DEF a
            <3>3. \A b \in Agents : (signal[b] # "none" => signal'[b] # "none") /\ (signal'[b] = "kill" => b = a \/ signal[b] = "kill")
                  BY <1>0, <2>2, <2>4
            <3>4. PolledIsSignalled'
                  BY <1>p, <2>1, <3>2, <3>3 DEF PolledIsSignalled
            <3> QED  BY <3>1, <3>3, <3>4 DEF KillsSignalled
      <2> QED  BY <2>1, <2>3, <2>4
<1> QED  BY <1>2, <1>3, <1>4 DEF StopAgent

(* Every step of the daemon keeps the invariant and kills only what was    *)
(* asked to stop.                                                          *)
LEMMA NextPolls ==
  SlotInv /\ PolledIsSignalled /\ [Next]_vars => PolledIsSignalled' /\ KillsSignalled
<1> SUFFICES ASSUME SlotInv, PolledIsSignalled, [Next]_vars PROVE PolledIsSignalled' /\ KillsSignalled
    OBVIOUS
<1>0. stopper \in [Stoppers -> StopperState] /\ "Stop" \in Stoppers /\ "health" \in Stoppers
      /\ proc \in [Agents -> {"none", "running"} \union Classes]
      BY DEF SlotInv, TypeOK, Stoppers
<1>1. CASE UNCHANGED vars  BY <1>1, PollKept DEF vars
<1>2. CASE Terminated  BY <1>1, <1>2 DEF Terminated
<1>3. ASSUME NEW a \in Agents,
             AgentKilled(a) \/ \E c \in ExitClasses : AgentExits(a, c)
      PROVE  PolledIsSignalled' /\ KillsSignalled
      <2>1. PICK c \in Classes : proc' = [proc EXCEPT ![a] = c]
            BY <1>3, SupervisorConstants DEF AgentKilled, AgentExits, Classes
      <2>2. \A b \in Agents : proc[b] # "none" => proc'[b] # "none"
            BY <1>0, <2>1 DEF Classes
      <2> QED  BY <1>3, <2>2, PollKept DEF AgentKilled, AgentExits
<1>4. ASSUME NEW s \in Stoppers, NEW st, Move(s, st), st.at # "poll", UNCHANGED process
      PROVE  PolledIsSignalled' /\ KillsSignalled
      <2>1. \A t \in Stoppers : stopper'[t] = stopper[t] \/ stopper'[t].at # "poll"
            BY <1>0, <1>4 DEF Move
      <2> QED  BY <1>4, <2>1, PollKept DEF process
<1>5. ASSUME NEW s \in Stoppers, NEW l, l # "poll", Move(s, [stopper[s] EXCEPT !.at = l]), UNCHANGED process
      PROVE  PolledIsSignalled' /\ KillsSignalled
      <2>1. [stopper[s] EXCEPT !.at = l].at = l  BY <1>0 DEF StopperState
      <2> QED  BY <1>4, <1>5, <2>1
<1>6. CASE Stop
      BY <1>0, <1>5, <1>6 DEF Stop, StopSignals, StopClosesTracker, StopWaits, StopReturns
<1>7. CASE Health
      <2>1. CASE HealthReturns  BY <1>0, <1>5, <2>1 DEF HealthReturns
      <2>2. CASE HealthTick \/ HealthTickEnds
            BY <1>0, <1>4, <2>2 DEF HealthTick, HealthTickEnds
      <2> QED  BY <1>7, <2>1, <2>2 DEF Health
<1>8. CASE TasksChange  BY <1>8, PollKept DEF TasksChange, process
<1> QED
  BY <1>1, <1>2, <1>3, <1>6, <1>7, <1>8, SupervisePolls, StopAgentPolls DEF Next

(* SIGKILL only reaches a process that was sent SIGTERM first, for any     *)
(* number of agents and whichever of Stop and the watchdog call stopAgent. *)
THEOREM KillsAreAnnounced == Spec => TermBeforeKill
<1>1. Init => PolledIsSignalled  BY DEF Init, PolledIsSignalled
<1>2. SlotInv /\ PolledIsSignalled /\ [Next]_vars =>
        [\A a \in Agents : signal'[a] = "kill" => signal[a] \in {"term", "kill"}]_vars
      BY NextPolls DEF KillsSignalled
<1> QED
  BY <1>1, <1>2, InitSlotInv, NextSlotInv, NextPolls, PTL DEF Spec, TermBeforeKill

-----------------------------------------------------------------------------
(* The daemon implements Dispatch, and Stop leaves nothing behind.         *)

(* What the invariants say about one step's starting state.                *)
Invs == SlotInv /\ EpicInv

-----------------------------------------------------------------------------
(* Abstract steps.                                                         *)

(* A step that moves nobody across Acquire or Release and starts and reaps *)
(* no subprocess is a stuttering step of Dispatch.                         *)
LEMMA Stutters ==
  ASSUME closed' = closed,
         \A b \in Agents : pc'[b] \in Holding <=> pc[b] \in Holding,
         \A b \in Agents : proc'[b] = "none" <=> proc[b] = "none",
         \A b \in Agents : proc[b] # "none" => epicID'[b] = epicID[b]
  PROVE  UNCHANGED D!dispatchVars
<1>1. HoldsSlot' = HoldsSlot  BY DEF HoldsSlot
<1>2. WorkingOn' = WorkingOn  BY DEF WorkingOn
<1> QED  BY <1>1, <1>2 DEF D!dispatchVars

(* The holders of a role are the abstract colleagues.                      *)
LEMMA ColleaguesAreHolders ==
  ASSUME NEW a \in Agents
  PROVE  D!Colleagues(a) = Holders(RoleOf[a])
BY DEF D!Colleagues, HoldsSlot, Holders

(* The third branch of Acquire admits an agent.                            *)
LEMMA AcquireAdmits ==
  ASSUME Invs, NEW a \in Agents, pc[a] = "acquire", ~closed, closed' = closed,
         ~AtLimit(RoleOf[a]), Goto(a, "assign"), proc' = proc, epicID' = epicID
  PROVE  D!Admit(a)
<1>0. pc \in [Agents -> Locations] /\ RoleOf[a] \in Roles
      /\ Limit[RoleOf[a]] \in Nat /\ counts[RoleOf[a]] \in Nat
      BY SupervisorConstants DEF Invs, SlotInv, TypeOK
<1>1. a \notin HoldsSlot  BY DEF HoldsSlot, Holding
<1>2. HoldsSlot' = HoldsSlot \union {a}
      BY <1>0 DEF Goto, HoldsSlot, Holding
<1>3. WorkingOn' = WorkingOn  BY DEF WorkingOn
<1>4. Cardinality(D!Colleagues(a)) = counts[RoleOf[a]]
      BY <1>0, ColleaguesAreHolders DEF Invs, SlotInv, SlotsMatchHolders
<1>5. D!HasRoom(a)  BY <1>0, <1>4 DEF D!HasRoom, AtLimit
<1> QED  BY <1>1, <1>2, <1>3, <1>5 DEF D!Admit

(* A successful spawn begins work on the agent's epic.                     *)
LEMMA SpawnBegins ==
  ASSUME Invs, NEW a \in Agents, pc[a] = "spawn", Goto(a, "wait"),
         proc' = [proc EXCEPT ![a] = "running"], epicID' = epicID, closed' = closed
  PROVE  D!Begin(a)
<1>0. /\ pc \in [Agents -> Locations] /\ epicID \in [Agents -> EpicOrNone]
      /\ proc \in [Agents -> {"none", "running"} \union Classes]
      BY DEF Invs, SlotInv, TypeOK
<1>1. a \in HoldsSlot  BY DEF HoldsSlot, Holding
<1>2. HoldsSlot' = HoldsSlot  BY <1>0 DEF Goto, HoldsSlot, Holding
<1>3. proc[a] = "none"  BY DEF Invs, SlotInv, SupervisedProcess
<1>4. WorkingOn[a] = {}  BY <1>3 DEF WorkingOn
<1>5. WorkingOn' = [WorkingOn EXCEPT ![a] = {epicID[a]}]
      BY <1>0 DEF WorkingOn
<1>6. ASSUME epicID[a] # NoEpic, NEW b \in Agents  PROVE epicID[a] \notin WorkingOn[b]
      <2>1. CASE proc[b] = "none"  BY <2>1 DEF WorkingOn
      <2>2. CASE proc[b] # "none"
            <3>1. pc[b] = "wait"  BY <2>2 DEF Invs, SlotInv, SupervisedProcess
            <3>2. assignments[b] = epicID[b] /\ assignments[a] = epicID[a]
                  BY <3>1 DEF Invs, EpicInv
            <3>3. a # b  BY <3>1
            <3>4. epicID[a] # epicID[b]
                  BY <1>6, <3>2, <3>3 DEF Invs, EpicInv, EpicExclusive
            <3> QED  BY <2>2, <3>4 DEF WorkingOn
      <2> QED  BY <2>1, <2>2
<1>7. epicID[a] \in Epics \union {NoEpic}  BY <1>0 DEF EpicOrNone
<1> QED  BY <1>1, <1>2, <1>4, <1>5, <1>6, <1>7 DEF D!Begin

(* waitForAgent reaps the subprocess: the agent's work is finished.        *)
LEMMA WaitFinishes ==
  ASSUME Invs, NEW a \in Agents, WaitForAgent(a)
  PROVE  D!Finish(a)
<1>0. /\ pc \in [Agents -> Locations]
      /\ proc \in [Agents -> {"none", "running"} \union Classes]
      BY DEF Invs, SlotInv, TypeOK
<1>1. proc[a] # "none" /\ closed' = closed /\ epicID' = epicID
      BY DEF WaitForAgent, Classes, tracker, epicVars
<1>2. WorkingOn[a] # {}  BY <1>1 DEF WorkingOn
<1>3. WorkingOn' = [WorkingOn EXCEPT ![a] = {}]
      BY <1>0, <1>1 DEF WaitForAgent, WorkingOn
<1>4. HoldsSlot' = HoldsSlot  BY <1>0 DEF WaitForAgent, Goto, HoldsSlot, Holding
<1> QED  BY <1>1, <1>2, <1>3, <1>4 DEF D!Finish

(* Both calls of Release give the place back, after the work.              *)
LEMMA ReleaseGivesBack ==
  ASSUME Invs, NEW a \in Agents, pc[a] \in {"fail", "releaseSlot"},
         NEW l \in {"retry", "transition"}, Release(a, l),
         proc' = proc, epicID' = epicID
  PROVE  D!GiveBack(a)
<1>0. pc \in [Agents -> Locations]  BY DEF Invs, SlotInv, TypeOK
<1>1. a \in HoldsSlot  BY DEF HoldsSlot, Holding
<1>2. proc[a] = "none"  BY DEF Invs, SlotInv, SupervisedProcess
<1>3. WorkingOn[a] = {} /\ WorkingOn' = WorkingOn  BY <1>2 DEF WorkingOn
<1>4. \A b \in Agents : pc'[b] \in Holding <=> (b # a /\ pc[b] \in Holding)
      BY <1>0 DEF Release, Goto, Broadcast, Holding
<1>5. HoldsSlot' = HoldsSlot \ {a}  BY <1>4 DEF HoldsSlot
<1> QED  BY <1>1, <1>3, <1>5 DEF D!GiveBack, Release

-----------------------------------------------------------------------------
(* Every step of a supervisor is a step of Dispatch or stutters.           *)
LEMMA SuperviseAgentRefines ==
  ASSUME Invs, NEW a \in Agents, SuperviseAgent(a)
  PROVE  D!Step \/ UNCHANGED D!dispatchVars
<1>0. /\ pc \in [Agents -> Locations] /\ epicID \in [Agents -> EpicOrNone]
      /\ proc \in [Agents -> {"none", "running"} \union Classes]
      BY DEF Invs, SlotInv, TypeOK
<1>p. pc[a] # "wait" => proc[a] = "none"
      BY DEF Invs, SlotInv, SupervisedProcess
<1>g. ASSUME NEW l, Goto(a, l), pc[a] \in Holding <=> l \in Holding, closed' = closed,
             proc' = proc, \A b \in Agents \ {a} : epicID'[b] = epicID[b],
             pc[a] # "wait"
      PROVE  UNCHANGED D!dispatchVars
      <2>1. \A b \in Agents : pc'[b] \in Holding <=> pc[b] \in Holding
            BY <1>0, <1>g DEF Goto
      <2> QED  BY <1>g, <1>p, <2>1, Stutters
<1>1. CASE CheckShutdown(a)
      BY <1>1, <1>g DEF CheckShutdown, Holding, tracker, epicVars, process
<1>2. CASE Acquire(a)
      <2>1. proc' = proc /\ epicID' = epicID /\ closed' = closed /\ pc[a] = "acquire"
            BY <1>2 DEF Acquire, epicVars, process
      <2>2. CASE ~closed /\ ~AtLimit(RoleOf[a]) /\ Goto(a, "assign")
            BY <2>1, <2>2, AcquireAdmits DEF D!Step
      <2>3. CASE Goto(a, "exit") \/ Goto(a, "blocked")
            BY <2>1, <2>3, <1>g DEF Holding
      <2> QED  BY <1>2, <2>2, <2>3 DEF Acquire
<1>3. CASE AssignEpic(a)
      <2>1. \A b \in Agents \ {a} : epicID'[b] = epicID[b]
            BY <1>0, <1>3 DEF AssignEpic
      <2> QED  BY <1>3, <1>g, <2>1 DEF AssignEpic, Holding, tracker, process
<1>4. CASE EnsureBranch(a)
      <2>1. proc' = proc /\ epicID' = epicID /\ closed' = closed /\ pc[a] = "ensureBranch"
            /\ (Goto(a, "spawn") \/ Goto(a, "fail"))
            BY <1>4 DEF EnsureBranch, tracker, process
      <2> QED  BY <2>1, <1>g DEF Holding
<1>5. CASE SpawnAgent(a)
      <2>1. epicID' = epicID /\ closed' = closed /\ pc[a] = "spawn"
            BY <1>5 DEF SpawnAgent, tracker, epicVars
      <2>2. CASE proc' = [proc EXCEPT ![a] = "running"] /\ Goto(a, "wait")
            BY <2>1, <2>2, SpawnBegins DEF D!Step
      <2>3. CASE proc' = proc /\ Goto(a, "fail")
            BY <2>1, <2>3, <1>g DEF Holding
      <2> QED  BY <1>5, <2>2, <2>3 DEF SpawnAgent, process
<1>6. CASE ReleaseAfterFailure(a)
      <2>1. D!GiveBack(a)
            BY <1>6, ReleaseGivesBack DEF ReleaseAfterFailure, epicVars, process
      <2> QED  BY <2>1 DEF D!Step
<1>7. CASE HandleRestartAfterError(a)
      BY <1>7, <1>g DEF HandleRestartAfterError, Holding, tracker, epicVars, process
<1>8. CASE BackoffSleep(a)
      BY <1>8, <1>g DEF BackoffSleep, Holding, tracker, epicVars, process
<1>9. CASE WaitForAgent(a)  BY <1>9, WaitFinishes DEF D!Step
<1>10. CASE ReleaseWorktree(a)
      BY <1>10, <1>g DEF ReleaseWorktree, Holding, tracker, process
<1>11. CASE ReleaseSlot(a)
      <2>1. D!GiveBack(a)
            BY <1>11, ReleaseGivesBack DEF ReleaseSlot, epicVars, process
      <2> QED  BY <2>1 DEF D!Step
<1>12. CASE CheckEpicExhausted(a)
      BY <1>12, <1>g DEF CheckEpicExhausted, Holding, tracker, process
<1>13. CASE ReassignEpic(a)
      <2>1. \A b \in Agents \ {a} : epicID'[b] = epicID[b]
            BY <1>0, <1>13 DEF ReassignEpic
      <2>2. Goto(a, "ownBranch") \/ Goto(a, "newBranch")
            BY <1>13 DEF ReassignEpic
      <2> QED  BY <1>13, <1>g, <2>1, <2>2 DEF ReassignEpic, Holding, tracker, process
<1>14. CASE SwitchToNonEpicMode(a)
      BY <1>14, <1>g DEF SwitchToNonEpicMode, Holding, tracker, process
<1>15. CASE SwitchToNewEpic(a)
      <2>1. \A b \in Agents \ {a} : epicID'[b] = epicID[b]
            BY <1>0, <1>15 DEF SwitchToNewEpic
      <2> QED  BY <1>15, <1>g, <2>1 DEF SwitchToNewEpic, Holding, tracker, process
<1>16. CASE CheckShutdownAfterExit(a)
      BY <1>16, <1>g DEF CheckShutdownAfterExit, Holding, tracker, epicVars, process
<1>17. CASE TryFallbackBackend(a)
      BY <1>17, <1>g DEF TryFallbackBackend, Holding, tracker, epicVars, process
<1>18. CASE ShouldRestart(a)
      <2>1. Goto(a, "backoff") \/ Goto(a, "exit")  BY <1>18 DEF ShouldRestart
      <2>2. proc' = proc /\ epicID' = epicID /\ closed' = closed /\ pc[a] = "decide"
            BY <1>18 DEF ShouldRestart, tracker, epicVars, process
      <2> QED  BY <1>g, <2>1, <2>2 DEF Holding
<1>19. CASE SupervisorReturns(a)
      BY <1>19, <1>g DEF SupervisorReturns, Holding, tracker, process
<1> QED
  BY <1>1, <1>2, <1>3, <1>4, <1>5, <1>6, <1>7, <1>8, <1>9, <1>10, <1>11, <1>12,
     <1>13, <1>14, <1>15, <1>16, <1>17, <1>18, <1>19 DEF SuperviseAgent

(* Every step of the daemon is a step of Dispatch or stutters.             *)
LEMMA NextRefines ==
  Invs /\ [Next]_vars => [D!Step]_(D!dispatchVars)
<1> SUFFICES ASSUME Invs, [Next]_vars
             PROVE  D!Step \/ UNCHANGED D!dispatchVars
    OBVIOUS
<1>q. ASSUME closed' = closed, pc' = pc, epicID' = epicID,
             \A b \in Agents : proc'[b] = "none" <=> proc[b] = "none"
      PROVE  UNCHANGED D!dispatchVars
      BY <1>q, Stutters
<1> USE DEF tracker, process, epicVars
<1>1. CASE UNCHANGED vars  BY <1>1, <1>q DEF vars
<1>2. CASE Terminated  BY <1>1, <1>2 DEF Terminated
<1>3. ASSUME NEW a \in Agents, SuperviseAgent(a)
      PROVE  D!Step \/ UNCHANGED D!dispatchVars
      BY <1>3, SuperviseAgentRefines
<1>4. ASSUME NEW a \in Agents,
             AgentKilled(a) \/ \E c \in ExitClasses : AgentExits(a, c)
      PROVE  UNCHANGED D!dispatchVars
      <2>0. proc \in [Agents -> {"none", "running"} \union Classes]
            BY DEF Invs, SlotInv, TypeOK
      <2>1. \A c \in ExitClasses : c # "none"
            BY SupervisorConstants DEF Classes
      <2>2. \A b \in Agents : proc'[b] = "none" <=> proc[b] = "none"
            BY <1>4, <2>0, <2>1 DEF AgentKilled, AgentExits
      <2> QED  BY <1>4, <1>q, <2>2 DEF AgentKilled, AgentExits
<1>5. ASSUME NEW s \in Stoppers, StopAgent(s)  PROVE UNCHANGED D!dispatchVars
      BY <1>5, <1>q DEF StopAgent, SkipAgent, SendSIGTERM, ProcessGone, SendSIGKILL
<1>6. CASE Stop
      <2>1. CASE StopClosesTracker
            <3>1. \A b \in Agents : pc'[b] \in Holding <=> pc[b] \in Holding
                  BY <2>1 DEF StopClosesTracker, Broadcast, Holding
            <3>2. HoldsSlot' = HoldsSlot  BY <3>1 DEF HoldsSlot
            <3>3. WorkingOn' = WorkingOn  BY <2>1 DEF StopClosesTracker, WorkingOn
            <3>4. D!CloseOffice
                  BY <2>1, <3>2, <3>3 DEF StopClosesTracker, D!CloseOffice
            <3> QED  BY <3>4 DEF D!Step
      <2>2. CASE StopSignals \/ StopWaits \/ StopReturns
            BY <2>2, <1>q DEF StopSignals, StopWaits, StopReturns
      <2> QED  BY <1>6, <2>1, <2>2 DEF Stop
<1>7. CASE Health  BY <1>7, <1>q DEF Health, HealthTick, HealthTickEnds, HealthReturns
<1>8. CASE TasksChange  BY <1>8, <1>q DEF TasksChange
<1> QED  BY <1>1, <1>2, <1>3, <1>4, <1>5, <1>6, <1>7, <1>8 DEF Next

(* The daemon starts where Dispatch does.                                  *)
LEMMA InitRefines == Init => D!Start
<1> SUFFICES ASSUME Init PROVE D!Start  OBVIOUS
<1>1. HoldsSlot = {}  BY DEF Init, HoldsSlot, Holding
<1>2. WorkingOn = [a \in Agents |-> {}]  BY DEF Init, WorkingOn
<1> QED  BY <1>1, <1>2 DEF Init, D!Start

(* The invariants hold throughout.                                         *)
LEMMA InvsHold == Spec => []Invs
<1>1. Init => Invs  BY InitSlotInv, InitEpicInv DEF Invs
<1>2. Invs /\ [Next]_vars => Invs'  BY NextSlotInv, NextEpicInv DEF Invs
<1> QED  BY <1>1, <1>2, PTL DEF Spec

(* The daemon implements Dispatch: superviseAgent, Stop and the watchdog,  *)
(* with every failure they handle, admit, start, reap and release agents   *)
(* only as the abstract specification allows.                              *)
THEOREM DaemonDispatches == Spec => ImplementsDispatch
BY InvsHold, InitRefines, NextRefines, PTL DEF Spec, ImplementsDispatch, D!Behaviour

-----------------------------------------------------------------------------
(* Stop leaves nothing behind.                                             *)

(* A supervisor that has returned holds no epic, and Stop returns only     *)
(* when all have returned.                                                 *)
ReturnInv ==
  /\ \A a \in Agents : pc[a] = "done" => assignments[a] = NoEpic
  /\ stopper["Stop"].at = "done" => \A a \in Agents : pc[a] = "done"

(* A step that leaves the supervisors that have returned alone.            *)
LEMMA ReturnInvKept ==
  ASSUME ReturnInv,
         \A a \in Agents : pc[a] = "done" => pc'[a] = "done",
         \A a \in Agents : pc'[a] = "done" /\ pc[a] # "done" => assignments'[a] = NoEpic,
         \A a \in Agents : pc[a] = "done" => assignments'[a] = assignments[a],
         stopper'["Stop"].at = "done" => stopper["Stop"].at = "done"
  PROVE  ReturnInv'
BY DEF ReturnInv

(* Every step of a supervisor preserves it: none is left to one that has   *)
(* returned, and the deferred ReleaseWorktree runs in the last one.        *)
LEMMA SuperviseAgentReturnInv ==
  ASSUME TypeOK, ReturnInv, NEW a \in Agents, SuperviseAgent(a)
  PROVE  ReturnInv'
<1>0. /\ pc \in [Agents -> Locations] /\ assignments \in [Agents -> EpicOrNone]
      /\ stopper \in [Stoppers -> StopperState]
      BY DEF TypeOK
<1> USE DEF Goto, tracker, epicVars
<1>1. pc[a] # "done"
      BY DEF SuperviseAgent, CheckShutdown, Acquire, AssignEpic, EnsureBranch, SpawnAgent,
         ReleaseAfterFailure, HandleRestartAfterError, BackoffSleep, WaitForAgent,
         ReleaseWorktree, ReleaseSlot, CheckEpicExhausted, ReassignEpic,
         SwitchToNonEpicMode, SwitchToNewEpic, CheckShutdownAfterExit,
         TryFallbackBackend, ShouldRestart, SupervisorReturns
<1>2. \A b \in Agents \ {a} :
         /\ assignments'[b] = assignments[b]
         /\ pc'[b] = pc[b] \/ (pc[b] = "blocked" /\ pc'[b] = "acquire")
      <2>1. CASE ReleaseAfterFailure(a) \/ ReleaseSlot(a)
            BY <1>0, <2>1 DEF ReleaseAfterFailure, ReleaseSlot, Release, Broadcast
      <2>2. CASE CheckShutdown(a) \/ Acquire(a) \/ AssignEpic(a) \/ EnsureBranch(a)
            BY <1>0, <2>2 DEF CheckShutdown, Acquire, AssignEpic, EnsureBranch
      <2>3. CASE SpawnAgent(a) \/ HandleRestartAfterError(a) \/ BackoffSleep(a)
                 \/ ReleaseWorktree(a) \/ CheckEpicExhausted(a) \/ SupervisorReturns(a)
            BY <1>0, <2>3 DEF SpawnAgent, HandleRestartAfterError, BackoffSleep,
               ReleaseWorktree, CheckEpicExhausted, SupervisorReturns
      <2>4. CASE WaitForAgent(a)
            <3>1. pc' = [pc EXCEPT ![a] = "releaseEpic"] /\ assignments' = assignments
                  BY <2>4 DEF WaitForAgent
            <3> QED  BY <1>0, <3>1
      <2>5. CASE ReassignEpic(a) \/ SwitchToNonEpicMode(a) \/ SwitchToNewEpic(a)
            BY <1>0, <2>5 DEF ReassignEpic, SwitchToNonEpicMode, SwitchToNewEpic
      <2>6. CASE CheckShutdownAfterExit(a) \/ TryFallbackBackend(a)
            BY <1>0, <2>6 DEF CheckShutdownAfterExit, TryFallbackBackend
      <2>7. CASE ShouldRestart(a)
            <3>1. assignments' = assignments /\ \E l : pc' = [pc EXCEPT ![a] = l]
                  BY <2>7 DEF ShouldRestart
            <3> QED  BY <1>0, <3>1
      <2> QED  BY <2>1, <2>2, <2>3, <2>4, <2>5, <2>6, <2>7 DEF SuperviseAgent
<1>3. stopper'["Stop"].at = stopper["Stop"].at
      <2>1. CASE WaitForAgent(a)
            <3>1. stopper'["Stop"] = IF stopper["Stop"].agent = a
                     THEN [stopper["Stop"] EXCEPT !.current = FALSE] ELSE stopper["Stop"]
                  BY <2>1 DEF WaitForAgent, Stoppers
            <3>2. stopper["Stop"] \in StopperState  BY <1>0 DEF Stoppers
            <3>3. [stopper["Stop"] EXCEPT !.current = FALSE].at = stopper["Stop"].at
                  BY <3>2 DEF StopperState
            <3> QED  BY <3>1, <3>3
      <2>2. CASE stopper' = stopper  BY <2>2
      <2> QED  BY <2>1, <2>2
         DEF SuperviseAgent, CheckShutdown, Acquire, AssignEpic, EnsureBranch, SpawnAgent,
         ReleaseAfterFailure, HandleRestartAfterError, BackoffSleep,
         ReleaseWorktree, ReleaseSlot, CheckEpicExhausted, ReassignEpic,
         SwitchToNonEpicMode, SwitchToNewEpic, CheckShutdownAfterExit,
         TryFallbackBackend, ShouldRestart, SupervisorReturns
<1>4. pc'[a] = "done" => assignments'[a] = NoEpic
      <2>1. CASE SupervisorReturns(a)  BY <1>0, <2>1 DEF SupervisorReturns
      <2>2. CASE ReleaseAfterFailure(a) \/ ReleaseSlot(a)
            BY <1>0, <2>2 DEF ReleaseAfterFailure, ReleaseSlot, Release, Broadcast
      <2>3. CASE CheckShutdown(a) \/ Acquire(a) \/ AssignEpic(a) \/ EnsureBranch(a)
            BY <1>0, <2>3 DEF CheckShutdown, Acquire, AssignEpic, EnsureBranch
      <2>4. CASE SpawnAgent(a) \/ HandleRestartAfterError(a) \/ BackoffSleep(a)
                 \/ ReleaseWorktree(a) \/ CheckEpicExhausted(a)
            BY <1>0, <2>4 DEF SpawnAgent, HandleRestartAfterError, BackoffSleep,
               ReleaseWorktree, CheckEpicExhausted
      <2>5. CASE WaitForAgent(a)
            <3>1. pc' = [pc EXCEPT ![a] = "releaseEpic"]  BY <2>5 DEF WaitForAgent
            <3> QED  BY <1>0, <3>1
      <2>6. CASE ReassignEpic(a) \/ SwitchToNonEpicMode(a) \/ SwitchToNewEpic(a)
            BY <1>0, <2>6 DEF ReassignEpic, SwitchToNonEpicMode, SwitchToNewEpic
      <2>7. CASE CheckShutdownAfterExit(a) \/ TryFallbackBackend(a)
            BY <1>0, <2>7 DEF CheckShutdownAfterExit, TryFallbackBackend
      <2>8. CASE ShouldRestart(a)
            <3>1. pc' = [pc EXCEPT ![a] = "backoff"] \/ pc' = [pc EXCEPT ![a] = "exit"]
                  BY <2>8 DEF ShouldRestart
            <3> QED  BY <1>0, <3>1
      <2> QED  BY <2>1, <2>2, <2>3, <2>4, <2>5, <2>6, <2>7, <2>8 DEF SuperviseAgent
<1> QED  BY <1>1, <1>2, <1>3, <1>4, ReturnInvKept

(* Every action of Next preserves it.                                      *)
LEMMA NextReturnInv == TypeOK /\ ReturnInv /\ [Next]_vars => ReturnInv'
<1> SUFFICES ASSUME TypeOK, ReturnInv, [Next]_vars PROVE ReturnInv'  OBVIOUS
<1> USE DEF tracker, epicVars
<1>0. stopper \in [Stoppers -> StopperState]  BY DEF TypeOK
<1>1. CASE UNCHANGED vars  BY <1>1 DEF vars, ReturnInv
<1>2. CASE Terminated  BY <1>1, <1>2 DEF Terminated
<1>3. ASSUME NEW a \in Agents, SuperviseAgent(a)  PROVE ReturnInv'
      BY <1>3, SuperviseAgentReturnInv
<1>4. CASE TasksChange \/ \E a \in Agents : AgentKilled(a) \/ \E c \in ExitClasses : AgentExits(a, c)
      <2>1. UNCHANGED <<pc, assignments, stopper>>
            BY <1>4 DEF TasksChange, AgentKilled, AgentExits
      <2> QED  BY <2>1, ReturnInvKept
<1>5. ASSUME NEW s \in Stoppers, StopAgent(s)  PROVE ReturnInv'
      <2>1. UNCHANGED <<pc, assignments>>
            BY <1>5 DEF StopAgent, SkipAgent, SendSIGTERM, ProcessGone, SendSIGKILL
      <2>2. \E st : Move(s, st) /\ st.at # "done"
            BY <1>5 DEF StopAgent, SkipAgent, SendSIGTERM, ProcessGone, SendSIGKILL, Advance
      <2>3. stopper'["Stop"].at = "done" => stopper["Stop"].at = "done"
            BY <1>0, <2>2 DEF Move, Stoppers
      <2> QED  BY <2>1, <2>3, ReturnInvKept
<1>6. CASE StopReturns
      <2>1. UNCHANGED <<pc, assignments>> /\ \A a \in Agents : pc[a] = "done"
            BY <1>6 DEF StopReturns, WaitGroupDone
      <2> QED  BY <2>1 DEF ReturnInv
<1>7. CASE StopSignals \/ StopClosesTracker \/ StopWaits
      <2>1. stopper'["Stop"].at # "done"
            BY <1>0, <1>7 DEF StopSignals, StopClosesTracker, StopWaits, Move, Stoppers, StopperState
      <2>2. assignments' = assignments
            BY <1>7 DEF StopSignals, StopClosesTracker, StopWaits
      <2>3. \A a \in Agents : pc[a] = "done" <=> pc'[a] = "done"
            BY <1>7 DEF StopSignals, StopClosesTracker, StopWaits, Broadcast
      <2> QED  BY <2>1, <2>2, <2>3, ReturnInvKept
<1>8. CASE Health
      <2>1. UNCHANGED <<pc, assignments>> /\ stopper'["Stop"] = stopper["Stop"]
            BY <1>0, <1>8 DEF Health, HealthTick, HealthTickEnds, HealthReturns, Move, Stoppers
      <2> QED  BY <2>1, ReturnInvKept
<1> QED  BY <1>1, <1>2, <1>3, <1>4, <1>5, <1>6, <1>7, <1>8 DEF Next, Stop

(* When Stop has returned, no subprocess, slot or assignment is left: the  *)
(* WaitGroup covers every supervisor, and every path of superviseAgent has *)
(* given back what it took.                                                *)
THEOREM StopLeavesNothing == Spec => []CleanShutdown
<1>1. Init => ReturnInv
      BY DEF Init, ReturnInv, Stoppers
<1>2. Invs => TypeOK  BY DEF Invs, SlotInv
<1>3. Invs /\ ReturnInv => CleanShutdown
      <2> SUFFICES ASSUME Invs, ReturnInv, stopper["Stop"].at = "done"
                   PROVE  /\ \A a \in Agents : proc[a] = "none" /\ assignments[a] = NoEpic
                          /\ \A r \in Roles : counts[r] = 0
          BY DEF CleanShutdown
      <2>1. \A a \in Agents : pc[a] = "done"  BY DEF ReturnInv
      <2>2. \A a \in Agents : proc[a] = "none"
            BY <2>1 DEF Invs, SlotInv, SupervisedProcess
      <2>3. \A r \in Roles : Holders(r) = {}  BY <2>1 DEF Holders, Holding
      <2>4. \A r \in Roles : counts[r] = 0
            BY <2>3, FS_EmptySet DEF Invs, SlotInv, SlotsMatchHolders
      <2> QED  BY <2>1, <2>2, <2>4 DEF ReturnInv
<1> QED  BY <1>1, <1>2, <1>3, InvsHold, NextReturnInv, PTL DEF Spec
=============================================================================

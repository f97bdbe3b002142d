------------------------- MODULE FleetServer_proofs -------------------------
(***************************************************************************)
(* Theorems about the fleet store and the fleet handlers of the web UI     *)
(* server, for any number of servers, workers, tasks, concurrent requests, *)
(* failing commands, key rotations and server restarts.                    *)
(***************************************************************************)
EXTENDS FleetStore, FleetHandlers, FiniteSetTheorems, TLAPS

-----------------------------------------------------------------------------
(* The store.                                                              *)

CallPlaces == {"idle", "zadd", "cache", "extend", "claim", "record", "release",
               "zrem", "clear"}
Calls == [at : CallPlaces, worker : FleetWorkers \cup {Nobody}, task : FleetTasks \cup {Nobody}]

(* A request has a worker, and a task once it has claimed it or looked it  *)
(* up; who is about to release has recorded the result of that task.       *)
CallInv ==
  \A c \in FleetCalls :
    /\ storeCall[c].at # "idle" => storeCall[c].worker \in FleetWorkers
    /\ storeCall[c].at \notin {"idle", "claim"} => storeCall[c].task \in FleetTasks
    /\ storeCall[c].at = "release" => taskResult[storeCall[c].task] # Nobody

StoreInv == StoreTypeOK /\ CallInv /\ NoOutcomeLost

(* The initial store satisfies the invariant.                              *)
LEMMA StoreInitInv == StoreInit => StoreInv
<1> SUFFICES ASSUME StoreInit PROVE StoreInv  OBVIOUS
<1> USE StoreAssumption DEF StoreInit
<1>1. storeCall \in [FleetCalls -> Calls]  BY DEF Calls, CallPlaces, AtRest
<1>2. scan \in [at : {"wait", "look", "orphan", "timedout"}, todo : SUBSET FleetTasks,
               found : SUBSET FleetTasks, task : FleetTasks \cup {Nobody}]
      BY DEF Waiting
<1>3. StoreTypeOK  BY <1>1, <1>2 DEF StoreTypeOK, Calls, CallPlaces
<1>4. CallInv  BY DEF CallInv, AtRest
<1>5. NoOutcomeLost  BY DEF NoOutcomeLost
<1> QED  BY <1>3, <1>4, <1>5 DEF StoreInv

(* A step moves one request on, with its worker and its task.              *)
LEMMA StepFacts ==
  ASSUME StoreTypeOK, NEW c \in FleetCalls, NEW l \in CallPlaces, Step(c, l)
  PROVE  /\ storeCall' \in [FleetCalls -> Calls]
         /\ storeCall'[c].at = l /\ storeCall'[c].worker = storeCall[c].worker
         /\ storeCall'[c].task = storeCall[c].task
         /\ \A d \in FleetCalls \ {c} : storeCall'[d] = storeCall[d]
<1>1. storeCall \in [FleetCalls -> Calls]  BY DEF StoreTypeOK, Calls, CallPlaces
<1> QED  BY <1>1 DEF Step, Calls

(* Entering a handler's call sets place, worker and task of one request.   *)
LEMMA EnterFacts ==
  ASSUME StoreTypeOK, NEW c \in FleetCalls, NEW l \in CallPlaces,
         NEW w \in FleetWorkers \cup {Nobody}, NEW t \in FleetTasks \cup {Nobody},
         Enter(c, l, w, t)
  PROVE  /\ storeCall' \in [FleetCalls -> Calls]
         /\ storeCall'[c].at = l /\ storeCall'[c].worker = w /\ storeCall'[c].task = t
         /\ \A d \in FleetCalls \ {c} : storeCall'[d] = storeCall[d]
<1>1. storeCall \in [FleetCalls -> Calls]  BY DEF StoreTypeOK, Calls, CallPlaces
<1> QED  BY <1>1 DEF Enter, Calls

(* A request that returns is at rest; the others stay where they are.      *)
LEMMA ReturnFacts ==
  ASSUME StoreTypeOK, NEW c \in FleetCalls, Return(c)
  PROVE  /\ storeCall' \in [FleetCalls -> Calls]
         /\ storeCall'[c].at = "idle"
         /\ \A d \in FleetCalls \ {c} : storeCall'[d] = storeCall[d]
<1>1. storeCall \in [FleetCalls -> Calls]  BY DEF StoreTypeOK, Calls, CallPlaces
<1> QED  BY <1>1 DEF Return, AtRest, Calls, CallPlaces

(* The types, read with the names of this module.                          *)
LEMMA CallTypes ==
  ASSUME StoreTypeOK, NEW c \in FleetCalls
  PROVE  storeCall[c].at \in CallPlaces /\ storeCall[c].worker \in FleetWorkers \cup {Nobody}
         /\ storeCall[c].task \in FleetTasks \cup {Nobody}
BY DEF StoreTypeOK, CallPlaces

(* A request that moves to a place other than release, keeping its worker  *)
(* and task, while no result is removed, leaves CallInv true.              *)
LEMMA MoveCallInv ==
  ASSUME CallInv, NEW c \in FleetCalls,
         \A d \in FleetCalls \ {c} : storeCall'[d] = storeCall[d],
         \A t \in FleetTasks : taskResult[t] # Nobody => taskResult'[t] # Nobody,
         storeCall'[c].at # "idle" => storeCall'[c].worker \in FleetWorkers,
         storeCall'[c].at \notin {"idle", "claim"} => storeCall'[c].task \in FleetTasks,
         storeCall'[c].at = "release" => taskResult'[storeCall'[c].task] # Nobody
  PROVE  CallInv'
BY DEF CallInv

(* The calls that make a claim.                                            *)
LEMMA ClaimStepInv ==
  ASSUME StoreInv, NEW c \in FleetCalls,
         \/ \E w \in FleetWorkers : \E t \in FleetTasks : TryClaim(c, w, t)
         \/ RecordClaimTime(c) \/ RecordWorkerClaim(c) \/ ExtendClaimTTL(c)
  PROVE  StoreInv'
<1> USE DEF StoreInv
<1>0. "zadd" \in CallPlaces /\ "cache" \in CallPlaces /\ "extend" \in CallPlaces  BY DEF CallPlaces
<1>1. ASSUME NEW w \in FleetWorkers, NEW t \in FleetTasks, TryClaim(c, w, t) PROVE StoreInv'
  <2>1. Enter(c, "zadd", w, t)  BY <1>1 DEF TryClaim
  <2>2. StoreTypeOK'
        BY <1>0, <1>1, <2>1, EnterFacts DEF TryClaim, StoreTypeOK, Calls, CallPlaces
  <2>3. CallInv'
        BY <1>0, <1>1, <2>1, EnterFacts, MoveCallInv DEF TryClaim
  <2>4. NoOutcomeLost'  BY <1>1 DEF TryClaim, NoOutcomeLost, StoreTypeOK
  <2> QED  BY <2>2, <2>3, <2>4
<1>2. CASE RecordClaimTime(c)
  <2>1. Step(c, "cache")  BY <1>2 DEF RecordClaimTime
  <2>2. StoreTypeOK'
        BY <1>0, <1>2, <2>1, StepFacts DEF RecordClaimTime, StoreTypeOK, Calls, CallPlaces
  <2>3. CallInv'
        BY <1>0, <1>2, <2>1, StepFacts, MoveCallInv DEF RecordClaimTime, At, CallInv
  <2>4. NoOutcomeLost'  BY <1>2 DEF RecordClaimTime, NoOutcomeLost
  <2> QED  BY <2>2, <2>3, <2>4
<1>3. CASE RecordWorkerClaim(c)
  <2>1. Step(c, "extend")  BY <1>3 DEF RecordWorkerClaim
  <2>2. StoreTypeOK'
        BY <1>0, <1>3, <2>1, StepFacts, CallTypes
           DEF RecordWorkerClaim, StoreTypeOK, Calls, CallPlaces, claimVars
  <2>3. CallInv'
        BY <1>0, <1>3, <2>1, StepFacts, MoveCallInv DEF RecordWorkerClaim, At, CallInv
  <2>4. NoOutcomeLost'  BY <1>3 DEF RecordWorkerClaim, NoOutcomeLost, claimVars
  <2> QED  BY <2>2, <2>3, <2>4
<1>4. CASE ExtendClaimTTL(c)
  <2>1. Return(c)  BY <1>4 DEF ExtendClaimTTL
  <2>2. extended' \subseteq FleetTasks
        BY <1>4 DEF ExtendClaimTTL, At, CallInv, StoreTypeOK
  <2>3. StoreTypeOK'
        BY <1>4, <2>1, <2>2, ReturnFacts DEF ExtendClaimTTL, StoreTypeOK, Calls, CallPlaces
  <2>4. CallInv'  BY <1>4, <2>1, ReturnFacts, MoveCallInv DEF ExtendClaimTTL
  <2>5. NoOutcomeLost'  BY <1>4 DEF ExtendClaimTTL, NoOutcomeLost
  <2> QED  BY <2>3, <2>4, <2>5
<1> QED  BY <1>1, <1>2, <1>3, <1>4

(* handleFleetDone: the calls that end a claim.                            *)
LEMMA DoneStepInv ==
  ASSUME StoreInv, NEW c \in FleetCalls,
         \/ \E w \in FleetWorkers : GetWorker(c, w)
         \/ GetWorkerClaim(c) \/ RecordTaskResult(c) \/ ReleaseClaim(c)
         \/ ClearClaimTime(c) \/ ClearWorkerClaim(c) \/ CommandFails(c)
  PROVE  StoreInv'
<1> USE StoreAssumption DEF StoreInv
<1>0. {"claim", "record", "release", "zrem", "clear", "cache"} \subseteq CallPlaces
      BY DEF CallPlaces
<1>1. ASSUME NEW w \in FleetWorkers, GetWorker(c, w) PROVE StoreInv'
  <2>1. Enter(c, "claim", w, Nobody)  BY <1>1 DEF GetWorker
  <2>2. StoreTypeOK'
        BY <1>0, <1>1, <2>1, EnterFacts DEF GetWorker, StoreTypeOK, Calls, CallPlaces, claimVars
  <2>3. CallInv'  BY <1>0, <1>1, <2>1, EnterFacts, MoveCallInv DEF GetWorker
  <2>4. NoOutcomeLost'  BY <1>1 DEF GetWorker, NoOutcomeLost, claimVars
  <2> QED  BY <2>2, <2>3, <2>4
<1>2. CASE GetWorkerClaim(c)
  <2> DEFINE w == storeCall[c].worker
  <2>1. w \in FleetWorkers /\ workerClaim[w] \in FleetTasks \cup {Nobody}
        BY <1>2 DEF GetWorkerClaim, At, CallInv, StoreTypeOK
  <2>2. Return(c) \/ (workerClaim[w] # Nobody /\ Enter(c, "record", w, workerClaim[w]))
        BY <1>2 DEF GetWorkerClaim
  <2>3. UNCHANGED <<claimVars, workerClaim, taskResult, scan, storeFaults>>
        BY <1>2 DEF GetWorkerClaim
  <2>4. storeCall' \in [FleetCalls -> Calls]  BY <1>0, <2>1, <2>2, EnterFacts, ReturnFacts
  <2>5. StoreTypeOK'
        BY <2>3, <2>4 DEF StoreTypeOK, Calls, CallPlaces, claimVars
  <2>6. CallInv'  BY <1>0, <2>1, <2>2, <2>3, EnterFacts, ReturnFacts, MoveCallInv
  <2>7. NoOutcomeLost'  BY <2>3 DEF NoOutcomeLost, claimVars
  <2> QED  BY <2>5, <2>6, <2>7
<1>3. CASE RecordTaskResult(c)
  <2> DEFINE w == storeCall[c].worker
             t == storeCall[c].task
  <2>1. w \in FleetWorkers /\ t \in FleetTasks /\ w # Nobody
        BY <1>3 DEF RecordTaskResult, At, CallInv
  <2>2. Step(c, "release") /\ taskResult' = [taskResult EXCEPT ![t] = w]
        /\ UNCHANGED <<claimVars, workerClaim, scan, storeFaults>>
        BY <1>3 DEF RecordTaskResult
  <2>3. /\ taskResult' \in [FleetTasks -> FleetWorkers \cup {Nobody}]
        /\ taskResult'[t] # Nobody
        /\ \A u \in FleetTasks : taskResult[u] # Nobody => taskResult'[u] # Nobody
        BY <2>1, <2>2 DEF StoreTypeOK
  <2>4. StoreTypeOK'
        BY <1>0, <2>2, <2>3, StepFacts DEF StoreTypeOK, Calls, CallPlaces, claimVars
  <2>5. CallInv'  BY <1>0, <2>1, <2>2, <2>3, StepFacts, MoveCallInv
  <2>6. NoOutcomeLost'  BY <2>2, <2>3 DEF NoOutcomeLost, claimVars
  <2> QED  BY <2>4, <2>5, <2>6
<1>4. CASE ReleaseClaim(c)
  <2> DEFINE t == storeCall[c].task
  <2>1. t \in FleetTasks /\ taskResult[t] # Nobody
        BY <1>4 DEF ReleaseClaim, At, CallInv
  <2>2. /\ Step(c, "zrem") /\ claimOwner' = [claimOwner EXCEPT ![t] = Nobody]
        /\ extended' = extended \ {t} /\ claimEnd' = [claimEnd EXCEPT ![t] = "done"]
        /\ UNCHANGED <<claimTime, workerClaim, taskResult, scan, storeFaults>>
        /\ storeCall[c].at = "release"
        BY <1>4 DEF ReleaseClaim, DeleteClaim, At
  <2>3. StoreTypeOK'
        BY <1>0, <2>1, <2>2, StepFacts DEF StoreTypeOK, Calls, CallPlaces
  <2>4. CallInv'  BY <1>0, <2>1, <2>2, StepFacts, MoveCallInv DEF CallInv
  <2>5. NoOutcomeLost'  BY <2>1, <2>2 DEF NoOutcomeLost, StoreTypeOK
  <2> QED  BY <2>3, <2>4, <2>5
<1>5. CASE ClearClaimTime(c)
  <2>1. Step(c, "clear")  BY <1>5 DEF ClearClaimTime
  <2>2. StoreTypeOK'
        BY <1>0, <1>5, <2>1, StepFacts DEF ClearClaimTime, StoreTypeOK, Calls, CallPlaces
  <2>3. CallInv'
        BY <1>0, <1>5, <2>1, StepFacts, MoveCallInv DEF ClearClaimTime, At, CallInv
  <2>4. NoOutcomeLost'  BY <1>5 DEF ClearClaimTime, NoOutcomeLost
  <2> QED  BY <2>2, <2>3, <2>4
<1>6. CASE ClearWorkerClaim(c)
  <2>1. Return(c)  BY <1>6 DEF ClearWorkerClaim
  <2>2. StoreTypeOK'
        BY <1>6, <2>1, ReturnFacts DEF ClearWorkerClaim, StoreTypeOK, Calls, CallPlaces, claimVars
  <2>3. CallInv'  BY <1>6, <2>1, ReturnFacts, MoveCallInv DEF ClearWorkerClaim
  <2>4. NoOutcomeLost'  BY <1>6 DEF ClearWorkerClaim, NoOutcomeLost, claimVars
  <2> QED  BY <2>2, <2>3, <2>4
<1>7. CASE CommandFails(c)
  <2>1. /\ Return(c) \/ (storeCall[c].at = "zadd" /\ Step(c, "cache"))
                     \/ (storeCall[c].at = "zrem" /\ Step(c, "clear"))
        /\ UNCHANGED <<claimVars, workerClaim, taskResult, scan>>
        BY <1>7 DEF CommandFails, At
  <2>2. storeFaults' \in 0..MaxStoreFaults
        BY <1>7 DEF CommandFails, StoreTypeOK
  <2>3. storeCall' \in [FleetCalls -> Calls]  BY <1>0, <2>1, StepFacts, ReturnFacts
  <2>4. StoreTypeOK'  BY <2>1, <2>2, <2>3 DEF StoreTypeOK, Calls, CallPlaces, claimVars
  <2>5. CallInv'  BY <1>0, <2>1, StepFacts, ReturnFacts, MoveCallInv DEF CallInv
  <2>6. NoOutcomeLost'  BY <2>1 DEF NoOutcomeLost, claimVars
  <2> QED  BY <2>4, <2>5, <2>6
<1> QED  BY <1>1, <1>2, <1>3, <1>4, <1>5, <1>6, <1>7

(* The enforcer and the passing of time never end a claim as done.         *)
LEMMA EnforcerStepInv ==
  ASSUME StoreInv,
         \/ Enforcer \/ EnforcerFails
         \/ \E w \in FleetWorkers : WorkerClaimExpires(w)
         \/ \E t \in FleetTasks : ClaimExpires(t) \/ ClaimTimeAges(t)
  PROVE  StoreInv'
<1> USE StoreAssumption DEF StoreInv
<1> DEFINE Scans == [at : {"wait", "look", "orphan", "timedout"}, todo : SUBSET FleetTasks,
                     found : SUBSET FleetTasks, task : FleetTasks \cup {Nobody}]
<1>0. scan \in Scans /\ Waiting \in Scans  BY DEF StoreTypeOK, Waiting
<1>1. CASE FindTimedOutTasks
  <2> DEFINE old == {t \in FleetTasks : claimTime[t] = "old"}
  <2>0. old \in SUBSET FleetTasks /\ scan' = [Waiting EXCEPT !.at = "look", !.todo = old]
        BY <1>1 DEF FindTimedOutTasks
  <2> HIDE DEF old
  <2>1. scan' \in Scans
    <3>1. scan' = [at |-> "look", todo |-> old, found |-> {}, task |-> Nobody]
          BY <2>0 DEF Waiting
    <3> QED  BY <2>0, <3>1
  <2>2. UNCHANGED <<claimVars, workerClaim, taskResult, storeCall, storeFaults>>
        BY <1>1 DEF FindTimedOutTasks
  <2> QED  BY <2>1, <2>2 DEF StoreTypeOK, CallInv, NoOutcomeLost, claimVars
<1>2. CASE LookUpOwner
  <2>1. scan' \in Scans
    <3>1. PICK t \in scan.todo :
             \/ scan' = [scan EXCEPT !.at = "orphan", !.todo = @ \ {t}, !.task = t]
             \/ scan' = [scan EXCEPT !.todo = @ \ {t}, !.found = @ \cup {t}]
          BY <1>2 DEF LookUpOwner
    <3>2. t \in FleetTasks /\ scan.todo \ {t} \in SUBSET FleetTasks
          /\ scan.found \cup {t} \in SUBSET FleetTasks
          BY <1>0
    <3> HIDE DEF StoreInv
    <3>3. CASE scan' = [scan EXCEPT !.at = "orphan", !.todo = @ \ {t}, !.task = t]
          BY <1>0, <3>2, <3>3
    <3>4. CASE scan' = [scan EXCEPT !.todo = @ \ {t}, !.found = @ \cup {t}]
          BY <1>0, <3>2, <3>4
    <3> QED  BY <3>1, <3>3, <3>4
  <2>2. UNCHANGED <<claimVars, workerClaim, taskResult, storeCall, storeFaults>>
        BY <1>2 DEF LookUpOwner
  <2> QED  BY <2>1, <2>2 DEF StoreTypeOK, CallInv, NoOutcomeLost, claimVars
<1>3. CASE CleanUpOrphanedTime \/ ForgetTimedOut
  <2>1. scan' \in Scans  BY <1>0, <1>3 DEF CleanUpOrphanedTime, ForgetTimedOut
  <2>2. /\ claimTime' \in [FleetTasks -> {"none", "fresh", "old"}]
        /\ UNCHANGED <<claimOwner, extended, claimEnd, workerClaim, taskResult, storeCall,
                       storeFaults>>
        BY <1>3 DEF CleanUpOrphanedTime, ForgetTimedOut, StoreTypeOK
  <2> QED  BY <2>1, <2>2 DEF StoreTypeOK, CallInv, NoOutcomeLost
<1>4. CASE HandleTimeout
  <2>0. /\ claimOwner \in [FleetTasks -> FleetWorkers \cup {Nobody}]
        /\ extended \subseteq FleetTasks
        /\ claimEnd \in [FleetTasks -> {"none", "done", "timeout", "expired"}]
        BY DEF StoreTypeOK
  <2>1. UNCHANGED <<claimTime, workerClaim, taskResult, storeCall, storeFaults>>
        BY <1>4 DEF HandleTimeout
  <2>2. /\ scan' \in Scans
        /\ claimOwner' \in [FleetTasks -> FleetWorkers \cup {Nobody}]
        /\ extended' \subseteq FleetTasks
        /\ claimEnd' \in [FleetTasks -> {"none", "done", "timeout", "expired"}]
        /\ \A t \in FleetTasks : claimEnd'[t] \in {claimEnd[t], "timeout"}
    <3>1. CASE scan' = Waiting /\ UNCHANGED <<claimOwner, extended, claimEnd>>
          BY <1>0, <2>0, <3>1
    <3>2. ASSUME NEW t \in scan.found, DeleteClaim(t, "timeout"),
                 scan' = [scan EXCEPT !.at = "timedout", !.found = @ \ {t}, !.task = t]
          PROVE  <2>2!:
      <4> HIDE DEF StoreInv
      <4>1. t \in FleetTasks /\ scan.found \ {t} \in SUBSET FleetTasks  BY <1>0
      <4>2. scan' \in Scans  BY <1>0, <3>2, <4>1
      <4>3. /\ claimOwner' = [claimOwner EXCEPT ![t] = Nobody] /\ extended' = extended \ {t}
            /\ claimEnd' = [claimEnd EXCEPT ![t] = "timeout"]
            BY <3>2 DEF DeleteClaim
      <4> QED  BY <2>0, <4>1, <4>2, <4>3
    <3> QED  BY <1>4, <3>1, <3>2 DEF HandleTimeout
  <2> QED  BY <2>1, <2>2 DEF StoreTypeOK, CallInv, NoOutcomeLost
<1>5. CASE EnforcerFails
  <2>1. scan' \in Scans  BY <1>0, <1>5 DEF EnforcerFails
  <2>2. storeFaults' \in 0..MaxStoreFaults  BY <1>5 DEF EnforcerFails, StoreTypeOK
  <2>3. UNCHANGED <<claimVars, workerClaim, taskResult, storeCall>>  BY <1>5 DEF EnforcerFails
  <2> QED  BY <2>1, <2>2, <2>3 DEF StoreTypeOK, CallInv, NoOutcomeLost, claimVars
<1>6. ASSUME NEW w \in FleetWorkers, WorkerClaimExpires(w) PROVE StoreInv'
      BY <1>6 DEF WorkerClaimExpires, StoreTypeOK, CallInv, NoOutcomeLost, claimVars
<1>7. ASSUME NEW t \in FleetTasks, ClaimExpires(t) PROVE StoreInv'
  <2>1. /\ claimOwner' \in [FleetTasks -> FleetWorkers \cup {Nobody}]
        /\ extended' \subseteq FleetTasks
        /\ claimEnd' \in [FleetTasks -> {"none", "done", "timeout", "expired"}]
        /\ \A u \in FleetTasks : claimEnd'[u] \in {claimEnd[u], "expired"}
        /\ UNCHANGED <<claimTime, workerClaim, taskResult, storeCall, scan, storeFaults>>
        BY <1>7 DEF ClaimExpires, DeleteClaim, StoreTypeOK
  <2> QED  BY <2>1 DEF StoreTypeOK, CallInv, NoOutcomeLost
<1>8. ASSUME NEW t \in FleetTasks, ClaimTimeAges(t) PROVE StoreInv'
      BY <1>8 DEF ClaimTimeAges, StoreTypeOK, CallInv, NoOutcomeLost
<1> QED  BY <1>1, <1>2, <1>3, <1>4, <1>5, <1>6, <1>7, <1>8 DEF Enforcer

(* Every command of the store keeps the invariant.                         *)
LEMMA StoreStepInv == StoreInv /\ [StoreNext]_storeVars => StoreInv'
<1>1. ASSUME StoreInv, UNCHANGED storeVars PROVE StoreInv'
      BY <1>1 DEF storeVars, claimVars, StoreInv, StoreTypeOK, CallInv, NoOutcomeLost
<1> QED  BY <1>1, ClaimStepInv, DoneStepInv, EnforcerStepInv DEF StoreNext

(* The store's keys, the requests and the enforcer keep their types.       *)
THEOREM StoreTypeCorrect == StoreSpec => []StoreTypeOK
<1>1. StoreInv => StoreTypeOK  BY DEF StoreInv
<1> QED  BY <1>1, StoreInitInv, StoreStepInv, PTL DEF StoreSpec

(* handleFleetDone records before it releases.  With any number of         *)
(* requests, retries, failing commands, expiring keys and timeouts between *)
(* its commands, a task that a done request released has a result.         *)
THEOREM OutcomesAreKept == StoreSpec => []NoOutcomeLost
<1>1. StoreInv => NoOutcomeLost  BY DEF StoreInv
<1> QED  BY <1>1, StoreInitInv, StoreStepInv, PTL DEF StoreSpec

-----------------------------------------------------------------------------
(* The handlers.                                                           *)

Servers == [at : {"start", "exists", "read", "up"}, key : SigningKeys, shared : BOOLEAN,
            version : 0..(MaxRotations + 1), life : 0..MaxRestarts]
Tokens == [key : SigningKeys, shared : BOOLEAN, expired : BOOLEAN]

(* What makes a key of Redis one key.  Nothing counts as shared before     *)
(* version 1 exists; a server that has looked a version up can read it;    *)
(* and until a rotation every shared key is the one of version 1.          *)
KeyInv ==
  /\ \A s \in FleetServers :
       /\ fleetServer[s].at = "exists" => currentVersion >= 1
       /\ fleetServer[s].at = "read" => fleetServer[s].version \in 1..currentVersion
       /\ fleetServer[s].shared => currentVersion >= 1
       /\ fleetServer[s].shared /\ currentVersion = 1 => fleetServer[s].key = keyVersion[1]
  /\ \A w \in TokenWorkers :
       /\ token[w].shared => currentVersion >= 1
       /\ token[w].shared /\ currentVersion = 1 => token[w].key = keyVersion[1]

(* An open issue is nobody's, and one that was handed out is one worker's. *)
HandedInv ==
  \A i \in FleetIssues :
    /\ issueState[i] = "open" => handed[i] = {}
    /\ \A v, w \in handed[i] : v = w

HandlersInv == HandlersTypeOK /\ KeyInv /\ HandedInv

(* The keys a server or a rotation makes are signing keys.                 *)
LEMMA KeyTypes ==
  /\ NoKey \in SigningKeys
  /\ \A n \in Versions : Rotated(n) \in SigningKeys
  /\ \A s \in FleetServers, n \in 0..MaxRestarts : Ephemeral(s, n) \in SigningKeys
BY DEF SigningKeys

(* The numbers of versions.                                                *)
LEMMA VersionTypes ==
  /\ 1 \in Versions /\ 0 \in 0..(MaxRotations + 1) /\ 1 \in 0..(MaxRotations + 1)
  /\ \A v \in 1..MaxRotations : v + 1 \in Versions /\ v + 1 \in 0..(MaxRotations + 1) /\ v + 1 # 1
  /\ Versions \subseteq 0..(MaxRotations + 1) /\ 0 \in 0..MaxRestarts
  /\ \A v \in 0..(MaxRotations + 1) : \A u \in 1..v : u \in Versions
BY HandlersAssumption DEF Versions

(* The initial state satisfies the invariant.                              *)
LEMMA HandlersInitInv == HandlersInit => HandlersInv
<1> SUFFICES ASSUME HandlersInit PROVE HandlersInv  OBVIOUS
<1> USE HandlersAssumption, KeyTypes, VersionTypes DEF HandlersInit
<1>1. fleetServer \in [FleetServers -> Servers]  BY DEF Starting, Servers
<1>2. token \in [TokenWorkers -> Tokens]  BY DEF NoToken, Tokens
<1>3. register \in [TokenWorkers ->
         [at : {"idle", "counted", "allowed", "registered"}, within : BOOLEAN]]
      BY DEF NotCounted
<1>4. claimCall \in [TokenWorkers -> [at : {"idle", "trying"}, todo : SUBSET FleetIssues]]
      BY DEF NoClaim
<1>5. /\ currentVersion \in 0..(MaxRotations + 1) /\ keyVersion \in [Versions -> SigningKeys]
      /\ rateEntries \in 0..RegisterLimit /\ rpcFaults \in 0..MaxRPCFaults
      OBVIOUS
<1>6. /\ registration \in [TokenWorkers -> {"none", "fresh", "stale"}]
      /\ issueState \in [FleetIssues -> {"open", "claimed"}]
      /\ handed \in [FleetIssues -> SUBSET TokenWorkers]
      OBVIOUS
<1>7. KeyInv  BY DEF KeyInv, Starting, NoToken
<1>8. HandedInv  BY DEF HandedInv
<1> HIDE DEF HandlersInit
<1> QED  BY <1>1, <1>2, <1>3, <1>4, <1>5, <1>6, <1>7, <1>8 DEF HandlersInv, HandlersTypeOK, Servers, Tokens

(* A step that touches neither the claims nor what the keys are about.     *)
LEMMA RegisterKeeps ==
  ASSUME HandlersInv, UNCHANGED keyVars, UNCHANGED token, UNCHANGED claimHandlerVars,
         rateEntries' \in 0..RegisterLimit,
         register' \in [TokenWorkers ->
           [at : {"idle", "counted", "allowed", "registered"}, within : BOOLEAN]],
         registration' \in [TokenWorkers -> {"none", "fresh", "stale"}]
  PROVE  HandlersInv'
BY DEF HandlersInv, HandlersTypeOK, KeyInv, HandedInv, keyVars, claimHandlerVars

(* Registration, heartbeats and the rate limit.                            *)
LEMMA RegisterStepInv ==
  ASSUME HandlersInv, NEW w \in TokenWorkers,
         \/ AllowCount(w) \/ AllowAdd(w) \/ WindowPasses \/ RegisterWorker(w)
         \/ RegistrationFails(w) \/ UpdateHeartbeat(w) \/ RegistrationAges(w)
  PROVE  HandlersInv'
<1> DEFINE Registers == [at : {"idle", "counted", "allowed", "registered"}, within : BOOLEAN]
<1> USE HandlersAssumption
<1>0. /\ register \in [TokenWorkers -> Registers] /\ rateEntries \in 0..RegisterLimit
      /\ registration \in [TokenWorkers -> {"none", "fresh", "stale"}]
      BY DEF HandlersInv, HandlersTypeOK
<1>1. UNCHANGED keyVars /\ UNCHANGED token /\ UNCHANGED claimHandlerVars
      BY DEF AllowCount, AllowAdd, WindowPasses, RegisterWorker, RegistrationFails,
             UpdateHeartbeat, RegistrationAges
<1>2. rateEntries' \in 0..RegisterLimit
      BY <1>0 DEF AllowCount, AllowAdd, WindowPasses, RegisterWorker, RegistrationFails,
                  UpdateHeartbeat, RegistrationAges
<1>3. register' \in [TokenWorkers -> Registers]
  <2>1. CASE AllowCount(w)  BY <1>0, <2>1 DEF AllowCount
  <2>2. CASE AllowAdd(w)
        BY <1>0, <2>2 DEF AllowAdd, NotCounted
  <2>3. CASE RegisterWorker(w)  BY <1>0, <2>3 DEF RegisterWorker
  <2>4. CASE RegistrationFails(w)  BY <1>0, <2>4 DEF RegistrationFails, NotCounted
  <2>5. CASE WindowPasses \/ UpdateHeartbeat(w) \/ RegistrationAges(w)
        BY <1>0, <2>5 DEF WindowPasses, UpdateHeartbeat, RegistrationAges
  <2> QED  BY <2>1, <2>2, <2>3, <2>4, <2>5
<1>4. registration' \in [TokenWorkers -> {"none", "fresh", "stale"}]
      BY <1>0 DEF AllowCount, AllowAdd, WindowPasses, RegisterWorker, RegistrationFails,
                  UpdateHeartbeat, RegistrationAges
<1> QED  BY <1>1, <1>2, <1>3, <1>4, RegisterKeeps

(* What a server that starts to serve has become, and the others not.      *)
LEMMA ServeFacts ==
  ASSUME HandlersTypeOK, NEW s \in FleetServers, NEW k \in SigningKeys, NEW b \in BOOLEAN,
         Serve(s, k, b)
  PROVE  /\ fleetServer' \in [FleetServers -> Servers]
         /\ fleetServer'[s].at = "up" /\ fleetServer'[s].key = k /\ fleetServer'[s].shared = b
         /\ \A r \in FleetServers \ {s} : fleetServer'[r] = fleetServer[r]
<1> DEFINE served == [fleetServer[s] EXCEPT !.at = "up", !.version = 0, !.key = k, !.shared = b]
<1>1. fleetServer \in [FleetServers -> Servers]  BY DEF HandlersTypeOK, Servers
<1>2. fleetServer[s] \in Servers  BY <1>1
<1>3. served \in Servers /\ served.at = "up" /\ served.key = k /\ served.shared = b
      BY <1>2, VersionTypes DEF Servers
<1>4. fleetServer' = [fleetServer EXCEPT ![s] = served]  BY <1>1 DEF Serve
<1> HIDE DEF served, Servers
<1>5. fleetServer'[s] = served /\ \A r \in FleetServers \ {s} : fleetServer'[r] = fleetServer[r]
      BY <1>1, <1>4
<1> QED  BY <1>1, <1>3, <1>4, <1>5

(* A step on one server that leaves the tokens and the claims alone.       *)
LEMMA ServerKeeps ==
  ASSUME HandlersInv, fleetServer' \in [FleetServers -> Servers],
         currentVersion' \in 0..(MaxRotations + 1), keyVersion' \in [Versions -> SigningKeys],
         UNCHANGED <<registerVars, claimHandlerVars>>
  PROVE  HandlersTypeOK' /\ HandedInv' /\ token' = token
BY DEF HandlersInv, HandlersTypeOK, HandedInv, registerVars, claimHandlerVars, Servers

(* The first server stores its key as version 1; the others find it.       *)
LEMMA GetOrCreateInv ==
  ASSUME HandlersInv, NEW s \in FleetServers, GetOrCreateSigningKey(s)
  PROVE  HandlersInv'
<1> DEFINE k == Ephemeral(s, fleetServer[s].life)
<1>0. fleetServer \in [FleetServers -> Servers] /\ currentVersion \in 0..(MaxRotations + 1)
      /\ keyVersion \in [Versions -> SigningKeys]
      BY DEF HandlersInv, HandlersTypeOK, Servers
<1>1. k \in SigningKeys  BY <1>0, KeyTypes DEF Servers
<1> HIDE DEF k
<1>2. CASE currentVersion = 0
  <2>1. /\ currentVersion' = 1 /\ keyVersion' = [keyVersion EXCEPT ![1] = k] /\ Serve(s, k, TRUE)
        /\ UNCHANGED <<registerVars, claimHandlerVars>>
        BY <1>2 DEF GetOrCreateSigningKey, k
  <2>2. keyVersion' \in [Versions -> SigningKeys] /\ keyVersion'[1] = k
        BY <1>0, <1>1, <2>1, VersionTypes
  <2>3. /\ fleetServer' \in [FleetServers -> Servers]
        /\ fleetServer'[s].at = "up" /\ fleetServer'[s].key = k /\ fleetServer'[s].shared = TRUE
        /\ \A r \in FleetServers \ {s} : fleetServer'[r] = fleetServer[r]
        BY <1>1, <2>1, ServeFacts DEF HandlersInv
  <2>4. HandlersTypeOK' /\ HandedInv' /\ token' = token
        BY <2>1, <2>2, <2>3, ServerKeeps, VersionTypes
  <2>5. KeyInv'
    <3>1. \A r \in FleetServers : ~fleetServer[r].shared /\ fleetServer[r].at # "exists"
                                  /\ fleetServer[r].at # "read"
          BY <1>0, <1>2 DEF HandlersInv, KeyInv, Servers
    <3>2. \A w \in TokenWorkers : ~token[w].shared  BY <1>2 DEF HandlersInv, KeyInv
    <3> QED  BY <2>1, <2>2, <2>3, <2>4, <3>1, <3>2 DEF KeyInv
  <2> QED  BY <2>4, <2>5 DEF HandlersInv
<1>3. CASE currentVersion # 0
  <2>1. /\ fleetServer' = [fleetServer EXCEPT ![s].at = "exists"]
        /\ UNCHANGED <<currentVersion, keyVersion>> /\ UNCHANGED <<registerVars, claimHandlerVars>>
        BY <1>3 DEF GetOrCreateSigningKey
  <2>2. /\ fleetServer' \in [FleetServers -> Servers]
        /\ fleetServer'[s].at = "exists" /\ fleetServer'[s].key = fleetServer[s].key
        /\ fleetServer'[s].shared = fleetServer[s].shared
        /\ \A r \in FleetServers \ {s} : fleetServer'[r] = fleetServer[r]
        BY <1>0, <2>1 DEF Servers
  <2>3. HandlersTypeOK' /\ HandedInv' /\ token' = token
        BY <1>0, <2>1, <2>2, ServerKeeps
  <2>4. currentVersion >= 1  BY <1>0, <1>3, HandlersAssumption
  <2>5. KeyInv'  BY <2>1, <2>2, <2>3, <2>4 DEF HandlersInv, KeyInv
  <2> QED  BY <2>3, <2>5 DEF HandlersInv
<1> QED  BY <1>2, <1>3

(* Reading a version of Redis, falling back to a key of its own, and a     *)
(* restart.                                                                *)
LEMMA ServerStepInv ==
  ASSUME HandlersInv, NEW s \in FleetServers,
         GetCurrentVersion(s) \/ ReadKeyVersion(s) \/ EphemeralKey(s) \/ RestartServer(s)
  PROVE  HandlersInv'
<1>0. fleetServer \in [FleetServers -> Servers] /\ currentVersion \in 0..(MaxRotations + 1)
      /\ keyVersion \in [Versions -> SigningKeys]
      BY DEF HandlersInv, HandlersTypeOK, Servers
<1>1. UNCHANGED <<currentVersion, keyVersion>> /\ UNCHANGED <<registerVars, claimHandlerVars>>
      BY DEF GetCurrentVersion, ReadKeyVersion, EphemeralKey, RestartServer
<1>2. CASE GetCurrentVersion(s)
  <2>1. fleetServer' = [fleetServer EXCEPT ![s].at = "read", ![s].version = currentVersion]
        /\ fleetServer[s].at = "exists"
        BY <1>2 DEF GetCurrentVersion
  <2>2. /\ fleetServer' \in [FleetServers -> Servers]
        /\ fleetServer'[s].at = "read" /\ fleetServer'[s].key = fleetServer[s].key
        /\ fleetServer'[s].shared = fleetServer[s].shared
        /\ fleetServer'[s].version = currentVersion
        /\ \A r \in FleetServers \ {s} : fleetServer'[r] = fleetServer[r]
        BY <1>0, <2>1 DEF Servers
  <2>3. HandlersTypeOK' /\ HandedInv' /\ token' = token
        BY <1>0, <1>1, <2>2, ServerKeeps
  <2>4. currentVersion \in 1..currentVersion
        BY <1>0, <2>1, HandlersAssumption DEF HandlersInv, KeyInv
  <2>5. KeyInv'  BY <1>1, <2>2, <2>3, <2>4 DEF HandlersInv, KeyInv
  <2> QED  BY <2>3, <2>5 DEF HandlersInv
<1>3. CASE ReadKeyVersion(s)
  <2> DEFINE k == keyVersion[fleetServer[s].version]
  <2>1. Serve(s, k, TRUE) /\ fleetServer[s].at = "read"  BY <1>3 DEF ReadKeyVersion
  <2>2. fleetServer[s].version \in 1..currentVersion  BY <2>1 DEF HandlersInv, KeyInv
  <2>3. k \in SigningKeys  BY <1>0, <2>2, VersionTypes
  <2>4. currentVersion >= 1 /\ (currentVersion = 1 => fleetServer[s].version = 1)
        BY <1>0, <2>2, HandlersAssumption
  <2>5. currentVersion = 1 => k = keyVersion[1]  BY <2>4
  <2> HIDE DEF k
  <2>6. /\ fleetServer' \in [FleetServers -> Servers]
        /\ fleetServer'[s].at = "up" /\ fleetServer'[s].key = k /\ fleetServer'[s].shared = TRUE
        /\ \A r \in FleetServers \ {s} : fleetServer'[r] = fleetServer[r]
        BY <2>1, <2>3, ServeFacts DEF HandlersInv
  <2>7. HandlersTypeOK' /\ HandedInv' /\ token' = token
        BY <1>0, <1>1, <2>6, ServerKeeps
  <2>8. KeyInv'  BY <1>1, <2>4, <2>5, <2>6, <2>7 DEF HandlersInv, KeyInv
  <2> QED  BY <2>7, <2>8 DEF HandlersInv
<1>4. CASE EphemeralKey(s)
  <2> DEFINE k == Ephemeral(s, fleetServer[s].life)
  <2>1. Serve(s, k, FALSE)  BY <1>4 DEF EphemeralKey
  <2>2. k \in SigningKeys  BY <1>0, KeyTypes DEF Servers
  <2> HIDE DEF k
  <2>3. /\ fleetServer' \in [FleetServers -> Servers]
        /\ fleetServer'[s].at = "up" /\ fleetServer'[s].key = k /\ fleetServer'[s].shared = FALSE
        /\ \A r \in FleetServers \ {s} : fleetServer'[r] = fleetServer[r]
        BY <2>1, <2>2, ServeFacts DEF HandlersInv
  <2>4. HandlersTypeOK' /\ HandedInv' /\ token' = token
        BY <1>0, <1>1, <2>3, ServerKeeps
  <2>5. KeyInv'  BY <1>1, <2>3, <2>4 DEF HandlersInv, KeyInv
  <2> QED  BY <2>4, <2>5 DEF HandlersInv
<1>5. CASE RestartServer(s)
  <2>1. fleetServer' = [fleetServer EXCEPT ![s] = Starting(fleetServer[s].life + 1)]
        /\ fleetServer[s].life < MaxRestarts
        BY <1>5 DEF RestartServer
  <2>2. Starting(fleetServer[s].life + 1) \in Servers
        /\ Starting(fleetServer[s].life + 1).at = "start"
        /\ Starting(fleetServer[s].life + 1).shared = FALSE
    <3>1. fleetServer[s].life \in 0..MaxRestarts  BY <1>0 DEF Servers
    <3>2. fleetServer[s].life + 1 \in 0..MaxRestarts  BY <2>1, <3>1, HandlersAssumption
    <3> QED  BY <3>2, KeyTypes, VersionTypes DEF Starting, Servers
  <2>3. /\ fleetServer' \in [FleetServers -> Servers]
        /\ fleetServer'[s].at = "start" /\ fleetServer'[s].shared = FALSE
        /\ \A r \in FleetServers \ {s} : fleetServer'[r] = fleetServer[r]
        BY <1>0, <2>1, <2>2
  <2>4. HandlersTypeOK' /\ HandedInv' /\ token' = token
        BY <1>0, <1>1, <2>3, ServerKeeps
  <2>5. KeyInv'  BY <1>1, <2>3, <2>4 DEF HandlersInv, KeyInv
  <2> QED  BY <2>4, <2>5 DEF HandlersInv
<1> QED  BY <1>2, <1>3, <1>4, <1>5

(* A rotation leaves version 1 as it is and ends the premise about it.     *)
LEMMA RotateInv ==
  ASSUME HandlersInv, RotateSigningKey
  PROVE  HandlersInv'
<1>0. fleetServer \in [FleetServers -> Servers] /\ keyVersion \in [Versions -> SigningKeys]
      /\ currentVersion \in 1..MaxRotations
      BY DEF HandlersInv, HandlersTypeOK, Servers, RotateSigningKey
<1>1. /\ currentVersion' = currentVersion + 1 /\ fleetServer' = fleetServer
      /\ keyVersion' = [keyVersion EXCEPT ![currentVersion + 1] = Rotated(currentVersion + 1)]
      /\ UNCHANGED <<registerVars, claimHandlerVars>>
      BY DEF RotateSigningKey
<1>2. keyVersion' \in [Versions -> SigningKeys] /\ currentVersion' \in 0..(MaxRotations + 1)
      BY <1>0, <1>1, VersionTypes, KeyTypes
<1>3. HandlersTypeOK' /\ HandedInv' /\ token' = token
      BY <1>0, <1>1, <1>2, ServerKeeps
<1>4. currentVersion' >= 1 /\ currentVersion' # 1
      /\ \A v : v \in 1..currentVersion => v \in 1..currentVersion'
      BY <1>0, <1>1, HandlersAssumption
<1>5. KeyInv'  BY <1>1, <1>3, <1>4 DEF HandlersInv, KeyInv
<1> QED  BY <1>3, <1>5 DEF HandlersInv

(* Tokens are made with the key the server holds, and expire.              *)
LEMMA TokenStepInv ==
  ASSUME HandlersInv, NEW w \in TokenWorkers,
         TokenExpires(w) \/ \E s \in FleetServers : IssueToken(w, s)
  PROVE  HandlersInv'
<1>0. /\ token \in [TokenWorkers -> Tokens] /\ fleetServer \in [FleetServers -> Servers]
      /\ register \in [TokenWorkers ->
           [at : {"idle", "counted", "allowed", "registered"}, within : BOOLEAN]]
      BY DEF HandlersInv, HandlersTypeOK, Tokens, Servers
<1>1. /\ UNCHANGED <<keyVars, rateEntries, registration, claimHandlerVars>>
      /\ register' \in [TokenWorkers ->
           [at : {"idle", "counted", "allowed", "registered"}, within : BOOLEAN]]
  <2>1. CASE TokenExpires(w)  BY <1>0, <2>1 DEF TokenExpires
  <2>2. ASSUME NEW s \in FleetServers, IssueToken(w, s)
        PROVE  /\ UNCHANGED <<keyVars, rateEntries, registration, claimHandlerVars>>
               /\ register' = [register EXCEPT ![w] = NotCounted]
        BY <2>2 DEF IssueToken
  <2>3. NotCounted \in [at : {"idle", "counted", "allowed", "registered"}, within : BOOLEAN]
        BY DEF NotCounted
  <2>4. CASE \E s \in FleetServers : IssueToken(w, s)  BY <1>0, <2>2, <2>3, <2>4
  <2> QED  BY <2>1, <2>4
<1>2. ASSUME NEW k \in Tokens, token' = [token EXCEPT ![w] = k],
             k.shared => currentVersion >= 1,
             k.shared /\ currentVersion = 1 => k.key = keyVersion[1]
      PROVE  HandlersInv'
  <2>1. token' \in [TokenWorkers -> Tokens]  BY <1>0, <1>2
  <2>2. HandlersTypeOK' /\ HandedInv'
        BY <1>1, <2>1 DEF HandlersInv, HandlersTypeOK, HandedInv, Tokens, keyVars, claimHandlerVars
  <2>3. KeyInv'  BY <1>0, <1>1, <1>2 DEF HandlersInv, KeyInv, keyVars
  <2> QED  BY <2>2, <2>3 DEF HandlersInv
<1>3. CASE TokenExpires(w)
  <2>1. NoToken \in Tokens /\ NoToken.shared = FALSE  BY KeyTypes DEF NoToken, Tokens
  <2> QED  BY <1>2, <1>3, <2>1 DEF TokenExpires
<1>4. ASSUME NEW s \in FleetServers, IssueToken(w, s) PROVE HandlersInv'
  <2> DEFINE k == [key |-> fleetServer[s].key, shared |-> fleetServer[s].shared, expired |-> FALSE]
  <2>1. k \in Tokens /\ k.shared = fleetServer[s].shared /\ k.key = fleetServer[s].key
        BY <1>0 DEF Tokens, Servers
  <2>2. token' = [token EXCEPT ![w] = k]  BY <1>4 DEF IssueToken
  <2> HIDE DEF k
  <2> QED  BY <1>2, <2>1, <2>2 DEF HandlersInv, KeyInv
<1> QED  BY <1>3, <1>4

(* A step of the claims that leaves registration and keys alone.           *)
LEMMA ClaimKeeps ==
  ASSUME HandlersInv, UNCHANGED <<keyVars, registerVars>>,
         issueState' \in [FleetIssues -> {"open", "claimed"}],
         handed' \in [FleetIssues -> SUBSET TokenWorkers],
         claimCall' \in [TokenWorkers -> [at : {"idle", "trying"}, todo : SUBSET FleetIssues]],
         rpcFaults' \in 0..MaxRPCFaults, HandedInv'
  PROVE  HandlersInv'
BY DEF HandlersInv, HandlersTypeOK, KeyInv, keyVars, registerVars

(* The daemon takes an issue that was open: it is nobody's before, and     *)
(* this worker's or, when the answer is lost, nobody's after.              *)
LEMMA TakeFacts ==
  ASSUME HandlersInv, NEW i \in FleetIssues, issueState[i] = "open", Take(i),
         NEW w \in TokenWorkers, Hand(i, w) \/ UNCHANGED handed
  PROVE  /\ issueState' \in [FleetIssues -> {"open", "claimed"}]
         /\ handed' \in [FleetIssues -> SUBSET TokenWorkers]
         /\ HandedInv'
<1>1. issueState \in [FleetIssues -> {"open", "claimed"}]
      /\ handed \in [FleetIssues -> SUBSET TokenWorkers] /\ handed[i] = {}
      BY DEF HandlersInv, HandlersTypeOK, HandedInv
<1>2. issueState' = [issueState EXCEPT ![i] = "claimed"]  BY DEF Take
<1>3. handed' = [handed EXCEPT ![i] = {w}] \/ handed' = handed
      BY <1>1 DEF Hand
<1> QED  BY <1>1, <1>2, <1>3 DEF HandlersInv, HandedInv

(* Requests for work, and issues that are opened again.                    *)
LEMMA ClaimsStepInv ==
  ASSUME HandlersInv,
         \/ \E w \in TokenWorkers :
              \/ ReadyIssues(w) \/ NothingLeft(w)
              \/ \E i \in FleetIssues :
                   TryClaimIssue(w, i) \/ TryClaimFails(w, i) \/ ClaimSpecificIssue(w, i)
         \/ \E i \in FleetIssues : Reopen(i)
  PROVE  HandlersInv'
<1> DEFINE Claims == [at : {"idle", "trying"}, todo : SUBSET FleetIssues]
<1>0. /\ claimCall \in [TokenWorkers -> Claims] /\ NoClaim \in Claims
      /\ rpcFaults \in 0..MaxRPCFaults
      /\ issueState \in [FleetIssues -> {"open", "claimed"}]
      /\ handed \in [FleetIssues -> SUBSET TokenWorkers] /\ HandedInv
      BY DEF HandlersInv, HandlersTypeOK, NoClaim
<1>a. rpcFaults < MaxRPCFaults /\ rpcFaults' = rpcFaults + 1 => rpcFaults' \in 0..MaxRPCFaults
      BY <1>0, HandlersAssumption
<1>b. ASSUME NEW w \in TokenWorkers, NEW i, EndClaim(w) \/ TryNext(w, i)
      PROVE  claimCall' \in [TokenWorkers -> Claims]
  <2>1. CASE EndClaim(w)  BY <1>0, <2>1 DEF EndClaim
  <2>2. CASE TryNext(w, i)
        BY <1>0, <2>2 DEF TryNext
  <2> QED  BY <1>b, <2>1, <2>2
<1>1. ASSUME NEW w \in TokenWorkers, ReadyIssues(w) PROVE HandlersInv'
  <2> DEFINE open == {i \in FleetIssues : issueState[i] = "open"}
  <2>1. claimCall' = [claimCall EXCEPT ![w] = [at |-> "trying", todo |-> open]]
        /\ UNCHANGED <<keyVars, registerVars>> /\ UNCHANGED <<issueState, handed, rpcFaults>>
        BY <1>1 DEF ReadyIssues
  <2>2. open \in SUBSET FleetIssues  OBVIOUS
  <2> HIDE DEF open
  <2>3. claimCall' \in [TokenWorkers -> Claims]  BY <1>0, <2>1, <2>2
  <2>4. HandedInv'  BY <1>0, <2>1 DEF HandedInv
  <2> QED  BY <1>0, <2>1, <2>3, <2>4, ClaimKeeps
<1>2. ASSUME NEW w \in TokenWorkers, NothingLeft(w) PROVE HandlersInv'
  <2>1. UNCHANGED <<keyVars, registerVars>> /\ UNCHANGED <<issueState, handed, rpcFaults>>
        /\ EndClaim(w)
        BY <1>2 DEF NothingLeft
  <2>2. HandedInv'  BY <1>0, <2>1 DEF HandedInv
  <2> QED  BY <1>0, <1>b, <2>1, <2>2, ClaimKeeps
<1>3. ASSUME NEW w \in TokenWorkers, NEW i \in FleetIssues, TryClaimIssue(w, i) PROVE HandlersInv'
  <2>1. UNCHANGED <<keyVars, registerVars>> /\ rpcFaults' = rpcFaults  BY <1>3 DEF TryClaimIssue
  <2>2. CASE issueState[i] = "open"
    <3>1. Take(i) /\ Hand(i, w) /\ EndClaim(w)  BY <1>3, <2>2 DEF TryClaimIssue
    <3> QED  BY <1>0, <1>b, <2>1, <2>2, <3>1, TakeFacts, ClaimKeeps
  <2>3. CASE issueState[i] # "open"
    <3>1. TryNext(w, i) /\ UNCHANGED <<issueState, handed>>  BY <1>3, <2>3 DEF TryClaimIssue
    <3>2. HandedInv'  BY <1>0, <3>1 DEF HandedInv
    <3> QED  BY <1>0, <1>b, <2>1, <3>1, <3>2, ClaimKeeps
  <2> QED  BY <2>2, <2>3
<1>4. ASSUME NEW w \in TokenWorkers, NEW i \in FleetIssues, TryClaimFails(w, i) PROVE HandlersInv'
  <2>1. /\ UNCHANGED <<keyVars, registerVars>> /\ UNCHANGED handed
        /\ rpcFaults < MaxRPCFaults /\ rpcFaults' = rpcFaults + 1
        /\ issueState[i] = "open" /\ TryNext(w, i) /\ (Take(i) \/ UNCHANGED issueState)
        BY <1>4 DEF TryClaimFails
  <2>2. CASE Take(i)  BY <1>a, <1>b, <2>1, <2>2, TakeFacts, ClaimKeeps
  <2>3. CASE UNCHANGED issueState
    <3>1. HandedInv'  BY <1>0, <2>1, <2>3 DEF HandedInv
    <3> QED  BY <1>0, <1>a, <1>b, <2>1, <2>3, <3>1, ClaimKeeps
  <2> QED  BY <2>1, <2>2, <2>3
<1>5. ASSUME NEW w \in TokenWorkers, NEW i \in FleetIssues, ClaimSpecificIssue(w, i)
      PROVE  HandlersInv'
  <2>1. /\ UNCHANGED <<keyVars, registerVars>> /\ claimCall' = claimCall
        /\ issueState[i] = "open" /\ Take(i) /\ (Hand(i, w) \/ UNCHANGED handed)
        /\ rpcFaults' = rpcFaults \/ (rpcFaults < MaxRPCFaults /\ rpcFaults' = rpcFaults + 1)
        BY <1>5 DEF ClaimSpecificIssue
  <2> QED  BY <1>0, <1>a, <2>1, TakeFacts, ClaimKeeps
<1>6. ASSUME NEW i \in FleetIssues, Reopen(i) PROVE HandlersInv'
  <2>1. /\ issueState' = [issueState EXCEPT ![i] = "open"]
        /\ handed' = [handed EXCEPT ![i] = {}]
        /\ UNCHANGED <<keyVars, registerVars>> /\ UNCHANGED <<claimCall, rpcFaults>>
        BY <1>6 DEF Reopen
  <2>2. HandedInv'  BY <1>0, <2>1 DEF HandedInv
  <2> QED  BY <1>0, <2>1, <2>2, ClaimKeeps
<1> QED  BY <1>1, <1>2, <1>3, <1>4, <1>5, <1>6

(* Every step of servers and workers keeps the invariant.                  *)
LEMMA HandlersStepInv == HandlersInv /\ [KeysNext \/ ClaimsNext]_handlerVars => HandlersInv'
<1>1. ASSUME HandlersInv, UNCHANGED handlerVars PROVE HandlersInv'
      BY <1>1 DEF handlerVars, keyVars, registerVars, claimHandlerVars, HandlersInv,
                  HandlersTypeOK, KeyInv, HandedInv
<1>2. ASSUME HandlersInv, WindowPasses PROVE HandlersInv'
      BY <1>2, RegisterKeeps, HandlersAssumption
         DEF WindowPasses, HandlersInv, HandlersTypeOK
<1>3. ASSUME HandlersInv, KeysNext PROVE HandlersInv'
      BY <1>2, <1>3, GetOrCreateInv, TokenStepInv, RegisterStepInv, ServerStepInv, RotateInv
         DEF KeysNext, RegisterNext
<1>4. ASSUME HandlersInv, ClaimsNext PROVE HandlersInv'
      BY <1>4, RegisterStepInv, ClaimsStepInv DEF ClaimsNext
<1> QED  BY <1>1, <1>3, <1>4

(* Keys, registrations, tokens and claims keep their types.                *)
THEOREM HandlersTypeCorrect == HandlersSpec => []HandlersTypeOK
<1>1. HandlersInv => HandlersTypeOK  BY DEF HandlersInv
<1> QED  BY <1>1, HandlersInitInv, HandlersStepInv, PTL DEF HandlersSpec

(* GetOrCreateSigningKey under any number of servers that start, fail over *)
(* to a key of their own and restart in any order: until a rotation, a     *)
(* token signed with the key of Redis is good on every server that has it. *)
THEOREM OneSigningKey == HandlersSpec => []TokensValidateOnEveryServer
<1>1. ASSUME HandlersInv PROVE TokensValidateOnEveryServer
  <2> SUFFICES ASSUME currentVersion <= 1, NEW w \in TokenWorkers, NEW s \in FleetServers,
                      ~token[w].expired, token[w].shared, fleetServer[s].shared
               PROVE  ValidateWorkerToken(token[w], s)
      BY DEF TokensValidateOnEveryServer
  <2>1. currentVersion \in 0..(MaxRotations + 1)  BY <1>1 DEF HandlersInv, HandlersTypeOK
  <2>2. currentVersion >= 1  BY <1>1 DEF HandlersInv, KeyInv
  <2>3. currentVersion = 1  BY <2>1, <2>2, HandlersAssumption
  <2> QED  BY <1>1, <2>3 DEF HandlersInv, KeyInv, ValidateWorkerToken
<1> QED  BY <1>1, HandlersInitInv, HandlersStepInv, PTL DEF HandlersSpec

(* handleFleetClaim and claimSpecificIssue, whatever Ready listed before   *)
(* and whichever answers are lost: an issue is given to one worker until   *)
(* it is opened again.                                                     *)
THEOREM IssuesAreHandedOnce == HandlersSpec => []HandedOnce
<1>1. ASSUME HandlersInv PROVE HandedOnce
  <2> SUFFICES ASSUME NEW i \in FleetIssues PROVE Cardinality(handed[i]) <= 1
      BY DEF HandedOnce
  <2>1. \A v, w \in handed[i] : v = w  BY <1>1 DEF HandlersInv, HandedInv
  <2>2. CASE handed[i] = {}  BY <2>2, FS_EmptySet
  <2>3. CASE handed[i] # {}
    <3>1. PICK w : handed[i] = {w}  BY <2>1, <2>3
    <3>2. Cardinality({w}) = 1  BY FS_Singleton
    <3> QED  BY <3>1, <3>2
  <2> QED  BY <2>2, <2>3
<1> QED  BY <1>1, HandlersInitInv, HandlersStepInv, PTL DEF HandlersSpec
=============================================================================

----------------------------- MODULE FleetStore -----------------------------
(***************************************************************************)
(* The fleet store of the web UI server: task claims and the sorted set of *)
(* claim times in Redis, the done handler that ends a claim, and the       *)
(* enforcer that ends the ones that last too long.                         *)
(*                                                                         *)
(* Every Redis command is a step of its own, so that requests, their       *)
(* retries, the enforcer, expiring keys and a crash may come between two   *)
(* of them.  The claim handler of this commit claims from beads only: the  *)
(* calls of the store that make a claim are its exported operations, in    *)
(* the order its comments give (TryClaim, RecordWorkerClaim,               *)
(* ExtendClaimTTL).                                                        *)
(***************************************************************************)
EXTENDS Naturals, FiniteSets

CONSTANTS
  FleetWorkers, FleetTasks,
  FleetCalls,       \* requests under way at a time
  MaxStoreFaults    \* commands that fail or whose server dies

Nobody == "nobody"

ASSUME StoreAssumption ==
  Nobody \notin FleetWorkers \cup FleetTasks /\ MaxStoreFaults \in Nat

VARIABLES
  claimOwner,    \* fleet:tasks:claimed:<task>
  extended,      \* claims whose TTL outlives the task timeout
  claimTime,     \* score in the sorted set: "none", "fresh", "old" (before the cutoff)
  workerClaim,   \* fleet:worker:claim:<worker>
  taskResult,    \* fleet:task:result:<task>
  storeCall,     \* per request: where it is, its worker and its task
  scan,          \* the enforcer: where it is, tasks to look up, tasks found, current
  claimEnd,      \* history: what ended the last claim of the task
  storeFaults

claimVars == <<claimOwner, extended, claimTime, claimEnd>>
storeVars == <<claimVars, workerClaim, taskResult, storeCall, scan,
               storeFaults>>

AtRest == [at |-> "idle", worker |-> Nobody, task |-> Nobody]
Waiting == [at |-> "wait", todo |-> {}, found |-> {}, task |-> Nobody]

StoreInit ==
  /\ claimOwner = [t \in FleetTasks |-> Nobody]
  /\ extended = {}
  /\ claimTime = [t \in FleetTasks |-> "none"]
  /\ workerClaim = [w \in FleetWorkers |-> Nobody]
  /\ taskResult = [t \in FleetTasks |-> Nobody]
  /\ storeCall = [c \in FleetCalls |-> AtRest]
  /\ scan = Waiting
  /\ claimEnd = [t \in FleetTasks |-> "none"]
  /\ storeFaults = 0

StoreTypeOK ==
  /\ claimOwner \in [FleetTasks -> FleetWorkers \cup {Nobody}]
  /\ extended \subseteq FleetTasks
  /\ claimTime \in [FleetTasks -> {"none", "fresh", "old"}]
  /\ workerClaim \in [FleetWorkers -> FleetTasks \cup {Nobody}]
  /\ taskResult \in [FleetTasks -> FleetWorkers \cup {Nobody}]
  /\ storeCall \in [FleetCalls ->
       [at : {"idle", "zadd", "cache", "extend", "claim", "record", "release",
              "zrem", "clear"},
        worker : FleetWorkers \cup {Nobody}, task : FleetTasks \cup {Nobody}]]
  /\ scan \in [at : {"wait", "look", "orphan", "timedout"}, todo : SUBSET FleetTasks,
               found : SUBSET FleetTasks, task : FleetTasks \cup {Nobody}]
  /\ claimEnd \in [FleetTasks -> {"none", "done", "timeout", "expired"}]
  /\ storeFaults \in 0..MaxStoreFaults

Step(c, at) == storeCall' = [storeCall EXCEPT ![c].at = at]
Enter(c, at, w, t) == storeCall' = [storeCall EXCEPT ![c] = [at |-> at, worker |-> w, task |-> t]]
Return(c) == storeCall' = [storeCall EXCEPT ![c] = AtRest]
At(c, at) == storeCall[c].at = at

-----------------------------------------------------------------------------
\* Making a claim.

\* claimLua: free, or held by the same worker, whose TTL starts again.
TryClaim(c, w, t) ==
  /\ At(c, "idle")
  /\ claimOwner[t] \in {Nobody, w}
  /\ claimOwner' = [claimOwner EXCEPT ![t] = w]
  /\ extended' = extended \ {t}
  /\ claimEnd' = [claimEnd EXCEPT ![t] = "none"]
  /\ Enter(c, "zadd", w, t)
  /\ UNCHANGED <<claimTime, workerClaim, taskResult, scan, storeFaults>>

RecordClaimTime(c) ==
  /\ At(c, "zadd")
  /\ claimTime' = [claimTime EXCEPT ![storeCall[c].task] = "fresh"]
  /\ Step(c, "cache")
  /\ UNCHANGED <<claimOwner, extended, claimEnd, workerClaim, taskResult,
                 scan, storeFaults>>

RecordWorkerClaim(c) ==
  /\ At(c, "cache")
  /\ workerClaim' = [workerClaim EXCEPT ![storeCall[c].worker] = storeCall[c].task]
  /\ Step(c, "extend")
  /\ UNCHANGED <<claimVars, taskResult, scan, storeFaults>>

\* EXPIRE does not ask whose claim it is; without the key it is an error.
ExtendClaimTTL(c) ==
  /\ At(c, "extend")
  /\ LET t == storeCall[c].task IN
       extended' = IF claimOwner[t] = Nobody THEN extended ELSE extended \cup {t}
  /\ Return(c)
  /\ UNCHANGED <<claimOwner, claimTime, claimEnd, workerClaim, taskResult,
                 scan, storeFaults>>

-----------------------------------------------------------------------------
\* Ending a claim: handleFleetDone.

\* The worker is registered; an unknown one is a 404 and touches nothing.
GetWorker(c, w) ==
  /\ At(c, "idle")
  /\ Enter(c, "claim", w, Nobody)
  /\ UNCHANGED <<claimVars, workerClaim, taskResult, scan, storeFaults>>

\* Without a cached claim the answer is 200: the task was done before.
GetWorkerClaim(c) ==
  /\ At(c, "claim")
  /\ LET w == storeCall[c].worker IN
       IF workerClaim[w] = Nobody THEN Return(c) ELSE Enter(c, "record", w, workerClaim[w])
  /\ UNCHANGED <<claimVars, workerClaim, taskResult, scan, storeFaults>>

\* Mutant: the result is written last.
RecordsNothingYet(c) ==
  /\ At(c, "record")
  /\ Step(c, "release")
  /\ UNCHANGED <<claimVars, workerClaim, taskResult, scan, storeFaults>>

RecordTaskResult(c) ==
  /\ At(c, "record")
  /\ taskResult' = [taskResult EXCEPT ![storeCall[c].task] = storeCall[c].worker]
  /\ Step(c, "release")
  /\ UNCHANGED <<claimVars, workerClaim, scan, storeFaults>>

\* ReleaseClaim's DEL: whoever holds the claim by now.
DeleteClaim(t, why) ==
  /\ claimOwner' = [claimOwner EXCEPT ![t] = Nobody]
  /\ extended' = extended \ {t}
  /\ claimEnd' = [claimEnd EXCEPT ![t] = why]

ReleaseClaim(c) ==
  /\ At(c, "release")
  /\ DeleteClaim(storeCall[c].task, "done")
  /\ Step(c, "zrem")
  /\ UNCHANGED <<claimTime, workerClaim, taskResult, scan, storeFaults>>

ClearClaimTime(c) ==
  /\ At(c, "zrem")
  /\ claimTime' = [claimTime EXCEPT ![storeCall[c].task] = "none"]
  /\ Step(c, "clear")
  /\ UNCHANGED <<claimOwner, extended, claimEnd, workerClaim, taskResult,
                 scan, storeFaults>>

ClearWorkerClaim(c) ==
  /\ At(c, "clear")
  /\ workerClaim' = [workerClaim EXCEPT ![storeCall[c].worker] = Nobody]
  /\ Return(c)
  /\ UNCHANGED <<claimVars, taskResult, scan, storeFaults>>

\* A command fails.  The best-effort ones are logged and skipped, the others
\* end the request with a 500; a server that dies ends it in any case.
CommandFails(c) ==
  /\ ~At(c, "idle") /\ storeFaults < MaxStoreFaults
  /\ storeFaults' = storeFaults + 1
  /\ \/ At(c, "zadd") /\ Step(c, "cache")
     \/ At(c, "zrem") /\ Step(c, "clear")
     \/ Return(c)
  /\ UNCHANGED <<claimVars, workerClaim, taskResult, scan>>

-----------------------------------------------------------------------------
\* The enforcer.

\* checkTimeouts on a tick: the members of the sorted set before the cutoff.
FindTimedOutTasks ==
  /\ scan.at = "wait"
  /\ \E t \in FleetTasks : claimTime[t] = "old"
  /\ scan' = [Waiting EXCEPT !.at = "look",
                             !.todo = {t \in FleetTasks : claimTime[t] = "old"}]
  /\ UNCHANGED <<claimVars, workerClaim, taskResult, storeCall, storeFaults>>

\* GET of the owner: a timed-out task, or a member whose claim has expired.
LookUpOwner ==
  /\ scan.at = "look"
  /\ \E t \in scan.todo :
       scan' = IF claimOwner[t] = Nobody
               THEN [scan EXCEPT !.at = "orphan", !.todo = @ \ {t}, !.task = t]
               ELSE [scan EXCEPT !.todo = @ \ {t}, !.found = @ \cup {t}]
  /\ UNCHANGED <<claimVars, workerClaim, taskResult, storeCall, storeFaults>>

\* Mutant: a member without a claim is passed over.
LeavesOrphanedTime ==
  /\ scan.at = "orphan"
  /\ scan' = [scan EXCEPT !.at = "look", !.task = Nobody]
  /\ UNCHANGED <<claimVars, workerClaim, taskResult, storeCall, storeFaults>>

CleanUpOrphanedTime ==
  /\ scan.at = "orphan"
  /\ claimTime' = [claimTime EXCEPT ![scan.task] = "none"]
  /\ scan' = [scan EXCEPT !.at = "look", !.task = Nobody]
  /\ UNCHANGED <<claimOwner, extended, claimEnd, workerClaim, taskResult,
                 storeCall, storeFaults>>

\* handleTimeout of each task found, after the lookups: no callback is set,
\* and the claim is released whoever holds it by now.
HandleTimeout ==
  /\ scan.at = "look" /\ scan.todo = {}
  /\ IF scan.found = {}
     THEN scan' = Waiting /\ UNCHANGED <<claimOwner, extended, claimEnd>>
     ELSE \E t \in scan.found :
            /\ DeleteClaim(t, "timeout")
            /\ scan' = [scan EXCEPT !.at = "timedout", !.found = @ \ {t}, !.task = t]
  /\ UNCHANGED <<claimTime, workerClaim, taskResult, storeCall, storeFaults>>

ForgetTimedOut ==
  /\ scan.at = "timedout"
  /\ claimTime' = [claimTime EXCEPT ![scan.task] = "none"]
  /\ scan' = [scan EXCEPT !.at = "look", !.task = Nobody]
  /\ UNCHANGED <<claimOwner, extended, claimEnd, workerClaim, taskResult,
                 storeCall, storeFaults>>

\* A failing command passes to the next task; Stop, a crash or a failed query
\* ends the check.
EnforcerFails ==
  /\ scan.at # "wait" /\ storeFaults < MaxStoreFaults
  /\ storeFaults' = storeFaults + 1
  /\ \/ scan' = Waiting
     \/ scan.at \in {"orphan", "timedout"} /\ scan' = [scan EXCEPT !.at = "look", !.task = Nobody]
  /\ UNCHANGED <<claimVars, workerClaim, taskResult, storeCall>>

-----------------------------------------------------------------------------
\* Time.  A claim that is not extended ends by its TTL of five minutes, so
\* the cutoff of thirty passes a held claim only when it was extended.
ClaimExpires(t) ==
  /\ claimOwner[t] # Nobody
  /\ DeleteClaim(t, "expired")
  /\ UNCHANGED <<claimTime, workerClaim, taskResult, storeCall, scan, storeFaults>>

ClaimTimeAges(t) ==
  /\ claimTime[t] = "fresh" /\ (claimOwner[t] = Nobody \/ t \in extended)
  /\ claimTime' = [claimTime EXCEPT ![t] = "old"]
  /\ UNCHANGED <<claimOwner, extended, claimEnd, workerClaim, taskResult,
                 storeCall, scan, storeFaults>>

WorkerClaimExpires(w) ==
  /\ workerClaim[w] # Nobody
  /\ workerClaim' = [workerClaim EXCEPT ![w] = Nobody]
  /\ UNCHANGED <<claimVars, taskResult, storeCall, scan, storeFaults>>

Enforcer == FindTimedOutTasks \/ LookUpOwner \/ CleanUpOrphanedTime \/ HandleTimeout
            \/ ForgetTimedOut

StoreNext ==
  \/ \E w \in FleetWorkers : WorkerClaimExpires(w)
  \/ \E c \in FleetCalls, w \in FleetWorkers :
       GetWorker(c, w) \/ \E t \in FleetTasks : TryClaim(c, w, t)
  \/ \E c \in FleetCalls :
       \/ RecordClaimTime(c) \/ RecordWorkerClaim(c) \/ ExtendClaimTTL(c)
       \/ GetWorkerClaim(c) \/ RecordTaskResult(c) \/ ReleaseClaim(c)
       \/ ClearClaimTime(c) \/ ClearWorkerClaim(c) \/ CommandFails(c)
  \/ Enforcer \/ EnforcerFails
  \/ \E t \in FleetTasks : ClaimExpires(t) \/ ClaimTimeAges(t)

StoreSpec == StoreInit /\ [][StoreNext]_storeVars

\* The ticker fires for as long as the server runs, and time passes.
StoreFairness ==
  WF_storeVars(Enforcer) /\ \A t \in FleetTasks : WF_storeVars(ClaimTimeAges(t))

-----------------------------------------------------------------------------
\* handleFleetDone records the result "before releasing (ensures we capture
\* outcome)": whatever fails or dies between two commands, and whoever has
\* claimed in between, a task released by a done request has a result.
NoOutcomeLost ==
  \A t \in FleetTasks : claimEnd[t] = "done" => taskResult[t] # Nobody

\* FindTimedOutTasks sweeps the sorted set: the time of a claim that expired
\* is removed in the end, unless the task is claimed again.
ClaimTimesAreCleaned ==
  \A t \in FleetTasks :
    (claimOwner[t] = Nobody /\ claimTime[t] # "none")
      ~> (claimOwner[t] # Nobody \/ claimTime[t] = "none")
=============================================================================

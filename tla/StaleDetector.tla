--------------------------- MODULE StaleDetector ----------------------------
(***************************************************************************)
(* Fleet coordination through Redis (package kv): the Lua scripts by which *)
(* workers claim, keep alive and complete tasks, key expiry, and the       *)
(* StaleDetector that every loom server runs: leader election, the scan    *)
(* for stale workers, their cleanup and the reconciliation with beads.     *)
(*                                                                         *)
(* A script or a Redis command is one step (Redis is single-threaded), and *)
(* so is a bd command.  Time passes in ticks; the workers' and the         *)
(* servers' clocks agree with Redis's.  The workers and beads are external *)
(* and modelled from how the scripts are meant to be called.               *)
(***************************************************************************)
EXTENDS Integers, FiniteSets

CONSTANTS
  Workers, Tasks, Detectors,
  None,            \* no worker, no task, no detector
  TTL,             \* DefaultTTLSeconds, in ticks
  StaleThreshold,  \* StaleDetectorConfig.StaleThreshold, in ticks
  LeaderTTL,       \* StaleDetectorConfig.LeaderTTL, in ticks
  Timely,          \* live workers send their heartbeats in time
  MaxFaults,       \* bound on failing commands and shutdowns of detectors
  Stopping,        \* the detectors whose server may shut down
  MaxCrashes,      \* bound on the workers' crashes
  Crashing,        \* the workers that may crash
  Completing       \* the workers that may complete a task

ASSUME StaleDetectorConstants ==
  /\ None \notin Workers \union Tasks \union Detectors
  /\ TTL \in Nat \ {0} /\ StaleThreshold \in Nat \ {0} /\ LeaderTTL \in Nat \ {0}
  /\ Timely \in BOOLEAN
  /\ MaxFaults \in Nat /\ MaxCrashes \in Nat
  /\ Stopping \subseteq Detectors
  /\ Crashing \subseteq Workers /\ Completing \subseteq Workers

VARIABLES
  owner,    \* task -> value of its owner key, None without a key
  ownerTTL, \* task -> ticks until that key expires
  session,  \* worker -> its state hash: "none", "idle" or "working"
  taskOf,   \* worker -> the task_id field, None without one
  stateTTL, \* worker -> ticks until the state hash expires
  age,      \* worker -> ticks since its ZSET score, NotActive without one
  leader,   \* [id, ttl]: the leader key
  serving,  \* the workers that run and have claimed since they started; a
            \* rejected heartbeat or a crash takes a worker out
  doing,    \* worker -> the task it believes it owns
  bead,     \* task -> its status in beads
  due,      \* detector -> its ticker has fired (a channel of capacity 1)
  pc,       \* control location of each detector's runCycle
  toRead,   \* detector -> workers whose state it still has to read
  found,    \* detector -> [worker, task] it still has to clean up
  current,  \* detector -> the one it is cleaning up
  orphaned, \* detector -> tasks it still has to reconcile
  faults,   \* failures and shutdowns so far
  crashes,  \* crashes of workers so far
  slow,     \* a cycle has taken longer than a tick
  caught,   \* history: the serving workers whose last claim met a cleanup of theirs
  dropped   \* history: the tasks so claimed, or replaced in a session by
            \* the next task its worker claimed when it came back

redis == <<owner, ownerTTL, session, taskOf, stateTTL, age>>
fleet == <<serving, doing, crashes, caught, dropped>>
lists == <<toRead, found, current, orphaned>>
timer == <<due, faults, slow>>
vars == <<owner, ownerTTL, session, taskOf, stateTTL, age, leader, serving, doing,
          bead, due, pc, toRead, found, current, orphaned, faults, slow, crashes,
          caught, dropped>>

NotActive == -1
Nobody == [worker |-> None, task |-> None]
Stale == [worker : Workers, task : Tasks \union {None}]

Locations == {"asleep", "elect", "scan", "read", "clean", "state", "zset",
              "reconcile", "renew", "release", "delete", "stopped"}

Init ==
  /\ owner = [t \in Tasks |-> None] /\ ownerTTL = [t \in Tasks |-> 0]
  /\ session = [w \in Workers |-> "none"] /\ taskOf = [w \in Workers |-> None]
  /\ stateTTL = [w \in Workers |-> 0] /\ age = [w \in Workers |-> NotActive]
  /\ leader = [id |-> None, ttl |-> 0]
  /\ serving = {} /\ doing = [w \in Workers |-> None]
  /\ bead = [t \in Tasks |-> "open"]
  /\ due = [d \in Detectors |-> FALSE]
  /\ pc = [d \in Detectors |-> "asleep"]
  /\ toRead = [d \in Detectors |-> {}] /\ found = [d \in Detectors |-> {}]
  /\ current = [d \in Detectors |-> Nobody]
  /\ orphaned = [d \in Detectors |-> {}]
  /\ faults = 0 /\ slow = FALSE
  /\ crashes = 0 /\ caught = {} /\ dropped = {}

-----------------------------------------------------------------------------
(* The workers' scripts.                                                   *)

(* The session of w becomes s with task t, its TTL and its score are new.  *)
Touch(w, s, t) ==
  /\ session' = [session EXCEPT ![w] = s]
  /\ taskOf' = [taskOf EXCEPT ![w] = t]
  /\ stateTTL' = [stateTTL EXCEPT ![w] = TTL]
  /\ age' = [age EXCEPT ![w] = 0]

(* claimScript refuses a task that another worker owns.                    *)
MayClaim(w, t) == owner[t] \in {None, w}

(* The workers whose cleanup some detector has begun or has listed.        *)
Suspects(d) ==
  toRead[d] \union {r.worker : r \in found[d] \union {current[d]}}
Suspected(w) == \E d \in Detectors : w \in Suspects(d)

(* The task whose place in the session of w another task takes.            *)
Replaced(w, t) == {u \in Tasks \ {t} : u = taskOf[w] /\ owner[u] \in {None, w}}

(* claimScript, called by a worker without a task for any task not yet     *)
(* closed (the script does not look at beads), which the worker then marks *)
(* in_progress; or called again by the owner.  The worker may have just    *)
(* started, also after a crash: then its ID is the same as before, and the *)
(* session, the score and the owner key of before may still be there, and  *)
(* a detector may be about to clean them up.                               *)
ClaimTask(w, t) ==
  /\ doing[w] \in {None, t} /\ bead[t] # "closed"
  /\ MayClaim(w, t)
  /\ owner' = [owner EXCEPT ![t] = w]
  /\ ownerTTL' = [ownerTTL EXCEPT ![t] = TTL]
  /\ Touch(w, "working", t)
  /\ serving' = serving \union {w}
  /\ doing' = [doing EXCEPT ![w] = t]
  /\ bead' = [bead EXCEPT ![t] = "in_progress"]
  /\ caught' = IF Suspected(w) THEN caught \union {w} ELSE caught \ {w}
  /\ dropped' = (dropped \ {t}) \union Replaced(w, t)
                  \union (IF Suspected(w) THEN {t} ELSE {})
  /\ UNCHANGED <<leader, pc, lists, timer, crashes>>

(* heartbeatScript reports no_active_session or ownership_lost.            *)
Rejected(w) == session[w] = "none" \/ (taskOf[w] # None /\ owner[taskOf[w]] \notin {None, w})

(* heartbeatScript, sent by workers with and without a task once they have *)
(* claimed.  A worker whose heartbeat is rejected gives its task up and    *)
(* has to claim again.                                                     *)
Heartbeat(w) ==
  LET t == taskOf[w] IN
  /\ w \in serving
  /\ IF Rejected(w)
     THEN /\ doing' = [doing EXCEPT ![w] = None]
          /\ serving' = serving \ {w} /\ caught' = caught \ {w}
          /\ UNCHANGED redis
     ELSE /\ ownerTTL' = IF t # None /\ owner[t] = w
                         THEN [ownerTTL EXCEPT ![t] = TTL] ELSE ownerTTL
          /\ Touch(w, session[w], t)
          /\ UNCHANGED <<owner, serving, doing, caught>>
  /\ UNCHANGED <<leader, bead, pc, lists, timer, crashes, dropped>>

(* completeScript; the worker closes the task in beads when it succeeds.   *)
CompleteTask(w) ==
  LET t == doing[w] IN
  /\ w \in serving /\ w \in Completing /\ t # None
  /\ \/ /\ owner[t] = w
        /\ owner' = [owner EXCEPT ![t] = None]
        /\ ownerTTL' = [ownerTTL EXCEPT ![t] = 0]
        /\ Touch(w, "idle", None)
        /\ bead' = [bead EXCEPT ![t] = "closed"]
     \/ owner[t] # w /\ UNCHANGED <<redis, bead>>
  /\ doing' = [doing EXCEPT ![w] = None]
  /\ UNCHANGED <<leader, serving, pc, lists, timer, crashes, caught, dropped>>

Crash(w) ==
  /\ w \in serving /\ w \in Crashing /\ crashes < MaxCrashes
  /\ crashes' = crashes + 1
  /\ serving' = serving \ {w} /\ caught' = caught \ {w}
  /\ doing' = [doing EXCEPT ![w] = None]
  /\ UNCHANGED <<redis, leader, bead, pc, lists, timer, dropped>>

-----------------------------------------------------------------------------
(* Time: keys expire, scores age and the detectors' tickers fire, a tick   *)
(* being a CheckInterval.                                                  *)

Decrement(n) == IF n > 0 THEN n - 1 ELSE 0

Tick ==
  /\ Timely => \A w \in serving : session[w] # "none" /\ age[w] # NotActive =>
                  age[w] + 1 < StaleThreshold /\ stateTTL[w] > 1
  /\ slow' = (slow \/ \E d \in Detectors : due[d] \/ pc[d] \notin {"asleep", "stopped"})
  /\ ownerTTL' = [t \in Tasks |-> Decrement(ownerTTL[t])]
  /\ owner' = [t \in Tasks |-> IF ownerTTL[t] <= 1 THEN None ELSE owner[t]]
  /\ stateTTL' = [w \in Workers |-> Decrement(stateTTL[w])]
  /\ session' = [w \in Workers |-> IF stateTTL[w] <= 1 THEN "none" ELSE session[w]]
  /\ taskOf' = [w \in Workers |-> IF stateTTL[w] <= 1 THEN None ELSE taskOf[w]]
  /\ age' = [w \in Workers |-> IF age[w] \in 0..(StaleThreshold - 1)
                               THEN age[w] + 1 ELSE age[w]]
  /\ leader' = [id |-> IF leader.ttl <= 1 THEN None ELSE leader.id,
                ttl |-> Decrement(leader.ttl)]
  /\ due' = [d \in Detectors |-> pc[d] # "stopped"]
  /\ UNCHANGED <<fleet, bead, pc, lists, faults>>

-----------------------------------------------------------------------------
(* The detector: runCycle.                                                 *)

Goto(d, l) == pc' = [pc EXCEPT ![d] = l]

(* tryAcquireLeadership: SET NX, and GET when the key exists.              *)
SetLeaderKey(d) ==
  /\ pc[d] = "asleep" /\ due[d]
  /\ due' = [due EXCEPT ![d] = FALSE]
  /\ \/ /\ leader.id = None
        /\ leader' = [id |-> d, ttl |-> LeaderTTL]
        /\ Goto(d, "scan")
     \/ leader.id # None /\ Goto(d, "elect") /\ UNCHANGED leader
  /\ UNCHANGED <<redis, fleet, bead, lists, faults, slow>>

GetLeaderKey(d) ==
  /\ pc[d] = "elect"
  /\ Goto(d, IF leader.id = d THEN "scan" ELSE "asleep")
  /\ UNCHANGED <<redis, leader, fleet, bead, lists, timer>>

(* GetStaleWorkers: ZRANGEBYSCORE up to now - StaleThreshold.              *)
AnyAge == {w \in Workers : age[w] # NotActive}
StaleWorkers == {w \in Workers : age[w] >= StaleThreshold}

DetectStaleWorkers(d) ==
  /\ pc[d] = "scan"
  /\ toRead' = [toRead EXCEPT ![d] = StaleWorkers]
  /\ Goto(d, IF StaleWorkers = {} THEN "renew" ELSE "read")
  /\ UNCHANGED <<redis, leader, fleet, bead, found, current, orphaned, timer>>

(* GetWorkerState: the hash of a worker, empty when it has expired.        *)
GetWorkerState(d, w) ==
  /\ pc[d] = "read" /\ w \in toRead[d]
  /\ toRead' = [toRead EXCEPT ![d] = @ \ {w}]
  /\ found' = [found EXCEPT ![d] = @ \union {[worker |-> w, task |-> taskOf[w]]}]
  /\ Goto(d, IF toRead'[d] = {} THEN "clean" ELSE "read")
  /\ UNCHANGED <<redis, leader, fleet, bead, current, orphaned, timer>>

(* What follows the cleanup of one worker.                                 *)
NextWorker(d, f) ==
  IF f[d] # {} THEN "clean" ELSE IF orphaned'[d] # {} THEN "reconcile" ELSE "renew"

(* cleanupWorker, first command: cleanupOwnerScript, result ignored.       *)
DeleteTaskOwnerIfMatch(d, r) ==
  /\ pc[d] = "clean" /\ r \in found[d]
  /\ found' = [found EXCEPT ![d] = @ \ {r}]
  /\ current' = [current EXCEPT ![d] = r]
  /\ IF r.task # None /\ owner[r.task] = r.worker
     THEN /\ owner' = [owner EXCEPT ![r.task] = None]
          /\ ownerTTL' = [ownerTTL EXCEPT ![r.task] = 0]
     ELSE UNCHANGED <<owner, ownerTTL>>
  /\ Goto(d, "state")
  /\ UNCHANGED <<session, taskOf, stateTTL, age, leader, fleet, bead, toRead,
                 orphaned, timer>>

DeleteWorkerState(d) ==
  LET w == current[d].worker IN
  /\ pc[d] = "state"
  /\ session' = [session EXCEPT ![w] = "none"]
  /\ taskOf' = [taskOf EXCEPT ![w] = None]
  /\ stateTTL' = [stateTTL EXCEPT ![w] = 0]
  /\ Goto(d, "zset")
  /\ UNCHANGED <<owner, ownerTTL, age, leader, fleet, bead, lists, timer>>

(* ZREM of a worker, and the task the cleaned worker r leaves orphaned.    *)
KeepsScore(w) == age
WithoutScore(w) == [age EXCEPT ![w] = NotActive]

CollectsNoTask(r) == {}
OrphanedBy(r) == {r.task} \ {None}

RemoveActiveWorker(d) ==
  LET r == current[d] IN
  /\ pc[d] = "zset"
  /\ age' = WithoutScore(r.worker)
  /\ orphaned' = [orphaned EXCEPT ![d] = @ \union OrphanedBy(r)]
  /\ current' = [current EXCEPT ![d] = Nobody]
  /\ Goto(d, NextWorker(d, found))
  /\ UNCHANGED <<owner, ownerTTL, session, taskOf, stateTTL, leader, fleet, bead,
                 toRead, found, timer>>

(* A Redis command fails.  In the election or the scan it ends the cycle   *)
(* without a renewal; GetWorkerState skips its worker; in cleanupWorker    *)
(* the loop goes on with the next worker; a failed EXPIRE is logged.       *)
AbandonCycle(d) ==
  /\ (due[d] /\ pc[d] = "asleep") \/ pc[d] \in {"elect", "scan", "renew"}
  /\ Goto(d, "asleep")
  /\ due' = [due EXCEPT ![d] = @ /\ pc[d] # "asleep"]
  /\ UNCHANGED lists

SkipState(d, w) ==
  /\ pc[d] = "read" /\ w \in toRead[d]
  /\ toRead' = [toRead EXCEPT ![d] = @ \ {w}]
  /\ Goto(d, CASE toRead'[d] # {} -> "read"
               [] toRead'[d] = {} /\ found[d] # {} -> "clean"
               [] OTHER -> "renew")
  /\ UNCHANGED <<due, found, current, orphaned>>

SkipOwner(d, r) ==
  /\ pc[d] = "clean" /\ r.task # None
  /\ found' = [found EXCEPT ![d] = @ \ {r}]
  /\ UNCHANGED orphaned
  /\ Goto(d, NextWorker(d, found'))
  /\ UNCHANGED <<due, toRead, current>>

SkipCleanup(d) ==
  /\ pc[d] \in {"state", "zset"}
  /\ current' = [current EXCEPT ![d] = Nobody]
  /\ UNCHANGED orphaned
  /\ Goto(d, NextWorker(d, found))
  /\ UNCHANGED <<due, toRead, found>>

CommandFails(d) ==
  /\ faults < MaxFaults
  /\ faults' = faults + 1
  /\ \/ AbandonCycle(d) \/ SkipCleanup(d)
     \/ \E w \in Workers : SkipState(d, w)
     \/ \E r \in found[d] : SkipOwner(d, r)
  /\ UNCHANGED <<redis, leader, fleet, bead, slow>>

(* Reconciler.resetTask: bd update --status open --assignee "".  A failure *)
(* is logged.                                                              *)
ResetOrphanedTask(d, t) ==
  /\ pc[d] = "reconcile" /\ t \in orphaned[d]
  /\ orphaned' = [orphaned EXCEPT ![d] = @ \ {t}]
  /\ \/ bead' = [bead EXCEPT ![t] = "open"] /\ UNCHANGED faults
     \/ faults < MaxFaults /\ faults' = faults + 1 /\ UNCHANGED bead
  /\ Goto(d, IF orphaned'[d] = {} THEN "renew" ELSE "reconcile")
  /\ UNCHANGED <<redis, leader, fleet, due, slow, toRead, found, current>>

(* renewLeadership: EXPIRE, whoever holds the key now.                     *)
RenewLeadership(d) ==
  /\ pc[d] = "renew"
  /\ leader' = IF leader.id = None THEN leader ELSE [leader EXCEPT !.ttl = LeaderTTL]
  /\ Goto(d, "asleep")
  /\ UNCHANGED <<redis, fleet, bead, lists, timer>>

(* Run's ctx is canceled, and whatever is left of the cycle fails: Run     *)
(* releases the leadership with a GET and then a DEL.  Or the server just  *)
(* dies.                                                                   *)
Shutdown(d) ==
  /\ d \in Stopping /\ pc[d] \notin {"release", "delete", "stopped"}
  /\ faults < MaxFaults /\ faults' = faults + 1
  /\ Goto(d, "release") \/ Goto(d, "stopped")
  /\ due' = [due EXCEPT ![d] = FALSE]
  /\ toRead' = [toRead EXCEPT ![d] = {}]
  /\ found' = [found EXCEPT ![d] = {}]
  /\ current' = [current EXCEPT ![d] = Nobody]
  /\ orphaned' = [orphaned EXCEPT ![d] = {}]
  /\ UNCHANGED <<redis, leader, fleet, bead, slow>>

CheckLeadership(d) ==
  /\ pc[d] = "release"
  /\ Goto(d, IF leader.id = d THEN "delete" ELSE "stopped")
  /\ UNCHANGED <<redis, leader, fleet, bead, lists, timer>>

DeleteLeaderKey(d) ==
  /\ pc[d] = "delete"
  /\ leader' = [id |-> None, ttl |-> 0]
  /\ Goto(d, "stopped")
  /\ UNCHANGED <<redis, fleet, bead, lists, timer>>

-----------------------------------------------------------------------------
RunCycle(d) ==
  \/ SetLeaderKey(d) \/ GetLeaderKey(d) \/ DetectStaleWorkers(d)
  \/ \E w \in Workers : GetWorkerState(d, w)
  \/ \E r \in found[d] : DeleteTaskOwnerIfMatch(d, r)
  \/ DeleteWorkerState(d) \/ RemoveActiveWorker(d)
  \/ \E t \in Tasks : ResetOrphanedTask(d, t)
  \/ RenewLeadership(d)

Next ==
  \/ \E w \in Workers : \/ \E t \in Tasks : ClaimTask(w, t)
                        \/ Heartbeat(w) \/ CompleteTask(w) \/ Crash(w)
  \/ Tick
  \/ \E d \in Detectors : \/ RunCycle(d) \/ CommandFails(d)
                          \/ Shutdown(d) \/ CheckLeadership(d) \/ DeleteLeaderKey(d)

Spec == Init /\ [][Next]_vars

(* Time passes, a server that is not shut down keeps running cycles and a  *)
(* worker that is serving keeps sending heartbeats.  Nothing else is owed: *)
(* claims, completions and restarts need never happen.                     *)
Fairness ==
  /\ SF_vars(Tick)
  /\ \A d \in Detectors : WF_vars(RunCycle(d))
  /\ \A w \in Workers : WF_vars(Heartbeat(w))

FairSpec == Spec /\ Fairness

-----------------------------------------------------------------------------
(* Properties.                                                             *)

(* The type invariant of Redis, the fleet and the detectors.               *)
TypeOK ==
  /\ owner \in [Tasks -> Workers \union {None}] /\ ownerTTL \in [Tasks -> 0..TTL]
  /\ session \in [Workers -> {"none", "idle", "working"}]
  /\ taskOf \in [Workers -> Tasks \union {None}]
  /\ stateTTL \in [Workers -> 0..TTL]
  /\ age \in [Workers -> NotActive..StaleThreshold]
  /\ leader \in [id : Detectors \union {None}, ttl : 0..LeaderTTL]
  /\ serving \subseteq Workers /\ doing \in [Workers -> Tasks \union {None}]
  /\ bead \in [Tasks -> {"open", "in_progress", "closed"}]
  /\ due \in [Detectors -> BOOLEAN]
  /\ pc \in [Detectors -> Locations]
  /\ toRead \in [Detectors -> SUBSET Workers]
  /\ found \in [Detectors -> SUBSET Stale]
  /\ current \in [Detectors -> Stale \union {Nobody}]
  /\ orphaned \in [Detectors -> SUBSET Tasks]
  /\ faults \in 0..MaxFaults /\ slow \in BOOLEAN
  /\ crashes \in 0..MaxCrashes /\ caught \subseteq Workers /\ dropped \subseteq Tasks

(* A worker that sends its heartbeats in time keeps its task: whatever the *)
(* detectors do, however slowly, its owner key and its session stand and   *)
(* no other such worker believes it owns the task.  Nothing is said of a   *)
(* worker that came back and claimed while a detector still had it on an   *)
(* earlier list of stale workers (caught): the cleanup takes what it finds *)
(* under the worker's ID, the new session as well.                         *)
TimelyWorkersKeepTheirTask ==
  \A w \in serving \ caught : doing[w] # None =>
     /\ owner[doing[w]] = w
     /\ session[w] = "working" /\ taskOf[w] = doing[w]
     /\ \A v \in serving \ (caught \union {w}) : doing[v] # doing[w]

(* A worker that crashed, or whose heartbeat was rejected, is forgotten,   *)
(* its session and its ZSET entry deleted, if it does not claim again,     *)
(* through slow cycles, failing commands and changes of leader, as long as *)
(* one server stays up (Stopping # Detectors).                             *)
DeadWorkersAreForgotten ==
  \A w \in Workers :
     w \notin serving ~> w \in serving \/ (session[w] = "none" /\ age[w] = NotActive)

(* Some cycle so far was long, cut short or met a failure.                 *)
Disturbed ==
  \/ slow \/ faults > 0
  \/ \E d \in Detectors : pc[d] \in {"release", "delete", "stopped"}

(* "Reconciler resets orphaned tasks in beads so they become available for *)
(* re-assignment": a task that is in_progress with no live worker on it    *)
(* gets one or is reopened, unless the detectors are disturbed (a cycle    *)
(* cut short by a failure or a shutdown forgets the task for good), or its *)
(* worker came back: the session then names another task, or went in the   *)
(* cleanup that the claim met (dropped).                                   *)
OrphansAreReopened ==
  \A t \in Tasks :
     (bead[t] = "in_progress" /\ \A w \in serving : doing[w] # t)
       ~> \/ Disturbed
          \/ t \in dropped
          \/ bead[t] # "in_progress"
          \/ \E w \in serving : doing[w] = t

=============================================================================

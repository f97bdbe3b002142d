---------------------------- MODULE Work_proofs -----------------------------
(***************************************************************************)
(* Proofs about who gets work and who keeps it: the fleet's task ownership *)
(* in Redis, the auto mode loop and the task router.  Each is a            *)
(* specification over variables of its own.                                *)
(***************************************************************************)
EXTENDS StaleDetector, AutoMode, TaskRouter, FiniteSetTheorems, TLAPS

-----------------------------------------------------------------------------
(* Fleet coordination.  The inductive invariant: a worker that serves, and *)
(* did not come back in the middle of a cleanup, has a session, is never   *)
(* stale and is on no detector's list; and the task it works on is its     *)
(* own, with a key that lives at least as long as its session.             *)

RedisTypeOK ==
  /\ owner \in [Tasks -> Workers \union {None}] /\ ownerTTL \in [Tasks -> 0..TTL]
  /\ session \in [Workers -> {"none", "idle", "working"}]
  /\ taskOf \in [Workers -> Tasks \union {None}]
  /\ stateTTL \in [Workers -> 0..TTL]
  /\ age \in [Workers -> NotActive..StaleThreshold]
FleetTypeOK ==
  /\ serving \subseteq Workers /\ doing \in [Workers -> Tasks \union {None}]
  /\ bead \in [Tasks -> {"open", "in_progress", "closed"}]
DetectorTypeOK ==
  /\ leader \in [id : Detectors \union {None}, ttl : 0..LeaderTTL]
  /\ due \in [Detectors -> BOOLEAN] /\ pc \in [Detectors -> Locations]
  /\ toRead \in [Detectors -> SUBSET Workers] /\ found \in [Detectors -> SUBSET Stale]
  /\ current \in [Detectors -> Stale \union {Nobody}] /\ orphaned \in [Detectors -> SUBSET Tasks]
  /\ faults \in 0..MaxFaults /\ slow \in BOOLEAN
HistoryTypeOK ==
  crashes \in 0..MaxCrashes /\ caught \subseteq Workers /\ dropped \subseteq Tasks

Safe == serving \ caught

Unsuspected(w) ==
  \A d \in Detectors : w \notin toRead[d] /\ (\A r \in found[d] : r.worker # w) /\ current[d].worker # w
KeepsItsTask(w) ==
  doing[w] # None =>
    /\ owner[doing[w]] = w /\ session[w] = "working" /\ taskOf[w] = doing[w]
    /\ ownerTTL[doing[w]] >= stateTTL[w] /\ age[w] # NotActive
WorkerInv(w) ==
  /\ age[w] # NotActive /\ age[w] < StaleThreshold /\ session[w] # "none"
  /\ Unsuspected(w) /\ KeepsItsTask(w)
FleetInv == TypeOK /\ \A w \in Safe : WorkerInv(w)

\* The parts of the type invariant, before and after a step.
LEMMA FleetParts == TypeOK <=> RedisTypeOK /\ FleetTypeOK /\ DetectorTypeOK /\ HistoryTypeOK
BY DEF TypeOK, RedisTypeOK, FleetTypeOK, DetectorTypeOK, HistoryTypeOK

\* The same of the state after a step.
LEMMA FleetPartsNext == ASSUME RedisTypeOK', FleetTypeOK', DetectorTypeOK', HistoryTypeOK' PROVE TypeOK'
BY DEF TypeOK, RedisTypeOK, FleetTypeOK, DetectorTypeOK, HistoryTypeOK

\* A step that leaves the detectors' variables alone keeps their types.
LEMMA DetectorsStay ==
  ASSUME DetectorTypeOK, UNCHANGED <<leader, pc, lists, timer>> PROVE DetectorTypeOK'
BY DEF DetectorTypeOK, lists, timer

\* Touch keeps the types and renews what it touches.
LEMMA Touching ==
  ASSUME RedisTypeOK, NEW w \in Workers, NEW s \in {"none", "idle", "working"}, NEW t \in Tasks \union {None},
         Touch(w, s, t)
  PROVE  /\ session' \in [Workers -> {"none", "idle", "working"}] /\ taskOf' \in [Workers -> Tasks \union {None}]
         /\ stateTTL' \in [Workers -> 0..TTL] /\ age' \in [Workers -> NotActive..StaleThreshold]
         /\ session'[w] = s /\ taskOf'[w] = t /\ stateTTL'[w] = TTL /\ age'[w] = 0
         /\ \A v \in Workers : v # w => /\ session'[v] = session[v] /\ taskOf'[v] = taskOf[v]
                                        /\ stateTTL'[v] = stateTTL[v] /\ age'[v] = age[v]
<1>1. TTL \in 0..TTL /\ 0 \in NotActive..StaleThreshold
  BY StaleDetectorConstants DEF NotActive
<1> QED
  BY <1>1 DEF RedisTypeOK, Touch

\* A worker's claim.
LEMMA ClaimKeeps ==
  ASSUME FleetInv, NEW v \in Workers, NEW t \in Tasks, ClaimTask(v, t) PROVE FleetInv'
<1>1. RedisTypeOK /\ FleetTypeOK /\ DetectorTypeOK /\ HistoryTypeOK
  BY FleetParts DEF FleetInv
<1>2. /\ serving' = serving \union {v} /\ owner[t] \in {None, v}
      /\ owner' = [owner EXCEPT ![t] = v] /\ ownerTTL' = [ownerTTL EXCEPT ![t] = TTL]
      /\ Touch(v, "working", t) /\ doing' = [doing EXCEPT ![v] = t]
      /\ bead' = [bead EXCEPT ![t] = "in_progress"] /\ UNCHANGED <<leader, pc, lists, timer>>
      /\ caught' = (IF Suspected(v) THEN caught \union {v} ELSE caught \ {v})
  BY DEF ClaimTask, MayClaim
<1>3. /\ session' \in [Workers -> {"none", "idle", "working"}] /\ taskOf' \in [Workers -> Tasks \union {None}]
      /\ stateTTL' \in [Workers -> 0..TTL] /\ age' \in [Workers -> NotActive..StaleThreshold]
      /\ session'[v] = "working" /\ taskOf'[v] = t /\ stateTTL'[v] = TTL /\ age'[v] = 0
      /\ \A w \in Workers : w # v => /\ session'[w] = session[w] /\ taskOf'[w] = taskOf[w]
                                     /\ stateTTL'[w] = stateTTL[w] /\ age'[w] = age[w]
  BY <1>1, <1>2, Touching
<1>4. TTL \in 0..TTL /\ TTL \in Nat /\ StaleThreshold > 0 /\ 0 # NotActive
  BY StaleDetectorConstants DEF NotActive
<1>5. RedisTypeOK' /\ FleetTypeOK'
  BY <1>1, <1>2, <1>3, <1>4 DEF RedisTypeOK, FleetTypeOK
<1>6. DetectorTypeOK' /\ UNCHANGED <<toRead, found, current>>
  BY <1>1, <1>2, DetectorsStay DEF lists
<1>6a. HistoryTypeOK'
  <2>1. crashes' = crashes /\ dropped' \subseteq Tasks
    BY <1>1 DEF ClaimTask, Replaced, HistoryTypeOK
  <2> QED
    BY <1>1, <1>2, <2>1 DEF HistoryTypeOK
<1>7. ASSUME NEW w \in Safe' PROVE WorkerInv(w)'
  <2>1. w \in Workers /\ (w # v => w \in Safe /\ WorkerInv(w)) /\ (w = v => ~Suspected(v))
    BY <1>1, <1>2 DEF FleetInv, FleetTypeOK, Safe
  <2>2. Unsuspected(w)'
    <3>1. Unsuspected(w)
      BY <2>1 DEF WorkerInv, Suspected, Suspects, Unsuspected
    <3> QED
      BY <1>6, <3>1 DEF Unsuspected
  <2>3. CASE w = v
    <3>1. doing'[w] = t /\ owner'[t] = w /\ ownerTTL'[t] = TTL
      BY <1>1, <1>2, <2>3 DEF RedisTypeOK, FleetTypeOK
    <3>2. KeepsItsTask(w)'
      BY <1>3, <1>4, <2>3, <3>1 DEF KeepsItsTask
    <3> QED
      BY <1>3, <1>4, <2>2, <2>3, <3>2, StaleDetectorConstants DEF WorkerInv
  <2>4. CASE w # v
    <3>1. doing'[w] = doing[w]
      BY <1>1, <1>2, <2>4 DEF FleetTypeOK
    <3>2. KeepsItsTask(w)'
      <4>1. CASE doing[w] = None
        BY <3>1, <4>1 DEF KeepsItsTask
      <4>2. CASE doing[w] # None
        <5>1. doing[w] \in Tasks /\ owner[doing[w]] = w
          BY <1>1, <2>1, <2>4, <4>2 DEF FleetTypeOK, WorkerInv, KeepsItsTask
        <5>2. doing[w] # t
          BY <1>2, <2>1, <2>4, <5>1, StaleDetectorConstants
        <5>3. owner'[doing[w]] = w /\ ownerTTL'[doing[w]] = ownerTTL[doing[w]]
          BY <1>1, <1>2, <5>1, <5>2 DEF RedisTypeOK
        <5> QED
          BY <1>3, <2>1, <2>4, <3>1, <4>2, <5>3 DEF WorkerInv, KeepsItsTask
      <4> QED
        BY <4>1, <4>2
    <3> QED
      BY <1>3, <2>1, <2>2, <2>4, <3>2 DEF WorkerInv
  <2> QED
    BY <2>3, <2>4
<1> QED
  BY <1>5, <1>6, <1>6a, <1>7, FleetPartsNext DEF FleetInv

\* A heartbeat, accepted or rejected.
LEMMA HeartbeatKeeps ==
  ASSUME FleetInv, NEW v \in Workers, Heartbeat(v) PROVE FleetInv'
<1> DEFINE t == taskOf[v]
<1>1. RedisTypeOK /\ FleetTypeOK /\ DetectorTypeOK /\ HistoryTypeOK
  BY FleetParts DEF FleetInv
<1>2. v \in serving /\ UNCHANGED <<leader, bead, pc, lists, timer, crashes, dropped>>
  BY DEF Heartbeat
<1>3. DetectorTypeOK' /\ UNCHANGED <<toRead, found, current>>
  BY <1>1, <1>2, DetectorsStay DEF lists
<1>4. \A w \in Safe : w \in Workers /\ WorkerInv(w)
  BY <1>1 DEF FleetInv, FleetTypeOK, Safe
<1>5. CASE Rejected(v)
  <2>1. /\ doing' = [doing EXCEPT ![v] = None] /\ UNCHANGED redis
        /\ serving' = serving \ {v} /\ caught' = caught \ {v}
    BY <1>5 DEF Heartbeat
  <2>2. \A w \in Workers : doing'[w] = None \/ doing'[w] = doing[w]
    BY <1>1, <2>1 DEF FleetTypeOK
  <2>3. RedisTypeOK' /\ FleetTypeOK' /\ HistoryTypeOK'
    BY <1>1, <1>2, <2>1 DEF RedisTypeOK, FleetTypeOK, HistoryTypeOK, redis
  <2>4. ASSUME NEW w \in Safe' PROVE WorkerInv(w)'
    <3>1. w \in Safe
      BY <2>1 DEF Safe
    <3> QED
      BY <1>2, <1>3, <1>4, <2>1, <2>2, <3>1 DEF WorkerInv, Unsuspected, KeepsItsTask, redis
  <2> QED
    BY <1>3, <2>3, <2>4, FleetPartsNext DEF FleetInv
<1>6. CASE ~Rejected(v)
  <2>1. /\ ownerTTL' = IF t # None /\ owner[t] = v THEN [ownerTTL EXCEPT ![t] = TTL] ELSE ownerTTL
        /\ Touch(v, session[v], t) /\ UNCHANGED <<owner, serving, doing, caught>>
    BY <1>6 DEF Heartbeat
  <2>2. t \in Tasks \union {None} /\ session[v] \in {"none", "idle", "working"}
    BY <1>1 DEF RedisTypeOK
  <2> HIDE DEF t
  <2>3. /\ session' \in [Workers -> {"none", "idle", "working"}] /\ taskOf' \in [Workers -> Tasks \union {None}]
        /\ stateTTL' \in [Workers -> 0..TTL] /\ age' \in [Workers -> NotActive..StaleThreshold]
        /\ session'[v] = session[v] /\ taskOf'[v] = t /\ stateTTL'[v] = TTL /\ age'[v] = 0
        /\ \A w \in Workers : w # v => /\ session'[w] = session[w] /\ taskOf'[w] = taskOf[w]
                                       /\ stateTTL'[w] = stateTTL[w] /\ age'[w] = age[w]
    BY <1>1, <2>1, <2>2, Touching
  <2>4. TTL \in 0..TTL /\ TTL \in Nat /\ StaleThreshold > 0 /\ 0 # NotActive
    BY StaleDetectorConstants DEF NotActive
  <2>5. RedisTypeOK' /\ FleetTypeOK' /\ HistoryTypeOK'
    BY <1>1, <1>2, <2>1, <2>2, <2>3, <2>4 DEF RedisTypeOK, FleetTypeOK, HistoryTypeOK
  <2>6. ASSUME NEW w \in Safe' PROVE WorkerInv(w)'
    <3>1. w \in Safe /\ w \in Workers /\ WorkerInv(w) /\ Unsuspected(w)'
      BY <1>2, <1>3, <1>4, <2>1 DEF WorkerInv, Unsuspected, Safe
    <3>2. KeepsItsTask(w)'
      <4>1. CASE doing[w] = None
        BY <2>1, <4>1 DEF KeepsItsTask
      <4>2. CASE doing[w] # None
        <5>1. doing[w] \in Tasks /\ owner[doing[w]] = w /\ taskOf[w] = doing[w]
          BY <1>1, <3>1, <4>2 DEF FleetTypeOK, WorkerInv, KeepsItsTask
        <5>2. CASE w = v
          <6>1. t = doing[w] /\ t # None /\ owner[t] = v
            BY <4>2, <5>1, <5>2 DEF t
          <6>2. ownerTTL'[t] = TTL
            BY <1>1, <2>1, <5>1, <6>1 DEF RedisTypeOK
          <6> QED
            BY <2>1, <2>3, <2>4, <3>1, <4>2, <5>1, <5>2, <6>1, <6>2 DEF WorkerInv, KeepsItsTask
        <5>3. CASE w # v
          <6>1. ownerTTL'[doing[w]] = ownerTTL[doing[w]]
            BY <1>1, <2>1, <5>1, <5>3 DEF RedisTypeOK
          <6> QED
            BY <2>1, <2>3, <3>1, <4>2, <5>3, <6>1 DEF WorkerInv, KeepsItsTask
        <5> QED
          BY <5>2, <5>3
      <4> QED
        BY <4>1, <4>2
    <3>3. (age[w] # NotActive /\ age[w] < StaleThreshold /\ session[w] # "none")'
      BY <2>3, <2>4, <3>1 DEF WorkerInv
    <3> QED
      BY <3>1, <3>2, <3>3 DEF WorkerInv
  <2> QED
    BY <1>3, <2>5, <2>6, FleetPartsNext DEF FleetInv
<1> QED
  BY <1>5, <1>6

\* A completion, accepted or refused, and a crash.
LEMMA LeavingKeeps ==
  ASSUME FleetInv, NEW v \in Workers, CompleteTask(v) \/ Crash(v) PROVE FleetInv'
<1> DEFINE t == doing[v]
<1>1. RedisTypeOK /\ FleetTypeOK /\ DetectorTypeOK /\ HistoryTypeOK
  BY FleetParts DEF FleetInv
<1>2. /\ v \in serving /\ serving' \subseteq serving /\ doing' = [doing EXCEPT ![v] = None]
      /\ Safe' \subseteq Safe /\ UNCHANGED <<leader, pc, lists, timer, dropped>>
  BY DEF CompleteTask, Crash, Safe
<1>2a. HistoryTypeOK'
  <2>1. crashes' \in 0..MaxCrashes /\ caught' \subseteq caught
    BY <1>1, StaleDetectorConstants DEF CompleteTask, Crash, HistoryTypeOK
  <2> QED
    BY <1>1, <1>2, <2>1 DEF HistoryTypeOK
<1>3. DetectorTypeOK' /\ UNCHANGED <<toRead, found, current>>
  BY <1>1, <1>2, DetectorsStay DEF lists
<1>4. \A w \in Safe : w \in Workers /\ WorkerInv(w)
  BY <1>1 DEF FleetInv, FleetTypeOK, Safe
<1>5. \A w \in Workers : doing'[w] = IF w = v THEN None ELSE doing[w]
  BY <1>1, <1>2 DEF FleetTypeOK
<1>6. CASE UNCHANGED <<redis, bead>>
  <2>1. RedisTypeOK' /\ FleetTypeOK'
    BY <1>1, <1>2, <1>6 DEF RedisTypeOK, FleetTypeOK, redis
  <2>2. ASSUME NEW w \in Safe' PROVE WorkerInv(w)'
    BY <1>2, <1>3, <1>4, <1>5, <1>6 DEF WorkerInv, Unsuspected, KeepsItsTask, redis
  <2> QED
    BY <1>2a, <1>3, <2>1, <2>2, FleetPartsNext DEF FleetInv
<1>7. CASE ~UNCHANGED <<redis, bead>>
  <2>1. /\ t # None /\ owner[t] = v /\ owner' = [owner EXCEPT ![t] = None] /\ ownerTTL' = [ownerTTL EXCEPT ![t] = 0]
        /\ Touch(v, "idle", None) /\ bead' = [bead EXCEPT ![t] = "closed"]
    BY <1>7 DEF CompleteTask, Crash
  <2>2. t \in Tasks
    BY <1>1, <2>1 DEF FleetTypeOK
  <2> HIDE DEF t
  <2>3. /\ session' \in [Workers -> {"none", "idle", "working"}] /\ taskOf' \in [Workers -> Tasks \union {None}]
        /\ stateTTL' \in [Workers -> 0..TTL] /\ age' \in [Workers -> NotActive..StaleThreshold] /\ age'[v] = 0
        /\ session'[v] = "idle"
        /\ \A w \in Workers : w # v => /\ session'[w] = session[w] /\ taskOf'[w] = taskOf[w]
                                       /\ stateTTL'[w] = stateTTL[w] /\ age'[w] = age[w]
    BY <1>1, <2>1, Touching
  <2>4. 0 \in 0..TTL /\ StaleThreshold > 0 /\ 0 # NotActive
    BY StaleDetectorConstants DEF NotActive
  <2>5. RedisTypeOK' /\ FleetTypeOK'
    BY <1>1, <1>2, <2>1, <2>2, <2>3, <2>4 DEF RedisTypeOK, FleetTypeOK
  <2>6. ASSUME NEW w \in Safe' PROVE WorkerInv(w)'
    <3>1. w \in Safe /\ w \in Workers /\ WorkerInv(w) /\ Unsuspected(w)'
      BY <1>2, <1>3, <1>4 DEF WorkerInv, Unsuspected
    <3>2. KeepsItsTask(w)'
      <4>1. CASE doing'[w] = None
        BY <4>1 DEF KeepsItsTask
      <4>2. CASE doing'[w] # None
        <5>1. w # v /\ doing'[w] = doing[w]
          BY <1>5, <3>1, <4>2
        <5>2. doing[w] \in Tasks /\ owner[doing[w]] = w
          BY <1>1, <3>1, <4>2, <5>1 DEF FleetTypeOK, WorkerInv, KeepsItsTask
        <5>3. doing[w] # t
          BY <2>1, <5>1, <5>2
        <5>4. owner'[doing[w]] = w /\ ownerTTL'[doing[w]] = ownerTTL[doing[w]]
          BY <1>1, <2>1, <5>2, <5>3 DEF RedisTypeOK
        <5> QED
          BY <2>3, <3>1, <4>2, <5>1, <5>4 DEF WorkerInv, KeepsItsTask
      <4> QED
        BY <4>1, <4>2
    <3>3. (age[w] # NotActive /\ age[w] < StaleThreshold /\ session[w] # "none")'
      BY <2>3, <2>4, <3>1 DEF WorkerInv
    <3> QED
      BY <3>1, <3>2, <3>3 DEF WorkerInv
  <2> QED
    BY <1>2a, <1>3, <2>5, <2>6, FleetPartsNext DEF FleetInv
<1> QED
  BY <1>6, <1>7

\* A count of ticks that goes down.
LEMMA Decrementing ==
  ASSUME NEW m \in Nat, NEW n \in 0..m PROVE Decrement(n) \in 0..m
BY DEF Decrement

\* Time passes: the keys of timely workers do not expire.
LEMMA TickKeeps ==
  ASSUME Timely, FleetInv, Tick PROVE FleetInv'
<1>1. RedisTypeOK /\ FleetTypeOK /\ DetectorTypeOK /\ HistoryTypeOK
  BY FleetParts DEF FleetInv
<1>2. TTL \in Nat /\ LeaderTTL \in Nat /\ StaleThreshold \in Nat
  BY StaleDetectorConstants
<1>3. UNCHANGED <<serving, doing, crashes, caught, dropped, bead, pc, toRead, found, current, orphaned, faults>>
  BY DEF Tick, fleet, lists
<1>4. /\ owner' = [t \in Tasks |-> IF ownerTTL[t] <= 1 THEN None ELSE owner[t]]
      /\ ownerTTL' = [t \in Tasks |-> Decrement(ownerTTL[t])]
      /\ stateTTL' = [w \in Workers |-> Decrement(stateTTL[w])]
      /\ session' = [w \in Workers |-> IF stateTTL[w] <= 1 THEN "none" ELSE session[w]]
      /\ taskOf' = [w \in Workers |-> IF stateTTL[w] <= 1 THEN None ELSE taskOf[w]]
      /\ age' = [w \in Workers |-> IF age[w] \in 0..(StaleThreshold - 1) THEN age[w] + 1 ELSE age[w]]
  BY DEF Tick
<1>5. RedisTypeOK'
  <2>1. \A t \in Tasks : Decrement(ownerTTL[t]) \in 0..TTL
    BY <1>1, <1>2, Decrementing DEF RedisTypeOK
  <2>2. \A w \in Workers : Decrement(stateTTL[w]) \in 0..TTL
    BY <1>1, <1>2, Decrementing DEF RedisTypeOK
  <2>3. \A w \in Workers : (IF age[w] \in 0..(StaleThreshold - 1) THEN age[w] + 1 ELSE age[w])
                             \in NotActive..StaleThreshold
    BY <1>1, <1>2 DEF RedisTypeOK, NotActive
  <2> QED
    BY <1>1, <1>4, <2>1, <2>2, <2>3 DEF RedisTypeOK
<1>6. DetectorTypeOK'
  <2>1. leader' \in [id : Detectors \union {None}, ttl : 0..LeaderTTL]
    <3>1. leader.id \in Detectors \union {None} /\ leader.ttl \in 0..LeaderTTL
      BY <1>1 DEF DetectorTypeOK
    <3>2. Decrement(leader.ttl) \in 0..LeaderTTL
      BY <1>2, <3>1, Decrementing
    <3>3. leader' = [id |-> IF leader.ttl <= 1 THEN None ELSE leader.id, ttl |-> Decrement(leader.ttl)]
      BY DEF Tick
    <3> QED
      BY <3>1, <3>2, <3>3
  <2>2. slow' \in BOOLEAN
    BY DEF Tick
  <2>3. due' \in [Detectors -> BOOLEAN]
    BY DEF Tick
  <2> QED
    BY <1>1, <1>3, <2>1, <2>2, <2>3 DEF DetectorTypeOK
<1>7. ASSUME NEW w \in Safe' PROVE WorkerInv(w)'
  <2>1. w \in Safe /\ w \in serving /\ w \in Workers /\ WorkerInv(w)
    BY <1>1, <1>3 DEF FleetInv, FleetTypeOK, Safe
  <2>2. Unsuspected(w)'
    BY <1>3, <2>1 DEF WorkerInv, Unsuspected
  <2>3. age[w] # NotActive /\ age[w] + 1 < StaleThreshold /\ stateTTL[w] > 1
    BY <2>1 DEF Tick, WorkerInv
  <2>4. age[w] \in NotActive..StaleThreshold /\ age[w] < StaleThreshold
    BY <1>1, <2>1 DEF RedisTypeOK, WorkerInv
  <2>5. age'[w] = IF age[w] \in 0..(StaleThreshold - 1) THEN age[w] + 1 ELSE age[w]
    BY <1>4, <2>1
  <2>6. age'[w] < StaleThreshold /\ age'[w] # NotActive /\ session'[w] # "none"
    <3>1. age'[w] < StaleThreshold /\ age'[w] # NotActive
      BY <1>2, <2>3, <2>4, <2>5 DEF NotActive
    <3>2. stateTTL[w] \in Nat /\ ~(stateTTL[w] <= 1)
      BY <1>1, <1>2, <2>1, <2>3 DEF RedisTypeOK
    <3> QED
      BY <1>4, <2>1, <3>1, <3>2 DEF WorkerInv
  <2>7. KeepsItsTask(w)'
    <3>1. CASE doing[w] = None
      BY <1>3, <3>1 DEF KeepsItsTask
    <3>2. CASE doing[w] # None
      <4>1. /\ doing[w] \in Tasks /\ owner[doing[w]] = w /\ session[w] = "working" /\ taskOf[w] = doing[w]
            /\ ownerTTL[doing[w]] >= stateTTL[w] /\ age[w] # NotActive
        BY <1>1, <2>1, <3>2 DEF FleetTypeOK, WorkerInv, KeepsItsTask
      <4>2. ownerTTL[doing[w]] \in Nat /\ stateTTL[w] \in Nat /\ stateTTL[w] > 1 /\ ownerTTL[doing[w]] > 1
        BY <1>1, <1>2, <2>1, <2>3, <4>1 DEF RedisTypeOK
      <4>3. ~(ownerTTL[doing[w]] <= 1) /\ ~(stateTTL[w] <= 1)
        BY <4>2
      <4>4. owner'[doing[w]] = w /\ session'[w] = "working" /\ taskOf'[w] = doing[w]
        BY <1>4, <2>1, <4>1, <4>3
      <4>5. ownerTTL'[doing[w]] = ownerTTL[doing[w]] - 1 /\ stateTTL'[w] = stateTTL[w] - 1
        BY <1>4, <2>1, <4>1, <4>2 DEF Decrement
      <4>6. ownerTTL'[doing[w]] >= stateTTL'[w]
        BY <4>1, <4>2, <4>5
      <4> QED
        BY <1>3, <2>6, <4>1, <4>4, <4>6 DEF KeepsItsTask
    <3> QED
      BY <3>1, <3>2
  <2> QED
    BY <2>2, <2>6, <2>7 DEF WorkerInv
<1>8. FleetTypeOK' /\ HistoryTypeOK'
  BY <1>1, <1>3 DEF FleetTypeOK, HistoryTypeOK
<1> QED
  BY <1>5, <1>6, <1>7, <1>8, FleetPartsNext DEF FleetInv

\* No detector suspects w after the step, and its keys are as before.
Unaffected(w) ==
  /\ Unsuspected(w)'
  /\ session'[w] = session[w] /\ taskOf'[w] = taskOf[w] /\ stateTTL'[w] = stateTTL[w] /\ age'[w] = age[w]
  /\ \A t \in Tasks : owner[t] = w => owner'[t] = w /\ ownerTTL'[t] = ownerTTL[t]

\* What a detector does is harmless when it touches nothing of a live worker
\* and suspects none.
LEMMA Harmless ==
  ASSUME FleetInv, RedisTypeOK', DetectorTypeOK', UNCHANGED fleet, bead' \in [Tasks -> {"open", "in_progress", "closed"}],
         \A w \in Safe : Unaffected(w)
  PROVE  FleetInv'
<1>1. FleetTypeOK /\ FleetTypeOK' /\ HistoryTypeOK' /\ UNCHANGED <<serving, doing, Safe>>
  BY FleetParts DEF FleetInv, FleetTypeOK, HistoryTypeOK, fleet, Safe
<1>2. ASSUME NEW w \in Safe' PROVE WorkerInv(w)'
  <2>1. w \in Safe /\ w \in Workers /\ WorkerInv(w) /\ doing[w] \in Tasks \union {None}
    BY <1>1 DEF FleetInv, FleetTypeOK, Safe
  <2>2. /\ Unsuspected(w)'
        /\ session'[w] = session[w] /\ taskOf'[w] = taskOf[w] /\ stateTTL'[w] = stateTTL[w] /\ age'[w] = age[w]
        /\ \A t \in Tasks : owner[t] = w => owner'[t] = w /\ ownerTTL'[t] = ownerTTL[t]
    BY <2>1 DEF Unaffected
  <2>3. KeepsItsTask(w)'
    <3>1. CASE doing[w] = None
      BY <1>1, <3>1 DEF KeepsItsTask
    <3>2. CASE doing[w] # None
      <4>1. doing[w] \in Tasks /\ owner[doing[w]] = w
        BY <2>1, <3>2 DEF WorkerInv, KeepsItsTask
      <4>2. owner'[doing[w]] = w /\ ownerTTL'[doing[w]] = ownerTTL[doing[w]]
        BY <2>2, <4>1
      <4> QED
        BY <1>1, <2>1, <2>2, <3>2, <4>2 DEF WorkerInv, KeepsItsTask
    <3> QED
      BY <3>1, <3>2
  <2> QED
    BY <2>1, <2>2, <2>3 DEF WorkerInv
<1> QED
  BY <1>1, <1>2, FleetPartsNext DEF FleetInv

\* A detector's step that leaves Redis's workers and tasks alone.
LEMMA RedisStays ==
  ASSUME FleetInv, DetectorTypeOK', UNCHANGED <<redis, fleet>>, bead' \in [Tasks -> {"open", "in_progress", "closed"}],
         \A w \in Safe : Unsuspected(w)'
  PROVE  FleetInv'
<1>1. RedisTypeOK'
  BY FleetParts DEF FleetInv, RedisTypeOK, redis
<1>2. ASSUME NEW w \in Safe PROVE Unaffected(w)
  BY DEF redis, Unaffected
<1> QED
  BY <1>1, <1>2, Harmless

\* The places of a cycle.
LEMMA Going ==
  ASSUME DetectorTypeOK, NEW d \in Detectors, NEW l \in Locations, Goto(d, l)
  PROVE  pc' \in [Detectors -> Locations]
BY DEF DetectorTypeOK, Goto

\* The steps of a cycle that touch no worker: the election, the scan, the
\* reconciliation, the renewal and the end.
LEMMA QuietStepsKeep ==
  ASSUME FleetInv, NEW d \in Detectors,
         \/ SetLeaderKey(d) \/ GetLeaderKey(d) \/ DetectStaleWorkers(d) \/ (\E w \in Workers : GetWorkerState(d, w))
         \/ (\E t \in Tasks : ResetOrphanedTask(d, t)) \/ RenewLeadership(d)
         \/ Shutdown(d) \/ CheckLeadership(d) \/ DeleteLeaderKey(d)
  PROVE  FleetInv'
<1>1. RedisTypeOK /\ FleetTypeOK /\ DetectorTypeOK
  BY FleetParts DEF FleetInv
<1>2. UNCHANGED <<redis, fleet>>
  BY DEF SetLeaderKey, GetLeaderKey, DetectStaleWorkers, GetWorkerState, ResetOrphanedTask, RenewLeadership,
         Shutdown, CheckLeadership, DeleteLeaderKey
<1>3. bead' \in [Tasks -> {"open", "in_progress", "closed"}]
  BY <1>1 DEF FleetTypeOK, SetLeaderKey, GetLeaderKey, DetectStaleWorkers, GetWorkerState, ResetOrphanedTask,
         RenewLeadership, Shutdown, CheckLeadership, DeleteLeaderKey
<1>4. \A w \in Safe : w \in Workers /\ Unsuspected(w) /\ age[w] < StaleThreshold /\ age[w] \in NotActive..StaleThreshold
  BY <1>1 DEF FleetInv, FleetTypeOK, Safe, WorkerInv, RedisTypeOK
<1>5. pc' \in [Detectors -> Locations]
  <2>1. \E l \in Locations : Goto(d, l)
    BY DEF Locations, SetLeaderKey, GetLeaderKey, DetectStaleWorkers, GetWorkerState, ResetOrphanedTask,
           RenewLeadership, Shutdown, CheckLeadership, DeleteLeaderKey
  <2> QED
    BY <1>1, <2>1, Going
<1>6. leader' \in [id : Detectors \union {None}, ttl : 0..LeaderTTL]
  <2>1. \/ leader' = leader \/ leader' = [id |-> d, ttl |-> LeaderTTL] \/ leader' = [leader EXCEPT !.ttl = LeaderTTL]
        \/ leader' = [id |-> None, ttl |-> 0]
    BY DEF SetLeaderKey, GetLeaderKey, DetectStaleWorkers, GetWorkerState, ResetOrphanedTask, RenewLeadership,
           Shutdown, CheckLeadership, DeleteLeaderKey
  <2>2. leader \in [id : Detectors \union {None}, ttl : 0..LeaderTTL] /\ LeaderTTL \in 0..LeaderTTL /\ 0 \in 0..LeaderTTL
    BY <1>1, StaleDetectorConstants DEF DetectorTypeOK
  <2> QED
    BY <2>1, <2>2
<1>7. due' \in [Detectors -> BOOLEAN] /\ faults' \in 0..MaxFaults /\ slow' \in BOOLEAN
  <2>1. (due' = due \/ due' = [due EXCEPT ![d] = FALSE]) /\ slow' = slow
    BY DEF SetLeaderKey, GetLeaderKey, DetectStaleWorkers, GetWorkerState, ResetOrphanedTask, RenewLeadership,
           Shutdown, CheckLeadership, DeleteLeaderKey, timer
  <2>2. faults' = faults \/ (faults < MaxFaults /\ faults' = faults + 1)
    BY DEF SetLeaderKey, GetLeaderKey, DetectStaleWorkers, GetWorkerState, ResetOrphanedTask, RenewLeadership,
           Shutdown, CheckLeadership, DeleteLeaderKey, timer
  <2>3. faults' \in 0..MaxFaults
    BY <1>1, <2>2, StaleDetectorConstants DEF DetectorTypeOK
  <2> QED
    BY <1>1, <2>1, <2>3 DEF DetectorTypeOK
<1>8. CASE UNCHANGED lists
  <2>1. DetectorTypeOK'
    BY <1>1, <1>5, <1>6, <1>7, <1>8 DEF DetectorTypeOK, lists
  <2>2. \A w \in Safe : Unsuspected(w)'
    BY <1>4, <1>8 DEF Unsuspected, lists
  <2> QED
    BY <1>2, <1>3, <2>1, <2>2, RedisStays
<1>9. CASE DetectStaleWorkers(d)
  <2>1. toRead' = [toRead EXCEPT ![d] = StaleWorkers] /\ UNCHANGED <<found, current, orphaned>>
    BY <1>9 DEF DetectStaleWorkers
  <2>2. StaleWorkers \subseteq Workers /\ \A w \in Safe : w \notin StaleWorkers
    BY <1>4, StaleDetectorConstants DEF StaleWorkers, NotActive
  <2> HIDE DEF StaleWorkers
  <2>3. DetectorTypeOK'
    BY <1>1, <1>5, <1>6, <1>7, <2>1, <2>2 DEF DetectorTypeOK
  <2>4. \A w \in Safe : Unsuspected(w)'
    BY <1>1, <1>4, <2>1, <2>2 DEF Unsuspected, DetectorTypeOK
  <2> QED
    BY <1>2, <1>3, <2>3, <2>4, RedisStays
<1>10. ASSUME NEW v \in Workers, GetWorkerState(d, v) PROVE FleetInv'
  <2> DEFINE r == [worker |-> v, task |-> taskOf[v]]
  <2>1. /\ v \in toRead[d] /\ toRead' = [toRead EXCEPT ![d] = toRead[d] \ {v}]
        /\ found' = [found EXCEPT ![d] = found[d] \union {r}] /\ UNCHANGED <<current, orphaned>>
    BY <1>1, <1>10 DEF GetWorkerState, DetectorTypeOK
  <2>2. r \in Stale /\ r.worker = v
    BY <1>1 DEF Stale, RedisTypeOK
  <2> HIDE DEF r
  <2>3. DetectorTypeOK'
    BY <1>1, <1>5, <1>6, <1>7, <2>1, <2>2 DEF DetectorTypeOK
  <2>4. ASSUME NEW w \in Safe PROVE Unsuspected(w)'
    <3>1. w # v /\ Unsuspected(w)
      BY <1>4, <2>1 DEF Unsuspected
    <3>2. \A e \in Detectors : toRead'[e] \subseteq toRead[e] /\ found'[e] \subseteq found[e] \union {r}
      BY <1>1, <2>1 DEF DetectorTypeOK
    <3>3. \A e \in Detectors : w \notin toRead'[e] /\ (\A x \in found'[e] : x.worker # w)
      BY <2>2, <3>1, <3>2 DEF Unsuspected
    <3>4. \A e \in Detectors : current'[e].worker # w
      BY <2>1, <3>1 DEF Unsuspected
    <3> QED
      BY <3>3, <3>4 DEF Unsuspected
  <2> QED
    BY <1>2, <1>3, <2>3, <2>4, RedisStays
<1>11. ASSUME NEW t \in Tasks, ResetOrphanedTask(d, t) PROVE FleetInv'
  <2>1. orphaned' = [orphaned EXCEPT ![d] = orphaned[d] \ {t}] /\ UNCHANGED <<toRead, found, current>>
    BY <1>1, <1>11 DEF ResetOrphanedTask, DetectorTypeOK
  <2>2. DetectorTypeOK'
    BY <1>1, <1>5, <1>6, <1>7, <2>1 DEF DetectorTypeOK
  <2>3. \A w \in Safe : Unsuspected(w)'
    BY <1>4, <2>1 DEF Unsuspected
  <2> QED
    BY <1>2, <1>3, <2>2, <2>3, RedisStays
<1>12. CASE Shutdown(d)
  <2>1. /\ toRead' = [toRead EXCEPT ![d] = {}] /\ found' = [found EXCEPT ![d] = {}]
        /\ current' = [current EXCEPT ![d] = Nobody] /\ orphaned' = [orphaned EXCEPT ![d] = {}]
    BY <1>12 DEF Shutdown
  <2>2. DetectorTypeOK'
    BY <1>1, <1>5, <1>6, <1>7, <2>1 DEF DetectorTypeOK
  <2>3. Nobody.worker = None /\ \A w \in Safe : w # None
    BY <1>4, StaleDetectorConstants DEF Nobody
  <2>4. \A w \in Safe : Unsuspected(w)'
    BY <1>1, <1>4, <2>1, <2>3 DEF Unsuspected, DetectorTypeOK
  <2> QED
    BY <1>2, <1>3, <2>2, <2>4, RedisStays
<1>13. \/ DetectStaleWorkers(d) \/ (\E w \in Workers : GetWorkerState(d, w))
       \/ (\E t \in Tasks : ResetOrphanedTask(d, t)) \/ Shutdown(d) \/ UNCHANGED lists
  BY DEF SetLeaderKey, GetLeaderKey, RenewLeadership, CheckLeadership, DeleteLeaderKey
<1> QED
  BY <1>8, <1>9, <1>10, <1>11, <1>12, <1>13

\* The cleanup of a worker, command by command.
LEMMA CleanupKeeps ==
  ASSUME FleetInv, NEW d \in Detectors,
         \/ \E r \in found[d] : DeleteTaskOwnerIfMatch(d, r)
         \/ DeleteWorkerState(d) \/ RemoveActiveWorker(d)
  PROVE  FleetInv'
<1>1. RedisTypeOK /\ FleetTypeOK /\ DetectorTypeOK
  BY FleetParts DEF FleetInv
<1>2. UNCHANGED <<serving, doing, leader, bead, due, faults, slow>> /\ UNCHANGED fleet
  BY DEF DeleteTaskOwnerIfMatch, DeleteWorkerState, RemoveActiveWorker, fleet, timer
<1>3. bead' \in [Tasks -> {"open", "in_progress", "closed"}]
  BY <1>1, <1>2 DEF FleetTypeOK
<1>4. \A w \in Safe : w \in Workers /\ Unsuspected(w)
  BY <1>1 DEF FleetInv, FleetTypeOK, Safe, WorkerInv
<1>5. pc' \in [Detectors -> Locations]
  <2>1. \E l \in Locations : Goto(d, l)
    BY DEF Locations, DeleteTaskOwnerIfMatch, DeleteWorkerState, RemoveActiveWorker, NextWorker
  <2> QED
    BY <1>1, <2>1, Going
<1>6. ASSUME NEW r \in found[d], DeleteTaskOwnerIfMatch(d, r) PROVE FleetInv'
  <2>1. /\ found' = [found EXCEPT ![d] = found[d] \ {r}] /\ current' = [current EXCEPT ![d] = r]
        /\ UNCHANGED <<session, taskOf, stateTTL, age, toRead, orphaned>>
    BY <1>1, <1>6 DEF DeleteTaskOwnerIfMatch, DetectorTypeOK
  <2>2. r \in Stale /\ r.worker \in Workers /\ r.task \in Tasks \union {None}
    BY <1>1 DEF DetectorTypeOK, Stale
  <2>3. \/ UNCHANGED <<owner, ownerTTL>>
        \/ /\ r.task # None /\ owner[r.task] = r.worker
           /\ owner' = [owner EXCEPT ![r.task] = None] /\ ownerTTL' = [ownerTTL EXCEPT ![r.task] = 0]
    BY <1>6 DEF DeleteTaskOwnerIfMatch
  <2>4. RedisTypeOK'
    BY <1>1, <2>1, <2>2, <2>3, StaleDetectorConstants DEF RedisTypeOK
  <2>5. DetectorTypeOK'
    BY <1>1, <1>2, <1>5, <2>1, <2>2 DEF DetectorTypeOK
  <2>6. ASSUME NEW w \in Safe PROVE Unaffected(w)
    <3>1. Unsuspected(w) /\ r.worker # w
      BY <1>4 DEF Unsuspected
    <3>2. \A e \in Detectors : found'[e] \subseteq found[e] /\ (current'[e] = current[e] \/ current'[e] = r)
      BY <1>1, <2>1 DEF DetectorTypeOK
    <3>3. Unsuspected(w)'
      BY <2>1, <3>1, <3>2 DEF Unsuspected
    <3>4. ASSUME NEW t \in Tasks, owner[t] = w PROVE owner'[t] = w /\ ownerTTL'[t] = ownerTTL[t]
      BY <1>1, <2>3, <3>1, <3>4 DEF RedisTypeOK
    <3> QED
      BY <2>1, <3>3, <3>4 DEF Unaffected
  <2> QED
    BY <1>2, <1>3, <2>4, <2>5, <2>6, Harmless
<1>7. CASE DeleteWorkerState(d)
  <2> DEFINE v == current[d].worker
  <2>1. /\ session' = [session EXCEPT ![v] = "none"] /\ taskOf' = [taskOf EXCEPT ![v] = None]
        /\ stateTTL' = [stateTTL EXCEPT ![v] = 0] /\ UNCHANGED <<owner, ownerTTL, age, toRead, found, current, orphaned>>
    BY <1>7 DEF DeleteWorkerState, lists
  <2>2. \A w \in Safe : w # v
    BY <1>4 DEF Unsuspected
  <2> HIDE DEF v
  <2>3. RedisTypeOK'
    <3>1. session' \in [Workers -> {"none", "idle", "working"}] /\ taskOf' \in [Workers -> Tasks \union {None}]
      BY <1>1, <2>1 DEF RedisTypeOK
    <3>2. 0 \in 0..TTL
      BY StaleDetectorConstants
    <3>3. stateTTL' \in [Workers -> 0..TTL]
      BY <1>1, <2>1, <3>2 DEF RedisTypeOK
    <3>4. owner' = owner /\ ownerTTL' = ownerTTL /\ age' = age
      BY <2>1
    <3> QED
      BY <1>1, <3>1, <3>3, <3>4 DEF RedisTypeOK
  <2>4. DetectorTypeOK'
    BY <1>1, <1>2, <1>5, <2>1 DEF DetectorTypeOK
  <2>5. ASSUME NEW w \in Safe PROVE Unaffected(w)
    <3>1. Unsuspected(w)'
      BY <1>4, <2>1 DEF Unsuspected
    <3>2. session'[w] = session[w] /\ taskOf'[w] = taskOf[w] /\ stateTTL'[w] = stateTTL[w]
      BY <1>1, <1>4, <2>1, <2>2 DEF RedisTypeOK
    <3> QED
      BY <2>1, <3>1, <3>2 DEF Unaffected
  <2> QED
    BY <1>2, <1>3, <2>3, <2>4, <2>5, Harmless
<1>8. CASE RemoveActiveWorker(d)
  <2> DEFINE r == current[d]
  <2>1. /\ age' = [age EXCEPT ![r.worker] = NotActive] /\ orphaned' = [orphaned EXCEPT ![d] = orphaned[d] \union OrphanedBy(r)]
        /\ current' = [current EXCEPT ![d] = Nobody]
        /\ UNCHANGED <<owner, ownerTTL, session, taskOf, stateTTL, toRead, found>>
    BY <1>1, <1>8 DEF RemoveActiveWorker, WithoutScore, DetectorTypeOK
  <2>2. OrphanedBy(r) \subseteq Tasks
    <3>1. r \in Stale \union {Nobody}
      BY <1>1 DEF DetectorTypeOK
    <3>2. r.task \in Tasks \union {None}
      BY <3>1 DEF Stale, Nobody
    <3> QED
      BY <3>2 DEF OrphanedBy
  <2>3. \A w \in Safe : w # r.worker /\ w # None
    BY <1>4, StaleDetectorConstants DEF Unsuspected
  <2> HIDE DEF r
  <2>4. RedisTypeOK'
    <3>1. NotActive \in NotActive..StaleThreshold
      BY StaleDetectorConstants DEF NotActive
    <3>2. age' \in [Workers -> NotActive..StaleThreshold]
      BY <1>1, <2>1, <3>1 DEF RedisTypeOK
    <3>3. UNCHANGED <<owner, ownerTTL, session, taskOf, stateTTL>>
      BY <2>1
    <3> QED
      BY <1>1, <3>2, <3>3 DEF RedisTypeOK
  <2>5. DetectorTypeOK'
    BY <1>1, <1>2, <1>5, <2>1, <2>2 DEF DetectorTypeOK
  <2>6. ASSUME NEW w \in Safe PROVE Unaffected(w)
    <3>1. \A e \in Detectors : current'[e] = current[e] \/ current'[e].worker = None
      BY <1>1, <2>1 DEF DetectorTypeOK, Nobody
    <3>2. Unsuspected(w)'
      BY <1>4, <2>1, <2>3, <3>1 DEF Unsuspected
    <3>3. age'[w] = age[w]
      BY <1>1, <1>4, <2>1, <2>3 DEF RedisTypeOK
    <3> QED
      BY <2>1, <3>2, <3>3 DEF Unaffected
  <2> QED
    BY <1>2, <1>3, <2>4, <2>5, <2>6, Harmless
<1> QED
  BY <1>6, <1>7, <1>8

\* A failing command shortens the lists or ends the cycle.
LEMMA FailureKeeps == ASSUME FleetInv, NEW d \in Detectors, CommandFails(d) PROVE FleetInv'
<1>1. RedisTypeOK /\ FleetTypeOK /\ DetectorTypeOK
  BY FleetParts DEF FleetInv
<1>2. UNCHANGED <<redis, fleet>> /\ UNCHANGED <<leader, bead, slow, orphaned>>
  BY DEF CommandFails, AbandonCycle, SkipCleanup, SkipState, SkipOwner, lists
<1>3. bead' \in [Tasks -> {"open", "in_progress", "closed"}]
  BY <1>1, <1>2 DEF FleetTypeOK
<1>4. \A w \in Safe : w \in Workers /\ w # None /\ Unsuspected(w)
  BY <1>1, StaleDetectorConstants DEF FleetInv, FleetTypeOK, Safe, WorkerInv
<1>5. pc' \in [Detectors -> Locations]
  <2>1. \E l \in Locations : Goto(d, l)
    BY DEF Locations, CommandFails, AbandonCycle, SkipCleanup, SkipState, SkipOwner, NextWorker
  <2> QED
    BY <1>1, <2>1, Going
<1>6. due' \in [Detectors -> BOOLEAN] /\ faults' \in 0..MaxFaults
  <2>1. due' = due \/ due' = [due EXCEPT ![d] = due[d] /\ pc[d] # "asleep"]
    BY <1>1 DEF CommandFails, AbandonCycle, SkipCleanup, SkipState, SkipOwner, DetectorTypeOK
  <2>2. (due[d] /\ pc[d] # "asleep") \in BOOLEAN
    OBVIOUS
  <2>3. due' \in [Detectors -> BOOLEAN]
    BY <1>1, <2>1, <2>2 DEF DetectorTypeOK
  <2>4. faults' = faults + 1 /\ faults < MaxFaults
    BY DEF CommandFails
  <2> QED
    BY <1>1, <2>3, <2>4, StaleDetectorConstants DEF DetectorTypeOK
<1>7. /\ toRead' = toRead \/ \E w \in Workers : toRead' = [toRead EXCEPT ![d] = toRead[d] \ {w}]
      /\ found' = found \/ \E r \in found[d] : found' = [found EXCEPT ![d] = found[d] \ {r}]
      /\ current' = current \/ current' = [current EXCEPT ![d] = Nobody]
  BY <1>1 DEF CommandFails, AbandonCycle, SkipCleanup, SkipState, SkipOwner, lists, DetectorTypeOK
<1>8. toRead' \in [Detectors -> SUBSET Workers] /\ \A e \in Detectors : toRead'[e] \subseteq toRead[e]
  BY <1>1, <1>7 DEF DetectorTypeOK
<1>9. found' \in [Detectors -> SUBSET Stale] /\ \A e \in Detectors : found'[e] \subseteq found[e]
  BY <1>1, <1>7 DEF DetectorTypeOK
<1>10. /\ current' \in [Detectors -> Stale \union {Nobody}]
       /\ \A e \in Detectors : current'[e] = current[e] \/ current'[e].worker = None
  BY <1>1, <1>7 DEF DetectorTypeOK, Nobody
<1>11. DetectorTypeOK'
  BY <1>1, <1>2, <1>5, <1>6, <1>8, <1>9, <1>10 DEF DetectorTypeOK
<1>12. \A w \in Safe : Unsuspected(w)'
  BY <1>4, <1>8, <1>9, <1>10 DEF Unsuspected
<1> QED
  BY <1>2, <1>3, <1>11, <1>12, RedisStays

\* Every step keeps the invariant.
LEMMA FleetKeeps == ASSUME Timely PROVE FleetInv /\ [Next]_vars => FleetInv'
<1> SUFFICES ASSUME FleetInv, [Next]_vars PROVE FleetInv'
  OBVIOUS
<1>1. CASE UNCHANGED vars
  BY <1>1 DEF vars, FleetInv, TypeOK, Safe, WorkerInv, Unsuspected, KeepsItsTask
<1>2. ASSUME NEW w \in Workers, (\E t \in Tasks : ClaimTask(w, t)) \/ Heartbeat(w) \/ CompleteTask(w) \/ Crash(w)
      PROVE  FleetInv'
  BY <1>2, ClaimKeeps, HeartbeatKeeps, LeavingKeeps
<1>3. CASE Tick
  BY <1>3, TickKeeps
<1>4. ASSUME NEW d \in Detectors, RunCycle(d) \/ CommandFails(d) \/ Shutdown(d) \/ CheckLeadership(d) \/ DeleteLeaderKey(d)
      PROVE  FleetInv'
  <2>1. CASE RunCycle(d)
    BY <2>1, QuietStepsKeep, CleanupKeeps DEF RunCycle
  <2> QED
    BY <1>4, <2>1, QuietStepsKeep, FailureKeeps
<1> QED
  BY <1>1, <1>2, <1>3, <1>4 DEF Next

\* It holds at first.
LEMMA FleetInitially == Init => FleetInv
<1> SUFFICES ASSUME Init PROVE FleetInv
  OBVIOUS
<1>1. RedisTypeOK /\ FleetTypeOK
  <2>1. 0 \in 0..TTL /\ NotActive \in NotActive..StaleThreshold
    BY StaleDetectorConstants DEF NotActive
  <2>2. RedisTypeOK
    BY <2>1 DEF Init, RedisTypeOK
  <2> QED
    BY <2>2 DEF Init, FleetTypeOK
<1>2. DetectorTypeOK
  <2>1. leader \in [id : Detectors \union {None}, ttl : 0..LeaderTTL]
    BY StaleDetectorConstants DEF Init
  <2>2. /\ due \in [Detectors -> BOOLEAN] /\ pc \in [Detectors -> Locations]
        /\ toRead \in [Detectors -> SUBSET Workers] /\ orphaned \in [Detectors -> SUBSET Tasks]
    BY DEF Init, Locations
  <2>3. found \in [Detectors -> SUBSET Stale] /\ current \in [Detectors -> Stale \union {Nobody}]
    BY DEF Init
  <2>4. faults \in 0..MaxFaults
    BY StaleDetectorConstants DEF Init
  <2>5. slow = FALSE
    BY DEF Init
  <2> QED
    BY <2>1, <2>2, <2>3, <2>4, <2>5 DEF DetectorTypeOK
<1>3. TypeOK
  <2>1. HistoryTypeOK
    BY StaleDetectorConstants DEF Init, HistoryTypeOK
  <2> QED
    BY <1>1, <1>2, <2>1, FleetParts
<1>4. Safe = {}
  BY DEF Init, Safe
<1> QED
  BY <1>3, <1>4 DEF FleetInv

\* Workers that send their heartbeats in time keep their tasks, for any
\* number of workers, tasks and detectors and any lifetimes of keys: no scan,
\* cleanup, reconciliation, failure or change of leader takes one away, and
\* no two of them work on the same.
THEOREM TimelyWorkersKeep == ASSUME Timely PROVE Spec => []TimelyWorkersKeepTheirTask
<1>1. FleetInv => TimelyWorkersKeepTheirTask
  <2> SUFFICES ASSUME FleetInv, NEW w \in serving \ caught, doing[w] # None
               PROVE  /\ owner[doing[w]] = w /\ session[w] = "working" /\ taskOf[w] = doing[w]
                      /\ \A v \in serving \ (caught \union {w}) : doing[v] # doing[w]
    BY DEF TimelyWorkersKeepTheirTask
  <2>1. \A v \in serving \ caught : doing[v] # None => owner[doing[v]] = v
    BY DEF FleetInv, WorkerInv, KeepsItsTask, Safe
  <2> QED
    BY <2>1 DEF FleetInv, WorkerInv, KeepsItsTask, Safe
<1> QED
  BY <1>1, FleetInitially, FleetKeeps, PTL DEF Spec

-----------------------------------------------------------------------------
(* Auto mode.  Both of its promises need more than their own variables:    *)
(* the bound on fruitless sessions is a bound by the two counters, and     *)
(* what a session leaves in the lock file is its own only because the lock *)
(* was cleared when the session began.                                     *)

InSession == {"invoke", "blocked", "wait", "stream", "settle", "attached", "ended"}

AmFlagsOK == amSignal \in BOOLEAN /\ amShutdown \in BOOLEAN /\ idlePast \in BOOLEAN /\ claimedNow \in BOOLEAN
AmPlaceOK ==
  /\ cfg \in AmConfigs
  /\ amAt \in InSession \union {"start", "top", "pause", "nap", "exited"}
  /\ amChild \in {"none", "starting", "running", "stuck", "dead"}
  /\ amResult \in {"ok", "err"}
  /\ amLock \in {"absent", "empty", "task"}
AmCountsOK ==
  /\ tasksCompleted \in Nat /\ amClaims \in Nat /\ amWork \in Nat /\ amSupply \in Nat
  /\ amClaims + amWork + amSupply <= MaxSupply
  /\ consecutiveErrors \in 0..3 /\ consecutiveNoProgress \in 0..3
  /\ futile \in 0..FutileCap
FutileInv ==
  /\ futile <= 3 * consecutiveNoProgress + consecutiveErrors
  /\ amAt # "exited" => consecutiveErrors <= 2 /\ consecutiveNoProgress <= 2
  /\ consecutiveNoProgress = 3 => consecutiveErrors = 0
  /\ cfg.mode = "tmux" => consecutiveErrors = 0
ClaimInv ==
  /\ tasksCompleted <= amClaims
  /\ amAt \in InSession =>
       /\ claimedNow => tasksCompleted + 1 <= amClaims
       /\ amLock = "task" => claimedNow
AmInv == AmFlagsOK /\ AmPlaceOK /\ AmCountsOK /\ FutileInv /\ (cfg.lockHere => ClaimInv)

\* What most steps do: they leave the counters and the history alone, and
\* neither leave the exit nor enter a session nor put a task into the lock.
AmQuiet ==
  /\ UNCHANGED <<cfg, countVars, amHistory>>
  /\ AmFlagsOK' /\ AmPlaceOK'
  /\ amWork' \in Nat /\ amSupply' \in Nat /\ (amWork + amSupply)' = amWork + amSupply
  /\ amAt' # "exited" => amAt # "exited"
  /\ amAt' \in InSession => amAt \in InSession
  /\ amLock' = "task" => amLock = "task"

\* Such a step keeps the invariant.
LEMMA AmQuietKeeps == AmInv /\ AmQuiet => AmInv'
<1> SUFFICES ASSUME AmInv, AmQuiet PROVE AmInv'
  OBVIOUS
<1>1. /\ cfg' = cfg /\ tasksCompleted' = tasksCompleted /\ consecutiveErrors' = consecutiveErrors
      /\ consecutiveNoProgress' = consecutiveNoProgress /\ claimedNow' = claimedNow
      /\ amClaims' = amClaims /\ futile' = futile
  BY DEF AmQuiet, countVars, amHistory
<1>2. AmCountsOK'
  <2>1. MaxSupply \in Nat
    BY AutoModeConstants
  <2>6. AmCountsOK
    BY DEF AmInv
  <2>2. amWork \in Nat /\ amSupply \in Nat /\ amClaims \in Nat /\ amClaims + amWork + amSupply <= MaxSupply
    BY <2>6 DEF AmCountsOK
  <2>3. amWork' \in Nat /\ amSupply' \in Nat /\ (amWork + amSupply)' = amWork + amSupply
    BY DEF AmQuiet
  <2>4. ((amClaims + amWork) + amSupply)' <= MaxSupply
    <3>1. PICK v \in Nat, u \in Nat : v = amWork' /\ u = amSupply'
      BY <2>3
    <3>2. v + u = amWork + amSupply
      BY <2>3, <3>1
    <3>3. (amClaims + v) + u <= MaxSupply
      BY <2>1, <2>2, <3>2
    <3> QED
      BY <1>1, <3>1, <3>3
  <2>5. /\ tasksCompleted \in Nat /\ consecutiveErrors \in 0..3 /\ consecutiveNoProgress \in 0..3
        /\ futile \in 0..FutileCap
    BY DEF AmInv, AmCountsOK
  <2> QED
    BY <1>1, <2>2, <2>3, <2>4, <2>5 DEF AmCountsOK
<1>3. FutileInv'
  BY <1>1 DEF AmInv, AmQuiet, FutileInv
<1>4. ASSUME cfg.lockHere PROVE ClaimInv'
  <2>1. ClaimInv
    BY <1>4 DEF AmInv
  <2> QED
    BY <1>1, <2>1 DEF AmQuiet, ClaimInv
<1>5. cfg'.lockHere = cfg.lockHere
  BY <1>1
<1> QED
  BY <1>2, <1>3, <1>4, <1>5 DEF AmInv, AmQuiet

\* The loop ends in the same way wherever it ends.
LEMMA ExitLoopEnds ==
  ASSUME AmPlaceOK, ExitLoop
  PROVE  /\ amAt' = "exited" /\ amLock' \in {amLock, "absent"} /\ amChild' \in {amChild, "none"}
BY DEF ExitLoop, ExitWith, CleanupTmuxSession

\* The steps of the command that are quiet, up to the start of a session.
LEMMA BetweenSessionsQuiet ==
  ASSUME AmInv, RunCommand \/ StopAtTop \/ CheckFails \/ NoTasks \/ Sleep \/ SingleEnded
  PROVE  AmQuiet
<1>1. AmFlagsOK /\ AmPlaceOK /\ amWork \in Nat /\ amSupply \in Nat
  BY DEF AmInv, AmCountsOK
<1>2. CASE RunCommand
  BY <1>1, <1>2 DEF RunCommand, ExitWith, AmQuiet, AmPlaceOK, AmFlagsOK, amEnv, countVars, amHistory, InSession
<1>3. CASE StopAtTop
  BY <1>1, <1>3, ExitLoopEnds DEF StopAtTop, AmQuiet, AmPlaceOK, AmFlagsOK, amEnv, countVars, amHistory, InSession
<1>4. CASE CheckFails
  BY <1>1, <1>4 DEF CheckFails, Checking, OsExit, ExitWith, AmQuiet, AmPlaceOK, AmFlagsOK, countVars, amHistory, InSession
<1>5. CASE NoTasks
  BY <1>1, <1>5, ExitLoopEnds DEF NoTasks, Checking, AmQuiet, AmPlaceOK, AmFlagsOK, amEnv, countVars, amHistory, InSession
<1>6. CASE Sleep
  BY <1>1, <1>6, ExitLoopEnds DEF Sleep, AmQuiet, AmPlaceOK, AmFlagsOK, amEnv, countVars, amHistory, InSession
<1>7. CASE SingleEnded
  BY <1>1, <1>7, ExitLoopEnds DEF SingleEnded, OsExit, ExitWith, AmQuiet, AmPlaceOK, AmFlagsOK, amEnv, countVars, amHistory, InSession
<1> QED
  BY <1>2, <1>3, <1>4, <1>5, <1>6, <1>7

\* The quiet steps of a session that runs as a child process.
LEMMA ChildQuiet ==
  ASSUME AmInv, StartAgent \/ (\E r \in {"ok", "err"} : AgentReturns(r)) \/ LineTooLong
  PROVE  AmQuiet
<1>1. AmFlagsOK /\ AmPlaceOK /\ amWork \in Nat /\ amSupply \in Nat
  BY DEF AmInv, AmCountsOK
<1>2. CASE StartAgent
  BY <1>1, <1>2 DEF StartAgent, InvocationReturns, AmQuiet, AmPlaceOK, AmFlagsOK, amFiles, amEnv, countVars, amHistory, InSession
<1>3. ASSUME NEW r \in {"ok", "err"}, AgentReturns(r) PROVE AmQuiet
  BY <1>1, <1>3 DEF AgentReturns, InvocationReturns, AmQuiet, AmPlaceOK, AmFlagsOK, amFiles, amEnv, countVars, amHistory, InSession
<1>4. CASE LineTooLong
  BY <1>1, <1>4 DEF LineTooLong, AmQuiet, AmPlaceOK, AmFlagsOK, amFiles, amEnv, countVars, amHistory, InSession
<1> QED
  BY <1>2, <1>3, <1>4

\* The quiet steps of a session in tmux.
LEMMA TmuxQuiet ==
  ASSUME AmInv,
         \/ StartTmuxSession \/ DaemonMode \/ SessionExits \/ StreamTick \/ StreamShutdown
         \/ Settled \/ AttachKey \/ AttachReturns
  PROVE  AmQuiet
<1>1. AmFlagsOK /\ AmPlaceOK /\ amWork \in Nat /\ amSupply \in Nat
  BY DEF AmInv, AmCountsOK
<1>2. CASE StartTmuxSession
  BY <1>1, <1>2 DEF StartTmuxSession, AmQuiet, AmPlaceOK, AmFlagsOK, amFiles, countVars, amHistory, InSession
<1>3. CASE DaemonMode
  BY <1>1, <1>3 DEF DaemonMode, PaneEnds, AmQuiet, AmPlaceOK, AmFlagsOK, amEnv, countVars, amHistory, InSession
<1>4. CASE SessionExits
  BY <1>1, <1>4 DEF SessionExits, PaneEnds, AmQuiet, AmPlaceOK, AmFlagsOK, amFiles, amEnv, countVars, amHistory, InSession
<1>5. ASSUME NEW c, StreamEnds(c)
      PROVE  /\ amAt' = "ended" /\ amChild' \in {amChild, "none"}
             /\ UNCHANGED <<cfg, amResult, amLock, amEnv, idlePast, countVars, amHistory>>
  BY <1>5 DEF StreamEnds, CleanupTmuxSession
<1>6. CASE StreamTick
  <2>1. amAt = "stream" /\ amAt' \in {"settle", "ended"}
        /\ amChild' \in {amChild, "none"} /\ amSignal' \in {amSignal, FALSE}
        /\ UNCHANGED <<cfg, amResult, amLock, amEnv, idlePast, countVars, amHistory>>
    BY <1>5, <1>6 DEF StreamTick
  <2>2. AmFlagsOK'
    BY <1>1, <2>1, Zenon DEF AmFlagsOK, amEnv, amHistory
  <2>3. AmPlaceOK' /\ amAt \in InSession /\ amAt' # "exited"
    BY <1>1, <2>1 DEF AmPlaceOK, InSession
  <2>4. amWork' = amWork /\ amSupply' = amSupply
    BY <2>1 DEF amEnv
  <2> HIDE DEF AmFlagsOK, AmPlaceOK
  <2> QED
    BY <1>1, <2>1, <2>2, <2>3, <2>4 DEF AmQuiet, amEnv
<1>7. CASE StreamShutdown
  BY <1>1, <1>5, <1>7 DEF StreamShutdown, AmQuiet, AmPlaceOK, AmFlagsOK, amEnv, countVars, amHistory, InSession
<1>8. CASE Settled
  BY <1>1, <1>5, <1>8 DEF Settled, AmQuiet, AmPlaceOK, AmFlagsOK, amEnv, countVars, amHistory, InSession
<1>9. CASE AttachKey
  BY <1>1, <1>9 DEF AttachKey, AmQuiet, AmPlaceOK, AmFlagsOK, amFiles, amEnv, countVars, amHistory, InSession
<1>10. CASE AttachReturns
  BY <1>1, <1>5, <1>10 DEF AttachReturns, AmQuiet, AmPlaceOK, AmFlagsOK, amFiles, amEnv, countVars, amHistory, InSession
<1> QED
  BY <1>2, <1>3, <1>4, <1>6, <1>7, <1>8, <1>9, <1>10

\* The quiet steps of the agent and of the world.
LEMMA WorldQuiet ==
  ASSUME AmInv, RunComplete \/ TaskAppears \/ IdleTimeoutPasses \/ ShutdownSignal
  PROVE  AmQuiet
<1>1. AmFlagsOK /\ AmPlaceOK /\ amWork \in Nat /\ amSupply \in Nat
  BY DEF AmInv, AmCountsOK
<1>2. CASE RunComplete
  BY <1>1, <1>2 DEF RunComplete, AmQuiet, AmPlaceOK, AmFlagsOK, amEnv, countVars, amHistory, InSession
<1>3. CASE TaskAppears
  BY <1>1, <1>3 DEF TaskAppears, AmQuiet, AmPlaceOK, AmFlagsOK, amFiles, countVars, amHistory, InSession
<1>4. CASE IdleTimeoutPasses
  BY <1>1, <1>4 DEF IdleTimeoutPasses, AmQuiet, AmPlaceOK, AmFlagsOK, amFiles, amEnv, countVars, amHistory, InSession
<1>5. CASE ShutdownSignal
  BY <1>1, <1>5 DEF ShutdownSignal, AmQuiet, AmPlaceOK, AmFlagsOK, amFiles, countVars, amHistory, InSession
<1> QED
  BY <1>2, <1>3, <1>4, <1>5

\* A session begins with a lock that shows no task.
LEMMA TasksFoundKeeps == ASSUME AmInv, TasksFound PROVE AmInv'
<1>1. /\ AmFlagsOK /\ AmPlaceOK /\ AmCountsOK /\ FutileInv
  BY DEF AmInv
<1>2. /\ amAt = "top" /\ amAt' = "invoke" /\ idlePast' = FALSE /\ claimedNow' = FALSE
      /\ UNCHANGED <<cfg, amChild, amResult, amSignal, amEnv, countVars, amClaims, futile>>
  BY DEF TasksFound, Checking
<1>3. amLock' \in {"absent", "empty", "task"} /\ (cfg.lockHere => amLock' # "task")
  BY <1>1 DEF TasksFound, ClearLockTaskID, AmPlaceOK
<1>4. AmFlagsOK'
  BY <1>1, <1>2 DEF AmFlagsOK, amEnv
<1>5. AmPlaceOK'
  BY <1>1, <1>2, <1>3 DEF AmPlaceOK, InSession
<1>6. AmCountsOK' /\ FutileInv'
  BY <1>1, <1>2 DEF AmCountsOK, FutileInv, amEnv, countVars
<1>7. ASSUME cfg.lockHere PROVE ClaimInv'
  BY <1>2, <1>3, <1>7 DEF AmInv, ClaimInv, countVars
<1>8. cfg' = cfg
  BY <1>2
<1> QED
  BY <1>4, <1>5, <1>6, <1>7, <1>8 DEF AmInv

\* A claim counts once for its session.
LEMMA AgentClaimsKeeps == ASSUME AmInv, AgentClaims PROVE AmInv'
<1>1. /\ AmFlagsOK /\ AmPlaceOK /\ AmCountsOK /\ FutileInv
  BY DEF AmInv
<1>2. /\ amWork > 0 /\ amWork' = amWork - 1 /\ amLock' \in {"task", amLock}
      /\ claimedNow' = TRUE
      /\ UNCHANGED <<cfg, amAt, amChild, amResult, amSignal, amSupply, amShutdown, idlePast, countVars, futile>>
  BY DEF AgentClaims
<1>3. \/ claimedNow = TRUE /\ amClaims' = amClaims
      \/ claimedNow = FALSE /\ amClaims' = amClaims + 1
  BY <1>1 DEF AgentClaims, AmFlagsOK
<1>4. AmFlagsOK'
  BY <1>1, <1>2 DEF AmFlagsOK
<1>5. AmPlaceOK'
  BY <1>1, <1>2 DEF AmPlaceOK
<1>6. FutileInv'
  BY <1>1, <1>2 DEF FutileInv, countVars
<1>7. AmCountsOK'
  <2>1. MaxSupply \in Nat
    BY AutoModeConstants
  <2>2. amWork \in Nat /\ amSupply \in Nat /\ amClaims \in Nat /\ amClaims + amWork + amSupply <= MaxSupply
    BY <1>1 DEF AmCountsOK
  <2>3. amWork' \in Nat /\ amSupply' \in Nat /\ amClaims' \in Nat /\ ((amClaims + amWork) + amSupply)' <= MaxSupply
    BY <1>2, <1>3, <2>1, <2>2
  <2> QED
    BY <1>1, <1>2, <2>3 DEF AmCountsOK, countVars
<1>8. ASSUME cfg.lockHere PROVE ClaimInv'
  <2>1. ClaimInv /\ tasksCompleted \in Nat /\ amClaims \in Nat
    BY <1>1, <1>8 DEF AmInv, AmCountsOK
  <2>2. tasksCompleted' = tasksCompleted /\ amAt' = amAt
    BY <1>2 DEF countVars
  <2>3. CASE claimedNow = TRUE
    BY <1>2, <1>3, <2>1, <2>2, <2>3 DEF ClaimInv
  <2>4. CASE claimedNow = FALSE
    BY <1>2, <1>3, <2>1, <2>2, <2>4 DEF ClaimInv
  <2> QED
    BY <1>3, <2>3, <2>4
<1>9. cfg' = cfg
  BY <1>2
<1> QED
  BY <1>4, <1>5, <1>6, <1>7, <1>8, <1>9 DEF AmInv

\* A session that did not end well counts against one of the two limits.
LEMMA FutileStep == ASSUME AmCountsOK, Futile PROVE futile' \in 0..FutileCap /\ futile' <= futile + 1
<1>1. futile \in 0..FutileCap /\ FutileCap = 10
  BY DEF AmCountsOK, FutileCap
<1> QED
  BY <1>1 DEF Futile

\* The end of a session, as far as the counters go: a counted task, an error
\* or a session without progress.
AmEnded ==
  /\ UNCHANGED <<cfg, amEnv, claimedNow, amClaims>>
  /\ amAt = "ended" /\ amAt' \notin InSession
  /\ \/ /\ AgentClaimedTask /\ tasksCompleted' = tasksCompleted + 1
        /\ consecutiveNoProgress' = 0 /\ futile' = 0 /\ consecutiveErrors' \in {0, consecutiveErrors}
     \/ /\ cfg.mode # "tmux"
        /\ tasksCompleted' = tasksCompleted /\ Futile
        /\ consecutiveErrors' = consecutiveErrors + 1 /\ consecutiveNoProgress' = consecutiveNoProgress
        /\ consecutiveErrors + 1 >= 3 => amAt' = "exited"
     \/ /\ tasksCompleted' = tasksCompleted /\ Futile
        /\ consecutiveErrors' = 0 /\ consecutiveNoProgress' = consecutiveNoProgress + 1
        /\ consecutiveNoProgress + 1 >= 3 => amAt' = "exited"
     \/ UNCHANGED countVars /\ UNCHANGED futile

\* Such an end keeps the counters within their bounds and counts no task that
\* the session did not claim.
LEMMA AmEndedKeeps ==
  ASSUME AmInv, AmEnded, AmFlagsOK', AmPlaceOK'
  PROVE  AmInv'
<1> DEFINE E == consecutiveErrors
           N == consecutiveNoProgress
<1>1. /\ AmCountsOK /\ E \in 0..2 /\ N \in 0..2 /\ futile \in Nat /\ futile <= 3 * N + E
      /\ tasksCompleted \in Nat /\ amClaims \in Nat
      /\ cfg.mode = "tmux" => E = 0
  BY DEF AmInv, AmEnded, AmCountsOK, FutileInv
<1>2. /\ cfg' = cfg /\ amClaims' = amClaims /\ claimedNow' = claimedNow
      /\ amWork' = amWork /\ amSupply' = amSupply /\ amAt' \notin InSession
  BY DEF AmEnded, amEnv
<1>3. ASSUME AgentClaimedTask, tasksCompleted' = tasksCompleted + 1,
             N' = 0, futile' = 0, E' \in {0, E}
      PROVE  AmCountsOK' /\ FutileInv' /\ (cfg.lockHere => ClaimInv')
  <2>1. AmCountsOK'
    BY <1>1, <1>2, <1>3 DEF AmCountsOK, FutileCap
  <2>2. FutileInv'
    <3>1. PICK e \in 0..2 : e = E'
      BY <1>1, <1>3
    <3>2. cfg.mode = "tmux" => e = 0
      BY <1>1, <1>3, <3>1
    <3>3. futile' = 0 /\ consecutiveNoProgress' = 0 /\ consecutiveErrors' = e /\ cfg' = cfg
      BY <1>2, <1>3, <3>1
    <3> HIDE DEF E, N
    <3>4. futile' <= (3 * consecutiveNoProgress + consecutiveErrors)'
      BY <3>3
    <3> QED
      BY <3>2, <3>3, <3>4 DEF FutileInv
  <2>3. ASSUME cfg.lockHere PROVE ClaimInv'
    <3>1. ClaimInv /\ amAt \in InSession /\ amLock = "task"
      BY <1>3, <2>3 DEF AmInv, AmEnded, InSession, AgentClaimedTask
    <3>2. tasksCompleted + 1 <= amClaims
      BY <3>1 DEF ClaimInv
    <3> QED
      BY <1>2, <1>3, <3>2 DEF ClaimInv
  <2> QED
    BY <2>1, <2>2, <2>3
<1>4. ASSUME tasksCompleted' = tasksCompleted PROVE cfg.lockHere => ClaimInv'
  BY <1>2, <1>4 DEF AmInv, ClaimInv
<1>5. ASSUME cfg.mode # "tmux", Futile, E' = E + 1, N' = N, tasksCompleted' = tasksCompleted,
             E + 1 >= 3 => amAt' = "exited"
      PROVE  AmCountsOK' /\ FutileInv'
  <2>1. futile' \in 0..FutileCap /\ futile' <= futile + 1
    BY <1>1, <1>5, FutileStep
  <2>2. futile' <= (3 * N + E)'
    BY <1>1, <1>5, <2>1 DEF FutileCap
  <2>3. AmCountsOK'
    BY <1>1, <1>2, <1>5, <2>1 DEF AmCountsOK
  <2> QED
    BY <1>1, <1>2, <1>5, <2>2, <2>3 DEF FutileInv
<1>6. ASSUME Futile, E' = 0, N' = N + 1, tasksCompleted' = tasksCompleted,
             N + 1 >= 3 => amAt' = "exited"
      PROVE  AmCountsOK' /\ FutileInv'
  <2>1. futile' \in 0..FutileCap /\ futile' <= futile + 1
    BY <1>1, <1>6, FutileStep
  <2>2. futile' <= (3 * N + E)'
    BY <1>1, <1>6, <2>1 DEF FutileCap
  <2>3. AmCountsOK'
    BY <1>1, <1>2, <1>6, <2>1 DEF AmCountsOK
  <2> QED
    BY <1>1, <1>2, <1>6, <2>2, <2>3 DEF FutileInv
<1>7. ASSUME UNCHANGED countVars, UNCHANGED futile PROVE AmCountsOK' /\ FutileInv' /\ tasksCompleted' = tasksCompleted
  BY <1>1, <1>2, <1>7 DEF AmInv, AmCountsOK, FutileInv, countVars
<1>8. AmCountsOK' /\ FutileInv' /\ (cfg.lockHere => ClaimInv')
  BY <1>3, <1>4, <1>5, <1>6, <1>7 DEF AmEnded
<1> QED
  BY <1>2, <1>8 DEF AmInv

\* The end of a session in either loop.
LEMMA SessionEndedKeeps == ASSUME AmInv, LoopSessionEnded \/ TmuxSessionEnded PROVE AmInv'
<1>1. AmFlagsOK /\ AmPlaceOK /\ AmCountsOK /\ (cfg.mode = "tmux" => consecutiveErrors = 0)
  BY DEF AmInv, FutileInv
<1>2. amAt = "ended" /\ UNCHANGED <<cfg, amSignal, amEnv, idlePast, claimedNow, amClaims>>
  BY DEF LoopSessionEnded, TmuxSessionEnded
<1>3. amResult' \in {"ok", amResult}
  BY DEF LoopSessionEnded, TmuxSessionEnded
<1>4. /\ amAt' \in {"pause", "nap", "exited"} /\ amLock' \in {amLock, "absent"} /\ amChild' \in {amChild, "none"}
  BY <1>1, ExitLoopEnds DEF LoopSessionEnded, TmuxSessionEnded, CountError, CountNoProgress
<1>5. AmFlagsOK'
  BY <1>1, <1>2 DEF AmFlagsOK, amEnv
<1>6. AmPlaceOK'
  BY <1>1, <1>2, <1>3, <1>4 DEF AmPlaceOK
<1>7. AmEnded
  <2>1. CASE LoopSessionEnded /\ amResult = "err"
    BY <1>1, <1>2, <1>4, <2>1, ExitLoopEnds DEF LoopSessionEnded, CountError, AmEnded, InSession
  <2>2. CASE LoopSessionEnded /\ amResult # "err"
    BY <1>1, <1>2, <1>4, <2>2, ExitLoopEnds DEF LoopSessionEnded, CountTask, CountNoProgress, AmEnded, InSession
  <2>3. CASE TmuxSessionEnded
    BY <1>1, <1>2, <1>4, <2>3, ExitLoopEnds DEF TmuxSessionEnded, CountTask, CountNoProgress, AmEnded, InSession, countVars
  <2> QED
    BY <2>1, <2>2, <2>3
<1> QED
  BY <1>5, <1>6, <1>7, AmEndedKeeps

\* The invariant of auto mode is inductive.
LEMMA AmKeeps == AmInv /\ [AmNext]_amVars => AmInv'
<1> SUFFICES ASSUME AmInv, [AmNext]_amVars PROVE AmInv'
  OBVIOUS
<1>1. CASE UNCHANGED amVars
  BY <1>1 DEF amVars, amFiles, amEnv, countVars, amHistory, AmInv, AmFlagsOK, AmPlaceOK, AmCountsOK, FutileInv, ClaimInv
<1>2. CASE AmNext
  BY <1>2, AmQuietKeeps, BetweenSessionsQuiet, ChildQuiet, TmuxQuiet, WorldQuiet,
     TasksFoundKeeps, AgentClaimsKeeps, SessionEndedKeeps DEF AmNext, CommandSteps
<1> QED
  BY <1>1, <1>2

\* It holds at first.
LEMMA AmInitially == AmInit => AmInv
<1> SUFFICES ASSUME AmInit PROVE AmInv
  OBVIOUS
<1>1. MaxSupply \in Nat
  BY AutoModeConstants
<1>2. AmFlagsOK /\ AmPlaceOK
  BY DEF AmInit, AmFlagsOK, AmPlaceOK
<1>3. AmCountsOK /\ FutileInv
  BY <1>1 DEF AmInit, AmCountsOK, FutileInv, FutileCap
<1>4. ClaimInv
  BY DEF AmInit, ClaimInv, InSession
<1> QED
  BY <1>2, <1>3, <1>4 DEF AmInv

\* The command's state is typed: among others neither counter passes its
\* limit, and no more sessions claim than tasks have appeared.
THEOREM AmTypeCorrect == AmSpec => []AmTypeOK
<1>1. AmInv => AmTypeOK
  <2> SUFFICES ASSUME AmInv PROVE AmTypeOK
    OBVIOUS
  <2>1. MaxSupply \in Nat
    BY AutoModeConstants
  <2>2. amClaims \in 0..MaxSupply
    BY <2>1 DEF AmInv, AmCountsOK
  <2>3. {amSignal, amShutdown, idlePast, claimedNow} \subseteq BOOLEAN
    BY DEF AmInv, AmFlagsOK
  <2> QED
    BY <2>2, <2>3 DEF AmTypeOK, AmInv, AmPlaceOK, AmCountsOK, InSession
<1> QED
  BY <1>1, AmInitially, AmKeeps, PTL DEF AmSpec

\* Whatever the agents do, no more than nine sessions in a row end without a
\* counted task, for any number of tasks and any --max-tasks.
THEOREM AutoModeGivesUpOnFutility == AmSpec => []FutileSessionsAreBounded
<1>1. AmInv => FutileSessionsAreBounded
  BY DEF AmInv, AmCountsOK, FutileInv, FutileSessionsAreBounded
<1> QED
  BY <1>1, AmInitially, AmKeeps, PTL DEF AmSpec

\* With its lock in the worktree, auto mode counts no task that none of its
\* sessions claimed.
THEOREM CountsAreClaims == AmSpec => []CountedWorkWasClaimed
<1>1. AmInv => CountedWorkWasClaimed
  BY DEF AmInv, ClaimInv, CountedWorkWasClaimed
<1> QED
  BY <1>1, AmInitially, AmKeeps, PTL DEF AmSpec

-----------------------------------------------------------------------------
(* The task router.                                                        *)

Issues == FirstIssues \union OtherIssues
Matches(c) == {i \in DOMAIN readyIssues : MatchTask(readyIssues[i], c) > 0}
RouterInv ==
  /\ readyIssues \in {<<i, j>> : i \in FirstIssues, j \in OtherIssues}
  /\ constraints \in Constraints
  /\ RouterNeverStarves

\* The score of an issue that no rule rejects is positive, and every issue
\* with one of the role's skills scores above every issue with none.
LEMMA ScoreSeparates ==
  ASSUME NEW issue \in Issues, NEW c \in Constraints
  PROVE  /\ SkillScore(issue, c) \in Int /\ SkillScore(issue, c) > 0
         /\ c.skills \cap issue.labels # {} => SkillScore(issue, c) >= 150
         /\ c.skills # {} /\ c.skills \cap issue.labels = {} => SkillScore(issue, c) = 10
<1> DEFINE n == CountSkillMatches(issue.labels, c.skills)
           k == Clamp(20 - 4 * issue.priority, 0, 20)
<1>1. IsFiniteSet(issue.labels) /\ issue.priority \in Int
  BY RouterAssumption DEF Issues, NoCap
<1>2. IsFiniteSet(issue.labels \cap c.skills)
  BY <1>1, FS_Subset, Zenon
<1>3. n \in Nat
  BY <1>2, FS_CardinalityType DEF CountSkillMatches
<1>4. n = 0 <=> issue.labels \cap c.skills = {}
  BY <1>2, FS_EmptySet, Zenon DEF CountSkillMatches
<1>5. k \in 0..20
  BY <1>1 DEF Clamp
<1>6. SkillScore(issue, c) = IF c.skills # {} /\ n = 0 THEN 10 ELSE 100 + 50 * n + k
  BY DEF SkillScore
<1>7. c.skills \cap issue.labels = issue.labels \cap c.skills /\ (c.skills = {} => issue.labels \cap c.skills = {})
  OBVIOUS
<1> HIDE DEF n, k
<1> QED
  BY <1>3, <1>4, <1>5, <1>6, <1>7

\* The rules of the router reject exactly what the predicates of the task
\* filter and the cap reject.
LEMMA MatchMeansWorkable ==
  ASSUME NEW issue \in Issues, NEW c \in Constraints
  PROVE  /\ MatchTask(issue, c) \in Int
         /\ MatchTask(issue, c) > 0 <=>
              /\ issue.priority <= c.maxPriority
              /\ CASE c.filter = "needs_plan" -> IsAvailableForPlanning(issue)
                   [] c.filter = "any" -> IsAvailableForAny(issue)
                   [] OTHER -> IsAvailableForImplementation(issue)
         /\ MatchTask(issue, c) > 0 => MatchTask(issue, c) = SkillScore(issue, c)
<1>1. SkillScore(issue, c) \in Int /\ SkillScore(issue, c) > 0
  BY ScoreSeparates
<1>2. issue.priority \in Int /\ c.maxPriority \in Int
  BY RouterAssumption DEF Issues, NoCap
<1>3. issue.priority > c.maxPriority <=> ~(issue.priority <= c.maxPriority)
  BY <1>2
<1> DEFINE Free == ~IsEpic(issue) /\ IsOpen(issue) /\ ~HasUnclosedBlockers(issue.deps)
<1>4. MatchTask(issue, c) = IF Free /\ PassesFilter(issue, c.filter) /\ issue.priority <= c.maxPriority
                            THEN SkillScore(issue, c) ELSE 0
  BY <1>3 DEF MatchTask
<1>5. /\ IsAvailableForAny(issue) <=> Free
      /\ IsAvailableForPlanning(issue) <=> Free /\ NeedsPlan(issue)
      /\ IsAvailableForImplementation(issue) <=> Free /\ ReadyToImplement(issue)
  BY DEF IsAvailableForAny, IsAvailableForPlanning, IsAvailableForImplementation, IsWorkableTask
<1>6. Free /\ PassesFilter(issue, c.filter) <=>
        CASE c.filter = "needs_plan" -> IsAvailableForPlanning(issue)
          [] c.filter = "any" -> IsAvailableForAny(issue)
          [] OTHER -> IsAvailableForImplementation(issue)
  BY <1>5 DEF PassesFilter
<1> HIDE DEF Free
<1> QED
  BY <1>1, <1>4, <1>6

\* Of two ready issues that match, one comes before the other: there is a
\* best match to choose.
LEMMA BestMatchExists ==
  ASSUME RouterInv, NEW c \in Constraints, Matches(c) # {}
  PROVE  /\ SelectBestTask(c) \in Matches(c)
         /\ \A j \in Matches(c) : Before(SelectBestTask(c), j, c)
<1>1. DOMAIN readyIssues = {1, 2} /\ readyIssues[1] \in Issues /\ readyIssues[2] \in Issues
  BY DEF RouterInv, Issues
<1>2. \A i \in {1, 2} : MatchTask(readyIssues[i], c) \in Int /\ readyIssues[i].priority \in Int
  BY <1>1, MatchMeansWorkable, RouterAssumption DEF Issues, NoCap
<1>3. Before(1, 1, c) /\ Before(2, 2, c) /\ (Before(1, 2, c) \/ Before(2, 1, c))
  BY <1>2 DEF Before
<1>4. Matches(c) \subseteq {1, 2}
  BY <1>1 DEF Matches
<1>5. \E i \in Matches(c) : \A j \in Matches(c) : Before(i, j, c)
  BY <1>3, <1>4
<1>6. SelectBestTask(c) = CHOOSE i \in Matches(c) : \A j \in Matches(c) : Before(i, j, c)
  BY DEF SelectBestTask, Matches
<1> QED
  BY <1>5, <1>6

\* The check keeps the invariant.
LEMMA RouterKeeps == RouterInv /\ [RouterNext]_routerVars => RouterInv'
<1> SUFFICES ASSUME RouterInv, [RouterNext]_routerVars PROVE RouterInv'
  OBVIOUS
<1>1. CASE UNCHANGED routerVars
  <2>1. readyIssues' = readyIssues /\ constraints' = constraints /\ selected' = selected
    BY <1>1 DEF routerVars
  <2> QED
    BY <2>1 DEF RouterInv, RouterNeverStarves, Workable, Skilled
<1>2. CASE DefaultCheck
  <2>1. readyIssues' = readyIssues /\ constraints' = constraints /\ ~Routed(constraints)
    BY <1>2 DEF DefaultCheck
  <2>2. ~Routed(constraints')
    BY <2>1
  <2> QED
    BY <2>1, <2>2 DEF RouterInv, RouterNeverStarves
<1>3. CASE RouterCheck
  <2>1. PICK c \in Constraints : c = constraints
    BY DEF RouterInv
  <2>2. readyIssues' = readyIssues /\ constraints' = c /\ selected' = SelectBestTask(c)
    BY <1>3, <2>1 DEF RouterCheck
  <2>3. DOMAIN readyIssues = {1, 2} /\ readyIssues[1] \in Issues /\ readyIssues[2] \in Issues
    BY DEF RouterInv, Issues
  <2>4. Workable(c) = Matches(c)
    BY <2>3, MatchMeansWorkable DEF Workable, Matches
  <2>5. (Workable(c) = {} => SelectBestTask(c) = 0) /\ (Workable(c) # {} => SelectBestTask(c) \in Workable(c))
    BY <2>4, BestMatchExists DEF SelectBestTask, Matches
  <2>6. Workable(c) \subseteq {1, 2}
    BY <2>3 DEF Workable
  <2>7. ASSUME Skilled(c) # {} PROVE SelectBestTask(c) \in Skilled(c)
    <3>1. PICK j \in Skilled(c) : TRUE
      BY <2>7
    <3>2. j \in Matches(c) /\ j \in {1, 2} /\ c.skills \cap readyIssues[j].labels # {} /\ c.skills # {}
      BY <2>4, <2>6, <3>1 DEF Skilled
    <3>3. PICK i \in Matches(c) : i = SelectBestTask(c) /\ Before(i, j, c)
      BY <3>2, BestMatchExists
    <3>4. i \in {1, 2}
      BY <2>4, <2>6, <3>3
    <3> DEFINE si == MatchTask(readyIssues[i], c)
               sj == MatchTask(readyIssues[j], c)
    <3>5. si \in Int /\ sj \in Int /\ si >= sj
      BY <2>3, <3>2, <3>3, <3>4, MatchMeansWorkable DEF Before
    <3>6. sj >= 150
      BY <2>3, <3>2, MatchMeansWorkable, ScoreSeparates DEF Matches
    <3>7. c.skills \cap readyIssues[i].labels = {} => si = 10
      BY <2>3, <3>2, <3>3, <3>4, MatchMeansWorkable, ScoreSeparates DEF Matches
    <3>8. c.skills \cap readyIssues[i].labels # {}
      BY <3>5, <3>6, <3>7
    <3> QED
      BY <2>4, <3>3, <3>8 DEF Skilled
  <2>8. /\ (SelectBestTask(c) = 0) <=> (Workable(c) = {})
        /\ SelectBestTask(c) # 0 => /\ SelectBestTask(c) \in Workable(c)
                                    /\ Skilled(c) # {} => SelectBestTask(c) \in Skilled(c)
    BY <2>5, <2>6, <2>7
  <2>9. Workable(c)' = Workable(c) /\ Skilled(c)' = Skilled(c)
    BY <2>2 DEF Workable, Skilled
  <2>10. RouterNeverStarves'
    <3>1. Workable(constraints)' = Workable(c) /\ Skilled(constraints)' = Skilled(c)
      BY <2>2, <2>9 DEF Workable, Skilled
    <3> QED
      BY <2>2, <2>8, <3>1 DEF RouterNeverStarves
  <2> QED
    BY <2>1, <2>2, <2>10 DEF RouterInv
<1> QED
  BY <1>1, <1>2, <1>3 DEF RouterNext

\* For any two ready issues and any constraints of a role, the router finds
\* work exactly when the task filter's predicates and the priority cap leave
\* some, and prefers the role's skills without requiring them.
THEOREM TheRouterNeverStarves == RouterSpec => []RouterNeverStarves
<1>1. RouterInit => RouterInv
  BY DEF RouterInit, RouterInv, RouterNeverStarves
<1>2. RouterInv => RouterNeverStarves
  BY DEF RouterInv
<1> QED
  BY <1>1, <1>2, RouterKeeps, PTL DEF RouterSpec
=============================================================================

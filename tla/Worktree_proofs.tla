--------------------------- MODULE Worktree_proofs --------------------------
(***************************************************************************)
(* Proofs about a worktree: the agents that follow one another in it and   *)
(* the recovery that runs between them, and the git commands.              *)
(***************************************************************************)
EXTENDS AgentRecovery, GitFlow, SequenceTheorems, TLAPS

-----------------------------------------------------------------------------
(* Agents and recovery.  The inductive invariant: a process that is at     *)
(* work is the one the lock names; nobody is between spawning and locking  *)
(* unless the daemon waits for it; the process RecoverWorktree looks at is *)
(* the one the lock names until it removes the lock; and from there on to  *)
(* the next spawn no process is alive.  What another worktree's recovery   *)
(* takes from a working process is in seized until that process is done.   *)

LockRecord == [pid : PIDs \union {NoPID}, task : Tasks \union {NoTask}]

StageInv ==
  /\ \A i \in PIDs : i > crashes => stage[i] = "none"
  /\ \A i \in PIDs : stage[i] = "starting" => i = crashes /\ daemon = "wait"
  /\ \A i \in PIDs : stage[i] \in HasLock => lock.pid = i

OwnedInv ==
  \A i \in PIDs :
    /\ Working(i) => mine[i] \in Tasks
    /\ Working(i) /\ mine[i] \notin seized =>
         status[mine[i]] = "in_progress" /\ assignee[mine[i]] = "agent"
    /\ mine[i] # NoTask => Working(i)

Quiet == {"lockTask", "list", "show", "update", "recovered", "gone"}

RecoveryInv ==
  /\ daemon \in {"kill", "unlink"} => lockInfo.pid = lock.pid /\ lock.pid \in PIDs
  /\ daemon = "unlink" => stage[lock.pid] \notin Live
  /\ daemon \in Quiet => \A i \in PIDs : stage[i] \notin Live
  /\ daemon = "update" => current \in Tasks
  /\ daemon = "down" => crashes < MaxCrashes

RecInv == TypeOK /\ StageInv /\ OwnedInv /\ RecoveryInv /\ CheckpointMatches

\* The stages of a living process.
LEMMA LiveStages == Live = HasLock \cup {"starting"} /\ "starting" \notin HasLock
BY DEF Live, HasLock

\* PIDs are numbers, and NoPID is none of them.
LEMMA PIDFacts == PIDs \subseteq Nat /\ NoPID \notin PIDs /\ PIDs = 0..MaxCrashes
BY RecoveryConstants DEF PIDs, NoPID

\* Lock acquisition.
LEMMA AcquireKeeps == ASSUME RecInv, NEW i \in PIDs, AcquireLock(i) PROVE RecInv'
<1> USE PIDFacts, LiveStages
<1>0. /\ stage[i] = "starting" /\ i = crashes /\ daemon = "wait"
      /\ UNCHANGED <<status, assignee, mine, daemon, crashes, exitCode, lockInfo, pending, current, checkpoint, aside>>
  BY DEF AcquireLock, RecInv, StageInv, tasks, recovery
<1>1. CASE lock.pid # NoPID /\ stage[lock.pid] \in Live
  <2>1. stage' = [stage EXCEPT ![i] = "exit1"] /\ UNCHANGED lock
    BY <1>1 DEF AcquireLock, SetStage
  <2>2. TypeOK'
    BY <1>0, <2>1 DEF RecInv, TypeOK, Stages, aside
  <2>3. stage'[i] = "exit1" /\ \A j \in PIDs \ {i} : stage'[j] = stage[j]
    BY <2>1 DEF RecInv, TypeOK
  <2>4. StageInv'
    BY <1>0, <2>1, <2>3 DEF RecInv, StageInv, HasLock, Live
  <2>4a. OwnedInv' /\ CheckpointMatches'
    BY <1>0, <2>1, <2>3 DEF RecInv, OwnedInv, Working, CheckpointMatches, Child, aside
  <2>5. RecoveryInv'
    BY <1>0 DEF RecoveryInv, Quiet
  <2> QED
    BY <2>2, <2>4, <2>4a, <2>5 DEF RecInv
<1>2. CASE ~(lock.pid # NoPID /\ stage[lock.pid] \in Live)
  <2>1. stage' = [stage EXCEPT ![i] = "locked"] /\ lock' = [pid |-> i, task |-> NoTask]
    BY <1>2 DEF AcquireLock, SetStage
  <2>2. TypeOK'
    BY <1>0, <2>1 DEF RecInv, TypeOK, Stages, aside
  <2>3. stage'[i] = "locked" /\ (\A j \in PIDs \ {i} : stage'[j] = stage[j]) /\ lock'.pid = i
    BY <2>1 DEF RecInv, TypeOK
  <2>4. \A j \in PIDs : stage[j] \notin HasLock
    BY <1>2 DEF RecInv, StageInv
  <2>5. StageInv' /\ OwnedInv' /\ CheckpointMatches'
    BY <1>0, <2>3, <2>4 DEF RecInv, StageInv, OwnedInv, Working, HasLock, CheckpointMatches, Child, aside
  <2>6. RecoveryInv'
    BY <1>0 DEF RecoveryInv, Quiet
  <2> QED
    BY <2>2, <2>5, <2>6 DEF RecInv
<1> QED
  BY <1>1, <1>2

\* A step of a process that holds the lock: it stays alive and keeps the lock,
\* or exits.
LEMMA HolderKeeps ==
  ASSUME RecInv, NEW i \in PIDs, stage[i] \in HasLock, NEW s \in Stages, s \notin {"none", "starting"},
         stage' = [stage EXCEPT ![i] = s], lock'.pid = lock.pid,
         UNCHANGED <<daemon, crashes, exitCode, lockInfo, pending, current>>
  PROVE  StageInv' /\ RecoveryInv' /\ (\A j \in PIDs \ {i} : stage'[j] = stage[j] /\ stage[j] \notin HasLock) /\ stage'[i] = s
<1> USE PIDFacts, LiveStages
<1>1. stage'[i] = s /\ \A j \in PIDs \ {i} : stage'[j] = stage[j]
  BY DEF RecInv, TypeOK
<1>2. lock.pid = i /\ \A j \in PIDs \ {i} : stage[j] \notin HasLock
  BY DEF RecInv, StageInv
<1>3. StageInv'
  BY <1>1, <1>2 DEF RecInv, StageInv, HasLock, Live
<1>4. daemon \notin Quiet /\ daemon # "unlink"
  BY <1>2 DEF RecInv, RecoveryInv
<1>5. RecoveryInv'
  BY <1>4 DEF RecInv, RecoveryInv, Quiet
<1> QED
  BY <1>1, <1>2, <1>3, <1>5

\* Claiming, recording the claim, finishing.
LEMMA WorkKeeps ==
  ASSUME RecInv, NEW i \in PIDs,
         \/ RecordClaim(i) \/ (\E t \in Tasks : ClaimTask(i, t)) \/ (\E s \in Finals : FinishTask(i, s))
  PROVE  RecInv'
<1> USE PIDFacts, LiveStages
<1>1. CASE RecordClaim(i)
  <2>0. /\ stage[i] = "claimed" /\ stage' = [stage EXCEPT ![i] = "working"]
        /\ UNCHANGED <<status, assignee, mine, daemon, crashes, exitCode, lockInfo, pending, current, aside>>
    BY <1>1 DEF RecordClaim, SetStage, tasks, recovery
  <2>1. lock.pid = i /\ mine[i] \in Tasks /\ stage[i] \in HasLock
    BY <2>0 DEF RecInv, StageInv, OwnedInv, Working, HasLock, Live
  <2>2. lock' = [lock EXCEPT !.task = mine[i]] /\ checkpoint' = CheckpointAfterClaim(mine[i])
    BY <1>1, <2>1 DEF RecordClaim
  <2>3. lock' \in LockRecord /\ lock'.pid = lock.pid
    BY <2>1, <2>2 DEF RecInv, TypeOK, LockRecord
  <2>4. checkpoint' \in {NoTask, mine[i]} /\ checkpoint' \in Tasks \cup {NoTask}
    BY <2>1, <2>2 DEF CheckpointAfterClaim
  <2>5. TypeOK'
    BY <2>0, <2>3, <2>4 DEF RecInv, TypeOK, LockRecord, Stages, aside
  <2>6. "working" \in Stages /\ "working" \notin {"none", "starting"}
    BY DEF Stages
  <2>7. /\ StageInv' /\ RecoveryInv' /\ stage'[i] = "working"
        /\ \A j \in PIDs \ {i} : stage'[j] = stage[j] /\ stage[j] \notin HasLock
    BY <2>0, <2>1, <2>3, <2>6, HolderKeeps
  <2>8. OwnedInv'
    BY <2>0, <2>7 DEF RecInv, OwnedInv, Working, aside
  <2>9. CheckpointMatches'
    BY <2>0, <2>4, <2>7 DEF CheckpointMatches, Child, HasLock, Live, RecInv, TypeOK
  <2> QED
    BY <2>5, <2>7, <2>8, <2>9 DEF RecInv
<1>2. ASSUME NEW t \in Tasks, ClaimTask(i, t) PROVE RecInv'
  <2>0. /\ stage[i] = "locked" /\ stage' = [stage EXCEPT ![i] = "claimed"] /\ status[t] = "open"
        /\ status' = [status EXCEPT ![t] = "in_progress"] /\ assignee' = [assignee EXCEPT ![t] = "agent"]
        /\ mine' = [mine EXCEPT ![i] = t] /\ seized' = seized \ {t}
        /\ UNCHANGED <<lock, daemon, crashes, exitCode, lockInfo, pending, current, checkpoint, otherReset, incomplete>>
    BY <1>2 DEF ClaimTask, SetStage, SetTask, recovery
  <2>1. stage[i] \in HasLock /\ "claimed" \in Stages /\ "claimed" \notin {"none", "starting"}
    BY <2>0 DEF HasLock, Live, Stages
  <2>2. /\ StageInv' /\ RecoveryInv' /\ stage'[i] = "claimed"
        /\ \A j \in PIDs \ {i} : stage'[j] = stage[j] /\ stage[j] \notin HasLock
    BY <2>0, <2>1, HolderKeeps
  <2>3. TypeOK'
    BY <2>0, <2>1 DEF RecInv, TypeOK, Statuses, People
  <2>4. mine'[i] = t /\ status'[t] = "in_progress" /\ assignee'[t] = "agent"
    BY <2>0 DEF RecInv, TypeOK
  <2>5. OwnedInv'
    <3>1. \A j \in PIDs \ {i} : mine'[j] = NoTask /\ ~Working(j)'
      BY <2>0, <2>2 DEF RecInv, TypeOK, OwnedInv, Working, HasLock, Live
    <3> QED
      BY <2>2, <2>4, <3>1 DEF OwnedInv, Working
  <2>6. CheckpointMatches'
    BY <2>0, <2>2 DEF CheckpointMatches, Child, HasLock, Live, RecInv, TypeOK
  <2> QED
    BY <2>2, <2>3, <2>5, <2>6 DEF RecInv
<1>3. ASSUME NEW s \in Finals, FinishTask(i, s) PROVE RecInv'
  <2>0. /\ stage[i] \in {"claimed", "working"} /\ stage' = [stage EXCEPT ![i] = "finished"]
        /\ status' = [status EXCEPT ![mine[i]] = s] /\ assignee' = [assignee EXCEPT ![mine[i]] = assignee[mine[i]]]
        /\ mine' = [mine EXCEPT ![i] = NoTask] /\ seized' = seized \ {mine[i]}
        /\ UNCHANGED <<lock, daemon, crashes, exitCode, lockInfo, pending, current, checkpoint, otherReset, incomplete>>
    BY <1>3 DEF FinishTask, SetStage, SetTask, recovery
  <2>1. stage[i] \in HasLock /\ "finished" \in Stages /\ "finished" \notin {"none", "starting"}
    BY <2>0 DEF HasLock, Live, Stages
  <2>2. /\ StageInv' /\ RecoveryInv' /\ stage'[i] = "finished"
        /\ \A j \in PIDs \ {i} : stage'[j] = stage[j] /\ stage[j] \notin HasLock
    BY <2>0, <2>1, HolderKeeps
  <2>3. TypeOK'
    <3>1. s \in Statuses /\ mine[i] \in Tasks
      BY <2>0, RecoveryConstants DEF RecInv, OwnedInv, Working
    <3> QED
      BY <2>0, <2>1, <3>1 DEF RecInv, TypeOK
  <2>4. OwnedInv'
    <3>1. \A j \in PIDs : mine'[j] = NoTask /\ ~Working(j)'
      BY <2>0, <2>2 DEF RecInv, TypeOK, OwnedInv, Working, HasLock, Live
    <3> QED
      BY <3>1 DEF OwnedInv
  <2>5. CheckpointMatches'
    BY <2>0, <2>2 DEF CheckpointMatches, Child, HasLock, Live, RecInv, TypeOK
  <2> QED
    BY <2>2, <2>3, <2>4, <2>5 DEF RecInv
<1> QED
  BY <1>1, <1>2, <1>3

\* A process ends, by itself or killed by recovery.
LEMMA ExitKeeps ==
  ASSUME RecInv, NEW i \in PIDs, (\E c \in {"exit0", "exit1"} : AgentExits(i, c)) \/ (KillProcess /\ i = lockInfo.pid)
  PROVE  RecInv'
<1> USE PIDFacts, LiveStages
<1>0. UNCHANGED <<status, assignee, lock, crashes, exitCode, lockInfo, pending, current, checkpoint>>
      /\ UNCHANGED <<otherReset, incomplete>> /\ seized' = seized \ {mine[i]}
      /\ mine' = [mine EXCEPT ![i] = NoTask] /\ (daemon' = daemon \/ (daemon = "kill" /\ daemon' = "unlink" /\ i = lock.pid))
  BY DEF AgentExits, KillProcess, tasks, recovery, RecInv, RecoveryInv
<1>1. PICK c \in Stages \ Live : stage' = [stage EXCEPT ![i] = c] /\ (c = "none" => stage[i] = "none")
  <2>1. CASE \E c \in {"exit0", "exit1"} : AgentExits(i, c)
    BY <2>1 DEF AgentExits, SetStage, Stages, Live
  <2>2. CASE KillProcess /\ i = lockInfo.pid
    <3>1. stage' = [stage EXCEPT ![i] = IF stage[i] \in Live THEN "exit1" ELSE stage[i]] /\ stage[i] \in Stages
      BY <2>2 DEF KillProcess, SetStage, RecInv, TypeOK
    <3> DEFINE c == IF stage[i] \in Live THEN "exit1" ELSE stage[i]
    <3>2. c \in Stages \ Live /\ (c = "none" => stage[i] = "none")
      BY <3>1 DEF Stages, Live
    <3> QED
      BY <3>1, <3>2
  <2> QED
    BY <2>1, <2>2
<1>2. /\ stage'[i] = c /\ stage'[i] \notin Live /\ \A j \in PIDs \ {i} : stage'[j] = stage[j] /\ mine'[j] = mine[j]
  BY <1>0, <1>1 DEF RecInv, TypeOK
<1>3. TypeOK'
  BY <1>0, <1>1 DEF RecInv, TypeOK, Locations
<1>4. i > crashes => c = "none"
  <2>1. CASE \E e \in {"exit0", "exit1"} : AgentExits(i, e)
    BY <2>1 DEF AgentExits, RecInv, StageInv, Live
  <2>2. CASE KillProcess /\ i = lockInfo.pid
    BY <1>1, <2>2 DEF KillProcess, SetStage, RecInv, StageInv, TypeOK, Live
  <2> QED
    BY <2>1, <2>2
<1>5. StageInv'
  BY <1>0, <1>2, <1>4 DEF RecInv, StageInv, HasLock, Live
<1>6. OwnedInv'
  <2>1. mine'[i] = NoTask /\ ~Working(i)'
    BY <1>0, <1>2 DEF RecInv, TypeOK, Working, Live
  <2>2. ASSUME NEW j \in PIDs \ {i} PROVE
          /\ Working(j)' => Working(j) /\ mine'[j] = mine[j] /\ mine[j] # mine[i]
          /\ mine'[j] # NoTask => Working(j)'
    <3>1. Working(j)' <=> Working(j)
      BY <1>2 DEF Working
    <3>2. Working(j) => lock.pid = j /\ mine[j] \in Tasks
      BY DEF RecInv, StageInv, OwnedInv, Working, HasLock, Live
    <3>3. Working(j) => ~Working(i)
      BY <3>2 DEF RecInv, StageInv, Working, HasLock, Live
    <3>4. Working(j) => mine[i] = NoTask
      BY <3>3 DEF RecInv, OwnedInv
    <3> QED
      BY <1>2, <3>1, <3>2, <3>4, RecoveryConstants DEF RecInv, OwnedInv
  <2> QED
    BY <1>0, <2>1, <2>2 DEF RecInv, OwnedInv
<1>7. RecoveryInv'
  BY <1>0, <1>2 DEF RecInv, RecoveryInv, Quiet
<1>8. CheckpointMatches'
  BY <1>0, <1>2 DEF RecInv, CheckpointMatches, Child, Live, TypeOK
<1> QED
  BY <1>3, <1>5, <1>6, <1>7, <1>8 DEF RecInv

\* The steps of RecoverWorktree that read, remove the lock or look at a task.
LEMMA RecoverKeeps ==
  ASSUME RecInv, CheckLock \/ ForceReleaseLock \/ HandleLockTask \/ ListOrphans \/ \E t \in Tasks : ShowTask(t)
  PROVE  RecInv'
<1> USE PIDFacts, LiveStages
<1>0. /\ UNCHANGED <<status, assignee, stage, mine, crashes, exitCode, checkpoint, otherReset, seized>>
      /\ incomplete' \in BOOLEAN
  BY DEF CheckLock, ForceReleaseLock, HandleLockTask, ListOrphans, ShowTask, tasks, agents, recovery, aside,
         RecInv, TypeOK
<1>1. OwnedInv' /\ CheckpointMatches'
  BY <1>0 DEF RecInv, OwnedInv, Working, CheckpointMatches, Child
<1>2. CASE CheckLock
  <2>1. /\ daemon = "recover" /\ lockInfo' = lock /\ UNCHANGED <<lock, pending, current>>
        /\ daemon' = IF lock.pid = NoPID THEN "list" ELSE IF stage[lock.pid] \in Live THEN "kill" ELSE "unlink"
    BY <1>2 DEF CheckLock
  <2>2. TypeOK'
    BY <1>0, <2>1 DEF RecInv, TypeOK, Locations
  <2>3. StageInv'
    BY <1>0, <2>1 DEF RecInv, StageInv
  <2>4. lock.pid \in PIDs \cup {NoPID}
    BY DEF RecInv, TypeOK
  <2>5. lock.pid = NoPID => \A i \in PIDs : stage[i] \notin Live
    BY <2>1 DEF RecInv, StageInv
  <2>6. RecoveryInv'
    BY <1>0, <2>1, <2>4, <2>5 DEF RecoveryInv, Quiet
  <2> QED
    BY <1>1, <2>2, <2>3, <2>6 DEF RecInv
<1>3. CASE ForceReleaseLock
  <2>1. daemon = "unlink" /\ lock' = NoLock /\ daemon' = "lockTask" /\ UNCHANGED <<lockInfo, pending, current>>
    BY <1>3 DEF ForceReleaseLock, recovery
  <2>2. \A i \in PIDs : stage[i] \notin Live
    BY <2>1 DEF RecInv, StageInv, RecoveryInv
  <2>3. TypeOK'
    <3>1. NoLock \in LockRecord
      BY DEF NoLock, LockRecord
    <3> QED
      BY <1>0, <2>1, <3>1 DEF RecInv, TypeOK, LockRecord, Locations
  <2>4. StageInv' /\ RecoveryInv'
    BY <1>0, <2>1, <2>2 DEF RecInv, StageInv, RecoveryInv, Quiet
  <2> QED
    BY <1>1, <2>3, <2>4 DEF RecInv
<1>4. CASE HandleLockTask \/ ListOrphans \/ \E t \in Tasks : ShowTask(t)
  <2>1. UNCHANGED lock /\ daemon \in Quiet /\ daemon' \in Quiet
    BY <1>4 DEF HandleLockTask, ListOrphans, ShowTask, AfterReset, Quiet
  <2>2. daemon' = "update" => current' \in Tasks
    BY <1>4 DEF HandleLockTask, ListOrphans, ShowTask, AfterReset
  <2>3. \A i \in PIDs : stage[i] \notin Live
    BY <2>1 DEF RecInv, RecoveryInv
  <2>4. StageInv'
    BY <1>0, <2>1, <2>3 DEF RecInv, StageInv
  <2>5. RecoveryInv'
    BY <1>0, <2>1, <2>2, <2>3 DEF RecoveryInv, Quiet
  <2>6. TypeOK'
    <3>1. lockInfo' \in LockRecord
      <4>1. NoLock \in LockRecord
        BY DEF NoLock, LockRecord
      <4>2. lockInfo' = lockInfo \/ lockInfo' = NoLock
        BY <1>4 DEF HandleLockTask, ListOrphans, ShowTask
      <4> QED
        BY <4>1, <4>2 DEF RecInv, TypeOK, LockRecord
    <3>2. pending' \subseteq Tasks
      <4>1. lockInfo.task \in Tasks \cup {NoTask} /\ pending \subseteq Tasks
        BY DEF RecInv, TypeOK
      <4> QED
        BY <1>4, <4>1 DEF HandleLockTask, ListOrphans, ShowTask, Orphans
    <3>3. current' \in Tasks \cup {NoTask}
      BY <1>4 DEF HandleLockTask, ListOrphans, ShowTask, RecInv, TypeOK
    <3>4. daemon' \in Locations
      BY <2>1 DEF Quiet, Locations
    <3> QED
      BY <1>0, <2>1, <3>1, <3>2, <3>3, <3>4 DEF RecInv, TypeOK, LockRecord
  <2> QED
    BY <1>1, <2>4, <2>5, <2>6 DEF RecInv
<1> QED
  BY <1>2, <1>3, <1>4

\* resetTask reopens a task: nobody works then.
LEMMA UpdateKeeps == ASSUME RecInv, UpdateTask PROVE RecInv'
<1> USE PIDFacts, LiveStages
<1>0. /\ daemon = "update" /\ daemon' \in Quiet \ {"update"} /\ current' = NoTask
      /\ UNCHANGED <<lock, stage, mine, crashes, exitCode, lockInfo, pending, checkpoint, otherReset, seized>>
      /\ incomplete' \in BOOLEAN
  BY DEF UpdateTask, AfterReset, Quiet, agents, RecInv, TypeOK
<1>1. current \in Tasks /\ \A i \in PIDs : stage[i] \notin Live
  BY <1>0 DEF RecInv, RecoveryInv, Quiet
<1>2. status' \in [Tasks -> Statuses] /\ assignee' \in [Tasks -> People]
  <2>1. CASE SetTask(current, "open", "nobody")
    BY <1>1, <2>1 DEF SetTask, RecInv, TypeOK, Statuses, People
  <2>2. CASE UNCHANGED tasks
    BY <2>2 DEF tasks, RecInv, TypeOK
  <2> QED
    BY <2>1, <2>2 DEF UpdateTask
<1>3. TypeOK'
  <2>1. daemon' \in Locations
    BY <1>0 DEF Quiet, Locations
  <2> QED
    BY <1>0, <1>2, <2>1 DEF RecInv, TypeOK
<1>4. StageInv' /\ RecoveryInv'
  BY <1>0, <1>1 DEF RecInv, StageInv, RecoveryInv, Quiet
<1>5. OwnedInv'
  BY <1>0, <1>1 DEF RecInv, OwnedInv, Working, Live
<1>6. CheckpointMatches'
  BY <1>0 DEF RecInv, CheckpointMatches, Child
<1> QED
  BY <1>3, <1>4, <1>5, <1>6 DEF RecInv

\* The supervisor's loop, and the daemon's crash and restart.
LEMMA SuperviseKeeps ==
  ASSUME RecInv, ~EarlyCrash, Supervise \/ DaemonCrashes \/ DaemonStarts
  PROVE  RecInv'
<1> USE PIDFacts, LiveStages
<1>0. UNCHANGED <<status, assignee, lock, mine, otherReset, seized, incomplete>> /\ crashes \in PIDs
  BY DEF Supervise, SpawnAgent, SpawnFails, WaitForAgent, Restart, GivesUpAgent, DaemonCrashes, DaemonStarts,
         tasks, agents, aside, RecInv, TypeOK
<1>1. CASE SpawnAgent \/ Restart
  <2>1. PICK s \in {"starting", "none"} :
          /\ stage' = [stage EXCEPT ![crashes] = s] /\ (s = "starting" => daemon' = "wait") /\ daemon' \in {"wait", "recover"}
          /\ daemon = "recovered" /\ exitCode' \in {0, 1}
          /\ UNCHANGED <<crashes, lockInfo, pending, current, checkpoint>>
    BY <1>1 DEF SpawnAgent, Restart, SetStage, Child, recovery, RecInv, TypeOK
  <2>2. stage'[crashes] = s /\ \A j \in PIDs \ {crashes} : stage'[j] = stage[j]
    BY <1>0, <2>1 DEF RecInv, TypeOK
  <2>3. \A j \in PIDs : stage[j] \notin Live
    BY <2>1 DEF RecInv, RecoveryInv, Quiet
  <2>4. TypeOK'
    BY <1>0, <2>1 DEF RecInv, TypeOK, Stages, Locations
  <2>5. StageInv'
    BY <1>0, <2>1, <2>2, <2>3 DEF RecInv, StageInv, HasLock, Live
  <2>6. OwnedInv' /\ CheckpointMatches'
    BY <1>0, <2>1, <2>2, <2>3 DEF RecInv, OwnedInv, CheckpointMatches, Child, Working, Live
  <2>7. RecoveryInv'
    BY <2>1 DEF RecoveryInv, Quiet
  <2> QED
    BY <2>4, <2>5, <2>6, <2>7 DEF RecInv
<1>2. CASE WaitForAgent
  <2>1. /\ stage[crashes] \in {"exit0", "exit1"} /\ daemon' = "recover" /\ exitCode' \in {0, 1}
        /\ UNCHANGED <<stage, crashes, lockInfo, pending, current>>
    BY <1>2 DEF WaitForAgent, Child, agents
  <2>2. checkpoint' \in Tasks \cup {NoTask}
    BY <1>2 DEF WaitForAgent, CheckpointAfter, RecInv, TypeOK
  <2>3. TypeOK'
    BY <1>0, <2>1, <2>2 DEF RecInv, TypeOK, Locations
  <2>4. StageInv' /\ OwnedInv' /\ RecoveryInv'
    BY <1>0, <2>1 DEF RecInv, StageInv, OwnedInv, Working, RecoveryInv, Quiet
  <2>5. CheckpointMatches'
    BY <2>1 DEF CheckpointMatches, Child
  <2> QED
    BY <2>3, <2>4, <2>5 DEF RecInv
<1>3. CASE DaemonCrashes
  <2>1. /\ stage[crashes] # "starting" /\ daemon' = "down" /\ crashes < MaxCrashes
        /\ UNCHANGED <<stage, crashes, exitCode, lockInfo, pending, current, checkpoint>>
    BY <1>3 DEF DaemonCrashes, Child, agents, recovery
  <2>2. TypeOK'
    BY <1>0, <2>1 DEF RecInv, TypeOK, Locations
  <2>3. StageInv' /\ OwnedInv' /\ RecoveryInv' /\ CheckpointMatches'
    BY <1>0, <2>1 DEF RecInv, StageInv, OwnedInv, Working, RecoveryInv, Quiet, CheckpointMatches, Child
  <2> QED
    BY <2>2, <2>3 DEF RecInv
<1>4. CASE DaemonStarts
  <2>1. /\ daemon = "down" /\ crashes' = crashes + 1 /\ daemon' = "recover" /\ exitCode' = 0 /\ lockInfo' = NoLock
        /\ pending' = {} /\ current' = NoTask /\ UNCHANGED <<stage, checkpoint>>
    BY <1>4 DEF DaemonStarts, agents
  <2>2. crashes' \in PIDs /\ crashes' > crashes
    BY <1>0, <2>1, RecoveryConstants DEF RecInv, RecoveryInv
  <2>3. TypeOK'
    <3>1. NoLock \in LockRecord
      BY DEF NoLock, LockRecord
    <3> QED
      BY <1>0, <2>1, <2>2, <3>1 DEF RecInv, TypeOK, LockRecord, Locations
  <2>4. stage[crashes'] = "none"
    BY <2>2 DEF RecInv, StageInv
  <2>5. StageInv'
    BY <1>0, <2>1, <2>2 DEF RecInv, StageInv
  <2>6. OwnedInv' /\ RecoveryInv' /\ CheckpointMatches'
    BY <1>0, <2>1, <2>4 DEF RecInv, OwnedInv, Working, RecoveryInv, Quiet, CheckpointMatches, Child
  <2> QED
    BY <2>3, <2>5, <2>6 DEF RecInv
<1>5. CASE SpawnFails \/ GivesUpAgent
  <2>1. /\ daemon = "recovered" /\ daemon' \in {"recover", "gone"}
        /\ UNCHANGED <<stage, crashes, exitCode, lockInfo, pending, current, checkpoint>>
    BY <1>5 DEF SpawnFails, GivesUpAgent, agents, recovery
  <2>2. \A j \in PIDs : stage[j] \notin Live
    BY <2>1 DEF RecInv, RecoveryInv, Quiet
  <2>3. TypeOK'
    BY <1>0, <2>1 DEF RecInv, TypeOK, Locations
  <2>4. StageInv' /\ OwnedInv' /\ CheckpointMatches'
    BY <1>0, <2>1, <2>2 DEF RecInv, StageInv, OwnedInv, Working, Live, CheckpointMatches, Child
  <2>5. RecoveryInv'
    BY <2>1, <2>2 DEF RecoveryInv, Quiet
  <2> QED
    BY <2>3, <2>4, <2>5 DEF RecInv
<1> QED
  BY <1>1, <1>2, <1>3, <1>4, <1>5 DEF Supervise

\* Other agents and reviewers leave the agent's tasks alone.
LEMMA OthersKeep == ASSUME RecInv, NEW t \in Tasks, OtherActs(t) PROVE RecInv'
<1>0. UNCHANGED <<lock, stage, mine, daemon, crashes, exitCode, lockInfo, pending, current, checkpoint,
                 otherReset, seized, incomplete>>
  BY DEF OtherActs, agents, recovery, aside
<1>1. PICK s \in Statuses, w \in People : SetTask(t, s, w)
  <2>1. assignee[t] \in People
    BY DEF RecInv, TypeOK
  <2> QED
    BY <2>1 DEF OtherActs, Statuses, People
<1>2. ~(status[t] = "in_progress" /\ assignee[t] = "agent")
  BY DEF OtherActs
<1>3. TypeOK'
  BY <1>0, <1>1 DEF RecInv, TypeOK, SetTask
<1>4. \A r \in Tasks \ {t} : status'[r] = status[r] /\ assignee'[r] = assignee[r]
  BY <1>1 DEF RecInv, TypeOK, SetTask
<1>5. OwnedInv'
  BY <1>0, <1>2, <1>4 DEF RecInv, OwnedInv, Working
<1>6. StageInv' /\ RecoveryInv' /\ CheckpointMatches'
  BY <1>0 DEF RecInv, StageInv, RecoveryInv, CheckpointMatches, Child
<1> QED
  BY <1>3, <1>5, <1>6 DEF RecInv

\* Recovery of another worktree: what it opens is seized, if a process of this
\* worktree works on it.
LEMMA OtherResetKeeps == ASSUME RecInv, OtherUpdates \/ \E t \in Tasks : OtherShows(t) PROVE RecInv'
<1>0. UNCHANGED <<lock, stage, mine, daemon, crashes, exitCode, lockInfo, pending, current, checkpoint, incomplete>>
  BY DEF OtherShows, OtherUpdates, agents, recovery
<1>1. StageInv' /\ RecoveryInv' /\ CheckpointMatches'
  BY <1>0 DEF RecInv, StageInv, RecoveryInv, CheckpointMatches, Child
<1>2. CASE UNCHANGED <<tasks, seized>>
  <2>1. otherReset' \in Tasks \cup {NoTask}
    BY DEF OtherShows, OtherUpdates
  <2>2. TypeOK'
    BY <1>0, <1>2, <2>1 DEF RecInv, TypeOK, tasks
  <2>3. OwnedInv'
    BY <1>0, <1>2 DEF RecInv, OwnedInv, Working, tasks
  <2> QED
    BY <1>1, <2>2, <2>3 DEF RecInv
<1>3. CASE OtherUpdates /\ ~UNCHANGED <<tasks, seized>>
  <2>1. /\ otherReset \in Tasks /\ SetTask(otherReset, "open", "nobody") /\ otherReset' = NoTask
        /\ seized' = IF \E i \in PIDs : stage[i] \in Live /\ mine[i] = otherReset
                     THEN seized \union {otherReset} ELSE seized
    BY <1>3 DEF OtherUpdates, RecInv, TypeOK
  <2>2. TypeOK'
    BY <1>0, <2>1 DEF RecInv, TypeOK, SetTask, Statuses, People
  <2>3. \A r \in Tasks \ {otherReset} : status'[r] = status[r] /\ assignee'[r] = assignee[r]
    BY <2>1 DEF RecInv, TypeOK, SetTask
  <2>4. seized \subseteq seized' /\ \A i \in PIDs : Working(i) /\ mine[i] = otherReset => otherReset \in seized'
    BY <2>1 DEF Working, Live
  <2>5. OwnedInv'
    BY <1>0, <2>3, <2>4 DEF RecInv, OwnedInv, Working
  <2> QED
    BY <1>1, <2>2, <2>5 DEF RecInv
<1> QED
  BY <1>2, <1>3 DEF OtherShows

\* The invariant holds at the start.
LEMMA RecInitially == Init => RecInv
<1> SUFFICES ASSUME Init PROVE RecInv
  OBVIOUS
<1>1. TypeOK
  <2>1. NoLock \in LockRecord /\ 0 \in PIDs
    BY RecoveryConstants DEF NoLock, LockRecord, PIDs
  <2> QED
    BY <2>1 DEF Init, TypeOK, LockRecord, Statuses, People, Stages, Locations
<1>2. \A i \in PIDs : stage[i] = "none"
  BY DEF Init
<1>3. StageInv /\ OwnedInv /\ CheckpointMatches
  BY <1>1, <1>2 DEF Init, StageInv, OwnedInv, Working, CheckpointMatches, Child, HasLock, Live, TypeOK
<1>4. RecoveryInv
  BY DEF Init, RecoveryInv, Quiet
<1> QED
  BY <1>1, <1>3, <1>4 DEF RecInv

\* Every step keeps it, if no daemon crashes between a spawn and the lock.
LEMMA RecKeeps == ~EarlyCrash /\ RecInv /\ [Next]_vars => RecInv'
<1> SUFFICES ASSUME ~EarlyCrash, RecInv, [Next]_vars PROVE RecInv'
  OBVIOUS
<1>1. ASSUME NEW i \in PIDs, Agent(i) \/ \E c \in {"exit0", "exit1"} : AgentExits(i, c) PROVE RecInv'
  BY <1>1, AcquireKeeps, WorkKeeps, ExitKeeps DEF Agent
<1>2. CASE KillProcess
  <2>1. lockInfo.pid \in PIDs
    BY <1>2 DEF KillProcess, RecInv, RecoveryInv
  <2> QED
    BY <1>2, <2>1, ExitKeeps
<1>3. CASE Recover
  BY <1>2, <1>3, RecoverKeeps, UpdateKeeps DEF Recover
<1>4. CASE Supervise \/ DaemonCrashes \/ DaemonStarts
  BY <1>4, SuperviseKeeps
<1>5. ASSUME NEW t \in Tasks, OtherActs(t) PROVE RecInv'
  BY <1>5, OthersKeep
<1>6. CASE OtherUpdates \/ \E t \in Tasks : OtherShows(t)
  BY <1>6, OtherResetKeeps
<1>7. CASE UNCHANGED vars
  BY <1>7 DEF vars, RecInv, TypeOK, StageInv, OwnedInv, Working, RecoveryInv, CheckpointMatches, Child
<1> QED
  BY <1>1, <1>3, <1>4, <1>5, <1>6, <1>7 DEF Next

\* As long as no daemon crashes between a spawn and the lock, a live agent
\* process owns the task it works on, unless recovery of another worktree has
\* taken it, and is alone in its worktree, whatever crashes, exits,
\* recoveries, failing bd commands and other people do.
THEOREM WorkStaysOwned == ASSUME ~EarlyCrash PROVE Spec => []WorkIsOwned
<1>1. RecInv => WorkIsOwned
  BY DEF RecInv, OwnedInv, StageInv, WorkIsOwned
<1> QED
  BY <1>1, RecInitially, RecKeeps, PTL DEF Spec

\* Under the same condition the checkpoint of a working agent is for its task.
THEOREM CheckpointsMatch == ASSUME ~EarlyCrash PROVE Spec => []CheckpointMatches
<1>1. RecInv => CheckpointMatches
  BY DEF RecInv
<1> QED
  BY <1>1, RecInitially, RecKeeps, PTL DEF Spec
-----------------------------------------------------------------------------
(* Git commands.  The inductive invariant: types, and for every running    *)
(* command the branch it has read where its place says that it has read    *)
(* one; for a reset that this branch may be pushed by force.               *)

ProcOK(j, pc, orig) ==
  /\ pc \in {"count", "stash", "recount", "checkout"} => j.kind = "push"
  /\ pc \in {"pull", "merge", "push", "restore"} => j.kind = "push" /\ orig \in Branches
  /\ pc = "compare" => j.kind = "pr" \/ (j.kind = "push" /\ orig \in Branches)
  /\ pc = "agent" => j.kind = "pull" \/ (j.kind = "push" /\ orig \in Branches)
  /\ pc = "pullMerge" => j.kind = "pull"
  /\ pc \in {"lock", "branch"} => j.kind = "reset"
  /\ pc = "fetch" => j.kind # "epic"
  /\ pc \in {"discard", "rehead", "force"} => j.kind = "reset"
  /\ j.kind = "reset" /\ pc \in {"fetch", "discard", "rehead", "force"} =>
       orig \in Branches /\ (j.ui = "api" => orig # Target \/ j.force)
  /\ pc = "force" => orig # Target \/ j.force

ProcGood(r) == r.todo # <<>> => ProcOK(Head(r.todo), r.pc, r.orig)
ProcInv == \A p \in GitProcs : ProcGood(gproc[p])
GitInv == GitTypeOK /\ ProcInv

\* A job with arguments of the right types.
LEMMA JobIsAJob ==
  ASSUME NEW k \in {"push", "pull", "pr", "reset", "epic"}, NEW ui \in {"api", "legacy", "cli", "batch", "daemon"},
         NEW d \in Dirs, NEW b \in Branches, NEW f \in BOOLEAN
  PROVE  Job(k, ui, d, b, f) \in JobType
BY DEF Job, JobType

\* One job for each directory.
LEMMA ForAllType ==
  ASSUME GitTypeOK, NEW f \in [Discovered -> JobType]
  PROVE  ForAll(f) \in Seq(JobType)
<1> DEFINE L == Listing[glayout]
<1>1. glayout \in {"shared", "clones"}
  BY DEF GitTypeOK
<1>2. L \in Seq(Dirs) /\ {L[i] : i \in DOMAIN L} = Discovered
  BY <1>1, GitAssumption DEF Discovered
<1>3. Len(L) \in Nat /\ DOMAIN L = 1..Len(L)
  BY <1>2
<1>4. \A i \in 1..Len(L) : f[L[i]] \in JobType
  BY <1>2, <1>3
<1>5. ForAll(f) = [i \in 1..Len(L) |-> f[L[i]]]
  BY <1>3 DEF ForAll, DiscoveredDirs
<1>6. ForAll(f) \in [1..Len(L) -> JobType]
  BY <1>4, <1>5
<1> QED
  BY <1>3, <1>6, SeqDef

\* The parts commands are made of.
LEMMA JobParts ==
  ASSUME GitTypeOK, NEW ui \in PushUIs, NEW d \in Discovered
  PROVE  /\ d \in Dirs /\ gwt[d].head \in Branches
         /\ PushJob(ui, d) \in JobType /\ PullJob(ui, d) \in JobType /\ PRJob(ui, d) \in JobType
<1>1. d \in Dirs /\ PushDir(ui, d) \in Dirs /\ ui \in {"api", "legacy", "cli", "batch", "daemon"}
  BY GitAssumption DEF Discovered, DirsOf, PushDir, PushUIs
<1>2. gwt[d].head \in Branches
  BY <1>1 DEF GitTypeOK, WorktreeType
<1> QED
  BY <1>1, <1>2, JobIsAJob DEF PushJob, PullJob, PRJob, DiscoveredBranch

\* One job, two jobs and two lists of jobs.
LEMMA JobLists ==
  ASSUME NEW j \in JobType, NEW k \in JobType, NEW s \in Seq(JobType), NEW t \in Seq(JobType)
  PROVE  <<j>> \in Seq(JobType) /\ <<j, k>> \in Seq(JobType) /\ s \o t \in Seq(JobType)
OBVIOUS

\* The lists for all directories.
LEMMA AllJobsType ==
  ASSUME GitTypeOK, NEW ui \in PushUIs
  PROVE  PushAllJobs(ui) \in Seq(JobType) /\ PullAllJobs(ui) \in Seq(JobType) /\ PRAllJobs(ui) \in Seq(JobType)
<1>1. \A d \in Discovered : PushJob(ui, d) \in JobType /\ PullJob(ui, d) \in JobType /\ PRJob(ui, d) \in JobType
  BY JobParts
<1>2. /\ [d \in Discovered |-> PushJob(ui, d)] \in [Discovered -> JobType]
      /\ [d \in Discovered |-> PullJob(ui, d)] \in [Discovered -> JobType]
      /\ [d \in Discovered |-> PRJob(ui, d)] \in [Discovered -> JobType]
  BY <1>1
<1> QED
  BY <1>2, ForAllType DEF PushAllJobs, PullAllJobs, PRAllJobs

\* Every command is a list of jobs.
LEMMA CommandsAreJobs == ASSUME GitTypeOK, NEW jobs \in Commands PROVE jobs \in Seq(JobType)
<1>1. CASE jobs \in PushCommands
  <2>1. \/ \E u \in PushUIs, d \in Discovered : jobs = <<PushJob(u, d)>>
        \/ \E u \in PushUIs : jobs = PushAllJobs(u)
    BY <1>1 DEF PushCommands
  <2> QED
    BY <2>1, JobParts, JobLists, AllJobsType
<1>2. CASE jobs \in PullCommands
  <2>1. \/ \E u \in PushUIs, d \in Discovered : jobs = <<PullJob(u, d)>>
        \/ \E u \in PushUIs : jobs = PullAllJobs(u)
    BY <1>2 DEF PullCommands
  <2> QED
    BY <2>1, JobParts, JobLists, AllJobsType
<1>3. CASE jobs \in SyncCommands
  <2>1. PICK u \in PushUIs, d \in Discovered : jobs = SyncJobs(u, d)
    BY <1>3 DEF SyncCommands
  <2>2. PushJob(u, d) \in JobType /\ PullJob(u, d) \in JobType
    BY JobParts
  <2>3. PushAllJobs(u) \in Seq(JobType) /\ PullAllJobs(u) \in Seq(JobType)
    BY AllJobsType
  <2>4. jobs = <<PushJob(u, d), PullJob(u, d)>> \/ jobs = PushAllJobs(u) \o PullAllJobs(u)
    BY <2>1 DEF SyncJobs
  <2> QED
    BY <2>2, <2>3, <2>4, JobLists
<1>4. CASE jobs \in PRCommands
  <2>1. \/ \E u \in PushUIs, d \in Discovered : jobs = <<PRJob(u, d)>>
        \/ \E u \in PushUIs : jobs = PRAllJobs(u)
    BY <1>4 DEF PRCommands
  <2> QED
    BY <2>1, JobParts, JobLists, AllJobsType
<1>5. CASE jobs \in ResetCommands
  <2>1. CASE \E u \in PushUIs, d \in Discovered, f \in BOOLEAN : jobs = ResetJobs(u, d, f)
    <3>1. PICK u \in PushUIs, d \in Discovered, f \in BOOLEAN : jobs = <<Job("reset", u, d, gwt[d].head, f)>>
      BY <2>1 DEF ResetJobs, DiscoveredBranch
    <3>2. Job("reset", u, d, gwt[d].head, f) \in JobType
      BY JobParts, JobIsAJob DEF PushUIs
    <3> QED
      BY <3>1, <3>2, JobLists
  <2>2. CASE \E f \in BOOLEAN : jobs = ResetAllJobs(f)
    <3>1. PICK f \in BOOLEAN : jobs = ForAll([d \in Discovered |-> Job("reset", "batch", d, DiscoveredBranch(d), f)])
      BY <2>2 DEF ResetAllJobs
    <3>2. ASSUME NEW d \in Discovered PROVE Job("reset", "batch", d, DiscoveredBranch(d), f) \in JobType
      BY JobParts, JobIsAJob DEF PushUIs, DiscoveredBranch
    <3>3. [d \in Discovered |-> Job("reset", "batch", d, DiscoveredBranch(d), f)] \in [Discovered -> JobType]
      BY <3>2
    <3> QED
      BY <3>1, <3>3, ForAllType
  <2> QED
    BY <1>5, <2>1, <2>2 DEF ResetCommands
<1>6. CASE jobs \in EpicCommands
  <2>1. PICK d \in Discovered : jobs = <<Job("epic", "daemon", d, HomeBranch[d], FALSE)>>
    BY <1>6 DEF EpicCommands
  <2>2. d \in Dirs /\ HomeBranch[d] \in Branches
    BY DEF Discovered, DirsOf, Branches
  <2> DEFINE j == Job("epic", "daemon", d, HomeBranch[d], FALSE)
  <2>3. j \in JobType
    BY <2>2, JobIsAJob
  <2>4. jobs = <<j>>
    BY <2>1
  <2> HIDE DEF j
  <2> QED
    BY <2>3, <2>4
<1> QED
  BY <1>1, <1>2, <1>3, <1>4, <1>5, <1>6 DEF Commands

\* What a busy command is at work on.
LEMMA Current ==
  ASSUME GitTypeOK, NEW p \in GitProcs, Busy(p)
  PROVE  /\ gproc[p] \in ProcType /\ Cur(p) \in JobType
         /\ Cur(p).dir \in Dirs /\ Cur(p).src \in Branches /\ Repo(Cur(p).dir) \in Dirs
<1>1. gproc[p] \in ProcType /\ gproc[p].todo \in Seq(JobType) /\ gproc[p].todo # <<>>
  BY DEF GitTypeOK, ProcType, Busy
<1>2. Cur(p) \in JobType
  BY <1>1 DEF Cur
<1> QED
  BY <1>1, <1>2, GitAssumption DEF JobType, Repo

\* A command whose record changes to a good one.
LEMMA ProcChanges ==
  ASSUME GitTypeOK, ProcInv, NEW p \in GitProcs, NEW r \in ProcType, ProcGood(r),
         gproc' = [gproc EXCEPT ![p] = r]
  PROVE  gproc' \in [GitProcs -> ProcType] /\ ProcInv'
<1>1. \A q \in GitProcs : gproc'[q] = IF q = p THEN r ELSE gproc[q]
  BY DEF GitTypeOK
<1>2. \A q \in GitProcs : ProcGood(gproc'[q])
  BY <1>1 DEF ProcInv
<1> QED
  BY <1>2 DEF GitTypeOK, ProcInv

\* A command that goes on to another place in its job.
LEMMA ProcGoes ==
  ASSUME GitTypeOK, ProcInv, NEW p \in GitProcs, Busy(p), NEW pc \in ProcPlaces,
         ProcOK(Cur(p), pc, gproc[p].orig), GoTo(p, pc)
  PROVE  gproc' \in [GitProcs -> ProcType] /\ ProcInv'
<1> DEFINE r == [gproc[p] EXCEPT !.pc = pc]
<1>1. r \in ProcType /\ r.todo = gproc[p].todo /\ r.pc = pc /\ r.orig = gproc[p].orig
  BY DEF GitTypeOK, ProcType
<1>2. gproc' = [gproc EXCEPT ![p] = r]
  BY DEF GitTypeOK, GoTo
<1>3. ProcGood(r)
  BY <1>1 DEF ProcGood, Cur
<1> HIDE DEF r
<1> QED
  BY <1>1, <1>2, <1>3, ProcChanges

\* A command that notes a result and goes on.
LEMMA ProcReports ==
  ASSUME GitTypeOK, ProcInv, NEW p \in GitProcs, Busy(p), NEW pc \in ProcPlaces, NEW x \in ProcResults,
         ProcOK(Cur(p), pc, gproc[p].orig), Report(p, x, pc)
  PROVE  gproc' \in [GitProcs -> ProcType] /\ ProcInv'
<1> DEFINE r == [gproc[p] EXCEPT !.result = x, !.pc = pc]
<1>1. r \in ProcType /\ r.todo = gproc[p].todo /\ r.pc = pc /\ r.orig = gproc[p].orig
  BY DEF GitTypeOK, ProcType
<1>2. gproc' = [gproc EXCEPT ![p] = r]
  BY DEF GitTypeOK, Report
<1>3. ProcGood(r)
  BY <1>1 DEF ProcGood, Cur
<1> HIDE DEF r
<1> QED
  BY <1>1, <1>2, <1>3, ProcChanges

\* A command can always end.
LEMMA ProcEnds ==
  ASSUME GitTypeOK, ProcInv, NEW p \in GitProcs, Busy(p), NEW x \in ProcResults,
         Report(p, x, "done") \/ GoTo(p, "done")
  PROVE  gproc' \in [GitProcs -> ProcType] /\ ProcInv'
<1>1. ProcOK(Cur(p), "done", gproc[p].orig) /\ "done" \in ProcPlaces
  BY DEF ProcOK, ProcPlaces
<1> QED
  BY <1>1, ProcReports, ProcGoes

\* The first place of a job suits it.
LEMMA StartIsOK ==
  ASSUME NEW j \in JobType PROVE StartOf(j) \in ProcPlaces /\ ProcOK(j, StartOf(j), NoBranch)
<1>1. CASE j.kind = "reset"
  BY <1>1 DEF StartOf, ProcPlaces, ProcOK
<1>2. CASE j.kind = "epic"
  BY <1>2 DEF StartOf, ProcPlaces, ProcOK
<1>3. CASE j.kind \notin {"reset", "epic"}
  BY <1>3 DEF StartOf, ProcPlaces, ProcOK
<1> QED
  BY <1>1, <1>2, <1>3

\* Starting a list of jobs.
LEMMA ProcStarts ==
  ASSUME GitTypeOK, ProcInv, NEW p \in GitProcs, NEW todo \in Seq(JobType), todo # <<>>, Starts(p, todo)
  PROVE  gproc' \in [GitProcs -> ProcType] /\ ProcInv'
<1> DEFINE others == {q \in GitProcs \ {p} : Busy(q) /\ Cur(q).dir = Head(todo).dir}
           b == others = {}
           first == [IdleProc EXCEPT !.todo = todo, !.pc = StartOf(Head(todo)), !.alone = b]
<1>1. Head(todo) \in JobType
  OBVIOUS
<1>2. StartOf(Head(todo)) \in ProcPlaces /\ ProcOK(Head(todo), StartOf(Head(todo)), NoBranch)
  BY <1>1, StartIsOK
<1>3. b \in BOOLEAN
  OBVIOUS
<1>4. /\ gproc' = [q \in GitProcs |->
           IF q = p THEN first ELSE IF q \in others THEN [gproc[q] EXCEPT !.alone = FALSE] ELSE gproc[q]]
  BY DEF Starts
<1> HIDE DEF b, others
<1>5. IdleProc \in ProcType /\ IdleProc.orig = NoBranch
  BY DEF IdleProc, ProcType, ProcPlaces, ProcResults
<1>6. /\ first \in ProcType /\ first.todo = todo /\ first.pc = StartOf(Head(todo)) /\ first.orig = NoBranch
  BY <1>2, <1>3, <1>5 DEF IdleProc, ProcType
<1>7. ProcGood(first)
  BY <1>2, <1>6 DEF ProcGood
<1> HIDE DEF first
<1>8. ASSUME NEW q \in GitProcs PROVE gproc'[q] \in ProcType /\ ProcGood(gproc'[q])
  <2>1. CASE q = p
    BY <2>1, <1>4, <1>6, <1>7
  <2>2. CASE q # p
    <3> DEFINE r == [gproc[q] EXCEPT !.alone = FALSE]
    <3>1. gproc[q] \in ProcType /\ ProcGood(gproc[q])
      BY DEF GitTypeOK, ProcInv
    <3>2. r \in ProcType /\ r.todo = gproc[q].todo /\ r.pc = gproc[q].pc /\ r.orig = gproc[q].orig
      BY <3>1 DEF ProcType
    <3>3. ProcGood(r)
      BY <3>1, <3>2 DEF ProcGood
    <3>4. gproc'[q] = r \/ gproc'[q] = gproc[q]
      BY <1>4, <2>2
    <3> HIDE DEF r
    <3> QED
      BY <3>1, <3>2, <3>3, <3>4
  <2> QED
    BY <2>1, <2>2
<1> QED
  BY <1>4, <1>8 DEF ProcInv

\* The steps of a push keep the commands good.
LEMMA PushKeepsProcs ==
  ASSUME GitTypeOK, ProcInv, NEW p \in GitProcs, GitPushSteps(p)
  PROVE  gproc' \in [GitProcs -> ProcType] /\ ProcInv'
<1> DEFINE Goal == gproc' \in [GitProcs -> ProcType] /\ ProcInv'
<1> SUFFICES Goal
  OBVIOUS
<1>1. Busy(p)
  BY DEF GitPushSteps, GitFetch, CountStash, StashChanges, RecountStash, CheckoutTarget, GitPull,
         HasCommitsBetween, MergeSource, AgentResolves, PushTarget, RestoreBranch, StashCleanup, At
<1>2. /\ gproc[p] \in ProcType /\ Cur(p) \in JobType /\ Cur(p).dir \in Dirs /\ Repo(Cur(p).dir) \in Dirs
      /\ ProcOK(Cur(p), gproc[p].pc, gproc[p].orig)
  BY <1>1, Current DEF ProcInv, ProcGood, Busy, Cur
<1>3. gwt[Cur(p).dir].head \in Branches /\ Target \in Branches
  BY <1>2 DEF GitTypeOK, WorktreeType, Branches
<1>4. ASSUME NEW x \in ProcResults, Report(p, x, "done") \/ GoTo(p, "done") PROVE Goal
  BY <1>1, <1>4, ProcEnds
<1>5. ASSUME NEW pc \in ProcPlaces, ProcOK(Cur(p), pc, gproc[p].orig), GoTo(p, pc) PROVE Goal
  BY <1>1, <1>5, ProcGoes
<1>6. ASSUME NEW pc \in ProcPlaces, ProcOK(Cur(p), pc, gproc[p].orig), NEW x \in ProcResults, Report(p, x, pc)
      PROVE  Goal
  BY <1>1, <1>6, ProcReports
<1>7. ASSUME NEW r \in ProcType, ProcGood(r), gproc' = [gproc EXCEPT ![p] = r] PROVE Goal
  BY <1>7, ProcChanges
<1>8. {"error", "upToDate", "conflict", "resolved", "pushed"} \subseteq ProcResults
  BY DEF ProcResults
<1>9. {"compare", "restore", "agent", "prPush", "merge", "pop", "recount"} \subseteq ProcPlaces
  BY DEF ProcPlaces
<1> HIDE DEF Goal
<1>11. CASE GitFetch(p)
  <2>1. gproc[p].pc = "fetch"
    BY <1>11 DEF GitFetch, At
  <2>2. AfterFetch(Cur(p).kind) \in ProcPlaces /\ ProcOK(Cur(p), AfterFetch(Cur(p).kind), gproc[p].orig)
    <3>1. Cur(p).kind \in {"push", "pull", "pr", "reset"}
      BY <1>2, <2>1 DEF ProcOK, JobType
    <3>2. CASE Cur(p).kind = "reset"
      BY <1>2, <2>1, <3>2 DEF ProcOK, AfterFetch, ProcPlaces
    <3>3. CASE Cur(p).kind # "reset"
      BY <3>1, <3>3 DEF ProcOK, AfterFetch, ProcPlaces
    <3> QED
      BY <3>2, <3>3
  <2> QED
    BY <1>11, <2>2, <1>4, <1>5, <1>8 DEF GitFetch
<1>12. CASE CountStash(p)
  <2>1. CASE Report(p, "error", "done")
    BY <2>1, <1>4, <1>8
  <2>2. CASE gproc' = [gproc EXCEPT ![p].counted = Len(gstash[Repo(Cur(p).dir)]), ![p].pc = "stash"]
    <3> DEFINE n == Len(gstash[Repo(Cur(p).dir)])
               r == [gproc[p] EXCEPT !.counted = n, !.pc = "stash"]
    <3>1. n \in Nat
      BY <1>2 DEF GitTypeOK
    <3>2. gproc[p].pc = "count"
      BY <1>12 DEF CountStash, At
    <3>3. gproc' = [gproc EXCEPT ![p] = r]
      BY <2>2 DEF GitTypeOK
    <3> HIDE DEF n
    <3>4. r \in ProcType /\ r.todo = gproc[p].todo /\ r.pc = "stash" /\ r.orig = gproc[p].orig
      BY <1>2, <3>1 DEF ProcType, ProcPlaces
    <3>5. ProcGood(r)
      BY <1>2, <3>2, <3>4 DEF ProcGood, ProcOK, Cur
    <3> HIDE DEF r
    <3> QED
      BY <1>7, <3>3, <3>4, <3>5
  <2> QED
    BY <1>12, <2>1, <2>2 DEF CountStash
<1>13. CASE StashChanges(p)
  <2>1. gproc[p].pc = "stash"
    BY <1>13 DEF StashChanges, At
  <2>2. ProcOK(Cur(p), "recount", gproc[p].orig)
    BY <1>2, <2>1 DEF ProcOK
  <2>3. GoTo(p, "recount") \/ Report(p, "error", "done")
    BY <1>13 DEF StashChanges
  <2> QED
    BY <2>2, <2>3, <1>4, <1>5, <1>8, <1>9
<1>14. CASE RecountStash(p)
  <2>1. CASE Report(p, "error", "done")
    BY <2>1, <1>4, <1>8
  <2>2. CASE gproc' = [gproc EXCEPT ![p].stashed = Len(gstash[Repo(Cur(p).dir)]) > gproc[p].counted,
                                    ![p].pc = "checkout"]
    <3> DEFINE b == Len(gstash[Repo(Cur(p).dir)]) > gproc[p].counted
               r == [gproc[p] EXCEPT !.stashed = b, !.pc = "checkout"]
    <3>1. b \in BOOLEAN
      BY DEF GitTypeOK
    <3>2. gproc[p].pc = "recount"
      BY <1>14 DEF RecountStash, At
    <3>3. gproc' = [gproc EXCEPT ![p] = r]
      BY <2>2 DEF GitTypeOK
    <3> HIDE DEF b
    <3>4. r \in ProcType /\ r.todo = gproc[p].todo /\ r.pc = "checkout" /\ r.orig = gproc[p].orig
      BY <1>2, <3>1 DEF ProcType, ProcPlaces
    <3>5. ProcGood(r)
      BY <1>2, <3>2, <3>4 DEF ProcGood, ProcOK, Cur
    <3> HIDE DEF r
    <3> QED
      BY <1>7, <3>3, <3>4, <3>5
  <2> QED
    BY <1>14, <2>1, <2>2 DEF RecountStash
<1>15. CASE CheckoutTarget(p)
  <2> DEFINE h == gwt[Cur(p).dir].head
             ok == [gproc[p] EXCEPT !.orig = h, !.pc = "pull"]
             bad == [gproc[p] EXCEPT !.orig = h, !.result = "error", !.pc = "restore"]
  <2>1. gproc[p].pc = "checkout" /\ Cur(p).kind = "push"
    BY <1>2, <1>15 DEF CheckoutTarget, At, ProcOK
  <2>2. gproc' = [gproc EXCEPT ![p] = ok] \/ gproc' = [gproc EXCEPT ![p] = bad]
    BY <1>15 DEF CheckoutTarget, GitTypeOK
  <2>3. h \in Branches
    BY <1>3
  <2> HIDE DEF h
  <2>4. ok \in ProcType /\ ok.todo = gproc[p].todo /\ ok.pc = "pull" /\ ok.orig = h
    BY <1>2, <2>3 DEF ProcType, ProcPlaces
  <2>5. bad \in ProcType /\ bad.todo = gproc[p].todo /\ bad.pc = "restore" /\ bad.orig = h
    BY <1>2, <2>3 DEF ProcType, ProcPlaces, ProcResults
  <2>6. ProcGood(ok)
    BY <2>1, <2>3, <2>4 DEF ProcGood, ProcOK, Cur
  <2>7. ProcGood(bad)
    BY <2>1, <2>3, <2>5 DEF ProcGood, ProcOK, Cur
  <2> HIDE DEF ok, bad
  <2> QED
    BY <1>7, <2>2, <2>4, <2>5, <2>6, <2>7
<1>16. CASE GitPull(p)
  <2>1. gproc[p].pc = "pull"
    BY <1>16 DEF GitPull, At
  <2>2. ProcOK(Cur(p), "compare", gproc[p].orig) /\ ProcOK(Cur(p), "restore", gproc[p].orig)
    BY <1>2, <2>1 DEF ProcOK
  <2>3. GoTo(p, "compare") \/ Report(p, "error", "restore")
    BY <1>16 DEF GitPull
  <2> QED
    BY <2>2, <2>3, <1>5, <1>6, <1>8, <1>9
<1>17. CASE HasCommitsBetween(p)
  <2>1. gproc[p].pc = "compare"
    BY <1>17 DEF HasCommitsBetween, At
  <2>2. CASE Cur(p).kind = "pr"
    <3>1. ProcOK(Cur(p), "prPush", gproc[p].orig)
      BY DEF ProcOK
    <3>2. GoTo(p, "prPush") \/ Report(p, "upToDate", "done")
      BY <1>17, <2>2 DEF HasCommitsBetween
    <3> QED
      BY <3>1, <3>2, <1>4, <1>5, <1>8, <1>9
  <2>3. CASE Cur(p).kind # "pr"
    <3>1. ProcOK(Cur(p), "merge", gproc[p].orig) /\ ProcOK(Cur(p), "restore", gproc[p].orig)
      BY <1>2, <2>1, <2>3 DEF ProcOK
    <3>2. GoTo(p, "merge") \/ Report(p, "upToDate", "restore")
      BY <1>17, <2>3 DEF HasCommitsBetween
    <3> QED
      BY <3>1, <3>2, <1>5, <1>6, <1>8, <1>9
  <2> QED
    BY <2>2, <2>3
<1>18. CASE MergeSource(p)
  <2> DEFINE c == RefOf(Cur(p).dir, Cur(p).src)
             r == [gproc[p] EXCEPT !.goal = c, !.pc = "push"]
  <2>1. gproc[p].pc = "merge"
    BY <1>18 DEF MergeSource, At
  <2>2. /\ ProcOK(Cur(p), "push", gproc[p].orig) /\ ProcOK(Cur(p), "restore", gproc[p].orig)
        /\ ProcOK(Cur(p), "agent", gproc[p].orig)
    BY <1>2, <2>1 DEF ProcOK
  <2>3. c \in SUBSET Commits
    BY <1>1, Current DEF RefOf, GitTypeOK
  <2>4. \/ gproc' = [gproc EXCEPT ![p] = r]
        \/ Report(p, "conflict", "restore") \/ GoTo(p, "agent") \/ Report(p, "error", "restore")
    BY <1>18 DEF MergeSource, GitTypeOK
  <2> HIDE DEF c
  <2>5. r \in ProcType /\ r.todo = gproc[p].todo /\ r.pc = "push" /\ r.orig = gproc[p].orig
    BY <1>2, <2>3 DEF ProcType, ProcPlaces
  <2>6. ProcGood(r)
    BY <2>2, <2>5 DEF ProcGood, Cur
  <2> HIDE DEF r
  <2> QED
    BY <2>2, <2>4, <2>5, <2>6, <1>5, <1>6, <1>7, <1>8, <1>9
<1>19. CASE AgentResolves(p)
  <2>1. gproc[p].pc = "agent"
    BY <1>19 DEF AgentResolves, At
  <2>2. PICK x \in {"resolved", "error"} : Report(p, x, IF Cur(p).kind = "push" THEN "restore" ELSE "done")
    BY <1>19 DEF AgentResolves
  <2>3. CASE Cur(p).kind = "push"
    <3>1. ProcOK(Cur(p), "restore", gproc[p].orig)
      BY <1>2, <2>1, <2>3 DEF ProcOK
    <3>2. Report(p, x, "restore")
      BY <2>2, <2>3
    <3> QED
      BY <3>1, <3>2, <1>6, <1>8, <1>9
  <2>4. CASE Cur(p).kind # "push"
    <3>1. Report(p, x, "done")
      BY <2>2, <2>4
    <3> QED
      BY <3>1, <1>4, <1>8
  <2> QED
    BY <2>3, <2>4
<1>20. CASE PushTarget(p)
  <2>1. gproc[p].pc = "push"
    BY <1>20 DEF PushTarget, At
  <2>2. ProcOK(Cur(p), "restore", gproc[p].orig)
    BY <1>2, <2>1 DEF ProcOK
  <2>3. Report(p, "pushed", "restore") \/ Report(p, "error", "restore")
    BY <1>20 DEF PushTarget
  <2> QED
    BY <2>2, <2>3, <1>6, <1>8, <1>9
<1>21. CASE RestoreBranch(p)
  <2>1. ProcOK(Cur(p), "pop", gproc[p].orig)
    BY DEF ProcOK
  <2> QED
    BY <1>21, <2>1, <1>5, <1>9 DEF RestoreBranch
<1>22. CASE StashCleanup(p)
  BY <1>22, <1>4, <1>8 DEF StashCleanup
<1> QED
  BY <1>11, <1>12, <1>13, <1>14, <1>15, <1>16, <1>17, <1>18, <1>19, <1>20, <1>21, <1>22 DEF GitPushSteps

\* The steps of a pull, a pull request and a reset keep the commands good.
LEMMA OtherStepsKeepProcs ==
  ASSUME GitTypeOK, ProcInv, NEW p \in GitProcs, GitPullSteps(p) \/ GitPRSteps(p) \/ GitResetSteps(p)
  PROVE  gproc' \in [GitProcs -> ProcType] /\ ProcInv'
<1> DEFINE Goal == gproc' \in [GitProcs -> ProcType] /\ ProcInv'
           Ends == \E x \in ProcResults : Report(p, x, "done") \/ GoTo(p, "done")
<1> SUFFICES Goal
  OBVIOUS
<1>1. Busy(p)
  BY DEF GitPullSteps, GitPRSteps, GitResetSteps, PullMerge, GitMergeAbort, PullPush, PRPush, CreatePR,
         GetExistingPRURL, RemoteBranchPushed, GetOpenPR, GetEpicInfo, CreateEpicPR, StoreExternalRef,
         CheckAgentLock, ReadBranch, DiscardChanges, ResetToTarget, GitPushForce, At
<1>2. /\ gproc[p] \in ProcType /\ Cur(p) \in JobType /\ Cur(p).dir \in Dirs /\ Repo(Cur(p).dir) \in Dirs
      /\ ProcOK(Cur(p), gproc[p].pc, gproc[p].orig)
  BY <1>1, Current DEF ProcInv, ProcGood, Busy, Cur
<1>3. gwt[Cur(p).dir].head \in Branches /\ Target \in Branches
  BY <1>2 DEF GitTypeOK, WorktreeType, Branches
<1>4. ASSUME NEW x \in ProcResults, Report(p, x, "done") \/ GoTo(p, "done") PROVE Goal
  BY <1>1, <1>4, ProcEnds
<1>5. ASSUME NEW pc \in ProcPlaces, ProcOK(Cur(p), pc, gproc[p].orig), GoTo(p, pc) PROVE Goal
  BY <1>1, <1>5, ProcGoes
<1>6. ASSUME NEW pc \in ProcPlaces, ProcOK(Cur(p), pc, gproc[p].orig), NEW x \in ProcResults, Report(p, x, pc)
      PROVE  Goal
  BY <1>1, <1>6, ProcReports
<1>7. ASSUME NEW r \in ProcType, ProcGood(r), gproc' = [gproc EXCEPT ![p] = r] PROVE Goal
  BY <1>7, ProcChanges
<1>8. {"error", "conflict", "pulled", "created", "exists", "skipped", "aborted", "reset"} \subseteq ProcResults
  BY DEF ProcResults
<1>9. {"agent", "abort", "create", "view", "list", "info", "epicCreate", "store", "branch", "rehead", "force"}
        \subseteq ProcPlaces
  BY DEF ProcPlaces
<1>10. \A pc \in {"abort", "create", "view", "list", "info", "epicCreate", "store"} :
         ProcOK(Cur(p), pc, gproc[p].orig)
  BY DEF ProcOK
<1> HIDE DEF Goal
<1>11. CASE PullMerge(p)
  <2> DEFINE c == gtrack[Repo(Cur(p).dir)][Target]
             r == [gproc[p] EXCEPT !.goal = c, !.pc = "pullPush"]
  <2>1. gproc[p].pc = "pullMerge"
    BY <1>11 DEF PullMerge, At
  <2>2. ProcOK(Cur(p), "agent", gproc[p].orig) /\ ProcOK(Cur(p), "pullPush", gproc[p].orig)
    BY <1>2, <2>1 DEF ProcOK
  <2>3. c \in SUBSET Commits
    BY <1>2, <1>3 DEF GitTypeOK
  <2>4. \/ gproc' = [gproc EXCEPT ![p] = r]
        \/ Report(p, "conflict", "abort") \/ GoTo(p, "agent") \/ Report(p, "error", "abort")
        \/ Report(p, "error", "done")
    BY <1>11 DEF PullMerge, GitTypeOK
  <2> HIDE DEF c
  <2>5. r \in ProcType /\ r.todo = gproc[p].todo /\ r.pc = "pullPush" /\ r.orig = gproc[p].orig
    BY <1>2, <2>3 DEF ProcType, ProcPlaces
  <2>6. ProcGood(r)
    BY <2>2, <2>5 DEF ProcGood, Cur
  <2> HIDE DEF r
  <2> QED
    BY <2>2, <2>4, <2>5, <2>6, <1>4, <1>5, <1>6, <1>7, <1>8, <1>9, <1>10
<1>12. CASE GitMergeAbort(p)
  BY <1>12, <1>4, <1>8 DEF GitMergeAbort
<1>13. CASE PullPush(p)
  BY <1>13, <1>4, <1>8 DEF PullPush
<1>14. CASE PRPush(p)
  BY <1>14, <1>4, <1>5, <1>8, <1>9, <1>10 DEF PRPush
<1>15. CASE CreatePR(p)
  BY <1>15, <1>4, <1>5, <1>8, <1>9, <1>10 DEF CreatePR
<1>16. CASE GetExistingPRURL(p)
  BY <1>16, <1>4, <1>8 DEF GetExistingPRURL
<1>17. CASE RemoteBranchPushed(p)
  BY <1>17, <1>4, <1>5, <1>8, <1>9, <1>10 DEF RemoteBranchPushed
<1>18. CASE GetOpenPR(p)
  BY <1>18, <1>4, <1>5, <1>6, <1>8, <1>9, <1>10 DEF GetOpenPR
<1>19. CASE GetEpicInfo(p)
  BY <1>19, <1>4, <1>5, <1>8, <1>9, <1>10 DEF GetEpicInfo
<1>20. CASE CreateEpicPR(p)
  BY <1>20, <1>4, <1>6, <1>8, <1>9, <1>10 DEF CreateEpicPR
<1>21. CASE StoreExternalRef(p)
  BY <1>21, <1>4, <1>8 DEF StoreExternalRef
<1>22. CASE CheckAgentLock(p)
  <2>1. gproc[p].pc = "lock"
    BY <1>22 DEF CheckAgentLock, At
  <2>2. ProcOK(Cur(p), "branch", gproc[p].orig)
    BY <1>2, <2>1 DEF ProcOK
  <2> QED
    BY <1>22, <2>2, <1>4, <1>5, <1>8, <1>9 DEF CheckAgentLock
<1>23. CASE ReadBranch(p)
  <2>1. CASE Report(p, "aborted", "done")
    BY <2>1, <1>4, <1>8
  <2>2. CASE ~Report(p, "aborted", "done")
    <3> DEFINE h == gwt[Cur(p).dir].head
               x == IF Cur(p).ui = "api" /\ Refuses(p, h) THEN "error" ELSE "none"
               pc == IF Cur(p).ui = "api" /\ Refuses(p, h) THEN "done" ELSE "fetch"
               r == [gproc[p] EXCEPT !.orig = h, !.result = x, !.pc = pc]
    <3>1. gproc[p].pc = "branch" /\ Cur(p).kind = "reset"
      BY <1>2, <1>23 DEF ReadBranch, At, ProcOK
    <3>2. gproc' = [gproc EXCEPT ![p] = r]
      BY <1>23, <2>2 DEF ReadBranch, GitTypeOK
    <3>3. h \in Branches /\ x \in ProcResults /\ pc \in ProcPlaces
      BY <1>3 DEF ProcResults, ProcPlaces
    <3>4. ProcOK(Cur(p), pc, h)
      <4>1. CASE Cur(p).ui = "api" /\ Refuses(p, h)
        BY <4>1 DEF ProcOK
      <4>2. CASE ~(Cur(p).ui = "api" /\ Refuses(p, h))
        BY <3>1, <3>3, <4>2 DEF ProcOK, Refuses, IsProtectedBranch
      <4> QED
        BY <4>1, <4>2
    <3> HIDE DEF h, x, pc
    <3>5. r \in ProcType /\ r.todo = gproc[p].todo /\ r.pc = pc /\ r.orig = h
      BY <1>2, <3>3 DEF ProcType
    <3>6. ProcGood(r)
      BY <3>4, <3>5 DEF ProcGood, Cur
    <3> HIDE DEF r
    <3> QED
      BY <3>2, <3>5, <3>6, <1>7
  <2> QED
    BY <2>1, <2>2
<1>24. CASE DiscardChanges(p)
  <2>1. gproc[p].pc = "discard"
    BY <1>24 DEF DiscardChanges, At
  <2>2. ProcOK(Cur(p), "rehead", gproc[p].orig)
    BY <1>2, <2>1 DEF ProcOK
  <2>3. GoTo(p, "rehead") \/ Report(p, "error", "done")
    BY <1>24 DEF DiscardChanges
  <2> QED
    BY <2>2, <2>3, <1>4, <1>5, <1>8, <1>9
<1>25. CASE ResetToTarget(p)
  <2>1. gproc[p].pc = "rehead"
    BY <1>25 DEF ResetToTarget, At
  <2>2. CASE Cur(p).ui # "api" /\ Refuses(p, gproc[p].orig)
    <3>1. Report(p, "error", "done")
      BY <1>25, <2>2 DEF ResetToTarget
    <3> QED
      BY <3>1, <1>4, <1>8
  <2>3. CASE ~(Cur(p).ui # "api" /\ Refuses(p, gproc[p].orig))
    <3>1. GoTo(p, "force")
      BY <1>25, <2>3 DEF ResetToTarget
    <3>2. ProcOK(Cur(p), "force", gproc[p].orig)
      BY <1>2, <2>1, <2>3 DEF ProcOK, Refuses, IsProtectedBranch
    <3> QED
      BY <3>1, <3>2, <1>5, <1>9
  <2> QED
    BY <2>2, <2>3
<1>26. CASE GitPushForce(p)
  BY <1>26, <1>4, <1>8 DEF GitPushForce
<1> QED
  BY <1>11, <1>12, <1>13, <1>14, <1>15, <1>16, <1>17, <1>18, <1>19, <1>20, <1>21, <1>22, <1>23, <1>24, <1>25,
     <1>26 DEF GitPullSteps, GitPRSteps, GitResetSteps

\* The next job of a command, and a command's last.
LEMMA JobEndKeepsProcs ==
  ASSUME GitTypeOK, ProcInv, NEW p \in GitProcs, JobEnds(p)
  PROVE  gproc' \in [GitProcs -> ProcType] /\ ProcInv'
<1>1. Busy(p)
  BY DEF JobEnds, At
<1>2. CASE RestOf(p) = <<>>
  <2>1. gproc' = [gproc EXCEPT ![p] = IdleProc]
    BY <1>2 DEF JobEnds
  <2>2. IdleProc \in ProcType /\ IdleProc.todo = <<>>
    BY DEF IdleProc, ProcType, ProcPlaces, ProcResults
  <2>3. ProcGood(IdleProc)
    BY <2>2 DEF ProcGood
  <2> QED
    BY <2>1, <2>2, <2>3, ProcChanges
<1>3. CASE RestOf(p) # <<>>
  <2> DEFINE rest == Tail(gproc[p].todo)
             next == Head(rest)
             again == [next EXCEPT !.src = gwt[next.dir].head]
  <2>1. Starts(p, RestOf(p))
    BY <1>3 DEF JobEnds
  <2>2. gproc[p].todo \in Seq(JobType) /\ gproc[p].todo # <<>>
    BY <1>1, Current DEF ProcType, Busy
  <2>3. rest \in Seq(JobType)
    BY <2>2
  <2>4. rest # <<>>
    BY <1>3 DEF RestOf
  <2>5. RestOf(p) = <<again>> \o Tail(rest) \/ RestOf(p) = rest
    BY <1>3 DEF RestOf
  <2> HIDE DEF rest
  <2>6. next \in JobType /\ Tail(rest) \in Seq(JobType)
    BY <2>3, <2>4
  <2>7. gwt[next.dir].head \in Branches
    BY <2>6 DEF JobType, GitTypeOK, WorktreeType
  <2> HIDE DEF next
  <2>8. again \in JobType
    BY <2>6, <2>7 DEF JobType
  <2> HIDE DEF again
  <2>9. RestOf(p) \in Seq(JobType)
    BY <2>3, <2>5, <2>6, <2>8
  <2> QED
    BY <1>3, <2>1, <2>9, ProcStarts
<1> QED
  BY <1>2, <1>3

-----------------------------------------------------------------------------
(* What the steps do to branches.                                          *)

RefsOK ==
  /\ gremote \in [Branches -> SUBSET Commits]
  /\ gref \in [Dirs -> [Branches -> SUBSET Commits]] /\ gtrack \in [Dirs -> [Branches -> SUBSET Commits]]

\* The integration branch keeps its commits, or was forced.
MainGrows == gremote[Target] \subseteq gremote'[Target] \/ gforced'

\* One branch of one repository changes.
LEMMA RefChanges ==
  ASSUME NEW f \in [Dirs -> [Branches -> SUBSET Commits]], NEW r \in Dirs, NEW b \in Branches,
         NEW c \in SUBSET Commits
  PROVE  [f EXCEPT ![r][b] = c] \in [Dirs -> [Branches -> SUBSET Commits]]
OBVIOUS

\* What a branch contains.
LEMMA RefsAreCommits ==
  ASSUME GitTypeOK, NEW d \in Dirs
  PROVE  /\ Repo(d) \in Dirs /\ gwt[d] \in WorktreeType /\ gwt[d].head \in Branches
         /\ \A b \in Branches : RefOf(d, b) \in SUBSET Commits
         /\ HeadOf(d) \in SUBSET Commits
<1>1. Repo(d) \in Dirs
  BY GitAssumption DEF Repo
<1>2. gwt[d] \in WorktreeType /\ gwt[d].head \in Branches
  BY DEF GitTypeOK, WorktreeType
<1> QED
  BY <1>1, <1>2 DEF GitTypeOK, RefOf, HeadOf

\* What a merge can come to.
LEMMA MergesAreTyped ==
  ASSUME GitTypeOK, NEW d \in Dirs, NEW c \in SUBSET Commits, NEW r \in MergeResults(d, c)
  PROVE  r.ref \in SUBSET Commits /\ r.wt \in WorktreeType /\ r.wt.edits = gwt[d].edits
<1> DEFINE h == HeadOf(d)
           w == [gwt[d] EXCEPT !.unmerged = TRUE, !.incoming = c]
<1>1. h \in SUBSET Commits /\ gwt[d] \in WorktreeType
  BY RefsAreCommits
<1>2. w \in WorktreeType /\ w.edits = gwt[d].edits
  BY <1>1 DEF WorktreeType
<1>3. \/ r = [ok |-> FALSE, ref |-> h, wt |-> gwt[d]]
      \/ r = [ok |-> TRUE, ref |-> h \cup c, wt |-> gwt[d]]
      \/ r = [ok |-> FALSE, ref |-> h, wt |-> w]
  BY DEF MergeResults
<1> HIDE DEF h, w
<1> QED
  BY <1>1, <1>2, <1>3

\* A merge changes one branch.
LEMMA MergeKeepsRefs ==
  ASSUME GitTypeOK, NEW d \in Dirs, NEW c \in SUBSET Commits, NEW r \in MergeResults(d, c), GitMerge(d, r)
  PROVE  gref' \in [Dirs -> [Branches -> SUBSET Commits]]
<1>1. r.ref \in SUBSET Commits
  BY MergesAreTyped
<1>2. Repo(d) \in Dirs /\ gwt[d].head \in Branches
  BY RefsAreCommits
<1>3. gref \in [Dirs -> [Branches -> SUBSET Commits]]
  BY DEF GitTypeOK
<1>4. gref' = [gref EXCEPT ![Repo(d)][gwt[d].head] = r.ref]
  BY DEF GitMerge
<1> QED
  BY <1>1, <1>2, <1>3, <1>4, RefChanges

\* A push that is not forced takes no commit from any branch.
LEMMA PushGrows ==
  ASSUME GitTypeOK, NEW d \in Dirs, NEW b \in Branches, GitPush(d, b), UNCHANGED gref
  PROVE  RefsOK' /\ MainGrows
<1>1. Repo(d) \in Dirs /\ RefOf(d, b) \in SUBSET Commits
  BY RefsAreCommits
<1>2. gremote' = [gremote EXCEPT ![b] = RefOf(d, b)] /\ gremote[b] \subseteq RefOf(d, b)
  BY DEF GitPush, FastForward
<1>3. gtrack' = [gtrack EXCEPT ![Repo(d)][b] = RefOf(d, b)]
  BY DEF GitPush
<1>4. gtrack' \in [Dirs -> [Branches -> SUBSET Commits]]
  BY <1>1, <1>3, RefChanges DEF GitTypeOK
<1>5. gremote' \in [Branches -> SUBSET Commits]
  BY <1>1, <1>2 DEF GitTypeOK
<1>6. gremote[Target] \subseteq gremote'[Target]
  BY <1>2 DEF GitTypeOK, Branches
<1> QED
  BY <1>4, <1>5, <1>6 DEF RefsOK, MainGrows, GitTypeOK

\* A step that leaves all branches alone.
LEMMA RefsStay ==
  ASSUME GitTypeOK, UNCHANGED <<gremote, gref, gtrack>>
  PROVE  RefsOK' /\ MainGrows
BY DEF GitTypeOK, RefsOK, MainGrows

\* The steps of a command keep the branches typed, and only a reset that was
\* told to takes commits from the integration branch.
LEMMA StepsKeepRefs ==
  ASSUME GitTypeOK, ProcInv, NEW p \in GitProcs,
         GitPushSteps(p) \/ GitPullSteps(p) \/ GitPRSteps(p) \/ GitResetSteps(p) \/ JobEnds(p)
  PROVE  RefsOK' /\ MainGrows
<1> DEFINE d == Cur(p).dir
<1>1. Busy(p)
  BY DEF GitPushSteps, GitFetch, CountStash, StashChanges, RecountStash, CheckoutTarget, GitPull,
         HasCommitsBetween, MergeSource, AgentResolves, PushTarget, RestoreBranch, StashCleanup,
         GitPullSteps, GitPRSteps, GitResetSteps, PullMerge, GitMergeAbort, PullPush, PRPush, CreatePR,
         GetExistingPRURL, RemoteBranchPushed, GetOpenPR, GetEpicInfo, CreateEpicPR, StoreExternalRef,
         CheckAgentLock, ReadBranch, DiscardChanges, ResetToTarget, GitPushForce, JobEnds, At
<1>2. /\ gproc[p] \in ProcType /\ Cur(p) \in JobType /\ d \in Dirs /\ Cur(p).src \in Branches
      /\ ProcOK(Cur(p), gproc[p].pc, gproc[p].orig)
  BY <1>1, Current DEF ProcInv, ProcGood, Busy, Cur
<1>3. /\ Repo(d) \in Dirs /\ gwt[d] \in WorktreeType /\ gwt[d].head \in Branches
      /\ \A b \in Branches : RefOf(d, b) \in SUBSET Commits
      /\ HeadOf(d) \in SUBSET Commits
  BY <1>2, RefsAreCommits
<1>4. RefsOK /\ Target \in Branches
  BY DEF RefsOK, GitTypeOK, Branches
<1>5. CASE UNCHANGED <<gremote, gref, gtrack>>
  BY <1>5, RefsStay
<1>6. CASE GitFetch(p)
  <2>1. UNCHANGED <<gremote, gref>>
    BY <1>6 DEF GitFetch
  <2>2. gtrack' = [gtrack EXCEPT ![Repo(d)] = gremote] \/ UNCHANGED gtrack
    BY <1>6 DEF GitFetch
  <2> QED
    BY <1>3, <1>4, <2>1, <2>2 DEF RefsOK, MainGrows
<1>7. CASE GitPull(p)
  <2>1. UNCHANGED gremote
    BY <1>7 DEF GitPull
  <2>2. CASE UNCHANGED <<gtrack, gref>>
    BY <2>1, <2>2, RefsStay
  <2>3. CASE ~UNCHANGED <<gtrack, gref>>
    <3>1. gtrack' = [gtrack EXCEPT ![Repo(d)][Target] = gremote[Target]]
      BY <1>7, <2>3 DEF GitPull
    <3>2. PICK r \in MergeResults(d, gremote[Target]) : GitMerge(d, r)
      BY <1>7, <2>3 DEF GitPull
    <3>3. gremote[Target] \in SUBSET Commits
      BY <1>4 DEF RefsOK
    <3>4. gref' \in [Dirs -> [Branches -> SUBSET Commits]]
      BY <1>2, <3>2, <3>3, MergeKeepsRefs
    <3>5. gtrack' \in [Dirs -> [Branches -> SUBSET Commits]]
      BY <1>3, <1>4, <3>1, <3>3, RefChanges DEF RefsOK
    <3> QED
      BY <1>4, <2>1, <3>4, <3>5 DEF RefsOK, MainGrows
  <2> QED
    BY <2>2, <2>3
<1>8. CASE MergeSource(p)
  <2>1. UNCHANGED <<gremote, gtrack>>
    BY <1>8 DEF MergeSource
  <2>2. PICK r \in MergeResults(d, RefOf(d, Cur(p).src)) : GitMerge(d, r)
    BY <1>8 DEF MergeSource
  <2>3. gref' \in [Dirs -> [Branches -> SUBSET Commits]]
    BY <1>2, <1>3, <2>2, MergeKeepsRefs
  <2> QED
    BY <1>4, <2>1, <2>3 DEF RefsOK, MainGrows
<1>9. CASE PullMerge(p)
  <2>1. UNCHANGED <<gremote, gtrack>>
    BY <1>9 DEF PullMerge
  <2>2. PICK r \in MergeResults(d, gtrack[Repo(d)][Target]) : GitMerge(d, r)
    BY <1>9 DEF PullMerge
  <2>3. gtrack[Repo(d)][Target] \in SUBSET Commits
    BY <1>3, <1>4 DEF RefsOK
  <2>4. gref' \in [Dirs -> [Branches -> SUBSET Commits]]
    BY <1>2, <2>2, <2>3, MergeKeepsRefs
  <2> QED
    BY <1>4, <2>1, <2>4 DEF RefsOK, MainGrows
<1>10. CASE AgentResolves(p)
  <2> DEFINE merged == HeadOf(d) \cup gwt[d].incoming
             h == gwt[d].head
  <2>1. UNCHANGED gtrack
    BY <1>10 DEF AgentResolves
  <2>2. merged \in SUBSET Commits
    BY <1>3 DEF WorktreeType
  <2>3. gref' = [gref EXCEPT ![Repo(d)][h] = merged] \/ UNCHANGED gref
    BY <1>10 DEF AgentResolves
  <2>4. \/ gremote[h] \subseteq merged /\ gremote' = [gremote EXCEPT ![h] = merged]
        \/ UNCHANGED gremote
    BY <1>10 DEF AgentResolves
  <2>5. h \in Branches
    BY <1>3
  <2> HIDE DEF merged, h
  <2>6. gref' \in [Dirs -> [Branches -> SUBSET Commits]]
    <3>1. Repo(d) \in Dirs /\ gref \in [Dirs -> [Branches -> SUBSET Commits]]
      BY <1>3, <1>4 DEF RefsOK
    <3>2. [gref EXCEPT ![Repo(d)][h] = merged] \in [Dirs -> [Branches -> SUBSET Commits]]
      BY <2>2, <2>5, <3>1, RefChanges
    <3> QED
      BY <2>3, <3>1, <3>2
  <2>7. gremote' \in [Branches -> SUBSET Commits] /\ gremote[Target] \subseteq gremote'[Target]
    BY <1>4, <2>2, <2>4, <2>5 DEF RefsOK
  <2> QED
    BY <1>4, <2>1, <2>6, <2>7 DEF RefsOK, MainGrows
<1>11. CASE PushTarget(p) \/ PullPush(p) \/ PRPush(p)
  <2>1. UNCHANGED gref
    BY <1>11 DEF PushTarget, PullPush, PRPush
  <2>2. GitPush(d, Target) \/ GitPush(d, Cur(p).src) \/ UNCHANGED <<gremote, gtrack>>
    BY <1>11 DEF PushTarget, PullPush, PRPush
  <2>3. CASE UNCHANGED <<gremote, gtrack>>
    BY <2>1, <2>3, RefsStay
  <2> HIDE DEF d
  <2> QED
    BY <1>2, <1>4, <2>1, <2>2, <2>3, PushGrows
<1>12. CASE ResetToTarget(p)
  <2>1. UNCHANGED <<gremote, gtrack>>
    BY <1>12 DEF ResetToTarget
  <2>2. gref' = [gref EXCEPT ![Repo(d)][gwt[d].head] = gtrack[Repo(d)][Target]]
    BY <1>12 DEF ResetToTarget
  <2>3. gtrack[Repo(d)][Target] \in SUBSET Commits
    BY <1>3, <1>4 DEF RefsOK
  <2>4. gref' \in [Dirs -> [Branches -> SUBSET Commits]]
    BY <1>3, <1>4, <2>2, <2>3, RefChanges DEF RefsOK
  <2> QED
    BY <1>4, <2>1, <2>4 DEF RefsOK, MainGrows
<1>13. CASE GitPushForce(p)
  <2> DEFINE b == gproc[p].orig
  <2>1. gproc[p].pc = "force" /\ UNCHANGED gref
    BY <1>13 DEF GitPushForce, At
  <2>2. b \in Branches /\ (b # Target \/ Cur(p).force)
    BY <1>2, <2>1 DEF ProcOK
  <2>3. CASE UNCHANGED <<gremote, gtrack>>
    BY <2>1, <2>3, RefsStay
  <2>4. CASE ~UNCHANGED <<gremote, gtrack>>
    <3>1. /\ gremote' = [gremote EXCEPT ![b] = RefOf(d, b)]
          /\ gtrack' = [gtrack EXCEPT ![Repo(d)][b] = RefOf(d, b)]
          /\ gforced' = (gforced \/ (b = Target /\ Cur(p).force))
      BY <1>13, <2>4 DEF GitPushForce
    <3>2. RefOf(d, b) \in SUBSET Commits
      BY <1>3, <2>2
    <3>3. gtrack' \in [Dirs -> [Branches -> SUBSET Commits]]
      BY <1>3, <1>4, <2>2, <3>1, <3>2, RefChanges DEF RefsOK
    <3>4. gremote' \in [Branches -> SUBSET Commits]
      BY <1>4, <3>1, <3>2 DEF RefsOK
    <3>5. CASE b = Target
      <4>1. gforced'
        BY <2>2, <3>1, <3>5
      <4> QED
        BY <1>4, <2>1, <3>3, <3>4, <4>1 DEF RefsOK, MainGrows
    <3>6. CASE b # Target
      <4>1. gremote'[Target] = gremote[Target]
        BY <1>4, <3>1, <3>6 DEF RefsOK
      <4> QED
        BY <1>4, <2>1, <3>3, <3>4, <4>1 DEF RefsOK, MainGrows
    <3> QED
      BY <3>5, <3>6
  <2> QED
    BY <2>3, <2>4
<1> HIDE DEF d
<1>14. CASE GitPushSteps(p)
  <2>1. \/ GitFetch(p) \/ GitPull(p) \/ MergeSource(p) \/ AgentResolves(p) \/ PushTarget(p)
        \/ UNCHANGED <<gremote, gref, gtrack>>
    BY <1>14 DEF GitPushSteps, CountStash, StashChanges, RecountStash, CheckoutTarget,
                 HasCommitsBetween, RestoreBranch, StashCleanup
  <2> QED
    BY <2>1, <1>5, <1>6, <1>7, <1>8, <1>10, <1>11
<1>15. CASE GitPullSteps(p) \/ GitPRSteps(p)
  <2>1. PullMerge(p) \/ PullPush(p) \/ PRPush(p) \/ UNCHANGED <<gremote, gref, gtrack>>
    BY <1>15 DEF GitPullSteps, GitPRSteps, GitMergeAbort, CreatePR, GetExistingPRURL, RemoteBranchPushed,
                 GetOpenPR, GetEpicInfo, CreateEpicPR, StoreExternalRef
  <2> QED
    BY <2>1, <1>5, <1>9, <1>11
<1>16. CASE GitResetSteps(p) \/ JobEnds(p)
  <2>1. ResetToTarget(p) \/ GitPushForce(p) \/ UNCHANGED <<gremote, gref, gtrack>>
    BY <1>16 DEF GitResetSteps, JobEnds, CheckAgentLock, ReadBranch, DiscardChanges
  <2> QED
    BY <2>1, <1>5, <1>12, <1>13
<1> QED
  BY <1>14, <1>15, <1>16

-----------------------------------------------------------------------------
(* What the steps do to uncommitted edits.                                 *)

EditsOf(s) == UNION {s[i].edits : i \in DOMAIN s}
WorkOK ==
  /\ gwt \in [Dirs -> WorktreeType] /\ gstash \in [Dirs -> Seq(StashType)]
  /\ gdiscarded \subseteq Dirs /\ EditsAreSafe

\* A stash with one entry more, and with its latest entry taken out.
LEMMA StashEdits ==
  ASSUME NEW s \in Seq(StashType), NEW x \in StashType
  PROVE  /\ <<x>> \o s \in Seq(StashType) /\ EditsOf(<<x>> \o s) = x.edits \cup EditsOf(s)
         /\ s # <<>> => /\ Head(s) \in StashType /\ Tail(s) \in Seq(StashType)
                        /\ EditsOf(s) = Head(s).edits \cup EditsOf(Tail(s))
<1>1. <<x>> \o s \in Seq(StashType)
  OBVIOUS
<1>2. EditsOf(<<x>> \o s) = x.edits \cup EditsOf(s)
  <2> DEFINE t == <<x>> \o s
  <2>1. Len(t) = Len(s) + 1 /\ t[1] = x /\ \A i \in 1..Len(s) : t[i + 1] = s[i]
    OBVIOUS
  <2>2. DOMAIN t = 1..Len(t) /\ DOMAIN s = 1..Len(s) /\ Len(s) \in Nat
    BY <1>1
  <2> HIDE DEF t
  <2>3. ASSUME NEW e \in EditsOf(t) PROVE e \in x.edits \cup EditsOf(s)
    <3>1. PICK i \in 1..Len(t) : e \in t[i].edits
      BY <2>2 DEF EditsOf
    <3>2. CASE i = 1
      BY <3>1, <3>2, <2>1
    <3>3. CASE i # 1
      <4>1. i - 1 \in 1..Len(s) /\ (i - 1) + 1 = i
        BY <3>3, <2>1, <2>2
      <4>2. t[i] = s[i - 1]
        BY <4>1, <2>1
      <4> QED
        BY <3>1, <4>1, <4>2, <2>2 DEF EditsOf
    <3> QED
      BY <3>2, <3>3
  <2>4. ASSUME NEW e \in EditsOf(s) PROVE e \in EditsOf(t)
    <3>1. PICK i \in 1..Len(s) : e \in s[i].edits
      BY <2>2 DEF EditsOf
    <3>2. i + 1 \in 1..Len(t) /\ t[i + 1] = s[i]
      BY <2>1, <2>2
    <3> QED
      BY <3>1, <3>2, <2>2 DEF EditsOf
  <2>5. x.edits \subseteq EditsOf(t)
    <3>1. 1 \in 1..Len(t)
      BY <2>1, <2>2
    <3> QED
      BY <3>1, <2>1, <2>2 DEF EditsOf
  <2> QED
    BY <2>3, <2>4, <2>5 DEF t
<1>3. ASSUME s # <<>>
      PROVE  /\ Head(s) \in StashType /\ Tail(s) \in Seq(StashType)
             /\ EditsOf(s) = Head(s).edits \cup EditsOf(Tail(s))
  <2> DEFINE t == Tail(s)
  <2>1. Head(s) \in StashType /\ t \in Seq(StashType)
    BY <1>3
  <2>2. Len(s) \in Nat /\ Len(s) # 0 /\ Len(t) = Len(s) - 1 /\ Head(s) = s[1]
    BY <1>3
  <2>3. \A i \in 1..Len(t) : t[i] = s[i + 1]
    BY <1>3
  <2>4. DOMAIN t = 1..Len(t) /\ DOMAIN s = 1..Len(s) /\ Len(t) \in Nat
    BY <2>1
  <2> HIDE DEF t
  <2>5. ASSUME NEW e \in EditsOf(s) PROVE e \in Head(s).edits \cup EditsOf(t)
    <3>1. PICK i \in 1..Len(s) : e \in s[i].edits
      BY <2>4 DEF EditsOf
    <3>2. CASE i = 1
      BY <3>1, <3>2, <2>2
    <3>3. CASE i # 1
      <4>1. i - 1 \in 1..Len(t) /\ (i - 1) + 1 = i
        BY <3>3, <2>2, <2>4
      <4>2. t[i - 1] = s[i]
        BY <4>1, <2>3
      <4> QED
        BY <3>1, <4>1, <4>2, <2>4 DEF EditsOf
    <3> QED
      BY <3>2, <3>3
  <2>6. ASSUME NEW e \in EditsOf(t) PROVE e \in EditsOf(s)
    <3>1. PICK i \in 1..Len(t) : e \in t[i].edits
      BY <2>4 DEF EditsOf
    <3>2. i + 1 \in 1..Len(s) /\ t[i] = s[i + 1]
      BY <2>2, <2>3, <2>4
    <3> QED
      BY <3>1, <3>2, <2>4 DEF EditsOf
  <2>7. Head(s).edits \subseteq EditsOf(s)
    <3>1. 1 \in 1..Len(s)
      BY <2>2
    <3> QED
      BY <3>1, <2>2, <2>4 DEF EditsOf
  <2>8. EditsOf(s) = Head(s).edits \cup EditsOf(t)
    BY <2>5, <2>6, <2>7
  <2> QED
    BY <2>1, <2>8 DEF t
<1> QED
  BY <1>1, <1>2, <1>3

\* EditsAreSafe edit by edit.
Kept(e) == \E x \in Dirs : e \in gwt[x].edits \/ e \in EditsOf(gstash[x])
OwnEdits == \A x \in Dirs : gwt[x].edits \subseteq {x} /\ EditsOf(gstash[x]) \subseteq {x}
EditByEdit == (\A e \in gedited : e \in gdiscarded \/ Kept(e)) /\ (glayout = "clones" => OwnEdits)

\* EditsAreSafe says that every edit is somewhere.
LEMMA SafeEditByEdit == EditsAreSafe <=> EditByEdit
<1> DEFINE S == {gwt[d].edits \cup Stashed(d) : d \in Dirs}
<1>1. \A x \in Dirs : Stashed(x) = EditsOf(gstash[x])
  BY DEF Stashed, EditsOf
<1>2. \A e : e \in UNION S <=> \E d \in Dirs : e \in gwt[d].edits \cup Stashed(d)
  OBVIOUS
<1>3. EditsAreSafe <=>
        /\ \A e \in gedited : e \in UNION S \/ e \in gdiscarded
        /\ glayout = "clones" => \A d \in Dirs : gwt[d].edits \cup Stashed(d) \subseteq {d}
  <2>1. EditsAreSafe <=>
          /\ gedited \subseteq (UNION S) \cup gdiscarded
          /\ glayout = "clones" => \A d \in Dirs : gwt[d].edits \cup Stashed(d) \subseteq {d}
    BY DEF EditsAreSafe
  <2> HIDE DEF S
  <2>2. gedited \subseteq (UNION S) \cup gdiscarded <=> \A e \in gedited : e \in UNION S \/ e \in gdiscarded
    BY Zenon
  <2> QED
    BY <2>1, <2>2, Zenon
<1> HIDE DEF S
<1>4. \A e : e \in UNION S <=> Kept(e)
  BY <1>1, <1>2 DEF Kept
<1>5. OwnEdits <=> \A d \in Dirs : gwt[d].edits \cup Stashed(d) \subseteq {d}
  BY <1>1 DEF OwnEdits
<1> QED
  BY <1>3, <1>4, <1>5 DEF EditByEdit

\* Edits move between a working tree and the stash of its repository, or are
\* discarded and recorded as such.
LEMMA EditsMove ==
  ASSUME GitTypeOK, EditsAreSafe, NEW d \in Dirs, NEW w \in WorktreeType, NEW s \in Seq(StashType),
         gwt' = [gwt EXCEPT ![d] = w], gstash' = [gstash EXCEPT ![Repo(d)] = s],
         gwt[d].edits \cup EditsOf(gstash[Repo(d)]) \subseteq w.edits \cup EditsOf(s) \cup gdiscarded',
         w.edits \cup EditsOf(s) \subseteq gwt[d].edits \cup EditsOf(gstash[Repo(d)]),
         gdiscarded \subseteq gdiscarded', gdiscarded' \subseteq Dirs, UNCHANGED <<glayout, gedited>>
  PROVE  WorkOK'
<1>1. Repo(d) \in Dirs
  BY GitAssumption DEF Repo
<1>2. gwt' \in [Dirs -> WorktreeType] /\ gstash' \in [Dirs -> Seq(StashType)]
  BY <1>1 DEF GitTypeOK
<1>3. \A x \in Dirs : gwt'[x].edits = IF x = d THEN w.edits ELSE gwt[x].edits
  BY DEF GitTypeOK
<1>4. \A x \in Dirs : gstash'[x] = IF x = Repo(d) THEN s ELSE gstash[x]
  BY DEF GitTypeOK
<1>5. EditByEdit
  BY SafeEditByEdit
<1>6. ASSUME NEW e \in gedited' PROVE e \in gdiscarded' \/ Kept(e)'
  <2>1. e \in gedited
    OBVIOUS
  <2>2. CASE e \in gdiscarded
    BY <2>2
  <2>3. CASE e \notin gdiscarded
    <3>1. PICK x \in Dirs : e \in gwt[x].edits \/ e \in EditsOf(gstash[x])
      BY <2>1, <2>3, <1>5 DEF EditByEdit, Kept
    <3>2. CASE e \in gwt[d].edits \/ e \in EditsOf(gstash[Repo(d)])
      <4>1. e \in w.edits \/ e \in EditsOf(s) \/ e \in gdiscarded'
        BY <3>2
      <4>2. gwt'[d].edits = w.edits /\ gstash'[Repo(d)] = s
        BY <1>1, <1>3, <1>4
      <4>3. CASE e \in w.edits
        BY <4>2, <4>3 DEF Kept
      <4>4. CASE e \in EditsOf(s)
        BY <4>2, <4>4, <1>1 DEF Kept, EditsOf
      <4> QED
        BY <4>1, <4>3, <4>4
    <3>3. CASE e \notin gwt[d].edits /\ e \notin EditsOf(gstash[Repo(d)])
      <4>1. e \in gwt'[x].edits \/ (gstash'[x] = gstash[x] /\ e \in EditsOf(gstash[x]))
        BY <3>1, <3>3, <1>3, <1>4
      <4> QED
        BY <4>1 DEF Kept, EditsOf
    <3> QED
      BY <3>2, <3>3
  <2> QED
    BY <2>2, <2>3
<1>7. ASSUME glayout' = "clones", NEW x \in Dirs
      PROVE  gwt'[x].edits \subseteq {x} /\ EditsOf(gstash'[x]) \subseteq {x}
  <2>1. glayout = "clones" /\ Repo(d) = d
    BY <1>7 DEF Repo
  <2>2. gwt[x].edits \subseteq {x} /\ EditsOf(gstash[x]) \subseteq {x}
    BY <2>1, <1>5 DEF EditByEdit, OwnEdits
  <2>3. CASE x = d
    <3>1. gwt'[x].edits = w.edits /\ gstash'[x] = s
      BY <2>1, <2>3, <1>3, <1>4
    <3>2. w.edits \cup EditsOf(s) \subseteq {x}
      BY <2>1, <2>2, <2>3
    <3> QED
      BY <3>1, <3>2
  <2>4. CASE x # d
    BY <2>1, <2>2, <2>4, <1>3, <1>4
  <2> QED
    BY <2>3, <2>4
<1>8. EditByEdit'
  BY <1>6, <1>7 DEF EditByEdit, OwnEdits, EditsOf
<1>9. EditsAreSafe'
  BY <1>8, SafeEditByEdit, PTL
<1> QED
  BY <1>2, <1>9 DEF WorkOK

\* A working tree that changes and keeps its edits.
LEMMA TreeChanges ==
  ASSUME GitTypeOK, EditsAreSafe, NEW d \in Dirs, NEW w \in WorktreeType, w.edits = gwt[d].edits,
         gwt' = [gwt EXCEPT ![d] = w], UNCHANGED <<gstash, gdiscarded, glayout, gedited>>
  PROVE  WorkOK'
<1>1. Repo(d) \in Dirs
  BY GitAssumption DEF Repo
<1>2. gstash' = [gstash EXCEPT ![Repo(d)] = gstash[Repo(d)]] /\ gstash[Repo(d)] \in Seq(StashType)
  BY <1>1 DEF GitTypeOK
<1>3. gdiscarded \subseteq gdiscarded' /\ gdiscarded' \subseteq Dirs /\ UNCHANGED <<glayout, gedited>>
  BY DEF GitTypeOK
<1> QED
  BY <1>2, <1>3, EditsMove

\* A step that leaves the working trees and the stashes alone.
LEMMA WorkStays ==
  ASSUME GitTypeOK, EditsAreSafe, UNCHANGED <<gwt, gstash, gdiscarded, glayout, gedited>>
  PROVE  WorkOK'
<1>1. EditByEdit'
  BY SafeEditByEdit DEF EditByEdit, Kept, OwnEdits, EditsOf
<1>2. EditsAreSafe'
  BY <1>1, SafeEditByEdit, PTL
<1> QED
  BY <1>2 DEF GitTypeOK, WorkOK

\* A checkout, whether it succeeds or fails.
LEMMA CheckoutKeepsWork ==
  ASSUME GitTypeOK, EditsAreSafe, NEW d \in Dirs, NEW b \in Branches, GitCheckout(d, b) \/ CheckoutFails(d, b),
         UNCHANGED <<gstash, gdiscarded, glayout, gedited>>
  PROVE  WorkOK'
<1>1. CASE CheckoutFails(d, b)
  BY <1>1, WorkStays DEF CheckoutFails
<1>2. CASE GitCheckout(d, b)
  <2> DEFINE w == [gwt[d] EXCEPT !.head = b]
  <2>1. w \in WorktreeType /\ w.edits = gwt[d].edits
    <3>1. gwt[d] \in WorktreeType
      BY DEF GitTypeOK
    <3> QED
      BY <3>1 DEF WorktreeType
  <2>2. gwt' = [gwt EXCEPT ![d] = w]
    BY <1>2 DEF GitCheckout, GitTypeOK
  <2> HIDE DEF w
  <2> QED
    BY <2>1, <2>2, TreeChanges
<1> QED
  BY <1>1, <1>2

\* A merge, whatever comes of it.
LEMMA MergeKeepsWork ==
  ASSUME GitTypeOK, EditsAreSafe, NEW d \in Dirs, NEW c \in SUBSET Commits, NEW r \in MergeResults(d, c),
         GitMerge(d, r), UNCHANGED <<gstash, gdiscarded, glayout, gedited>>
  PROVE  WorkOK'
<1>1. r.wt \in WorktreeType /\ r.wt.edits = gwt[d].edits
  BY MergesAreTyped
<1>2. gwt' = [gwt EXCEPT ![d] = r.wt]
  BY DEF GitMerge
<1> QED
  BY <1>1, <1>2, TreeChanges

\* The end of a merge.
LEMMA MergesEnd ==
  ASSUME NEW wt \in WorktreeType, NEW e \in SUBSET Dirs
  PROVE  /\ MergeOver(wt, e) \in WorktreeType
         /\ MergeOver(wt, e).edits = e /\ MergeOver(wt, e).head = wt.head
BY DEF MergeOver, WorktreeType

\* The abort of a merge throws the edits of the files in conflict away and says so.
LEMMA AbortKeepsWork ==
  ASSUME GitTypeOK, EditsAreSafe, NEW d \in Dirs, UNCHANGED <<gstash, glayout, gedited>>,
         gwt' = [gwt EXCEPT ![d] = MergeOver(gwt[d], gwt[d].edits \ gwt[d].exposed)],
         gdiscarded' = gdiscarded \cup gwt[d].exposed
  PROVE  WorkOK'
<1> DEFINE e == gwt[d].edits \ gwt[d].exposed
           w == MergeOver(gwt[d], e)
<1>1. Repo(d) \in Dirs /\ gwt[d] \in WorktreeType
  BY GitAssumption DEF Repo, GitTypeOK
<1>2. e \in SUBSET Dirs /\ gwt[d].exposed \subseteq Dirs
  BY <1>1 DEF WorktreeType
<1>3. w \in WorktreeType /\ w.edits = e
  BY <1>1, <1>2, MergesEnd
<1>4. gstash' = [gstash EXCEPT ![Repo(d)] = gstash[Repo(d)]] /\ gstash[Repo(d)] \in Seq(StashType)
  BY <1>1 DEF GitTypeOK
<1>5. gdiscarded \subseteq Dirs
  BY DEF GitTypeOK
<1> HIDE DEF w
<1>6. /\ gwt[d].edits \cup EditsOf(gstash[Repo(d)]) \subseteq w.edits \cup EditsOf(gstash[Repo(d)]) \cup gdiscarded'
      /\ w.edits \cup EditsOf(gstash[Repo(d)]) \subseteq gwt[d].edits \cup EditsOf(gstash[Repo(d)])
      /\ gdiscarded \subseteq gdiscarded' /\ gdiscarded' \subseteq Dirs
  BY <1>2, <1>3, <1>5
<1>7. gwt' = [gwt EXCEPT ![d] = w]
  BY DEF w
<1> QED
  BY <1>3, <1>4, <1>6, <1>7, EditsMove

\* A reset throws edits away and says so.
LEMMA DiscardKeepsWork ==
  ASSUME GitTypeOK, EditsAreSafe, NEW d \in Dirs, Discards(d), UNCHANGED <<gstash, glayout, gedited>>
  PROVE  WorkOK'
<1> DEFINE w == MergeOver(gwt[d], {})
<1>1. Repo(d) \in Dirs /\ gwt[d] \in WorktreeType
  BY GitAssumption DEF Repo, GitTypeOK
<1>2. w \in WorktreeType /\ w.edits = {} /\ gwt[d].edits \subseteq Dirs
  <2>1. gwt[d].edits \subseteq Dirs
    BY <1>1 DEF WorktreeType
  <2> QED
    BY <1>1, <2>1, MergesEnd
<1>3. gwt' = [gwt EXCEPT ![d] = w]
  BY DEF Discards, GitTypeOK
<1>4. gstash' = [gstash EXCEPT ![Repo(d)] = gstash[Repo(d)]] /\ gstash[Repo(d)] \in Seq(StashType)
  BY <1>1 DEF GitTypeOK
<1>5. gdiscarded' = gdiscarded \cup gwt[d].edits /\ gdiscarded \subseteq Dirs
  BY DEF Discards, GitTypeOK
<1> HIDE DEF w
<1>6. /\ gwt[d].edits \cup EditsOf(gstash[Repo(d)]) \subseteq w.edits \cup EditsOf(gstash[Repo(d)]) \cup gdiscarded'
      /\ w.edits \cup EditsOf(gstash[Repo(d)]) \subseteq gwt[d].edits \cup EditsOf(gstash[Repo(d)])
      /\ gdiscarded \subseteq gdiscarded' /\ gdiscarded' \subseteq Dirs
  BY <1>2, <1>5
<1> QED
  BY <1>2, <1>3, <1>4, <1>6, EditsMove

\* git stash moves the edits of a directory to the stash.
LEMMA StashKeepsWork ==
  ASSUME GitTypeOK, EditsAreSafe, NEW p \in GitProcs, StashChanges(p)
  PROVE  WorkOK'
<1> DEFINE d == Cur(p).dir
           w == [gwt[d] EXCEPT !.edits = {}]
           x == [edits |-> gwt[d].edits, base |-> HeadOf(d)]
           s == gstash[Repo(d)]
<1>1. d \in Dirs /\ UNCHANGED <<gdiscarded, glayout, gedited>>
  BY Current DEF StashChanges, At, gitEnv
<1>2. Repo(d) \in Dirs /\ gwt[d] \in WorktreeType /\ HeadOf(d) \in SUBSET Commits
  BY <1>1, RefsAreCommits
<1>3. CASE UNCHANGED <<gstash, gwt>>
  BY <1>1, <1>3, WorkStays
<1>4. CASE ~UNCHANGED <<gstash, gwt>>
  <2>1. /\ gstash' = IF gwt[d].edits = {} THEN gstash ELSE [gstash EXCEPT ![Repo(d)] = <<x>> \o s]
        /\ gwt' = [gwt EXCEPT ![d] = w]
    BY <1>4 DEF StashChanges, GitTypeOK
  <2>2. w \in WorktreeType /\ w.edits = {}
    BY <1>2 DEF WorktreeType
  <2>3. x \in StashType /\ x.edits = gwt[d].edits /\ s \in Seq(StashType)
    BY <1>2 DEF WorktreeType, StashType, GitTypeOK
  <2>4. <<x>> \o s \in Seq(StashType) /\ EditsOf(<<x>> \o s) = x.edits \cup EditsOf(s)
    BY <2>3, StashEdits
  <2>5. gdiscarded \subseteq gdiscarded' /\ gdiscarded' \subseteq Dirs
    BY <1>1 DEF GitTypeOK
  <2>6. CASE gwt[d].edits = {}
    <3>1. gstash' = [gstash EXCEPT ![Repo(d)] = s]
      BY <1>2, <2>1, <2>6 DEF GitTypeOK
    <3> HIDE DEF w, x
    <3>2. gwt[d].edits \cup EditsOf(s) \subseteq w.edits \cup EditsOf(s) \cup gdiscarded'
      BY <2>6
    <3>3. w.edits \cup EditsOf(s) \subseteq gwt[d].edits \cup EditsOf(s)
      BY <2>2
    <3> HIDE DEF d
    <3> QED
      BY <1>1, <2>1, <2>2, <2>3, <2>5, <3>1, <3>2, <3>3, EditsMove
  <2>7. CASE gwt[d].edits # {}
    <3> DEFINE t == <<x>> \o s
    <3>1. gstash' = [gstash EXCEPT ![Repo(d)] = t]
      BY <2>1, <2>7
    <3>2. t \in Seq(StashType) /\ EditsOf(t) = gwt[d].edits \cup EditsOf(s)
      BY <2>3, <2>4
    <3> HIDE DEF w, x, t
    <3>3. gwt[d].edits \cup EditsOf(s) \subseteq w.edits \cup EditsOf(t) \cup gdiscarded'
      BY <3>2
    <3>4. w.edits \cup EditsOf(t) \subseteq gwt[d].edits \cup EditsOf(s)
      BY <2>2, <3>2
    <3> HIDE DEF d
    <3> QED
      BY <1>1, <2>1, <2>2, <2>5, <3>1, <3>2, <3>3, <3>4, EditsMove
  <2> QED
    BY <2>6, <2>7
<1> QED
  BY <1>3, <1>4

\* git stash pop moves the latest entry back, to whichever directory pops it.
LEMMA PopKeepsWork ==
  ASSUME GitTypeOK, EditsAreSafe, NEW d \in Dirs, GitStashPop(d), UNCHANGED <<gdiscarded, glayout, gedited>>
  PROVE  WorkOK'
<1> DEFINE s == gstash[Repo(d)]
           t == Tail(s)
           top == Head(s)
           e == gwt[d].edits \cup top.edits
           w == [gwt[d] EXCEPT !.edits = e]
           v == [gwt[d] EXCEPT !.unmerged = TRUE, !.incoming = {}]
<1>1. Repo(d) \in Dirs /\ gwt[d] \in WorktreeType /\ s \in Seq(StashType)
  BY GitAssumption DEF Repo, GitTypeOK
<1>2. CASE UNCHANGED <<gwt, gstash>>
  BY <1>2, WorkStays
<1>3. CASE gwt' = [gwt EXCEPT ![d].unmerged = TRUE, ![d].incoming = {}] /\ UNCHANGED gstash
  <2>1. gwt' = [gwt EXCEPT ![d] = v]
    BY <1>3 DEF GitTypeOK
  <2>2. v \in WorktreeType /\ v.edits = gwt[d].edits
    BY <1>1 DEF WorktreeType
  <2> HIDE DEF v
  <2> QED
    BY <1>3, <2>1, <2>2, TreeChanges
<1>4. CASE /\ s # <<>> /\ gwt' = [gwt EXCEPT ![d].edits = @ \cup top.edits]
           /\ gstash' = [gstash EXCEPT ![Repo(d)] = Tail(@)]
  <2>1. gwt' = [gwt EXCEPT ![d] = w] /\ gstash' = [gstash EXCEPT ![Repo(d)] = t]
    BY <1>1, <1>4 DEF GitTypeOK
  <2>2. \E x \in StashType : TRUE
    BY <1>1, <1>4
  <2>3. top \in StashType /\ t \in Seq(StashType) /\ EditsOf(s) = top.edits \cup EditsOf(t)
    BY <1>1, <1>4, <2>2, StashEdits
  <2>4. top.edits \subseteq Dirs
    BY <2>3 DEF StashType
  <2> HIDE DEF s, t, top
  <2>5. e \in SUBSET Dirs
    BY <1>1, <2>4 DEF WorktreeType
  <2> HIDE DEF e
  <2>6. w \in WorktreeType /\ w.edits = e
    BY <1>1, <2>5 DEF WorktreeType
  <2> HIDE DEF w
  <2>7. gwt[d].edits \cup EditsOf(s) \subseteq w.edits \cup EditsOf(t) \cup gdiscarded'
    BY <2>3, <2>6 DEF e
  <2>8. w.edits \cup EditsOf(t) \subseteq gwt[d].edits \cup EditsOf(s)
    BY <2>3, <2>6 DEF e
  <2>9. gdiscarded \subseteq gdiscarded' /\ gdiscarded' \subseteq Dirs
    BY DEF GitTypeOK
  <2> QED
    BY <2>1, <2>3, <2>6, <2>7, <2>8, <2>9, EditsMove DEF s
<1> QED
  BY <1>2, <1>3, <1>4 DEF GitStashPop

\* The steps of a command keep every edit.
LEMMA StepsKeepWork ==
  ASSUME GitTypeOK, ProcInv, EditsAreSafe, NEW p \in GitProcs,
         GitPushSteps(p) \/ GitPullSteps(p) \/ GitPRSteps(p) \/ GitResetSteps(p) \/ JobEnds(p)
  PROVE  WorkOK'
<1> DEFINE d == Cur(p).dir
<1>1. Busy(p)
  BY DEF GitPushSteps, GitFetch, CountStash, StashChanges, RecountStash, CheckoutTarget, GitPull,
         HasCommitsBetween, MergeSource, AgentResolves, PushTarget, RestoreBranch, StashCleanup,
         GitPullSteps, GitPRSteps, GitResetSteps, PullMerge, GitMergeAbort, PullPush, PRPush, CreatePR,
         GetExistingPRURL, RemoteBranchPushed, GetOpenPR, GetEpicInfo, CreateEpicPR, StoreExternalRef,
         CheckAgentLock, ReadBranch, DiscardChanges, ResetToTarget, GitPushForce, JobEnds, At
<1>2. /\ gproc[p] \in ProcType /\ Cur(p) \in JobType /\ d \in Dirs /\ Cur(p).src \in Branches
      /\ ProcOK(Cur(p), gproc[p].pc, gproc[p].orig)
  BY <1>1, Current DEF ProcInv, ProcGood, Busy, Cur
<1>3. /\ Repo(d) \in Dirs /\ gwt[d] \in WorktreeType
      /\ \A b \in Branches : RefOf(d, b) \in SUBSET Commits
  BY <1>2, RefsAreCommits
<1>4. Target \in Branches
  BY DEF Branches
<1>5. CASE UNCHANGED <<gwt, gstash, gdiscarded, glayout, gedited>>
  BY <1>5, WorkStays
<1>6. CASE StashChanges(p)
  BY <1>6, StashKeepsWork
<1>7. CASE CheckoutTarget(p)
  <2>1. GitCheckout(d, Target) \/ CheckoutFails(d, Target)
    BY <1>7 DEF CheckoutTarget
  <2>2. UNCHANGED <<gstash, gdiscarded, glayout, gedited>>
    BY <1>7 DEF CheckoutTarget, gitEnv
  <2> QED
    BY <1>2, <1>4, <2>1, <2>2, CheckoutKeepsWork
<1>8. CASE RestoreBranch(p)
  <2>1. gproc[p].orig \in Branches
    BY <1>2, <1>8 DEF RestoreBranch, At, ProcOK
  <2>2. GitCheckout(d, gproc[p].orig) \/ CheckoutFails(d, gproc[p].orig)
    BY <1>8 DEF RestoreBranch
  <2>3. UNCHANGED <<gstash, gdiscarded, glayout, gedited>>
    BY <1>8 DEF RestoreBranch, gitEnv
  <2> QED
    BY <1>2, <2>1, <2>2, <2>3, CheckoutKeepsWork
<1>9. CASE GitPull(p)
  <2>1. UNCHANGED <<gstash, gdiscarded, glayout, gedited>>
    BY <1>9 DEF GitPull, gitEnv
  <2>2. UNCHANGED gwt \/ \E r \in MergeResults(d, gremote[Target]) : GitMerge(d, r)
    BY <1>9 DEF GitPull
  <2>3. gremote[Target] \in SUBSET Commits
    BY <1>4 DEF GitTypeOK
  <2>4. CASE UNCHANGED gwt
    BY <2>1, <2>4, WorkStays
  <2> QED
    BY <1>2, <2>1, <2>2, <2>3, <2>4, MergeKeepsWork
<1>10. CASE MergeSource(p)
  <2>1. UNCHANGED <<gstash, gdiscarded, glayout, gedited>>
    BY <1>10 DEF MergeSource, gitEnv
  <2>2. \E r \in MergeResults(d, RefOf(d, Cur(p).src)) : GitMerge(d, r)
    BY <1>10 DEF MergeSource
  <2> QED
    BY <1>2, <1>3, <2>1, <2>2, MergeKeepsWork
<1>11. CASE PullMerge(p)
  <2>1. UNCHANGED <<gstash, gdiscarded, glayout, gedited>>
    BY <1>11 DEF PullMerge, gitEnv
  <2>2. \E r \in MergeResults(d, gtrack[Repo(d)][Target]) : GitMerge(d, r)
    BY <1>11 DEF PullMerge
  <2>3. gtrack[Repo(d)][Target] \in SUBSET Commits
    BY <1>3, <1>4 DEF GitTypeOK
  <2> QED
    BY <1>2, <2>1, <2>2, <2>3, MergeKeepsWork
<1>12. CASE AgentResolves(p)
  <2> DEFINE w == MergeOver(gwt[d], gwt[d].edits)
  <2>1. UNCHANGED <<gstash, gdiscarded, glayout, gedited>>
    BY <1>12 DEF AgentResolves, gitEnv
  <2>2. UNCHANGED gwt \/ gwt' = [gwt EXCEPT ![d] = w]
    BY <1>12 DEF AgentResolves
  <2>3. w \in WorktreeType /\ w.edits = gwt[d].edits
    <3>1. gwt[d].edits \in SUBSET Dirs
      BY <1>3 DEF WorktreeType
    <3> QED
      BY <1>3, <3>1, MergesEnd
  <2>4. CASE UNCHANGED gwt
    BY <2>1, <2>4, WorkStays
  <2> HIDE DEF w
  <2> QED
    BY <1>2, <2>1, <2>2, <2>3, <2>4, TreeChanges
<1>18. CASE GitMergeAbort(p)
  <2>1. UNCHANGED <<gstash, glayout, gedited>>
    BY <1>18 DEF GitMergeAbort, gitEnv
  <2>2. \/ UNCHANGED <<gwt, gdiscarded>>
        \/ /\ gwt' = [gwt EXCEPT ![d] = MergeOver(gwt[d], gwt[d].edits \ gwt[d].exposed)]
           /\ gdiscarded' = gdiscarded \cup gwt[d].exposed
    BY <1>18 DEF GitMergeAbort
  <2>3. CASE UNCHANGED <<gwt, gdiscarded>>
    BY <2>1, <2>3, WorkStays
  <2> QED
    BY <1>2, <2>1, <2>2, <2>3, AbortKeepsWork
<1>13. CASE StashCleanup(p)
  <2>1. UNCHANGED <<gdiscarded, glayout, gedited>>
    BY <1>13 DEF StashCleanup, gitEnv
  <2>2. GitStashPop(d) \/ UNCHANGED <<gwt, gstash>>
    BY <1>13 DEF StashCleanup
  <2>3. CASE UNCHANGED <<gwt, gstash>>
    BY <2>1, <2>3, WorkStays
  <2> QED
    BY <1>2, <2>1, <2>2, <2>3, PopKeepsWork
<1>14. CASE DiscardChanges(p) \/ ResetToTarget(p)
  <2>1. UNCHANGED <<gstash, glayout, gedited>>
    BY <1>14 DEF DiscardChanges, ResetToTarget, gitEnv
  <2>2. Discards(d) \/ UNCHANGED <<gwt, gdiscarded>>
    BY <1>14 DEF DiscardChanges, ResetToTarget
  <2>3. CASE UNCHANGED <<gwt, gdiscarded>>
    BY <2>1, <2>3, WorkStays
  <2> QED
    BY <1>2, <2>1, <2>2, <2>3, DiscardKeepsWork
<1> HIDE DEF d
<1>15. CASE GitPushSteps(p)
  <2>1. \/ StashChanges(p) \/ CheckoutTarget(p) \/ GitPull(p) \/ MergeSource(p) \/ AgentResolves(p)
        \/ RestoreBranch(p) \/ StashCleanup(p)
        \/ UNCHANGED <<gwt, gstash, gdiscarded, glayout, gedited>>
    BY <1>15 DEF GitPushSteps, GitFetch, CountStash, RecountStash, HasCommitsBetween, PushTarget, gitEnv
  <2> QED
    BY <2>1, <1>5, <1>6, <1>7, <1>8, <1>9, <1>10, <1>12, <1>13
<1>16. CASE GitPullSteps(p) \/ GitPRSteps(p)
  <2>1. PullMerge(p) \/ GitMergeAbort(p) \/ UNCHANGED <<gwt, gstash, gdiscarded, glayout, gedited>>
    BY <1>16 DEF GitPullSteps, GitPRSteps, PullPush, PRPush, CreatePR, GetExistingPRURL, RemoteBranchPushed,
                 GetOpenPR, GetEpicInfo, CreateEpicPR, StoreExternalRef, gitEnv
  <2> QED
    BY <2>1, <1>5, <1>11, <1>18
<1>17. CASE GitResetSteps(p) \/ JobEnds(p)
  <2>1. DiscardChanges(p) \/ ResetToTarget(p) \/ UNCHANGED <<gwt, gstash, gdiscarded, glayout, gedited>>
    BY <1>17 DEF GitResetSteps, JobEnds, CheckAgentLock, ReadBranch, GitPushForce, gitEnv
  <2> QED
    BY <2>1, <1>5, <1>14
<1> QED
  BY <1>15, <1>16, <1>17

-----------------------------------------------------------------------------
(* The remaining variables, everybody else's steps, and the theorems.      *)

RestOK ==
  /\ glayout \in {"shared", "clones"} /\ ggiven \in BOOLEAN /\ gextra \in Nat /\ grunning \subseteq Dirs
  /\ gprs \subseteq Branches /\ gextref \subseteq Branches /\ gedited \subseteq Dirs /\ gforced \in BOOLEAN
EditsInv == GitInv /\ EditsAreSafe

\* The parts of the invariant.
LEMMA GitParts ==
  EditsInv <=> gproc \in [GitProcs -> ProcType] /\ ProcInv /\ RefsOK /\ WorkOK /\ RestOK
BY DEF EditsInv, GitInv, GitTypeOK, RefsOK, WorkOK, RestOK

\* The same after a step.
LEMMA GitPartsNext ==
  ASSUME gproc' \in [GitProcs -> ProcType], ProcInv', RefsOK', WorkOK', RestOK'
  PROVE  EditsInv'
BY DEF EditsInv, GitInv, GitTypeOK, RefsOK, WorkOK, RestOK

\* The steps of a command keep the rest typed.
LEMMA StepsKeepRest ==
  ASSUME GitTypeOK, ProcInv, NEW p \in GitProcs,
         GitPushSteps(p) \/ GitPullSteps(p) \/ GitPRSteps(p) \/ GitResetSteps(p) \/ JobEnds(p)
  PROVE  RestOK'
<1>1. CASE GitPushSteps(p)
  BY <1>1 DEF GitPushSteps, GitFetch, CountStash, StashChanges, RecountStash, CheckoutTarget, GitPull,
         HasCommitsBetween, MergeSource, AgentResolves, PushTarget, RestoreBranch, StashCleanup, gitEnv,
         RestOK, GitTypeOK
<1>2. CASE GitPullSteps(p) \/ JobEnds(p)
  BY <1>2 DEF GitPullSteps, PullMerge, GitMergeAbort, PullPush, JobEnds, gitEnv, RestOK, GitTypeOK
<1>3. CASE GitPRSteps(p)
  <2>1. Busy(p)
    BY <1>3 DEF GitPRSteps, PRPush, CreatePR, GetExistingPRURL, RemoteBranchPushed, GetOpenPR, GetEpicInfo,
                CreateEpicPR, StoreExternalRef, At
  <2>2. Cur(p).src \in Branches
    BY <2>1, Current
  <2>3. gprs' = gprs \/ gprs' = gprs \cup {Cur(p).src}
    BY <1>3 DEF GitPRSteps, PRPush, CreatePR, GetExistingPRURL, RemoteBranchPushed, GetOpenPR, GetEpicInfo,
                CreateEpicPR, StoreExternalRef
  <2>4. gextref' = gextref \/ gextref' = gextref \cup {Cur(p).src}
    BY <1>3 DEF GitPRSteps, PRPush, CreatePR, GetExistingPRURL, RemoteBranchPushed, GetOpenPR, GetEpicInfo,
                CreateEpicPR, StoreExternalRef
  <2>5. UNCHANGED <<glayout, ggiven, gextra, grunning, gedited, gforced>>
    BY <1>3 DEF GitPRSteps, PRPush, CreatePR, GetExistingPRURL, RemoteBranchPushed, GetOpenPR, GetEpicInfo,
                CreateEpicPR, StoreExternalRef, gitEnv
  <2> QED
    BY <2>2, <2>3, <2>4, <2>5 DEF RestOK, GitTypeOK
<1>4. CASE GitResetSteps(p)
  <2>1. UNCHANGED <<glayout, ggiven, gextra, grunning, gprs, gextref, gedited>>
    BY <1>4 DEF GitResetSteps, CheckAgentLock, ReadBranch, DiscardChanges, ResetToTarget, GitPushForce, gitEnv
  <2>2. gforced' \in BOOLEAN
    <3>1. CASE UNCHANGED gforced
      BY <3>1 DEF GitTypeOK
    <3>2. CASE ~UNCHANGED gforced
      <4>1. gforced' = (gforced \/ (gproc[p].orig = Target /\ Cur(p).force))
        BY <1>4, <3>2 DEF GitResetSteps, CheckAgentLock, ReadBranch, DiscardChanges, ResetToTarget, GitPushForce
      <4> QED
        BY <4>1
    <3> QED
      BY <3>1, <3>2
  <2> QED
    BY <2>1, <2>2 DEF RestOK, GitTypeOK
<1> QED
  BY <1>1, <1>2, <1>3, <1>4

\* A new command.
LEMMA CommandKeeps ==
  ASSUME EditsInv, NEW p \in GitProcs, NEW jobs \in Commands, GiveCommand(p, jobs)
  PROVE  EditsInv' /\ MainGrows
<1>1. GitTypeOK /\ ProcInv /\ EditsAreSafe /\ RestOK
  BY GitParts DEF EditsInv, GitInv
<1>2. jobs \in Seq(JobType) /\ jobs # <<>>
  BY <1>1, CommandsAreJobs DEF GiveCommand
<1>3. gproc' \in [GitProcs -> ProcType] /\ ProcInv'
  BY <1>1, <1>2, ProcStarts DEF GiveCommand
<1>4. RefsOK' /\ MainGrows
  BY <1>1, RefsStay DEF GiveCommand
<1>5. WorkOK'
  BY <1>1, WorkStays DEF GiveCommand
<1>6. RestOK'
  BY <1>1 DEF GiveCommand, Event, RestOK
<1>7. EditsInv'
  BY <1>3, <1>4, <1>5, <1>6, GitPartsNext
<1> QED
  BY <1>4, <1>7

\* Agents, users and other people.
LEMMA PeopleKeep ==
  ASSUME EditsInv,
         \/ \E d \in Workers : AgentStartsIn(d) \/ AgentLeaves(d) \/ AgentCommitsIn(d) \/ EditsIn(d)
         \/ OthersPush \/ \E b \in Branches : PRCloses(b)
  PROVE  EditsInv' /\ MainGrows
<1>1. GitTypeOK /\ ProcInv /\ EditsAreSafe /\ RestOK /\ RefsOK
  BY GitParts DEF EditsInv, GitInv
<1>2. UNCHANGED gproc /\ gproc' \in [GitProcs -> ProcType] /\ ProcInv'
  BY <1>1 DEF AgentStartsIn, AgentLeaves, AgentCommitsIn, EditsIn, OthersPush, PRCloses, GitTypeOK, ProcInv
<1>3. RestOK'
  <2>1. ASSUME NEW d \in Workers, EditsIn(d)
        PROVE  /\ UNCHANGED <<glayout, ggiven, grunning, gprs, gextref, gforced>>
               /\ gextra' = gextra + 1 /\ gedited' = gedited \cup {d}
    BY <2>1 DEF EditsIn, Event
  <2>2. CASE \E d \in Workers : EditsIn(d)
    BY <1>1, <2>1, <2>2, GitAssumption DEF RestOK
  <2>3. CASE ~\E d \in Workers : EditsIn(d)
    BY <1>1, <2>3, GitAssumption DEF AgentStartsIn, AgentLeaves, AgentCommitsIn, OthersPush, PRCloses, RestOK,
       Event
  <2> QED
    BY <2>2, <2>3
<1>4. RefsOK' /\ MainGrows
  <2>1. CASE UNCHANGED <<gremote, gref, gtrack>>
    BY <1>1, <2>1, RefsStay
  <2>2. CASE OthersPush
    <3>1. gremote' = [gremote EXCEPT ![Target] = gremote[Target] \cup {"upstream"}] /\ UNCHANGED <<gref, gtrack>>
      BY <2>2 DEF OthersPush
    <3>2. Target \in Branches /\ "upstream" \in Commits
      BY DEF Branches, Commits
    <3> QED
      BY <1>1, <3>1, <3>2 DEF RefsOK, MainGrows
  <2>3. ASSUME NEW d \in Workers, AgentCommitsIn(d) PROVE RefsOK' /\ MainGrows
    <3> DEFINE h == gwt[d].head
               c == gref[Repo(d)][h] \cup {d}
    <3>1. d \in Dirs
      BY GitAssumption
    <3>2. Repo(d) \in Dirs /\ h \in Branches
      BY <1>1, <3>1, RefsAreCommits
    <3>3. UNCHANGED <<gremote, gtrack>> /\ gref' = [gref EXCEPT ![Repo(d)][h] = c]
      BY <2>3, <3>2, <1>1 DEF AgentCommitsIn, RefsOK
    <3>4. c \in SUBSET Commits
      BY <1>1, <3>1, <3>2 DEF RefsOK, Commits
    <3> HIDE DEF c, h
    <3>5. gref' \in [Dirs -> [Branches -> SUBSET Commits]]
      BY <1>1, <3>2, <3>3, <3>4, RefChanges DEF RefsOK
    <3> QED
      BY <1>1, <3>3, <3>5 DEF RefsOK, MainGrows
  <2> QED
    BY <2>1, <2>2, <2>3 DEF AgentStartsIn, AgentLeaves, EditsIn, PRCloses
<1>5. WorkOK'
  <2>1. CASE UNCHANGED <<gwt, gstash, gdiscarded, glayout, gedited>>
    BY <1>1, <2>1, WorkStays
  <2>2. ASSUME NEW d \in Workers, EditsIn(d) PROVE WorkOK'
    <3> DEFINE n == gwt[d].edits \cup {d}
    <3>1. d \in Dirs /\ gwt[d] \in WorktreeType
      BY <1>1, GitAssumption DEF GitTypeOK
    <3>0. PICK seen \in {gwt[d].exposed} \cup {gwt[d].exposed \cup {d} : c \in gwt[d].incoming} :
            gwt' = [gwt EXCEPT ![d].edits = @ \cup {d}, ![d].exposed = seen]
      BY <2>2 DEF EditsIn
    <3> DEFINE w == [gwt[d] EXCEPT !.edits = n, !.exposed = seen]
    <3>2. gwt' = [gwt EXCEPT ![d] = w] /\ UNCHANGED <<gstash, gdiscarded, glayout>> /\ gedited' = gedited \cup {d}
      <4>1. gwt' = [gwt EXCEPT ![d] = w]
        BY <3>0, <3>1, <1>1 DEF GitTypeOK
      <4> QED
        BY <2>2, <4>1 DEF EditsIn
    <3>3. n \in SUBSET Dirs /\ seen \in SUBSET Dirs
      BY <3>1 DEF WorktreeType
    <3> HIDE DEF n
    <3>4. w \in WorktreeType /\ w.edits = n
      BY <3>1, <3>3 DEF WorktreeType
    <3> HIDE DEF w
    <3>5. \A x \in Dirs : gwt'[x].edits = IF x = d THEN gwt[d].edits \cup {d} ELSE gwt[x].edits
      BY <3>1, <3>2, <3>4, <1>1 DEF GitTypeOK, n
    <3>6. EditByEdit
      BY <1>1, SafeEditByEdit
    <3>7. ASSUME NEW e \in gedited' PROVE e \in gdiscarded' \/ Kept(e)'
      <4>1. CASE e = d
        BY <3>1, <3>5, <4>1 DEF Kept
      <4>2. CASE e \in gedited
        <5>1. e \in gdiscarded \/ \E x \in Dirs : e \in gwt[x].edits \/ e \in EditsOf(gstash[x])
          BY <3>6, <4>2 DEF EditByEdit, Kept
        <5>2. \A x \in Dirs : gwt[x].edits \subseteq gwt'[x].edits
          BY <3>5
        <5> QED
          BY <5>1, <5>2, <3>2 DEF Kept, EditsOf
      <4> QED
        BY <3>2, <4>1, <4>2
    <3>8. glayout' = "clones" => OwnEdits'
      <4>1. glayout = "clones" => OwnEdits
        BY <3>6 DEF EditByEdit
      <4>2. OwnEdits => OwnEdits'
        BY <3>2, <3>5 DEF OwnEdits, EditsOf
      <4> QED
        BY <3>2, <4>1, <4>2
    <3>9. EditByEdit'
      BY <3>7, <3>8 DEF EditByEdit
    <3>10. EditsAreSafe'
      BY <3>9, SafeEditByEdit, PTL
    <3>11. gwt' \in [Dirs -> WorktreeType] /\ gstash' \in [Dirs -> Seq(StashType)] /\ gdiscarded' \subseteq Dirs
      BY <3>2, <3>4, <1>1 DEF GitTypeOK
    <3> QED
      BY <3>10, <3>11 DEF WorkOK
  <2> QED
    BY <2>1, <2>2 DEF AgentStartsIn, AgentLeaves, AgentCommitsIn, OthersPush, PRCloses
<1>6. EditsInv'
  BY <1>2, <1>3, <1>4, <1>5, GitPartsNext
<1> QED
  BY <1>4, <1>6

\* Every step keeps the invariant and the integration branch.
LEMMA GitKeeps == EditsInv /\ [GitNext]_gitVars => EditsInv' /\ MainGrows
<1> SUFFICES ASSUME EditsInv, [GitNext]_gitVars PROVE EditsInv' /\ MainGrows
  OBVIOUS
<1>1. GitTypeOK /\ ProcInv /\ EditsAreSafe
  BY DEF EditsInv, GitInv
<1>2. CASE UNCHANGED gitVars
  <2>1. gproc' \in [GitProcs -> ProcType] /\ ProcInv' /\ RestOK'
    BY <1>1, <1>2 DEF gitVars, GitTypeOK, ProcInv, RestOK
  <2>2. RefsOK' /\ MainGrows
    BY <1>1, <1>2, RefsStay DEF gitVars
  <2>3. WorkOK'
    BY <1>1, <1>2, WorkStays DEF gitVars
  <2>4. EditsInv'
    BY <2>1, <2>2, <2>3, GitPartsNext
  <2> QED
    BY <2>2, <2>4
<1>3. ASSUME NEW p \in GitProcs,
             GitPushSteps(p) \/ GitPullSteps(p) \/ GitPRSteps(p) \/ GitResetSteps(p) \/ JobEnds(p)
      PROVE  EditsInv' /\ MainGrows
  <2>1. gproc' \in [GitProcs -> ProcType] /\ ProcInv'
    BY <1>1, <1>3, PushKeepsProcs, OtherStepsKeepProcs, JobEndKeepsProcs
  <2>2. RefsOK' /\ MainGrows
    BY <1>1, <1>3, StepsKeepRefs
  <2>3. WorkOK' /\ RestOK'
    BY <1>1, <1>3, StepsKeepWork, StepsKeepRest
  <2>4. EditsInv'
    BY <2>1, <2>2, <2>3, GitPartsNext
  <2> QED
    BY <2>2, <2>4
<1>4. ASSUME NEW p \in GitProcs, NEW jobs \in Commands, GiveCommand(p, jobs) PROVE EditsInv' /\ MainGrows
  BY <1>4, CommandKeeps
<1> QED
  BY <1>2, <1>3, <1>4, PeopleKeep DEF GitNext

\* It holds at first.
LEMMA GitInitially == GitInit => EditsInv
<1> SUFFICES ASSUME GitInit PROVE EditsInv
  OBVIOUS
<1>1. Target \in Branches /\ \A d \in Dirs : HomeBranch[d] \in Branches /\ d \in Commits
  BY DEF Branches, Commits
<1>2. Workers \subseteq Dirs /\ Root \in Dirs /\ "upstream" \in Commits
  BY GitAssumption DEF Commits
<1>3. PICK committed \in SUBSET Workers, pushed \in SUBSET {"upstream"} :
        \E published \in SUBSET committed :
          /\ gremote = [b \in Branches |-> IF b = Target THEN pushed ELSE {d \in published : HomeBranch[d] = b}]
          /\ gref = [r \in Dirs |-> [b \in Branches |-> {d \in committed : HomeBranch[d] = b}]]
          /\ gprs \in SUBSET {HomeBranch[d] : d \in published}
  BY DEF GitInit
<1>4. PICK published \in SUBSET committed :
          /\ gremote = [b \in Branches |-> IF b = Target THEN pushed ELSE {d \in published : HomeBranch[d] = b}]
          /\ gref = [r \in Dirs |-> [b \in Branches |-> {d \in committed : HomeBranch[d] = b}]]
          /\ gprs \in SUBSET {HomeBranch[d] : d \in published}
  BY <1>3
<1>5. gremote \in [Branches -> SUBSET Commits] /\ gref \in [Dirs -> [Branches -> SUBSET Commits]]
      /\ gprs \subseteq Branches
  BY <1>1, <1>2, <1>4
<1>6. gtrack \in [Dirs -> [Branches -> SUBSET Commits]]
  BY <1>5 DEF GitInit
<1>7. gedited \subseteq Dirs /\ grunning \subseteq Dirs
  BY <1>2 DEF GitInit
<1>8. PICK away : gwt = [d \in Dirs |->
       [head |-> IF d \in away \/ (glayout = "shared" /\ d = Root) THEN Target ELSE HomeBranch[d],
        edits |-> {d} \cap gedited, unmerged |-> FALSE, incoming |-> {}, exposed |-> {}]]
  BY DEF GitInit
<1>9. gwt \in [Dirs -> WorktreeType] /\ \A d \in Dirs : gwt[d].edits = {d} \cap gedited
  BY <1>1, <1>7, <1>8 DEF WorktreeType
<1>10. gstash \in [Dirs -> Seq(StashType)] /\ \A d \in Dirs : EditsOf(gstash[d]) = {}
  <2>1. \A d \in Dirs : gstash[d] = <<>>
    BY DEF GitInit
  <2>2. EditsOf(<<>>) = {}
    BY DEF EditsOf
  <2> QED
    BY <2>1, <2>2 DEF GitInit
<1>11. IdleProc \in ProcType /\ IdleProc.todo = <<>>
  BY DEF IdleProc, ProcType, ProcPlaces, ProcResults
<1>12. gproc \in [GitProcs -> ProcType] /\ ProcInv
  BY <1>11 DEF GitInit, ProcInv, ProcGood
<1>13. EditByEdit
  BY <1>7, <1>9, <1>10 DEF EditByEdit, Kept, OwnEdits
<1>14. EditsAreSafe
  BY <1>13, SafeEditByEdit
<1>15. RestOK /\ gdiscarded = {}
  BY <1>5, <1>7 DEF RestOK, GitInit
<1> QED
  BY <1>5, <1>6, <1>9, <1>10, <1>12, <1>14, <1>15, GitParts DEF RefsOK, WorkOK

\* Every state of the git commands is typed: whatever processes interleave.
THEOREM GitTypeCorrect == GitSpec => []GitTypeOK
<1>1. EditsInv => GitTypeOK
  BY DEF EditsInv, GitInv
<1> QED
  BY <1>1, GitInitially, GitKeeps, PTL DEF GitSpec

\* No uncommitted edit is lost by any number of commands, in any directories
\* of either layout, whichever of them run beside each other or fail, except
\* those a reset discards; and clones do not receive each other's edits.
THEOREM EditsStaySafe == GitSpec => []EditsAreSafe
<1>1. EditsInv => EditsAreSafe
  BY DEF EditsInv
<1> QED
  BY <1>1, GitInitially, GitKeeps, PTL DEF GitSpec

\* The remote's integration branch loses no commit unless a reset is told to
\* force it: pushes are fast-forwards, the resolving agent's too, and the
\* forced push of a reset is of another branch.
THEOREM MainNeverShrinks == GitSpec => MainOnlyGrows
<1>1. EditsInv /\ [GitNext]_gitVars => [gremote[Target] \subseteq gremote'[Target] \/ gforced']_gitVars
  BY GitKeeps DEF MainGrows
<1> QED
  BY <1>1, GitInitially, GitKeeps, PTL DEF GitSpec, MainOnlyGrows

-----------------------------------------------------------------------------
(* What commands report.  Beyond EditsInv: a command that is alone in its  *)
(* directory finds the branch there that it has checked out, with what it  *)
(* has merged; worktrees of one repository are on different branches; and  *)
(* the remote-tracking branches lag behind the remote.                     *)

CommandGood(r, head, commits) ==
  r.todo # <<>> /\ r.alone =>
    /\ r.pc \in {"pull", "merge", "push"} \/ (r.pc = "compare" /\ Head(r.todo).kind = "push") => head = Target
    /\ Head(r.todo).kind = "pull" /\ Head(r.todo).ui = "api" => head = Head(r.todo).src
    /\ r.pc = "pullPush" => Head(r.todo).kind = "pull"
    /\ r.pc \in {"push", "pullPush"} => r.goal \subseteq commits
CommandsInv ==
  \A p \in GitProcs : Busy(p) => CommandGood(gproc[p], gwt[Cur(p).dir].head, HeadOf(Cur(p).dir))
DistinctHeads == \A x, y \in Dirs : x # y /\ Repo(x) = Repo(y) => gwt[x].head # gwt[y].head
AloneInv ==
  \A p, q \in GitProcs : p # q /\ Busy(p) /\ Busy(q) /\ Cur(p).dir = Cur(q).dir => ~gproc[p].alone
TrackInv == gforced \/ \A r \in Dirs : gtrack[r][Target] \subseteq gremote[Target]
PlacesInv == AloneInv /\ DistinctHeads /\ CommandsInv

\* Only p moves, in its job; only d changes; only the branch checked out in d.
ProcWorks(p) ==
  /\ \A q \in GitProcs \ {p} : gproc'[q] = gproc[q]
  /\ gproc'[p].todo = gproc[p].todo /\ gproc'[p].alone = gproc[p].alone
TreeWorks(d) ==
  /\ \A x \in Dirs \ {d} : gwt'[x] = gwt[x]
  /\ \A r \in Dirs, b \in Branches : r # Repo(d) \/ b # gwt[d].head => gref'[r][b] = gref[r][b]
  /\ UNCHANGED glayout
HeadStays(d) == gwt'[d].head = gwt[d].head

\* A command at work in its directory disturbs no other that is alone in its own.
LEMMA WorkIsLocal ==
  ASSUME GitTypeOK, PlacesInv, NEW p \in GitProcs, Busy(p), ProcWorks(p), TreeWorks(Cur(p).dir),
         gwt'[Cur(p).dir].head \in Branches,
         HeadStays(Cur(p).dir) \/ CanCheckout(Cur(p).dir, gwt'[Cur(p).dir].head),
         CommandGood(gproc'[p], gwt'[Cur(p).dir].head, gref'[Repo(Cur(p).dir)][gwt'[Cur(p).dir].head])
  PROVE  PlacesInv'
<1> DEFINE d == Cur(p).dir
<1>1. d \in Dirs /\ \A x \in Dirs : Repo(x) \in Dirs /\ gwt[x].head \in Branches
  BY Current, RefsAreCommits
<1>2. ASSUME NEW q \in GitProcs
      PROVE  (Busy(q)' <=> Busy(q)) /\ Cur(q)' = Cur(q) /\ gproc'[q].alone = gproc[q].alone
  BY DEF ProcWorks, Busy, Cur
<1>3. AloneInv'
  BY <1>2 DEF PlacesInv, AloneInv
<1>4. \A x \in Dirs : Repo(x)' = Repo(x)
  BY DEF TreeWorks, Repo
<1>5. DistinctHeads'
  <2>1. \A x \in Dirs \ {d} : gwt'[x].head = gwt[x].head
    BY DEF TreeWorks
  <2>2. \A x \in Dirs \ {d} : Repo(x) = Repo(d) => gwt'[d].head # gwt[x].head
    BY <1>1 DEF PlacesInv, DistinctHeads, HeadStays, CanCheckout
  <2>3. \A x, y \in Dirs : x # y /\ Repo(x) = Repo(y) => gwt'[x].head # gwt'[y].head
    BY <1>1, <2>1, <2>2 DEF PlacesInv, DistinctHeads
  <2> QED
    BY <1>4, <2>3 DEF DistinctHeads
<1>6. ASSUME NEW q \in GitProcs, Busy(q), q # p
      PROVE  CommandGood(gproc'[q], gwt'[Cur(q).dir].head, gref'[Repo(Cur(q).dir)][gwt'[Cur(q).dir].head])
  <2>1. gproc'[q] = gproc[q] /\ CommandGood(gproc[q], gwt[Cur(q).dir].head, HeadOf(Cur(q).dir))
    BY <1>6 DEF ProcWorks, PlacesInv, CommandsInv
  <2>2. CASE ~gproc[q].alone
    BY <2>1, <2>2 DEF CommandGood
  <2>3. CASE gproc[q].alone
    <3>1. Cur(q).dir \in Dirs /\ Cur(q).dir # d
      BY <1>6, <2>3, Current DEF PlacesInv, AloneInv
    <3>2. gwt'[Cur(q).dir] = gwt[Cur(q).dir]
      BY <3>1 DEF TreeWorks
    <3>3. Repo(Cur(q).dir) # Repo(d) \/ gwt[Cur(q).dir].head # gwt[d].head
      BY <1>1, <3>1 DEF PlacesInv, DistinctHeads
    <3>4. gref'[Repo(Cur(q).dir)][gwt[Cur(q).dir].head] = HeadOf(Cur(q).dir)
      BY <1>1, <3>1, <3>3 DEF TreeWorks, HeadOf, RefOf
    <3> QED
      BY <2>1, <3>2, <3>4
  <2> QED
    BY <2>2, <2>3
<1>7. CommandsInv'
  <2>1. ASSUME NEW q \in GitProcs, Busy(q)
        PROVE  CommandGood(gproc'[q], gwt'[Cur(q).dir].head, gref'[Repo(Cur(q).dir)][gwt'[Cur(q).dir].head])
    BY <1>6, <2>1
  <2>2. ASSUME NEW q \in GitProcs, Busy(q)
        PROVE  HeadOf(Cur(q).dir)' = gref'[Repo(Cur(q).dir)][gwt'[Cur(q).dir].head]
    BY <1>2, <1>4, <2>2, Current DEF HeadOf, RefOf
  <2> QED
    BY <1>2, <2>1, <2>2 DEF CommandsInv
<1> QED
  BY <1>3, <1>5, <1>7 DEF PlacesInv

\* The places at which a command relies on what is checked out.
Relies == {"pull", "merge", "push", "pullPush"}

\* A command that goes where it relies on nothing and stays on its branch.
LEMMA QuietWork ==
  ASSUME GitTypeOK, PlacesInv, NEW p \in GitProcs, Busy(p), ProcWorks(p), TreeWorks(Cur(p).dir),
         HeadStays(Cur(p).dir), gproc'[p].pc \notin Relies, gproc'[p].pc = "compare" => Cur(p).kind # "push"
  PROVE  PlacesInv'
<1> DEFINE d == Cur(p).dir
<1>1. gwt[d].head \in Branches
  BY Current, RefsAreCommits
<1>2. CommandGood(gproc[p], gwt[d].head, HeadOf(d))
  BY DEF PlacesInv, CommandsInv
<1>3. CommandGood(gproc'[p], gwt'[d].head, gref'[Repo(d)][gwt'[d].head])
  BY <1>2 DEF CommandGood, ProcWorks, HeadStays, Relies, Busy, Cur
<1> QED
  BY <1>1, <1>3, WorkIsLocal DEF HeadStays

\* A command that starts a job is on the branch that a pull of the web server names.
LEMMA StartsAlone ==
  ASSUME GitTypeOK, PlacesInv, NEW p \in GitProcs, NEW todo \in Seq(JobType), todo # <<>>, Starts(p, todo),
         UNCHANGED <<gwt, gref, glayout>>,
         Head(todo).kind = "pull" /\ Head(todo).ui = "api" => gwt[Head(todo).dir].head = Head(todo).src
  PROVE  PlacesInv' /\ \A q \in GitProcs \ {p} : gproc'[q].result = gproc[q].result
<1> DEFINE others == {q \in GitProcs \ {p} : Busy(q) /\ Cur(q).dir = Head(todo).dir}
           b == others = {}
           first == [IdleProc EXCEPT !.todo = todo, !.pc = StartOf(Head(todo)), !.alone = b]
<1>1. Head(todo) \in JobType /\ b \in BOOLEAN
  OBVIOUS
<1>2. StartOf(Head(todo)) \in {"lock", "lsremote", "fetch"}
  <2>1. CASE Head(todo).kind = "reset"
    BY <2>1 DEF StartOf
  <2>2. CASE Head(todo).kind = "epic"
    BY <2>2 DEF StartOf
  <2>3. CASE Head(todo).kind \notin {"reset", "epic"}
    BY <2>3 DEF StartOf
  <2> QED
    BY <2>1, <2>2, <2>3
<1>3. gproc' = [q \in GitProcs |->
        IF q = p THEN first ELSE IF q \in others THEN [gproc[q] EXCEPT !.alone = FALSE] ELSE gproc[q]]
  BY DEF Starts
<1> HIDE DEF b
<1>4. first.todo = todo /\ first.pc \in {"lock", "lsremote", "fetch"} /\ first.alone = b
  BY <1>1, <1>2 DEF IdleProc
<1> HIDE DEF first
<1>5. ASSUME NEW q \in GitProcs \ {p}
      PROVE  /\ gproc'[q].todo = gproc[q].todo /\ gproc'[q].pc = gproc[q].pc /\ gproc'[q].goal = gproc[q].goal
             /\ gproc'[q].result = gproc[q].result
             /\ gproc'[q].alone => gproc[q].alone /\ q \notin others
  <2>1. gproc[q] \in ProcType
    BY DEF GitTypeOK
  <2>2. gproc'[q] = IF q \in others THEN [gproc[q] EXCEPT !.alone = FALSE] ELSE gproc[q]
    BY <1>3
  <2> HIDE DEF others
  <2> QED
    BY <2>1, <2>2 DEF ProcType
<1>6. gproc'[p] = first
  BY <1>3
<1>7. \A q \in GitProcs \ {p} : (Busy(q)' <=> Busy(q)) /\ Cur(q)' = Cur(q)
  BY <1>5 DEF Busy, Cur
<1>8. Busy(p)' /\ Cur(p)' = Head(todo)
  BY <1>4, <1>6 DEF Busy, Cur
<1>9. AloneInv'
  <2> SUFFICES ASSUME NEW q \in GitProcs, NEW r \in GitProcs, q # r, Busy(q)', Busy(r)', Cur(q)'.dir = Cur(r)'.dir
               PROVE  ~gproc'[q].alone
    BY DEF AloneInv
  <2>1. CASE q = p
    <3>1. r \in others
      BY <1>7, <1>8, <2>1
    <3> QED
      BY <1>4, <1>6, <2>1, <3>1 DEF b
  <2>2. CASE r = p
    <3>1. q \in others
      BY <1>7, <1>8, <2>2
    <3> QED
      BY <1>5, <2>2, <3>1
  <2>3. CASE q # p /\ r # p
    BY <1>5, <1>7, <2>3 DEF PlacesInv, AloneInv
  <2> QED
    BY <2>1, <2>2, <2>3
<1>10. \A x \in Dirs : Repo(x)' = Repo(x) /\ HeadOf(x)' = HeadOf(x) /\ gwt'[x].head = gwt[x].head
  BY DEF Repo, HeadOf, RefOf
<1>11. DistinctHeads'
  BY <1>10 DEF PlacesInv, DistinctHeads
<1>12. CommandsInv'
  <2>1. CommandGood(first, gwt[Head(todo).dir].head, HeadOf(Head(todo).dir))
    BY <1>4 DEF CommandGood
  <2>2. Head(todo).dir \in Dirs
    BY <1>1 DEF JobType
  <2>3. ASSUME NEW q \in GitProcs, Busy(q)'
        PROVE  CommandGood(gproc'[q], gwt'[Cur(q)'.dir].head, HeadOf(Cur(q).dir)')
    <3>1. CASE q = p
      BY <1>6, <1>8, <1>10, <2>1, <2>2, <3>1
    <3>2. CASE q # p
      <4>1. Busy(q) /\ Cur(q)' = Cur(q) /\ Cur(q).dir \in Dirs
        BY <1>7, <2>3, <3>2, Current
      <4>2. CommandGood(gproc[q], gwt[Cur(q).dir].head, HeadOf(Cur(q).dir))
        BY <4>1 DEF PlacesInv, CommandsInv
      <4>3. CommandGood(gproc'[q], gwt[Cur(q).dir].head, HeadOf(Cur(q).dir))
        BY <1>5, <3>2, <4>2 DEF CommandGood
      <4> QED
        BY <1>10, <4>1, <4>3
    <3> QED
      BY <3>1, <3>2
  <2> QED
    BY <2>3 DEF CommandsInv
<1> QED
  BY <1>5, <1>9, <1>11, <1>12 DEF PlacesInv

\* Branches that gain commits, and steps beside all commands.
LEMMA NobodyMoves ==
  ASSUME GitTypeOK, PlacesInv, UNCHANGED <<gproc, glayout>>, \A d \in Dirs : gwt'[d].head = gwt[d].head,
         \A r \in Dirs, b \in Branches : gref[r][b] \subseteq gref'[r][b]
  PROVE  PlacesInv'
<1>1. \A q \in GitProcs : (Busy(q)' <=> Busy(q)) /\ Cur(q)' = Cur(q)
  BY DEF Busy, Cur
<1>2. \A x \in Dirs : Repo(x)' = Repo(x) /\ Repo(x) \in Dirs /\ gwt[x].head \in Branches
  BY RefsAreCommits DEF Repo
<1>3. \A x \in Dirs : HeadOf(x)' = gref'[Repo(x)][gwt[x].head]
  BY <1>2 DEF HeadOf, RefOf
<1>4. \A x \in Dirs : HeadOf(x) \subseteq HeadOf(x)'
  BY <1>2, <1>3 DEF HeadOf, RefOf
<1>5. AloneInv'
  BY <1>1 DEF PlacesInv, AloneInv
<1>6. DistinctHeads'
  BY <1>2 DEF PlacesInv, DistinctHeads
<1>7. CommandsInv'
  <2> SUFFICES ASSUME NEW q \in GitProcs, Busy(q)
               PROVE  CommandGood(gproc[q], gwt[Cur(q).dir].head, HeadOf(Cur(q).dir)')
    BY <1>1, Current DEF CommandsInv
  <2>1. PICK e \in Dirs : e = Cur(q).dir
    BY Current
  <2>2. CommandGood(gproc[q], gwt[e].head, HeadOf(e))
    BY <2>1 DEF PlacesInv, CommandsInv
  <2>3. CommandGood(gproc[q], gwt[e].head, HeadOf(e)')
    BY <1>4, <2>2 DEF CommandGood
  <2>4. HeadOf(Cur(q).dir)' = HeadOf(e)'
    BY <1>1, <2>1 DEF HeadOf, RefOf
  <2> QED
    BY <2>1, <2>3, <2>4
<1> QED
  BY <1>5, <1>6, <1>7 DEF PlacesInv

-----------------------------------------------------------------------------
(* The steps of a command, one by one.                                     *)

\* What a step makes a command report is so.
Truthful(p) ==
  gproc'[p].result # gproc[p].result /\ gproc[p].alone /\ ~gforced => TruthOf(p, gproc'[p].result)
PlainResults == {"none", "error", "conflict", "resolved", "skipped", "aborted", "reset"}

\* A command that says nothing, or nothing that promises anything.
LEMMA PlainIsTrue ==
  ASSUME NEW p \in GitProcs, gproc'[p].result = gproc[p].result \/ gproc'[p].result \in PlainResults
  PROVE  Truthful(p)
<1>1. ASSUME NEW x \in PlainResults PROVE TruthOf(p, x)
  BY <1>1 DEF TruthOf, PlainResults
<1> QED
  BY <1>1 DEF Truthful

\* A command that goes on, and one that reports and goes on.
LEMMA Goes ==
  ASSUME GitTypeOK, NEW p \in GitProcs, NEW pc, GoTo(p, pc)
  PROVE  ProcWorks(p) /\ gproc'[p].pc = pc /\ gproc'[p].result = gproc[p].result /\ gproc'[p].goal = gproc[p].goal
<1>1. gproc \in [GitProcs -> ProcType] /\ gproc[p] \in ProcType
  BY DEF GitTypeOK
<1> QED
  BY <1>1 DEF GoTo, ProcWorks, ProcType

\* The result is noted.
LEMMA Reports ==
  ASSUME GitTypeOK, NEW p \in GitProcs, NEW x, NEW pc, Report(p, x, pc)
  PROVE  ProcWorks(p) /\ gproc'[p].pc = pc /\ gproc'[p].result = x
<1>1. gproc \in [GitProcs -> ProcType] /\ gproc[p] \in ProcType
  BY DEF GitTypeOK
<1> QED
  BY <1>1 DEF Report, ProcWorks, ProcType

\* A step that leaves branches and working trees alone, or only edits.
LEMMA TreeStays ==
  ASSUME GitTypeOK, NEW d \in Dirs, UNCHANGED <<gref, glayout>>,
         \/ UNCHANGED gwt
         \/ \E w : gwt' = [gwt EXCEPT ![d] = w] /\ w.head = gwt[d].head
  PROVE  TreeWorks(d) /\ HeadStays(d)
BY DEF GitTypeOK, TreeWorks, HeadStays

\* One branch changes, and the directory it is checked out in.
LEMMA BranchMoves ==
  ASSUME GitTypeOK, NEW d \in Dirs, NEW c, UNCHANGED glayout, gref' = [gref EXCEPT ![Repo(d)][gwt[d].head] = c],
         \/ UNCHANGED gwt
         \/ \E w : gwt' = [gwt EXCEPT ![d] = w] /\ w.head = gwt[d].head
  PROVE  TreeWorks(d) /\ HeadStays(d) /\ gref'[Repo(d)][gwt[d].head] = c
<1>1. Repo(d) \in Dirs /\ gwt[d].head \in Branches
  BY RefsAreCommits
<1>2. gref \in [Dirs -> [Branches -> SUBSET Commits]] /\ gwt \in [Dirs -> WorktreeType]
  BY DEF GitTypeOK
<1>3. \A r \in Dirs, b \in Branches : r # Repo(d) \/ b # gwt[d].head => gref'[r][b] = gref[r][b]
  BY <1>1, <1>2
<1>4. gref'[Repo(d)][gwt[d].head] = c
  BY <1>1, <1>2
<1> QED
  BY <1>2, <1>3, <1>4 DEF TreeWorks, HeadStays

\* A merge, with what comes of it.
LEMMA MergeMoves ==
  ASSUME GitTypeOK, NEW d \in Dirs, NEW c \in SUBSET Commits, NEW r \in MergeResults(d, c), GitMerge(d, r),
         UNCHANGED glayout
  PROVE  /\ TreeWorks(d) /\ HeadStays(d)
         /\ r.ok => gref'[Repo(d)][gwt[d].head] = HeadOf(d) \cup c
<1> DEFINE h == HeadOf(d)
           w == [gwt[d] EXCEPT !.unmerged = TRUE, !.incoming = c]
<1>1. gwt[d] \in WorktreeType
  BY RefsAreCommits
<1>2. w.head = gwt[d].head
  BY <1>1 DEF WorktreeType
<1>3. \/ r = [ok |-> FALSE, ref |-> h, wt |-> gwt[d]]
      \/ r = [ok |-> TRUE, ref |-> h \cup c, wt |-> gwt[d]]
      \/ r = [ok |-> FALSE, ref |-> h, wt |-> w]
  BY DEF MergeResults
<1> HIDE DEF h, w
<1>4. r.wt.head = gwt[d].head /\ (r.ok => r.ref = h \cup c)
  BY <1>2, <1>3
<1>5. gref' = [gref EXCEPT ![Repo(d)][gwt[d].head] = r.ref] /\ gwt' = [gwt EXCEPT ![d] = r.wt]
  BY DEF GitMerge
<1>6. TreeWorks(d) /\ HeadStays(d) /\ gref'[Repo(d)][gwt[d].head] = r.ref
  BY <1>4, <1>5, BranchMoves
<1> QED
  BY <1>4, <1>6 DEF h

\* A push: what it reports is so, and it keeps to its directory.
LEMMA PushReports ==
  ASSUME GitTypeOK, ProcInv, PlacesInv, TrackInv, NEW p \in GitProcs, GitPushSteps(p)
  PROVE  PlacesInv' /\ Truthful(p)
<1> DEFINE d == Cur(p).dir
           Goal == PlacesInv' /\ Truthful(p)
<1> SUFFICES Goal
  OBVIOUS
<1>1. Busy(p)
  BY DEF GitPushSteps, GitFetch, CountStash, StashChanges, RecountStash, CheckoutTarget, GitPull,
         HasCommitsBetween, MergeSource, AgentResolves, PushTarget, RestoreBranch, StashCleanup, At
<1>2. /\ gproc[p] \in ProcType /\ Cur(p) \in JobType /\ d \in Dirs /\ Cur(p).src \in Branches /\ Repo(d) \in Dirs
      /\ ProcOK(Cur(p), gproc[p].pc, gproc[p].orig)
  BY <1>1, Current DEF ProcInv, ProcGood, Busy, Cur
<1>3. /\ gwt[d] \in WorktreeType /\ gwt[d].head \in Branches /\ Target \in Branches
      /\ \A b \in Branches : RefOf(d, b) \in SUBSET Commits
  BY <1>2, RefsAreCommits DEF Branches
<1>4. gproc[p].alone => CommandGood(gproc[p], gwt[d].head, HeadOf(d))
  BY <1>1 DEF PlacesInv, CommandsInv
<1>5. UNCHANGED glayout
  BY DEF GitPushSteps, GitFetch, CountStash, StashChanges, RecountStash, CheckoutTarget, GitPull,
         HasCommitsBetween, MergeSource, AgentResolves, PushTarget, RestoreBranch, StashCleanup
<1>6. ASSUME ProcWorks(p), TreeWorks(d), HeadStays(d), gproc'[p].pc \notin Relies,
             gproc'[p].pc = "compare" => Cur(p).kind # "push",
             gproc'[p].result = gproc[p].result \/ gproc'[p].result \in PlainResults
      PROVE  Goal
  BY <1>1, <1>6, QuietWork, PlainIsTrue
<1>7. ASSUME TreeWorks(d), HeadStays(d), NEW x \in PlainResults, NEW pc \in {"done", "restore"}, Report(p, x, pc)
      PROVE  Goal
  BY <1>6, <1>7, Reports DEF Relies
<1>8. ASSUME TreeWorks(d), HeadStays(d), NEW pc, GoTo(p, pc), pc \notin Relies \cup {"compare"}
      PROVE  Goal
  BY <1>6, <1>8, Goes
<1>9. {"error", "conflict", "resolved"} \subseteq PlainResults
  BY DEF PlainResults
<1>10. UNCHANGED <<gwt, gref>> => TreeWorks(d) /\ HeadStays(d)
  BY <1>2, <1>5, TreeStays
<1> HIDE DEF Goal
<1>11. CASE GitFetch(p)
  <2>1. TreeWorks(d) /\ HeadStays(d)
    BY <1>10, <1>11 DEF GitFetch
  <2>2. CASE Report(p, "error", "done")
    BY <1>7, <1>9, <2>1, <2>2
  <2>3. CASE GoTo(p, AfterFetch(Cur(p).kind))
    <3>1. /\ AfterFetch(Cur(p).kind) \in {"count", "pullMerge", "compare", "discard"}
          /\ AfterFetch(Cur(p).kind) = "compare" => Cur(p).kind # "push"
      BY <1>2 DEF AfterFetch, JobType
    <3> QED
      BY <1>6, <2>1, <2>3, <3>1, Goes DEF Relies
  <2> QED
    BY <1>11, <2>2, <2>3 DEF GitFetch
<1>12. CASE CountStash(p) \/ RecountStash(p)
  <2>1. TreeWorks(d) /\ HeadStays(d)
    BY <1>10, <1>12 DEF CountStash, RecountStash
  <2>2. CASE Report(p, "error", "done")
    BY <1>7, <1>9, <2>1, <2>2
  <2>3. CASE ~Report(p, "error", "done")
    <3>1. \/ gproc' = [gproc EXCEPT ![p].counted = Len(gstash[Repo(Cur(p).dir)]), ![p].pc = "stash"]
          \/ gproc' = [gproc EXCEPT ![p].stashed = Len(gstash[Repo(Cur(p).dir)]) > gproc[p].counted,
                                    ![p].pc = "checkout"]
      BY <1>12, <2>3 DEF CountStash, RecountStash
    <3>2. ProcWorks(p) /\ gproc'[p].pc \in {"stash", "checkout"} /\ gproc'[p].result = gproc[p].result
      BY <1>2, <3>1 DEF ProcWorks, GitTypeOK, ProcType
    <3> QED
      BY <1>6, <2>1, <3>2 DEF Relies
  <2> QED
    BY <2>2, <2>3
<1>13. CASE StashChanges(p)
  <2>1. UNCHANGED gref
    BY <1>13 DEF StashChanges
  <2>2. UNCHANGED gwt \/ gwt' = [gwt EXCEPT ![d].edits = {}]
    BY <1>13 DEF StashChanges
  <2>3. UNCHANGED gwt \/ \E w : gwt' = [gwt EXCEPT ![d] = w] /\ w.head = gwt[d].head
    <3> DEFINE w == [gwt[d] EXCEPT !.edits = {}]
    <3>1. w.head = gwt[d].head
      BY <1>3 DEF WorktreeType
    <3>2. UNCHANGED gwt \/ gwt' = [gwt EXCEPT ![d] = w]
      BY <1>2, <2>2 DEF GitTypeOK
    <3> QED
      BY <3>1, <3>2
  <2>4. TreeWorks(d) /\ HeadStays(d)
    BY <1>2, <1>5, <2>1, <2>3, TreeStays
  <2>5. GoTo(p, "recount") \/ Report(p, "error", "done")
    BY <1>13 DEF StashChanges
  <2> QED
    BY <1>7, <1>8, <1>9, <2>4, <2>5 DEF Relies
<1>14. CASE CheckoutTarget(p)
  <2>1. UNCHANGED gref /\ gproc[p].pc = "checkout" /\ Cur(p).kind = "push"
    BY <1>2, <1>14 DEF CheckoutTarget, At, ProcOK
  <2>2. CASE CheckoutFails(d, Target)
                /\ gproc' = [gproc EXCEPT ![p].orig = gwt[d].head, ![p].result = "error", ![p].pc = "restore"]
    <3>1. ProcWorks(p) /\ gproc'[p].pc = "restore" /\ gproc'[p].result = "error"
      BY <1>2, <2>2 DEF ProcWorks, GitTypeOK, ProcType
    <3>2. TreeWorks(d) /\ HeadStays(d)
      BY <1>10, <2>1, <2>2 DEF CheckoutFails
    <3> QED
      BY <1>6, <1>9, <3>1, <3>2 DEF Relies
  <2>3. CASE GitCheckout(d, Target) /\ gproc' = [gproc EXCEPT ![p].orig = gwt[d].head, ![p].pc = "pull"]
    <3>1. ProcWorks(p) /\ gproc'[p].pc = "pull" /\ gproc'[p].result = gproc[p].result
      BY <1>2, <2>3 DEF ProcWorks, GitTypeOK, ProcType
    <3>2. gwt' = [gwt EXCEPT ![d].head = Target] /\ CanCheckout(d, Target)
      BY <2>3 DEF GitCheckout
    <3>3. gwt'[d].head = Target /\ \A x \in Dirs \ {d} : gwt'[x] = gwt[x]
      BY <1>2, <1>3, <3>2 DEF GitTypeOK, WorktreeType
    <3>4. TreeWorks(d)
      BY <1>5, <2>1, <3>3 DEF TreeWorks
    <3>5. gproc'[p].todo = gproc[p].todo /\ Head(gproc[p].todo).kind = "push"
      BY <2>1, <3>1 DEF ProcWorks, Cur
    <3>6. CommandGood(gproc'[p], gwt'[d].head, gref'[Repo(d)][gwt'[d].head])
      BY <3>1, <3>3, <3>5 DEF CommandGood
    <3>7. PlacesInv'
      BY <1>1, <1>3, <3>1, <3>2, <3>3, <3>4, <3>6, WorkIsLocal
    <3> QED
      BY <3>1, <3>7, PlainIsTrue DEF Goal
  <2> QED
    BY <1>14, <2>2, <2>3 DEF CheckoutTarget
<1>15. CASE GitPull(p)
  <2>1. gproc[p].pc = "pull" /\ Cur(p).kind = "push"
    BY <1>2, <1>15 DEF GitPull, At, ProcOK
  <2>2. CASE Report(p, "error", "restore") /\ UNCHANGED <<gtrack, gref, gwt>>
    BY <1>7, <1>9, <1>10, <2>2
  <2>3. ASSUME NEW r \in MergeResults(d, gremote[Target]), GitMerge(d, r),
               IF r.ok THEN GoTo(p, "compare") ELSE Report(p, "error", "restore")
        PROVE  Goal
    <3>1. gremote[Target] \in SUBSET Commits
      BY <1>3 DEF GitTypeOK
    <3>2. TreeWorks(d) /\ HeadStays(d)
      BY <1>2, <1>5, <2>3, <3>1, MergeMoves
    <3>3. CASE Report(p, "error", "restore")
      BY <1>7, <1>9, <3>2, <3>3
    <3>4. CASE GoTo(p, "compare")
      <4>1. ProcWorks(p) /\ gproc'[p].pc = "compare" /\ gproc'[p].result = gproc[p].result
        BY <3>4, Goes
      <4>2. gproc[p].alone => gwt[d].head = Target
        BY <1>1, <1>4, <2>1 DEF CommandGood, Busy
      <4>3. gproc'[p].todo = gproc[p].todo /\ gproc'[p].alone = gproc[p].alone /\ Head(gproc[p].todo).kind = "push"
        BY <2>1, <4>1 DEF ProcWorks, Cur
      <4>4. CommandGood(gproc'[p], gwt'[d].head, gref'[Repo(d)][gwt'[d].head])
        BY <3>2, <4>1, <4>2, <4>3 DEF CommandGood, HeadStays
      <4>5. PlacesInv'
        BY <1>1, <1>3, <3>2, <4>1, <4>4, WorkIsLocal DEF HeadStays
      <4> QED
        BY <4>1, <4>5, PlainIsTrue DEF Goal
    <3> QED
      BY <2>3, <3>3, <3>4
  <2> QED
    BY <1>15, <2>2, <2>3 DEF GitPull
<1>16. CASE HasCommitsBetween(p)
  <2> DEFINE next == IF Cur(p).kind = "pr" THEN "prPush" ELSE "merge"
  <2>1. /\ gproc[p].pc = "compare" /\ UNCHANGED <<gremote, gref, gtrack, gwt>>
        /\ Cur(p).kind \in {"pr", "push"}
    BY <1>2, <1>16 DEF HasCommitsBetween, At, ProcOK
  <2>2. TreeWorks(d) /\ HeadStays(d)
    BY <1>10, <2>1
  <2>3. CASE GoTo(p, next)
    <3>1. CASE Cur(p).kind = "pr"
      BY <1>8, <2>2, <2>3, <3>1 DEF Relies
    <3>2. CASE Cur(p).kind = "push"
      <4>1. ProcWorks(p) /\ gproc'[p].pc = "merge" /\ gproc'[p].result = gproc[p].result
        BY <2>3, <3>2, Goes
      <4>2. /\ gproc'[p].todo = gproc[p].todo /\ gproc'[p].alone = gproc[p].alone
            /\ Head(gproc[p].todo).kind = "push"
        BY <3>2, <4>1 DEF ProcWorks, Cur
      <4>3. gproc[p].alone => gwt[d].head = Target
        BY <1>1, <1>4, <2>1, <4>2 DEF CommandGood, Busy
      <4>4. CommandGood(gproc'[p], gwt'[d].head, gref'[Repo(d)][gwt'[d].head])
        BY <2>2, <4>1, <4>2, <4>3 DEF CommandGood, HeadStays
      <4>5. PlacesInv'
        BY <1>1, <1>3, <2>2, <4>1, <4>4, WorkIsLocal DEF HeadStays
      <4> QED
        BY <4>1, <4>5, PlainIsTrue DEF Goal
    <3> QED
      BY <2>1, <3>1, <3>2
  <2>4. CASE /\ RefOf(d, Cur(p).src) \subseteq ComparedWith(Cur(p))
             /\ Report(p, "upToDate", IF Cur(p).kind = "pr" THEN "done" ELSE "restore")
    <3>1. ProcWorks(p) /\ gproc'[p].pc \in {"done", "restore"} /\ gproc'[p].result = "upToDate"
      BY <2>4, Reports
    <3>2. PlacesInv'
      BY <1>1, <2>2, <3>1, QuietWork DEF Relies
    <3>3. ~gforced /\ Cur(p).ui # "legacy" => RefOf(d, Cur(p).src) \subseteq gremote'[Target]
      BY <1>2, <2>1, <2>4 DEF ComparedWith, TrackInv
    <3>4. TruthOf(p, "upToDate") <=> (Cur(p).ui # "legacy" => RefOf(d, Cur(p).src) \subseteq gremote'[Target])
      BY DEF TruthOf
    <3>5. Truthful(p)
      BY <3>1, <3>3, <3>4 DEF Truthful
    <3> QED
      BY <3>2, <3>5 DEF Goal
  <2> QED
    BY <1>16, <2>3, <2>4 DEF HasCommitsBetween
<1>17. CASE MergeSource(p)
  <2> DEFINE source == RefOf(d, Cur(p).src)
  <2>1. gproc[p].pc = "merge" /\ Cur(p).kind = "push" /\ source \in SUBSET Commits
    BY <1>2, <1>3, <1>17 DEF MergeSource, At, ProcOK
  <2>2. PICK r \in MergeResults(d, source) :
          /\ GitMerge(d, r)
          /\ \/ r.ok /\ gproc' = [gproc EXCEPT ![p].goal = source, ![p].pc = "push"]
             \/ Report(p, "conflict", "restore") \/ GoTo(p, "agent") \/ Report(p, "error", "restore")
    BY <1>17 DEF MergeSource
  <2> HIDE DEF source
  <2>3. TreeWorks(d) /\ HeadStays(d) /\ (r.ok => gref'[Repo(d)][gwt[d].head] = HeadOf(d) \cup source)
    BY <1>2, <1>5, <2>1, <2>2, MergeMoves
  <2>4. CASE r.ok /\ gproc' = [gproc EXCEPT ![p].goal = source, ![p].pc = "push"]
    <3>1. /\ ProcWorks(p) /\ gproc'[p].pc = "push" /\ gproc'[p].result = gproc[p].result
          /\ gproc'[p].goal = source
      BY <1>2, <2>4 DEF ProcWorks, GitTypeOK, ProcType
    <3>2. /\ gproc'[p].todo = gproc[p].todo /\ gproc'[p].alone = gproc[p].alone
          /\ Head(gproc[p].todo).kind = "push"
      BY <2>1, <3>1 DEF ProcWorks, Cur
    <3>3. gproc[p].alone => gwt[d].head = Target
      BY <1>1, <1>4, <2>1 DEF CommandGood, Busy
    <3>4. source \subseteq gref'[Repo(d)][gwt'[d].head]
      BY <2>3, <2>4 DEF HeadStays
    <3>5. CommandGood(gproc'[p], gwt'[d].head, gref'[Repo(d)][gwt'[d].head])
      BY <2>3, <3>1, <3>2, <3>3, <3>4 DEF CommandGood, HeadStays
    <3>6. PlacesInv'
      BY <1>1, <1>3, <2>3, <3>1, <3>5, WorkIsLocal DEF HeadStays
    <3> QED
      BY <3>1, <3>6, PlainIsTrue DEF Goal
  <2> QED
    BY <1>7, <1>8, <1>9, <2>2, <2>3, <2>4 DEF Relies
<1>18. CASE AgentResolves(p)
  <2> DEFINE w == MergeOver(gwt[d], gwt[d].edits)
             merged == HeadOf(d) \cup gwt[d].incoming
  <2>1. w.head = gwt[d].head
    BY <1>3 DEF WorktreeType, MergeOver
  <2>2. \/ UNCHANGED <<gref, gwt>>
        \/ gref' = [gref EXCEPT ![Repo(d)][gwt[d].head] = merged] /\ gwt' = [gwt EXCEPT ![d] = w]
    BY <1>2, <1>18 DEF AgentResolves, GitTypeOK
  <2> HIDE DEF w, merged
  <2>3. TreeWorks(d) /\ HeadStays(d)
    <3>1. CASE gref' = [gref EXCEPT ![Repo(d)][gwt[d].head] = merged] /\ gwt' = [gwt EXCEPT ![d] = w]
      BY <1>2, <1>5, <2>1, <3>1, BranchMoves
    <3> QED
      BY <1>10, <2>2, <3>1
  <2>4. \E x \in {"resolved", "error"}, pc \in {"restore", "done"} : Report(p, x, pc)
    BY <1>18 DEF AgentResolves
  <2> QED
    BY <1>7, <1>9, <2>3, <2>4
<1>19. CASE PushTarget(p)
  <2>1. gproc[p].pc = "push" /\ UNCHANGED <<gref, gwt>>
    BY <1>19 DEF PushTarget, At
  <2>2. TreeWorks(d) /\ HeadStays(d)
    BY <1>10, <2>1
  <2>3. CASE Report(p, "error", "restore")
    BY <1>7, <1>9, <2>2, <2>3
  <2>4. CASE GitPush(d, Target) /\ Report(p, "pushed", "restore")
    <3>1. ProcWorks(p) /\ gproc'[p].pc = "restore" /\ gproc'[p].result = "pushed"
      BY <2>4, Reports
    <3>2. PlacesInv'
      BY <1>1, <2>2, <3>1, QuietWork DEF Relies
    <3>3. gremote'[Target] = RefOf(d, Target)
      BY <1>3, <2>4 DEF GitPush, GitTypeOK
    <3>4. gproc[p].alone => gproc[p].goal \subseteq RefOf(d, Target)
      BY <1>1, <1>4, <2>1 DEF CommandGood, Busy, HeadOf
    <3>5. TruthOf(p, "pushed") <=> gproc[p].goal \subseteq gremote'[Target]
      BY DEF TruthOf
    <3>6. Truthful(p)
      BY <3>1, <3>3, <3>4, <3>5 DEF Truthful
    <3> QED
      BY <3>2, <3>6 DEF Goal
  <2> QED
    BY <1>19, <2>3, <2>4 DEF PushTarget
<1>20. CASE RestoreBranch(p)
  <2> DEFINE b == gproc[p].orig
  <2>1. UNCHANGED gref /\ Cur(p).kind = "push" /\ b \in Branches
    BY <1>2, <1>20 DEF RestoreBranch, At, ProcOK
  <2>2. ProcWorks(p) /\ gproc'[p].pc = "pop" /\ gproc'[p].result = gproc[p].result
    BY <1>20, Goes DEF RestoreBranch
  <2>3. CASE CheckoutFails(d, b)
    <3>1. TreeWorks(d) /\ HeadStays(d)
      BY <1>10, <2>1, <2>3 DEF CheckoutFails
    <3> QED
      BY <1>6, <2>2, <3>1 DEF Relies
  <2>4. CASE GitCheckout(d, b)
    <3>1. gwt' = [gwt EXCEPT ![d].head = b] /\ CanCheckout(d, b)
      BY <2>4 DEF GitCheckout
    <3>2. gwt'[d].head = b /\ \A x \in Dirs \ {d} : gwt'[x] = gwt[x]
      BY <1>2, <1>3, <3>1 DEF GitTypeOK, WorktreeType
    <3>3. TreeWorks(d)
      BY <1>5, <2>1, <3>2 DEF TreeWorks
    <3>4. gproc'[p].todo = gproc[p].todo /\ Head(gproc[p].todo).kind = "push"
      BY <2>1, <2>2 DEF ProcWorks, Cur
    <3>5. CommandGood(gproc'[p], gwt'[d].head, gref'[Repo(d)][gwt'[d].head])
      BY <2>2, <3>4 DEF CommandGood
    <3>6. PlacesInv'
      BY <1>1, <2>1, <2>2, <3>1, <3>2, <3>3, <3>5, WorkIsLocal
    <3> QED
      BY <2>2, <3>6, PlainIsTrue DEF Goal
  <2> QED
    BY <1>20, <2>3, <2>4 DEF RestoreBranch
<1>21. CASE StashCleanup(p)
  <2>1. UNCHANGED gref /\ GoTo(p, "done")
    BY <1>21 DEF StashCleanup
  <2>2. \/ UNCHANGED gwt
        \/ \E e : gwt' = [gwt EXCEPT ![d].edits = e]
        \/ gwt' = [gwt EXCEPT ![d].unmerged = TRUE, ![d].incoming = {}]
    BY <1>21 DEF StashCleanup, GitStashPop
  <2>3. UNCHANGED gwt \/ \E w : gwt' = [gwt EXCEPT ![d] = w] /\ w.head = gwt[d].head
    <3>1. ASSUME NEW e, gwt' = [gwt EXCEPT ![d].edits = e] PROVE <2>3!:
      <4> DEFINE w == [gwt[d] EXCEPT !.edits = e]
      <4>1. w.head = gwt[d].head
        BY <1>3 DEF WorktreeType
      <4>2. gwt' = [gwt EXCEPT ![d] = w]
        BY <1>2, <3>1 DEF GitTypeOK
      <4> QED
        BY <4>1, <4>2
    <3>2. CASE gwt' = [gwt EXCEPT ![d].unmerged = TRUE, ![d].incoming = {}]
      <4> DEFINE w == [gwt[d] EXCEPT !.unmerged = TRUE, !.incoming = {}]
      <4>1. w.head = gwt[d].head
        BY <1>3 DEF WorktreeType
      <4>2. gwt' = [gwt EXCEPT ![d] = w]
        BY <1>2, <3>2 DEF GitTypeOK
      <4> QED
        BY <4>1, <4>2
    <3> QED
      BY <2>2, <3>1, <3>2
  <2>4. TreeWorks(d) /\ HeadStays(d)
    BY <1>2, <1>5, <2>1, <2>3, TreeStays
  <2> QED
    BY <1>8, <2>1, <2>4 DEF Relies
<1> QED
  BY <1>11, <1>12, <1>13, <1>14, <1>15, <1>16, <1>17, <1>18, <1>19, <1>20, <1>21 DEF GitPushSteps

\* Pulls, pull requests and resets.
LEMMA OthersReport ==
  ASSUME GitTypeOK, ProcInv, PlacesInv, NEW p \in GitProcs,
         GitPullSteps(p) \/ GitPRSteps(p) \/ GitResetSteps(p)
  PROVE  PlacesInv' /\ Truthful(p)
<1> DEFINE d == Cur(p).dir
           Goal == PlacesInv' /\ Truthful(p)
<1> SUFFICES Goal
  OBVIOUS
<1>1. Busy(p)
  BY DEF GitPullSteps, GitPRSteps, GitResetSteps, PullMerge, GitMergeAbort, PullPush, PRPush, CreatePR,
         GetExistingPRURL, RemoteBranchPushed, GetOpenPR, GetEpicInfo, CreateEpicPR, StoreExternalRef,
         CheckAgentLock, ReadBranch, DiscardChanges, ResetToTarget, GitPushForce, At
<1>2. /\ gproc[p] \in ProcType /\ Cur(p) \in JobType /\ d \in Dirs /\ Cur(p).src \in Branches /\ Repo(d) \in Dirs
      /\ ProcOK(Cur(p), gproc[p].pc, gproc[p].orig)
  BY <1>1, Current DEF ProcInv, ProcGood, Busy, Cur
<1>3. gwt[d] \in WorktreeType /\ gwt[d].head \in Branches /\ Target \in Branches
  BY <1>2, RefsAreCommits DEF Branches
<1>4. CommandGood(gproc[p], gwt[d].head, HeadOf(d))
  BY <1>1 DEF PlacesInv, CommandsInv
<1>5. UNCHANGED glayout
  BY DEF GitPullSteps, GitPRSteps, GitResetSteps, PullMerge, GitMergeAbort, PullPush, PRPush, CreatePR,
         GetExistingPRURL, RemoteBranchPushed, GetOpenPR, GetEpicInfo, CreateEpicPR, StoreExternalRef,
         CheckAgentLock, ReadBranch, DiscardChanges, ResetToTarget, GitPushForce
<1>6. ASSUME ProcWorks(p), TreeWorks(d), HeadStays(d), gproc'[p].pc \notin Relies \cup {"compare"}
      PROVE  PlacesInv'
  BY <1>1, <1>6, QuietWork
<1>7. ASSUME TreeWorks(d), HeadStays(d), NEW x, NEW pc, Report(p, x, pc), pc \notin Relies \cup {"compare"},
             x \in PlainResults \/ (x \in {"created", "exists"} /\ Cur(p).src \in gprs')
      PROVE  Goal
  <2>1. ProcWorks(p) /\ gproc'[p].pc = pc /\ gproc'[p].result = x
    BY <1>7, Reports
  <2>2. TruthOf(p, x)
    BY <1>7 DEF TruthOf, PlainResults
  <2> QED
    BY <1>6, <1>7, <2>1, <2>2 DEF Truthful
<1>8. ASSUME TreeWorks(d), HeadStays(d), NEW pc, GoTo(p, pc), pc \notin Relies \cup {"compare"}
      PROVE  Goal
  BY <1>6, <1>8, Goes, PlainIsTrue
<1>9. {"error", "conflict", "skipped", "aborted", "reset", "none"} \subseteq PlainResults
  BY DEF PlainResults
<1>10. UNCHANGED <<gwt, gref>> => TreeWorks(d) /\ HeadStays(d)
  BY <1>2, <1>5, TreeStays
<1>0. {"done", "abort", "agent", "create", "view", "list", "store", "info", "epicCreate", "branch", "fetch", "rehead",
       "force"} \cap (Relies \cup {"compare"}) = {}
  BY DEF Relies
<1> HIDE DEF Goal
<1>11. CASE PullMerge(p)
  <2> DEFINE source == gtrack[Repo(d)][Target]
  <2>1. gproc[p].pc = "pullMerge" /\ Cur(p).kind = "pull" /\ source \in SUBSET Commits
    BY <1>2, <1>3, <1>11 DEF PullMerge, At, ProcOK, GitTypeOK
  <2>2. PICK r \in MergeResults(d, source) :
          /\ GitMerge(d, r)
          /\ \/ r.ok /\ gproc' = [gproc EXCEPT ![p].goal = source, ![p].pc = "pullPush"]
             \/ Report(p, "conflict", "abort") \/ GoTo(p, "agent") \/ Report(p, "error", "abort")
             \/ Report(p, "error", "done")
    BY <1>11 DEF PullMerge
  <2> HIDE DEF source
  <2>3. TreeWorks(d) /\ HeadStays(d) /\ (r.ok => gref'[Repo(d)][gwt[d].head] = HeadOf(d) \cup source)
    BY <1>2, <1>5, <2>1, <2>2, MergeMoves
  <2>4. CASE r.ok /\ gproc' = [gproc EXCEPT ![p].goal = source, ![p].pc = "pullPush"]
    <3>1. /\ ProcWorks(p) /\ gproc'[p].pc = "pullPush" /\ gproc'[p].result = gproc[p].result
          /\ gproc'[p].goal = source
      BY <1>2, <2>4 DEF ProcWorks, GitTypeOK, ProcType
    <3>2. /\ gproc'[p].todo = gproc[p].todo /\ gproc'[p].alone = gproc[p].alone
          /\ Head(gproc[p].todo).kind = "pull"
      BY <2>1, <3>1 DEF ProcWorks, Cur
    <3>3. source \subseteq gref'[Repo(d)][gwt'[d].head]
      BY <2>3, <2>4 DEF HeadStays
    <3>4. CommandGood(gproc'[p], gwt'[d].head, gref'[Repo(d)][gwt'[d].head])
      BY <1>4, <2>3, <3>1, <3>2, <3>3 DEF CommandGood, HeadStays
    <3>5. PlacesInv'
      BY <1>1, <1>3, <2>3, <3>1, <3>4, WorkIsLocal DEF HeadStays
    <3> QED
      BY <3>1, <3>5, PlainIsTrue DEF Goal
  <2> QED
    BY <1>0, <1>7, <1>8, <1>9, <2>2, <2>3, <2>4
<1>12. CASE GitMergeAbort(p)
  <2> DEFINE w == MergeOver(gwt[d], gwt[d].edits \ gwt[d].exposed)
  <2>1. UNCHANGED gref /\ GoTo(p, "done")
    BY <1>12 DEF GitMergeAbort
  <2>2. w.head = gwt[d].head
    BY <1>3 DEF WorktreeType, MergeOver
  <2>3. UNCHANGED gwt \/ gwt' = [gwt EXCEPT ![d] = w]
    BY <1>2, <1>12 DEF GitMergeAbort, GitTypeOK
  <2> HIDE DEF w
  <2>4. TreeWorks(d) /\ HeadStays(d)
    BY <1>2, <1>5, <2>1, <2>2, <2>3, TreeStays
  <2> QED
    BY <1>0, <1>8, <2>1, <2>4
<1>13. CASE PullPush(p)
  <2>1. gproc[p].pc = "pullPush" /\ TreeWorks(d) /\ HeadStays(d)
    BY <1>10, <1>13 DEF PullPush, At
  <2>2. CASE Report(p, "error", "done")
    BY <1>0, <1>7, <1>9, <2>1, <2>2
  <2>3. CASE GitPush(d, Cur(p).src) /\ Report(p, "pulled", "done")
    <3>1. ProcWorks(p) /\ gproc'[p].pc = "done" /\ gproc'[p].result = "pulled"
      BY <2>3, Reports
    <3>2. PlacesInv'
      BY <1>0, <1>6, <2>1, <3>1
    <3>3. gremote'[Cur(p).src] = RefOf(d, Cur(p).src)
      BY <1>2, <2>3 DEF GitPush, GitTypeOK
    <3>4. gproc[p].alone /\ Cur(p).ui = "api" => gproc[p].goal \subseteq RefOf(d, Cur(p).src)
      BY <1>1, <1>4, <2>1 DEF CommandGood, Busy, Cur, HeadOf
    <3>5. TruthOf(p, "pulled") <=> (Cur(p).ui = "api" => gproc[p].goal \subseteq gremote'[Cur(p).src])
      BY DEF TruthOf
    <3>6. Truthful(p)
      BY <3>1, <3>3, <3>4, <3>5 DEF Truthful
    <3> QED
      BY <3>2, <3>6 DEF Goal
  <2> QED
    BY <1>13, <2>2, <2>3 DEF PullPush
<1>14. CASE PRPush(p)
  <2>1. TreeWorks(d) /\ HeadStays(d) /\ (GoTo(p, "create") \/ Report(p, "error", "done"))
    BY <1>10, <1>14 DEF PRPush
  <2> QED
    BY <1>0, <1>7, <1>8, <1>9, <2>1
<1>15. CASE CreatePR(p) \/ GetExistingPRURL(p)
  <2>1. TreeWorks(d) /\ HeadStays(d)
    BY <1>10, <1>15 DEF CreatePR, GetExistingPRURL
  <2>2. \/ \E x \in {"created", "exists"} : Report(p, x, "done") /\ Cur(p).src \in gprs'
        \/ GoTo(p, "view") \/ Report(p, "error", "done")
    BY <1>15 DEF CreatePR, GetExistingPRURL
  <2> QED
    BY <1>0, <1>7, <1>8, <1>9, <2>1, <2>2
<1>16. CASE RemoteBranchPushed(p) \/ GetEpicInfo(p) \/ StoreExternalRef(p)
  <2>1. TreeWorks(d) /\ HeadStays(d)
    BY <1>10, <1>16 DEF RemoteBranchPushed, GetEpicInfo, StoreExternalRef
  <2>2. \/ GoTo(p, "list") \/ GoTo(p, "epicCreate") \/ GoTo(p, "done")
        \/ Report(p, "skipped", "done") \/ Report(p, "error", "done")
    BY <1>16 DEF RemoteBranchPushed, GetEpicInfo, StoreExternalRef
  <2> QED
    BY <1>0, <1>7, <1>8, <1>9, <2>1, <2>2
<1>17. CASE GetOpenPR(p) \/ CreateEpicPR(p)
  <2>1. TreeWorks(d) /\ HeadStays(d)
    BY <1>10, <1>17 DEF GetOpenPR, CreateEpicPR
  <2>2. \/ \E x \in {"created", "exists"} : Report(p, x, "store") /\ Cur(p).src \in gprs'
        \/ GoTo(p, "info") \/ Report(p, "error", "done")
    BY <1>17 DEF GetOpenPR, CreateEpicPR
  <2> QED
    BY <1>0, <1>7, <1>8, <1>9, <2>1, <2>2
<1>18. CASE CheckAgentLock(p) \/ GitPushForce(p)
  <2>1. TreeWorks(d) /\ HeadStays(d)
    BY <1>10, <1>18 DEF CheckAgentLock, GitPushForce
  <2>2. GoTo(p, "branch") \/ Report(p, "error", "done") \/ Report(p, "reset", "done")
    BY <1>18 DEF CheckAgentLock, GitPushForce
  <2> QED
    BY <1>0, <1>7, <1>8, <1>9, <2>1, <2>2
<1>19. CASE ReadBranch(p)
  <2>1. TreeWorks(d) /\ HeadStays(d)
    BY <1>10, <1>19 DEF ReadBranch
  <2>2. CASE Report(p, "aborted", "done")
    BY <1>0, <1>7, <1>9, <2>1, <2>2
  <2>3. CASE ~Report(p, "aborted", "done")
    <3> DEFINE b == gwt[d].head
               no == Cur(p).ui = "api" /\ Refuses(p, b)
               x == IF no THEN "error" ELSE "none"
               pc == IF no THEN "done" ELSE "fetch"
    <3>1. gproc' = [gproc EXCEPT ![p].orig = b, ![p].result = x, ![p].pc = pc]
      BY <1>19, <2>3 DEF ReadBranch
    <3>2. x \in {"error", "none"} /\ pc \in {"done", "fetch"}
      OBVIOUS
    <3> HIDE DEF b, x, pc
    <3>3. ProcWorks(p) /\ gproc'[p].pc = pc /\ gproc'[p].result = x
      BY <1>2, <3>1 DEF ProcWorks, GitTypeOK, ProcType
    <3>4. Truthful(p)
      BY <1>9, <3>2, <3>3, PlainIsTrue
    <3> QED
      BY <1>0, <1>6, <2>1, <3>2, <3>3, <3>4 DEF Goal
  <2> QED
    BY <2>2, <2>3
<1>20. CASE DiscardChanges(p) \/ ResetToTarget(p)
  <2> DEFINE w == MergeOver(gwt[d], {})
             c == gtrack[Repo(d)][Target]
  <2>1. w.head = gwt[d].head
    BY <1>3 DEF WorktreeType, MergeOver
  <2>2. UNCHANGED gwt \/ gwt' = [gwt EXCEPT ![d] = w]
    BY <1>2, <1>20 DEF DiscardChanges, ResetToTarget, Discards, GitTypeOK
  <2>3. UNCHANGED gref \/ gref' = [gref EXCEPT ![Repo(d)][gwt[d].head] = c]
    BY <1>20 DEF DiscardChanges, ResetToTarget
  <2>4. GoTo(p, "rehead") \/ GoTo(p, "force") \/ Report(p, "error", "done")
    BY <1>20 DEF DiscardChanges, ResetToTarget
  <2> HIDE DEF w, c
  <2>5. TreeWorks(d) /\ HeadStays(d)
    <3>1. CASE UNCHANGED gref
      BY <1>2, <1>5, <2>1, <2>2, <3>1, TreeStays
    <3>2. CASE gref' = [gref EXCEPT ![Repo(d)][gwt[d].head] = c]
      BY <1>2, <1>5, <2>1, <2>2, <3>2, BranchMoves
    <3> QED
      BY <2>3, <3>1, <3>2
  <2> QED
    BY <1>0, <1>7, <1>8, <1>9, <2>4, <2>5
<1> QED
  BY <1>11, <1>12, <1>13, <1>14, <1>15, <1>16, <1>17, <1>18, <1>19, <1>20
     DEF GitPullSteps, GitPRSteps, GitResetSteps

\* The end of a job: the next one reads the branch when it is a pull of the web server.
LEMMA EndReports ==
  ASSUME GitTypeOK, PlacesInv, NEW p \in GitProcs, JobEnds(p)
  PROVE  /\ PlacesInv' /\ Truthful(p)
         /\ \A q \in GitProcs \ {p} : gproc'[q].result = gproc[q].result
<1>1. Busy(p) /\ UNCHANGED <<gwt, gref, glayout>> /\ gproc \in [GitProcs -> ProcType]
  BY DEF JobEnds, At, GitTypeOK
<1>2. CASE RestOf(p) = <<>>
  <2>1. gproc' = [gproc EXCEPT ![p] = IdleProc]
    BY <1>2 DEF JobEnds
  <2>2. IdleProc.todo = <<>> /\ IdleProc.result = "none"
    BY DEF IdleProc
  <2>3. gproc'[p] = IdleProc /\ \A q \in GitProcs \ {p} : gproc'[q] = gproc[q]
    BY <1>1, <2>1
  <2>4. Truthful(p)
    BY <2>2, <2>3, PlainIsTrue DEF PlainResults
  <2>5. \A q \in GitProcs : Busy(q)' => q # p /\ Busy(q) /\ Cur(q)' = Cur(q) /\ gproc'[q] = gproc[q]
    BY <2>2, <2>3 DEF Busy, Cur
  <2>6. AloneInv'
    BY <2>5 DEF PlacesInv, AloneInv
  <2>7. \A x \in Dirs : Repo(x)' = Repo(x) /\ HeadOf(x)' = HeadOf(x)
    BY <1>1 DEF Repo, HeadOf, RefOf
  <2>8. DistinctHeads'
    BY <1>1, <2>7 DEF PlacesInv, DistinctHeads
  <2>9. CommandsInv'
    <3> SUFFICES ASSUME NEW q \in GitProcs, Busy(q)'
                 PROVE  CommandGood(gproc'[q], gwt'[Cur(q)'.dir].head, HeadOf(Cur(q).dir)')
      BY DEF CommandsInv
    <3>1. Busy(q) /\ Cur(q)' = Cur(q) /\ gproc'[q] = gproc[q]
      BY <2>5
    <3>2. PICK e \in Dirs : e = Cur(q).dir
      BY <3>1, Current
    <3>3. CommandGood(gproc[q], gwt[e].head, HeadOf(e))
      BY <3>1, <3>2 DEF PlacesInv, CommandsInv
    <3>4. HeadOf(Cur(q).dir)' = HeadOf(e)'
      BY <3>1, <3>2 DEF HeadOf, RefOf, Repo
    <3> QED
      BY <1>1, <2>7, <3>1, <3>2, <3>3, <3>4
  <2> QED
    BY <2>3, <2>4, <2>6, <2>8, <2>9 DEF PlacesInv
<1>3. CASE RestOf(p) # <<>>
  <2> DEFINE rest == Tail(gproc[p].todo)
             next == Head(rest)
             again == [next EXCEPT !.src = gwt[next.dir].head]
             todo == RestOf(p)
  <2>1. Starts(p, todo)
    BY <1>3 DEF JobEnds
  <2>2. gproc[p].todo \in Seq(JobType) /\ gproc[p].todo # <<>>
    BY <1>1, Current DEF ProcType, Busy
  <2>3. rest \in Seq(JobType)
    BY <2>2
  <2>4. rest # <<>>
    BY <1>3 DEF RestOf
  <2>5. todo = <<again>> \o Tail(rest) \/ (todo = rest /\ ~(next.kind = "pull" /\ next.ui # "cli"))
    BY <1>3 DEF RestOf
  <2> HIDE DEF rest, todo
  <2>6. next \in JobType /\ Tail(rest) \in Seq(JobType)
    BY <2>3, <2>4
  <2>7. gwt[next.dir].head \in Branches
    BY <2>6 DEF JobType, GitTypeOK, WorktreeType
  <2> HIDE DEF next
  <2>8. again \in JobType /\ again.src = gwt[next.dir].head /\ again.dir = next.dir
    BY <2>6, <2>7 DEF JobType
  <2> HIDE DEF again
  <2>9. todo \in Seq(JobType) /\ todo # <<>>
    BY <1>3, <2>3, <2>5, <2>6, <2>8 DEF todo
  <2>10. Head(todo).kind = "pull" /\ Head(todo).ui = "api" => gwt[Head(todo).dir].head = Head(todo).src
    <3>1. CASE todo = <<again>> \o Tail(rest)
      <4>1. Head(todo) = again
        BY <2>6, <2>8, <3>1
      <4> QED
        BY <2>8, <4>1
    <3>2. CASE todo = rest /\ ~(next.kind = "pull" /\ next.ui # "cli")
      BY <3>2 DEF next
    <3> QED
      BY <2>5, <3>1, <3>2
  <2>11. PlacesInv' /\ \A q \in GitProcs \ {p} : gproc'[q].result = gproc[q].result
    BY <1>1, <2>1, <2>9, <2>10, StartsAlone
  <2>12. gproc'[p].result = "none"
    BY <2>1 DEF Starts, IdleProc
  <2>13. Truthful(p)
    BY <2>12, PlainIsTrue DEF PlainResults
  <2> QED
    BY <2>11, <2>13
<1> QED
  BY <1>2, <1>3

\* A pull of the web server that a command begins with names the branch checked out.
LEMMA CommandsReadHeads ==
  ASSUME GitTypeOK, NEW jobs \in Commands, jobs # <<>>, Head(jobs).kind = "pull", Head(jobs).ui = "api"
  PROVE  gwt[Head(jobs).dir].head = Head(jobs).src
<1>1. ASSUME NEW f, ForAll(f) # <<>>
      PROVE  \E d \in Discovered : Head(ForAll(f)) = f[d]
  <2> DEFINE L == Listing[glayout]
  <2>1. L \in Seq(Dirs) /\ {L[i] : i \in DOMAIN L} = Discovered
    BY GitAssumption DEF Discovered, GitTypeOK
  <2>2. Len(L) \in Nat /\ DOMAIN L = 1..Len(L)
    BY <2>1
  <2>3. ForAll(f) = [i \in 1..Len(L) |-> f[L[i]]]
    BY <2>2 DEF ForAll, DiscoveredDirs
  <2>4. Len(L) # 0
    BY <1>1, <2>2, <2>3
  <2>5. L[1] \in Discovered /\ Head(ForAll(f)) = f[L[1]]
    BY <2>1, <2>2, <2>3, <2>4
  <2> QED
    BY <2>5
<1>2. ASSUME NEW ui \in PushUIs, PushAllJobs(ui) # <<>>
      PROVE  Head(PushAllJobs(ui)).kind = "push" /\ Head(PushAllJobs(ui)).ui = ui
  <2> DEFINE f == [d \in Discovered |-> PushJob(ui, d)]
  <2>1. ForAll(f) # <<>> /\ PushAllJobs(ui) = ForAll(f)
    BY <1>2 DEF PushAllJobs
  <2>2. PICK d \in Discovered : Head(ForAll(f)) = f[d]
    BY <1>1, <2>1
  <2>3. Head(PushAllJobs(ui)) = PushJob(ui, d)
    BY <2>1, <2>2
  <2> QED
    BY <2>3 DEF PushJob, Job
<1>3. ASSUME NEW ui \in PushUIs, PullAllJobs(ui) # <<>> PROVE Head(PullAllJobs(ui)).ui = ui
  <2> DEFINE f == [d \in Discovered |-> PullJob(ui, d)]
  <2>1. ForAll(f) # <<>> /\ PullAllJobs(ui) = ForAll(f)
    BY <1>3 DEF PullAllJobs
  <2>2. PICK d \in Discovered : Head(ForAll(f)) = f[d]
    BY <1>1, <2>1
  <2>3. Head(PullAllJobs(ui)) = PullJob(ui, d)
    BY <2>1, <2>2
  <2> QED
    BY <2>3 DEF PullJob, Job
<1>4. ASSUME NEW ui \in PushUIs, PRAllJobs(ui) # <<>> PROVE Head(PRAllJobs(ui)).kind = "pr"
  <2> DEFINE f == [d \in Discovered |-> PRJob(ui, d)]
  <2>1. ForAll(f) # <<>> /\ PRAllJobs(ui) = ForAll(f)
    BY <1>4 DEF PRAllJobs
  <2>2. PICK d \in Discovered : Head(ForAll(f)) = f[d]
    BY <1>1, <2>1
  <2>3. Head(PRAllJobs(ui)) = PRJob(ui, d)
    BY <2>1, <2>2
  <2> QED
    BY <2>3 DEF PRJob, Job
<1>5. ASSUME NEW f \in BOOLEAN, ResetAllJobs(f) # <<>> PROVE Head(ResetAllJobs(f)).kind = "reset"
  <2> DEFINE g == [d \in Discovered |-> Job("reset", "batch", d, DiscoveredBranch(d), f)]
  <2>1. ForAll(g) # <<>> /\ ResetAllJobs(f) = ForAll(g)
    BY <1>5 DEF ResetAllJobs
  <2>2. PICK d \in Discovered : Head(ForAll(g)) = g[d]
    BY <1>1, <2>1
  <2>3. Head(ResetAllJobs(f)) = Job("reset", "batch", d, DiscoveredBranch(d), f)
    BY <2>1, <2>2
  <2> QED
    BY <2>3 DEF Job
<1>6. CASE jobs \in PushCommands
  BY <1>2, <1>6 DEF PushCommands, PushJob, Job
<1>7. CASE jobs \in PullCommands
  <2>1. CASE \E u \in PushUIs \ {"api"} : jobs = PullAllJobs(u)
    BY <1>3, <2>1
  <2>2. CASE \E u \in PushUIs, d \in Discovered : jobs = <<PullJob(u, d)>>
    BY <2>2 DEF PullJob, DiscoveredBranch, Job
  <2> QED
    BY <1>7, <2>1, <2>2 DEF PullCommands
<1>8. CASE jobs \in SyncCommands
  <2>1. PICK u \in PushUIs, d \in Discovered : jobs = SyncJobs(u, d)
    BY <1>8 DEF SyncCommands
  <2>2. CASE u = "api"
    BY <2>1, <2>2 DEF SyncJobs, PushJob, Job
  <2>3. CASE u # "api"
    <3>1. jobs = PushAllJobs(u) \o PullAllJobs(u)
      BY <2>1, <2>3 DEF SyncJobs
    <3>2. PushAllJobs(u) \in Seq(JobType) /\ PullAllJobs(u) \in Seq(JobType)
      BY AllJobsType
    <3>3. CASE PushAllJobs(u) # <<>>
      <4>1. Head(jobs) = Head(PushAllJobs(u))
        BY <3>1, <3>2, <3>3
      <4> QED
        BY <1>2, <3>3, <4>1
    <3>4. CASE PushAllJobs(u) = <<>>
      <4>1. jobs = PullAllJobs(u)
        BY <3>1, <3>2, <3>4
      <4> QED
        BY <1>3, <2>3, <4>1
    <3> QED
      BY <3>3, <3>4
  <2> QED
    BY <2>2, <2>3
<1>9. CASE jobs \in PRCommands
  <2>1. CASE \E u \in PushUIs : jobs = PRAllJobs(u)
    BY <1>4, <2>1
  <2>2. CASE \E u \in PushUIs, d \in Discovered : jobs = <<PRJob(u, d)>>
    BY <2>2 DEF PRJob, Job
  <2> QED
    BY <1>9, <2>1, <2>2 DEF PRCommands
<1>10. CASE jobs \in ResetCommands
  <2>1. CASE \E f \in BOOLEAN : jobs = ResetAllJobs(f)
    BY <1>5, <2>1
  <2>2. CASE \E u \in PushUIs, d \in Discovered, f \in BOOLEAN : jobs = ResetJobs(u, d, f)
    BY <2>2 DEF ResetJobs, Job
  <2> QED
    BY <1>10, <2>1, <2>2 DEF ResetCommands
<1>11. CASE jobs \in EpicCommands
  BY <1>11 DEF EpicCommands, Job
<1> QED
  BY <1>6, <1>7, <1>8, <1>9, <1>10, <1>11 DEF Commands

\* A new command.
LEMMA CommandReports ==
  ASSUME GitTypeOK, PlacesInv, NEW p \in GitProcs, MayCommand(p), NEW jobs \in Commands, GiveCommand(p, jobs)
  PROVE  /\ PlacesInv' /\ ~Busy(p)
         /\ \A q \in GitProcs \ {p} : gproc'[q].result = gproc[q].result
<1>1. jobs \in Seq(JobType) /\ jobs # <<>> /\ Starts(p, jobs) /\ UNCHANGED <<gwt, gref, glayout>> /\ ~Busy(p)
  BY CommandsAreJobs DEF GiveCommand, MayCommand
<1> QED
  BY <1>1, CommandsReadHeads, StartsAlone

\* Agents, users and other people.
LEMMA PeopleReport ==
  ASSUME GitTypeOK, PlacesInv,
         \/ \E d \in Workers : AgentStartsIn(d) \/ AgentLeaves(d) \/ AgentCommitsIn(d) \/ EditsIn(d)
         \/ OthersPush \/ \E b \in Branches : PRCloses(b)
  PROVE  PlacesInv' /\ UNCHANGED gproc
<1>1. UNCHANGED <<gproc, glayout>>
  BY DEF AgentStartsIn, AgentLeaves, AgentCommitsIn, EditsIn, OthersPush, PRCloses
<1>2. CASE UNCHANGED <<gref, gwt>>
  BY <1>1, <1>2, NobodyMoves
<1>3. ASSUME NEW d \in Workers, EditsIn(d) PROVE PlacesInv'
  <2>1. d \in Dirs /\ gwt[d] \in WorktreeType
    BY GitAssumption DEF GitTypeOK
  <2>0. PICK seen : gwt' = [gwt EXCEPT ![d].edits = @ \cup {d}, ![d].exposed = seen]
    BY <1>3 DEF EditsIn
  <2> DEFINE w == [gwt[d] EXCEPT !.edits = gwt[d].edits \cup {d}, !.exposed = seen]
  <2>2. gwt' = [gwt EXCEPT ![d] = w] /\ UNCHANGED gref
    <3>1. gwt' = [gwt EXCEPT ![d] = w]
      BY <2>0, <2>1 DEF GitTypeOK
    <3> QED
      BY <1>3, <3>1 DEF EditsIn
  <2>3. w.head = gwt[d].head
    BY <2>1 DEF WorktreeType
  <2> HIDE DEF w
  <2>4. \A x \in Dirs : gwt'[x].head = gwt[x].head
    BY <2>2, <2>3 DEF GitTypeOK
  <2> QED
    BY <1>1, <2>2, <2>4, NobodyMoves
<1>4. ASSUME NEW d \in Workers, AgentCommitsIn(d) PROVE PlacesInv'
  <2> DEFINE h == gwt[d].head
             c == gref[Repo(d)][h] \cup {d}
  <2>1. d \in Dirs
    BY GitAssumption
  <2>2. Repo(d) \in Dirs /\ h \in Branches
    BY <2>1, RefsAreCommits
  <2>3. gref' = [gref EXCEPT ![Repo(d)][h] = c] /\ UNCHANGED gwt
    BY <1>4, <2>2 DEF AgentCommitsIn, GitTypeOK
  <2>4. gref[Repo(d)][h] \subseteq c
    OBVIOUS
  <2> HIDE DEF c, h
  <2>5. \A r \in Dirs, b \in Branches : gref[r][b] \subseteq gref'[r][b]
    BY <2>2, <2>3, <2>4 DEF GitTypeOK
  <2> QED
    BY <1>1, <2>3, <2>5, NobodyMoves
<1> QED
  BY <1>1, <1>2, <1>3, <1>4 DEF AgentStartsIn, AgentLeaves, OthersPush, PRCloses

\* A step of a command is the command's own.
LEMMA StepsAreOwn ==
  ASSUME NEW p \in GitProcs, GitPushSteps(p) \/ GitPullSteps(p) \/ GitPRSteps(p) \/ GitResetSteps(p),
         gproc \in [GitProcs -> ProcType]
  PROVE  \A q \in GitProcs \ {p} : gproc'[q].result = gproc[q].result
<1>1. CASE GitPushSteps(p)
  BY <1>1 DEF GitPushSteps, GitFetch, CountStash, StashChanges, RecountStash, CheckoutTarget, GitPull,
     HasCommitsBetween, MergeSource, AgentResolves, PushTarget, RestoreBranch, StashCleanup, GoTo, Report
<1>2. CASE GitPullSteps(p)
  BY <1>2 DEF GitPullSteps, PullMerge, GitMergeAbort, PullPush, GoTo, Report
<1>3. CASE GitPRSteps(p)
  BY <1>3 DEF GitPRSteps, PRPush, CreatePR, GetExistingPRURL, RemoteBranchPushed, GetOpenPR, GetEpicInfo,
     CreateEpicPR, StoreExternalRef, GoTo, Report
<1>4. CASE GitResetSteps(p)
  BY <1>4 DEF GitResetSteps, CheckAgentLock, ReadBranch, DiscardChanges, ResetToTarget, GitPushForce, GoTo, Report
<1> QED
  BY <1>1, <1>2, <1>3, <1>4

-----------------------------------------------------------------------------
(* The remote-tracking branches.                                           *)

\* What a repository notes of the integration branch, it noted before or is on the remote.
Tracks ==
  \A r \in Dirs : gtrack'[r][Target] \subseteq gtrack[r][Target] \/ gtrack'[r][Target] \subseteq gremote'[Target]

\* A branch is noted as it is on the remote.
LEMMA NotesRemote ==
  ASSUME GitTypeOK, NEW r \in Dirs, NEW b \in Branches, NEW c \in SUBSET Commits,
         gtrack' = [gtrack EXCEPT ![r][b] = c], gremote' = [gremote EXCEPT ![b] = c]
  PROVE  Tracks
<1>1. gtrack \in [Dirs -> [Branches -> SUBSET Commits]] /\ gremote \in [Branches -> SUBSET Commits]
  BY DEF GitTypeOK
<1>2. Target \in Branches
  BY DEF Branches
<1>3. gremote'[b] = c /\ gtrack'[r][b] = c
  BY <1>1
<1>4. \A s \in Dirs : s # r \/ b # Target => gtrack'[s][Target] = gtrack[s][Target]
  BY <1>1, <1>2
<1> QED
  BY <1>3, <1>4 DEF Tracks

\* The steps of a command note what is on the remote.
LEMMA StepsTrack ==
  ASSUME GitTypeOK, ProcInv, NEW p \in GitProcs,
         GitPushSteps(p) \/ GitPullSteps(p) \/ GitPRSteps(p) \/ GitResetSteps(p) \/ JobEnds(p)
  PROVE  Tracks /\ (gforced => gforced')
<1> DEFINE d == Cur(p).dir
<1>1. /\ gtrack \in [Dirs -> [Branches -> SUBSET Commits]] /\ gremote \in [Branches -> SUBSET Commits]
      /\ Target \in Branches
  BY DEF GitTypeOK, Branches
<1>2. ASSUME Busy(p)
      PROVE  /\ Cur(p) \in JobType /\ d \in Dirs /\ Cur(p).src \in Branches /\ Repo(d) \in Dirs
             /\ ProcOK(Cur(p), gproc[p].pc, gproc[p].orig) /\ \A b \in Branches : RefOf(d, b) \in SUBSET Commits
  BY <1>2, Current, RefsAreCommits DEF ProcInv, ProcGood, Busy, Cur
<1>3. ASSUME Busy(p), NEW b \in Branches, GitPush(d, b) PROVE Tracks
  BY <1>2, <1>3, NotesRemote DEF GitPush
<1>4. UNCHANGED gtrack => Tracks
  BY DEF Tracks
<1>5. CASE GitFetch(p)
  <2>1. Busy(p) /\ UNCHANGED <<gremote, gforced>>
    BY <1>5 DEF GitFetch, At
  <2>2. gtrack' = [gtrack EXCEPT ![Repo(d)] = gremote] \/ UNCHANGED gtrack
    BY <1>5 DEF GitFetch
  <2>3. CASE gtrack' = [gtrack EXCEPT ![Repo(d)] = gremote]
    BY <1>1, <1>2, <2>1, <2>3 DEF Tracks
  <2> QED
    BY <1>4, <2>1, <2>2, <2>3
<1>6. CASE GitPull(p)
  <2>1. Busy(p) /\ UNCHANGED <<gremote, gforced>>
    BY <1>6 DEF GitPull, At
  <2>2. gtrack' = [gtrack EXCEPT ![Repo(d)][Target] = gremote[Target]] \/ UNCHANGED gtrack
    BY <1>6 DEF GitPull
  <2>3. CASE gtrack' = [gtrack EXCEPT ![Repo(d)][Target] = gremote[Target]]
    <3>1. gremote' = [gremote EXCEPT ![Target] = gremote[Target]] /\ gremote[Target] \in SUBSET Commits
      BY <1>1, <2>1
    <3> QED
      BY <1>1, <1>2, <2>1, <2>3, <3>1, NotesRemote
  <2> QED
    BY <1>4, <2>1, <2>2, <2>3
<1>7. CASE PushTarget(p) \/ PullPush(p) \/ PRPush(p)
  <2>1. Busy(p) /\ UNCHANGED gforced
    BY <1>7 DEF PushTarget, PullPush, PRPush, At
  <2>2. GitPush(d, Target) \/ GitPush(d, Cur(p).src) \/ UNCHANGED gtrack
    BY <1>7 DEF PushTarget, PullPush, PRPush
  <2> QED
    BY <1>1, <1>2, <1>3, <1>4, <2>1, <2>2
<1>8. CASE GitPushForce(p)
  <2> DEFINE b == gproc[p].orig
  <2>1. Busy(p) /\ gproc[p].pc = "force"
    BY <1>8 DEF GitPushForce, At
  <2>2. CASE UNCHANGED <<gtrack, gforced>>
    BY <1>4, <2>2
  <2>3. CASE ~UNCHANGED <<gtrack, gforced>>
    <3>1. /\ gremote' = [gremote EXCEPT ![b] = RefOf(d, b)]
          /\ gtrack' = [gtrack EXCEPT ![Repo(d)][b] = RefOf(d, b)]
          /\ gforced' = (gforced \/ (b = Target /\ Cur(p).force))
      BY <1>8, <2>3 DEF GitPushForce
    <3>2. b \in Branches
      BY <1>2, <2>1 DEF ProcOK
    <3>3. Tracks
      BY <1>2, <2>1, <3>1, <3>2, NotesRemote
    <3>4. gforced => gforced'
      BY <3>1
    <3> QED
      BY <3>3, <3>4
  <2> QED
    BY <2>2, <2>3
<1>9. CASE UNCHANGED <<gtrack, gforced>>
  BY <1>4, <1>9
<1> HIDE DEF d
<1>10. CASE GitPushSteps(p)
  <2>1. GitFetch(p) \/ GitPull(p) \/ PushTarget(p) \/ UNCHANGED <<gtrack, gforced>>
    BY <1>10 DEF GitPushSteps, CountStash, StashChanges, RecountStash, CheckoutTarget,
                 HasCommitsBetween, MergeSource, AgentResolves, RestoreBranch, StashCleanup
  <2> QED
    BY <1>5, <1>6, <1>7, <1>9, <2>1
<1>11. CASE GitPullSteps(p) \/ GitPRSteps(p)
  <2>1. PullPush(p) \/ PRPush(p) \/ UNCHANGED <<gtrack, gforced>>
    BY <1>11 DEF GitPullSteps, GitPRSteps, PullMerge, GitMergeAbort, CreatePR, GetExistingPRURL,
                 RemoteBranchPushed, GetOpenPR, GetEpicInfo, CreateEpicPR, StoreExternalRef
  <2> QED
    BY <1>7, <1>9, <2>1
<1>12. CASE GitResetSteps(p) \/ JobEnds(p)
  <2>1. GitPushForce(p) \/ UNCHANGED <<gtrack, gforced>>
    BY <1>12 DEF GitResetSteps, JobEnds, CheckAgentLock, ReadBranch, DiscardChanges, ResetToTarget
  <2> QED
    BY <1>8, <1>9, <2>1
<1> QED
  BY <1>10, <1>11, <1>12

\* So the remote-tracking branches lag behind the remote.
LEMMA TrackStays == ASSUME TrackInv, MainGrows, Tracks, gforced => gforced' PROVE TrackInv'
<1>1. CASE gforced'
  BY <1>1 DEF TrackInv
<1>2. CASE ~gforced'
  <2>1. gremote[Target] \subseteq gremote'[Target] /\ \A r \in Dirs : gtrack[r][Target] \subseteq gremote[Target]
    BY <1>2 DEF TrackInv, MainGrows
  <2>2. \A r \in Dirs : gtrack'[r][Target] \subseteq gremote'[Target]
    BY <2>1 DEF Tracks
  <2> QED
    BY <2>2 DEF TrackInv
<1> QED
  BY <1>1, <1>2

\* The invariant of the reports.
ReportInv == EditsInv /\ PlacesInv /\ TrackInv
ReportsTrue ==
  \A p \in GitProcs :
    (Busy(p) /\ gproc'[p].result # gproc[p].result /\ gproc[p].alone /\ ~gforced) => TruthOf(p, gproc'[p].result)

\* Every step keeps it, and reports what is so.
LEMMA ReportKeeps == ReportInv /\ [GitNext]_gitVars => ReportInv' /\ [ReportsTrue]_gitVars
<1> SUFFICES ASSUME ReportInv, [GitNext]_gitVars PROVE ReportInv' /\ [ReportsTrue]_gitVars
  OBVIOUS
<1>1. GitTypeOK /\ ProcInv /\ PlacesInv /\ TrackInv /\ EditsInv
  BY DEF ReportInv, EditsInv, GitInv
<1>2. EditsInv' /\ MainGrows
  BY <1>1, GitKeeps
<1>3. CASE UNCHANGED gitVars
  <2>1. UNCHANGED <<gproc, glayout, gwt, gref, gtrack, gremote, gforced>>
    BY <1>3 DEF gitVars
  <2>2. PlacesInv'
    BY <1>1, <2>1, NobodyMoves
  <2>3. TrackInv'
    BY <1>1, <2>1 DEF TrackInv
  <2> QED
    BY <1>2, <1>3, <2>2, <2>3 DEF ReportInv
<1>4. ASSUME NEW p \in GitProcs,
             GitPushSteps(p) \/ GitPullSteps(p) \/ GitPRSteps(p) \/ GitResetSteps(p) \/ JobEnds(p)
      PROVE  ReportInv' /\ ReportsTrue
  <2>1. TrackInv'
    BY <1>1, <1>2, <1>4, StepsTrack, TrackStays
  <2>2. PlacesInv' /\ Truthful(p)
    BY <1>1, <1>4, PushReports, OthersReport, EndReports
  <2>3. \A q \in GitProcs \ {p} : gproc'[q].result = gproc[q].result
    <3>1. CASE JobEnds(p)
      BY <1>1, <3>1, EndReports
    <3>2. CASE ~JobEnds(p)
      BY <1>1, <1>4, <3>2, StepsAreOwn DEF GitTypeOK
    <3> QED
      BY <3>1, <3>2
  <2>4. ReportsTrue
    BY <2>2, <2>3 DEF ReportsTrue, Truthful
  <2> QED
    BY <1>2, <2>1, <2>2, <2>4 DEF ReportInv
<1>5. ASSUME NEW p \in GitProcs, MayCommand(p), NEW jobs \in Commands, GiveCommand(p, jobs)
      PROVE  ReportInv' /\ ReportsTrue
  <2>1. PlacesInv' /\ ~Busy(p) /\ \A q \in GitProcs \ {p} : gproc'[q].result = gproc[q].result
    BY <1>1, <1>5, CommandReports
  <2>2. ReportsTrue
    BY <2>1 DEF ReportsTrue
  <2>3. TrackInv'
    BY <1>1, <1>5 DEF GiveCommand, TrackInv
  <2> QED
    BY <1>2, <2>1, <2>2, <2>3 DEF ReportInv
<1>6. ASSUME \/ \E d \in Workers : AgentStartsIn(d) \/ AgentLeaves(d) \/ AgentCommitsIn(d) \/ EditsIn(d)
             \/ OthersPush \/ \E b \in Branches : PRCloses(b)
      PROVE  ReportInv' /\ ReportsTrue
  <2>1. PlacesInv' /\ UNCHANGED gproc
    BY <1>1, <1>6, PeopleReport
  <2>2. UNCHANGED <<gtrack, gforced>>
    BY <1>6 DEF AgentStartsIn, AgentLeaves, AgentCommitsIn, EditsIn, OthersPush, PRCloses
  <2>3. TrackInv'
    BY <1>1, <1>2, <2>2, TrackStays DEF Tracks
  <2>4. ReportsTrue
    BY <2>1 DEF ReportsTrue
  <2> QED
    BY <1>2, <2>1, <2>3, <2>4 DEF ReportInv
<1>7. GitNext => ReportInv' /\ ReportsTrue
  BY <1>4, <1>5, <1>6 DEF GitNext
<1> QED
  BY <1>3, <1>7

\* It holds at first: worktrees of one repository are on branches of their own.
LEMMA ReportInitially == GitInit => ReportInv
<1> SUFFICES ASSUME GitInit PROVE ReportInv
  OBVIOUS
<1>1. EditsInv
  BY GitInitially
<1>2. gproc = [p \in GitProcs |-> IdleProc] /\ IdleProc.todo = <<>>
  BY DEF GitInit, IdleProc
<1>3. \A p \in GitProcs : ~Busy(p)
  BY <1>2 DEF Busy
<1>4. TrackInv
  <2>1. gtrack = [r \in Dirs |-> [b \in Branches |-> IF b = Target THEN {} ELSE gremote[b]]]
    BY DEF GitInit
  <2>2. Target \in Branches
    BY DEF Branches
  <2>3. \A r \in Dirs : gtrack[r][Target] = {}
    BY <2>1, <2>2
  <2> QED
    BY <2>3 DEF TrackInv
<1>5. DistinctHeads
  <2> SUFFICES ASSUME NEW x \in Dirs, NEW y \in Dirs, x # y, Repo(x) = Repo(y) PROVE gwt[x].head # gwt[y].head
    BY DEF DistinctHeads
  <2>1. glayout = "shared"
    BY DEF Repo, GitInit
  <2>2. \A d, e \in Dirs \ {Root} : d # e => HomeBranch[d] # HomeBranch[e]
    BY <2>1 DEF GitInit
  <2>3. PICK away \in SUBSET {d \in Workers : glayout = "clones"} : gwt = [d \in Dirs |->
          [head |-> IF d \in away \/ (glayout = "shared" /\ d = Root) THEN Target ELSE HomeBranch[d],
           edits |-> {d} \cap gedited, unmerged |-> FALSE, incoming |-> {}, exposed |-> {}]]
    BY DEF GitInit
  <2>4. away = {}
    BY <2>1, <2>3
  <2>5. \A d \in Dirs : gwt[d].head = IF d = Root THEN Target ELSE HomeBranch[d]
    BY <2>1, <2>3, <2>4
  <2>6. \A d \in Dirs : HomeBranch[d] # Target
    BY GitAssumption
  <2> QED
    BY <2>2, <2>5, <2>6
<1>6. AloneInv /\ CommandsInv
  BY <1>3 DEF AloneInv, CommandsInv
<1> QED
  BY <1>1, <1>4, <1>5, <1>6 DEF ReportInv, PlacesInv

\* What a command reports is so on the remote, when it has its directory to
\* itself: whatever other commands run in the other worktrees of the same
\* repository or push beside it, and whatever agents commit meanwhile.
THEOREM ReportsAreTrue == GitSpec => GitReportsAreTrue
<1>1. ReportInv /\ [GitNext]_gitVars =>
        [\A p \in GitProcs :
           (Busy(p) /\ gproc'[p].result # gproc[p].result /\ gproc[p].alone /\ ~gforced)
             => TruthOf(p, gproc'[p].result)]_gitVars
  BY ReportKeeps DEF ReportsTrue
<1> QED
  BY <1>1, ReportInitially, ReportKeeps, PTL DEF GitSpec, GitReportsAreTrue
=============================================================================

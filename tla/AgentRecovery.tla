--------------------------- MODULE AgentRecovery ----------------------------
(***************************************************************************)
(* One supervised worktree: the agent subprocess claiming and finishing    *)
(* tasks in beads, the lock file that names its process and its task, and  *)
(* RecoverWorktree, which the daemon runs before every spawn and after     *)
(* every exit.  The daemon may crash; its subprocess lives on in its own   *)
(* process group (Setpgid) and the next daemon meets it.                   *)
(*                                                                         *)
(* Every bd command, every access to the lock file and every signal is a   *)
(* step.  Beads (bd) is external: a task has a status and an assignee.     *)
(* AcquireLock is one step here; module AgentLock has its system calls.    *)
(* The other worktrees' agents are "other"; their recovery knows a task by *)
(* its ID from a lock, which may name any task they once had, and, like    *)
(* this one, resets it by its status.                                      *)
(***************************************************************************)
EXTENDS Integers, FiniteSets

CONSTANTS
  Tasks,       \* the tasks the agent may claim
  NoTask,      \* the empty task ID
  MaxCrashes,  \* bound on the daemon's crashes
  EarlyCrash,  \* whether the daemon may crash before the subprocess it has
               \* just spawned holds the lock
  Finals,      \* the statuses an agent may leave its task in
  Others,      \* what everyone else does: "claim", "finish", "approve",
               \* "close"; "reset": recovery of another worktree
  Faults       \* "bd": a bd command of recovery may fail

(* Incarnation i of the daemon spawns its subprocesses one after another   *)
(* with (in the model) PID i.                                              *)
PIDs == 0..MaxCrashes
NoPID == -1

Statuses == {"open", "in_progress", "blocked", "review", "closed"}
People == {"agent", "other", "nobody"}

ASSUME RecoveryConstants ==
  /\ NoTask \notin Tasks
  /\ MaxCrashes \in Nat
  /\ EarlyCrash \in BOOLEAN
  /\ Finals \subseteq Statuses \ {"open", "in_progress"}

VARIABLES
  status, assignee,  \* the task database
  lock,              \* [pid, task], pid = NoPID when there is no lock file
  stage,             \* what each subprocess is doing
  mine,              \* the task each subprocess works on
  daemon,            \* control location of superviseAgent and RecoverWorktree
  crashes,           \* daemon crashes so far = PID of the current child
  exitCode,          \* 0 or 1, as passed to RecoverWorktree
  lockInfo,          \* the lock as RecoverWorktree read it
  pending,           \* the tasks RecoverWorktree still has to reset
  current,           \* the task resetTask is at
  checkpoint,        \* the task of the checkpoint file, NoTask without one
  otherReset,        \* the task another worktree's resetTask is about to open
  seized,            \* history: tasks so taken from a process working on them
  incomplete         \* history: the last recovery left the lock's task as it
                     \* was (exit code 0), or one of its bd commands failed

tasks == <<status, assignee>>
agents == <<stage, mine>>
recovery == <<exitCode, lockInfo, pending, current>>
aside == <<otherReset, seized, incomplete>>
vars == <<status, assignee, lock, stage, mine, daemon, crashes, exitCode,
          lockInfo, pending, current, checkpoint, otherReset, seized, incomplete>>

Stages == {"none", "starting", "locked", "claimed", "working", "finished",
           "exit0", "exit1"}
Live == {"starting", "locked", "claimed", "working", "finished"}
Child == crashes

NoLock == [pid |-> NoPID, task |-> NoTask]

Locations == {"down", "recover", "kill", "unlink", "lockTask", "list",
              "show", "update", "recovered", "wait", "gone"}

Init ==
  /\ status = [t \in Tasks |-> "open"]
  /\ assignee = [t \in Tasks |-> "nobody"]
  /\ lock = NoLock
  /\ stage = [i \in PIDs |-> "none"]
  /\ mine = [i \in PIDs |-> NoTask]
  /\ daemon = "recover"
  /\ crashes = 0
  /\ exitCode = 0
  /\ lockInfo = NoLock
  /\ pending = {}
  /\ current = NoTask
  /\ checkpoint = NoTask
  /\ otherReset = NoTask /\ seized = {}
  /\ incomplete = FALSE

SetStage(i, s) == stage' = [stage EXCEPT ![i] = s]
SetTask(t, s, w) ==
  /\ status' = [status EXCEPT ![t] = s]
  /\ assignee' = [assignee EXCEPT ![t] = w]

-----------------------------------------------------------------------------
(* The agent subprocess.                                                   *)

(* Daemon mode starts with AcquireLock; the lock of a dead process is      *)
(* taken over, a live owner makes the subprocess exit with code 1.         *)
AcquireLock(i) ==
  /\ stage[i] = "starting"
  /\ IF lock.pid # NoPID /\ stage[lock.pid] \in Live
     THEN SetStage(i, "exit1") /\ UNCHANGED lock
     ELSE SetStage(i, "locked") /\ lock' = [pid |-> i, task |-> NoTask]
  /\ UNCHANGED <<tasks, mine, daemon, crashes, recovery, checkpoint, aside>>

(* bd update <id> --claim, atomic, with BD_ACTOR = the agent.              *)
ClaimTask(i, t) ==
  /\ stage[i] = "locked"
  /\ status[t] = "open"
  /\ SetTask(t, "in_progress", "agent")
  /\ SetStage(i, "claimed")
  /\ mine' = [mine EXCEPT ![i] = t]
  /\ seized' = seized \ {t}
  /\ UNCHANGED <<lock, daemon, crashes, recovery, checkpoint, otherReset,
                 incomplete>>

(* runClaim clears a checkpoint that is for another task.                  *)
KeepsCheckpoint(t) == checkpoint
CheckpointAfterClaim(t) == IF checkpoint = t THEN checkpoint ELSE NoTask

(* loom claim: UpdateLockTask writes the task into whatever lock is there, *)
(* and the checkpoint is brought up to date; without a lock it fails.      *)
RecordClaim(i) ==
  /\ stage[i] = "claimed"
  /\ SetStage(i, "working")
  /\ IF lock.pid = NoPID
     THEN UNCHANGED <<lock, checkpoint>>
     ELSE /\ lock' = [lock EXCEPT !.task = mine[i]]
          /\ checkpoint' = CheckpointAfterClaim(mine[i])
  /\ UNCHANGED <<tasks, mine, daemon, crashes, recovery, aside>>

(* The agent hands its task over: review, closed or blocked.               *)
FinishTask(i, s) ==
  /\ stage[i] \in {"claimed", "working"}
  /\ SetTask(mine[i], s, assignee[mine[i]])
  /\ SetStage(i, "finished")
  /\ mine' = [mine EXCEPT ![i] = NoTask]
  /\ seized' = seized \ {mine[i]}
  /\ UNCHANGED <<lock, daemon, crashes, recovery, checkpoint, otherReset,
                 incomplete>>

(* The subprocess exits, at any point; its lock file stays behind.         *)
AgentExits(i, code) ==
  /\ stage[i] \in Live
  /\ SetStage(i, code)
  /\ mine' = [mine EXCEPT ![i] = NoTask]
  /\ seized' = seized \ {mine[i]}
  /\ UNCHANGED <<tasks, lock, daemon, crashes, recovery, checkpoint, otherReset,
                 incomplete>>

-----------------------------------------------------------------------------
(* RecoverWorktree(worktree, agent, exitCode): pre-flight with exit code   *)
(* 0, post-mortem with the subprocess's exit code.                         *)

CheckLock ==
  /\ daemon = "recover"
  /\ lockInfo' = lock
  /\ daemon' = IF lock.pid = NoPID THEN "list"
               ELSE IF stage[lock.pid] \in Live THEN "kill" ELSE "unlink"
  /\ incomplete' = FALSE
  /\ UNCHANGED <<tasks, lock, agents, crashes, exitCode, pending, current,
                 checkpoint, otherReset, seized>>

KillsNothing ==
  /\ daemon = "kill"
  /\ daemon' = "unlink"
  /\ UNCHANGED <<tasks, lock, agents, crashes, recovery, checkpoint, aside>>

(* killProcess: SIGTERM, 5 seconds, SIGKILL; the process is gone.          *)
KillProcess ==
  /\ daemon = "kill"
  /\ SetStage(lockInfo.pid, IF stage[lockInfo.pid] \in Live THEN "exit1"
                            ELSE stage[lockInfo.pid])
  /\ mine' = [mine EXCEPT ![lockInfo.pid] = NoTask]
  /\ seized' = seized \ {mine[lockInfo.pid]}
  /\ daemon' = "unlink"
  /\ UNCHANGED <<tasks, lock, crashes, recovery, checkpoint, otherReset,
                 incomplete>>

ForceReleaseLock ==
  /\ daemon = "unlink"
  /\ lock' = NoLock
  /\ daemon' = "lockTask"
  /\ UNCHANGED <<tasks, agents, crashes, recovery, checkpoint, aside>>

(* On exit code 0 the agent's task status is trusted.                      *)
HandleLockTask ==
  /\ daemon = "lockTask"
  /\ IF lockInfo.task # NoTask /\ exitCode # 0
     THEN pending' = {lockInfo.task} /\ daemon' = "show"
     ELSE pending' = {} /\ daemon' = "list"
  /\ incomplete' = (lockInfo.task # NoTask /\ exitCode = 0)
  /\ UNCHANGED <<tasks, lock, agents, crashes, exitCode, lockInfo, current,
                 checkpoint, otherReset, seized>>

(* bd list --assignee agent --status in_progress, less the lock's task.    *)
NoOrphans == {}
Orphans == {t \in Tasks : /\ status[t] = "in_progress" /\ assignee[t] = "agent"
                          /\ t # lockInfo.task}

(* resetOrphanedAgentTasks; a failed listing resets nothing.               *)
ListOrphans ==
  /\ daemon = "list"
  /\ pending' = Orphans \/ ("bd" \in Faults /\ pending' = {})
  /\ lockInfo' = NoLock
  /\ daemon' = IF pending' = {} THEN "recovered" ELSE "show"
  /\ incomplete' = (incomplete \/ pending' # Orphans)
  /\ UNCHANGED <<tasks, lock, agents, crashes, exitCode, current, checkpoint,
                 otherReset, seized>>

(* Where RecoverWorktree goes when a task has been dealt with.  lockInfo   *)
(* is cleared by ListOrphans, so it tells the two calls of resetTask apart.*)
AfterReset(p) ==
  IF p # {} THEN "show" ELSE IF lockInfo # NoLock THEN "list" ELSE "recovered"

(* resetTask, first command: bd show.  Review and closed are left alone; a *)
(* failed show does not stop the reset.                                    *)
Terminal == {"review", "closed"}

ShowTask(t) ==
  /\ daemon = "show"
  /\ t \in pending
  /\ \/ /\ status[t] \in Terminal
        /\ pending' = pending \ {t}
        /\ daemon' = AfterReset(pending')
        /\ UNCHANGED current
     \/ /\ status[t] \notin Terminal \/ "bd" \in Faults
        /\ pending' = pending \ {t}
        /\ current' = t
        /\ daemon' = "update"
  /\ UNCHANGED <<tasks, lock, agents, crashes, exitCode, lockInfo, checkpoint, aside>>

(* resetTask, second command: bd update --status open --assignee "".       *)
UpdateTask ==
  /\ daemon = "update"
  /\ \/ SetTask(current, "open", "nobody") /\ UNCHANGED incomplete
     \/ "bd" \in Faults /\ UNCHANGED tasks /\ incomplete' = TRUE
  /\ current' = NoTask
  /\ daemon' = AfterReset(pending)
  /\ UNCHANGED <<lock, agents, crashes, exitCode, lockInfo, pending, checkpoint,
                 otherReset, seized>>

-----------------------------------------------------------------------------
(* The rest of superviseAgent's loop, and the daemon's crash and restart.  *)

(* Pre-flight recovery is done.                                            *)
SpawnAgent ==
  /\ daemon = "recovered"
  /\ stage[Child] = "none"
  /\ SetStage(Child, "starting")
  /\ daemon' = "wait"
  /\ UNCHANGED <<tasks, lock, mine, crashes, recovery, checkpoint, aside>>

(* handleAgentCheckpoint: cleared on exit 0, saved for the lock's task on  *)
(* an error; nothing is saved when the lock names no task.                 *)
CheckpointAfter(code) ==
  IF code = 0 THEN NoTask ELSE IF lock.task = NoTask THEN checkpoint ELSE lock.task

(* The branch switch or the spawn fails: handleRestartAfterError comes     *)
(* round to the pre-flight again, or max_retries ends the supervisor.      *)
SpawnFails ==
  /\ daemon = "recovered"
  /\ stage[Child] = "none"
  /\ daemon' \in {"recover", "gone"}
  /\ UNCHANGED <<tasks, lock, agents, crashes, recovery, checkpoint, aside>>

(* waitForAgent and handleAgentCheckpoint, then post-mortem recovery.      *)
WaitForAgent ==
  /\ daemon = "wait"
  /\ stage[Child] \in {"exit0", "exit1"}
  /\ exitCode' = IF stage[Child] = "exit0" THEN 0 ELSE 1
  /\ checkpoint' = CheckpointAfter(exitCode')
  /\ daemon' = "recover"
  /\ UNCHANGED <<tasks, lock, agents, crashes, lockInfo, pending, current, aside>>

(* Post-mortem recovery is done: the loop comes round to the pre-flight.   *)
Restart ==
  /\ daemon = "recovered"
  /\ stage[Child] \in {"exit0", "exit1"}
  /\ SetStage(Child, "none")
  /\ exitCode' = 0
  /\ daemon' = "recover"
  /\ UNCHANGED <<tasks, lock, mine, crashes, lockInfo, pending, current,
                 checkpoint, aside>>

(* shouldRestart says no after a failure: a fatal error, or max_retries is *)
(* exceeded.  Nothing supervises the worktree until another daemon starts. *)
GivesUpAgent ==
  /\ daemon = "recovered"
  /\ stage[Child] = "exit1"
  /\ daemon' = "gone"
  /\ UNCHANGED <<tasks, lock, agents, crashes, recovery, checkpoint, aside>>

(* It crashes, or someone ends it and starts another.                      *)
DaemonCrashes ==
  /\ daemon # "down"
  /\ crashes < MaxCrashes
  /\ EarlyCrash \/ stage[Child] # "starting"
  /\ daemon' = "down"
  /\ UNCHANGED <<tasks, lock, agents, crashes, recovery, checkpoint, aside>>

DaemonStarts ==
  /\ daemon = "down"
  /\ crashes' = crashes + 1
  /\ daemon' = "recover"
  /\ exitCode' = 0 /\ lockInfo' = NoLock /\ pending' = {} /\ current' = NoTask
  /\ UNCHANGED <<tasks, lock, agents, checkpoint, aside>>

-----------------------------------------------------------------------------
(* Everyone else: other agents, reviewers, and the recovery of other       *)
(* worktrees.                                                              *)

OtherActs(t) ==
  /\ \/ /\ "claim" \in Others /\ status[t] = "open"
        /\ SetTask(t, "in_progress", "other")
     \/ /\ "finish" \in Others /\ status[t] = "in_progress" /\ assignee[t] = "other"
        /\ \E s \in {"review", "closed"} : SetTask(t, s, "other")
     \/ /\ "approve" \in Others /\ status[t] = "review"
        /\ SetTask(t, "open", "nobody")
     \/ /\ "close" \in Others /\ status[t] \in {"open", "review"}
        /\ SetTask(t, "closed", assignee[t])
  /\ UNCHANGED <<lock, agents, daemon, crashes, recovery, checkpoint, aside>>

(* Another worktree's resetTask: bd show asks for the status and not for   *)
(* the assignee, and bd update opens the task, whoever has it by then.     *)
OtherShows(t) ==
  /\ "reset" \in Others /\ otherReset = NoTask
  /\ status[t] \notin Terminal \/ "bd" \in Faults
  /\ otherReset' = t
  /\ UNCHANGED <<tasks, lock, agents, daemon, crashes, recovery, checkpoint, seized,
                 incomplete>>

OtherUpdates ==
  /\ otherReset # NoTask
  /\ \/ /\ SetTask(otherReset, "open", "nobody")
        /\ seized' = IF \E i \in PIDs : stage[i] \in Live /\ mine[i] = otherReset
                     THEN seized \union {otherReset} ELSE seized
     \/ "bd" \in Faults /\ UNCHANGED <<tasks, seized>>
  /\ otherReset' = NoTask
  /\ UNCHANGED <<lock, agents, daemon, crashes, recovery, checkpoint,
                 incomplete>>

-----------------------------------------------------------------------------
Agent(i) ==
  \/ AcquireLock(i) \/ RecordClaim(i)
  \/ \E t \in Tasks : ClaimTask(i, t)
  \/ \E s \in Finals : FinishTask(i, s)

Recover ==
  \/ CheckLock \/ KillProcess \/ ForceReleaseLock \/ HandleLockTask
  \/ ListOrphans
  \/ UpdateTask
  \/ \E t \in Tasks : ShowTask(t)

Supervise == SpawnAgent \/ SpawnFails \/ WaitForAgent \/ Restart \/ GivesUpAgent

Next ==
  \/ \E i \in PIDs : Agent(i) \/ \E c \in {"exit0", "exit1"} : AgentExits(i, c)
  \/ Recover
  \/ Supervise
  \/ DaemonCrashes
  \/ DaemonStarts
  \/ \E t \in Tasks : OtherActs(t) \/ OtherShows(t)
  \/ OtherUpdates

Spec == Init /\ [][Next]_vars

(* The supervisor runs until it gives up, a daemon that went down is       *)
(* started again, and every subprocess ends in the end: an agent session   *)
(* is finite, and the watchdog stops a silent one (module Supervisor).  A  *)
(* bd command that is tried again and again does not fail for ever; one    *)
(* that is tried a few times before the supervisor gives up may.           *)
Fairness ==
  /\ WF_vars(Recover) /\ WF_vars(Supervise) /\ WF_vars(DaemonStarts)
  /\ \A i \in PIDs :
        WF_vars(AcquireLock(i)) /\ WF_vars(\E c \in {"exit0", "exit1"} : AgentExits(i, c))
  /\ SF_vars(ListOrphans /\ pending' = Orphans)
  /\ \A t \in Tasks : SF_vars(UpdateTask /\ current = t /\ status'[t] = "open")

FairSpec == Spec /\ Fairness

-----------------------------------------------------------------------------
(* Properties.                                                             *)

(* The type invariant of the worktree.                                     *)
TypeOK ==
  /\ status \in [Tasks -> Statuses] /\ assignee \in [Tasks -> People]
  /\ lock \in [pid : PIDs \union {NoPID}, task : Tasks \union {NoTask}]
  /\ stage \in [PIDs -> Stages] /\ mine \in [PIDs -> Tasks \union {NoTask}]
  /\ daemon \in Locations /\ crashes \in PIDs /\ exitCode \in {0, 1}
  /\ lockInfo \in [pid : PIDs \union {NoPID}, task : Tasks \union {NoTask}]
  /\ pending \subseteq Tasks
  /\ current \in Tasks \union {NoTask} /\ checkpoint \in Tasks \union {NoTask}
  /\ otherReset \in Tasks \union {NoTask}
  /\ seized \subseteq Tasks /\ incomplete \in BOOLEAN

Working(i) == stage[i] \in {"claimed", "working"}
HasLock == Live \ {"starting"}

(* A live agent process owns the task it works on: neither a recovery of   *)
(* its worktree nor an agent left behind by a crashed daemon takes the     *)
(* task away, so nobody else can claim it.  Only the recovery of another   *)
(* worktree, where the task once was, can (seized): resetTask asks for the *)
(* status and not for the assignee.  And at most one agent process is at   *)
(* work in the worktree, whoever spawned it: the next daemon's recovery    *)
(* and the lock see to that.                                               *)
WorkIsOwned ==
  /\ \A i \in PIDs : Working(i) /\ mine[i] \notin seized =>
       status[mine[i]] = "in_progress" /\ assignee[mine[i]] = "agent"
  /\ \A i, j \in PIDs : stage[i] \in HasLock /\ stage[j] \in HasLock => i = j

(* The checkpoint left for the next session is for the task the child has  *)
(* registered (runClaim drops one of another task), whichever exits,       *)
(* crashes and recoveries came before.                                     *)
CheckpointMatches ==
  stage[Child] = "working" => checkpoint \in {NoTask, mine[Child]}

(* A task that the agent claimed does not stay in_progress for ever: it is *)
(* finished, or a later recovery reopens it, also when the agent exits     *)
(* with code 0 in the middle of it and when the daemon crashes.  It stays  *)
(* only when the supervisor gives up (max_retries, a fatal error) and its  *)
(* last recovery was incomplete: a bd command failed, or it trusted the    *)
(* exit code 0 of a pre-flight.  No further recovery comes then.           *)
Mine(t) == status[t] = "in_progress" /\ assignee[t] = "agent"
NoStrandedTask ==
  \A t \in Tasks : Mine(t) ~> (~Mine(t) \/ (daemon = "gone" /\ incomplete))

(* "resets a task to open status, but only if it's still in_progress"      *)
(* (resetTask): recovery changes a task's status only from in_progress.    *)
ResetOnlyInProgress ==
  [][daemon = "update" /\ status[current] # "in_progress"
       => status'[current] = status[current] \/ daemon' = "update"]_vars

(* "This is used for recovery from error states where the owning process   *)
(* is dead" (forceReleaseLock): recovery never removes the lock of a live  *)
(* process.                                                                *)
ReleasesDeadLocksOnly ==
  [][daemon = "unlink" /\ daemon' = "lockTask"
       => lock.pid = NoPID \/ stage[lock.pid] \notin Live]_vars

=============================================================================

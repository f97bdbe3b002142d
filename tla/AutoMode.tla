------------------------------ MODULE AutoMode ------------------------------
(***************************************************************************)
(* The auto mode of loom task, loom plan and loom agent: the loop that     *)
(* starts agent sessions while tasks are available, in its two forms       *)
(* (RunAutoModeLoop with a child process, RunAutoModeTmux with a tmux      *)
(* session that runs loom --daemon-mode), and the single-task mode.        *)
(*                                                                         *)
(* The agent is external: while it runs it may claim a task (loom claim,   *)
(* which records it in the lock file), signal completion (loom complete),  *)
(* write a line longer than the reader accepts, and exit with or without   *)
(* an error.  Reads and writes of the lock file do not fail; module        *)
(* AgentLock has their system calls.                                       *)
(***************************************************************************)
EXTENDS Naturals

CONSTANTS
  AmConfigs,     \* the ways the command may be started: see AmConfig
  MaxTasks,      \* --max-tasks
  MaxSupply,     \* tasks that become available during a behaviour
  MaxCheckFaults \* task checks and tmux commands that fail

AmConfig == [mode : {"loop", "tmux", "single"}, kind : {"task", "plan", "agent"},
             backend : {"claude", "codex", "opencode", "external"},
             prompt : {"small", "overPipe", "overArg"}, trusted : BOOLEAN,
             lockHere : BOOLEAN]   \* the lock is in the worktree, not in a workspace above it

ASSUME AutoModeConstants ==
  /\ AmConfigs \subseteq AmConfig
  /\ {MaxTasks, MaxSupply, MaxCheckFaults} \subseteq Nat

VARIABLES
  cfg,          \* how the command was started
  amAt,         \* control location of the command
  amChild,      \* the agent process, or the pane of the tmux session
  amResult,     \* whether the last invocation returned an error
  amLock,       \* the lock file: absent, or with or without a task ID
  amSignal,     \* whether the completion signal file exists
  amShutdown,   \* the shutdown channel is closed
  amWork,       \* tasks the check would find
  amSupply,     \* tasks that may still become available
  amFaults,     \* faults so far
  idlePast,     \* the idle timeout has passed since IdleStartTime
  tasksCompleted, consecutiveErrors, consecutiveNoProgress,
  claimedNow,   \* history: the current session has claimed a task
  amClaims,     \* history: sessions that claimed a task
  futile        \* history: sessions ended since one was last counted

countVars == <<tasksCompleted, consecutiveErrors, consecutiveNoProgress>>
amHistory == <<claimedNow, amClaims, futile>>
amFiles == <<amLock, amSignal>>
amEnv == <<amWork, amSupply, amFaults, amShutdown>>
amVars == <<cfg, amAt, amChild, amResult, amFiles, amEnv, idlePast, countVars, amHistory>>

FutileCap == 10   \* futile saturates here

AmInit ==
  /\ cfg \in AmConfigs
  /\ amAt = "start"
  /\ amChild = "none"
  /\ amResult = "ok"
  /\ amLock = "absent"
  /\ amSignal \in BOOLEAN         \* a session of an earlier run may have left one
  /\ amShutdown = FALSE
  /\ amWork = 0
  /\ amSupply = MaxSupply
  /\ amFaults = 0
  /\ idlePast = FALSE
  /\ tasksCompleted = 0 /\ consecutiveErrors = 0 /\ consecutiveNoProgress = 0
  /\ claimedNow = FALSE /\ amClaims = 0 /\ futile = 0

-----------------------------------------------------------------------------
\* How a backend is invoked: how it gets the prompt, and whether a guard
\* passes the shutdown on to it.

ByArgument == [prompt |-> "arg", guarded |-> FALSE]
ThroughPipe == [prompt |-> "pipe", guarded |-> FALSE]
Guarded == [prompt |-> "pipe", guarded |-> TRUE]

ClaudeInteractive == ByArgument
CodexInteractive == ByArgument        \* with a terminal and without
OpenCodeInteractive == ByArgument
ExternalInteractive == ThroughPipe
ClaudeNonInteractive == Guarded
CodexNonInteractive == Guarded
OpenCodeNonInteractive == Guarded
ExternalNonInteractive == Guarded

InvokeAgent ==
  CASE cfg.backend = "claude" -> ClaudeInteractive
    [] cfg.backend = "codex" -> CodexInteractive
    [] cfg.backend = "opencode" -> OpenCodeInteractive
    [] OTHER -> ExternalInteractive
InvokeAgentNonInteractive ==
  CASE cfg.backend = "claude" -> ClaudeNonInteractive
    [] cfg.backend = "codex" -> CodexNonInteractive
    [] cfg.backend = "opencode" -> OpenCodeNonInteractive
    [] OTHER -> ExternalNonInteractive
Invocation == IF cfg.mode = "loop" THEN InvokeAgentNonInteractive ELSE InvokeAgent

\* The prompt is written to the pipe before anything reads it: one that is
\* larger than the pipe's buffer is never written to the end.
NeverWritten == Invocation.prompt = "pipe" /\ cfg.prompt # "small"
ArgumentTooLong == Invocation.prompt = "arg" /\ cfg.prompt = "overArg"

-----------------------------------------------------------------------------
\* Ends of the command.

ExitWith(lock) == amAt' = "exited" /\ amLock' = lock
\* Mutant: the session is left to itself.
LeavesSession == UNCHANGED amChild
CleanupTmuxSession == amChild' = "none"

\* The loop ends: tmux mode kills the session, the others release the lock.
ExitLoop ==
  IF cfg.mode = "tmux"
  THEN CleanupTmuxSession /\ ExitWith(amLock)
  ELSE UNCHANGED amChild /\ ExitWith("absent")

\* os.Exit skips the deferred ReleaseLock.
OsExit == ExitWith(amLock) /\ UNCHANGED amChild

-----------------------------------------------------------------------------
\* Starting and looking for tasks.

\* runTask, runPlan, runAgent: in tmux mode the session takes the lock.
RunCommand ==
  /\ amAt = "start"
  /\ \/ /\ amAt' = "top"
        /\ amLock' = IF cfg.mode = "tmux" THEN "absent" ELSE "empty"
     \/ cfg.mode # "tmux" /\ ExitWith(amLock)        \* locked by another agent
  /\ UNCHANGED <<cfg, amChild, amResult, amSignal, amEnv, idlePast, countVars, amHistory>>

StopAtTop ==
  /\ amAt = "top" /\ cfg.mode # "single"
  /\ amShutdown \/ (MaxTasks > 0 /\ tasksCompleted >= MaxTasks)
  /\ ExitLoop
  /\ UNCHANGED <<cfg, amResult, amSignal, amEnv, idlePast, countVars, amHistory>>

Checking ==
  /\ amAt = "top"
  /\ cfg.mode = "single" \/ (~amShutdown /\ (MaxTasks = 0 \/ tasksCompleted < MaxTasks))

CheckFails ==
  /\ Checking
  /\ amFaults < MaxCheckFaults
  /\ amFaults' = amFaults + 1
  /\ CASE cfg.mode = "loop" -> amAt' = "pause" /\ UNCHANGED <<amLock, amChild>>
       [] cfg.mode = "tmux" -> amAt' = "nap" /\ UNCHANGED <<amLock, amChild>>
       [] OTHER -> OsExit
  /\ UNCHANGED <<cfg, amResult, amSignal, amWork, amSupply, amShutdown, idlePast,
                 countVars, amHistory>>

NoTasks ==
  /\ Checking
  /\ amWork = 0
  /\ IF idlePast \/ cfg.mode = "single"
     THEN ExitLoop
     ELSE amAt' = "pause" /\ UNCHANGED <<amLock, amChild>>
  /\ UNCHANGED <<cfg, amResult, amSignal, amEnv, idlePast, countVars, amHistory>>

\* Mutant: the task of the last session stays in the lock.
KeepsLockTaskID == amLock
ClearLockTaskID == IF amLock = "task" THEN "empty" ELSE amLock

\* Tasks are available: the idle timer restarts, and the lock is made to show
\* no task (in tmux mode by removing it, whoever's it is, from the worktree).
TasksFound ==
  /\ Checking
  /\ amWork > 0
  /\ amAt' = "invoke"
  /\ amLock' = IF cfg.mode # "tmux" THEN ClearLockTaskID
               ELSE IF cfg.lockHere THEN "absent" ELSE amLock
  /\ idlePast' = FALSE
  /\ claimedNow' = FALSE
  /\ UNCHANGED <<cfg, amChild, amResult, amSignal, amEnv, countVars, amClaims, futile>>

\* interruptibleSleep; a nap is not interruptible.
Sleep ==
  /\ amAt \in {"pause", "nap"}
  /\ IF amShutdown /\ amAt = "pause"
     THEN ExitLoop
     ELSE amAt' = "top" /\ UNCHANGED <<amLock, amChild>>
  /\ UNCHANGED <<cfg, amResult, amSignal, amEnv, idlePast, countVars, amHistory>>

-----------------------------------------------------------------------------
\* A session as a child process.

InvocationReturns(r) == amAt' = "ended" /\ amResult' = r

StartAgent ==
  /\ amAt = "invoke" /\ cfg.mode # "tmux"
  /\ IF NeverWritten THEN amAt' = "blocked" /\ UNCHANGED <<amResult, amChild>>
     ELSE \/ InvocationReturns("err") /\ UNCHANGED amChild       \* the command does not start
          \/ /\ ~ArgumentTooLong
             /\ amAt' = "wait" /\ amChild' = "running" /\ UNCHANGED amResult
  /\ UNCHANGED <<cfg, amFiles, amEnv, idlePast, countVars, amHistory>>

\* cmd.Wait returns after the child has exited, or was terminated by the guard.
AgentReturns(r) ==
  /\ amAt = "wait"
  /\ amChild = "running" \/ (amChild = "stuck" /\ amShutdown /\ r = "err")
  /\ InvocationReturns(r)
  /\ amChild' = "none"
  /\ UNCHANGED <<cfg, amFiles, amEnv, idlePast, countVars, amHistory>>

\* The child writes a line longer than the scanner's limit: nobody reads its
\* output any more and it blocks.
LineTooLong ==
  /\ amAt = "wait" /\ Invocation.guarded
  /\ amChild = "running"
  /\ amChild' = "stuck"
  /\ UNCHANGED <<cfg, amAt, amResult, amFiles, amEnv, idlePast, countVars, amHistory>>

-----------------------------------------------------------------------------
\* A session in tmux.

StartTmuxSession ==
  /\ amAt = "invoke" /\ cfg.mode = "tmux"
  /\ \/ /\ amFaults < MaxCheckFaults                 \* tmux new-session fails
        /\ amFaults' = amFaults + 1
        /\ amAt' = "nap" /\ amChild' = "none"
     \/ amAt' = "stream" /\ amChild' = "starting" /\ UNCHANGED amFaults
  /\ UNCHANGED <<cfg, amResult, amFiles, amWork, amSupply, amShutdown, idlePast,
                 countVars, amHistory>>

PaneEnds == amChild' \in {"none", "dead"}   \* tmux may keep the session of a dead pane

\* loom --daemon-mode in the session: it takes the lock and invokes the agent.
\* Without --prompt, which startTmuxSession does not pass on, loom agent fails.
DaemonMode ==
  /\ amChild = "starting"
  /\ \/ PaneEnds /\ UNCHANGED amLock
     \/ /\ cfg.kind # "agent"
        /\ amLock' = "empty"
        /\ IF NeverWritten THEN amChild' = "stuck"
           ELSE PaneEnds \/ (~ArgumentTooLong /\ amChild' = "running")
  /\ UNCHANGED <<cfg, amAt, amResult, amSignal, amEnv, idlePast, countVars, amHistory>>

SessionExits ==
  /\ cfg.mode = "tmux" /\ amChild = "running"
  /\ PaneEnds
  /\ UNCHANGED <<cfg, amAt, amResult, amFiles, amEnv, idlePast, countVars, amHistory>>

StreamEnds(cleanup) ==
  /\ amAt' = "ended"
  /\ IF cleanup THEN CleanupTmuxSession ELSE UNCHANGED amChild
  /\ UNCHANGED <<cfg, amResult, amLock, amEnv, idlePast, countVars, amHistory>>

\* The tick of streamUntilExit: an untrusted signal directory hides the other
\* two conditions.
StreamTick ==
  /\ amAt = "stream"
  /\ IF amSignal
     THEN /\ cfg.trusted
          /\ amSignal' = FALSE
          /\ amAt' = "settle"
          /\ UNCHANGED <<cfg, amChild, amResult, amLock, amEnv, idlePast, countVars, amHistory>>
     ELSE /\ amChild \in {"none", "dead"}
          /\ StreamEnds(amChild = "dead")
          /\ UNCHANGED amSignal

StreamShutdown ==
  /\ amAt = "stream" /\ amShutdown
  /\ StreamEnds(FALSE)
  /\ UNCHANGED amSignal

\* The output has settled, the wait is over, or shutdown was requested.
Settled ==
  /\ amAt = "settle"
  /\ StreamEnds(TRUE)
  /\ UNCHANGED amSignal

\* Enter attaches the terminal to the session until the user detaches.
AttachKey ==
  /\ amAt = "stream"
  /\ amAt' = "attached"
  /\ UNCHANGED <<cfg, amChild, amResult, amFiles, amEnv, idlePast, countVars, amHistory>>
AttachReturns ==
  /\ amAt = "attached"
  /\ \/ amChild \in {"none", "dead"} /\ StreamEnds(TRUE) /\ UNCHANGED amSignal
     \/ /\ amAt' = "stream"
        /\ UNCHANGED <<cfg, amChild, amResult, amFiles, amEnv, idlePast, countVars, amHistory>>

-----------------------------------------------------------------------------
\* The session is over.

AgentClaimedTask == amLock = "task"

CountTask ==
  /\ tasksCompleted' = tasksCompleted + 1
  /\ consecutiveNoProgress' = 0
  /\ futile' = 0

Futile == futile' = IF futile = FutileCap THEN FutileCap ELSE futile + 1

CountNoProgress ==
  /\ consecutiveNoProgress' = consecutiveNoProgress + 1
  /\ UNCHANGED tasksCompleted
  /\ Futile
  /\ IF consecutiveNoProgress + 1 >= 3
     THEN ExitLoop ELSE amAt' = "pause" /\ UNCHANGED <<amLock, amChild>>

\* Mutant: an error also forgets the sessions without progress.
ErrorForgetsNoProgress ==
  /\ consecutiveErrors' = consecutiveErrors + 1
  /\ consecutiveNoProgress' = 0
  /\ UNCHANGED tasksCompleted
  /\ Futile
  /\ IF consecutiveErrors + 1 >= 3
     THEN ExitLoop ELSE amAt' = "pause" /\ UNCHANGED <<amLock, amChild>>

CountError ==
  /\ consecutiveErrors' = consecutiveErrors + 1
  /\ UNCHANGED <<tasksCompleted, consecutiveNoProgress>>
  /\ Futile
  /\ IF consecutiveErrors + 1 >= 3
     THEN ExitLoop ELSE amAt' = "pause" /\ UNCHANGED <<amLock, amChild>>

LoopSessionEnded ==
  /\ amAt = "ended" /\ cfg.mode = "loop"
  /\ IF amResult = "err" THEN CountError
     ELSE /\ consecutiveErrors' = 0
          /\ IF AgentClaimedTask
             THEN CountTask /\ amAt' = "pause" /\ UNCHANGED <<amLock, amChild>>
             ELSE CountNoProgress
  /\ amResult' = "ok"
  /\ UNCHANGED <<cfg, amSignal, amEnv, idlePast, claimedNow, amClaims>>

TmuxSessionEnded ==
  /\ amAt = "ended" /\ cfg.mode = "tmux"
  /\ IF amShutdown THEN ExitLoop /\ UNCHANGED <<tasksCompleted, consecutiveNoProgress, futile>>
     ELSE IF AgentClaimedTask
     THEN CountTask /\ amAt' = "nap" /\ UNCHANGED <<amLock, amChild>>
     ELSE CountNoProgress
  /\ UNCHANGED <<cfg, amResult, amSignal, amEnv, idlePast, consecutiveErrors, claimedNow,
                 amClaims>>

SingleEnded ==
  /\ amAt = "ended" /\ cfg.mode = "single"
  /\ IF amResult = "err" THEN OsExit ELSE ExitLoop
  /\ UNCHANGED <<cfg, amResult, amSignal, amEnv, idlePast, countVars, amHistory>>

-----------------------------------------------------------------------------
\* The agent and the world.

\* loom claim: bd has given it the task; recording it in the lock may fail.
AgentClaims ==
  /\ amChild = "running" /\ amWork > 0
  /\ amWork' = amWork - 1
  /\ amLock' \in {"task", amLock}
  /\ claimedNow' = TRUE
  /\ amClaims' = IF claimedNow THEN amClaims ELSE amClaims + 1
  /\ UNCHANGED <<cfg, amAt, amChild, amResult, amSignal, amSupply, amFaults, amShutdown,
                 idlePast, countVars, futile>>

\* loom complete writes the signal file.
RunComplete ==
  /\ amChild = "running"
  /\ ~amSignal
  /\ amSignal' = TRUE
  /\ UNCHANGED <<cfg, amAt, amChild, amResult, amLock, amEnv, idlePast, countVars, amHistory>>

TaskAppears ==
  /\ amSupply > 0
  /\ amSupply' = amSupply - 1
  /\ amWork' = amWork + 1
  /\ UNCHANGED <<cfg, amAt, amChild, amResult, amFiles, amFaults, amShutdown, idlePast,
                 countVars, amHistory>>

IdleTimeoutPasses ==
  /\ ~idlePast /\ amAt # "exited"
  /\ idlePast' = TRUE
  /\ UNCHANGED <<cfg, amAt, amChild, amResult, amFiles, amEnv, countVars, amHistory>>

\* SetupSignalHandler: auto mode only.
ShutdownSignal ==
  /\ cfg.mode # "single" /\ amAt \notin {"start", "exited"}
  /\ ~amShutdown
  /\ amShutdown' = TRUE
  /\ UNCHANGED <<cfg, amAt, amChild, amResult, amFiles, amWork, amSupply, amFaults, idlePast,
                 countVars, amHistory>>

-----------------------------------------------------------------------------
CommandSteps ==
  \/ RunCommand \/ StopAtTop \/ CheckFails \/ NoTasks \/ TasksFound \/ Sleep
  \/ StartAgent \/ StartTmuxSession \/ StreamTick \/ StreamShutdown \/ Settled
  \/ LoopSessionEnded \/ TmuxSessionEnded \/ SingleEnded

AmNext ==
  \/ CommandSteps
  \/ \E r \in {"ok", "err"} : AgentReturns(r)
  \/ LineTooLong \/ DaemonMode \/ SessionExits
  \/ AttachKey \/ AttachReturns
  \/ AgentClaims \/ RunComplete \/ TaskAppears \/ IdleTimeoutPasses \/ ShutdownSignal

\* The command runs on; an agent that got SIGTERM exits.
AmFairness ==
  /\ WF_amVars(CommandSteps)
  /\ WF_amVars(amShutdown /\ AgentReturns("err"))
AmSpec == AmInit /\ [][AmNext]_amVars /\ AmFairness

-----------------------------------------------------------------------------
AmTypeOK ==
  /\ cfg \in AmConfigs
  /\ amAt \in {"start", "top", "pause", "nap", "invoke", "blocked", "wait", "stream",
               "settle", "attached", "ended", "exited"}
  /\ amChild \in {"none", "starting", "running", "stuck", "dead"}
  /\ amResult \in {"ok", "err"}
  /\ amLock \in {"absent", "empty", "task"}
  /\ {amSignal, amShutdown, idlePast, claimedNow} \subseteq BOOLEAN
  /\ tasksCompleted \in Nat /\ amClaims \in 0..MaxSupply
  /\ consecutiveErrors \in 0..3 /\ consecutiveNoProgress \in 0..3
  /\ futile \in 0..FutileCap

(* Whatever mix of errors and fruitless sessions an agent produces while   *)
(* tasks are available, auto mode gives up: neither counter of automode.go *)
(* may be undone by the other, so at most nine sessions in a row end       *)
(* without a task being counted.                                           *)
FutileSessionsAreBounded == futile <= 9

(* Every task auto mode reports as completed was claimed by some session   *)
(* of its own: the task ID a session leaves in the lock file is not        *)
(* counted again after a later session that claimed nothing.  (Not so for  *)
(* a tmux session in a repository of a workspace: the lock is in the       *)
(* workspace, the loop removes it from the repository, and a session that  *)
(* ends before it has locked leaves the old task ID to be counted.)        *)
CountedWorkWasClaimed == cfg.lockHere => tasksCompleted <= amClaims

(* After a shutdown signal auto mode exits and leaves no agent session     *)
(* running, wherever the signal finds it; unless it waits for the user who *)
(* is attached to the session, or hangs writing a prompt that is larger    *)
(* than the pipe's buffer.                                                 *)
StopsCleanly ==
  amShutdown ~> \/ amAt = "exited" /\ amChild = "none"
                \/ amAt \in {"attached", "blocked"}
=============================================================================

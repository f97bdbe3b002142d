----------------------------- MODULE Supervisor -----------------------------
(***************************************************************************)
(* The loom daemon: one superviseAgent goroutine per configured agent, the *)
(* ConcurrencyTracker they share, the EpicAssigner they share, the branch  *)
(* checked out in each worktree, the agent subprocesses, and the two       *)
(* goroutines that may stop a subprocess (Daemon.Stop and the              *)
(* healthChecker watchdog).                                                *)
(*                                                                         *)
(* A goroutine is a control location; a step runs from one access to       *)
(* shared state (a mutex-protected section, a channel, a git or bd         *)
(* command, a signal) to the next.  What agents do to tasks and to the     *)
(* lock file is the subject of module AgentRecovery; here it appears as    *)
(* the class of an exit and as the changing set of epics with ready tasks. *)
(***************************************************************************)
EXTENDS Integers, FiniteSets

CONSTANTS
  NumAgents,         \* len(d.agents); agents are numbered in d.agents order
  Roles,             \* the role names
  RoleOf,            \* agent -> role
  Limit,             \* role -> max_concurrency, 0 = unlimited
  Epics,             \* the epics that can be open
  Rank,              \* epic -> place in the (priority, ID) order
  NoEpic,            \* the empty epic ID; as a branch: the agent-name branch
  MaxRetries,        \* restart_policy.max_retries
  NumFallbacks,      \* len(FallbackBackends)
  RateLimitNoCount,  \* restart_policy.rate_limit_no_count
  ExitClasses,       \* how a subprocess may exit
  Faults,            \* which commands may fail: "git", "spawn", "bd"
  Callers,           \* "Stop": someone stops the daemon; "health": the
                     \* watchdog is on (output_timeout > 0)
  MaxRateRetries     \* bound of the model on consecutive rate-limited exits

Agents == 1..NumAgents

(* agenterr.ErrorClass as the restart policy tells the classes apart.      *)
(* "ok" is lastError = nil, "Counted" any class without a rule of its own. *)
Classes == {"ok", "NoWork", "RateLimited", "ModelNotFound", "Fatal", "Counted"}

ASSUME SupervisorConstants ==
  /\ NumAgents \in Nat
  /\ RoleOf \in [Agents -> Roles]
  /\ Limit \in [Roles -> Nat]
  /\ NoEpic \notin Epics
  /\ Rank \in [Epics -> Nat]
  /\ \A e, f \in Epics : Rank[e] = Rank[f] => e = f
  /\ MaxRetries \in Nat
  /\ NumFallbacks \in Nat
  /\ RateLimitNoCount \in BOOLEAN
  /\ ExitClasses \subseteq Classes
  /\ Callers \subseteq {"Stop", "health"}
  /\ MaxRateRetries \in Nat

VARIABLES
  shutdown,      \* d.shutdown is closed
  closed,        \* ConcurrencyTracker.closed
  counts,        \* ConcurrencyTracker.counts
  assignments,   \* EpicAssigner.assignments (NoEpic: no entry)
  ready,         \* the open epics that have ready tasks, in beads
  branch,        \* the branch checked out in each worktree
  pc,            \* control location of each superviseAgent goroutine
  epicID,        \* AgentProcess.assignedEpicID
  proc,          \* "none" (pid = 0), "running", or the class it exited with
  signal,        \* the strongest signal sent to the subprocess
  lastError,     \* AgentProcess.lastError, "ok" for nil
  restartCount,  \* AgentProcess.restartCount
  rateRetryCount,\* AgentProcess.rateRetryCount
  backendIdx,    \* AgentProcess.currentBackendIdx
  stopper        \* the goroutines that call stopAgent: Stop and healthChecker

tracker == <<counts, closed>>
policy == <<lastError, restartCount, rateRetryCount, backendIdx>>
epicVars == <<assignments, epicID, branch>>
process == <<proc, signal>>
vars == <<shutdown, closed, counts, assignments, ready, branch, pc, epicID,
          proc, signal, lastError, restartCount, rateRetryCount, backendIdx,
          stopper>>

Locations ==
  {"top", "acquire", "blocked", "assign", "ensureBranch", "spawn", "wait",
   "releaseEpic", "releaseSlot", "transition", "reassign", "ownBranch",
   "newBranch", "afterExit", "decide", "backoff", "fail", "retry",
   "retryWait", "exit", "done"}

EpicOrNone == Epics \union {NoEpic}

(* Who may be in the middle of a stopAgent call, and where: the agent, and *)
(* whether the pid captured at the start is still that agent's process.    *)
Stoppers == {"Stop", "health"}
StopperState ==
  [at : {"idle", "close", "next", "wait", "done"},
   agent : 1..(NumAgents + 1), current : BOOLEAN]
  \union [at : {"poll"}, agent : Agents, current : BOOLEAN]

Init ==
  /\ shutdown = FALSE
  /\ closed = FALSE
  /\ counts = [r \in Roles |-> 0]
  /\ assignments = [a \in Agents |-> NoEpic]
  /\ ready \in SUBSET Epics
  /\ branch = [a \in Agents |-> NoEpic]       \* resetWorktreeBranches
  /\ pc = [a \in Agents |-> "top"]
  /\ epicID = [a \in Agents |-> NoEpic]
  /\ proc = [a \in Agents |-> "none"]
  /\ signal = [a \in Agents |-> "none"]
  /\ lastError = [a \in Agents |-> "ok"]
  /\ restartCount = [a \in Agents |-> 0]
  /\ rateRetryCount = [a \in Agents |-> 0]
  /\ backendIdx = [a \in Agents |-> 0]
  /\ stopper = [s \in Stoppers |->
                  [at |-> "idle", agent |-> 1, current |-> FALSE]]

-----------------------------------------------------------------------------
(* Helpers.                                                                *)

Goto(a, l) == pc' = [pc EXCEPT ![a] = l]

WakesNobody(p) == p

(* cond.Broadcast: every goroutine blocked in Acquire rechecks.            *)
Broadcast(p) == [b \in Agents |-> IF p[b] = "blocked" THEN "acquire" ELSE p[b]]

(* ConcurrencyTracker.Release(role), after which the caller goes to l.     *)
Release(a, l) ==
  LET r == RoleOf[a] IN
  /\ closed' = closed
  /\ \/ /\ counts[r] <= 0
        /\ counts' = [counts EXCEPT ![r] = 0]
        /\ Goto(a, l)
     \/ /\ counts[r] > 0
        /\ counts' = [counts EXCEPT ![r] = @ - 1]
        /\ pc' = Broadcast([pc EXCEPT ![a] = l])

Assigned == {assignments[b] : b \in Agents} \ {NoEpic}

(* The epics AssignWorktree may consider: a failed bd query drops some.    *)
Candidates ==
  LET all == ready \ Assigned
  IN  IF "bd" \in Faults THEN SUBSET all ELSE {all}

(* The first candidate in the sort order (Rank has no ties), or none.      *)
FirstEpic(c) ==
  IF c = {} THEN {NoEpic} ELSE {e \in c : \A f \in c : Rank[e] <= Rank[f]}

(* What AssignWorktree(a) may return: an existing assignment is kept.      *)
AssignWorktree(a) ==
  IF assignments[a] # NoEpic THEN {assignments[a]}
  ELSE UNION {FirstEpic(c) : c \in Candidates}

(* git refuses to check out a branch that another worktree has checked     *)
(* out; the agent-name branches are never shared.                          *)
CheckedOutElsewhere(a, target) ==
  target # NoEpic /\ \E b \in Agents \ {a} : branch[b] = target

(* EnsureWorktreeBranch succeeds, or fails leaving the branch as it was.   *)
BranchSwitched(a, target) ==
  /\ branch[a] = target \/ ~CheckedOutElsewhere(a, target)
  /\ branch' = [branch EXCEPT ![a] = target]

BranchFailed(a, target) ==
  /\ \/ branch[a] # target /\ CheckedOutElsewhere(a, target)
     \/ "git" \in Faults
  /\ UNCHANGED branch

-----------------------------------------------------------------------------
(* superviseAgent, top of the loop to the running subprocess.              *)

CheckShutdown(a) ==
  /\ pc[a] = "top"
  /\ Goto(a, IF shutdown THEN "exit" ELSE "acquire")
  /\ UNCHANGED <<shutdown, tracker, epicVars, ready, process, policy, stopper>>

(* Acquire waits while the role is at its limit; 0 means no limit.         *)
AtLimitOffByOne(r) == Limit[r] # 0 /\ counts[r] > Limit[r]
AtLimit(r) == Limit[r] # 0 /\ counts[r] >= Limit[r]

Acquire(a) ==
  LET r == RoleOf[a] IN
  /\ pc[a] = "acquire"
  /\ \/ closed /\ Goto(a, "exit") /\ UNCHANGED counts
     \/ /\ ~closed /\ AtLimit(r)
        /\ Goto(a, "blocked") /\ UNCHANGED counts
     \/ /\ ~closed /\ ~AtLimit(r)
        /\ counts' = [counts EXCEPT ![r] = @ + 1]
        /\ Goto(a, "assign")
  /\ UNCHANGED <<shutdown, closed, epicVars, ready, process, policy, stopper>>

(* Pre-flight recovery (module AgentRecovery) and AssignWorktree.          *)
AssignEpic(a) ==
  /\ pc[a] = "assign"
  /\ \E e \in AssignWorktree(a) :
        /\ assignments' = [assignments EXCEPT ![a] = e]
        /\ epicID' = [epicID EXCEPT ![a] = e]
  /\ Goto(a, "ensureBranch")
  /\ UNCHANGED <<shutdown, tracker, branch, ready, process, policy, stopper>>

IgnoresBranchFailure(a) ==
  /\ pc[a] = "ensureBranch"
  /\ BranchSwitched(a, epicID[a]) \/ BranchFailed(a, epicID[a])
  /\ Goto(a, "spawn")
  /\ UNCHANGED <<shutdown, tracker, assignments, epicID, ready, process,
                 policy, stopper>>

EnsureBranch(a) ==
  /\ pc[a] = "ensureBranch"
  /\ \/ BranchSwitched(a, epicID[a]) /\ Goto(a, "spawn")
     \/ BranchFailed(a, epicID[a]) /\ Goto(a, "fail")
  /\ UNCHANGED <<shutdown, tracker, assignments, epicID, ready, process,
                 policy, stopper>>

SpawnAgent(a) ==
  /\ pc[a] = "spawn"
  /\ \/ /\ proc' = [proc EXCEPT ![a] = "running"]
        /\ signal' = [signal EXCEPT ![a] = "none"]
        /\ Goto(a, "wait")
     \/ "spawn" \in Faults /\ Goto(a, "fail") /\ UNCHANGED process
  /\ UNCHANGED <<shutdown, tracker, epicVars, ready, policy, stopper>>

KeepsSlotOnFailure(a) ==
  /\ pc[a] = "fail"
  /\ Goto(a, "retry")
  /\ UNCHANGED <<shutdown, tracker, epicVars, ready, process, policy, stopper>>

(* Branch or spawn failure: give the slot back, then                       *)
(* handleRestartAfterError.  The epic assignment is kept.                  *)
ReleaseAfterFailure(a) ==
  /\ pc[a] = "fail"
  /\ Release(a, "retry")
  /\ UNCHANGED <<shutdown, epicVars, ready, process, policy, stopper>>

HandleRestartAfterError(a) ==
  /\ pc[a] = "retry"
  /\ restartCount' = [restartCount EXCEPT ![a] = @ + 1]
  /\ Goto(a, IF restartCount[a] + 1 > MaxRetries THEN "exit" ELSE "retryWait")
  /\ UNCHANGED <<shutdown, tracker, epicVars, ready, process, lastError,
                 rateRetryCount, backendIdx, stopper>>

(* Either backoff sleep, interruptible by shutdown.                        *)
BackoffSleep(a) ==
  /\ pc[a] \in {"retryWait", "backoff"}
  /\ Goto(a, "top") \/ (shutdown /\ Goto(a, "exit"))
  /\ UNCHANGED <<shutdown, tracker, epicVars, ready, process, policy, stopper>>

-----------------------------------------------------------------------------
(* superviseAgent, from the subprocess's exit to the restart decision.     *)

(* waitForAgent, classifyAgentExit, checkpoint and post-mortem recovery.   *)
WaitForAgent(a) ==
  /\ pc[a] = "wait"
  /\ proc[a] \in Classes
  /\ lastError' = [lastError EXCEPT ![a] = proc[a]]
  /\ proc' = [proc EXCEPT ![a] = "none"]
  /\ signal' = [signal EXCEPT ![a] = "none"]
  /\ stopper' = [s \in Stoppers |->
                   IF stopper[s].agent = a
                   THEN [stopper[s] EXCEPT !.current = FALSE] ELSE stopper[s]]
  /\ Goto(a, "releaseEpic")
  /\ UNCHANGED <<shutdown, tracker, epicVars, ready, restartCount,
                 rateRetryCount, backendIdx>>

ReleaseWorktree(a) ==
  /\ pc[a] = "releaseEpic"
  /\ assignments' = [assignments EXCEPT ![a] = NoEpic]
  /\ Goto(a, "releaseSlot")
  /\ UNCHANGED <<shutdown, tracker, epicID, branch, ready, process, policy,
                 stopper>>

ReleaseSlot(a) ==
  /\ pc[a] = "releaseSlot"
  /\ Release(a, "transition")
  /\ UNCHANGED <<shutdown, epicVars, ready, process, policy, stopper>>

(* handleEpicTransition: is the epic exhausted?  A failed query stays.     *)
CheckEpicExhausted(a) ==
  /\ pc[a] = "transition"
  /\ \/ /\ \/ epicID[a] = NoEpic
           \/ epicID[a] \in ready
           \/ "bd" \in Faults
        /\ Goto(a, "afterExit") /\ UNCHANGED assignments
     \/ /\ epicID[a] # NoEpic /\ epicID[a] \notin ready
        /\ assignments' = [assignments EXCEPT ![a] = NoEpic]
        /\ Goto(a, "reassign")
  /\ UNCHANGED <<shutdown, tracker, epicID, branch, ready, process, policy,
                 stopper>>

(* handleEpicTransition: assign a new epic, or clear assignedEpicID.       *)
ReassignEpic(a) ==
  /\ pc[a] = "reassign"
  /\ \E e \in AssignWorktree(a) :
        /\ assignments' = [assignments EXCEPT ![a] = e]
        /\ IF e = NoEpic
           THEN Goto(a, "ownBranch") /\ epicID' = [epicID EXCEPT ![a] = NoEpic]
           ELSE Goto(a, "newBranch") /\ UNCHANGED epicID
  /\ UNCHANGED <<shutdown, tracker, branch, ready, process, policy, stopper>>

(* switchToNonEpicMode after assignedEpicID has been cleared.              *)
SwitchToNonEpicMode(a) ==
  /\ pc[a] = "ownBranch"
  /\ \/ /\ BranchSwitched(a, NoEpic)
        /\ restartCount' = [restartCount EXCEPT ![a] = 0]
     \/ BranchFailed(a, NoEpic) /\ UNCHANGED restartCount
  /\ Goto(a, "afterExit")
  /\ UNCHANGED <<shutdown, tracker, assignments, epicID, ready, process,
                 lastError, rateRetryCount, backendIdx, stopper>>

(* handleEpicTransition: switch the branch, then the state; or roll back.  *)
SwitchToNewEpic(a) ==
  LET e == assignments[a] IN
  /\ pc[a] = "newBranch"
  /\ \/ /\ BranchSwitched(a, e)
        /\ epicID' = [epicID EXCEPT ![a] = e]
        /\ restartCount' = [restartCount EXCEPT ![a] = 0]
        /\ UNCHANGED assignments
     \/ /\ BranchFailed(a, e)
        /\ assignments' = [assignments EXCEPT ![a] = NoEpic]
        /\ UNCHANGED <<epicID, restartCount>>
  /\ Goto(a, "afterExit")
  /\ UNCHANGED <<shutdown, tracker, ready, process, lastError, rateRetryCount,
                 backendIdx, stopper>>

CheckShutdownAfterExit(a) ==
  /\ pc[a] = "afterExit"
  /\ Goto(a, IF shutdown THEN "exit" ELSE "decide")
  /\ UNCHANGED <<shutdown, tracker, epicVars, ready, process, policy, stopper>>

(* tryFallbackBackend's condition.                                         *)
FailoverDue(a) ==
  /\ \/ lastError[a] = "ModelNotFound"
     \/ lastError[a] = "RateLimited" /\ rateRetryCount[a] > 3
  /\ backendIdx[a] + 1 < 1 + NumFallbacks

RetriesSameBackend(a) ==
  /\ pc[a] = "decide"
  /\ FailoverDue(a)
  /\ restartCount' = [restartCount EXCEPT ![a] = 0]
  /\ rateRetryCount' = [rateRetryCount EXCEPT ![a] = 0]
  /\ Goto(a, "top")
  /\ UNCHANGED <<shutdown, tracker, epicVars, ready, process, lastError,
                 backendIdx, stopper>>

TryFallbackBackend(a) ==
  /\ pc[a] = "decide"
  /\ FailoverDue(a)
  /\ backendIdx' = [backendIdx EXCEPT ![a] = @ + 1]
  /\ restartCount' = [restartCount EXCEPT ![a] = 0]
  /\ rateRetryCount' = [rateRetryCount EXCEPT ![a] = 0]
  /\ Goto(a, "top")
  /\ UNCHANGED <<shutdown, tracker, epicVars, ready, process, lastError,
                 stopper>>

(* shouldRestart when tryFallbackBackend did not fail over.  Whether a     *)
(* clean run lasted over a minute (back to the primary) is left open.      *)
ShouldRestart(a) ==
  /\ pc[a] = "decide"
  /\ ~FailoverDue(a)
  /\ \/ /\ lastError[a] \in {"ok", "NoWork"}
        /\ restartCount' = [restartCount EXCEPT ![a] = 0]
        /\ rateRetryCount' = [rateRetryCount EXCEPT ![a] = 0]
        /\ \/ UNCHANGED backendIdx
           \/ lastError[a] = "ok" /\ backendIdx' = [backendIdx EXCEPT ![a] = 0]
        /\ Goto(a, "backoff")
     \/ /\ lastError[a] = "Fatal"
        /\ Goto(a, "exit")
        /\ UNCHANGED <<restartCount, rateRetryCount, backendIdx>>
     \/ /\ lastError[a] = "RateLimited" /\ RateLimitNoCount
        /\ rateRetryCount' = [rateRetryCount EXCEPT ![a] = @ + 1]
        /\ Goto(a, "backoff")
        /\ UNCHANGED <<restartCount, backendIdx>>
     \/ /\ \/ lastError[a] \in {"Counted", "ModelNotFound"}
           \/ lastError[a] = "RateLimited" /\ ~RateLimitNoCount
        /\ restartCount' = [restartCount EXCEPT ![a] = @ + 1]
        /\ rateRetryCount' = [rateRetryCount EXCEPT ![a] = 0]
        /\ Goto(a, IF restartCount[a] + 1 <= MaxRetries THEN "backoff"
                                                       ELSE "exit")
        /\ UNCHANGED backendIdx
  /\ UNCHANGED <<shutdown, tracker, epicVars, ready, process, lastError,
                 stopper>>

(* superviseAgent returns: the deferred ReleaseWorktree runs.              *)
SupervisorReturns(a) ==
  /\ pc[a] = "exit"
  /\ assignments' = [assignments EXCEPT ![a] = NoEpic]
  /\ Goto(a, "done")
  /\ UNCHANGED <<shutdown, tracker, epicID, branch, ready, process, policy,
                 stopper>>

-----------------------------------------------------------------------------
(* The subprocess.  It may ignore SIGTERM; nothing survives SIGKILL.       *)

AgentExits(a, c) ==
  /\ proc[a] = "running" /\ signal[a] # "kill"
  /\ c = "RateLimited" => rateRetryCount[a] < MaxRateRetries
  /\ proc' = [proc EXCEPT ![a] = c]
  /\ UNCHANGED <<shutdown, tracker, epicVars, ready, pc, signal, policy,
                 stopper>>

AgentKilled(a) ==
  /\ proc[a] = "running" /\ signal[a] = "kill"
  /\ proc' = [proc EXCEPT ![a] = "Counted"]
  /\ UNCHANGED <<shutdown, tracker, epicVars, ready, pc, signal, policy,
                 stopper>>

(* Agents and users open, close and block tasks.                           *)
TasksChange ==
  /\ \E e \in Epics : ready' = IF e \in ready THEN ready \ {e} ELSE ready \union {e}
  /\ UNCHANGED <<shutdown, tracker, epicVars, pc, process, policy, stopper>>

-----------------------------------------------------------------------------
(* stopAgent, called by Stop for each agent in turn and by the watchdog.   *)

Move(s, st) == stopper' = [stopper EXCEPT ![s] = st]
Advance(s) == Move(s, [at |-> "next", agent |-> stopper[s].agent + 1,
                       current |-> FALSE])
Visiting(s) == stopper[s].at = "next" /\ stopper[s].agent <= NumAgents

(* stopAgent finds no subprocess, or the watchdog finds it healthy.        *)
SkipAgent(s) ==
  /\ Visiting(s)
  /\ s = "health" \/ proc[stopper[s].agent] = "none"
  /\ Advance(s)
  /\ UNCHANGED <<shutdown, tracker, epicVars, ready, pc, process, policy>>

SendSIGTERM(s) ==
  LET a == stopper[s].agent IN
  /\ Visiting(s)
  /\ proc[a] # "none"
  /\ signal' = [signal EXCEPT ![a] = IF @ = "none" THEN "term" ELSE @]
  /\ Move(s, [at |-> "poll", agent |-> a, current |-> TRUE])
  /\ UNCHANGED <<shutdown, tracker, epicVars, ready, pc, proc, policy>>

(* The 5 second poll sees that the process is gone.                        *)
ProcessGone(s) ==
  /\ stopper[s].at = "poll"
  /\ proc[stopper[s].agent] = "none" \/ ~stopper[s].current
  /\ Advance(s)
  /\ UNCHANGED <<shutdown, tracker, epicVars, ready, pc, process, policy>>

KillsCurrentPid(s) ==
  LET a == stopper[s].agent IN
  /\ stopper[s].at = "poll"
  /\ signal' = IF proc[a] # "none" THEN [signal EXCEPT ![a] = "kill"] ELSE signal
  /\ Advance(s)
  /\ UNCHANGED <<shutdown, tracker, epicVars, ready, pc, proc, policy>>

(* The poll times out: SIGKILL to the group of the pid captured before.    *)
SendSIGKILL(s) ==
  LET a == stopper[s].agent IN
  /\ stopper[s].at = "poll"
  /\ signal' = IF proc[a] # "none" /\ stopper[s].current
               THEN [signal EXCEPT ![a] = "kill"] ELSE signal
  /\ Advance(s)
  /\ UNCHANGED <<shutdown, tracker, epicVars, ready, pc, proc, policy>>

(* Daemon.Stop.                                                            *)
StopSignals ==
  /\ "Stop" \in Callers
  /\ stopper["Stop"].at = "idle"
  /\ shutdown' = TRUE
  /\ Move("Stop", [stopper["Stop"] EXCEPT !.at = "close"])
  /\ UNCHANGED <<tracker, epicVars, ready, pc, process, policy>>

StopClosesTracker ==
  /\ stopper["Stop"].at = "close"
  /\ closed' = TRUE
  /\ pc' = Broadcast(pc)
  /\ Move("Stop", [stopper["Stop"] EXCEPT !.at = "next"])
  /\ UNCHANGED <<shutdown, counts, epicVars, ready, process, policy>>

StopWaits ==
  /\ stopper["Stop"].at = "next" /\ stopper["Stop"].agent = NumAgents + 1
  /\ Move("Stop", [stopper["Stop"] EXCEPT !.at = "wait"])
  /\ UNCHANGED <<shutdown, tracker, epicVars, ready, pc, process, policy>>

(* wg.Wait: the supervisors and healthChecker have returned.               *)
WaitGroupDone ==
  (\A a \in Agents : pc[a] = "done") /\ stopper["health"].at = "done"

StopReturns ==
  /\ stopper["Stop"].at = "wait"
  /\ WaitGroupDone
  /\ Move("Stop", [stopper["Stop"] EXCEPT !.at = "done"])
  /\ UNCHANGED <<shutdown, tracker, epicVars, ready, pc, process, policy>>

(* healthChecker: a tick visits every agent; shutdown is seen in between.  *)
(* With the watchdog off a tick only logs.                                 *)
HealthTick ==
  /\ "health" \in Callers
  /\ stopper["health"].at = "idle"
  /\ Move("health", [at |-> "next", agent |-> 1, current |-> FALSE])
  /\ UNCHANGED <<shutdown, tracker, epicVars, ready, pc, process, policy>>

HealthTickEnds ==
  /\ stopper["health"].at = "next" /\ stopper["health"].agent = NumAgents + 1
  /\ Move("health", [at |-> "idle", agent |-> 1, current |-> FALSE])
  /\ UNCHANGED <<shutdown, tracker, epicVars, ready, pc, process, policy>>

HealthReturns ==
  /\ stopper["health"].at = "idle" /\ shutdown
  /\ Move("health", [stopper["health"] EXCEPT !.at = "done"])
  /\ UNCHANGED <<shutdown, tracker, epicVars, ready, pc, process, policy>>

-----------------------------------------------------------------------------
SuperviseAgent(a) ==
  \/ CheckShutdown(a) \/ Acquire(a) \/ AssignEpic(a) \/ EnsureBranch(a)
  \/ SpawnAgent(a) \/ ReleaseAfterFailure(a) \/ HandleRestartAfterError(a)
  \/ BackoffSleep(a) \/ WaitForAgent(a) \/ ReleaseWorktree(a)
  \/ ReleaseSlot(a) \/ CheckEpicExhausted(a) \/ ReassignEpic(a)
  \/ SwitchToNonEpicMode(a) \/ SwitchToNewEpic(a)
  \/ CheckShutdownAfterExit(a) \/ TryFallbackBackend(a) \/ ShouldRestart(a)
  \/ SupervisorReturns(a)

StopAgent(s) == SkipAgent(s) \/ SendSIGTERM(s) \/ ProcessGone(s) \/ SendSIGKILL(s)

Stop == StopSignals \/ StopClosesTracker \/ StopWaits \/ StopReturns

Health == HealthTick \/ HealthTickEnds \/ HealthReturns

(* The daemon process ends when Stop has returned.                         *)
Terminated == stopper["Stop"].at = "done" /\ UNCHANGED vars

Next ==
  \/ \E a \in Agents : \/ SuperviseAgent(a)
                       \/ AgentKilled(a)
                       \/ \E c \in ExitClasses : AgentExits(a, c)
  \/ \E s \in Stoppers : StopAgent(s)
  \/ Stop
  \/ Health
  \/ TasksChange
  \/ Terminated

Spec == Init /\ [][Next]_vars

(* Fairness.  The Go scheduler runs every goroutine that can take a step,  *)
(* timers fire, and the kernel delivers SIGKILL.  healthChecker's select   *)
(* chooses at random among its ready cases, so a closed shutdown channel   *)
(* is not passed over for ever.  Nothing makes an agent exit by itself,    *)
(* and nothing makes anyone call Stop.                                     *)
Fairness ==
  /\ \A a \in Agents : WF_vars(SuperviseAgent(a)) /\ WF_vars(AgentKilled(a))
  /\ \A s \in Stoppers : WF_vars(StopAgent(s))
  /\ WF_vars(StopClosesTracker) /\ WF_vars(StopWaits) /\ WF_vars(StopReturns)
  /\ WF_vars(HealthTickEnds) /\ SF_vars(HealthReturns)

FairSpec == Spec /\ Fairness

-----------------------------------------------------------------------------
(* Properties.                                                             *)

(* The type invariant of the daemon's state.                               *)
TypeOK ==
  /\ shutdown \in BOOLEAN /\ closed \in BOOLEAN
  /\ counts \in [Roles -> Nat]
  /\ assignments \in [Agents -> EpicOrNone]
  /\ ready \subseteq Epics
  /\ branch \in [Agents -> EpicOrNone]
  /\ pc \in [Agents -> Locations]
  /\ epicID \in [Agents -> EpicOrNone]
  /\ proc \in [Agents -> {"none", "running"} \union Classes]
  /\ signal \in [Agents -> {"none", "term", "kill"}]
  /\ lastError \in [Agents -> Classes]
  /\ restartCount \in [Agents -> Nat]
  /\ rateRetryCount \in [Agents -> Nat]
  /\ backendIdx \in [Agents -> 0..NumFallbacks]
  /\ stopper \in [Stoppers -> StopperState]

(* The locations between Acquire and the matching Release.                 *)
Holding == {"assign", "ensureBranch", "spawn", "wait", "releaseEpic",
            "releaseSlot", "fail"}
Holders(r) == {a \in Agents : RoleOf[a] = r /\ pc[a] \in Holding}

(* The tracker's count for a role is the number of supervisors of that     *)
(* role between Acquire and Release: no path of superviseAgent leaks a     *)
(* slot or gives one back twice (Release's "bug?" warning is unreachable). *)
SlotsMatchHolders == \A r \in Roles : counts[r] = Cardinality(Holders(r))

(* max_concurrency bounds the subprocesses of a role that exist at once.   *)
ConcurrencyLimit ==
  \A r \in Roles : Limit[r] # 0 =>
     Cardinality({a \in Agents : RoleOf[a] = r /\ proc[a] # "none"}) <= Limit[r]

(* A supervisor suspended in Acquire has a reason to be: its role is at    *)
(* the limit and the tracker is open.  Release and Close wake all others.  *)
NoLostWakeup ==
  \A a \in Agents : pc[a] = "blocked" =>
     ~closed /\ counts[RoleOf[a]] >= Limit[RoleOf[a]]

(* An epic is assigned to one worktree at a time, also when supervisors    *)
(* assign, release, roll back and return in any interleaving.              *)
EpicExclusive ==
  \A a, b \in Agents :
     assignments[a] = assignments[b] => a = b \/ assignments[a] = NoEpic

(* While a subprocess exists, its worktree has the branch of the epic it   *)
(* was started for (--parent) checked out, and the assigner still holds    *)
(* that epic for this worktree, so that no other worktree can get it.      *)
WorksOnItsBranch ==
  \A a \in Agents : proc[a] # "none" =>
     branch[a] = epicID[a] /\ assignments[a] = epicID[a]

(* When Stop has returned, no subprocess is left, every slot has been      *)
(* given back and no worktree holds an epic.                               *)
CleanShutdown ==
  stopper["Stop"].at = "done" =>
     /\ \A a \in Agents : proc[a] = "none" /\ assignments[a] = NoEpic
     /\ \A r \in Roles : counts[r] = 0

(* SIGKILL only ever reaches a process that was sent SIGTERM first: a      *)
(* respawn during stopAgent's poll does not inherit the old one's fate.    *)
TermBeforeKill ==
  [][\A a \in Agents : signal'[a] = "kill" => signal[a] \in {"term", "kill"}]_vars

(* The locations from which a supervisor goes on to spawn without looking  *)
(* at the shutdown channel again.                                          *)
Committed == {"assign", "ensureBranch", "spawn"}

(* Stop returns, even when agents ignore SIGTERM, provided no supervisor   *)
(* was between its shutdown check and its spawn when Stop began to stop    *)
(* the agents.                                                             *)
StopTerminates ==
  (stopper["Stop"].at = "next" /\ stopper["Stop"].agent = 1
     /\ \A a \in Agents : pc[a] \notin Committed)
  ~> (stopper["Stop"].at = "done")

(* "Stop all agent processes" (Stop): when Stop goes on to wait for the    *)
(* supervisors, every subprocess that exists has been signalled.           *)
StopStopsAllAgents ==
  stopper["Stop"].at = "wait" =>
     \A a \in Agents : proc[a] = "running" => signal[a] # "none"

(* An epic transition that takes back what max_retries has counted.        *)
EpicResetsCount(a) ==
  pc[a] \in {"ownBranch", "newBranch"} /\ restartCount[a] # 0 /\ restartCount'[a] = 0

(* An agent whose subprocess from some point on only fails (in a way that  *)
(* is neither NoWork nor a rate limit) is given up, also across backend    *)
(* failovers, spawn and branch failures.  The only way to crash for ever   *)
(* is from epic to epic: every successful epic transition sets             *)
(* restartCount to 0, so max_retries holds the loop only while epics stay  *)
(* as they are, and nothing else undoes the count.                         *)
GivesUp ==
  \A a \in Agents :
     <>[](lastError[a] \in {"Counted", "ModelNotFound", "Fatal"})
       => \/ <>(pc[a] = "done")
          \/ []<><<EpicResetsCount(a)>>_vars /\ []<><<ready' # ready>>_vars

(* ReleaseWorktree makes a worktree's epic "available for reassignment":   *)
(* while every command and every agent succeeds, no supervisor gives up.   *)
OnlyShutdownEndsSupervisors ==
  \A a \in Agents : pc[a] = "done" => shutdown

-----------------------------------------------------------------------------
(* The refinement: a supervisor between Acquire and Release holds a place, *)
(* and a subprocess works on the epic it was started for.                  *)
HoldsSlot == {a \in Agents : pc[a] \in Holding}
WorkingOn == [a \in Agents |-> IF proc[a] = "none" THEN {} ELSE {epicID[a]}]

D == INSTANCE Dispatch
       WITH Size <- Cardinality, open <- ~closed, admitted <- HoldsSlot, work <- WorkingOn

(* The daemon implements Dispatch: however Acquire, AssignWorktree, branch *)
(* switches, failures, exits, rollbacks and Stop interleave, a place is    *)
(* only given out below max_concurrency and before Stop closes the         *)
(* tracker, a subprocess starts only with a place and on an epic that no   *)
(* other subprocess works on, keeps that epic until it has been reaped,    *)
(* and the place is given back only after that.                            *)
ImplementsDispatch == D!Behaviour

=============================================================================

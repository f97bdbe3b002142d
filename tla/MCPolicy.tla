------------------------------ MODULE MCPolicy ------------------------------
(***************************************************************************)
(* What decides when an agent starts, goes on and gives up: the daemon's   *)
(* restart policy (Supervisor with one agent of one role, and an epic that *)
(* comes and goes), AutoMode and TaskRouter; and EventLog, where they      *)
(* record it.  They share no state: a behaviour runs one.                  *)
(***************************************************************************)
EXTENDS Supervisor, AutoMode, TaskRouter, EventLog

VARIABLE part

MCRoles == {"task"}
MCRoleOf == [a \in Agents |-> "task"]
MCLimits == [r \in MCRoles |-> 1]
MCRank == [e \in Epics |-> 1]

mcVars == <<vars, amVars, routerVars, logVars, part>>

AmDefault ==
  [mode |-> "loop", kind |-> "task", backend |-> "claude", prompt |-> "small", trusted |-> TRUE,
   lockHere |-> TRUE]
MCAmConfigs ==
  {AmDefault,
   [AmDefault EXCEPT !.prompt = "overPipe"],
   [AmDefault EXCEPT !.backend = "codex", !.kind = "plan", !.prompt = "overArg"],
   [AmDefault EXCEPT !.mode = "single"],
   [AmDefault EXCEPT !.mode = "single", !.prompt = "overArg", !.backend = "codex"],
   [AmDefault EXCEPT !.mode = "single", !.prompt = "overArg", !.backend = "external"],
   [AmDefault EXCEPT !.mode = "tmux"],
   [AmDefault EXCEPT !.mode = "tmux", !.trusted = FALSE],
   [AmDefault EXCEPT !.mode = "tmux", !.kind = "agent"],
   [AmDefault EXCEPT !.mode = "tmux", !.lockHere = FALSE],
   [AmDefault EXCEPT !.mode = "tmux", !.backend = "opencode", !.prompt = "overArg"],
   [AmDefault EXCEPT !.mode = "tmux", !.backend = "external", !.prompt = "overPipe"]}

SomeIssue ==
  [type |-> "task", status |-> "open", design |-> TRUE, labels |-> {}, deps |-> {}, priority |-> 2]
MCFirstIssues ==
  [type : {"task", "epic"}, status : {"open", "in_progress"}, design : BOOLEAN,
   labels : SUBSET {"go", "needs-revision"},
   deps : {{}, {<<"blocks", TRUE>>}, {<<"blocks", FALSE>>, <<"related", TRUE>>}},
   priority : {0, 6}] \cup {SomeIssue}
MCOtherIssues ==
  {SomeIssue,
   [SomeIssue EXCEPT !.design = FALSE],
   [SomeIssue EXCEPT !.labels = {"go"}],
   [SomeIssue EXCEPT !.labels = {"go", "ui"}, !.priority = 4],
   [SomeIssue EXCEPT !.type = "epic"],
   [SomeIssue EXCEPT !.deps = {<<"waits-for", TRUE>>}]}
MCConstraints ==
  [filter : {"", "needs_design", "needs_plan", "has_design", "any"},
   skills : {{}, {"go"}, {"go", "ui"}}, maxPriority : {NoCap, 2}]

QuietRouter ==
  /\ RouterInit /\ readyIssues[1] = SomeIssue /\ readyIssues[2] = SomeIssue
  /\ constraints = [filter |-> "", skills |-> {}, maxPriority |-> NoCap]

MCInit ==
  /\ Init /\ LogInit
  /\ \/ part \in {"daemon", "events"} /\ AmInit /\ cfg = AmDefault /\ ~amSignal /\ QuietRouter
     \/ part = "auto" /\ AmInit /\ QuietRouter
     \/ part = "router" /\ AmInit /\ cfg = AmDefault /\ ~amSignal /\ RouterInit

MCNext ==
  /\ UNCHANGED part
  /\ \/ part = "daemon" /\ Next /\ UNCHANGED <<amVars, routerVars, logVars>>
     \/ part = "auto" /\ AmNext /\ UNCHANGED <<vars, routerVars, logVars>>
     \/ part = "router" /\ RouterNext /\ UNCHANGED <<vars, amVars, logVars>>
     \/ part = "events" /\ LogNext /\ UNCHANGED <<vars, amVars, routerVars>>

\* The fairness of Supervisor and of AutoMode, each in its part.
MCFairness ==
  /\ \A a \in Agents :
        /\ WF_vars(part = "daemon" /\ SuperviseAgent(a))
        /\ WF_vars(part = "daemon" /\ AgentKilled(a))
        /\ WF_vars(part = "daemon" /\ \E c \in ExitClasses : AgentExits(a, c))
  /\ \A s \in Stoppers : WF_vars(part = "daemon" /\ StopAgent(s))
  /\ WF_vars(part = "daemon" /\ StopClosesTracker)
  /\ WF_vars(part = "daemon" /\ StopWaits)
  /\ WF_vars(part = "daemon" /\ StopReturns)
  /\ WF_vars(part = "daemon" /\ HealthTickEnds)
  /\ SF_vars(part = "daemon" /\ HealthReturns)
  /\ WF_amVars(part = "auto" /\ CommandSteps)
  /\ WF_amVars(part = "auto" /\ amShutdown /\ AgentReturns("err"))
MCSpec == MCInit /\ [][MCNext]_mcVars /\ MCFairness
=============================================================================

----------------------------- MODULE TaskRouter -----------------------------
(***************************************************************************)
(* Which of the ready issues an agent may work on: the predicates of       *)
(* taskfilter.go, the scoring of the task router that a role's             *)
(* constraints (filter, skills, priority cap) select, and the two ways a   *)
(* filter is understood (mapTaskFilter and MatchTask).                     *)
(***************************************************************************)
EXTENDS Integers, FiniteSets

CONSTANTS
  FirstIssues,   \* candidates for the first ready issue
  OtherIssues,   \* candidates for the second
  Constraints    \* role constraints: filter, skills and maxPriority (or NoCap)

NoCap == 99

\* Priorities and caps are ints, and no priority exceeds the absent cap.
ASSUME RouterAssumption ==
  /\ \A issue \in FirstIssues \union OtherIssues :
        issue.priority \in 0..NoCap /\ IsFiniteSet(issue.labels)
  /\ \A c \in Constraints : c.maxPriority \in Int

VARIABLES
  readyIssues,   \* the issues bd ready returned
  constraints,   \* the role's constraints
  selected       \* the index the check settled on, 0 for none, -1 before

routerVars == <<readyIssues, constraints, selected>>

RouterInit ==
  /\ readyIssues \in {<<i, j>> : i \in FirstIssues, j \in OtherIssues}
  /\ constraints \in Constraints
  /\ selected = -1

-----------------------------------------------------------------------------
IsEpic(issue) == issue.type = "epic"
IsOpen(issue) == issue.status = "open"
HasDesign(issue) == issue.design
HasNeedsRevision(issue) == "needs-revision" \in issue.labels
NeedsPlan(issue) == ~HasDesign(issue) \/ HasNeedsRevision(issue)
ReadyToImplement(issue) == HasDesign(issue) /\ ~HasNeedsRevision(issue)
IsWorkableTask(issue) == IsOpen(issue) /\ ~IsEpic(issue)
AffectsReadyWork(type) == type \in {"blocks", "parent-child", "conditional-blocks", "waits-for"}

\* An issue's dependencies are pairs of a type and whether the issue depended
\* on is unclosed.
HasUnclosedBlockers(deps) == \E d \in deps : AffectsReadyWork(d[1]) /\ d[2]

IsAvailableForAny(issue) == IsWorkableTask(issue) /\ ~HasUnclosedBlockers(issue.deps)
IsAvailableForPlanning(issue) == IsAvailableForAny(issue) /\ NeedsPlan(issue)
IsAvailableForImplementation(issue) == IsAvailableForAny(issue) /\ ReadyToImplement(issue)

-----------------------------------------------------------------------------
CountSkillMatches(labels, skills) == Cardinality(labels \cap skills)

Clamp(n, lo, hi) == IF n < lo THEN lo ELSE IF n > hi THEN hi ELSE n

\* Mutant: a role's skills are required, not preferred.
SkillsRequired(issue, c) ==
  IF c.skills # {} /\ CountSkillMatches(issue.labels, c.skills) = 0 THEN 0
  ELSE 100 + 50 * CountSkillMatches(issue.labels, c.skills) + Clamp(20 - 4 * issue.priority, 0, 20)

\* The score of an issue that no rule rejects.
SkillScore(issue, c) ==
  IF c.skills # {} /\ CountSkillMatches(issue.labels, c.skills) = 0 THEN 10
  ELSE 100 + 50 * CountSkillMatches(issue.labels, c.skills) + Clamp(20 - 4 * issue.priority, 0, 20)

\* Any filter but needs_plan and any is read as has_design.
PassesFilter(issue, filter) ==
  CASE filter = "needs_plan" -> NeedsPlan(issue)
    [] filter = "any" -> TRUE
    [] OTHER -> ReadyToImplement(issue)

MatchTask(issue, c) ==
  IF \/ IsEpic(issue) \/ ~IsOpen(issue) \/ HasUnclosedBlockers(issue.deps)
     \/ ~PassesFilter(issue, c.filter)
     \/ issue.priority > c.maxPriority
  THEN 0 ELSE SkillScore(issue, c)

\* Higher score, then the lower priority number, then the lower ID.
Before(i, j, c) ==
  LET si == MatchTask(readyIssues[i], c)
      sj == MatchTask(readyIssues[j], c)
  IN  \/ si > sj
      \/ si = sj /\ readyIssues[i].priority < readyIssues[j].priority
      \/ si = sj /\ readyIssues[i].priority = readyIssues[j].priority /\ i <= j

SelectBestTask(c) ==
  LET matches == {i \in DOMAIN readyIssues : MatchTask(readyIssues[i], c) > 0}
  IN  IF matches = {} THEN 0
      ELSE CHOOSE i \in matches : \A j \in matches : Before(i, j, c)

\* BuildRouterTaskCheck: no routing constraint, no router.
Routed(c) == c.skills # {} \/ c.maxPriority # NoCap \/ c.filter # ""

\* mapTaskFilter: the check loom agent uses without the router.
MapTaskFilter(filter, issue) ==
  CASE filter = "needs_design" -> IsAvailableForPlanning(issue)
    [] filter = "has_design" -> IsAvailableForImplementation(issue)
    [] OTHER -> IsAvailableForAny(issue)

\* The availability check of runAgent, which asks the router when it may.
RouterCheck ==
  /\ selected = -1
  /\ Routed(constraints)
  /\ selected' = SelectBestTask(constraints)
  /\ UNCHANGED <<readyIssues, constraints>>

DefaultCheck ==
  /\ selected = -1
  /\ ~Routed(constraints)
  /\ selected' = IF \E i \in DOMAIN readyIssues : MapTaskFilter(constraints.filter, readyIssues[i])
                 THEN CHOOSE i \in DOMAIN readyIssues : MapTaskFilter(constraints.filter, readyIssues[i])
                 ELSE 0
  /\ UNCHANGED <<readyIssues, constraints>>

RouterNext == RouterCheck \/ DefaultCheck
RouterSpec == RouterInit /\ [][RouterNext]_routerVars

-----------------------------------------------------------------------------
\* What an agent of the role could work on.
Workable(c) ==
  {i \in DOMAIN readyIssues :
     /\ readyIssues[i].priority <= c.maxPriority
     /\ CASE c.filter = "needs_plan" -> IsAvailableForPlanning(readyIssues[i])
          [] c.filter = "any" -> IsAvailableForAny(readyIssues[i])
          [] OTHER -> IsAvailableForImplementation(readyIssues[i])}
Skilled(c) == {i \in Workable(c) : c.skills \cap readyIssues[i].labels # {}}

(* The router of task_router.go, which repeats the predicates of           *)
(* taskfilter.go rule by rule, finds work exactly when those predicates    *)
(* and the role's priority cap leave some: skills never starve a role, and *)
(* a task outside the role's skills is taken only when none is inside.     *)
RouterNeverStarves ==
  selected # -1 /\ Routed(constraints) =>
    /\ (selected = 0) <=> (Workable(constraints) = {})
    /\ selected # 0 => /\ selected \in Workable(constraints)
                       /\ Skilled(constraints) # {} => selected \in Skilled(constraints)

(* A role's task filter means the same with and without the router: for    *)
(* the values that loom agent and the configuration accept (needs_design,  *)
(* has_design, any) the router's check, which replaces the one of          *)
(* mapTaskFilter, finds work exactly when that one would.                  *)
FilterMeansTheSame ==
  /\ selected # -1
  /\ constraints.filter \in {"needs_design", "has_design", "any"}
  /\ constraints.skills = {} /\ constraints.maxPriority = NoCap
  => (selected # 0) <=> \E i \in DOMAIN readyIssues : MapTaskFilter(constraints.filter, readyIssues[i])
=============================================================================

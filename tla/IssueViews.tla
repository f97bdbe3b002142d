----------------------------- MODULE IssueViews -----------------------------
(***************************************************************************)
(* What the ready list and the kanban board say about blocked issues.      *)
(*                                                                         *)
(* Both views are put together from several RPCs on one connection, and    *)
(* agents change issues between any two of them.  The daemon's own answers *)
(* treat a blocker that is in progress or in review as resolved, so the    *)
(* handlers correct them with a List of their own, which may fail and is   *)
(* limited in length.                                                      *)
(***************************************************************************)
EXTENDS Integers, FiniteSets

CONSTANTS
  Issues,
  ListLimit   \* how many issues the correcting List returns

ASSUME ViewConstants == ListLimit \in Nat \ {0}

VARIABLES
  status,    \* per issue, as the daemon stores it
  deps,      \* dependencies: from an issue to another, with a type
  step,      \* the next RPC of the handler, and which handler it is
  fetched,   \* the issues of its first RPC, with their dependencies
  blockedRPC,\* the board's fallback: what Blocked returned
  shown,     \* what the client was told: issue -> blocked or not
  corrected, \* the correcting List succeeded and was complete
  wasClosed  \* history: issues seen closed since the request began

viewVars == <<status, deps, step, fetched, blockedRPC, shown, corrected, wasClosed>>

Statuses == {"open", "in_progress", "review", "closed"}
DepTypes == {"blocks", "related"}

AffectsReadyWork(type) == type = "blocks"
Blockers(i) == {d.on : d \in {x \in deps : x.from = i /\ AffectsReadyWork(x.type)}}

\* The daemon (external): a blocker counts while it is open.
DaemonBlocked == {i \in Issues : \E b \in Blockers(i) : status[b] = "open"}
DaemonReady == {i \in Issues \ DaemonBlocked : status[i] \in {"open", "in_progress"}}

ViewsInit ==
  /\ status \in [Issues -> {"open", "closed"}]
  /\ deps \in {D \in SUBSET [from : Issues, on : Issues, type : DepTypes] :
                 Cardinality(D) <= 2 /\ \A d \in D : d.from # d.on}
  /\ step = "none" /\ fetched = {} /\ blockedRPC = {}
  /\ shown = [i \in {} |-> FALSE] /\ corrected = FALSE /\ wasClosed = {}

\* An agent moves an issue on, or reopens it.
ChangeStatus(i, s) ==
  /\ s # status[i]
  /\ status' = [status EXCEPT ![i] = s]
  /\ wasClosed' = IF s = "closed" THEN wasClosed \cup {i} ELSE wasClosed
  /\ UNCHANGED <<deps, step, fetched, blockedRPC, shown, corrected>>

Closed == {i \in Issues : status[i] = "closed"}

\* The first RPC of each view: Ready, or List with the caller's filters.
FirstCall ==
  /\ step = "none"
  /\ \/ step' = "ready" /\ fetched' = DaemonReady
     \/ step' = "blocked" /\ \E S \in SUBSET Issues : fetched' = S
  /\ wasClosed' = Closed
  /\ shown' = [i \in {} |-> FALSE] /\ corrected' = FALSE
  /\ UNCHANGED <<status, deps, blockedRPC>>

\* The board asks for the daemon's blocked issues; an error leaves none.
CallBlocked ==
  /\ step = "blocked"
  /\ blockedRPC' \in {{}, DaemonBlocked}
  /\ step' = "kanban"
  /\ UNCHANGED <<status, deps, fetched, shown, corrected, wasClosed>>

\* The correcting List: any ListLimit of the issues, closed ones included.
Listed ==
  IF Cardinality(Issues) <= ListLimit THEN {Issues}
  ELSE {S \in SUBSET Issues : Cardinality(S) = ListLimit}
UnclosedIDs(S) == {i \in S : status[i] # "closed"}

\* Mutant: a blocker that somebody works on does not block.
OnlyOpenBlocks(i, unclosed) == \E b \in Blockers(i) \cap unclosed : status[b] = "open"

HasUnclosedBlockersTyped(i, unclosed) == Blockers(i) \cap unclosed # {}

\* getUnclosedBlockerRefs on the board, the same test with the references.
GetUnclosedBlockerRefs(i, unclosed) == Blockers(i) \cap unclosed

FilterUnclosedBlockers ==
  /\ step = "ready"
  /\ \/ \E S \in Listed :
          /\ shown' = [i \in {j \in fetched :
                          ~HasUnclosedBlockersTyped(j, UnclosedIDs(S))} |-> FALSE]
          /\ corrected' = (S = Issues)
     \/ shown' = [i \in fetched |-> FALSE] /\ corrected' = FALSE
  /\ step' = "none" /\ fetched' = {}
  /\ UNCHANGED <<status, deps, blockedRPC, wasClosed>>

\* fetchUnclosedIDSetAndMap, or Blocked's answer when it fails.
MergeBlocked ==
  /\ step = "kanban"
  /\ \/ \E S \in Listed :
          /\ shown' = [i \in fetched |-> GetUnclosedBlockerRefs(i, UnclosedIDs(S)) # {}]
          /\ corrected' = (S = Issues)
     \/ shown' = [i \in fetched |-> i \in blockedRPC] /\ corrected' = FALSE
  /\ step' = "none" /\ fetched' = {} /\ blockedRPC' = {}
  /\ UNCHANGED <<status, deps, wasClosed>>

ViewsNext ==
  \/ \E i \in Issues, s \in Statuses : ChangeStatus(i, s)
  \/ FirstCall \/ CallBlocked \/ FilterUnclosedBlockers \/ MergeBlocked

ViewsSpec == ViewsInit /\ [][ViewsNext]_viewVars

-----------------------------------------------------------------------------
(* However the RPCs of a view interleave with the agents' changes, an issue  *)
(* shown as free to work on has no blocker that stayed unclosed throughout:  *)
(* each of its blockers was closed at some moment since the request began.   *)
(* It needs a complete List; without one the daemon's weaker notion is shown.*)
ShownFreeIsUnblocked ==
  corrected => \A i \in DOMAIN shown : ~shown[i] => Blockers(i) \subseteq wasClosed
=============================================================================

------------------------------ MODULE Dispatch ------------------------------
(***************************************************************************)
(* What the daemon promises about its agents, with no goroutines, no       *)
(* counters, no branches and no retries: an agent is admitted while its    *)
(* role has room and the office is open, then works on at most one epic,   *)
(* which nobody else is working on, stops, and gives its place back.       *)
(* Module Supervisor implements this specification.                        *)
(***************************************************************************)
EXTENDS Naturals

CONSTANTS Agents, RoleOf, Limit, Epics, NoEpic,
          Size(_)  \* the number of elements of a finite set

VARIABLES
  open,      \* places are still given out
  admitted,  \* the agents that hold a place of their role
  work       \* agent -> {} or {the epic it works on} ({NoEpic}: any task)

dispatchVars == <<open, admitted, work>>

Colleagues(a) == {b \in admitted : RoleOf[b] = RoleOf[a]}

HasRoom(a) ==
  Limit[RoleOf[a]] # 0 => Size(Colleagues(a)) < Limit[RoleOf[a]]

Start ==
  /\ open = TRUE
  /\ admitted = {}
  /\ work = [a \in Agents |-> {}]

Admit(a) ==
  /\ open /\ a \notin admitted
  /\ admitted' = admitted \union {a}
  /\ HasRoom(a)
  /\ UNCHANGED <<open, work>>

Begin(a) ==
  /\ work[a] = {} /\ a \in admitted
  /\ \E e \in Epics \union {NoEpic} :
        /\ e # NoEpic => \A b \in Agents : e \notin work[b]
        /\ work' = [work EXCEPT ![a] = {e}]
  /\ UNCHANGED <<open, admitted>>

Finish(a) ==
  /\ work[a] # {}
  /\ work' = [work EXCEPT ![a] = {}]
  /\ UNCHANGED <<open, admitted>>

GiveBack(a) ==
  /\ a \in admitted /\ work[a] = {}
  /\ admitted' = admitted \ {a}
  /\ UNCHANGED <<open, work>>

CloseOffice ==
  /\ open' = FALSE
  /\ UNCHANGED <<admitted, work>>

Step ==
  \/ \E a \in Agents : Admit(a) \/ Begin(a) \/ Finish(a) \/ GiveBack(a)
  \/ CloseOffice

Behaviour == Start /\ [][Step]_dispatchVars
=============================================================================

---------------------------- MODULE MCSupervisor ----------------------------
(* Instances of Supervisor for TLC: agents of one role, epics E1 before E2. *)
EXTENDS Supervisor

CONSTANTS E1, E2, MCLimit

MCRoles == {"task"}
MCRoleOf == [a \in Agents |-> "task"]
MCLimits == [r \in MCRoles |-> MCLimit]
MCEpics == {E1, E2}
MCRank == [e \in MCEpics |-> IF e = E1 THEN 1 ELSE 2]
NoEpics == {}
NoRank == [e \in NoEpics |-> 1]

=============================================================================

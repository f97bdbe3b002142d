---------------------------- MODULE MCEventStream ----------------------------
(* EventStream for TLC. *)
EXTENDS EventStream

\* Two mutations in one millisecond, one far enough from the last to be
\* returned, and the two kinds of changes only the poll can see.
MCKinds ==
  {[via |-> "rpc", create |-> FALSE, gap |-> 0], [via |-> "rpc", create |-> FALSE, gap |-> 2],
   [via |-> "cli", create |-> FALSE, gap |-> 0], [via |-> "cli", create |-> TRUE, gap |-> 0]}
=============================================================================

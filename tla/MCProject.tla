----------------------------- MODULE MCProject ------------------------------
(***************************************************************************)
(* What the processes of one project share on disk: the lock, PID and      *)
(* state files of the daemon (DaemonControl), and the repository, with its *)
(* root and one agent's directory (GitFlow).  A behaviour runs one part.   *)
(***************************************************************************)
EXTENDS GitFlow, DaemonControl

VARIABLE part

MCListing == [l \in {"shared", "clones"} |-> IF l = "shared" THEN <<"w2">> ELSE <<"root", "w2">>]
MCHome == [d \in {"root", "w2"} |-> IF d = "root" THEN "b1" ELSE "b2"]
MCSecond == {<<"push", "api">>, <<"push", "legacy">>, <<"reset", "api">>, <<"pull", "api">>}

mcVars == <<gitVars, controlVars, part>>

QuietGit ==
  /\ glayout = "clones" /\ gedited = {} /\ grunning = {}
  /\ gremote = [b \in Branches |-> {}]
  /\ \A d \in Dirs : gwt[d].head = HomeBranch[d] /\ HeadOf(d) = {}

MCInit ==
  /\ GitInit /\ ControlInit
  /\ part \in {"git", "control"}
  /\ part # "git" => QuietGit
  /\ part # "control" => asked.kind = "stop"

MCNext ==
  /\ UNCHANGED part
  /\ \/ part = "git" /\ GitNext /\ UNCHANGED controlVars
     \/ part = "control" /\ ControlNext /\ UNCHANGED gitVars

MCSpec == MCInit /\ [][MCNext]_mcVars
=============================================================================

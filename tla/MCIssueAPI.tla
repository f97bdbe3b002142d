----------------------------- MODULE MCIssueAPI -----------------------------
(***************************************************************************)
(* The web UI's components for TLC.  They share no state: a behaviour runs *)
(* one part and leaves the others at their start.                          *)
(***************************************************************************)
EXTENDS IssueAPI, IssueViews, LogStream, Terminal, TabMeta

CONSTANTS
  FirstBackend,  \* the backend the server is started with
  MaxBytes       \* size of the longest log to page through

VARIABLE part

mcVars == <<apiVars, viewVars, routerState, streamState, pageState, termVars, tokenVars, tabVars, part>>

MCPageFiles == UNION {[1..n -> {"x", "nl"}] : n \in 0..MaxBytes}
MCLogTasks == {<<"t1", "planning">>, <<"t1", "implementation">>, <<"t2", "implementation">>}

Parts == {"pool", "views", "route", "stream", "page", "terminal", "token", "tabs"}

MCInit ==
  /\ part \in Parts
  /\ APIInit /\ (part # "pool" => daemonUp)
  /\ ViewsInit /\ (part # "views" => deps = {} /\ status = [i \in Issues |-> "open"])
  /\ LogRouterInit /\ LogFileInit
  /\ TermInit /\ defaultCmd = FirstBackend
  /\ (part # "terminal" => tmux[AgentSession] = NoSession)
  /\ TokenInit
  /\ TabInit /\ (part # "tabs" => tabActive = {})
  /\ IF part = "page" THEN PageInit
     ELSE PageStart([file |-> <<>>, lines |-> 1, valid |-> TRUE, inDir |-> TRUE, exists |-> TRUE])

MCNext ==
  /\ UNCHANGED part
  /\ \/ /\ part = "pool" /\ APINext
        /\ UNCHANGED <<viewVars, routerState, streamState, pageState, termVars, tokenVars, tabVars>>
     \/ /\ part = "views" /\ ViewsNext
        /\ UNCHANGED <<apiVars, routerState, streamState, pageState, termVars, tokenVars, tabVars>>
     \/ /\ part = "route" /\ LogRouterNext
        /\ UNCHANGED <<apiVars, viewVars, streamState, pageState, termVars, tokenVars, tabVars>>
     \/ /\ part = "stream" /\ LogFileNext
        /\ UNCHANGED <<apiVars, viewVars, routerState, pageState, termVars, tokenVars, tabVars>>
     \/ /\ part = "page" /\ GetLog
        /\ UNCHANGED <<apiVars, viewVars, routerState, streamState, termVars, tokenVars, tabVars>>
     \/ /\ part = "terminal" /\ TermNext
        /\ UNCHANGED <<apiVars, viewVars, routerState, streamState, pageState, tokenVars, tabVars>>
     \/ /\ part = "token" /\ TokenNext
        /\ UNCHANGED <<apiVars, viewVars, routerState, streamState, pageState, termVars, tabVars>>
     \/ /\ part = "tabs" /\ TabNext
        /\ UNCHANGED <<apiVars, viewVars, routerState, streamState, pageState, termVars, tokenVars>>

MCSpec == MCInit /\ [][MCNext]_mcVars /\ APIFairness
=============================================================================

------------------------------ MODULE IssueAPI ------------------------------
(***************************************************************************)
(* The HTTP handlers that serve issues, and the daemon subscriber, as users *)
(* of DaemonPool, with the shutdown of StartServer.                        *)
(*                                                                         *)
(* A handler is a row: the statuses it may reject a request with before it *)
(* asks for a client, the one it answers when Get runs into a deadline,    *)
(* which of its RPCs must succeed, after how many of them it may answer,   *)
(* and the status of each way to fail.                                     *)
(***************************************************************************)
EXTENDS DaemonPool

CONSTANTS
  Requests   \* handler goroutines

ASSUME APIConstants ==
  /\ Users = Requests \cup Background
  /\ Requests \cap Background = {}

VARIABLES
  job,     \* per user: the handler, its RPCs so far, whether one has written
  answer,  \* per user: status, whether the daemon did the operation, end of client
  h2c,     \* requests on hijacked connections, which Server.Shutdown does not track
  server   \* how far StartServer is

apiVars == <<poolVars, job, answer, h2c, server>>

\* Execute turns a reply without success into an error, so the handlers'
\* branches on resp.Success after a nil error are never taken.
Fails(notfound, conflict) ==
  [notfound |-> notfound, conflict |-> conflict, other |-> 500, io |-> 500]
Down == [notfound |-> 503, conflict |-> 503, other |-> 503, io |-> 503]

\* A handler of one RPC.
One(rejects, success, fails) ==
  [rejects |-> rejects, timeout |-> 504, fatal |-> <<TRUE>>, ends |-> {1},
   success |-> success, fails |-> fails, writes |-> FALSE, discards |-> FALSE]
Write(rejects, success, fails) == [One(rejects, success, fails) EXCEPT !.writes = TRUE]

\* What each handler refuses before it asks for a client.
ValidatePatchRequest == {400, 413}
ValidateCreateRequest == {400}
ParseListParams == {400}
ParseKanbanParams == {400}
ParseReadyParams == {400}
ParseBlockedParams == {400}
Body == {400, 413}
PathID == {400}

\* Mutant: a lost reply is reported as an unavailable daemon.
PatchTimeoutIsUnavailable ==
  Write(ValidatePatchRequest, 200, [Fails(404, 500) EXCEPT !.io = 503])

HandlePatchIssue == Write(ValidatePatchRequest, 200, Fails(404, 500))
HandleCreateIssue == Write(Body \cup ValidateCreateRequest, 201, Fails(500, 500))
HandleCloseIssue == Write(PathID \cup Body, 200, Fails(404, 409))
HandleDeleteIssue == Write(PathID, 200, Fails(404, 500))
HandleAddDependency == Write(PathID \cup Body, 200, Fails(404, 409))
HandleRemoveDependency == Write(PathID, 200, Fails(404, 500))
HandleAddComment == Write(PathID, 201, Fails(404, 500))
HandleGetIssue == [One(PathID, 200, Fails(404, 500)) EXCEPT !.timeout = 503]
HandleBlocked == One(ParseBlockedParams, 200, Fails(500, 500))
HandleGraph == One({400}, 200, Fails(500, 500))
HandleStats == One({}, 200, Fails(500, 500))
HandleDaemonStatus == One({}, 200, Fails(500, 500))
HandleAPIHealth == [One({}, 200, Down) EXCEPT !.timeout = 503]
\* List, GetParentIDs, then for the kanban view Blocked and a second List:
\* only the first must succeed, the others are logged and left out.
HandleListIssues ==
  [One(ParseListParams \cup ParseKanbanParams, 200, Fails(500, 500)) EXCEPT
     !.fatal = <<TRUE, FALSE, FALSE, FALSE>>, !.ends = {1, 2, 4}]
\* Ready, the List of filterUnclosedBlockers, and GetParentIDs unless nothing
\* is left to look up.
HandleReady ==
  [One(ParseReadyParams, 200, Fails(500, 500)) EXCEPT
     !.fatal = <<TRUE, FALSE, FALSE>>, !.ends = {2, 3}]
\* getWorkspacePath is one Status call; loom.yaml is read and written after Put.
GetWorkspacePath == Down
HandleGetBackendConfig == One({}, 200, GetWorkspacePath)
HandlePatchBackendConfig == One(Body, 200, GetWorkspacePath)
GetMutationsSince == One({}, 200, Fails(500, 500))

RequestJobs ==
  {HandlePatchIssue, HandleCreateIssue, HandleCloseIssue, HandleDeleteIssue,
   HandleGetIssue, HandleAddDependency, HandleRemoveDependency, HandleAddComment,
   HandleBlocked, HandleGraph, HandleStats, HandleDaemonStatus, HandleAPIHealth,
   HandleListIssues, HandleReady, HandleGetBackendConfig, HandlePatchBackendConfig,
   GetMutationsSince}

\* The subscriber gives up a connection whose WaitForMutations failed.
PollMutations == [One({}, 200, Fails(500, 500)) EXCEPT !.timeout = 503]
WaitForMutations == [PollMutations EXCEPT !.discards = TRUE]
PollDBChanges == [PollMutations EXCEPT !.fatal = <<TRUE, FALSE>>, !.ends = {1, 2}]
SubscriberJobs == {WaitForMutations, PollMutations, PollDBChanges}

Jobs(u) == IF u \in Background THEN SubscriberJobs ELSE RequestJobs
NoJob == [of |-> GetMutationsSince, i |-> 0, done |-> FALSE]
NoAnswer == [status |-> 0, wrote |-> FALSE, discard |-> FALSE]

APIInit ==
  /\ PoolInit
  /\ job = [u \in Users |-> NoJob]
  /\ answer = [u \in Users |-> NoAnswer]
  /\ h2c = {}
  /\ server = "up"

-----------------------------------------------------------------------------
\* A request arrives, over a tracked connection or a hijacked one, or the
\* subscriber begins another round of its loop.
Begin(u) ==
  /\ at[u] = "idle"
  /\ \/ u \in Requests /\ server = "up" /\ UNCHANGED h2c
     \/ u \in Requests /\ server # "down" /\ h2c' = h2c \cup {u}
     \/ u \in Background /\ server \in {"up", "draining"} /\ UNCHANGED h2c
  /\ Goto(u, "start")
  /\ UNCHANGED <<breakerVars, available, closed, drained, countVars, connVars,
                 client, retries, err, job, answer, server>>

\* Path values, parameters and body are checked before the pool is touched.
Reject(u) ==
  /\ at[u] = "idle" /\ u \in Requests /\ server = "up"
  /\ \E j \in RequestJobs : \E s \in j.rejects :
       answer' = [answer EXCEPT ![u] = [NoAnswer EXCEPT !.status = s]]
  /\ Goto(u, "reply")
  /\ UNCHANGED <<breakerVars, available, closed, drained, countVars, connVars,
                 client, retries, err, job, h2c, server>>

Leave(u) == h2c' = h2c \ {u}

\* pool.Get failed and there is nothing to give back.  The subscriber waits
\* and goes round again.
Unavailable(u) ==
  /\ at[u] = "failed"
  /\ \E j \in Jobs(u) :
       answer' = [answer EXCEPT ![u] = [NoAnswer EXCEPT !.status =
                    IF err[u] = "DeadlineExceeded" THEN j.timeout ELSE 503]]
  /\ Goto(u, "reply")
  /\ err' = [err EXCEPT ![u] = "none"]
  /\ UNCHANGED <<breakerVars, available, closed, drained, countVars, connVars,
                 client, retries, job, h2c, server>>

Reply(u) ==
  /\ at[u] = "reply"
  /\ Goto(u, "idle") /\ Leave(u)
  /\ answer' = [answer EXCEPT ![u] = NoAnswer]
  /\ UNCHANGED <<breakerVars, available, closed, drained, countVars, connVars,
                 client, retries, err, job, server>>

GetStep(u) ==
  /\ Get(u)
  /\ h2c' = IF at'[u] = "idle" THEN h2c \ {u} ELSE h2c
  /\ UNCHANGED <<job, answer, server>>

Answer(u, j, status, done) ==
  /\ Goto(u, "put")
  /\ answer' = [answer EXCEPT ![u] =
                  [status |-> status, wrote |-> done,
                   discard |-> j.discards /\ status # j.success]]
  /\ job' = [job EXCEPT ![u] = NoJob]

\* The next line on the wire answers an earlier call.
Mistaken(c) == wire[c] # <<>>

\* One RPC of the handler: own is what the daemon makes of it, x.reply what
\* the client takes for the answer.  A reply that belongs to another call may
\* fail to unmarshal.
CallDaemon(u, j, i, done) ==
  \E own \in Outcomes : \E x \in Execute(client[u], own) :
    LET did == done \/ (j.writes /\ own = "ok" /\ conn[client[u]] = "live")
        stale == Mistaken(client[u])
    IN  /\ wire' = [wire EXCEPT ![client[u]] = x.left]
        /\ \/ /\ x.reply = "ok" \/ ~j.fatal[i]
              /\ \/ i \in j.ends /\ Answer(u, j, j.success, did)
                 \/ /\ i < Len(j.fatal)
                    /\ job' = [job EXCEPT ![u] = [of |-> j, i |-> i, done |-> did]]
                    /\ UNCHANGED <<at, answer>>
           \/ /\ j.fatal[i] /\ x.reply # "ok"
              /\ Answer(u, j, j.fails[x.reply], did)
           \/ /\ j.fatal[i] /\ x.reply = "ok" /\ stale
              /\ Answer(u, j, 500, did)

Handle(u) ==
  /\ at[u] = "have"
  /\ \/ job[u].i = 0 /\ \E j \in Jobs(u) : CallDaemon(u, j, 1, FALSE)
     \/ job[u].i # 0 /\ CallDaemon(u, job[u].of, job[u].i + 1, job[u].done)
  /\ UNCHANGED <<breakerVars, available, closed, drained, countVars, conn, daemonUp,
                 client, retries, err, h2c, server>>

\* The deferred Put of every handler; waitForMutations discards the client of
\* a failed call instead.
PutBack(u) ==
  /\ at[u] = "put"
  /\ IF answer[u].discard THEN Discard(u) ELSE Put(u)
  /\ answer' = [answer EXCEPT ![u] = NoAnswer]
  /\ h2c' = IF at'[u] = "idle" THEN h2c \ {u} ELSE h2c
  /\ UNCHANGED <<job, server>>

SendBack(u) == SendAvailable(u) /\ Leave(u) /\ UNCHANGED <<job, answer, server>>

-----------------------------------------------------------------------------
(* StartServer after its context is cancelled.                             *)

ShutdownBegins ==
  /\ server = "up"
  /\ server' = "draining"
  /\ UNCHANGED <<poolVars, job, answer, h2c>>

\* server.Shutdown returns once the connections it tracks are idle; it has
\* never tracked a hijacked one.  subscriber.Stop then closes done.
Drained ==
  /\ server = "draining"
  /\ \A r \in Requests \ h2c : at[r] = "idle"
  /\ server' = "stopping"
  /\ UNCHANGED <<poolVars, job, answer, h2c>>

\* The drain times out: StartServer returns without stopping anything.
DrainTimesOut ==
  /\ server = "draining"
  /\ \E r \in Requests \ h2c : at[r] # "idle"
  /\ server' = "forced"
  /\ UNCHANGED <<poolVars, job, answer, h2c>>

\* subscriber.Stop's wg.Wait is over, hub.Stop, then pool.Close.
\* Mutant: the subscriber is told to stop but not waited for.
StopsWithoutWaiting ==
  /\ server = "stopping"
  /\ server' = "closing"
  /\ UNCHANGED <<poolVars, job, answer, h2c>>

SubscriberStopped ==
  /\ server = "stopping"
  /\ \A u \in Background : at[u] = "idle"
  /\ server' = "closing"
  /\ UNCHANGED <<poolVars, job, answer, h2c>>

ClosePool ==
  /\ server = "closing"
  /\ \/ Close /\ UNCHANGED server
     \/ CloseChannel /\ server' = "down"
  /\ UNCHANGED <<job, answer, h2c>>

Daemon == (DaemonStops \/ DaemonStarts) /\ UNCHANGED <<job, answer, h2c, server>>
TimeoutPasses == OpenTimeoutExpires /\ UNCHANGED <<job, answer, h2c, server>>

Terminated ==
  /\ server \in {"down", "forced"}
  /\ \A u \in Users : at[u] = "idle"
  /\ UNCHANGED apiVars

Step(u) ==
  \/ GetStep(u) \/ Unavailable(u) \/ Reply(u) \/ Handle(u) \/ PutBack(u) \/ SendBack(u)

Shutdown ==
  \/ ShutdownBegins \/ Drained \/ DrainTimesOut \/ SubscriberStopped \/ ClosePool

APINext ==
  \/ \E u \in Users : Begin(u) \/ Reject(u) \/ Step(u)
  \/ Shutdown
  \/ Daemon
  \/ TimeoutPasses
  \/ Terminated

\* Goroutines run, timers fire, and the subscriber's loop goes round.
APIFairness ==
  /\ \A u \in Users : WF_apiVars(Step(u))
  /\ \A u \in Background : WF_apiVars(Begin(u))
  /\ WF_apiVars(TimeoutPasses)
  /\ WF_apiVars(Drained \/ DrainTimesOut)
  /\ WF_apiVars(SubscriberStopped)
  /\ WF_apiVars(ClosePool)

APISpec == APIInit /\ [][APINext]_apiVars /\ APIFairness

-----------------------------------------------------------------------------
(* StartServer closes the pool last: nobody whom it waits for is in Get or   *)
(* about to Put, so only a request on an h2c connection can meet the closed  *)
(* channel (pool.go:216 would panic).                                        *)
PoolOutlivesItsUsers ==
  closed => \A u \in Users \ h2c : at[u] = "idle"

(* Once the daemon stays up, an open breaker closes: the subscriber's next   *)
(* round is the probe.  It does not when a probe ended in an ignored error   *)
(* (lost), and nobody probes once the server shuts down.                     *)
BreakerRecovers ==
  <>[]daemonUp => (bstate = "open" ~> (bstate = "closed" \/ lost \/ server # "up"))

(* An answer of 503 or 504, or one that blames the request, says that a     *)
(* write has not been done and may be sent again: no handler answers so      *)
(* once the daemon may have executed it.  404 and 409 are the daemon's own.  *)
UnavailableMeansUntouched ==
  \A u \in Requests :
    at[u] = "put" /\ answer[u].status \in {400, 413, 503, 504} => ~answer[u].wrote
=============================================================================

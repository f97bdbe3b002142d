----------------------------- MODULE Pool_proofs ----------------------------
(***************************************************************************)
(* Proofs about the way from the web UI's handlers to the beads daemon:    *)
(* the connection pool, its circuit breaker, the handlers that use them    *)
(* and the server's shutdown.                                              *)
(***************************************************************************)
EXTENDS IssueAPI, FiniteSetTheorems, TLAPS

-----------------------------------------------------------------------------
(* Handlers.                                                               *)

AllJobs == RequestJobs \cup SubscriberJobs
Failures == {"notfound", "conflict", "other", "io"}

\* What the proofs use of a handler's row.
JobOK(j) ==
  /\ j.rejects \subseteq {400, 413}
  /\ j.timeout \in {503, 504}
  /\ j.success \in {200, 201}
  /\ j.writes \in BOOLEAN /\ j.discards \in BOOLEAN
  /\ \A f \in Failures : j.fails[f] \in {404, 409, 500, 503}
  /\ j.writes => \A f \in Failures : j.fails[f] # 503

\* A handler of one RPC that only reads.
LEMMA OneOK ==
  ASSUME NEW R \in SUBSET {400, 413}, NEW s \in {200, 201}, NEW F,
         \A f \in Failures : F[f] \in {404, 409, 500, 503}
  PROVE  JobOK(One(R, s, F))
BY DEF JobOK, One

\* A handler of one RPC that writes.
LEMMA WriteOK ==
  ASSUME NEW R \in SUBSET {400, 413}, NEW s \in {200, 201}, NEW F,
         \A f \in Failures : F[f] \in {404, 409, 500}
  PROVE  JobOK(Write(R, s, F))
BY DEF JobOK, One, Write

\* The statuses of failures.
LEMMA FailsOK ==
  ASSUME NEW a \in {404, 500}, NEW b \in {409, 500}
  PROVE  \A f \in Failures : Fails(a, b)[f] \in {404, 409, 500}
BY DEF Fails, Failures

\* A failed Status call is always 503.
LEMMA DownOK == \A f \in Failures : Down[f] \in {404, 409, 500, 503}
BY DEF Down, Failures

\* Every handler's row is as described.
LEMMA JobsOK == \A j \in AllJobs : JobOK(j)
<1>1. /\ JobOK(HandlePatchIssue) /\ JobOK(HandleCreateIssue) /\ JobOK(HandleCloseIssue)
      /\ JobOK(HandleDeleteIssue) /\ JobOK(HandleAddDependency) /\ JobOK(HandleRemoveDependency)
      /\ JobOK(HandleAddComment)
  BY WriteOK, FailsOK DEF HandlePatchIssue, HandleCreateIssue, HandleCloseIssue, HandleDeleteIssue,
     HandleAddDependency, HandleRemoveDependency, HandleAddComment, ValidatePatchRequest,
     ValidateCreateRequest, Body, PathID
<1>2. /\ JobOK(HandleBlocked) /\ JobOK(HandleGraph) /\ JobOK(HandleStats)
      /\ JobOK(HandleDaemonStatus) /\ JobOK(GetMutationsSince)
  BY OneOK, FailsOK DEF HandleBlocked, HandleGraph, HandleStats, HandleDaemonStatus,
     GetMutationsSince, ParseBlockedParams
<1>3. JobOK(HandleGetBackendConfig) /\ JobOK(HandlePatchBackendConfig)
  BY OneOK, DownOK DEF HandleGetBackendConfig, HandlePatchBackendConfig, GetWorkspacePath, Body
<1>4. JobOK(HandleGetIssue) /\ JobOK(HandleAPIHealth)
  BY FailsOK, DownOK DEF HandleGetIssue, HandleAPIHealth, PathID, One, JobOK
<1>5. JobOK(HandleListIssues) /\ JobOK(HandleReady)
  BY FailsOK DEF HandleListIssues, HandleReady, ParseListParams, ParseKanbanParams,
     ParseReadyParams, One, JobOK
<1>6. JobOK(PollMutations) /\ JobOK(WaitForMutations) /\ JobOK(PollDBChanges)
  BY FailsOK DEF PollMutations, WaitForMutations, PollDBChanges, One, JobOK
<1> QED
  BY <1>1, <1>2, <1>3, <1>4, <1>5, <1>6 DEF AllJobs, RequestJobs, SubscriberJobs
-----------------------------------------------------------------------------
(* Types, and where a user has a client.                                   *)

JobRecord == [of : AllJobs, i : Nat, done : BOOLEAN]
AnswerRecord == [status : Nat, wrote : BOOLEAN, discard : BOOLEAN]

APITypeOK ==
  /\ PoolTypeOK
  /\ job \in [Users -> JobRecord]
  /\ answer \in [Users -> AnswerRecord]
  /\ h2c \subseteq Requests
  /\ server \in {"up", "draining", "forced", "stopping", "closing", "down"}

HasClient == {"ping", "have", "put", "send"}
NoClientYet == {"idle", "start", "try", "take", "create", "dial", "wait", "failed", "reply"}

PlaceInv(u) ==
  /\ at[u] \in HasClient => client[u] \in Clients
  /\ at[u] \in NoClientYet => client[u] = NoClient
  /\ at[u] = "after" => ((client[u] \in Clients) <=> (err[u] = "none"))
  /\ at[u] # "after" => retries[u] < MaxRetries

TypeInv == APITypeOK /\ \A u \in Users : PlaceInv(u)

\* Execute returns an outcome or an I/O error and leaves outcomes unread.
LEMMA ExecuteType ==
  ASSUME PoolTypeOK, NEW c \in Clients, NEW o \in Outcomes, NEW x \in Execute(c, o)
  PROVE  x.left \in Seq(Outcomes) /\ x.reply \in Outcomes \cup {"io"}
<1> DEFINE w == Append(wire[c], o)
<1>1. wire[c] \in Seq(Outcomes)
  BY DEF PoolTypeOK
<1>2. w \in Seq(Outcomes) /\ Len(w) \in Nat /\ Len(w) >= 1 /\ w[1] \in Outcomes
  BY <1>1
<1>3. ASSUME NEW k \in 2..(Len(w) + 1) PROVE SubSeq(w, k, Len(w)) \in Seq(Outcomes)
  BY <1>2, <1>3
<1>4. \/ x = [reply |-> "io", left |-> wire[c]]
      \/ \E k \in 2..(Len(w) + 1) : x = [reply |-> w[1], left |-> SubSeq(w, k, Len(w))]
      \/ x = [reply |-> "io", left |-> w]
  <2>1. CASE conn[c] # "live"
    BY <2>1 DEF Execute
  <2>2. CASE conn[c] = "live" /\ Len(w) <= MaxLate
    BY <2>2 DEF Execute
  <2>3. CASE conn[c] = "live" /\ ~(Len(w) <= MaxLate)
    BY <2>3 DEF Execute
  <2> QED
    BY <2>1, <2>2, <2>3
<1> HIDE DEF w
<1>5. CASE x = [reply |-> "io", left |-> wire[c]]
  BY <1>1, <1>5
<1>6. CASE x = [reply |-> "io", left |-> w]
  BY <1>2, <1>6
<1>7. ASSUME NEW k \in 2..(Len(w) + 1), x = [reply |-> w[1], left |-> SubSeq(w, k, Len(w))]
      PROVE  x.left \in Seq(Outcomes) /\ x.reply \in Outcomes \cup {"io"}
  BY <1>2, <1>3, <1>7
<1> QED
  BY <1>4, <1>5, <1>6, <1>7

\* The breaker's variables stay typed.
BreakerTypeOK ==
  /\ bstate \in {"closed", "open", "halfopen"}
  /\ consecutiveFail \in 0..FailureThreshold
  /\ halfOpenProbes \in 0..HalfOpenMaxProbes
  /\ expired \in BOOLEAN /\ probing \subseteq Users /\ lost \in BOOLEAN

\* Each of the breaker's transitions keeps its types.
LEMMA BreakerTypes ==
  ASSUME PoolTypeOK, NEW u \in Users,
         \/ Admit(u) \/ RecordFailure \/ RecordSuccess \/ RecordNothing(u) \/ UNCHANGED breakerVars
  PROVE  BreakerTypeOK'
<1>0. BreakerTypeOK
  BY DEF PoolTypeOK, BreakerTypeOK
<1>1. CASE Admit(u)
  <2>1. CASE bstate = "closed" /\ UNCHANGED breakerVars
    BY <1>0, <2>1 DEF BreakerTypeOK, breakerVars
  <2>2. CASE /\ bstate' = "halfopen" /\ halfOpenProbes' = 1 /\ probing' = {u} /\ lost' = FALSE
             /\ expired' = FALSE /\ UNCHANGED consecutiveFail
    <3>1. 1 \in 0..HalfOpenMaxProbes
      BY PoolConstants
    <3> QED
      BY <1>0, <2>2, <3>1 DEF BreakerTypeOK
  <2>3. CASE /\ halfOpenProbes < HalfOpenMaxProbes /\ halfOpenProbes' = halfOpenProbes + 1
             /\ probing' = probing \cup {u} /\ UNCHANGED <<bstate, consecutiveFail, expired, lost>>
    <3>1. halfOpenProbes' \in 0..HalfOpenMaxProbes
      BY <1>0, <2>3, PoolConstants DEF BreakerTypeOK
    <3> QED
      BY <1>0, <2>3, <3>1 DEF BreakerTypeOK
  <2> QED
    BY <1>1, <2>1, <2>2, <2>3 DEF Admit
<1>2. CASE RecordFailure
  <2>1. lost' \in BOOLEAN
    BY <1>2 DEF RecordFailure
  <2>2. expired' \in BOOLEAN
    BY <1>0, <1>2 DEF RecordFailure, BreakerTypeOK
  <2>3. probing' \subseteq Users /\ halfOpenProbes' \in 0..HalfOpenMaxProbes
    BY <1>0, <1>2, PoolConstants DEF RecordFailure, BreakerTypeOK
  <2>4. consecutiveFail' \in 0..FailureThreshold
    BY <1>0, <1>2, PoolConstants DEF RecordFailure, BreakerTypeOK
  <2>5. bstate' \in {"closed", "open", "halfopen"}
    BY <1>0, <1>2 DEF RecordFailure, BreakerTypeOK
  <2> QED
    BY <2>1, <2>2, <2>3, <2>4, <2>5 DEF BreakerTypeOK
<1>3. CASE RecordSuccess
  <2>1. lost' \in BOOLEAN
    BY <1>3 DEF RecordSuccess
  <2>2. expired' \in BOOLEAN
    BY <1>0, <1>3 DEF RecordSuccess, BreakerTypeOK
  <2>3. probing' \subseteq Users /\ halfOpenProbes' \in 0..HalfOpenMaxProbes
    BY <1>0, <1>3, PoolConstants DEF RecordSuccess, BreakerTypeOK
  <2>4. consecutiveFail' \in 0..FailureThreshold
    BY <1>0, <1>3, PoolConstants DEF RecordSuccess, BreakerTypeOK
  <2>5. bstate' \in {"closed", "open", "halfopen"}
    BY <1>0, <1>3 DEF RecordSuccess, BreakerTypeOK
  <2> QED
    BY <2>1, <2>2, <2>3, <2>4, <2>5 DEF BreakerTypeOK
<1>4. CASE RecordNothing(u)
  BY <1>0, <1>4 DEF RecordNothing, BreakerTypeOK
<1>5. CASE UNCHANGED breakerVars
  BY <1>0, <1>5 DEF breakerVars, BreakerTypeOK
<1> QED
  BY <1>1, <1>2, <1>3, <1>4, <1>5
\* A step of user u touches no other user.
Moves(u) ==
  \A w \in Users \ {u} : /\ at'[w] = at[w] /\ client'[w] = client[w]
                         /\ retries'[w] = retries[w] /\ err'[w] = err[w]

UserTypeOK ==
  /\ at \in [Users -> Places]
  /\ client \in [Users -> Clients \cup {NoClient}]
  /\ retries \in [Users -> 0..MaxRetries]
  /\ err \in [Users -> Errors \cup {"none"}]

ChannelTypeOK ==
  /\ available \in Seq(Clients) /\ activeCount \in Int /\ createdCount \in Int
  /\ conn \in [Clients -> {"none", "live", "dead"}]
  /\ wire \in [Clients -> Seq(Outcomes)]

FlagTypeOK == closed \in BOOLEAN /\ drained \in BOOLEAN /\ daemonUp \in BOOLEAN

\* The type invariant in its parts.
LEMMA PoolTypeParts == PoolTypeOK <=> BreakerTypeOK /\ UserTypeOK /\ ChannelTypeOK /\ FlagTypeOK
BY DEF PoolTypeOK, BreakerTypeOK, UserTypeOK, ChannelTypeOK, FlagTypeOK

\* The same of the next state.
LEMMA PoolTypeNext ==
  ASSUME BreakerTypeOK', UserTypeOK', ChannelTypeOK', FlagTypeOK' PROVE PoolTypeOK'
BY DEF PoolTypeOK, BreakerTypeOK, UserTypeOK, ChannelTypeOK, FlagTypeOK

\* A user's place, client, count and error after assignments to them.
LEMMA UserSet ==
  ASSUME UserTypeOK, NEW u \in Users, NEW p \in Places, at' = [at EXCEPT ![u] = p],
         client' = client \/ \E c \in Clients \cup {NoClient} : client' = [client EXCEPT ![u] = c],
         retries' = retries \/ \E k \in 0..MaxRetries : retries' = [retries EXCEPT ![u] = k],
         err' = err \/ \E e \in Errors \cup {"none"} : err' = [err EXCEPT ![u] = e]
  PROVE  UserTypeOK' /\ Moves(u) /\ at'[u] = p
<1>1. client' \in [Users -> Clients \cup {NoClient}] /\ \A w \in Users \ {u} : client'[w] = client[w]
  BY DEF UserTypeOK
<1>2. retries' \in [Users -> 0..MaxRetries] /\ \A w \in Users \ {u} : retries'[w] = retries[w]
  BY DEF UserTypeOK
<1>3. err' \in [Users -> Errors \cup {"none"}] /\ \A w \in Users \ {u} : err'[w] = err[w]
  BY DEF UserTypeOK
<1>4. at' \in [Users -> Places] /\ at'[u] = p /\ \A w \in Users \ {u} : at'[w] = at[w]
  BY DEF UserTypeOK
<1> QED
  BY <1>1, <1>2, <1>3, <1>4 DEF UserTypeOK, Moves

StepOK(u) == PoolTypeOK' /\ Moves(u) /\ PlaceInv(u)'

\* Steps of Get that leave the channel, the counters and the connections.
LEMMA GetQuiet ==
  ASSUME TypeInv, NEW u \in Users,
         BeforeRequest(u) \/ ContextDone(u) \/ CheckClosed(u) \/ AfterRequest(u)
  PROVE  StepOK(u)
<1>0. BreakerTypeOK /\ UserTypeOK /\ ChannelTypeOK /\ FlagTypeOK /\ PlaceInv(u) /\ PoolTypeOK
  BY PoolTypeParts DEF TypeInv, APITypeOK
<1>1. ChannelTypeOK' /\ FlagTypeOK'
  BY <1>0 DEF ChannelTypeOK, FlagTypeOK, BeforeRequest, ContextDone, CheckClosed, AfterRequest,
     countVars, connVars
<1>2. BreakerTypeOK'
  <2>1. \/ Admit(u) \/ RecordFailure \/ RecordSuccess \/ RecordNothing(u) \/ UNCHANGED breakerVars
    BY DEF BeforeRequest, ContextDone, CheckClosed, AfterRequest
  <2> QED
    BY <1>0, <2>1, BreakerTypes
<1>3. {"try", "failed", "after", "take", "have"} \subseteq Places
  BY DEF Places
<1>4. {"ErrCircuitOpen", "Canceled", "ErrPoolClosed"} \subseteq Errors
  BY DEF Errors
<1>5. CASE BeforeRequest(u)
  <2>1. PICK p \in {"try", "failed"} : at' = [at EXCEPT ![u] = p]
    BY <1>5 DEF BeforeRequest, Goto
  <2>2. UNCHANGED <<client, retries>> /\ at[u] = "start"
    BY <1>5 DEF BeforeRequest
  <2>3. err' = err \/ err' = [err EXCEPT ![u] = "ErrCircuitOpen"]
    BY <1>5 DEF BeforeRequest
  <2>4. UserTypeOK' /\ Moves(u) /\ at'[u] = p
    BY <1>0, <1>3, <1>4, <2>1, <2>2, <2>3, UserSet
  <2>5. PlaceInv(u)'
    BY <1>0, <2>1, <2>2, <2>4 DEF PlaceInv, HasClient, NoClientYet
  <2> QED
    BY <1>1, <1>2, <2>4, <2>5, PoolTypeNext DEF StepOK
<1>6. CASE ContextDone(u)
  <2>1. /\ at' = [at EXCEPT ![u] = "after"] /\ err' = [err EXCEPT ![u] = "Canceled"]
        /\ UNCHANGED <<client, retries>> /\ at[u] = "try"
    BY <1>6 DEF ContextDone, Return, Goto
  <2>2. UserTypeOK' /\ Moves(u) /\ at'[u] = "after" /\ err'[u] = "Canceled"
    BY <1>0, <1>3, <1>4, <2>1, UserSet DEF UserTypeOK
  <2>3. PlaceInv(u)'
    BY <1>0, <2>1, <2>2, PoolConstants DEF PlaceInv, HasClient, NoClientYet
  <2> QED
    BY <1>1, <1>2, <2>2, <2>3, PoolTypeNext DEF StepOK
<1>7. CASE CheckClosed(u)
  <2>0. UNCHANGED <<client, retries>> /\ at[u] = "try"
    BY <1>7 DEF CheckClosed
  <2>1. CASE at' = [at EXCEPT ![u] = "after"] /\ err' = [err EXCEPT ![u] = "ErrPoolClosed"]
    <3>1. UserTypeOK' /\ Moves(u) /\ at'[u] = "after" /\ err'[u] = "ErrPoolClosed"
      BY <1>0, <1>3, <1>4, <2>0, <2>1, UserSet DEF UserTypeOK
    <3>2. PlaceInv(u)'
      BY <1>0, <2>0, <3>1, PoolConstants DEF PlaceInv, HasClient, NoClientYet
    <3> QED
      BY <1>1, <1>2, <3>1, <3>2, PoolTypeNext DEF StepOK
  <2>2. CASE at' = [at EXCEPT ![u] = "take"] /\ UNCHANGED err
    <3>1. UserTypeOK' /\ Moves(u) /\ at'[u] = "take"
      BY <1>0, <1>3, <2>0, <2>2, UserSet
    <3>2. PlaceInv(u)'
      BY <1>0, <2>0, <3>1 DEF PlaceInv, HasClient, NoClientYet
    <3> QED
      BY <1>1, <1>2, <3>1, <3>2, PoolTypeNext DEF StepOK
  <2> QED
    BY <1>7, <2>1, <2>2 DEF CheckClosed, Return, Goto
<1>8. CASE AfterRequest(u)
  <2> DEFINE p == IF err[u] = "none" THEN "have" ELSE "failed"
  <2>1. /\ at' = [at EXCEPT ![u] = p] /\ retries' = [retries EXCEPT ![u] = 0]
        /\ UNCHANGED <<client, err>> /\ at[u] = "after"
    BY <1>8 DEF AfterRequest, Goto
  <2>2. 0 \in 0..MaxRetries /\ 0 < MaxRetries /\ p \in Places
    BY <1>3, PoolConstants
  <2>3. UserTypeOK' /\ Moves(u) /\ at'[u] = p /\ retries'[u] = 0
    BY <1>0, <2>1, <2>2, UserSet DEF UserTypeOK
  <2>4. client[u] \in Clients \cup {NoClient}
    BY <1>0 DEF UserTypeOK
  <2>5. PlaceInv(u)'
    BY <1>0, <2>1, <2>2, <2>3, <2>4, PoolConstants DEF PlaceInv, HasClient, NoClientYet
  <2> QED
    BY <1>1, <1>2, <2>3, <2>5, PoolTypeNext DEF StepOK
<1> QED
  BY <1>5, <1>6, <1>7, <1>8
\* Steps of Get that take a client from the channel or wait for one.
LEMMA GetTakes ==
  ASSUME TypeInv, NEW u \in Users, TakeAvailable(u) \/ WaitAvailable(u)
  PROVE  StepOK(u)
<1>0. BreakerTypeOK /\ UserTypeOK /\ ChannelTypeOK /\ FlagTypeOK /\ PlaceInv(u) /\ PoolTypeOK
  BY PoolTypeParts DEF TypeInv, APITypeOK
<1>1. at[u] \in {"take", "wait"} /\ UNCHANGED <<closed, drained, activeCount, createdCount, conn, wire, daemonUp>>
  BY DEF TakeAvailable, WaitAvailable, countVars, connVars
<1>2. FlagTypeOK'
  BY <1>0, <1>1 DEF FlagTypeOK
<1>3. client[u] = NoClient /\ retries[u] < MaxRetries
  BY <1>0, <1>1 DEF PlaceInv, NoClientYet
<1>4. {"ping", "idle", "create", "after"} \subseteq Places
  BY DEF Places
<1>5. CASE Receive(u)
  <2>1. /\ available' = Tail(available) /\ available # <<>> /\ at' = [at EXCEPT ![u] = "ping"]
        /\ client' = [client EXCEPT ![u] = Head(available)]
        /\ UNCHANGED <<retries, err>> /\ UNCHANGED breakerVars
    BY <1>5 DEF Receive, Goto
  <2>2. Head(available) \in Clients /\ available' \in Seq(Clients)
    BY <1>0, <2>1 DEF ChannelTypeOK
  <2>3. ChannelTypeOK'
    BY <1>0, <1>1, <2>2 DEF ChannelTypeOK
  <2>4. UserTypeOK' /\ Moves(u) /\ at'[u] = "ping"
    BY <1>0, <1>4, <2>1, <2>2, UserSet
  <2>5. client'[u] \in Clients
    BY <1>0, <2>1, <2>2 DEF UserTypeOK
  <2>6. PlaceInv(u)'
    BY <1>3, <2>1, <2>4, <2>5 DEF PlaceInv, HasClient, NoClientYet
  <2> QED
    BY <1>0, <1>2, <2>1, <2>3, <2>4, <2>6, BreakerTypes, PoolTypeNext DEF StepOK
<1>6. CASE ReceiveNil(u)
  <2>1. /\ at' = [at EXCEPT ![u] = "idle"] /\ client' = [client EXCEPT ![u] = NoClient]
        /\ err' = [err EXCEPT ![u] = "none"] /\ retries' = [retries EXCEPT ![u] = 0]
        /\ RecordNothing(u) /\ UNCHANGED available
    BY <1>6 DEF ReceiveNil, Panics, Goto
  <2>2. 0 \in 0..MaxRetries /\ 0 < MaxRetries
    BY PoolConstants
  <2>3. UserTypeOK' /\ Moves(u) /\ at'[u] = "idle"
    BY <1>0, <1>4, <2>1, <2>2, UserSet
  <2>4. client'[u] = NoClient /\ retries'[u] = 0
    BY <1>0, <2>1 DEF UserTypeOK
  <2>5. PlaceInv(u)'
    BY <2>2, <2>3, <2>4 DEF PlaceInv, HasClient, NoClientYet
  <2>6. ChannelTypeOK'
    BY <1>0, <1>1, <2>1 DEF ChannelTypeOK
  <2> QED
    BY <1>0, <1>2, <2>1, <2>3, <2>5, <2>6, BreakerTypes, PoolTypeNext DEF StepOK
<1>7. CASE at' = [at EXCEPT ![u] = "create"] /\ UNCHANGED <<breakerVars, available, client, retries, err>>
  <2>1. UserTypeOK' /\ Moves(u) /\ at'[u] = "create"
    BY <1>0, <1>4, <1>7, UserSet
  <2>2. PlaceInv(u)'
    BY <1>3, <1>7, <2>1 DEF PlaceInv, HasClient, NoClientYet
  <2>3. ChannelTypeOK'
    BY <1>0, <1>1, <1>7 DEF ChannelTypeOK
  <2> QED
    BY <1>0, <1>2, <1>7, <2>1, <2>2, <2>3, BreakerTypes, PoolTypeNext DEF StepOK
<1>8. ASSUME NEW e \in Errors, Return(u, e), UNCHANGED <<breakerVars, available, client, retries>>
      PROVE  StepOK(u)
  <2>1. at' = [at EXCEPT ![u] = "after"] /\ err' = [err EXCEPT ![u] = e]
    BY <1>8 DEF Return, Goto
  <2>2. UserTypeOK' /\ Moves(u) /\ at'[u] = "after"
    BY <1>0, <1>4, <1>8, <2>1, UserSet
  <2>3. err'[u] = e /\ e # "none"
    BY <1>0, <2>1 DEF UserTypeOK, Errors
  <2>4. PlaceInv(u)'
    BY <1>3, <1>8, <2>2, <2>3, PoolConstants DEF PlaceInv, HasClient, NoClientYet
  <2>5. ChannelTypeOK'
    BY <1>0, <1>1, <1>8 DEF ChannelTypeOK
  <2> QED
    BY <1>0, <1>2, <1>8, <2>2, <2>4, <2>5, BreakerTypes, PoolTypeNext DEF StepOK
<1> QED
  BY <1>5, <1>6, <1>7, <1>8 DEF TakeAvailable, WaitAvailable, Goto, Errors

\* A slot is reserved, and a connection is made or the slot is given back.
LEMMA GetCreates ==
  ASSUME TypeInv, NEW u \in Users, ReserveSlot(u) \/ CreateConnection(u)
  PROVE  StepOK(u)
<1>0. BreakerTypeOK /\ UserTypeOK /\ ChannelTypeOK /\ FlagTypeOK /\ PlaceInv(u) /\ PoolTypeOK
  BY PoolTypeParts DEF TypeInv, APITypeOK
<1>1. /\ at[u] \in {"create", "dial"} /\ UNCHANGED breakerVars
      /\ UNCHANGED <<available, closed, drained, wire, daemonUp, retries>>
  BY DEF ReserveSlot, CreateConnection, connVars
<1>2. FlagTypeOK' /\ BreakerTypeOK'
  BY <1>0, <1>1, BreakerTypes DEF FlagTypeOK
<1>3. client[u] = NoClient /\ retries[u] < MaxRetries
  BY <1>0, <1>1 DEF PlaceInv, NoClientYet
<1>4. {"dial", "wait", "after"} \subseteq Places /\ "ErrDaemonNotRunning" \in Errors
      /\ "ErrDaemonNotRunning" # "none"
  BY DEF Places, Errors
<1>5. CASE ReserveSlot(u)
  <2>1. PICK p \in {"dial", "wait"} : at' = [at EXCEPT ![u] = p]
    BY <1>5 DEF ReserveSlot, Goto
  <2>2. UNCHANGED <<client, err>>
    BY <1>5 DEF ReserveSlot
  <2>3. UserTypeOK' /\ Moves(u) /\ at'[u] = p
    BY <1>0, <1>1, <1>4, <2>1, <2>2, UserSet
  <2>4. ChannelTypeOK'
    BY <1>0, <1>5 DEF ChannelTypeOK, ReserveSlot, countVars, connVars
  <2>5. PlaceInv(u)'
    BY <1>1, <1>3, <2>1, <2>2, <2>3 DEF PlaceInv, HasClient, NoClientYet
  <2> QED
    BY <1>2, <2>3, <2>4, <2>5, PoolTypeNext DEF StepOK
<1>6. ASSUME CreateConnection(u), NEW c \in Clients, conn' = [conn EXCEPT ![c] = "live"],
             client' = [client EXCEPT ![u] = c], Return(u, "none"), UNCHANGED countVars
      PROVE  StepOK(u)
  <2>1. at' = [at EXCEPT ![u] = "after"] /\ err' = [err EXCEPT ![u] = "none"]
    BY <1>6 DEF Return, Goto
  <2>2. UserTypeOK' /\ Moves(u) /\ at'[u] = "after"
    BY <1>0, <1>1, <1>4, <1>6, <2>1, UserSet
  <2>3. client'[u] = c /\ err'[u] = "none"
    BY <1>0, <1>6, <2>1 DEF UserTypeOK
  <2>4. PlaceInv(u)'
    BY <2>2, <2>3 DEF PlaceInv, HasClient, NoClientYet
  <2>5. ChannelTypeOK'
    BY <1>0, <1>1, <1>6 DEF ChannelTypeOK, countVars
  <2> QED
    BY <1>2, <2>2, <2>4, <2>5, PoolTypeNext DEF StepOK
<1>7. ASSUME CreateConnection(u), createdCount' = createdCount - 1, activeCount' = activeCount - 1,
             Return(u, "ErrDaemonNotRunning"), UNCHANGED <<conn, client>>
      PROVE  StepOK(u)
  <2>1. at' = [at EXCEPT ![u] = "after"] /\ err' = [err EXCEPT ![u] = "ErrDaemonNotRunning"]
    BY <1>7 DEF Return, Goto
  <2>2. UserTypeOK' /\ Moves(u) /\ at'[u] = "after"
    BY <1>0, <1>1, <1>4, <1>7, <2>1, UserSet
  <2>3. err'[u] = "ErrDaemonNotRunning"
    BY <1>0, <2>1 DEF UserTypeOK
  <2>4. PlaceInv(u)'
    BY <1>3, <1>7, <2>2, <2>3, PoolConstants DEF PlaceInv, HasClient, NoClientYet
  <2>5. ChannelTypeOK'
    BY <1>0, <1>1, <1>7 DEF ChannelTypeOK
  <2> QED
    BY <1>2, <2>2, <2>4, <2>5, PoolTypeNext DEF StepOK
<1> QED
  BY <1>5, <1>6, <1>7 DEF CreateConnection

\* What closing a connection leaves behind.
LEMMA Disconnected ==
  ASSUME ChannelTypeOK, NEW c \in Clients, Disconnect(c)
  PROVE  /\ conn' \in [Clients -> {"none", "live", "dead"}] /\ wire' \in [Clients -> Seq(Outcomes)]
         /\ conn'[c] = "none" /\ \A d \in Clients \ {c} : conn'[d] = conn[d]
         /\ daemonUp' = daemonUp
BY DEF ChannelTypeOK, Disconnect

\* The ping of an idle client.
LEMMA GetPings == ASSUME TypeInv, NEW u \in Users, ValidateConnection(u) PROVE StepOK(u)
<1>0. BreakerTypeOK /\ UserTypeOK /\ ChannelTypeOK /\ FlagTypeOK /\ PlaceInv(u) /\ PoolTypeOK
  BY PoolTypeParts DEF TypeInv, APITypeOK
<1>1. at[u] = "ping" /\ UNCHANGED breakerVars /\ UNCHANGED <<available, closed, drained>>
  BY DEF ValidateConnection
<1>2. client[u] \in Clients /\ retries[u] < MaxRetries /\ retries[u] \in 0..MaxRetries
  BY <1>0, <1>1 DEF PlaceInv, HasClient, UserTypeOK
<1>3. BreakerTypeOK'
  BY <1>0, <1>1, BreakerTypes
<1>4. {"try", "after"} \subseteq Places /\ "ErrPoolExhausted" \in Errors /\ "ErrPoolExhausted" # "none"
      /\ "ok" \in Outcomes
  BY DEF Places, Errors, Outcomes
<1>5. ASSUME NEW x \in Execute(client[u], "ok"), wire' = [wire EXCEPT ![client[u]] = x.left],
             activeCount' = activeCount + 1, Return(u, "none"),
             UNCHANGED <<conn, daemonUp, createdCount, client, retries>>
      PROVE  StepOK(u)
  <2>1. at' = [at EXCEPT ![u] = "after"] /\ err' = [err EXCEPT ![u] = "none"]
    BY <1>5 DEF Return, Goto
  <2>2. UserTypeOK' /\ Moves(u) /\ at'[u] = "after"
    BY <1>0, <1>4, <1>5, <2>1, UserSet
  <2>3. err'[u] = "none"
    BY <1>0, <2>1 DEF UserTypeOK
  <2>4. PlaceInv(u)'
    BY <1>2, <1>5, <2>2, <2>3 DEF PlaceInv, HasClient, NoClientYet
  <2>5. x.left \in Seq(Outcomes)
    BY <1>0, <1>2, <1>4, ExecuteType
  <2>6. ChannelTypeOK' /\ FlagTypeOK'
    BY <1>0, <1>1, <1>2, <1>5, <2>5 DEF ChannelTypeOK, FlagTypeOK
  <2> QED
    BY <1>3, <2>2, <2>4, <2>6, PoolTypeNext DEF StepOK
<1>6. ASSUME Disconnect(client[u]), createdCount' = createdCount - 1, UNCHANGED activeCount,
             client' = [client EXCEPT ![u] = NoClient], retries' = [retries EXCEPT ![u] = @ + 1],
             IF retries[u] + 1 < MaxRetries THEN Goto(u, "try") /\ UNCHANGED err
                                            ELSE Return(u, "ErrPoolExhausted")
      PROVE  StepOK(u)
  <2>1. retries[u] + 1 \in 0..MaxRetries
    BY <1>2, PoolConstants
  <2>2. client'[u] = NoClient /\ retries'[u] = retries[u] + 1
    BY <1>0, <1>6 DEF UserTypeOK
  <2>3. ChannelTypeOK' /\ FlagTypeOK'
    BY <1>0, <1>1, <1>2, <1>6, Disconnected DEF ChannelTypeOK, FlagTypeOK
  <2>4. CASE retries[u] + 1 < MaxRetries
    <3>1. at' = [at EXCEPT ![u] = "try"] /\ UNCHANGED err
      BY <1>6, <2>4 DEF Goto
    <3>2. UserTypeOK' /\ Moves(u) /\ at'[u] = "try"
      BY <1>0, <1>4, <1>6, <2>1, <3>1, UserSet
    <3>3. PlaceInv(u)'
      BY <2>2, <2>4, <3>2 DEF PlaceInv, HasClient, NoClientYet
    <3> QED
      BY <1>3, <2>3, <3>2, <3>3, PoolTypeNext DEF StepOK
  <2>5. CASE ~(retries[u] + 1 < MaxRetries)
    <3>1. at' = [at EXCEPT ![u] = "after"] /\ err' = [err EXCEPT ![u] = "ErrPoolExhausted"]
      BY <1>6, <2>5 DEF Return, Goto
    <3>2. UserTypeOK' /\ Moves(u) /\ at'[u] = "after"
      BY <1>0, <1>4, <1>6, <2>1, <3>1, UserSet
    <3>3. err'[u] = "ErrPoolExhausted"
      BY <1>0, <3>1 DEF UserTypeOK
    <3>4. PlaceInv(u)'
      BY <1>4, <2>2, <3>2, <3>3, PoolConstants DEF PlaceInv, HasClient, NoClientYet
    <3> QED
      BY <1>3, <2>3, <3>2, <3>4, PoolTypeNext DEF StepOK
  <2> QED
    BY <2>4, <2>5
<1> QED
  BY <1>5, <1>6 DEF ValidateConnection
\* Put, Discard and the send that follows Put.
LEMMA Returns ==
  ASSUME TypeInv, NEW u \in Users, at[u] \in {"put", "send"},
         Put(u) \/ Discard(u) \/ SendAvailable(u)
  PROVE  StepOK(u)
<1>0. BreakerTypeOK /\ UserTypeOK /\ ChannelTypeOK /\ FlagTypeOK /\ PlaceInv(u) /\ PoolTypeOK
  BY PoolTypeParts DEF TypeInv, APITypeOK
<1>1. UNCHANGED breakerVars /\ UNCHANGED <<closed, drained>>
  BY DEF Put, Discard, SendAvailable
<1>2. client[u] \in Clients /\ retries[u] < MaxRetries
  BY <1>0 DEF PlaceInv, HasClient
<1>3. BreakerTypeOK'
  BY <1>0, <1>1, BreakerTypes
<1>4. {"idle", "send"} \subseteq Places /\ 0 \in 0..MaxRetries /\ 0 < MaxRetries
  BY PoolConstants DEF Places
<1>5. ASSUME ChannelTypeOK', FlagTypeOK', at' = [at EXCEPT ![u] = "idle"],
             client' = [client EXCEPT ![u] = NoClient],
             retries' = retries \/ retries' = [retries EXCEPT ![u] = 0],
             err' = err \/ err' = [err EXCEPT ![u] = "none"]
      PROVE  StepOK(u)
  <2>1. UserTypeOK' /\ Moves(u) /\ at'[u] = "idle"
    BY <1>0, <1>4, <1>5, UserSet
  <2>2. client'[u] = NoClient /\ retries'[u] < MaxRetries
    BY <1>0, <1>2, <1>4, <1>5 DEF UserTypeOK
  <2>3. PlaceInv(u)'
    BY <2>1, <2>2 DEF PlaceInv, HasClient, NoClientYet
  <2> QED
    BY <1>3, <1>5, <2>1, <2>3, PoolTypeNext DEF StepOK
<1>6. CASE Put(u) /\ ~closed
  <2>1. /\ at' = [at EXCEPT ![u] = "send"] /\ activeCount' = activeCount - 1
        /\ UNCHANGED <<conn, wire, daemonUp, client, available, createdCount, retries, err>>
    BY <1>6 DEF Put, Goto, connVars
  <2>2. UserTypeOK' /\ Moves(u) /\ at'[u] = "send"
    BY <1>0, <1>4, <2>1, UserSet
  <2>3. ChannelTypeOK' /\ FlagTypeOK'
    BY <1>0, <1>1, <2>1 DEF ChannelTypeOK, FlagTypeOK
  <2>4. PlaceInv(u)'
    BY <1>2, <2>1, <2>2 DEF PlaceInv, HasClient, NoClientYet
  <2> QED
    BY <1>3, <2>2, <2>3, <2>4, PoolTypeNext DEF StepOK
<1>7. CASE Put(u) /\ closed
  <2>1. /\ at' = [at EXCEPT ![u] = "idle"] /\ client' = [client EXCEPT ![u] = NoClient]
        /\ Disconnect(client[u])
        /\ UNCHANGED <<activeCount, createdCount, available, retries, err>>
    BY <1>7 DEF Put, Goto
  <2>2. ChannelTypeOK' /\ FlagTypeOK'
    BY <1>0, <1>1, <1>2, <2>1, Disconnected DEF ChannelTypeOK, FlagTypeOK
  <2> QED
    BY <1>5, <2>1, <2>2
<1>8. CASE Discard(u)
  <2>1. /\ at' = [at EXCEPT ![u] = "idle"] /\ client' = [client EXCEPT ![u] = NoClient]
        /\ Disconnect(client[u]) /\ activeCount' = activeCount - 1 /\ createdCount' = createdCount - 1
        /\ UNCHANGED <<available, retries, err>>
    BY <1>8 DEF Discard, Goto
  <2>2. ChannelTypeOK' /\ FlagTypeOK'
    BY <1>0, <1>1, <1>2, <2>1, Disconnected DEF ChannelTypeOK, FlagTypeOK
  <2> QED
    BY <1>5, <2>1, <2>2
<1>9. CASE SendAvailable(u) /\ drained
  <2>1. /\ at' = [at EXCEPT ![u] = "idle"] /\ client' = [client EXCEPT ![u] = NoClient]
        /\ err' = [err EXCEPT ![u] = "none"] /\ retries' = [retries EXCEPT ![u] = 0]
        /\ UNCHANGED <<available, activeCount, createdCount, conn, wire, daemonUp>>
    BY <1>9 DEF SendAvailable, Panics, Goto, countVars, connVars
  <2>2. ChannelTypeOK' /\ FlagTypeOK'
    BY <1>0, <1>1, <2>1 DEF ChannelTypeOK, FlagTypeOK
  <2> QED
    BY <1>5, <2>1, <2>2
<1>10. CASE SendAvailable(u) /\ ~drained
  <2>1. /\ at' = [at EXCEPT ![u] = "idle"] /\ client' = [client EXCEPT ![u] = NoClient]
        /\ UNCHANGED <<retries, err>>
    BY <1>10 DEF SendAvailable, Goto
  <2>2. CASE Len(available) < PoolSize
    <3>1. /\ available' = Append(available, client[u])
          /\ UNCHANGED <<activeCount, createdCount, conn, wire, daemonUp>>
      BY <1>10, <2>2 DEF SendAvailable, countVars, connVars
    <3>2. available' \in Seq(Clients)
      BY <1>0, <1>2, <3>1 DEF ChannelTypeOK
    <3>3. ChannelTypeOK' /\ FlagTypeOK'
      BY <1>0, <1>1, <3>1, <3>2 DEF ChannelTypeOK, FlagTypeOK
    <3> QED
      BY <1>5, <2>1, <3>3
  <2>3. CASE ~(Len(available) < PoolSize)
    <3>1. /\ Disconnect(client[u]) /\ createdCount' = createdCount - 1
          /\ UNCHANGED <<available, activeCount>>
      BY <1>10, <2>3 DEF SendAvailable
    <3>2. ChannelTypeOK' /\ FlagTypeOK'
      BY <1>0, <1>1, <1>2, <3>1, Disconnected DEF ChannelTypeOK, FlagTypeOK
    <3> QED
      BY <1>5, <2>1, <3>2
  <2> QED
    BY <2>2, <2>3
<1> QED
  BY <1>6, <1>7, <1>8, <1>9, <1>10

\* All steps of Get.
LEMMA GetStepOK == ASSUME TypeInv, NEW u \in Users, Get(u) PROVE StepOK(u)
BY GetQuiet, GetTakes, GetCreates, GetPings DEF Get

\* A handler's step between its place in Get and Put, whose only effect on
\* the pool is on what is unread on its connection.
LEMMA HandlerMoves ==
  ASSUME TypeInv, NEW u \in Users, NEW p \in Places, at' = [at EXCEPT ![u] = p],
         UNCHANGED <<breakerVars, available, closed, drained, countVars, conn, daemonUp, client, retries>>,
         UNCHANGED wire \/ \E l \in Seq(Outcomes) : wire' = [wire EXCEPT ![client[u]] = l],
         err' = err \/ err' = [err EXCEPT ![u] = "none"],
         at[u] # "after", p # "after", at[u] \in HasClient <=> p \in HasClient,
         at[u] \in HasClient => client[u] \in Clients
  PROVE  StepOK(u)
<1>0. BreakerTypeOK /\ UserTypeOK /\ ChannelTypeOK /\ FlagTypeOK /\ PlaceInv(u) /\ PoolTypeOK
  BY PoolTypeParts DEF TypeInv, APITypeOK
<1>1. BreakerTypeOK'
  BY <1>0, BreakerTypes
<1>2. ChannelTypeOK' /\ FlagTypeOK'
  BY <1>0 DEF ChannelTypeOK, FlagTypeOK, countVars
<1>3. UserTypeOK' /\ Moves(u) /\ at'[u] = p
  BY <1>0, UserSet
<1>4. at[u] \in Places /\ Places = HasClient \cup NoClientYet \cup {"after"}
  BY <1>0 DEF UserTypeOK, Places, HasClient, NoClientYet
<1>5. p \in NoClientYet => at[u] \in NoClientYet
  BY <1>4 DEF HasClient, NoClientYet
<1>6. PlaceInv(u)'
  BY <1>0, <1>3, <1>4, <1>5 DEF PlaceInv
<1> QED
  BY <1>1, <1>2, <1>3, <1>6, PoolTypeNext DEF StepOK
-----------------------------------------------------------------------------
(* Answers.                                                                *)

Untouched == {400, 413, 503, 504}

\* A handler that has written is one that writes, and an answer that it is
\* about to give says so.
AnswerInv(u) ==
  /\ job[u].done => job[u].of.writes
  /\ at[u] = "put" /\ answer[u].status \in Untouched => ~answer[u].wrote

\* What an answer leaves behind.
LEMMA Answered ==
  ASSUME TypeInv, NEW u \in Users, NEW j \in AllJobs, NEW s \in {200, 201, 404, 409, 500, 503},
         NEW d \in BOOLEAN, d => s # 503, Answer(u, j, s, d)
  PROVE  /\ at' = [at EXCEPT ![u] = "put"]
         /\ job' \in [Users -> JobRecord] /\ \A w \in Users \ {u} : job'[w] = job[w]
         /\ answer' \in [Users -> AnswerRecord] /\ \A w \in Users \ {u} : answer'[w] = answer[w]
         /\ ~job'[u].done
         /\ answer'[u].status \in Untouched => ~answer'[u].wrote
<1> DEFINE a == [status |-> s, wrote |-> d, discard |-> (j.discards /\ s # j.success)]
<1>1. NoJob \in JobRecord /\ NoJob.done = FALSE
  BY DEF NoJob, JobRecord, AllJobs, RequestJobs
<1>2. s \in Nat /\ (s \in Untouched => s = 503)
  BY DEF Untouched
<1>3. (j.discards /\ s # j.success) \in BOOLEAN
  OBVIOUS
<1>4. a \in AnswerRecord /\ a.status = s /\ a.wrote = d
  BY <1>2, <1>3 DEF AnswerRecord
<1>5. /\ at' = [at EXCEPT ![u] = "put"] /\ answer' = [answer EXCEPT ![u] = a]
      /\ job' = [job EXCEPT ![u] = NoJob]
  BY DEF Answer, Goto
<1> HIDE DEF a
<1>6. /\ job' \in [Users -> JobRecord] /\ job'[u] = NoJob /\ \A w \in Users \ {u} : job'[w] = job[w]
  BY <1>1, <1>5 DEF TypeInv, APITypeOK
<1>7. /\ answer' \in [Users -> AnswerRecord] /\ answer'[u] = a
      /\ \A w \in Users \ {u} : answer'[w] = answer[w]
  BY <1>4, <1>5 DEF TypeInv, APITypeOK
<1>8. a.status \in Untouched => ~a.wrote
  BY <1>2, <1>4
<1> QED
  BY <1>1, <1>5, <1>6, <1>7, <1>8

\* What one RPC of a handler leaves behind.
LEMMA Called ==
  ASSUME TypeInv, NEW u \in Users, at[u] = "have", NEW j \in AllJobs, NEW i \in Nat, NEW done \in BOOLEAN,
         done => j.writes, CallDaemon(u, j, i, done)
  PROVE  /\ \E p \in {"have", "put"} : at' = [at EXCEPT ![u] = p]
         /\ \E l \in Seq(Outcomes) : wire' = [wire EXCEPT ![client[u]] = l]
         /\ job' \in [Users -> JobRecord] /\ \A w \in Users \ {u} : job'[w] = job[w]
         /\ answer' \in [Users -> AnswerRecord] /\ \A w \in Users \ {u} : answer'[w] = answer[w]
         /\ job'[u].done => job'[u].of.writes
         /\ at'[u] = "put" /\ answer'[u].status \in Untouched => ~answer'[u].wrote
<1> DEFINE Ends(own, x) ==
        LET did == done \/ (j.writes /\ own = "ok" /\ conn[client[u]] = "live")
        IN  /\ wire' = [wire EXCEPT ![client[u]] = x.left]
            /\ \/ /\ x.reply = "ok" \/ ~j.fatal[i]
                  /\ \/ i \in j.ends /\ Answer(u, j, j.success, did)
                     \/ /\ i < Len(j.fatal)
                        /\ job' = [job EXCEPT ![u] = [of |-> j, i |-> i, done |-> did]]
                        /\ UNCHANGED <<at, answer>>
               \/ /\ j.fatal[i] /\ x.reply # "ok"
                  /\ Answer(u, j, j.fails[x.reply], did)
               \/ /\ j.fatal[i] /\ x.reply = "ok" /\ Mistaken(client[u])
                  /\ Answer(u, j, 500, did)
<1>0. JobOK(j) /\ client[u] \in Clients /\ PoolTypeOK /\ at \in [Users -> Places]
  BY JobsOK DEF TypeInv, PlaceInv, HasClient, APITypeOK, PoolTypeOK
<1>1. PICK own \in Outcomes : \E y \in Execute(client[u], own) : Ends(own, y)
  BY DEF CallDaemon
<1>1a. PICK x \in Execute(client[u], own) : Ends(own, x)
  BY <1>1
<1>2. x.left \in Seq(Outcomes) /\ x.reply \in Outcomes \cup {"io"}
  BY <1>0, ExecuteType
<1>3. PICK did \in BOOLEAN :
        /\ did => j.writes
        /\ \/ Answer(u, j, j.success, did)
           \/ /\ job' = [job EXCEPT ![u] = [of |-> j, i |-> i, done |-> did]]
              /\ UNCHANGED <<at, answer>>
           \/ x.reply # "ok" /\ Answer(u, j, j.fails[x.reply], did)
           \/ Answer(u, j, 500, did)
  <2> DEFINE did == done \/ (j.writes /\ own = "ok" /\ conn[client[u]] = "live")
  <2>1. did \in BOOLEAN /\ (did => j.writes)
    OBVIOUS
  <2>2. \/ Answer(u, j, j.success, did)
        \/ /\ job' = [job EXCEPT ![u] = [of |-> j, i |-> i, done |-> did]]
           /\ UNCHANGED <<at, answer>>
        \/ x.reply # "ok" /\ Answer(u, j, j.fails[x.reply], did)
        \/ Answer(u, j, 500, did)
    BY <1>1a
  <2> HIDE DEF did
  <2> QED
    BY <2>1, <2>2
<1>4. \E l \in Seq(Outcomes) : wire' = [wire EXCEPT ![client[u]] = l]
  BY <1>1a, <1>2
<1> DEFINE Goal ==
        /\ \E p \in {"have", "put"} : at' = [at EXCEPT ![u] = p]
        /\ job' \in [Users -> JobRecord] /\ \A w \in Users \ {u} : job'[w] = job[w]
        /\ answer' \in [Users -> AnswerRecord] /\ \A w \in Users \ {u} : answer'[w] = answer[w]
        /\ job'[u].done => job'[u].of.writes
        /\ at'[u] = "put" /\ answer'[u].status \in Untouched => ~answer'[u].wrote
<1>5. ASSUME NEW s \in {200, 201, 404, 409, 500, 503}, did => s # 503, Answer(u, j, s, did)
      PROVE  Goal
  <2>1. /\ at' = [at EXCEPT ![u] = "put"]
        /\ job' \in [Users -> JobRecord] /\ \A w \in Users \ {u} : job'[w] = job[w]
        /\ answer' \in [Users -> AnswerRecord] /\ \A w \in Users \ {u} : answer'[w] = answer[w]
        /\ ~job'[u].done
        /\ answer'[u].status \in Untouched => ~answer'[u].wrote
    BY <1>5, Answered
  <2> QED
    BY <2>1
<1>6. ASSUME Answer(u, j, j.success, did) PROVE Goal
  <2>1. j.success \in {200, 201}
    BY <1>0 DEF JobOK
  <2> HIDE DEF Goal
  <2> QED
    BY <1>5, <1>6, <2>1
<1>7. ASSUME x.reply # "ok", Answer(u, j, j.fails[x.reply], did) PROVE Goal
  <2>1. x.reply \in Failures
    BY <1>2, <1>7 DEF Failures, Outcomes
  <2>2. j.fails[x.reply] \in {404, 409, 500, 503} /\ (did => j.fails[x.reply] # 503)
    BY <1>0, <1>3, <2>1 DEF JobOK
  <2> HIDE DEF Goal
  <2> QED
    BY <1>5, <1>7, <2>2
<1>8. ASSUME Answer(u, j, 500, did) PROVE Goal
  <2> HIDE DEF Goal
  <2> QED
    BY <1>5, <1>8
<1>9. ASSUME job' = [job EXCEPT ![u] = [of |-> j, i |-> i, done |-> did]], UNCHANGED <<at, answer>>
      PROVE  Goal
  <2> DEFINE r == [of |-> j, i |-> i, done |-> did]
  <2>1. r \in JobRecord /\ r.of = j /\ r.done = did
    BY <1>3 DEF JobRecord
  <2>2. job' = [job EXCEPT ![u] = r]
    BY <1>9
  <2> HIDE DEF r
  <2>3. job' \in [Users -> JobRecord] /\ job'[u] = r /\ \A w \in Users \ {u} : job'[w] = job[w]
    BY <2>1, <2>2 DEF TypeInv, APITypeOK
  <2>4. answer' \in [Users -> AnswerRecord] /\ at'[u] = "have" /\ at' = [at EXCEPT ![u] = "have"]
    BY <1>0, <1>9 DEF TypeInv, APITypeOK
  <2> QED
    BY <1>3, <1>9, <2>1, <2>3, <2>4
<1>10. Goal
  <2> HIDE DEF Goal
  <2> QED
    BY <1>3, <1>6, <1>7, <1>8, <1>9
<1> QED
  BY <1>4, <1>10
-----------------------------------------------------------------------------
(* The inductive invariant of the server: types and places, what answers   *)
(* say, and who is still there when StartServer has come how far.          *)

Stages == {"up", "draining", "forced", "stopping", "closing", "down"}

ServerInv ==
  /\ server \in {"stopping", "closing", "down"} => \A r \in Requests \ h2c : at[r] = "idle"
  /\ server \in {"closing", "down"} => \A u \in Background : at[u] = "idle"
  /\ closed => server \in {"closing", "down"}
  /\ drained => closed

APIInv == TypeInv /\ (\A u \in Users : AnswerInv(u)) /\ ServerInv

\* What every step of user u guarantees: the users, jobs and answers of the
\* others, the pool's flags and the server are as they were; h2c loses u only
\* when u ends, and u goes on only where the server has not stopped waiting.
UserStepOK(u) ==
  /\ StepOK(u) /\ AnswerInv(u)'
  /\ job' \in [Users -> JobRecord] /\ \A w \in Users \ {u} : job'[w] = job[w]
  /\ answer' \in [Users -> AnswerRecord] /\ \A w \in Users \ {u} : answer'[w] = answer[w]
  /\ closed' = closed /\ drained' = drained /\ server' = server
  /\ h2c' \subseteq Requests /\ \A w \in Users \ {u} : w \in h2c' <=> w \in h2c
  /\ at'[u] # "idle" =>
       \/ u \in h2c'
       \/ server \in {"up", "draining", "forced"}
       \/ u \in Background /\ server = "stopping"

\* The server's state without the users.
LEMMA APITypeNext ==
  ASSUME PoolTypeOK', job' \in [Users -> JobRecord], answer' \in [Users -> AnswerRecord],
         h2c' \subseteq Requests, server' \in Stages
  PROVE  APITypeOK'
BY DEF APITypeOK, Stages

\* Such a step keeps the invariant.
LEMMA UserStepKeeps == ASSUME APIInv, NEW u \in Users, UserStepOK(u) PROVE APIInv'
<1>1. PoolTypeOK' /\ APITypeOK' /\ server \in Stages
  <2>1. server \in Stages
    BY DEF APIInv, TypeInv, APITypeOK, Stages
  <2>2. PoolTypeOK' /\ server' \in Stages
    BY <2>1 DEF UserStepOK, StepOK
  <2> QED
    BY <2>1, <2>2, APITypeNext DEF UserStepOK
<1>2. ASSUME NEW w \in Users PROVE PlaceInv(w)' /\ AnswerInv(w)'
  <2>1. CASE w = u
    BY <2>1 DEF UserStepOK, StepOK
  <2>2. CASE w # u
    <3>1. /\ at'[w] = at[w] /\ client'[w] = client[w] /\ retries'[w] = retries[w] /\ err'[w] = err[w]
          /\ job'[w] = job[w] /\ answer'[w] = answer[w]
      BY <1>2, <2>2 DEF UserStepOK, StepOK, Moves
    <3>2. PlaceInv(w) /\ AnswerInv(w)
      BY <1>2 DEF APIInv, TypeInv
    <3>3. PlaceInv(w)'
      BY <3>1, <3>2 DEF PlaceInv
    <3> QED
      BY <3>1, <3>2, <3>3 DEF AnswerInv
  <2> QED
    BY <2>1, <2>2
<1>3. ServerInv'
  <2>0. ServerInv /\ closed' = closed /\ drained' = drained /\ server' = server /\ Users = Requests \cup Background
        /\ Requests \cap Background = {}
    BY APIConstants DEF APIInv, UserStepOK
  <2>1. \A w \in Users \ {u} : at'[w] = at[w] /\ (w \in h2c' <=> w \in h2c)
    BY DEF UserStepOK, StepOK, Moves
  <2>2. ASSUME server \in {"stopping", "closing", "down"}, NEW r \in Requests, r \notin h2c' PROVE at'[r] = "idle"
    <3>1. CASE r = u
      BY <2>0, <2>2, <3>1 DEF UserStepOK
    <3>2. CASE r # u
      BY <2>0, <2>1, <2>2, <3>2 DEF ServerInv
    <3> QED
      BY <3>1, <3>2
  <2>3. ASSUME server \in {"closing", "down"}, NEW r \in Background PROVE at'[r] = "idle"
    <3>1. CASE r = u
      <4>1. u \notin h2c'
        BY <2>0, <2>3, <3>1 DEF UserStepOK
      <4> QED
        BY <2>3, <3>1, <4>1 DEF UserStepOK
    <3>2. CASE r # u
      BY <2>0, <2>1, <2>3, <3>2 DEF ServerInv
    <3> QED
      BY <3>1, <3>2
  <2> QED
    BY <2>0, <2>2, <2>3 DEF ServerInv
<1> QED
  BY <1>1, <1>2, <1>3 DEF APIInv, TypeInv

\* A user who is under way is one that the server waits for, or on h2c.
LEMMA UnderWay ==
  ASSUME APIInv, NEW u \in Users, at[u] # "idle"
  PROVE  u \in h2c \/ server \in {"up", "draining", "forced"} \/ (u \in Background /\ server = "stopping")
BY APIConstants DEF APIInv, ServerInv, TypeInv, APITypeOK

\* A user's step that changes neither its job nor its answer.
LEMMA PoolStepKeeps ==
  ASSUME APIInv, NEW u \in Users, StepOK(u), at[u] # "idle", at'[u] # "put",
         UNCHANGED <<job, server, closed, drained>>,
         UNCHANGED answer \/ \E a \in AnswerRecord : answer' = [answer EXCEPT ![u] = a],
         h2c' = h2c \/ (at'[u] = "idle" /\ h2c' = h2c \ {u})
  PROVE  UserStepOK(u)
<1>1. AnswerInv(u) /\ job \in [Users -> JobRecord] /\ answer \in [Users -> AnswerRecord] /\ h2c \subseteq Requests
  BY DEF APIInv, TypeInv, APITypeOK
<1>2. AnswerInv(u)'
  BY <1>1 DEF AnswerInv
<1>3. answer' \in [Users -> AnswerRecord] /\ \A w \in Users \ {u} : answer'[w] = answer[w]
  BY <1>1
<1>4. at'[u] # "idle" => u \in h2c' \/ server \in {"up", "draining", "forced"} \/ (u \in Background /\ server = "stopping")
  BY UnderWay
<1> QED
  BY <1>1, <1>2, <1>3, <1>4 DEF UserStepOK

\* No step of Get ends where the handler puts its client back.
LEMMA GetIsNotPut ==
  ASSUME APIInv, NEW u \in Users, Get(u)
  PROVE  at[u] # "idle" /\ at'[u] # "put" /\ UNCHANGED <<closed, drained>>
<1>1. at \in [Users -> Places]
  BY DEF APIInv, TypeInv, APITypeOK, PoolTypeOK
<1>2. CASE BeforeRequest(u) \/ ContextDone(u) \/ CheckClosed(u) \/ AfterRequest(u)
  BY <1>1, <1>2 DEF BeforeRequest, ContextDone, CheckClosed, AfterRequest, Return, Goto
<1>3. CASE TakeAvailable(u) \/ WaitAvailable(u)
  BY <1>1, <1>3 DEF TakeAvailable, WaitAvailable, Receive, ReceiveNil, Panics, Return, Goto
<1>4. CASE ReserveSlot(u) \/ CreateConnection(u) \/ ValidateConnection(u)
  BY <1>1, <1>4 DEF ReserveSlot, CreateConnection, ValidateConnection, Return, Goto
<1> QED
  BY <1>2, <1>3, <1>4 DEF Get
\* An answer with another status is an answer.
LEMMA StatusIsAnAnswer == ASSUME NEW s \in Nat PROVE [NoAnswer EXCEPT !.status = s] \in AnswerRecord
<1>1. NoAnswer \in AnswerRecord
  BY DEF NoAnswer, AnswerRecord
<1>2. ASSUME NEW r \in AnswerRecord PROVE [r EXCEPT !.status = s] \in AnswerRecord
  BY DEF AnswerRecord
<1> QED
  BY <1>1, <1>2

\* A request arrives or a round of the subscriber begins; a request is
\* rejected.
LEMMA Arrivals == ASSUME APIInv, NEW u \in Users, Begin(u) \/ Reject(u) PROVE UserStepOK(u)
<1>0. TypeInv /\ job \in [Users -> JobRecord] /\ answer \in [Users -> AnswerRecord] /\ h2c \subseteq Requests
      /\ at \in [Users -> Places] /\ at[u] = "idle" /\ AnswerInv(u)
  BY DEF APIInv, TypeInv, APITypeOK, PoolTypeOK, Begin, Reject
<1>1. UNCHANGED <<closed, drained, server, job>>
  BY DEF Begin, Reject
<1>2. PICK p \in {"start", "reply"} : at' = [at EXCEPT ![u] = p]
  BY DEF Begin, Reject, Goto
<1>3. StepOK(u)
  <2>1. p \in Places /\ p # "after" /\ ~(p \in HasClient) /\ ~(at[u] \in HasClient) /\ at[u] # "after"
    BY <1>0, <1>2 DEF Places, HasClient
  <2>2. UNCHANGED <<breakerVars, available, closed, drained, countVars, conn, daemonUp, client, retries>>
        /\ UNCHANGED wire /\ err' = err
    BY DEF Begin, Reject, connVars
  <2> QED
    BY <1>0, <1>2, <2>1, <2>2, HandlerMoves
<1>4. at'[u] = p
  BY <1>0, <1>2
<1>5. answer' \in [Users -> AnswerRecord] /\ \A w \in Users \ {u} : answer'[w] = answer[w]
  <2>1. CASE Begin(u)
    BY <1>0, <2>1 DEF Begin
  <2>2. CASE Reject(u)
    <3>1. PICK j \in RequestJobs : \E s \in j.rejects :
            answer' = [answer EXCEPT ![u] = [NoAnswer EXCEPT !.status = s]]
      BY <2>2 DEF Reject
    <3>2. PICK s \in j.rejects : answer' = [answer EXCEPT ![u] = [NoAnswer EXCEPT !.status = s]]
      BY <3>1
    <3>3. j.rejects \subseteq {400, 413}
      BY JobsOK DEF JobOK, AllJobs
    <3> DEFINE a == [NoAnswer EXCEPT !.status = s]
    <3>4. a \in AnswerRecord
      BY <3>2, <3>3, StatusIsAnAnswer
    <3>5. answer' = [answer EXCEPT ![u] = a]
      BY <3>2
    <3> HIDE DEF a
    <3> QED
      BY <1>0, <3>4, <3>5
  <2> QED
    BY <2>1, <2>2
<1>6. AnswerInv(u)'
  BY <1>0, <1>1, <1>2, <1>4 DEF AnswerInv
<1>7. h2c' \subseteq Requests /\ \A w \in Users \ {u} : w \in h2c' <=> w \in h2c
  BY <1>0 DEF Begin, Reject
<1>8. u \in h2c' \/ server \in {"up", "draining", "forced"}
  BY DEF Begin, Reject
<1> QED
  BY <1>0, <1>1, <1>3, <1>5, <1>6, <1>7, <1>8 DEF UserStepOK

\* A handler that got no client answers; a reply ends the handler.
LEMMA WithoutClient == ASSUME APIInv, NEW u \in Users, Unavailable(u) \/ Reply(u) PROVE UserStepOK(u)
<1>0. TypeInv /\ at \in [Users -> Places] /\ at[u] \in {"failed", "reply"}
  BY DEF APIInv, TypeInv, APITypeOK, PoolTypeOK, Unavailable, Reply
<1>1. PICK p \in {"reply", "idle"} : at' = [at EXCEPT ![u] = p]
  BY DEF Unavailable, Reply, Goto
<1>2. at'[u] = p
  BY <1>0, <1>1
<1>3. StepOK(u)
  <2>1. p \in Places /\ p # "after" /\ ~(p \in HasClient) /\ ~(at[u] \in HasClient) /\ at[u] # "after"
    BY <1>0, <1>1 DEF Places, HasClient
  <2>2. UNCHANGED <<breakerVars, available, closed, drained, countVars, conn, daemonUp, client, retries>>
        /\ UNCHANGED wire /\ (err' = err \/ err' = [err EXCEPT ![u] = "none"])
    BY DEF Unavailable, Reply, connVars
  <2> QED
    BY <1>0, <1>1, <2>1, <2>2, HandlerMoves
<1>4. \E a \in AnswerRecord : answer' = [answer EXCEPT ![u] = a]
  <2>1. CASE Unavailable(u)
    <3>1. PICK j \in Jobs(u) : answer' = [answer EXCEPT ![u] = [NoAnswer EXCEPT !.status =
                    IF err[u] = "DeadlineExceeded" THEN j.timeout ELSE 503]]
      BY <2>1 DEF Unavailable
    <3>2. j.timeout \in {503, 504}
      BY JobsOK DEF JobOK, AllJobs, Jobs
    <3> DEFINE a == [NoAnswer EXCEPT !.status = IF err[u] = "DeadlineExceeded" THEN j.timeout ELSE 503]
    <3>3. a \in AnswerRecord
      BY <3>2, StatusIsAnAnswer
    <3>4. answer' = [answer EXCEPT ![u] = a]
      BY <3>1
    <3> HIDE DEF a
    <3> QED
      BY <3>3, <3>4
  <2>2. CASE Reply(u)
    BY <2>2 DEF Reply, NoAnswer, AnswerRecord
  <2> QED
    BY <2>1, <2>2
<1>5. UNCHANGED <<job, server, closed, drained>> /\ (h2c' = h2c \/ (at'[u] = "idle" /\ h2c' = h2c \ {u}))
  <2>1. CASE Unavailable(u)
    BY <2>1 DEF Unavailable
  <2>2. CASE Reply(u)
    BY <1>0, <2>2 DEF Reply, Leave, Goto
  <2> QED
    BY <2>1, <2>2
<1>6. at[u] # "idle" /\ at'[u] # "put"
  BY <1>0, <1>1, <1>2
<1> QED
  BY <1>3, <1>4, <1>5, <1>6, PoolStepKeeps

\* Get, Put, Discard and the send that follows Put.
LEMMA WithThePool ==
  ASSUME APIInv, NEW u \in Users, GetStep(u) \/ PutBack(u) \/ SendBack(u)
  PROVE  UserStepOK(u)
<1>0. TypeInv /\ at \in [Users -> Places]
  BY DEF APIInv, TypeInv, APITypeOK, PoolTypeOK
<1>1. CASE GetStep(u)
  <2>1. Get(u) /\ UNCHANGED <<job, answer, server>> /\ (h2c' = h2c \/ (at'[u] = "idle" /\ h2c' = h2c \ {u}))
    BY <1>1 DEF GetStep
  <2> QED
    BY <1>0, <2>1, GetStepOK, GetIsNotPut, PoolStepKeeps
<1>2. CASE PutBack(u)
  <2>1. /\ Discard(u) \/ Put(u)
        /\ at[u] = "put" /\ answer' = [answer EXCEPT ![u] = NoAnswer] /\ UNCHANGED <<job, server>>
        /\ h2c' = h2c \/ (at'[u] = "idle" /\ h2c' = h2c \ {u})
    BY <1>2 DEF PutBack
  <2>2. StepOK(u)
    BY <1>0, <2>1, Returns
  <2>3. at'[u] # "put" /\ UNCHANGED <<closed, drained>>
    BY <1>0, <2>1 DEF Discard, Put, Goto
  <2>4. NoAnswer \in AnswerRecord
    BY DEF NoAnswer, AnswerRecord
  <2> QED
    BY <2>1, <2>2, <2>3, <2>4, PoolStepKeeps
<1>3. CASE SendBack(u)
  <2>1. /\ SendAvailable(u) /\ UNCHANGED <<job, answer, server>> /\ h2c' = h2c \ {u} /\ at[u] = "send"
    BY <1>3 DEF SendBack, Leave, SendAvailable
  <2>2. at'[u] = "idle" /\ UNCHANGED <<closed, drained>>
    BY <1>0, <2>1 DEF SendAvailable, Panics, Goto
  <2>3. StepOK(u)
    BY <1>0, <2>1, Returns
  <2> QED
    BY <2>1, <2>2, <2>3, PoolStepKeeps
<1> QED
  BY <1>1, <1>2, <1>3

\* A handler's call to the daemon.
LEMMA WithTheDaemon == ASSUME APIInv, NEW u \in Users, Handle(u) PROVE UserStepOK(u)
<1>0. TypeInv /\ at \in [Users -> Places] /\ at[u] = "have" /\ AnswerInv(u) /\ job[u] \in JobRecord
      /\ h2c \subseteq Requests /\ client[u] \in Clients
  BY DEF APIInv, TypeInv, APITypeOK, PoolTypeOK, Handle, PlaceInv, HasClient
<1>1. PICK j \in AllJobs, i \in Nat, done \in BOOLEAN : (done => j.writes) /\ CallDaemon(u, j, i, done)
  <2>1. CASE job[u].i = 0 /\ \E j \in Jobs(u) : CallDaemon(u, j, 1, FALSE)
    BY <2>1 DEF Jobs, AllJobs
  <2>2. CASE job[u].i # 0 /\ CallDaemon(u, job[u].of, job[u].i + 1, job[u].done)
    BY <1>0, <2>2 DEF JobRecord, AnswerInv
  <2> QED
    BY <2>1, <2>2 DEF Handle
<1>2. /\ \E p \in {"have", "put"} : at' = [at EXCEPT ![u] = p]
      /\ \E l \in Seq(Outcomes) : wire' = [wire EXCEPT ![client[u]] = l]
      /\ job' \in [Users -> JobRecord] /\ \A w \in Users \ {u} : job'[w] = job[w]
      /\ answer' \in [Users -> AnswerRecord] /\ \A w \in Users \ {u} : answer'[w] = answer[w]
      /\ job'[u].done => job'[u].of.writes
      /\ at'[u] = "put" /\ answer'[u].status \in Untouched => ~answer'[u].wrote
  BY <1>0, <1>1, Called
<1>3. PICK p \in {"have", "put"} : at' = [at EXCEPT ![u] = p]
  BY <1>2
<1>4. StepOK(u)
  <2>1. p \in Places /\ p # "after" /\ p \in HasClient /\ at[u] \in HasClient /\ at[u] # "after"
    BY <1>0, <1>3 DEF Places, HasClient
  <2>2. UNCHANGED <<breakerVars, available, closed, drained, countVars, conn, daemonUp, client, retries>>
        /\ err' = err
    BY DEF Handle
  <2> QED
    BY <1>0, <1>2, <1>3, <2>1, <2>2, HandlerMoves
<1>5. AnswerInv(u)'
  BY <1>2 DEF AnswerInv
<1>6. UNCHANGED <<closed, drained, server, h2c>>
  BY DEF Handle
<1>7. u \in h2c \/ server \in {"up", "draining", "forced"} \/ (u \in Background /\ server = "stopping")
  BY <1>0, UnderWay
<1> QED
  BY <1>0, <1>2, <1>4, <1>5, <1>6, <1>7 DEF UserStepOK
\* Steps of the server, the daemon and the clock leave users and answers.
LEMMA Elsewhere ==
  ASSUME APIInv, UNCHANGED <<at, client, retries, err, job, answer, h2c>>,
         PoolTypeOK', server' \in Stages, ServerInv'
  PROVE  APIInv'
<1>1. APITypeOK'
  <2>1. job' \in [Users -> JobRecord] /\ answer' \in [Users -> AnswerRecord] /\ h2c' \subseteq Requests
    BY DEF APIInv, TypeInv, APITypeOK
  <2> QED
    BY <2>1, APITypeNext
<1>2. ASSUME NEW u \in Users PROVE PlaceInv(u)' /\ AnswerInv(u)'
  BY DEF APIInv, TypeInv, PlaceInv, AnswerInv
<1> QED
  BY <1>1, <1>2 DEF APIInv, TypeInv

\* The pool's types when only the server moves.
LEMMA QuietTypes == ASSUME PoolTypeOK, UNCHANGED poolVars PROVE PoolTypeOK'
BY DEF PoolTypeOK, poolVars, breakerVars, countVars, connVars, userVars

\* The shutdown of StartServer, up to pool.Close.
LEMMA ShutdownKeeps ==
  ASSUME APIInv, ShutdownBegins \/ Drained \/ DrainTimesOut \/ SubscriberStopped
  PROVE  APIInv'
<1>0. PoolTypeOK /\ ServerInv /\ UNCHANGED poolVars /\ UNCHANGED <<job, answer, h2c>>
  BY DEF APIInv, TypeInv, APITypeOK, ShutdownBegins, Drained, DrainTimesOut, SubscriberStopped
<1>1. UNCHANGED <<at, client, retries, err, closed, drained>>
  BY <1>0 DEF poolVars, userVars
<1>2. PoolTypeOK'
  BY <1>0, QuietTypes
<1>3. server' \in Stages
  BY DEF ShutdownBegins, Drained, DrainTimesOut, SubscriberStopped, Stages
<1>4. ServerInv'
  BY <1>0, <1>1 DEF ServerInv, ShutdownBegins, Drained, DrainTimesOut, SubscriberStopped
<1> QED
  BY <1>0, <1>1, <1>2, <1>3, <1>4, Elsewhere

\* pool.Close, the daemon and OpenTimeout.
LEMMA SurroundingsKeep ==
  ASSUME APIInv, ClosePool \/ Daemon \/ TimeoutPasses
  PROVE  APIInv'
<1>0. PoolTypeOK /\ ServerInv /\ UNCHANGED <<at, client, retries, err, job, answer, h2c>>
  BY DEF APIInv, TypeInv, APITypeOK, ClosePool, Close, CloseChannel, Daemon, DaemonStops, DaemonStarts,
     TimeoutPasses, OpenTimeoutExpires, userVars
<1>1. BreakerTypeOK /\ UserTypeOK /\ ChannelTypeOK /\ FlagTypeOK
  BY <1>0, PoolTypeParts
<1>2. UserTypeOK'
  BY <1>0, <1>1 DEF UserTypeOK
<1>3. BreakerTypeOK'
  <2>1. CASE UNCHANGED breakerVars
    BY <1>1, <2>1 DEF BreakerTypeOK, breakerVars
  <2>2. CASE expired' = TRUE /\ UNCHANGED <<bstate, consecutiveFail, halfOpenProbes, probing, lost>>
    BY <1>1, <2>2 DEF BreakerTypeOK
  <2> QED
    BY <2>1, <2>2 DEF ClosePool, Close, CloseChannel, Daemon, DaemonStops, DaemonStarts,
       TimeoutPasses, OpenTimeoutExpires
<1>4. FlagTypeOK'
  BY <1>1 DEF FlagTypeOK, ClosePool, Close, CloseChannel, Daemon, DaemonStops, DaemonStarts,
     TimeoutPasses, OpenTimeoutExpires, connVars
<1>5. ChannelTypeOK'
  <2>1. CASE UNCHANGED <<available, activeCount, createdCount, conn, wire>>
    BY <1>1, <2>1 DEF ChannelTypeOK
  <2>2. CASE DaemonStops
    BY <1>1, <2>2 DEF ChannelTypeOK, DaemonStops, countVars
  <2>3. CASE CloseChannel
    <3>1. available' = <<>> /\ UNCHANGED <<activeCount, createdCount>>
      BY <2>3 DEF CloseChannel, countVars
    <3>2. conn' \in [Clients -> {"none", "live", "dead"}]
      BY <1>1, <2>3 DEF CloseChannel, ChannelTypeOK
    <3>3. wire' \in [Clients -> Seq(Outcomes)]
      <4>1. <<>> \in Seq(Outcomes) /\ \A c \in Clients : wire[c] \in Seq(Outcomes)
        BY <1>1 DEF ChannelTypeOK
      <4> QED
        BY <2>3, <4>1 DEF CloseChannel
    <3> QED
      BY <1>1, <3>1, <3>2, <3>3 DEF ChannelTypeOK
  <2> QED
    BY <2>1, <2>2, <2>3 DEF ClosePool, Close, Daemon, DaemonStarts, TimeoutPasses, OpenTimeoutExpires,
       countVars, connVars
<1>6. server \in Stages /\ server' \in Stages
  BY DEF APIInv, TypeInv, APITypeOK, ClosePool, Daemon, TimeoutPasses, Stages
<1>7. ServerInv'
  BY <1>0 DEF ServerInv, ClosePool, Close, CloseChannel, Daemon, DaemonStops, DaemonStarts, TimeoutPasses,
     OpenTimeoutExpires
<1> QED
  BY <1>0, <1>2, <1>3, <1>4, <1>5, <1>6, <1>7, PoolTypeNext, Elsewhere

\* The invariant holds at the start.
LEMMA APIInitially == APIInit => APIInv
<1> SUFFICES ASSUME APIInit PROVE APIInv
  OBVIOUS
<1>1. PoolTypeOK
  <2>1. <<>> \in Seq(Clients) /\ <<>> \in Seq(Outcomes)
    OBVIOUS
  <2>2. 0 \in 0..FailureThreshold /\ 0 \in 0..HalfOpenMaxProbes /\ 0 \in 0..MaxRetries
    BY PoolConstants
  <2>3. BreakerTypeOK
    BY <2>2 DEF APIInit, PoolInit, BreakerTypeOK
  <2>4. UserTypeOK
    BY <2>2 DEF APIInit, PoolInit, UserTypeOK, Places
  <2>5. ChannelTypeOK
    BY <2>1 DEF APIInit, PoolInit, ChannelTypeOK
  <2>6. FlagTypeOK
    BY DEF APIInit, PoolInit, FlagTypeOK
  <2> QED
    BY <2>3, <2>4, <2>5, <2>6, PoolTypeParts
<1>2. APITypeOK
  <2>1. NoJob \in JobRecord /\ NoAnswer \in AnswerRecord
    BY DEF NoJob, JobRecord, AllJobs, RequestJobs, NoAnswer, AnswerRecord
  <2>2. job \in [Users -> JobRecord] /\ answer \in [Users -> AnswerRecord]
    BY <2>1 DEF APIInit
  <2> QED
    BY <1>1, <2>2 DEF APITypeOK, APIInit
<1>3. ASSUME NEW u \in Users PROVE PlaceInv(u) /\ AnswerInv(u)
  <2>1. at[u] = "idle" /\ client[u] = NoClient /\ retries[u] = 0 /\ job[u] = NoJob
    BY DEF APIInit, PoolInit
  <2> QED
    BY <2>1, PoolConstants DEF PlaceInv, AnswerInv, HasClient, NoClientYet, NoJob
<1>4. ServerInv
  BY APIConstants DEF ServerInv, APIInit, PoolInit
<1> QED
  BY <1>2, <1>3, <1>4 DEF APIInv, TypeInv

\* Every step keeps it.
LEMMA APIKeeps == APIInv /\ [APINext]_apiVars => APIInv'
<1> SUFFICES ASSUME APIInv, [APINext]_apiVars PROVE APIInv'
  OBVIOUS
<1>1. ASSUME NEW u \in Users, Begin(u) \/ Reject(u) \/ Step(u) PROVE APIInv'
  <2>1. UserStepOK(u)
    BY <1>1, Arrivals, WithoutClient, WithThePool, WithTheDaemon DEF Step
  <2> QED
    BY <2>1, UserStepKeeps
<1>2. CASE Shutdown
  BY <1>2, ShutdownKeeps, SurroundingsKeep DEF Shutdown
<1>3. CASE Daemon \/ TimeoutPasses
  BY <1>3, SurroundingsKeep
<1>4. CASE UNCHANGED apiVars
  <2>1. UNCHANGED <<at, client, retries, err, closed, drained, job, answer, h2c, server>> /\ UNCHANGED poolVars
    BY <1>4 DEF apiVars, poolVars, userVars
  <2>2. PoolTypeOK' /\ ServerInv' /\ server' \in Stages
    BY <2>1, QuietTypes DEF APIInv, TypeInv, APITypeOK, ServerInv, Stages
  <2> QED
    BY <2>1, <2>2, Elsewhere
<1> QED
  BY <1>1, <1>2, <1>3, <1>4 DEF APINext, Terminated

\* The pool's state has its types.
THEOREM PoolTypeCorrect == APISpec => []PoolTypeOK
<1>1. APIInv => PoolTypeOK
  BY DEF APIInv, TypeInv, APITypeOK
<1> QED
  BY <1>1, APIInitially, APIKeeps, PTL DEF APISpec

\* An answer of 503 or 504, or one that blames the request, is never given
\* for a write that the daemon has done.
THEOREM UnavailableIsUntouched == APISpec => []UnavailableMeansUntouched
<1>1. APIInv => UnavailableMeansUntouched
  BY APIConstants DEF APIInv, AnswerInv, UnavailableMeansUntouched, Untouched
<1> QED
  BY <1>1, APIInitially, APIKeeps, PTL DEF APISpec

\* When the pool is closed only users on hijacked connections are under way:
\* StartServer has waited for the other requests and for the subscriber.
THEOREM ThePoolClosesLast == APISpec => []PoolOutlivesItsUsers
<1>1. APIInv => PoolOutlivesItsUsers
  BY APIConstants DEF APIInv, ServerInv, PoolOutlivesItsUsers
<1> QED
  BY <1>1, APIInitially, APIKeeps, PTL DEF APISpec
-----------------------------------------------------------------------------
(* Owners of connections.                                                  *)

In(c, s) == \E i \in DOMAIN s : s[i] = c
Distinct(s) == \A i, j \in DOMAIN s : i # j => s[i] # s[j]

\* What is in a sequence and in its tail.
LEMMA TailHas ==
  ASSUME NEW s \in Seq(Clients), s # <<>>
  PROVE  /\ Tail(s) \in Seq(Clients) /\ Head(s) \in Clients /\ Len(Tail(s)) = Len(s) - 1
         /\ \A c : In(c, s) <=> c = Head(s) \/ In(c, Tail(s))
         /\ Distinct(s) => Distinct(Tail(s)) /\ ~In(Head(s), Tail(s))
<1>1. /\ Len(s) \in Nat \ {0} /\ DOMAIN s = 1..Len(s) /\ Head(s) = s[1] /\ Head(s) \in Clients
      /\ Tail(s) \in Seq(Clients) /\ Len(Tail(s)) = Len(s) - 1 /\ DOMAIN Tail(s) = 1..(Len(s) - 1)
      /\ \A i \in 1..(Len(s) - 1) : Tail(s)[i] = s[i + 1]
  OBVIOUS
<1>2. ASSUME NEW c, In(c, s) PROVE c = Head(s) \/ In(c, Tail(s))
  <2>1. PICK i \in 1..Len(s) : s[i] = c
    BY <1>1, <1>2 DEF In
  <2>2. CASE i = 1
    BY <1>1, <2>1, <2>2
  <2>3. CASE i # 1
    <3>1. i - 1 \in 1..(Len(s) - 1) /\ (i - 1) + 1 = i
      BY <1>1, <2>3
    <3> QED
      BY <1>1, <2>1, <3>1 DEF In
  <2> QED
    BY <2>2, <2>3
<1>3. ASSUME NEW c, c = Head(s) \/ In(c, Tail(s)) PROVE In(c, s)
  <2>1. CASE c = Head(s)
    BY <1>1, <2>1 DEF In
  <2>2. CASE In(c, Tail(s))
    <3>1. PICK i \in 1..(Len(s) - 1) : s[i + 1] = c
      BY <1>1, <2>2 DEF In
    <3>2. i + 1 \in 1..Len(s)
      BY <1>1
    <3> QED
      BY <1>1, <3>1, <3>2 DEF In
  <2> QED
    BY <1>3, <2>1, <2>2
<1>4. ASSUME Distinct(s) PROVE Distinct(Tail(s)) /\ ~In(Head(s), Tail(s))
  <2>1. \A i, j \in 1..Len(s) : i # j => s[i] # s[j]
    BY <1>1, <1>4 DEF Distinct
  <2>2. \A i \in 1..(Len(s) - 1) : i + 1 \in 1..Len(s) /\ i + 1 # 1
    BY <1>1
  <2>3. ~In(Head(s), Tail(s))
    BY <1>1, <2>1, <2>2 DEF In
  <2>4. \A i, j \in 1..(Len(s) - 1) : i # j => i + 1 # j + 1
    BY <1>1
  <2>5. Distinct(Tail(s))
    BY <1>1, <2>1, <2>2, <2>4 DEF Distinct
  <2> QED
    BY <2>3, <2>5
<1> QED
  BY <1>1, <1>2, <1>3, <1>4

\* What is in a sequence to which something is appended.
LEMMA AppendHas ==
  ASSUME NEW s \in Seq(Clients), NEW a \in Clients
  PROVE  /\ Append(s, a) \in Seq(Clients) /\ Len(Append(s, a)) = Len(s) + 1
         /\ \A c : In(c, Append(s, a)) <=> c = a \/ In(c, s)
         /\ Distinct(s) /\ ~In(a, s) => Distinct(Append(s, a))
<1> DEFINE t == Append(s, a)
<1>1. /\ t \in Seq(Clients) /\ Len(s) \in Nat /\ Len(t) = Len(s) + 1
      /\ DOMAIN s = 1..Len(s) /\ DOMAIN t = 1..(Len(s) + 1)
      /\ t[Len(s) + 1] = a /\ \A i \in 1..Len(s) : t[i] = s[i]
  OBVIOUS
<1> HIDE DEF t
<1>2. 1..(Len(s) + 1) = (1..Len(s)) \cup {Len(s) + 1} /\ Len(s) + 1 \notin 1..Len(s)
  BY <1>1
<1>3. \A c : In(c, t) <=> c = a \/ In(c, s)
  BY <1>1, <1>2 DEF In
<1>4. ASSUME Distinct(s), ~In(a, s) PROVE Distinct(t)
  <2>1. ASSUME NEW i \in 1..(Len(s) + 1), NEW j \in 1..(Len(s) + 1), i # j PROVE t[i] # t[j]
    <3>1. CASE i \in 1..Len(s) /\ j \in 1..Len(s)
      BY <1>1, <1>4, <2>1, <3>1 DEF Distinct
    <3>2. CASE i \notin 1..Len(s) /\ j \in 1..Len(s)
      BY <1>1, <1>2, <1>4, <3>2 DEF In
    <3>3. CASE i \in 1..Len(s) /\ j \notin 1..Len(s)
      BY <1>1, <1>2, <1>4, <3>3 DEF In
    <3> QED
      BY <1>2, <2>1, <3>1, <3>2, <3>3
  <2> QED
    BY <1>1, <2>1 DEF Distinct
<1> QED
  BY <1>1, <1>3, <1>4 DEF t

OwnerInv ==
  /\ \A v, w \in Users : v # w /\ client[v] # NoClient => client[v] # client[w]
  /\ \A w \in Users : client[w] # NoClient => conn[client[w]] # "none" /\ ~In(client[w], available)
  /\ Distinct(available)
  /\ \A c \in Clients : In(c, available) => conn[c] # "none"
  /\ \A c \in Clients : conn[c] # "none" => In(c, available) \/ drained \/ \E w \in Users : client[w] = c

OwnerTypes ==
  /\ client \in [Users -> Clients \cup {NoClient}]
  /\ conn \in [Clients -> {"none", "live", "dead"}] /\ available \in Seq(Clients)

\* The invariant says what PoolAccounting says of owners.
LEMMA OwnersMean == OwnerInv => OneOwnerPerConnection
BY DEF OwnerInv, OneOwnerPerConnection, Holds, InPool, In, Distinct

\* A user receives the oldest client of the channel.
LEMMA OwnerReceives ==
  ASSUME OwnerTypes, OwnerInv, NEW u \in Users, client[u] = NoClient, available # <<>>,
         available' = Tail(available), client' = [client EXCEPT ![u] = Head(available)],
         UNCHANGED <<conn, drained>>
  PROVE  OwnerInv'
<1> DEFINE h == Head(available)
<1>1. /\ Tail(available) \in Seq(Clients) /\ h \in Clients
      /\ \A c : In(c, available) <=> c = h \/ In(c, Tail(available))
      /\ Distinct(Tail(available)) /\ ~In(h, Tail(available))
  BY TailHas DEF OwnerTypes, OwnerInv
<1> HIDE DEF h
<1>2. client'[u] = h /\ \A w \in Users \ {u} : client'[w] = client[w]
  BY DEF OwnerTypes, h
<1>3. \A w \in Users : client[w] # NoClient => client[w] # h
  BY <1>1 DEF OwnerInv
<1>4. h # NoClient /\ conn[h] # "none" /\ In(h, available)
  BY <1>1, PoolConstants DEF OwnerInv
<1>5. \A v, w \in Users : v # w /\ client'[v] # NoClient => client'[v] # client'[w]
  <2> SUFFICES ASSUME NEW v \in Users, NEW w \in Users, v # w, client'[v] # NoClient PROVE client'[v] # client'[w]
    OBVIOUS
  <2>1. CASE v = u
    BY <1>2, <1>3, <1>4, <2>1
  <2>2. CASE w = u
    BY <1>2, <1>3, <2>2
  <2>3. CASE v # u /\ w # u
    BY <1>2, <2>3 DEF OwnerInv
  <2> QED
    BY <2>1, <2>2, <2>3
<1>6. ASSUME NEW w \in Users, client'[w] # NoClient PROVE conn[client'[w]] # "none" /\ ~In(client'[w], Tail(available))
  <2>1. CASE w = u
    BY <1>1, <1>2, <1>4, <2>1
  <2>2. CASE w # u
    BY <1>1, <1>2, <1>6, <2>2 DEF OwnerInv
  <2> QED
    BY <2>1, <2>2
<1>7. \A c \in Clients : In(c, Tail(available)) => conn[c] # "none"
  BY <1>1 DEF OwnerInv
<1>8. ASSUME NEW c \in Clients, conn[c] # "none" PROVE In(c, Tail(available)) \/ drained \/ \E w \in Users : client'[w] = c
  <2>1. CASE c = h
    BY <1>2, <2>1
  <2>2. CASE \E w \in Users : client[w] = c
    <3>1. PICK w \in Users : client[w] = c
      BY <2>2
    <3>2. w # u
      BY <3>1, PoolConstants
    <3> QED
      BY <1>2, <3>1, <3>2
  <2> QED
    BY <1>1, <1>8, <2>1, <2>2 DEF OwnerInv
<1> QED
  BY <1>1, <1>5, <1>6, <1>7, <1>8 DEF OwnerInv

\* A user dials a new connection.
LEMMA OwnerCreates ==
  ASSUME OwnerTypes, OwnerInv, NEW u \in Users, client[u] = NoClient, NEW c \in Clients, conn[c] = "none",
         conn' = [conn EXCEPT ![c] = "live"], client' = [client EXCEPT ![u] = c],
         UNCHANGED <<available, drained>>
  PROVE  OwnerInv'
<1>1. client'[u] = c /\ c # NoClient /\ \A w \in Users \ {u} : client'[w] = client[w]
  BY PoolConstants DEF OwnerTypes
<1>2. conn'[c] = "live" /\ \A d \in Clients \ {c} : conn'[d] = conn[d]
  BY DEF OwnerTypes
<1>3. ~In(c, available) /\ \A w \in Users : client[w] # c
  BY PoolConstants DEF OwnerInv
<1>4. ASSUME NEW v \in Users, NEW w \in Users, v # w, client'[v] # NoClient PROVE client'[v] # client'[w]
  <2>1. CASE v = u
    BY <1>1, <1>3, <1>4, <2>1
  <2>2. CASE w = u
    BY <1>1, <1>3, <1>4, <2>2
  <2>3. CASE v # u /\ w # u
    BY <1>1, <1>4, <2>3 DEF OwnerInv
  <2> QED
    BY <2>1, <2>2, <2>3
<1>5. ASSUME NEW w \in Users, client'[w] # NoClient PROVE conn'[client'[w]] # "none" /\ ~In(client'[w], available)
  <2>1. CASE w = u
    BY <1>1, <1>2, <1>3, <2>1
  <2>2. CASE w # u
    <3>1. client'[w] = client[w] /\ client[w] \in Clients \ {c}
      BY <1>1, <1>3, <1>5, <2>2 DEF OwnerTypes
    <3> QED
      BY <1>2, <1>5, <3>1 DEF OwnerInv
  <2> QED
    BY <2>1, <2>2
<1>6. \A d \in Clients : In(d, available) => conn'[d] # "none"
  BY <1>2, <1>3 DEF OwnerInv
<1>7. ASSUME NEW d \in Clients, conn'[d] # "none" PROVE In(d, available) \/ drained \/ \E w \in Users : client'[w] = d
  <2>1. CASE d = c
    BY <1>1, <2>1
  <2>2. CASE d # c /\ \E w \in Users : client[w] = d
    <3>1. PICK w \in Users : client[w] = d
      BY <2>2
    <3>2. w # u
      BY <3>1, PoolConstants
    <3> QED
      BY <1>1, <3>1, <3>2
  <2>3. CASE d # c /\ ~\E w \in Users : client[w] = d
    BY <1>2, <1>7, <2>3 DEF OwnerInv
  <2> QED
    BY <2>1, <2>2, <2>3
<1> QED
  BY <1>4, <1>5, <1>6, <1>7 DEF OwnerInv

\* A user closes its connection.
LEMMA OwnerDrops ==
  ASSUME OwnerTypes, OwnerInv, NEW u \in Users, client[u] \in Clients, Disconnect(client[u]),
         client' = [client EXCEPT ![u] = NoClient], UNCHANGED <<available, drained>>
  PROVE  OwnerInv'
<1> DEFINE c == client[u]
<1>0. c \in Clients /\ c # NoClient
  BY PoolConstants
<1>1. client'[u] = NoClient /\ \A w \in Users \ {u} : client'[w] = client[w]
  BY DEF OwnerTypes
<1>2. conn'[c] = "none" /\ \A d \in Clients \ {c} : conn'[d] = conn[d]
  BY DEF OwnerTypes, Disconnect
<1>3. ~In(c, available) /\ \A w \in Users \ {u} : client[w] # c
  BY <1>0 DEF OwnerInv
<1> HIDE DEF c
<1>4. ASSUME NEW v \in Users, NEW w \in Users, v # w, client'[v] # NoClient PROVE client'[v] # client'[w]
  <2>1. v # u
    BY <1>1, <1>4
  <2>2. CASE w = u
    BY <1>1, <1>4, <2>2
  <2>3. CASE w # u
    BY <1>1, <1>4, <2>1, <2>3 DEF OwnerInv
  <2> QED
    BY <2>2, <2>3
<1>5. ASSUME NEW w \in Users, client'[w] # NoClient PROVE conn'[client'[w]] # "none" /\ ~In(client'[w], available)
  <2>1. w # u
    BY <1>1, <1>5
  <2>2. client'[w] = client[w] /\ client[w] \in Clients \ {c}
    BY <1>1, <1>3, <1>5, <2>1 DEF OwnerTypes
  <2> QED
    BY <1>2, <1>5, <2>2 DEF OwnerInv
<1>6. ASSUME NEW d \in Clients, In(d, available) PROVE conn'[d] # "none"
  BY <1>2, <1>3, <1>6 DEF OwnerInv
<1>7. ASSUME NEW d \in Clients, conn'[d] # "none" PROVE In(d, available) \/ drained \/ \E w \in Users : client'[w] = d
  <2>1. d # c /\ conn[d] # "none"
    BY <1>2, <1>7
  <2>2. CASE \E w \in Users : client[w] = d
    <3>1. PICK w \in Users : client[w] = d
      BY <2>2
    <3>2. w # u
      BY <2>1, <3>1 DEF c
    <3> QED
      BY <1>1, <3>1, <3>2
  <2>3. CASE ~\E w \in Users : client[w] = d
    BY <2>1, <2>3 DEF OwnerInv
  <2> QED
    BY <2>2, <2>3
<1> QED
  BY <1>4, <1>5, <1>6, <1>7 DEF OwnerInv

\* A user puts its client back into the channel.
LEMMA OwnerReturns ==
  ASSUME OwnerTypes, OwnerInv, NEW u \in Users, client[u] \in Clients,
         available' = Append(available, client[u]),
         client' = [client EXCEPT ![u] = NoClient], UNCHANGED <<conn, drained>>
  PROVE  OwnerInv'
<1> DEFINE c == client[u]
<1>0. c \in Clients /\ c # NoClient
  BY PoolConstants
<1>1. client'[u] = NoClient /\ \A w \in Users \ {u} : client'[w] = client[w]
  BY DEF OwnerTypes
<1>2. ~In(c, available) /\ conn[c] # "none" /\ \A w \in Users \ {u} : client[w] # c
  BY <1>0 DEF OwnerInv
<1>3. (\A d : In(d, available') <=> d = c \/ In(d, available)) /\ Distinct(available')
  BY <1>0, <1>2, AppendHas DEF OwnerTypes, OwnerInv
<1> HIDE DEF c
<1>4. ASSUME NEW v \in Users, NEW w \in Users, v # w, client'[v] # NoClient PROVE client'[v] # client'[w]
  <2>1. v # u
    BY <1>1, <1>4
  <2>2. CASE w = u
    BY <1>1, <1>4, <2>2
  <2>3. CASE w # u
    BY <1>1, <1>4, <2>1, <2>3 DEF OwnerInv
  <2> QED
    BY <2>2, <2>3
<1>5. ASSUME NEW w \in Users, client'[w] # NoClient PROVE conn[client'[w]] # "none" /\ ~In(client'[w], available')
  <2>1. w # u
    BY <1>1, <1>5
  <2>2. client'[w] = client[w] /\ client[w] # c
    BY <1>1, <1>2, <2>1
  <2> QED
    BY <1>3, <1>5, <2>2 DEF OwnerInv
<1>6. \A d \in Clients : In(d, available') => conn[d] # "none"
  BY <1>2, <1>3 DEF OwnerInv
<1>7. ASSUME NEW d \in Clients, conn[d] # "none" PROVE In(d, available') \/ drained \/ \E w \in Users : client'[w] = d
  <2>1. CASE \E w \in Users : client[w] = d
    <3>1. PICK w \in Users : client[w] = d
      BY <2>1
    <3>2. CASE w = u
      BY <1>3, <3>1, <3>2 DEF c
    <3>3. CASE w # u
      BY <1>1, <3>1, <3>3
    <3> QED
      BY <3>2, <3>3
  <2>2. CASE ~\E w \in Users : client[w] = d
    BY <1>3, <1>7, <2>2 DEF OwnerInv
  <2> QED
    BY <2>1, <2>2
<1> QED
  BY <1>3, <1>4, <1>5, <1>6, <1>7 DEF OwnerInv

\* A panic loses the client of a user, which can only happen once the channel
\* is closed.
LEMMA OwnerPanics ==
  ASSUME OwnerTypes, OwnerInv, NEW u \in Users, client[u] = NoClient \/ drained,
         client' = [client EXCEPT ![u] = NoClient], UNCHANGED <<conn, drained, available>>
  PROVE  OwnerInv'
<1>1. client'[u] = NoClient /\ \A w \in Users \ {u} : client'[w] = client[w]
  BY DEF OwnerTypes
<1>2. ASSUME NEW v \in Users, NEW w \in Users, v # w, client'[v] # NoClient PROVE client'[v] # client'[w]
  <2>1. v # u
    BY <1>1, <1>2
  <2>2. CASE w = u
    BY <1>1, <1>2, <2>2
  <2>3. CASE w # u
    BY <1>1, <1>2, <2>1, <2>3 DEF OwnerInv
  <2> QED
    BY <2>2, <2>3
<1>3. ASSUME NEW w \in Users, client'[w] # NoClient PROVE conn[client'[w]] # "none" /\ ~In(client'[w], available)
  BY <1>1, <1>3 DEF OwnerInv
<1>4. ASSUME NEW d \in Clients, conn[d] # "none" PROVE In(d, available) \/ drained \/ \E w \in Users : client'[w] = d
  <2>1. CASE client[u] = NoClient
    <3>1. client' = client
      BY <2>1 DEF OwnerTypes
    <3> QED
      BY <1>4, <3>1 DEF OwnerInv
  <2> QED
    BY <2>1
<1> QED
  BY <1>2, <1>3, <1>4 DEF OwnerInv

\* close(p.available) disconnects what is in the channel; a daemon that stops
\* breaks connections, which keep their owners.
LEMMA OwnersElsewhere ==
  ASSUME OwnerTypes, OwnerInv, UNCHANGED client,
         \/ CloseChannel
         \/ DaemonStops
         \/ UNCHANGED <<available, conn, drained>>
  PROVE  OwnerInv'
<1>1. CASE CloseChannel
  <2>1. available' = <<>> /\ drained' /\ \A c \in Clients : conn'[c] = IF In(c, available) THEN "none" ELSE conn[c]
    BY <1>1 DEF CloseChannel, In
  <2>2. Distinct(available') /\ \A c : ~In(c, available')
    BY <2>1 DEF Distinct, In
  <2>3. ASSUME NEW w \in Users, client[w] # NoClient PROVE conn'[client[w]] # "none"
    <3>1. client[w] \in Clients /\ ~In(client[w], available)
      BY <2>3 DEF OwnerInv, OwnerTypes
    <3> QED
      BY <2>1, <2>3, <3>1 DEF OwnerInv
  <2> QED
    BY <2>1, <2>2, <2>3 DEF OwnerInv
<1>2. CASE DaemonStops
  <2>1. /\ UNCHANGED <<available, drained>>
        /\ \A c \in Clients : conn'[c] # "none" <=> conn[c] # "none"
    BY <1>2 DEF DaemonStops, OwnerTypes
  <2>2. ASSUME NEW w \in Users, client[w] # NoClient PROVE conn'[client[w]] # "none"
    <3>1. client[w] \in Clients
      BY <2>2 DEF OwnerTypes
    <3> QED
      BY <2>1, <2>2, <3>1 DEF OwnerInv
  <2> QED
    BY <2>1, <2>2 DEF OwnerInv
<1>3. CASE UNCHANGED <<available, conn, drained>>
  BY <1>3 DEF OwnerInv
<1> QED
  BY <1>1, <1>2, <1>3
-----------------------------------------------------------------------------
(* createdCount and activeCount.                                           *)

Made == {w \in Users : client[w] # NoClient \/ at[w] = "dial"}
Busy == {w \in Users : at[w] = "dial" \/ (client[w] # NoClient /\ at[w] \notin {"ping", "send"})}

CountInv ==
  ~closed =>
    /\ createdCount = Len(available) + Cardinality(Made)
    /\ activeCount = Cardinality(Busy)
    /\ createdCount <= PoolSize

MadeBy(u) == IF client[u] # NoClient \/ at[u] = "dial" THEN 1 ELSE 0
BusyBy(u) == IF at[u] = "dial" \/ (client[u] # NoClient /\ at[u] \notin {"ping", "send"}) THEN 1 ELSE 0

\* The counters follow what user u has.
CountStep(u) ==
  /\ createdCount' = createdCount + (Len(available') - Len(available)) + (MadeBy(u)' - MadeBy(u))
  /\ activeCount' = activeCount + (BusyBy(u)' - BusyBy(u))
  /\ createdCount' <= createdCount \/ createdCount' <= PoolSize

\* Two sets of users that differ at most in u.
LEMMA SetStep ==
  ASSUME NEW S \in SUBSET Users, NEW T \in SUBSET Users, NEW u \in Users,
         \A w \in Users \ {u} : w \in S <=> w \in T
  PROVE  /\ Cardinality(S) \in Nat /\ Cardinality(T) \in Nat
         /\ Cardinality(T) = Cardinality(S) + ((IF u \in T THEN 1 ELSE 0) - (IF u \in S THEN 1 ELSE 0))
<1>1. IsFiniteSet(S) /\ IsFiniteSet(T)
  BY FS_Subset, PoolConstants
<1>2. Cardinality(S) \in Nat /\ Cardinality(T) \in Nat
  BY <1>1, FS_CardinalityType
<1>3. CASE u \in S /\ u \notin T
  <2>1. T = S \ {u}
    BY <1>3
  <2> QED
    BY <1>1, <1>2, <1>3, <2>1, FS_RemoveElement
<1>4. CASE u \notin S /\ u \in T
  <2>1. T = S \cup {u}
    BY <1>4
  <2> QED
    BY <1>1, <1>2, <1>4, <2>1, FS_AddElement
<1>5. CASE u \in S <=> u \in T
  <2>1. S = T
    BY <1>5
  <2> QED
    BY <1>2, <2>1
<1> QED
  BY <1>2, <1>3, <1>4, <1>5

\* A step that moves the counters with the user keeps the invariant.
LEMMA CountKeeps ==
  ASSUME PoolTypeOK, PoolTypeOK', CountInv, NEW u \in Users, Moves(u), UNCHANGED closed, ~closed => CountStep(u)
  PROVE  CountInv'
<1> SUFFICES ASSUME ~closed PROVE CountInv'
  BY DEF CountInv
<1>1. /\ Cardinality(Made) \in Nat /\ Cardinality(Made') \in Nat
      /\ Cardinality(Made') = Cardinality(Made) + (MadeBy(u)' - MadeBy(u))
  <2>1. Made \in SUBSET Users /\ Made' \in SUBSET Users /\ \A w \in Users \ {u} : w \in Made <=> w \in Made'
    BY DEF Made, Moves
  <2>2. MadeBy(u) = (IF u \in Made THEN 1 ELSE 0) /\ MadeBy(u)' = (IF u \in Made' THEN 1 ELSE 0)
    BY DEF Made, MadeBy
  <2> QED
    BY <2>1, <2>2, SetStep
<1>2. /\ Cardinality(Busy) \in Nat /\ Cardinality(Busy') \in Nat
      /\ Cardinality(Busy') = Cardinality(Busy) + (BusyBy(u)' - BusyBy(u))
  <2>1. Busy \in SUBSET Users /\ Busy' \in SUBSET Users /\ \A w \in Users \ {u} : w \in Busy <=> w \in Busy'
    BY DEF Busy, Moves
  <2>2. BusyBy(u) = (IF u \in Busy THEN 1 ELSE 0) /\ BusyBy(u)' = (IF u \in Busy' THEN 1 ELSE 0)
    BY DEF Busy, BusyBy
  <2> QED
    BY <2>1, <2>2, SetStep
<1>3. Len(available) \in Nat /\ Len(available') \in Nat /\ createdCount \in Int /\ createdCount' \in Int /\ PoolSize \in Nat
  BY PoolConstants DEF PoolTypeOK
<1>4. MadeBy(u) \in Int /\ MadeBy(u)' \in Int /\ BusyBy(u) \in Int /\ BusyBy(u)' \in Int
  BY DEF MadeBy, BusyBy
<1>5. createdCount = Len(available) + Cardinality(Made) /\ activeCount = Cardinality(Busy) /\ createdCount <= PoolSize
  BY DEF CountInv
<1>6. createdCount' = Len(available') + Cardinality(Made') /\ createdCount' <= PoolSize
  <2>1. /\ createdCount' = createdCount + (Len(available') - Len(available)) + (MadeBy(u)' - MadeBy(u))
        /\ createdCount' <= createdCount \/ createdCount' <= PoolSize
    BY DEF CountStep
  <2>2. createdCount' = Len(available') + (Cardinality(Made) + (MadeBy(u)' - MadeBy(u)))
    <3>1. PICK c \in Int, n \in Nat, o \in Nat, k \in Nat, m \in Int, g \in Int :
             /\ c = createdCount' /\ n = Len(available') /\ o = Len(available) /\ k = Cardinality(Made)
             /\ m = MadeBy(u)' /\ g = MadeBy(u)
      BY <1>1, <1>3, <1>4
    <3>2. c = (o + k) + (n - o) + (m - g)
      BY <1>5, <2>1, <3>1
    <3>3. c = n + (k + (m - g))
      BY <3>2
    <3> QED
      BY <3>1, <3>3
  <2>3. createdCount' <= PoolSize
    BY <1>3, <1>5, <2>1
  <2> QED
    BY <1>1, <2>2, <2>3
<1>7. activeCount' = Cardinality(Busy')
  BY <1>2, <1>4, <1>5 DEF CountStep
<1> QED
  BY <1>6, <1>7 DEF CountInv

AccountStep(u) == OwnerInv' /\ (~closed => CountStep(u))

\* Steps that leave channel, connections and counters alone, and a user's
\* client with it.
LEMMA QuietAccount ==
  ASSUME APIInv, OwnerInv, NEW u \in Users, UNCHANGED <<client, available, conn, drained, activeCount, createdCount>>,
         at[u] \notin {"dial", "ping", "send"}, at'[u] \notin {"dial", "ping", "send"}
  PROVE  AccountStep(u)
<1>1. OwnerTypes /\ createdCount \in Int /\ activeCount \in Int /\ Len(available) \in Nat
  BY DEF APIInv, TypeInv, APITypeOK, PoolTypeOK, OwnerTypes
<1>2. OwnerInv'
  BY <1>1, OwnersElsewhere
<1>3. MadeBy(u)' = MadeBy(u) /\ BusyBy(u)' = BusyBy(u) /\ MadeBy(u) \in Int /\ BusyBy(u) \in Int
  BY DEF MadeBy, BusyBy
<1>4. CountStep(u)
  BY <1>1, <1>3 DEF CountStep
<1> QED
  BY <1>2, <1>4 DEF AccountStep

\* Steps of the handlers, and of Get where it only decides.
LEMMA DecidingAccount ==
  ASSUME APIInv, OwnerInv, NEW u \in Users,
         \/ Begin(u) \/ Reject(u) \/ Unavailable(u) \/ Reply(u) \/ Handle(u)
         \/ BeforeRequest(u) \/ ContextDone(u) \/ CheckClosed(u) \/ AfterRequest(u)
  PROVE  AccountStep(u)
<1>0. at \in [Users -> Places] /\ TypeInv
  BY DEF APIInv, TypeInv, APITypeOK, PoolTypeOK
<1>1. CASE Begin(u) \/ Reject(u) \/ Unavailable(u) \/ Reply(u)
  <2>1. UNCHANGED <<client, available, conn, drained, activeCount, createdCount>>
    BY <1>1 DEF Begin, Reject, Unavailable, Reply, countVars, connVars
  <2>2. at[u] \notin {"dial", "ping", "send"} /\ at'[u] \notin {"dial", "ping", "send"}
    BY <1>0, <1>1 DEF Begin, Reject, Unavailable, Reply, Goto
  <2> QED
    BY <2>1, <2>2, QuietAccount
<1>2. CASE BeforeRequest(u) \/ ContextDone(u) \/ CheckClosed(u) \/ AfterRequest(u)
  <2>1. UNCHANGED <<client, available, conn, drained, activeCount, createdCount>>
    BY <1>2 DEF BeforeRequest, ContextDone, CheckClosed, AfterRequest, countVars, connVars
  <2>2. at[u] \notin {"dial", "ping", "send"} /\ at'[u] \notin {"dial", "ping", "send"}
    BY <1>0, <1>2 DEF BeforeRequest, ContextDone, CheckClosed, AfterRequest, Return, Goto
  <2> QED
    BY <2>1, <2>2, QuietAccount
<1>3. CASE Handle(u)
  <2>1. UNCHANGED <<client, available, conn, drained, activeCount, createdCount>> /\ at[u] = "have"
    BY <1>3 DEF Handle, countVars
  <2>2. at'[u] \in {"have", "put"}
    <3>1. \/ UNCHANGED at
          \/ at' = [at EXCEPT ![u] = "put"]
      <4>1. ASSUME NEW j, NEW i, NEW done, CallDaemon(u, j, i, done)  PROVE <3>1!:
        BY <4>1 DEF CallDaemon, Answer, Goto
      <4> QED
        BY <1>3, <4>1 DEF Handle
    <3> QED
      BY <1>0, <2>1, <3>1
  <2> QED
    BY <2>1, <2>2, QuietAccount
<1> QED
  BY <1>1, <1>2, <1>3

\* A client is taken from the channel, or the user goes on without one.
LEMMA TakingAccount ==
  ASSUME APIInv, OwnerInv, NEW u \in Users, TakeAvailable(u) \/ WaitAvailable(u)
  PROVE  AccountStep(u)
<1>0. /\ at \in [Users -> Places] /\ OwnerTypes /\ createdCount \in Int /\ activeCount \in Int
      /\ client[u] = NoClient /\ at[u] \in {"take", "wait"} /\ Len(available) \in Nat
      /\ drained => closed
  BY DEF APIInv, TypeInv, APITypeOK, PoolTypeOK, OwnerTypes, TakeAvailable, WaitAvailable, PlaceInv,
     NoClientYet, ServerInv
<1>1. UNCHANGED <<closed, drained, activeCount, createdCount, conn>>
  BY DEF TakeAvailable, WaitAvailable, countVars, connVars
<1>2. CASE Receive(u)
  <2>1. /\ available # <<>> /\ available' = Tail(available) /\ at' = [at EXCEPT ![u] = "ping"]
        /\ client' = [client EXCEPT ![u] = Head(available)]
    BY <1>2 DEF Receive, Goto
  <2>2. OwnerInv'
    BY <1>0, <1>1, <2>1, OwnerReceives
  <2>3. Len(available') = Len(available) - 1 /\ Head(available) \in Clients
    BY <1>0, <2>1, TailHas DEF OwnerTypes
  <2>4. client'[u] # NoClient /\ at'[u] = "ping"
    BY <1>0, <2>1, <2>3, PoolConstants DEF OwnerTypes
  <2>5. MadeBy(u) = 0 /\ MadeBy(u)' = 1 /\ BusyBy(u) = 0 /\ BusyBy(u)' = 0
    BY <1>0, <2>4 DEF MadeBy, BusyBy
  <2>6. CountStep(u)
    BY <1>0, <1>1, <2>3, <2>5 DEF CountStep
  <2> QED
    BY <2>2, <2>6 DEF AccountStep
<1>3. CASE ReceiveNil(u)
  <2>1. drained /\ UNCHANGED available /\ client' = [client EXCEPT ![u] = NoClient]
    BY <1>3 DEF ReceiveNil, Panics
  <2>2. OwnerInv'
    BY <1>0, <1>1, <2>1, OwnerPanics
  <2> QED
    BY <1>0, <2>1, <2>2 DEF AccountStep
<1>4. CASE at' \in {[at EXCEPT ![u] = "create"], [at EXCEPT ![u] = "after"]} /\ UNCHANGED <<available, client>>
  <2>1. at'[u] \in {"create", "after"}
    BY <1>0, <1>4
  <2> QED
    BY <1>0, <1>1, <1>4, <2>1, QuietAccount
<1> QED
  BY <1>2, <1>3, <1>4 DEF TakeAvailable, WaitAvailable, Return, Goto

\* A slot is reserved, a connection dialled or found stale.
LEMMA CreatingAccount ==
  ASSUME APIInv, OwnerInv, NEW u \in Users, ReserveSlot(u) \/ CreateConnection(u) \/ ValidateConnection(u)
  PROVE  AccountStep(u)
<1>0. /\ at \in [Users -> Places] /\ OwnerTypes /\ createdCount \in Int /\ activeCount \in Int
      /\ Len(available) \in Nat /\ PlaceInv(u) /\ PoolSize \in Nat
  BY PoolConstants DEF APIInv, TypeInv, APITypeOK, PoolTypeOK, OwnerTypes
<1>1. UNCHANGED <<closed, drained, available>>
  BY DEF ReserveSlot, CreateConnection, ValidateConnection
<1>2. CASE ReserveSlot(u)
  <2>1. UNCHANGED <<conn, client>> /\ at[u] = "create" /\ client[u] = NoClient
    BY <1>0, <1>2 DEF ReserveSlot, PlaceInv, NoClientYet, connVars
  <2>2. OwnerInv'
    BY <1>0, <1>1, <2>1, OwnersElsewhere
  <2>3. CASE createdCount < PoolSize
    <3>1. createdCount' = createdCount + 1 /\ activeCount' = activeCount + 1 /\ at'[u] = "dial"
      BY <1>0, <1>2, <2>3 DEF ReserveSlot, Goto
    <3>2. MadeBy(u) = 0 /\ MadeBy(u)' = 1 /\ BusyBy(u) = 0 /\ BusyBy(u)' = 1
      BY <2>1, <3>1 DEF MadeBy, BusyBy
    <3>3. CountStep(u)
      BY <1>0, <1>1, <2>3, <3>1, <3>2 DEF CountStep
    <3> QED
      BY <2>2, <3>3 DEF AccountStep
  <2>4. CASE ~(createdCount < PoolSize)
    <3>1. UNCHANGED <<activeCount, createdCount>> /\ at'[u] = "wait"
      BY <1>0, <1>2, <2>4 DEF ReserveSlot, Goto, countVars
    <3> QED
      BY <1>1, <2>1, <3>1, QuietAccount
  <2> QED
    BY <2>3, <2>4
<1>3. CASE CreateConnection(u)
  <2>1. at[u] = "dial" /\ client[u] = NoClient /\ at'[u] = "after"
    BY <1>0, <1>3 DEF CreateConnection, PlaceInv, NoClientYet, Return, Goto
  <2>2. CASE TryConnectWithTimeout
    <3>1. PICK c \in Clients : /\ conn[c] = "none" /\ conn' = [conn EXCEPT ![c] = "live"]
                               /\ client' = [client EXCEPT ![u] = c]
      BY <1>3, <2>2 DEF CreateConnection
    <3>2. UNCHANGED <<activeCount, createdCount>>
      BY <1>3, <2>2 DEF CreateConnection, countVars
    <3>3. OwnerInv'
      BY <1>0, <1>1, <2>1, <3>1, OwnerCreates
    <3>4. client'[u] # NoClient
      BY <1>0, <3>1, PoolConstants DEF OwnerTypes
    <3>5. MadeBy(u) = 1 /\ MadeBy(u)' = 1 /\ BusyBy(u) = 1 /\ BusyBy(u)' = 1
      BY <2>1, <3>4 DEF MadeBy, BusyBy
    <3>6. CountStep(u)
      BY <1>0, <1>1, <3>2, <3>5 DEF CountStep
    <3> QED
      BY <3>3, <3>6 DEF AccountStep
  <2>3. CASE ~TryConnectWithTimeout
    <3>1. createdCount' = createdCount - 1 /\ activeCount' = activeCount - 1 /\ UNCHANGED <<conn, client>>
      BY <1>3, <2>3 DEF CreateConnection
    <3>2. OwnerInv'
      BY <1>0, <1>1, <3>1, OwnersElsewhere
    <3>3. MadeBy(u) = 1 /\ MadeBy(u)' = 0 /\ BusyBy(u) = 1 /\ BusyBy(u)' = 0
      BY <2>1, <3>1 DEF MadeBy, BusyBy
    <3>4. CountStep(u)
      BY <1>0, <1>1, <3>1, <3>3 DEF CountStep
    <3> QED
      BY <3>2, <3>4 DEF AccountStep
  <2> QED
    BY <2>2, <2>3
<1>4. CASE ValidateConnection(u)
  <2>1. at[u] = "ping" /\ client[u] \in Clients /\ client[u] # NoClient
    BY <1>0, <1>4, PoolConstants DEF ValidateConnection, PlaceInv, HasClient
  <2>2. CASE activeCount' = activeCount + 1 /\ Return(u, "none") /\ UNCHANGED <<conn, createdCount, client>>
    <3>1. OwnerInv'
      BY <1>0, <1>1, <2>2, OwnersElsewhere
    <3>2. at'[u] = "after"
      BY <1>0, <2>2 DEF Return, Goto
    <3>3. MadeBy(u) = 1 /\ MadeBy(u)' = 1 /\ BusyBy(u) = 0 /\ BusyBy(u)' = 1
      BY <2>1, <2>2, <3>2 DEF MadeBy, BusyBy
    <3>4. CountStep(u)
      BY <1>0, <1>1, <2>2, <3>3 DEF CountStep
    <3> QED
      BY <3>1, <3>4 DEF AccountStep
  <2>3. CASE /\ Disconnect(client[u]) /\ createdCount' = createdCount - 1 /\ UNCHANGED activeCount
             /\ client' = [client EXCEPT ![u] = NoClient]
             /\ at' \in {[at EXCEPT ![u] = "try"], [at EXCEPT ![u] = "after"]}
    <3>1. OwnerInv'
      BY <1>0, <1>1, <2>1, <2>3, OwnerDrops
    <3>2. at'[u] \in {"try", "after"} /\ client'[u] = NoClient
      BY <1>0, <2>3 DEF OwnerTypes
    <3>3. MadeBy(u) = 1 /\ MadeBy(u)' = 0 /\ BusyBy(u) = 0 /\ BusyBy(u)' = 0
      BY <2>1, <3>2 DEF MadeBy, BusyBy
    <3>4. CountStep(u)
      BY <1>0, <1>1, <2>3, <3>3 DEF CountStep
    <3> QED
      BY <3>1, <3>4 DEF AccountStep
  <2> QED
    BY <1>4, <2>2, <2>3 DEF ValidateConnection, Return, Goto
<1> QED
  BY <1>2, <1>3, <1>4

\* A client goes back, is discarded or is closed.
LEMMA ReturningAccount ==
  ASSUME APIInv, OwnerInv, NEW u \in Users, at[u] \in {"put", "send"},
         (at[u] = "put" /\ (Put(u) \/ Discard(u))) \/ SendAvailable(u)
  PROVE  AccountStep(u)
<1>0. /\ at \in [Users -> Places] /\ OwnerTypes /\ createdCount \in Int /\ activeCount \in Int
      /\ Len(available) \in Nat /\ client[u] \in Clients /\ client[u] # NoClient
      /\ drained => closed
  BY PoolConstants DEF APIInv, TypeInv, APITypeOK, PoolTypeOK, OwnerTypes, PlaceInv, HasClient, ServerInv
<1>1. UNCHANGED <<closed, drained>>
  BY DEF Put, Discard, SendAvailable
<1>2. CASE at[u] = "put" /\ Put(u) /\ closed
  <2>1. Disconnect(client[u]) /\ client' = [client EXCEPT ![u] = NoClient] /\ UNCHANGED available
    BY <1>2 DEF Put
  <2> QED
    BY <1>0, <1>1, <1>2, <2>1, OwnerDrops DEF AccountStep
<1>3. CASE at[u] = "put" /\ Put(u) /\ ~closed
  <2>1. activeCount' = activeCount - 1 /\ at'[u] = "send" /\ UNCHANGED <<conn, client, available, createdCount>>
    BY <1>0, <1>3 DEF Put, Goto, connVars
  <2>2. OwnerInv'
    BY <1>0, <1>1, <2>1, OwnersElsewhere
  <2>3. MadeBy(u) = 1 /\ MadeBy(u)' = 1 /\ BusyBy(u) = 1 /\ BusyBy(u)' = 0
    BY <1>0, <1>3, <2>1 DEF MadeBy, BusyBy
  <2>4. CountStep(u)
    BY <1>0, <2>1, <2>3 DEF CountStep
  <2> QED
    BY <2>2, <2>4 DEF AccountStep
<1>4. CASE at[u] = "put" /\ Discard(u)
  <2>1. /\ Disconnect(client[u]) /\ activeCount' = activeCount - 1 /\ createdCount' = createdCount - 1
        /\ client' = [client EXCEPT ![u] = NoClient] /\ at'[u] = "idle" /\ UNCHANGED available
    BY <1>0, <1>4 DEF Discard, Goto
  <2>2. OwnerInv'
    BY <1>0, <1>1, <2>1, OwnerDrops
  <2>3. client'[u] = NoClient
    BY <1>0, <2>1 DEF OwnerTypes
  <2>4. MadeBy(u) = 1 /\ MadeBy(u)' = 0 /\ BusyBy(u) = 1 /\ BusyBy(u)' = 0
    BY <1>0, <1>4, <2>1, <2>3 DEF MadeBy, BusyBy
  <2>5. CountStep(u)
    BY <1>0, <2>1, <2>4 DEF CountStep
  <2> QED
    BY <2>2, <2>5 DEF AccountStep
<1>5. CASE SendAvailable(u) /\ drained
  <2>1. client' = [client EXCEPT ![u] = NoClient] /\ UNCHANGED <<available, conn>>
    BY <1>5 DEF SendAvailable, Panics, connVars
  <2> QED
    BY <1>0, <1>1, <1>5, <2>1, OwnerPanics DEF AccountStep
<1>6. CASE SendAvailable(u) /\ ~drained
  <2>1. client' = [client EXCEPT ![u] = NoClient] /\ at'[u] = "idle" /\ at[u] = "send"
    BY <1>0, <1>6 DEF SendAvailable, Goto
  <2>2. client'[u] = NoClient
    BY <1>0, <2>1 DEF OwnerTypes
  <2>3. MadeBy(u) = 1 /\ MadeBy(u)' = 0 /\ BusyBy(u) = 0 /\ BusyBy(u)' = 0
    BY <1>0, <2>1, <2>2 DEF MadeBy, BusyBy
  <2>4. CASE Len(available) < PoolSize
    <3>1. available' = Append(available, client[u]) /\ UNCHANGED <<activeCount, createdCount, conn>>
      BY <1>6, <2>4 DEF SendAvailable, countVars, connVars
    <3>2. OwnerInv'
      BY <1>0, <1>1, <2>1, <3>1, OwnerReturns
    <3>3. Len(available') = Len(available) + 1
      BY <1>0, <3>1, AppendHas DEF OwnerTypes
    <3>4. CountStep(u)
      BY <1>0, <2>3, <3>1, <3>3 DEF CountStep
    <3> QED
      BY <3>2, <3>4 DEF AccountStep
  <2>5. CASE ~(Len(available) < PoolSize)
    <3>1. Disconnect(client[u]) /\ createdCount' = createdCount - 1 /\ UNCHANGED <<available, activeCount>>
      BY <1>6, <2>5 DEF SendAvailable
    <3>2. OwnerInv'
      BY <1>0, <1>1, <2>1, <3>1, OwnerDrops
    <3>3. CountStep(u)
      BY <1>0, <2>3, <3>1 DEF CountStep
    <3> QED
      BY <3>2, <3>3 DEF AccountStep
  <2> QED
    BY <2>4, <2>5
<1> QED
  BY <1>2, <1>3, <1>4, <1>5, <1>6

PoolInv == APIInv /\ OwnerInv /\ CountInv

\* The accounts are right at the start.
LEMMA PoolInitially == APIInit => PoolInv
<1> SUFFICES ASSUME APIInit PROVE PoolInv
  OBVIOUS
<1>1. /\ available = <<>> /\ createdCount = 0 /\ activeCount = 0 /\ closed = FALSE
      /\ \A c \in Clients : conn[c] = "none"
      /\ \A w \in Users : client[w] = NoClient /\ at[w] = "idle"
  BY DEF APIInit, PoolInit
<1>2. Distinct(available) /\ \A c : ~In(c, available)
  BY <1>1 DEF Distinct, In
<1>3. OwnerInv
  BY <1>1, <1>2 DEF OwnerInv
<1>4. Made = {} /\ Busy = {}
  BY <1>1 DEF Made, Busy
<1>5. Cardinality(Made) = 0 /\ Cardinality(Busy) = 0 /\ Len(available) = 0
  BY <1>1, <1>4, FS_EmptySet
<1>6. CountInv
  BY <1>1, <1>5, PoolConstants DEF CountInv
<1> QED
  BY <1>3, <1>6, APIInitially DEF PoolInv

\* Every step keeps them.
LEMMA PoolKeeps == PoolInv /\ [APINext]_apiVars => PoolInv'
<1> SUFFICES ASSUME PoolInv, [APINext]_apiVars PROVE PoolInv'
  OBVIOUS
<1>0. APIInv /\ OwnerInv /\ CountInv /\ APIInv' /\ PoolTypeOK /\ PoolTypeOK' /\ OwnerTypes
  BY APIKeeps DEF PoolInv, APIInv, TypeInv, APITypeOK, PoolTypeOK, OwnerTypes
<1>1. ASSUME NEW u \in Users, Begin(u) \/ Reject(u) \/ Step(u) PROVE OwnerInv' /\ CountInv'
  <2>1. UserStepOK(u)
    BY <1>0, <1>1, Arrivals, WithoutClient, WithThePool, WithTheDaemon DEF Step
  <2>2. Moves(u) /\ UNCHANGED closed
    BY <2>1 DEF UserStepOK, StepOK
  <2>3. AccountStep(u)
    <3>1. CASE Begin(u) \/ Reject(u) \/ Unavailable(u) \/ Reply(u) \/ Handle(u)
      BY <1>0, <3>1, DecidingAccount
    <3>2. CASE GetStep(u)
      BY <1>0, <3>2, DecidingAccount, TakingAccount, CreatingAccount DEF GetStep, Get
    <3>3. CASE PutBack(u) \/ SendBack(u)
      BY <1>0, <3>3, ReturningAccount DEF PutBack, SendBack, SendAvailable
    <3> QED
      BY <1>1, <3>1, <3>2, <3>3 DEF Step
  <2>4. CountInv'
    BY <1>0, <2>2, <2>3, CountKeeps DEF AccountStep
  <2> QED
    BY <2>3, <2>4 DEF AccountStep
<1>2. ASSUME UNCHANGED <<at, client>>, \/ CloseChannel \/ DaemonStops \/ Close
                                       \/ UNCHANGED <<available, closed, drained, conn, activeCount, createdCount>>
      PROVE  OwnerInv' /\ CountInv'
  <2>1. OwnerInv'
    <3>1. \/ CloseChannel \/ DaemonStops \/ UNCHANGED <<available, conn, drained>>
      BY <1>2 DEF Close, connVars
    <3> QED
      BY <1>0, <1>2, <3>1, OwnersElsewhere
  <2>2. Made' = Made /\ Busy' = Busy
    BY <1>2 DEF Made, Busy
  <2>3. closed' \/ UNCHANGED <<available, closed, activeCount, createdCount>>
    BY <1>2 DEF CloseChannel, DaemonStops, Close, countVars
  <2>4. CountInv'
    <3>1. CASE closed'
      BY <3>1 DEF CountInv
    <3>2. CASE UNCHANGED <<available, closed, activeCount, createdCount>>
      <4>1. /\ closed' = closed /\ createdCount' = createdCount /\ activeCount' = activeCount
            /\ Len(available') = Len(available)
            /\ Cardinality(Made') = Cardinality(Made) /\ Cardinality(Busy') = Cardinality(Busy)
        BY <2>2, <3>2
      <4> QED
        BY <1>0, <4>1 DEF CountInv
    <3> QED
      BY <2>3, <3>1, <3>2
  <2> QED
    BY <2>1, <2>4
<1>3. CASE Shutdown \/ Daemon \/ TimeoutPasses \/ UNCHANGED apiVars
  <2>1. UNCHANGED <<at, client>>
    BY <1>3 DEF Shutdown, ShutdownBegins, Drained, DrainTimesOut, SubscriberStopped, ClosePool, Close,
       CloseChannel, Daemon, DaemonStops, DaemonStarts, TimeoutPasses, OpenTimeoutExpires, apiVars, poolVars, userVars
  <2>2. \/ CloseChannel \/ DaemonStops \/ Close
        \/ UNCHANGED <<available, closed, drained, conn, activeCount, createdCount>>
    BY <1>3 DEF Shutdown, ShutdownBegins, Drained, DrainTimesOut, SubscriberStopped, ClosePool,
       Daemon, DaemonStarts, TimeoutPasses, OpenTimeoutExpires, apiVars, poolVars, countVars, connVars
  <2> QED
    BY <1>0, <1>2, <2>1, <2>2 DEF PoolInv
<1> QED
  BY <1>0, <1>1, <1>3 DEF APINext, Terminated, PoolInv

\* Every open connection has one owner, and the counters that bound the pool
\* agree with the clients that exist while the pool is open.
THEOREM ConnectionsAreCounted == APISpec => []PoolAccounting
<1>1. PoolInv => PoolAccounting
  <2> SUFFICES ASSUME PoolInv PROVE PoolAccounting
    OBVIOUS
  <2>1. OneOwnerPerConnection
    BY OwnersMean DEF PoolInv
  <2> QED
    BY <2>1 DEF PoolInv, CountInv, Made, Busy, Holds, PoolAccounting
<1> QED
  BY <1>1, PoolInitially, PoolKeeps, PTL DEF APISpec
=============================================================================

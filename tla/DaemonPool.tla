----------------------------- MODULE DaemonPool -----------------------------
(***************************************************************************)
(* The web server's way to the beads daemon: daemon.ProtectedPool, that is *)
(* a ConnectionPool of rpc.Clients behind a circuitbreaker.Breaker.        *)
(*                                                                         *)
(* Every user (an HTTP handler or the daemon subscriber) is a goroutine.   *)
(* The pool's mutex is released between its critical sections, so Get and  *)
(* Put are several steps and Close can fall between any two of them.       *)
(***************************************************************************)
EXTENDS Integers, Sequences, FiniteSets, TLC

CONSTANTS
  Users,             \* goroutines that call Get
  Background,        \* the users whose context is never cancelled
  Clients,           \* identities of rpc.Client values
  PoolSize,          \* poolSize
  FailureThreshold,  \* Config.FailureThreshold
  HalfOpenMaxProbes, \* Config.HalfOpenMaxProbes
  MaxRetries,        \* maxRetries of Get
  MaxLate,           \* bound: replies left unread on one connection
  NoClient

ASSUME PoolConstants ==
  /\ Background \subseteq Users /\ IsFiniteSet(Users)
  /\ PoolSize \in Nat \ {0}
  /\ FailureThreshold \in Nat \ {0}
  /\ HalfOpenMaxProbes \in Nat \ {0}
  /\ MaxRetries \in Nat \ {0}
  /\ MaxLate \in Nat
  /\ NoClient \notin Clients

VARIABLES
  bstate, consecutiveFail, halfOpenProbes, \* Breaker
  expired,      \* OpenTimeout has passed since openedAt
  available,    \* the buffered channel of idle clients
  closed,       \* ConnectionPool.closed
  drained,      \* close(p.available) has happened
  activeCount, createdCount,
  conn,         \* per client: no connection, a live one, or one the daemon dropped
  wire,         \* per client: replies whose reader has given up, oldest first
  daemonUp,     \* the daemon answers on its socket
  at, client, retries, err, \* per user: program counter, client, Get's loop, error
  probing,      \* history: users admitted since the breaker became half-open
  lost          \* history: probes that ended without a verdict since then

breakerVars == <<bstate, consecutiveFail, halfOpenProbes, expired, probing, lost>>
countVars == <<activeCount, createdCount>>
connVars == <<conn, wire, daemonUp>>
userVars == <<at, client, retries, err>>
poolVars == <<breakerVars, available, closed, drained, countVars, connVars, userVars>>

Errors == {"ErrCircuitOpen", "ErrPoolClosed", "ErrPoolExhausted",
           "ErrDaemonNotRunning", "Canceled", "DeadlineExceeded"}
Places == {"idle", "start", "try", "take", "create", "dial", "wait", "ping",
           "after", "have", "failed", "put", "send", "reply"}
Outcomes == {"ok", "notfound", "conflict", "other"}

PoolTypeOK ==
  /\ bstate \in {"closed", "open", "halfopen"}
  /\ consecutiveFail \in 0..FailureThreshold
  /\ halfOpenProbes \in 0..HalfOpenMaxProbes
  /\ expired \in BOOLEAN /\ closed \in BOOLEAN /\ drained \in BOOLEAN
  /\ daemonUp \in BOOLEAN
  /\ available \in Seq(Clients)
  /\ activeCount \in Int /\ createdCount \in Int
  /\ conn \in [Clients -> {"none", "live", "dead"}]
  /\ wire \in [Clients -> Seq(Outcomes)]
  /\ at \in [Users -> Places]
  /\ client \in [Users -> Clients \cup {NoClient}]
  /\ retries \in [Users -> 0..MaxRetries]
  /\ err \in [Users -> Errors \cup {"none"}]
  /\ probing \subseteq Users
  /\ lost \in BOOLEAN

PoolInit ==
  /\ bstate = "closed" /\ consecutiveFail = 0 /\ halfOpenProbes = 0
  /\ expired = FALSE /\ probing = {} /\ lost = FALSE
  /\ available = <<>> /\ closed = FALSE /\ drained = FALSE
  /\ activeCount = 0 /\ createdCount = 0
  /\ conn = [c \in Clients |-> "none"]
  /\ wire = [c \in Clients |-> <<>>]
  /\ daemonUp \in BOOLEAN
  /\ at = [u \in Users |-> "idle"]
  /\ client = [u \in Users |-> NoClient]
  /\ retries = [u \in Users |-> 0]
  /\ err = [u \in Users |-> "none"]

Goto(u, place) == at' = [at EXCEPT ![u] = place]

-----------------------------------------------------------------------------
(* Breaker.                                                                *)

DaemonShouldTrip(e) == e \in {"ErrDaemonNotRunning", "ErrPoolExhausted"}

\* Mutant: an open breaker is never tried again.
AdmitNeverProbes(u) == bstate = "closed" /\ UNCHANGED breakerVars

\* The request is admitted; from open to half-open it is the first probe.
Admit(u) ==
  \/ bstate = "closed" /\ UNCHANGED breakerVars
  \/ /\ bstate = "open" /\ expired
     /\ bstate' = "halfopen" /\ halfOpenProbes' = 1
     /\ probing' = {u} /\ lost' = FALSE /\ expired' = FALSE
     /\ UNCHANGED consecutiveFail
  \/ /\ bstate = "halfopen" /\ halfOpenProbes < HalfOpenMaxProbes
     /\ halfOpenProbes' = halfOpenProbes + 1
     /\ probing' = probing \cup {u}
     /\ UNCHANGED <<bstate, consecutiveFail, expired, lost>>

Refuses ==
  \/ bstate = "open" /\ ~expired
  \/ bstate = "halfopen" /\ halfOpenProbes >= HalfOpenMaxProbes

BeforeRequest(u) ==
  /\ at[u] = "start"
  /\ \/ /\ Admit(u)
        /\ Goto(u, "try")
        /\ UNCHANGED err
     \/ /\ Refuses
        /\ Goto(u, "failed")
        /\ err' = [err EXCEPT ![u] = "ErrCircuitOpen"]
        /\ UNCHANGED breakerVars
  /\ UNCHANGED <<available, closed, drained, countVars, connVars, client, retries>>

Trips ==
  \/ bstate = "halfopen"
  \/ bstate = "closed" /\ consecutiveFail + 1 >= FailureThreshold

\* A failure that counts: consecutiveFail saturates at the threshold.
RecordFailure ==
  /\ consecutiveFail' = IF consecutiveFail < FailureThreshold
                          THEN consecutiveFail + 1 ELSE consecutiveFail
  /\ bstate' = IF Trips THEN "open" ELSE bstate
  /\ expired' = IF Trips THEN FALSE ELSE expired
  /\ halfOpenProbes' = IF bstate = "halfopen" THEN 0 ELSE halfOpenProbes
  /\ probing' = IF bstate = "halfopen" THEN {} ELSE probing
  /\ lost' = (lost /\ bstate # "halfopen")

\* Mutant: a successful probe leaves the breaker half-open.
RecordSuccess ==
  /\ bstate' = IF bstate = "halfopen" THEN "closed" ELSE bstate
  /\ consecutiveFail' = IF bstate = "open" THEN consecutiveFail ELSE 0
  /\ halfOpenProbes' = IF bstate = "halfopen" THEN 0 ELSE halfOpenProbes
  /\ probing' = IF bstate = "halfopen" THEN {} ELSE probing
  /\ lost' = (lost /\ bstate # "halfopen")
  /\ UNCHANGED expired

\* An error that ShouldTrip ignores: afterRequest changes nothing, so a probe
\* keeps its slot although it is over.
RecordNothing(u) ==
  /\ lost' = (lost \/ u \in probing)
  /\ probing' = probing \ {u}
  /\ UNCHANGED <<bstate, consecutiveFail, halfOpenProbes, expired>>

AfterRequest(u) ==
  /\ at[u] = "after"
  /\ \/ err[u] = "none" /\ RecordSuccess
     \/ DaemonShouldTrip(err[u]) /\ RecordFailure
     \/ err[u] # "none" /\ ~DaemonShouldTrip(err[u]) /\ RecordNothing(u)
  /\ Goto(u, IF err[u] = "none" THEN "have" ELSE "failed")
  /\ retries' = [retries EXCEPT ![u] = 0]
  /\ UNCHANGED <<available, closed, drained, countVars, connVars, client, err>>

\* OpenTimeout passes.
OpenTimeoutExpires ==
  /\ bstate = "open" /\ ~expired
  /\ expired' = TRUE
  /\ UNCHANGED <<bstate, consecutiveFail, halfOpenProbes, probing, lost,
                 available, closed, drained, countVars, connVars, userVars>>

-----------------------------------------------------------------------------
(* ConnectionPool.Get and tryGet.                                          *)

\* pool.Get returns to ExecuteWithResult.
Return(u, e) ==
  /\ Goto(u, "after")
  /\ err' = [err EXCEPT ![u] = e]

\* A panic unwinds past afterRequest and ends the handler.
Panics(u) ==
  /\ Goto(u, "idle")
  /\ client' = [client EXCEPT ![u] = NoClient]
  /\ err' = [err EXCEPT ![u] = "none"]
  /\ retries' = [retries EXCEPT ![u] = 0]

Disconnect(c) ==
  /\ conn' = [conn EXCEPT ![c] = "none"]
  /\ wire' = [wire EXCEPT ![c] = <<>>]
  /\ UNCHANGED daemonUp

\* The caller's context was done before Get began.
ContextDone(u) ==
  /\ at[u] = "try" /\ retries[u] = 0 /\ u \notin Background
  /\ Return(u, "Canceled")
  /\ UNCHANGED <<breakerVars, available, closed, drained, countVars, connVars,
                 client, retries>>

CheckClosed(u) ==
  /\ at[u] = "try"
  /\ IF closed THEN Return(u, "ErrPoolClosed") ELSE Goto(u, "take") /\ UNCHANGED err
  /\ UNCHANGED <<breakerVars, available, closed, drained, countVars, connVars,
                 client, retries>>

Receive(u) ==
  /\ available # <<>>
  /\ available' = Tail(available)
  /\ client' = [client EXCEPT ![u] = Head(available)]
  /\ Goto(u, "ping")
  /\ UNCHANGED <<breakerVars, retries, err>>

\* A closed channel yields nil, and (*Client)(nil).Close dereferences it.
ReceiveNil(u) ==
  /\ available = <<>> /\ drained
  /\ Panics(u) /\ RecordNothing(u)
  /\ UNCHANGED available

TakeAvailable(u) ==
  /\ at[u] = "take"
  /\ \/ Receive(u)
     \/ ReceiveNil(u)
     \/ /\ available = <<>> /\ ~drained
        /\ Goto(u, "create")
        /\ UNCHANGED <<breakerVars, available, client, retries, err>>
  /\ UNCHANGED <<closed, drained, countVars, connVars>>

ReserveSlot(u) ==
  /\ at[u] = "create"
  /\ IF createdCount < PoolSize
       THEN /\ createdCount' = createdCount + 1
            /\ activeCount' = activeCount + 1
            /\ Goto(u, "dial")
       ELSE Goto(u, "wait") /\ UNCHANGED countVars
  /\ UNCHANGED <<breakerVars, available, closed, drained, connVars,
                 client, retries, err>>

\* The endpoint exists, the dial succeeds and the daemon says it is healthy.
\* Whatever fails, the result is neither a client nor an error; the socket and
\* pid file of a dead daemon that it removes play no part here.
TryConnectWithTimeout == daemonUp

\* Mutant: the reserved slot is not given back.
KeepsSlotOfFailedDial(u) ==
  /\ at[u] = "dial" /\ ~daemonUp
  /\ activeCount' = activeCount - 1
  /\ Return(u, "ErrDaemonNotRunning")
  /\ UNCHANGED <<breakerVars, available, closed, drained, createdCount, connVars,
                 client, retries>>

CreateConnection(u) ==
  /\ at[u] = "dial"
  /\ \/ /\ TryConnectWithTimeout
        /\ \E c \in Clients :
             /\ conn[c] = "none"
             /\ conn' = [conn EXCEPT ![c] = "live"]
             /\ client' = [client EXCEPT ![u] = c]
        /\ Return(u, "none")
        /\ UNCHANGED countVars
     \/ /\ ~TryConnectWithTimeout
        /\ createdCount' = createdCount - 1
        /\ activeCount' = activeCount - 1
        /\ Return(u, "ErrDaemonNotRunning")
        /\ UNCHANGED <<conn, client>>
  /\ UNCHANGED <<breakerVars, available, closed, drained, wire, daemonUp, retries>>

\* At capacity: a client comes back, or a timer or the context ends the wait.
\* timeout is min(poolTimeout, remaining), so either of the two may be seen.
WaitAvailable(u) ==
  /\ at[u] = "wait"
  /\ \/ Receive(u)
     \/ ReceiveNil(u)
     \/ /\ available = <<>>
        /\ \E e \in {"ErrPoolExhausted", "DeadlineExceeded"}
                      \cup (IF u \in Background THEN {} ELSE {"Canceled"}) :
             Return(u, e)
        /\ UNCHANGED <<breakerVars, available, client, retries>>
  /\ UNCHANGED <<closed, drained, countVars, connVars>>

\* One Execute on client c whose own reply would be o: what it returns and what
\* it leaves unread.  The first line on the wire is taken for the answer; the
\* bufio.Reader is thrown away with whatever else it has read; a reader that
\* gives up leaves its reply behind.
Execute(c, o) ==
  LET w == Append(wire[c], o)
  IN  IF conn[c] # "live" THEN {[reply |-> "io", left |-> wire[c]]}
      ELSE {[reply |-> w[1], left |-> SubSeq(w, k, Len(w))] : k \in 2..(Len(w) + 1)}
           \cup (IF Len(w) <= MaxLate THEN {[reply |-> "io", left |-> w]} ELSE {})

\* validateConnection pings the idle client; a stale one is closed and tryGet
\* asks to be called again.
ValidateConnection(u) ==
  /\ at[u] = "ping"
  /\ \E x \in Execute(client[u], "ok") :
       \/ /\ x.reply = "ok"
          /\ wire' = [wire EXCEPT ![client[u]] = x.left]
          /\ activeCount' = activeCount + 1
          /\ Return(u, "none")
          /\ UNCHANGED <<conn, daemonUp, createdCount, client, retries>>
       \/ /\ x.reply # "ok"
          /\ Disconnect(client[u])
          /\ createdCount' = createdCount - 1
          /\ client' = [client EXCEPT ![u] = NoClient]
          /\ retries' = [retries EXCEPT ![u] = @ + 1]
          /\ IF retries[u] + 1 < MaxRetries
               THEN Goto(u, "try") /\ UNCHANGED err
               ELSE Return(u, "ErrPoolExhausted")
          /\ UNCHANGED activeCount
  /\ UNCHANGED <<breakerVars, available, closed, drained>>

-----------------------------------------------------------------------------
(* ConnectionPool.Put, Discard and Close.                                  *)

Put(u) ==
  /\ at[u] = "put"
  /\ IF closed
       THEN /\ Disconnect(client[u])
            /\ client' = [client EXCEPT ![u] = NoClient]
            /\ Goto(u, "idle")
            /\ UNCHANGED activeCount
       ELSE /\ activeCount' = activeCount - 1
            /\ Goto(u, "send")
            /\ UNCHANGED <<connVars, client>>
  /\ UNCHANGED <<breakerVars, available, closed, drained, createdCount, retries, err>>

\* The send that follows Put's critical section: a full channel closes the
\* client, a closed one panics.
SendAvailable(u) ==
  /\ at[u] = "send"
  /\ \/ /\ ~drained
        /\ IF Len(available) < PoolSize
             THEN available' = Append(available, client[u]) /\ UNCHANGED <<countVars, connVars>>
             ELSE /\ Disconnect(client[u])
                  /\ createdCount' = createdCount - 1
                  /\ UNCHANGED <<available, activeCount>>
        /\ client' = [client EXCEPT ![u] = NoClient]
        /\ Goto(u, "idle")
        /\ UNCHANGED <<retries, err>>
     \/ /\ drained
        /\ Panics(u)
        /\ UNCHANGED <<available, countVars, connVars>>
  /\ UNCHANGED <<breakerVars, closed, drained>>

Discard(u) ==
  /\ Disconnect(client[u])
  /\ activeCount' = activeCount - 1
  /\ createdCount' = createdCount - 1
  /\ client' = [client EXCEPT ![u] = NoClient]
  /\ Goto(u, "idle")
  /\ UNCHANGED <<breakerVars, available, closed, drained, retries, err>>

Close ==
  /\ ~closed
  /\ closed' = TRUE
  /\ UNCHANGED <<breakerVars, available, drained, countVars, connVars, userVars>>

CloseChannel ==
  /\ closed /\ ~drained
  /\ drained' = TRUE
  /\ available' = <<>>
  /\ conn' = [c \in Clients |->
                IF \E i \in DOMAIN available : available[i] = c THEN "none" ELSE conn[c]]
  /\ wire' = [c \in Clients |->
                IF \E i \in DOMAIN available : available[i] = c THEN <<>> ELSE wire[c]]
  /\ UNCHANGED <<breakerVars, closed, countVars, daemonUp, userVars>>

-----------------------------------------------------------------------------
(* The daemon stops, which breaks its connections, and starts again.       *)

DaemonStops ==
  /\ daemonUp
  /\ daemonUp' = FALSE
  /\ conn' = [c \in Clients |-> IF conn[c] = "live" THEN "dead" ELSE conn[c]]
  /\ UNCHANGED <<breakerVars, available, closed, drained, countVars, wire, userVars>>

DaemonStarts ==
  /\ ~daemonUp
  /\ daemonUp' = TRUE
  /\ UNCHANGED <<breakerVars, available, closed, drained, countVars, conn, wire, userVars>>

Get(u) ==
  \/ BeforeRequest(u) \/ ContextDone(u) \/ CheckClosed(u) \/ TakeAvailable(u)
  \/ ReserveSlot(u) \/ CreateConnection(u) \/ WaitAvailable(u)
  \/ ValidateConnection(u) \/ AfterRequest(u)

-----------------------------------------------------------------------------
InPool(c) == \E i \in DOMAIN available : available[i] = c
Holds(u) == client[u] # NoClient

(* Every open connection has exactly one owner.  No two users have the same *)
(* client, and none has one that is idle in the channel, where a third could *)
(* take it: two goroutines on one connection read each other's lines.  And   *)
(* none is forgotten: it is idle in the pool, or a user has it and will      *)
(* return or close it, unless the send of Put panicked on a closed channel.  *)
OneOwnerPerConnection ==
  /\ \A u, v \in Users : u # v /\ Holds(u) => client[u] # client[v]
  /\ \A u \in Users : Holds(u) => ~InPool(client[u])
  /\ \A i, j \in DOMAIN available : i # j => available[i] # available[j]
  /\ \A c \in Clients : conn[c] # "none" =>
       InPool(c) \/ drained \/ \E u \in Users : client[u] = c

(* createdCount and activeCount, which bound the pool, agree with the         *)
(* clients that exist in every state between the pool's critical sections,   *)
(* as long as the pool is open: a missed or doubled adjustment would shrink  *)
(* the pool for ever or let it grow past poolSize.  And every connection has *)
(* one owner.                                                                *)
PoolAccounting ==
  /\ OneOwnerPerConnection
  /\ ~closed =>
    /\ createdCount = Len(available) + Cardinality({u \in Users :
                        Holds(u) \/ at[u] = "dial"})
    /\ activeCount = Cardinality({u \in Users :
                        at[u] = "dial" \/ (Holds(u) /\ at[u] \notin {"ping", "send"})})
    /\ createdCount <= PoolSize
=============================================================================

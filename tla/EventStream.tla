----------------------------- MODULE EventStream -----------------------------
(***************************************************************************)
(* How a change of an issue reaches a browser: the DaemonSubscriber's two  *)
(* loops, the SSEHub and the handler of each event stream.                 *)
(*                                                                         *)
(* Changes made through the daemon are pushed as mutations; every change,  *)
(* also one the bd CLI writes to the database, is noticed by pollDBChanges *)
(* and announced as one refresh.  A browser applies a mutation to its      *)
(* issue and loads everything again on a refresh.                          *)
(***************************************************************************)
EXTENDS Integers, Sequences, FiniteSets

CONSTANTS
  Conns,         \* event stream connections (handleSSE goroutines)
  MaxChanges,    \* bound: changes of issues in a behaviour
  MaxSeconds,    \* bound: seconds of the clock
  Kinds,         \* the changes that happen: via, create, and time since the last
  BroadcastBuf,  \* capacity of SSEHub.broadcast
  RetryBuf,      \* capacity of the retry queue
  SendBuf        \* sseClientSendBuf

ASSUME EventConstants ==
  /\ MaxChanges \in Nat /\ MaxSeconds \in Nat \ {0}
  /\ Kinds \subseteq [via : {"rpc", "cli"}, create : BOOLEAN, gap : Nat]
  /\ BroadcastBuf \in Nat \ {0} /\ RetryBuf \in Nat /\ SendBuf \in Nat \ {0}

VARIABLES
  changes,            \* the changes of the database in order of their commits
  second,             \* the second of the clock
  lastSince, todo,    \* subscriptionLoop and the rest of a reply
  poll, counted, lastKnownCount, lastPoll, pollNow, \* externalChangeLoop
  regQ, unregQ, bcast, retryQ, clients, hub, \* SSEHub
  at, send, closes,   \* per connection: place, client.send, times it was closed
  behind,             \* per connection: changes its browser does not show yet
  overtaken,          \* history: unregister was processed before register
  missed,             \* history: connections that were skipped
  overlooked          \* history: changes that no Count can find any more

subVars == <<lastSince, todo>>
pollVars == <<poll, counted, lastKnownCount, lastPoll, pollNow>>
connVars == <<at, send, closes>>
dataVars == <<changes, second>>
historyVars == <<overtaken, missed, overlooked>>
eventVars == <<dataVars, subVars, pollVars, regQ, unregQ, bcast, retryQ, clients,
               hub, connVars, behind, historyVars>>

Refresh == 0   \* the payload of type refresh; a mutation is the index of its change

EventInit ==
  /\ changes = <<>> /\ second = 1
  /\ lastSince = 0 /\ todo = <<>>
  /\ poll = "idle" /\ counted = 0 /\ lastKnownCount = -1 /\ lastPoll = 0 /\ pollNow = 0
  /\ regQ = <<>> /\ unregQ = <<>> /\ bcast = <<>> /\ retryQ = <<>>
  /\ clients = {} /\ hub = "running"
  /\ at = [c \in Conns |-> "none"]
  /\ send = [c \in Conns |-> <<>>]
  /\ closes = [c \in Conns |-> 0]
  /\ behind = [c \in Conns |-> {}]
  /\ overtaken = {} /\ missed = {} /\ overlooked = {}

-----------------------------------------------------------------------------
(* The database and the daemon (external).                                 *)

LastChange == IF changes = <<>> THEN 1 ELSE changes[Len(changes)].ts

\* Changes neither pushed nor seen in the number of issues.
InPlace(ch) == ~ch.create /\ (ch.via = "cli" \/ ch.ts <= lastSince)

\* via is the daemon's RPC or the bd CLI; a create changes the number of issues.
\* updated_at is set before the commit, so that it may be of the second before.
\* Whoever watches once the poll has begun shall be told.
Change(k, stamp) ==
  /\ Len(changes) < MaxChanges
  /\ stamp \in {second - 1, second} \ {0}
  /\ LET ch == [ts |-> LastChange + k.gap, via |-> k.via, create |-> k.create, stamp |-> stamp]
     IN  /\ changes' = Append(changes, ch)
         /\ overlooked' = IF InPlace(ch) /\ stamp <= lastPoll
                            THEN overlooked \cup {Len(changes) + 1} ELSE overlooked
  /\ behind' = [c \in Conns |->
                  IF at[c] = "stream" /\ c \in clients /\ lastKnownCount # -1
                    THEN behind[c] \cup {Len(changes) + 1} ELSE behind[c]]
  /\ UNCHANGED <<second, subVars, pollVars, regQ, unregQ, bcast, retryQ, clients, hub,
                 connVars, overtaken, missed>>

SecondPasses ==
  /\ second < MaxSeconds
  /\ second' = second + 1
  /\ UNCHANGED <<changes, subVars, pollVars, regQ, unregQ, bcast, retryQ, clients, hub,
                 connVars, behind, historyVars>>

\* The daemon returns the mutations it recorded after since.
MutationsSince(since) ==
  {k \in DOMAIN changes : changes[k].via = "rpc" /\ changes[k].ts > since}

InOrder(S) == CHOOSE q \in [1..Cardinality(S) -> S] :
                \A i, j \in 1..Cardinality(S) : i < j => q[i] < q[j]

-----------------------------------------------------------------------------
(* SSEHub.Broadcast and the hub's loop.                                    *)

\* Broadcast never blocks: a full channel leads to the retry queue, a full
\* queue drops the payload.
Broadcast(p) ==
  IF Len(bcast) < BroadcastBuf
    THEN bcast' = Append(bcast, p) /\ UNCHANGED <<retryQ, missed>>
  ELSE IF Len(retryQ) < RetryBuf
    THEN retryQ' = Append(retryQ, p) /\ UNCHANGED <<bcast, missed>>
  ELSE missed' = Conns /\ UNCHANGED <<bcast, retryQ>>

HubRegister ==
  /\ hub # "exited" /\ regQ # <<>>
  /\ clients' = clients \cup {Head(regQ)}
  /\ regQ' = Tail(regQ)
  /\ UNCHANGED <<dataVars, subVars, pollVars, unregQ, bcast, retryQ, hub, connVars,
                 behind, historyVars>>

CloseSend(S) == closes' = [c \in Conns |-> IF c \in S THEN closes[c] + 1 ELSE closes[c]]

\* Mutant: the channel is closed without looking for the client.
ClosesUnchecked(c) == clients' = clients \ {c} /\ CloseSend({c})

\* A client that is not (yet) registered is left alone.
RemoveClient(c) == clients' = clients \ {c} /\ CloseSend(clients \cap {c})

HubUnregister ==
  /\ hub # "exited" /\ unregQ # <<>>
  /\ LET c == Head(unregQ) IN
       /\ RemoveClient(c)
       /\ overtaken' = IF \E i \in DOMAIN regQ : regQ[i] = c
                         THEN overtaken \cup {c} ELSE overtaken
  /\ unregQ' = Tail(unregQ)
  /\ UNCHANGED <<dataVars, subVars, pollVars, regQ, bcast, retryQ, hub, at, send,
                 behind, missed, overlooked>>

\* The payload goes to every client with room for it; the others are skipped.
HubBroadcast ==
  /\ hub # "exited" /\ bcast # <<>>
  /\ bcast' = Tail(bcast)
  /\ send' = [c \in Conns |-> IF c \in clients /\ Len(send[c]) < SendBuf
                                THEN Append(send[c], Head(bcast)) ELSE send[c]]
  /\ missed' = missed \cup {c \in clients : Len(send[c]) >= SendBuf}
  /\ UNCHANGED <<dataVars, subVars, pollVars, regQ, unregQ, retryQ, clients, hub,
                 at, closes, behind, overtaken, overlooked>>

DrainRetryQueue ==
  /\ hub # "exited" /\ retryQ # <<>> /\ Len(bcast) < BroadcastBuf
  /\ LET room == BroadcastBuf - Len(bcast)
         n == IF Len(retryQ) < room THEN Len(retryQ) ELSE room
     IN  /\ bcast' = bcast \o SubSeq(retryQ, 1, n)
         /\ retryQ' = SubSeq(retryQ, n + 1, Len(retryQ))
  /\ UNCHANGED <<dataVars, subVars, pollVars, regQ, unregQ, clients, hub, connVars,
                 behind, historyVars>>

\* close(h.done); Run sees it, now or after other work, closes the clients'
\* channels and returns.
StopHub ==
  /\ hub = "running"
  /\ hub' = "done"
  /\ UNCHANGED <<dataVars, subVars, pollVars, regQ, unregQ, bcast, retryQ, clients,
                 connVars, behind, historyVars>>

HubExits ==
  /\ hub = "done"
  /\ hub' = "exited"
  /\ CloseSend(clients)
  /\ clients' = {}
  /\ UNCHANGED <<dataVars, subVars, pollVars, regQ, unregQ, bcast, retryQ, at, send,
                 behind, historyVars>>

-----------------------------------------------------------------------------
(* handleSSE.                                                              *)

\* Between the two selects of RegisterClient the hub may be stopped; then the
\* second one may take either branch.
Connect(c) ==
  /\ at[c] = "none"
  /\ \/ hub # "running" /\ CloseSend({c}) /\ UNCHANGED regQ
     \/ regQ' = Append(regQ, c) /\ UNCHANGED closes
  /\ at' = [at EXCEPT ![c] = "catchup"]
  /\ UNCHANGED <<dataVars, subVars, pollVars, unregQ, bcast, retryQ, clients, hub,
                 send, behind, historyVars>>

\* Mutations since the Last-Event-ID of a browser that comes back are written
\* before the stream; event IDs run behind the clock, so too many are sent.
CatchUp(c) ==
  /\ at[c] = "catchup"
  /\ at' = [at EXCEPT ![c] = "stream"]
  /\ UNCHANGED <<dataVars, subVars, pollVars, regQ, unregQ, bcast, retryQ, clients,
                 hub, send, closes, behind, historyVars>>

Shows(c, p) ==
  behind' = [behind EXCEPT ![c] = IF p = Refresh THEN {} ELSE @ \ {p}]

WriteEvent(c) ==
  /\ at[c] = "stream" /\ send[c] # <<>>
  /\ Shows(c, Head(send[c]))
  /\ send' = [send EXCEPT ![c] = Tail(@)]
  /\ UNCHANGED <<dataVars, subVars, pollVars, regQ, unregQ, bcast, retryQ, clients,
                 hub, at, closes, historyVars>>

\* The channel is closed, a heartbeat fails or the request's context is done.
StreamEnds(c) ==
  /\ at[c] = "stream"
  /\ at' = [at EXCEPT ![c] = "leaving"]
  /\ behind' = [behind EXCEPT ![c] = {}]
  /\ UNCHANGED <<dataVars, subVars, pollVars, regQ, unregQ, bcast, retryQ, clients,
                 hub, send, closes, historyVars>>

\* The deferred UnregisterClient.
Disconnect(c) ==
  /\ at[c] = "leaving"
  /\ at' = [at EXCEPT ![c] = "gone"]
  /\ \/ hub # "running" /\ UNCHANGED unregQ
     \/ unregQ' = Append(unregQ, c)
  /\ UNCHANGED <<dataVars, subVars, pollVars, regQ, bcast, retryQ, clients, hub,
                 send, closes, behind, historyVars>>

-----------------------------------------------------------------------------
(* DaemonSubscriber.subscriptionLoop.                                      *)

\* A reply of waitForMutations or pollMutations: lastSince moves past it
\* before anything is broadcast.
ProcessMutationResponse ==
  /\ todo = <<>>
  /\ LET got == MutationsSince(lastSince)
         newest == CHOOSE k \in got : \A j \in got : changes[j].ts <= changes[k].ts
     IN  /\ got # {}
         /\ todo' = InOrder(got)
         /\ lastSince' = IF changes[newest].ts > 0 /\ changes[newest].ts >= lastSince
                           THEN changes[newest].ts + 1 ELSE lastSince
  /\ UNCHANGED <<dataVars, pollVars, regQ, unregQ, bcast, retryQ,
                 clients, hub, connVars, behind, historyVars>>

BroadcastMutation ==
  /\ todo # <<>>
  /\ Broadcast(Head(todo))
  /\ todo' = Tail(todo)
  /\ UNCHANGED <<dataVars, lastSince, pollVars, regQ, unregQ, clients,
                 hub, connVars, behind, overtaken, overlooked>>

-----------------------------------------------------------------------------
(* DaemonSubscriber.pollDBChanges.  lastPollTime is sent in whole seconds   *)
(* and compared as text, where 10:00:05.25Z comes before 10:00:05Z: the     *)
(* query finds what was stamped in a later second.                         *)

TotalCount == Cardinality({k \in DOMAIN changes : changes[k].create})

\* The externalPollInterval is long against the hub's loop: connections made
\* since the last poll have been registered.
PollCount ==
  /\ poll = "idle" /\ regQ = <<>>
  /\ poll' = "counted" /\ counted' = TotalCount
  /\ UNCHANGED <<dataVars, subVars, lastKnownCount, lastPoll, pollNow, regQ, unregQ,
                 bcast, retryQ, clients, hub, connVars, behind, historyVars>>

\* The poll ends; counted and now were local to it.
PollEnds == poll' = "idle" /\ counted' = 0 /\ pollNow' = 0

\* The first poll only remembers; lastKnownCount = -1 is ~countInitialized.
CompareCount ==
  /\ poll = "counted"
  /\ IF lastKnownCount = -1
       THEN PollEnds /\ lastKnownCount' = counted /\ lastPoll' = second
       ELSE /\ pollNow' = second
            /\ poll' = IF counted # lastKnownCount THEN "changed" ELSE "unchanged"
            /\ UNCHANGED <<counted, lastKnownCount, lastPoll>>
  /\ UNCHANGED <<dataVars, subVars, regQ, unregQ, bcast, retryQ, clients, hub, connVars,
                 behind, historyVars>>

UpdatedAfter(sec) == {k \in DOMAIN changes : changes[k].stamp > sec}


\* The second Count asks for issues updated after lastPollTime.  When it fails
\* the window is closed all the same.
CountUpdated ==
  /\ poll = "unchanged"
  /\ \/ /\ UpdatedAfter(lastPoll) # {}
        /\ poll' = "changed"
        /\ UNCHANGED <<counted, pollNow, lastPoll, overlooked>>
     \/ /\ UpdatedAfter(lastPoll) = {}
        /\ PollEnds /\ lastPoll' = pollNow
        /\ UNCHANGED overlooked
     \/ /\ PollEnds /\ lastPoll' = pollNow
        /\ overlooked' = overlooked \cup
             {k \in UpdatedAfter(lastPoll) \ UpdatedAfter(pollNow) : InPlace(changes[k])}
  /\ UNCHANGED <<dataVars, subVars, lastKnownCount, regQ, unregQ, bcast, retryQ, clients,
                 hub, connVars, behind, overtaken, missed>>

BroadcastRefresh ==
  /\ poll = "changed"
  /\ Broadcast(Refresh)
  /\ PollEnds /\ lastKnownCount' = counted /\ lastPoll' = pollNow
  /\ UNCHANGED <<dataVars, subVars, regQ, unregQ, clients, hub, connVars, behind,
                 overtaken, overlooked>>

-----------------------------------------------------------------------------
Hub == HubRegister \/ HubUnregister \/ HubBroadcast \/ DrainRetryQueue \/ HubExits
Subscription == ProcessMutationResponse \/ BroadcastMutation
Poll == PollCount \/ CompareCount \/ CountUpdated \/ BroadcastRefresh
Stream(c) == Connect(c) \/ CatchUp(c) \/ WriteEvent(c) \/ StreamEnds(c) \/ Disconnect(c)

EventNext ==
  \/ \E k \in Kinds, stamp \in 1..MaxSeconds : Change(k, stamp)
  \/ SecondPasses
  \/ Hub \/ StopHub
  \/ Subscription
  \/ Poll
  \/ \E c \in Conns : Stream(c)

\* Run serves its channels, the loops go round, handlers write what they get.
EventFairness ==
  /\ WF_eventVars(HubRegister) /\ WF_eventVars(HubUnregister)
  /\ WF_eventVars(HubBroadcast) /\ WF_eventVars(DrainRetryQueue)
  /\ WF_eventVars(HubExits)
  /\ WF_eventVars(ProcessMutationResponse) /\ WF_eventVars(BroadcastMutation)
  /\ WF_eventVars(Poll)
  /\ \A c \in Conns : WF_eventVars(CatchUp(c)) /\ WF_eventVars(WriteEvent(c))
                      /\ WF_eventVars(Disconnect(c))

EventSpec == EventInit /\ [][EventNext]_eventVars /\ EventFairness

-----------------------------------------------------------------------------
(* Clients leave the hub once and for good.  No order of registering,        *)
(* leaving and stopping makes the hub panic: a channel is closed at most     *)
(* once, and none of those the hub sends to is closed (sse.go:98-103,        *)
(* 118-124, 143-153).  A client stays in the hub after its handler has       *)
(* returned only when the hub took its unregister before its register: both  *)
(* wait in channels of their own and select picks either.                    *)
ClientsLeaveOnce ==
  /\ \A c \in Conns : closes[c] <= (IF c \in clients THEN 0 ELSE 1)
  /\ \A c \in clients : at[c] = "gone" /\ hub = "running" =>
       c \in overtaken \/ \E i \in DOMAIN unregQ : unregQ[i] = c

=============================================================================

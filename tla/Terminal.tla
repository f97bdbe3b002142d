------------------------------ MODULE Terminal ------------------------------
(***************************************************************************)
(* Terminals of the web UI.  Two machines with variables of their own:     *)
(*  - WebSocket handlers that attach PTYs to tmux sessions through the     *)
(*    TerminalManager, the restart of a session with another backend, and  *)
(*    the server's shutdown;                                               *)
(*  - the one-time tokens that open a terminal.                            *)
(* tmux is external: a session exists with the command it was created with *)
(* or does not.  What is typed and shown is left out.                      *)
(***************************************************************************)
EXTENDS Integers, FiniteSets

CONSTANTS
  Viewers,       \* WebSocket handlers; also names the connection each one has
  WebSessions,   \* session names of the web UI
  AgentSession,  \* the tmux session of an agent, made by auto mode
  TermBackends,  \* valid backends; a command is "loom lead --backend b"
  MaxSessions,   \* maxSessions of the manager
  MaxRestarts,   \* restarts in a behaviour
  Nonces,        \* one per token
  TokenExpiry,   \* terminalTokenExpiry, in ticks of half a minute
  NonceMaxAge,   \* terminalNonceMaxAge
  MaxNow         \* bound on the clock

ASSUME TerminalConstants ==
  /\ AgentSession \notin WebSessions
  /\ MaxSessions \in Nat \ {0}
  /\ TokenExpiry \in Nat /\ NonceMaxAge \in Nat /\ TokenExpiry < NonceMaxAge

NoSession == "none"
Nested == "nested"   \* a command with a command in the place of its backend
AutoCmd == "auto"       \* what the agent's session runs
Nobody == "nobody"
TermSessions == WebSessions \cup {AgentSession}

ASSUME NobodyIsNoViewer == Nobody \notin Viewers

VARIABLES
  viewer,     \* [Viewers -> where the handler is, its session, PTY and reader]
  termConns,  \* TerminalManager.sessions
  termMu,     \* the viewer that holds the manager's mutex over tmux commands
  tmux,       \* the command of each tmux session, or NoSession
  defaultCmd, \* defaultCommand
  restart,    \* handleTerminalRestart
  termStop    \* [at, closing]: StartServer's shutdown

termVars == <<viewer, termConns, termMu, tmux, defaultCmd, restart, termStop>>

NoViewer == [at |-> "idle", name |-> AgentSession, cmd |-> NoSession, pty |-> "none",
             reader |-> "none"]

TermInit ==
  /\ viewer = [v \in Viewers |-> NoViewer]
  /\ termConns = {} /\ termMu = Nobody
  /\ tmux \in [TermSessions -> {NoSession, AutoCmd}]
  /\ \A n \in WebSessions : tmux[n] = NoSession
  /\ defaultCmd \in TermBackends
  /\ restart = [at |-> "idle", name |-> AgentSession, backend |-> NoSession,
                answered |-> NoSession, closing |-> {}, count |-> 0]
  /\ termStop = [at |-> "no", closing |-> {}]

MutexFree == termMu = Nobody
Exists(n) == tmux[n] # NoSession

-----------------------------------------------------------------------------
(* handleTerminalWS and handleAgentTerminalWS.                             *)

\* Every connection has a name of its own; one is used again in the model when
\* its handler is over and nobody is going to close its PTY any more.
Unused(v) == viewer[v].at = "idle" /\ v \notin restart.closing \cup termStop.closing

\* Parameters and token are good; the limit is looked at before the upgrade,
\* and Attach reads the default command before it takes the mutex.
Upgrade(v, n) ==
  /\ Unused(v) /\ termStop.at = "no"
  /\ Cardinality(termConns) < MaxSessions
  /\ viewer' = [viewer EXCEPT ![v] =
                  [NoViewer EXCEPT !.at = "lock", !.name = n, !.cmd = defaultCmd]]
  /\ UNCHANGED <<termConns, termMu, tmux, defaultCmd, restart, termStop>>
\* An agent's terminal needs a session to look at.
UpgradeAgent(v) ==
  /\ Unused(v) /\ termStop.at = "no"
  /\ Exists(AgentSession)                              \* FindLatestAgentSession
  /\ Cardinality(termConns) < MaxSessions
  /\ viewer' = [viewer EXCEPT ![v] = [NoViewer EXCEPT !.at = "lockRaw"]]
  /\ UNCHANGED <<termConns, termMu, tmux, defaultCmd, restart, termStop>>

Refuse(v) == viewer' = [viewer EXCEPT ![v] = NoViewer]
Attaching(v) ==
  /\ viewer' = [viewer EXCEPT ![v].at = "attach", ![v].cmd = NoSession]
  /\ termMu' = v

BelowLimit == Cardinality(termConns) < MaxSessions

\* Attach creates a missing session; tmux new-session may fail.
EnsureSession(v) ==
  /\ viewer[v].at = "lock" /\ MutexFree
  /\ LET n == viewer[v].name IN
     \/ BelowLimit /\ Exists(n) /\ Attaching(v) /\ UNCHANGED tmux
     \/ BelowLimit /\ ~Exists(n) /\ Attaching(v) /\ tmux' = [tmux EXCEPT ![n] = viewer[v].cmd]
     \/ (~BelowLimit \/ ~Exists(n)) /\ Refuse(v) /\ UNCHANGED <<termMu, tmux>>
  /\ UNCHANGED <<termConns, defaultCmd, restart, termStop>>
\* AttachExistingRaw does not.
RequireSession(v) ==
  /\ viewer[v].at = "lockRaw" /\ MutexFree
  /\ IF BelowLimit /\ Exists(viewer[v].name) THEN Attaching(v)
     ELSE Refuse(v) /\ UNCHANGED termMu
  /\ UNCHANGED <<termConns, tmux, defaultCmd, restart, termStop>>
\* The PTY is started and registered, or pty.Start or Setsize fails.
AttachPTY(v) ==
  /\ viewer[v].at = "attach"
  /\ termMu' = Nobody
  /\ \/ /\ viewer' = [viewer EXCEPT ![v].at = "relay", ![v].pty = "open",
                                    ![v].reader = "reading"]
        /\ termConns' = termConns \cup {v}
     \/ Refuse(v) /\ UNCHANGED termConns
  /\ UNCHANGED <<tmux, defaultCmd, restart, termStop>>

\* ptyToWS ends when the PTY is closed or at its end, or when the browser
\* does not take the output; that cancels the handler's context.
ReaderEnds(v) ==
  /\ viewer[v].reader = "reading"
  /\ viewer' = [viewer EXCEPT ![v].reader = "done"]
  /\ UNCHANGED <<termConns, termMu, tmux, defaultCmd, restart, termStop>>
\* wsToPTY ends when the browser has left, the context is cancelled or a
\* write to the PTY fails; input and resizes until then are left out.
WsToPTYEnds(v) ==
  /\ viewer[v].at = "relay"
  /\ viewer' = [viewer EXCEPT ![v].at = "detach"]
  /\ UNCHANGED <<termConns, termMu, tmux, defaultCmd, restart, termStop>>
\* Detach: whoever takes the connection out of the map closes it.
DetachTakes(v) ==
  /\ viewer[v].at = "detach" /\ MutexFree
  /\ termConns' = termConns \ {v}
  /\ viewer' = [viewer EXCEPT ![v].at = IF v \in termConns THEN "close" ELSE "wait"]
  /\ UNCHANGED <<termMu, tmux, defaultCmd, restart, termStop>>

\* Mutant: the PTY is left open.
LeavesPTYOpen(view, vs) == view
\* TerminalSession.Close.
ClosePTYs(view, vs) == [w \in Viewers |-> IF w \in vs THEN [view[w] EXCEPT !.pty = "closed"]
                                          ELSE view[w]]

DetachCloses(v) ==
  /\ viewer[v].at = "close"
  /\ viewer' = [ClosePTYs(viewer, {v}) EXCEPT ![v].at = "wait"]
  /\ UNCHANGED <<termConns, termMu, tmux, defaultCmd, restart, termStop>>
\* The handler waits for ptyToWS and returns; after a failed write to the
\* browser that may be while a restart or the shutdown still has the PTY open.
HandlerReturns(v) ==
  /\ viewer[v].at = "wait" /\ viewer[v].reader = "done"
  /\ viewer' = [viewer EXCEPT ![v].at = "idle"]
  /\ UNCHANGED <<termConns, termMu, tmux, defaultCmd, restart, termStop>>

\* The command of a session ends by itself.
SessionExits(n) ==
  /\ tmux[n] # NoSession
  /\ tmux' = [tmux EXCEPT ![n] = NoSession]
  /\ UNCHANGED <<viewer, termConns, termMu, defaultCmd, restart, termStop>>

-----------------------------------------------------------------------------
(* handleTerminalRestart: kill the session, then set the command.          *)

\* The backend comes from the project's loom.yaml; when that cannot be read
\* the current default COMMAND takes the backend's place.
Restart(n, b) ==
  /\ restart.at = "idle" /\ termStop.at = "no" /\ restart.count < MaxRestarts
  /\ restart' = [restart EXCEPT !.at = "collect", !.name = n, !.backend = b, !.count = @ + 1]
  /\ UNCHANGED <<viewer, termConns, termMu, tmux, defaultCmd, termStop>>
\* KillSessionByName.
KillCollects ==
  /\ restart.at = "collect" /\ MutexFree
  /\ LET vs == {v \in termConns : viewer[v].name = restart.name} IN
       /\ termConns' = termConns \ vs
       /\ restart' = [restart EXCEPT !.at = "close", !.closing = vs]
  /\ UNCHANGED <<viewer, termMu, tmux, defaultCmd, termStop>>
\* The PTYs, then the tmux session.
KillCloses ==
  /\ restart.at = "close"
  /\ viewer' = ClosePTYs(viewer, restart.closing)
  /\ tmux' = [tmux EXCEPT ![restart.name] = NoSession]
  /\ restart' = [restart EXCEPT !.at = "command", !.closing = {}]
  /\ UNCHANGED <<termConns, termMu, defaultCmd, termStop>>
SetDefaultCommand ==
  /\ restart.at = "command" /\ MutexFree
  /\ defaultCmd' = restart.backend
  /\ restart' = [restart EXCEPT !.at = "idle", !.backend = NoSession,
                                !.answered = restart.backend]
  /\ UNCHANGED <<viewer, termConns, termMu, tmux, termStop>>

-----------------------------------------------------------------------------
(* Shutdown of the server.  The drain does not wait for upgraded           *)
(* connections; their contexts are cancelled.                              *)

ServerStops ==
  /\ termStop.at = "no"
  /\ termStop' = [termStop EXCEPT !.at = "cancelled"]
  /\ UNCHANGED <<viewer, termConns, termMu, tmux, defaultCmd, restart>>
ShutdownCollects ==
  /\ termStop.at = "cancelled" /\ MutexFree
  /\ termStop' = [at |-> "close", closing |-> termConns]
  /\ termConns' = {}
  /\ UNCHANGED <<viewer, termMu, tmux, defaultCmd, restart>>
\* The PTYs, then the sessions they were attached to.
ShutdownKills ==
  /\ termStop.at = "close"
  /\ viewer' = ClosePTYs(viewer, termStop.closing)
  /\ tmux' = [n \in TermSessions |-> IF \E v \in termStop.closing : viewer[v].name = n
                                    THEN NoSession ELSE tmux[n]]
  /\ termStop' = [at |-> "down", closing |-> {}]
  /\ UNCHANGED <<termConns, termMu, defaultCmd, restart>>

ViewerStep(v) ==
  \/ EnsureSession(v) \/ RequireSession(v) \/ AttachPTY(v) \/ ReaderEnds(v)
  \/ WsToPTYEnds(v) \/ DetachTakes(v) \/ DetachCloses(v) \/ HandlerReturns(v)
ManagerStep == KillCollects \/ KillCloses \/ SetDefaultCommand
               \/ ShutdownCollects \/ ShutdownKills

TermNext ==
  \/ \E v \in Viewers : ViewerStep(v) \/ UpgradeAgent(v) \/ (\E n \in WebSessions : Upgrade(v, n))
  \/ \E n \in TermSessions : SessionExits(n)
  \/ \E n \in WebSessions, b \in TermBackends \cup {Nested} : Restart(n, b)
  \/ ManagerStep \/ ServerStops

TermSpec == TermInit /\ [][TermNext]_termVars

ViewerPlaces == {"idle", "lock", "lockRaw", "attach", "relay", "detach", "close", "wait"}
Commands == TermBackends \cup {Nested}

ViewerRecord ==
  [at : ViewerPlaces, name : TermSessions, cmd : Commands \cup {NoSession},
   pty : {"none", "open", "closed"}, reader : {"none", "reading", "done"}]

TypeOfTerminals ==
  /\ viewer \in [Viewers -> ViewerRecord]
  /\ termConns \subseteq Viewers /\ termMu \in Viewers \cup {Nobody}
  /\ tmux \in [TermSessions -> Commands \cup {NoSession, AutoCmd}]
  /\ defaultCmd \in Commands
  /\ restart \in [at : {"idle", "collect", "close", "command"}, name : TermSessions,
                  backend : Commands \cup {NoSession}, answered : Commands \cup {NoSession},
                  closing : SUBSET Viewers, count : Nat]
  /\ termStop \in [at : {"no", "cancelled", "close", "down"}, closing : SUBSET Viewers]

(* Connections are neither lost nor leaked, however handlers that end, a   *)
(* restart and the shutdown race for them: never more than the limit are   *)
(* registered, an open PTY is registered or being closed by exactly one of *)
(* those who took it out of the map (so that a handler never waits for a   *)
(* reader that nobody wakes), and a handler that is over has left the map: *)
(* a PTY it left open is one that a restart or the shutdown closes.        *)
ConnectionsAreAccounted ==
  /\ Cardinality(termConns) <= MaxSessions
  /\ \A v \in Viewers :
       /\ viewer[v].pty = "open" =>
            Cardinality({i \in 1..4 : \/ i = 1 /\ v \in termConns
                                      \/ i = 2 /\ viewer[v].at = "close"
                                      \/ i = 3 /\ v \in restart.closing
                                      \/ i = 4 /\ v \in termStop.closing}) = 1
       /\ v \in termConns => viewer[v].pty = "open"
       /\ viewer[v].at = "idle" => v \notin termConns

(* "Kill existing session first, then update command.  This ordering       *)
(* ensures racing Attach calls either get killed or use the new backend"   *)
(* (handlers_terminal.go:145-146): once a restart has answered, the        *)
(* session does not run another backend.                                   *)
RestartTakesEffect ==
  restart.at = "idle" /\ restart.answered \in TermBackends =>
    tmux[restart.name] \in {NoSession, restart.answered}

-----------------------------------------------------------------------------
(* One-time tokens.  A tick is half a minute.                              *)

VARIABLES
  now,        \* the clock
  tokenExp,   \* [Nonces -> expiry of the token, -1 before it is generated]
  usedNonces, \* used: [Nonces -> time it was added, -1 when not in the map]
  uses        \* history: how often each token was accepted

tokenVars == <<now, tokenExp, usedNonces, uses>>

TokenInit ==
  /\ now = 0
  /\ tokenExp = [n \in Nonces |-> -1] /\ usedNonces = [n \in Nonces |-> -1]
  /\ uses = [n \in Nonces |-> 0]

GenerateToken(n) ==
  /\ tokenExp[n] = -1
  /\ tokenExp' = [tokenExp EXCEPT ![n] = now + TokenExpiry]
  /\ UNCHANGED <<now, usedNonces, uses>>
\* Signature and session are right; the others fail without a change.
ValidateToken(n) ==
  /\ tokenExp[n] # -1 /\ now <= tokenExp[n]
  /\ usedNonces[n] = -1
  /\ usedNonces' = [usedNonces EXCEPT ![n] = now]
  /\ uses' = [uses EXCEPT ![n] = @ + 1]
  /\ UNCHANGED <<now, tokenExp>>

\* Mutant: everything is forgotten.
AllExpired(n) == usedNonces[n] # -1
NonceExpired(n) == usedNonces[n] # -1 /\ usedNonces[n] < now - NonceMaxAge

CleanupNonces ==
  /\ \E n \in Nonces : NonceExpired(n)
  /\ usedNonces' = [n \in Nonces |-> IF NonceExpired(n) THEN -1 ELSE usedNonces[n]]
  /\ UNCHANGED <<now, tokenExp, uses>>
ClockTick == now < MaxNow /\ now' = now + 1 /\ UNCHANGED <<tokenExp, usedNonces, uses>>

TokenNext ==
  \/ \E n \in Nonces : GenerateToken(n) \/ ValidateToken(n)
  \/ CleanupNonces \/ ClockTick

TokenSpec == TokenInit /\ [][TokenNext]_tokenVars

(* A terminal token is accepted at most once, although the record of its   *)
(* use is forgotten again: the cleanup keeps it until the token expired.   *)
TokensWorkOnce == \A n \in Nonces : uses[n] <= 1
=============================================================================

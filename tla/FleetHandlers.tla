---------------------------- MODULE FleetHandlers ----------------------------
(***************************************************************************)
(* How fleet workers get work from several web UI servers: the JWT signing *)
(* key the servers share through Redis, registration behind an API key and *)
(* a rate limit, bearer tokens, and the claim handler that asks the beads  *)
(* daemon for ready issues and claims one.                                 *)
(*                                                                         *)
(* The daemon is external: an update with Claim set takes a free issue or  *)
(* answers that it is already claimed.                                     *)
(***************************************************************************)
EXTENDS Naturals, FiniteSets

CONSTANTS
  FleetServers, TokenWorkers, FleetIssues,
  RegisterLimit,    \* registrations per window and client address
  MaxRotations, MaxRestarts, MaxRPCFaults

ASSUME HandlersAssumption ==
  RegisterLimit \in Nat /\ MaxRotations \in Nat /\ MaxRestarts \in Nat /\ MaxRPCFaults \in Nat

NoKey == <<"none", 0>>
Ephemeral(s, n) == <<s, n>>            \* a key a server made in its n-th life
Rotated(n) == <<"rotated", n>>

VARIABLES
  currentVersion,  \* fleet:jwt-signing-key:current-version, 0 when absent
  keyVersion,      \* fleet:jwt-signing-key:v<n>
  fleetServer,     \* per server: where it is, its key, whether it came from Redis, its life
  rateEntries,     \* entries of the address's sorted set in the window, up to the limit
  register,        \* per worker: where its registration is
  registration,    \* worker key: "none", "fresh" or "stale" (its TTL nearly over)
  token,           \* per worker: its bearer token
  issueState,      \* the daemon's view: "open" or "claimed"
  handed,          \* history: workers the issue was given to since it was last open
  claimCall,       \* per worker: its claim request, with the issues left to try
  rpcFaults

keyVars == <<currentVersion, keyVersion, fleetServer>>
registerVars == <<rateEntries, register, registration, token>>
claimHandlerVars == <<issueState, handed, claimCall, rpcFaults>>
handlerVars == <<keyVars, registerVars, claimHandlerVars>>

Versions == 1..(MaxRotations + 1)
NoToken == [key |-> NoKey, shared |-> FALSE, expired |-> TRUE]
NoClaim == [at |-> "idle", todo |-> {}]
Starting(life) ==
  [at |-> "start", key |-> NoKey, shared |-> FALSE, version |-> 0, life |-> life]
NotCounted == [at |-> "idle", within |-> TRUE]

SigningKeys == {NoKey} \cup {Rotated(n) : n \in Versions}
               \cup {Ephemeral(s, n) : s \in FleetServers, n \in 0..MaxRestarts}

HandlersTypeOK ==
  /\ currentVersion \in 0..(MaxRotations + 1)
  /\ keyVersion \in [Versions -> SigningKeys]
  /\ fleetServer \in [FleetServers ->
       [at : {"start", "exists", "read", "up"}, key : SigningKeys, shared : BOOLEAN,
        version : 0..(MaxRotations + 1), life : 0..MaxRestarts]]
  /\ rateEntries \in 0..RegisterLimit
  /\ register \in [TokenWorkers ->
       [at : {"idle", "counted", "allowed", "registered"}, within : BOOLEAN]]
  /\ registration \in [TokenWorkers -> {"none", "fresh", "stale"}]
  /\ token \in [TokenWorkers -> [key : SigningKeys, shared : BOOLEAN, expired : BOOLEAN]]
  /\ issueState \in [FleetIssues -> {"open", "claimed"}]
  /\ handed \in [FleetIssues -> SUBSET TokenWorkers]
  /\ claimCall \in [TokenWorkers -> [at : {"idle", "trying"}, todo : SUBSET FleetIssues]]
  /\ rpcFaults \in 0..MaxRPCFaults

HandlersInit ==
  /\ currentVersion = 0
  /\ keyVersion = [v \in Versions |-> NoKey]
  /\ fleetServer = [s \in FleetServers |-> Starting(0)]
  /\ rateEntries = 0
  /\ register = [w \in TokenWorkers |-> NotCounted]
  /\ registration = [w \in TokenWorkers |-> "none"]
  /\ token = [w \in TokenWorkers |-> NoToken]
  /\ issueState = [i \in FleetIssues |-> "open"]
  /\ handed = [i \in FleetIssues |-> {}]
  /\ claimCall = [w \in TokenWorkers |-> NoClaim]
  /\ rpcFaults = 0

-----------------------------------------------------------------------------
\* Signing keys.

Up(s) == fleetServer[s].at = "up"
Serve(s, key, shared) ==
  fleetServer' = [fleetServer EXCEPT ![s].at = "up", ![s].version = 0,
                                     ![s].key = key, ![s].shared = shared]

\* Mutant: the script writes without looking.
CreatesUnchecked(s) ==
  /\ fleetServer[s].at = "start"
  /\ currentVersion' = 1
  /\ keyVersion' = [keyVersion EXCEPT ![1] = Ephemeral(s, fleetServer[s].life)]
  /\ Serve(s, Ephemeral(s, fleetServer[s].life), TRUE)
  /\ UNCHANGED <<registerVars, claimHandlerVars>>

\* GetOrCreateSigningKey: the script stores version 1 unless a version exists.
GetOrCreateSigningKey(s) ==
  /\ fleetServer[s].at = "start"
  /\ IF currentVersion = 0
     THEN /\ currentVersion' = 1
          /\ keyVersion' = [keyVersion EXCEPT ![1] = Ephemeral(s, fleetServer[s].life)]
          /\ Serve(s, Ephemeral(s, fleetServer[s].life), TRUE)
     ELSE /\ fleetServer' = [fleetServer EXCEPT ![s].at = "exists"]
          /\ UNCHANGED <<currentVersion, keyVersion>>
  /\ UNCHANGED <<registerVars, claimHandlerVars>>

\* getCurrentVersion and readKeyVersion: a rotation may come in between, but
\* keys are never removed.
GetCurrentVersion(s) ==
  /\ fleetServer[s].at = "exists"
  /\ fleetServer' = [fleetServer EXCEPT ![s].at = "read", ![s].version = currentVersion]
  /\ UNCHANGED <<currentVersion, keyVersion, registerVars, claimHandlerVars>>

ReadKeyVersion(s) ==
  /\ fleetServer[s].at = "read"
  /\ Serve(s, keyVersion[fleetServer[s].version], TRUE)
  /\ UNCHANGED <<currentVersion, keyVersion, registerVars, claimHandlerVars>>

\* Redis failed: the server goes on with a key of its own.
EphemeralKey(s) ==
  /\ ~Up(s)
  /\ Serve(s, Ephemeral(s, fleetServer[s].life), FALSE)
  /\ UNCHANGED <<currentVersion, keyVersion, registerVars, claimHandlerVars>>

RotateSigningKey ==
  /\ currentVersion \in 1..MaxRotations
  /\ currentVersion' = currentVersion + 1
  /\ keyVersion' = [keyVersion EXCEPT ![currentVersion + 1] = Rotated(currentVersion + 1)]
  /\ UNCHANGED <<fleetServer, registerVars, claimHandlerVars>>

RestartServer(s) ==
  /\ Up(s) /\ \A r \in FleetServers : fleetServer[r].life < MaxRestarts
  /\ fleetServer' = [fleetServer EXCEPT ![s] = Starting(@.life + 1)]
  /\ UNCHANGED <<currentVersion, keyVersion, registerVars, claimHandlerVars>>

-----------------------------------------------------------------------------
\* Registration: handleFleetRegister.  Requests without the API key, and the
\* ones a server without store, token or key configuration gets, end before
\* anything is written.

\* FleetRateLimiter.Allow: the pipeline's ZCARD and ZADD are two commands, and
\* a request that is refused counts as well.
AllowCount(w) ==
  /\ register[w].at = "idle" /\ \E s \in FleetServers : Up(s)
  /\ register' = [register EXCEPT ![w] = 
                    [at |-> "counted", within |-> rateEntries < RegisterLimit]]
  /\ UNCHANGED <<keyVars, rateEntries, registration, token, claimHandlerVars>>

AllowAdd(w) ==
  /\ register[w].at = "counted"
  /\ rateEntries' = IF rateEntries = RegisterLimit THEN rateEntries ELSE rateEntries + 1
  /\ register' = [register EXCEPT ![w] =
                    IF @.within THEN [at |-> "allowed", within |-> TRUE]
                    ELSE NotCounted]
  /\ UNCHANGED <<keyVars, registration, token, claimHandlerVars>>

WindowPasses ==
  /\ rateEntries > 0
  /\ rateEntries' = 0
  /\ UNCHANGED <<keyVars, register, registration, token, claimHandlerVars>>

\* RegisterWorker writes the worker's key whatever was there.
RegisterWorker(w) ==
  /\ register[w].at = "allowed"
  /\ registration' = [registration EXCEPT ![w] = "fresh"]
  /\ register' = [register EXCEPT ![w].at = "registered"]
  /\ UNCHANGED <<keyVars, rateEntries, token, claimHandlerVars>>

\* GenerateWorkerToken with the key this server holds.
IssueToken(w, s) ==
  /\ register[w].at = "registered" /\ Up(s)
  /\ token' = [token EXCEPT ![w] = [key |-> fleetServer[s].key,
                                    shared |-> fleetServer[s].shared, expired |-> FALSE]]
  /\ register' = [register EXCEPT ![w] = NotCounted]
  /\ UNCHANGED <<keyVars, rateEntries, registration, claimHandlerVars>>

\* A bad body or worker_id (400, 413), or RegisterWorker failed (500).
RegistrationFails(w) ==
  /\ register[w].at = "allowed"
  /\ register' = [register EXCEPT ![w] = NotCounted]
  /\ UNCHANGED <<keyVars, rateEntries, registration, token, claimHandlerVars>>

ValidateWorkerToken(tk, s) == ~tk.expired /\ tk.key = fleetServer[s].key

Authorised(w) == \E s \in FleetServers : Up(s) /\ ValidateWorkerToken(token[w], s)

\* handleFleetHeartbeat: EXPIRE on the key; without it the answer is a 404.
UpdateHeartbeat(w) ==
  /\ Authorised(w) /\ registration[w] = "stale"
  /\ registration' = [registration EXCEPT ![w] = "fresh"]
  /\ UNCHANGED <<keyVars, rateEntries, register, token, claimHandlerVars>>

RegistrationAges(w) ==
  /\ registration[w] # "none"
  /\ registration' = [registration EXCEPT ![w] = IF @ = "fresh" THEN "stale" ELSE "none"]
  /\ UNCHANGED <<keyVars, rateEntries, register, token, claimHandlerVars>>

TokenExpires(w) ==
  /\ ~token[w].expired
  /\ token' = [token EXCEPT ![w] = NoToken]
  /\ UNCHANGED <<keyVars, rateEntries, register, registration, claimHandlerVars>>

-----------------------------------------------------------------------------
\* Claiming: handleFleetClaim behind NewFleetAuthMiddleware.

\* Ready: a batch to try in order.  Nothing ready is a 204.
ReadyIssues(w) ==
  /\ claimCall[w].at = "idle" /\ Authorised(w)
  /\ LET open == {i \in FleetIssues : issueState[i] = "open"} IN
       /\ open # {}
       /\ claimCall' = [claimCall EXCEPT ![w] = [at |-> "trying", todo |-> open]]
  /\ UNCHANGED <<keyVars, registerVars, issueState, handed, rpcFaults>>

\* The daemon's Update with Claim set takes the issue if it is open.
Take(i) == issueState' = [issueState EXCEPT ![i] = "claimed"]
Hand(i, w) == handed' = [handed EXCEPT ![i] = @ \cup {w}]
TryNext(w, i) == claimCall' = [claimCall EXCEPT ![w].todo = @ \ {i}]
EndClaim(w) == claimCall' = [claimCall EXCEPT ![w] = NoClaim]

\* Mutant: what Ready listed is taken to be free.
ClaimsWhatWasListed(w, i) ==
  /\ claimCall[w].at = "trying" /\ i \in claimCall[w].todo
  /\ Take(i) /\ Hand(i, w) /\ EndClaim(w)
  /\ UNCHANGED <<keyVars, registerVars, rpcFaults>>

\* tryClaimIssue: an issue somebody has taken since Ready is passed over.
TryClaimIssue(w, i) ==
  /\ claimCall[w].at = "trying" /\ i \in claimCall[w].todo
  /\ IF issueState[i] = "open"
     THEN Take(i) /\ Hand(i, w) /\ EndClaim(w)
     ELSE TryNext(w, i) /\ UNCHANGED <<issueState, handed>>
  /\ UNCHANGED <<keyVars, registerVars, rpcFaults>>

\* The call fails, before or after the daemon took the issue, and the handler
\* goes on to the next one.
TryClaimFails(w, i) ==
  /\ claimCall[w].at = "trying" /\ i \in claimCall[w].todo
  /\ rpcFaults < MaxRPCFaults /\ rpcFaults' = rpcFaults + 1
  /\ issueState[i] = "open"
  /\ TryNext(w, i)
  /\ Take(i) \/ UNCHANGED issueState
  /\ UNCHANGED <<keyVars, registerVars, handed>>

\* All tried: 204.
NothingLeft(w) ==
  /\ claimCall[w].at = "trying" /\ claimCall[w].todo = {}
  /\ EndClaim(w)
  /\ UNCHANGED <<keyVars, registerVars, issueState, handed, rpcFaults>>

\* claimSpecificIssue: one issue, whose refusal is the answer.
ClaimSpecificIssue(w, i) ==
  /\ claimCall[w].at = "idle" /\ Authorised(w)
  /\ issueState[i] = "open"
  /\ \/ Take(i) /\ Hand(i, w) /\ UNCHANGED rpcFaults
     \/ /\ rpcFaults < MaxRPCFaults /\ rpcFaults' = rpcFaults + 1
        /\ Take(i) /\ UNCHANGED handed
  /\ UNCHANGED <<keyVars, registerVars, claimCall>>

\* The issue is opened again, by its worker or by a recovery.
Reopen(i) ==
  /\ issueState[i] = "claimed"
  /\ issueState' = [issueState EXCEPT ![i] = "open"]
  /\ handed' = [handed EXCEPT ![i] = {}]
  /\ UNCHANGED <<keyVars, registerVars, claimCall, rpcFaults>>

\* Servers start and workers register.
RegisterNext ==
  \/ \E s \in FleetServers :
       \/ GetOrCreateSigningKey(s)
       \/ \E w \in TokenWorkers : IssueToken(w, s)
  \/ WindowPasses
  \/ \E w \in TokenWorkers : AllowCount(w) \/ AllowAdd(w) \/ RegisterWorker(w)

\* What else becomes of keys and tokens.
KeysNext ==
  \/ RegisterNext \/ RotateSigningKey
  \/ \E s \in FleetServers :
       GetCurrentVersion(s) \/ ReadKeyVersion(s) \/ EphemeralKey(s) \/ RestartServer(s)
  \/ \E w \in TokenWorkers :
       RegistrationFails(w) \/ TokenExpires(w)

ClaimsNext ==
  \/ \E w \in TokenWorkers :
       \/ UpdateHeartbeat(w) \/ RegistrationAges(w)
       \/ ReadyIssues(w) \/ NothingLeft(w)
       \/ \E i \in FleetIssues :
            TryClaimIssue(w, i) \/ TryClaimFails(w, i) \/ ClaimSpecificIssue(w, i)
  \/ \E i \in FleetIssues : Reopen(i)

HandlersSpec == HandlersInit /\ [][KeysNext \/ ClaimsNext]_handlerVars

-----------------------------------------------------------------------------
\* GetOrCreateSigningKey is "safe for concurrent calls from multiple servers":
\* until a rotation, a token of one server that has its key from Redis is
\* valid on every other, whatever the order in which they started.
TokensValidateOnEveryServer ==
  currentVersion <= 1 =>
    \A w \in TokenWorkers, s \in FleetServers :
      ~token[w].expired /\ token[w].shared /\ Up(s) /\ fleetServer[s].shared
        => ValidateWorkerToken(token[w], s)

\* handleFleetClaim "atomically claims a task": two workers that were shown
\* the same ready issue are never both given it.
HandedOnce == \A i \in FleetIssues : Cardinality(handed[i]) <= 1
=============================================================================

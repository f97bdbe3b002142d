---------------------------- MODULE WebUI_proofs ----------------------------
(***************************************************************************)
(* Proofs about the web UI's server: the terminal tokens, the terminal     *)
(* sessions, the ready list and the board, the log router, the log         *)
(* streamer, the metadata of tabs and the event stream's hub.  Each is a   *)
(* specification over variables of its own.                                *)
(***************************************************************************)
EXTENDS IssueViews, Terminal, LogStream, TabMeta, EventStream, FiniteSetTheorems, SequenceTheorems, TLAPS

-----------------------------------------------------------------------------
(* One-time tokens.                                                        *)

\* One token against the clock.  A record of a use is never older than the
\* token's last valid moment minus its lifetime, and one that the cleanup
\* has forgotten belongs to a token that has expired.
TokenInv(n) ==
  /\ tokenExp[n] # -1 => tokenExp[n] >= 0 /\ tokenExp[n] <= now + TokenExpiry
  /\ usedNonces[n] # -1 => /\ uses[n] = 1 /\ tokenExp[n] # -1
                           /\ usedNonces[n] >= 0 /\ usedNonces[n] <= now
                           /\ tokenExp[n] <= usedNonces[n] + TokenExpiry
  /\ usedNonces[n] = -1 => \/ uses[n] = 0
                           \/ uses[n] = 1 /\ tokenExp[n] # -1 /\ tokenExp[n] < now

TokensInv ==
  /\ now \in Nat
  /\ tokenExp \in [Nonces -> Int]
  /\ usedNonces \in [Nonces -> Int]
  /\ uses \in [Nonces -> Int]
  /\ \A n \in Nonces : TokenInv(n)

\* The invariant of the tokens is inductive.
LEMMA TokensStep == TokensInv /\ [TokenNext]_tokenVars => TokensInv'
<1> SUFFICES ASSUME TokensInv, [TokenNext]_tokenVars PROVE TokensInv'
  OBVIOUS
<1> USE TerminalConstants DEF TokensInv
<1>1. ASSUME NEW n \in Nonces, GenerateToken(n) PROVE TokensInv'
  BY <1>1 DEF GenerateToken, TokenInv
<1>2. ASSUME NEW n \in Nonces, ValidateToken(n) PROVE TokensInv'
  BY <1>2 DEF ValidateToken, TokenInv
<1>3. CASE CleanupNonces
  BY <1>3 DEF CleanupNonces, NonceExpired, TokenInv
<1>4. CASE ClockTick
  BY <1>4 DEF ClockTick, TokenInv
<1>5. CASE UNCHANGED tokenVars
  BY <1>5 DEF tokenVars, TokenInv
<1> QED
  BY <1>1, <1>2, <1>3, <1>4, <1>5 DEF TokenNext

\* A terminal token (terminal_auth.go) is accepted at most once, for all
\* lifetimes of tokens and of the records of their use with the first one
\* shorter, however the cleanup and the clock fall between the attempts.
THEOREM TokensAreOneTime == TokenSpec => []TokensWorkOnce
<1>1. TokenInit => TokensInv
  BY TerminalConstants DEF TokenInit, TokensInv, TokenInv
<1>2. TokensInv => TokensWorkOnce
  BY DEF TokensInv, TokenInv, TokensWorkOnce
<1> QED
  BY <1>1, <1>2, TokensStep, PTL DEF TokenSpec

-----------------------------------------------------------------------------
(* The ready list and the board.                                           *)

\* While a view is being put together, everything closed now is among what
\* was closed since the request began, and what it fetched are issues.
ViewInv ==
  /\ status \in [Issues -> Statuses]
  /\ deps \subseteq [from : Issues, on : Issues, type : DepTypes]
  /\ fetched \subseteq Issues
  /\ step # "none" => Closed \subseteq wasClosed
  /\ ShownFreeIsUnblocked

\* Blockers are issues.
LEMMA BlockersAreIssues ==
  ASSUME ViewInv, NEW i PROVE Blockers(i) \subseteq Issues
BY DEF ViewInv, Blockers

\* The invariant of the views is inductive.
LEMMA ViewsStep == ViewInv /\ [ViewsNext]_viewVars => ViewInv'
<1> SUFFICES ASSUME ViewInv, [ViewsNext]_viewVars PROVE ViewInv'
  OBVIOUS
<1>1. ASSUME NEW i \in Issues, NEW s \in Statuses, ChangeStatus(i, s) PROVE ViewInv'
  BY <1>1 DEF ViewInv, ChangeStatus, ShownFreeIsUnblocked, Closed, Blockers
<1>2. CASE FirstCall
  BY <1>2 DEF ViewInv, FirstCall, ShownFreeIsUnblocked, Closed, Blockers, DaemonReady
<1>3. CASE CallBlocked
  BY <1>3 DEF ViewInv, CallBlocked, ShownFreeIsUnblocked, Closed, Blockers
<1>4. CASE FilterUnclosedBlockers
  <2>1. ASSUME corrected', NEW i \in DOMAIN shown', ~shown'[i] PROVE Blockers(i)' \subseteq wasClosed'
    <3>1. PICK S \in Listed : /\ shown' = [j \in {k \in fetched :
                                        ~HasUnclosedBlockersTyped(k, UnclosedIDs(S))} |-> FALSE]
                             /\ corrected' = (S = Issues)
      BY <1>4, <2>1 DEF FilterUnclosedBlockers
    <3>2. S = Issues
      BY <2>1, <3>1
    <3>3. Blockers(i) \cap UnclosedIDs(Issues) = {}
      BY <2>1, <3>1, <3>2 DEF HasUnclosedBlockersTyped
    <3>4. Blockers(i)' = Blockers(i) /\ wasClosed' = wasClosed
      BY <1>4 DEF FilterUnclosedBlockers, Blockers
    <3>5. Closed \subseteq wasClosed
      BY <1>4 DEF FilterUnclosedBlockers, ViewInv
    <3> QED
      BY <3>3, <3>4, <3>5, BlockersAreIssues DEF UnclosedIDs, Closed
  <2>2. ShownFreeIsUnblocked'
    BY <2>1 DEF ShownFreeIsUnblocked
  <2> QED
    BY <1>4, <2>2 DEF ViewInv, FilterUnclosedBlockers
<1>5. CASE MergeBlocked
  <2>1. ASSUME corrected', NEW i \in DOMAIN shown', ~shown'[i] PROVE Blockers(i)' \subseteq wasClosed'
    <3>1. PICK S \in Listed : /\ shown' = [j \in fetched |-> GetUnclosedBlockerRefs(j, UnclosedIDs(S)) # {}]
                             /\ corrected' = (S = Issues)
      BY <1>5, <2>1 DEF MergeBlocked
    <3>2. S = Issues
      BY <2>1, <3>1
    <3>3. Blockers(i) \cap UnclosedIDs(Issues) = {}
      BY <2>1, <3>1, <3>2 DEF GetUnclosedBlockerRefs
    <3>4. Blockers(i)' = Blockers(i) /\ wasClosed' = wasClosed
      BY <1>5 DEF MergeBlocked, Blockers
    <3>5. Closed \subseteq wasClosed
      BY <1>5 DEF MergeBlocked, ViewInv
    <3> QED
      BY <3>3, <3>4, <3>5, BlockersAreIssues DEF UnclosedIDs, Closed
  <2>2. ShownFreeIsUnblocked'
    BY <2>1 DEF ShownFreeIsUnblocked
  <2> QED
    BY <1>5, <2>2 DEF ViewInv, MergeBlocked
<1>6. CASE UNCHANGED viewVars
  BY <1>6 DEF viewVars, ViewInv, ShownFreeIsUnblocked, Closed, Blockers
<1> QED
  BY <1>1, <1>2, <1>3, <1>4, <1>5, <1>6 DEF ViewsNext

\* filterUnclosedBlockers and the board's merge (handlers_ready.go,
\* handlers_issues.go) never show an issue as free while one of its blockers
\* stayed unclosed from the request's first RPC on, for any issues,
\* dependencies and limit of the correcting List.
THEOREM FreeIssuesAreUnblocked == ViewsSpec => []ShownFreeIsUnblocked
<1>1. ViewsInit => ViewInv
  BY DEF ViewsInit, ViewInv, ShownFreeIsUnblocked, Statuses
<1>2. ViewInv => ShownFreeIsUnblocked
  BY DEF ViewInv
<1> QED
  BY <1>1, <1>2, ViewsStep, PTL DEF ViewsSpec
-----------------------------------------------------------------------------
(* The log router and the lock file.                                       *)

LastLockEvent == lockEvents[Len(lockEvents)]

RouterTypeOK ==
  /\ lockFile \in {"none", "partial", "whole"}
  /\ lwAt \in {"start", "added", "read", "loop", "closed"}
  /\ watching \in BOOLEAN /\ openFailed \in BOOLEAN
  /\ lockEvents \in Seq({"change", "remove"})
  /\ lockTask \in LogTasks \cup {None}
  /\ routed \in [task : LogTasks \cup {None}, writer : LogTasks \cup {None}]

\* The last event that waits tells how the file was left; when none waits,
\* the router has the task the file names, from the initial read on.
RouterInv ==
  /\ RouterTypeOK
  /\ lockFile # "whole" => lockTask = None
  /\ lwAt \in {"added", "read", "loop"} => watching
  /\ ~watching => lockEvents = <<>>
  /\ lwAt \in {"start", "added"} => routed.task = None /\ routed.writer = None /\ ~openFailed
  /\ lwAt # "closed" /\ ~openFailed => routed.writer = routed.task
  /\ lockEvents # <<>> =>
       /\ lockFile = "whole" => LastLockEvent = "change"
       /\ lockFile = "none" => LastLockEvent = "remove"
  /\ lwAt \in {"read", "loop"} /\ lockEvents = <<>> /\ lockFile # "partial" /\ ~openFailed =>
       routed.task = lockTask

\* A queue with one more event is not empty and ends with it.
LEMMA AppendLast ==
  ASSUME NEW S, NEW q \in Seq(S), NEW e \in S
  PROVE  /\ Append(q, e) \in Seq(S) /\ Append(q, e) # <<>>
         /\ Append(q, e)[Len(Append(q, e))] = e
OBVIOUS

\* Without its first event a queue is empty, or ends as before.
LEMMA TailLast ==
  ASSUME NEW S, NEW q \in Seq(S), q # <<>>
  PROVE  /\ Tail(q) \in Seq(S) /\ Head(q) \in S
         /\ Tail(q) = <<>> => Head(q) = q[Len(q)]
         /\ Tail(q) # <<>> => Tail(q)[Len(Tail(q))] = q[Len(q)]
<1>1. Len(q) \in Nat /\ Len(q) # 0
  OBVIOUS
<1>2. Tail(q) \in Seq(S) /\ Head(q) \in S /\ Len(Tail(q)) = Len(q) - 1
  BY <1>1
<1>3. ASSUME Tail(q) = <<>> PROVE Head(q) = q[Len(q)]
  <2>1. Len(q) = 1
    BY <1>1, <1>2, <1>3
  <2> QED
    BY <2>1
<1>4. ASSUME Tail(q) # <<>> PROVE Tail(q)[Len(Tail(q))] = q[Len(q)]
  <2>1. Len(Tail(q)) \in 1..(Len(q) - 1)
    BY <1>1, <1>2, <1>4
  <2> QED
    BY <1>1, <1>2, <2>1
<1> QED
  BY <1>2, <1>3, <1>4

\* What SetTask leaves behind.
LEMMA SetTaskResult ==
  ASSUME RouterTypeOK, NEW t \in LogTasks \cup {None}, SetTask(t)
  PROVE  /\ routed' \in [task : LogTasks \cup {None}, writer : LogTasks \cup {None}]
         /\ openFailed' \in BOOLEAN /\ (openFailed => openFailed')
         /\ ~openFailed' => routed'.task = t
         /\ ~openFailed' => routed'.writer = t \/ routed' = routed
<1>1. CASE routed.task = t
  BY <1>1 DEF SetTask, RouterTypeOK
<1>2. CASE routed.task # t /\ routed' = [task |-> t, writer |-> t] /\ UNCHANGED openFailed
  BY <1>2 DEF RouterTypeOK
<1>3. CASE routed.task # t /\ routed' = [routed EXCEPT !.writer = None] /\ openFailed' = TRUE
  <2>1. routed' = [task |-> routed.task, writer |-> None]
    BY <1>3 DEF RouterTypeOK
  <2> QED
    BY <1>3, <2>1 DEF RouterTypeOK
<1> QED
  BY <1>1, <1>2, <1>3 DEF SetTask

\* A change of the lock file by the agent keeps the router's invariant.
LEMMA LockChangeKeeps ==
  ASSUME RouterInv, NEW e \in {"change", "remove"}, Notify(e),
         UNCHANGED <<lwAt, watching, routed, unflushed, openFailed>>,
         lockFile' \in {"none", "partial", "whole"}, lockTask' \in LogTasks \cup {None},
         lockFile' # "whole" => lockTask' = None,
         lockFile' = "whole" => e = "change", lockFile' = "none" => e = "remove"
  PROVE  RouterInv'
<1>1. CASE watching
  <2>1. lockEvents' = Append(lockEvents, e)
    BY <1>1 DEF Notify
  <2>2. /\ lockEvents' \in Seq({"change", "remove"}) /\ lockEvents' # <<>>
        /\ LastLockEvent' = e
    BY <2>1, AppendLast DEF RouterInv, RouterTypeOK, LastLockEvent
  <2>3. RouterTypeOK'
    BY <2>2 DEF RouterInv, RouterTypeOK
  <2> QED
    BY <1>1, <2>2, <2>3 DEF RouterInv
<1>2. CASE ~watching
  <2>1. lockEvents' = lockEvents /\ lwAt \in {"start", "closed"}
    BY <1>2 DEF Notify, RouterInv, RouterTypeOK
  <2>2. RouterTypeOK'
    BY <2>1 DEF RouterInv, RouterTypeOK
  <2> QED
    BY <1>2, <2>1, <2>2 DEF RouterInv
<1> QED
  BY <1>1, <1>2

\* The router's invariant is inductive.
LEMMA RouterStep == RouterInv /\ [LogRouterNext]_routerState => RouterInv'
<1> SUFFICES ASSUME RouterInv, [LogRouterNext]_routerState PROVE RouterInv'
  OBVIOUS
<1>1. CASE LockCreated
  BY <1>1, LockChangeKeeps DEF LockCreated, RouterInv, RouterTypeOK
<1>2. ASSUME NEW t \in LogTasks \cup {None}, LockWritten(t) PROVE RouterInv'
  BY <1>2, LockChangeKeeps DEF LockWritten
<1>3. CASE LockTruncated
  BY <1>3, LockChangeKeeps DEF LockTruncated
<1>4. CASE LockRemoved
  BY <1>4, LockChangeKeeps DEF LockRemoved
<1>5. CASE AddWatch
  BY <1>5 DEF AddWatch, RouterInv, RouterTypeOK, LastLockEvent
<1>6. CASE InitialRead
  <2>1. CASE lockFile = "whole"
    <3>1. SetTask(lockTask)
      BY <1>6, <2>1 DEF InitialRead, ReadAndUpdateLock
    <3> QED
      BY <1>6, <3>1, SetTaskResult DEF InitialRead, RouterInv, RouterTypeOK, LastLockEvent
  <2>2. CASE lockFile # "whole"
    BY <1>6, <2>2 DEF InitialRead, ReadAndUpdateLock, RouterInv, RouterTypeOK, LastLockEvent
  <2> QED
    BY <2>1, <2>2
<1>7. CASE StartWatch
  BY <1>7 DEF StartWatch, RouterInv, RouterTypeOK, LastLockEvent
<1>8. CASE HandleLockEvent
  <2> DEFINE e == Head(lockEvents)
  <2>1. /\ lockEvents' \in Seq({"change", "remove"}) /\ e \in {"change", "remove"}
        /\ lockEvents' = <<>> => e = LastLockEvent
        /\ lockEvents' # <<>> => LastLockEvent' = LastLockEvent
        /\ lockEvents # <<>>
    BY <1>8, TailLast DEF HandleLockEvent, RouterInv, RouterTypeOK, LastLockEvent
  <2>2. UNCHANGED <<lockFile, lockTask, lwAt, watching>> /\ lwAt = "loop"
    BY <1>8 DEF HandleLockEvent
  <2>3. CASE e = "remove"
    <3>1. SetTask(None)
      BY <1>8, <2>3 DEF HandleLockEvent
    <3> QED
      BY <2>1, <2>2, <2>3, <3>1, SetTaskResult DEF RouterInv, RouterTypeOK
  <2>4. CASE e = "change" /\ lockFile = "whole"
    <3>1. SetTask(lockTask)
      BY <1>8, <2>4 DEF HandleLockEvent, ReadAndUpdateLock
    <3> QED
      BY <2>1, <2>2, <2>4, <3>1, SetTaskResult DEF RouterInv, RouterTypeOK
  <2>5. CASE e = "change" /\ lockFile # "whole"
    <3>1. UNCHANGED <<routed, openFailed>>
      BY <1>8, <2>5 DEF HandleLockEvent, ReadAndUpdateLock
    <3> QED
      BY <2>1, <2>2, <2>5, <3>1 DEF RouterInv, RouterTypeOK
  <2> QED
    BY <2>1, <2>3, <2>4, <2>5
<1>9. CASE RouteOutput
  BY <1>9 DEF RouteOutput, RouterInv, RouterTypeOK, LastLockEvent
<1>10. CASE EndOfOutput
  <2>1. routed' = [task |-> routed.task, writer |-> None]
    BY <1>10 DEF EndOfOutput, RouterInv, RouterTypeOK
  <2>2. RouterTypeOK'
    <3>1. routed' \in [task : LogTasks \cup {None}, writer : LogTasks \cup {None}]
      BY <2>1 DEF RouterInv, RouterTypeOK
    <3>2. lockEvents' = <<>> /\ watching' = FALSE
      BY <1>10 DEF EndOfOutput
    <3>3. lockEvents' \in Seq({"change", "remove"})
      BY <3>2
    <3>4. watching' \in BOOLEAN
      BY <3>2
    <3> QED
      BY <1>10, <3>1, <3>3, <3>4 DEF EndOfOutput, RouterInv, RouterTypeOK
  <2> QED
    BY <1>10, <2>1, <2>2 DEF EndOfOutput, RouterInv
<1>11. CASE UNCHANGED routerState
  BY <1>11 DEF routerState, RouterInv, RouterTypeOK, LastLockEvent
<1> QED
  BY <1>1, <1>2, <1>3, <1>4, <1>5, <1>6, <1>7, <1>8, <1>9, <1>10, <1>11 DEF LogRouterNext

\* The router (logrouter/router.go) that has handled its events writes to the
\* log of the task the lock file names, for any tasks and any number of
\* events: the directory is watched before the initial read.
THEOREM RouterKeepsUp == LogRouterSpec => []RouterFollowsLock
<1>1. LogRouterInit => RouterInv
  <2> SUFFICES ASSUME LogRouterInit PROVE RouterInv
    OBVIOUS
  <2>1. routed \in [task : LogTasks \cup {None}, writer : LogTasks \cup {None}]
    BY DEF LogRouterInit
  <2>2. lockEvents \in Seq({"change", "remove"})
    BY DEF LogRouterInit
  <2>3. watching \in BOOLEAN /\ openFailed \in BOOLEAN
    BY DEF LogRouterInit
  <2>4. RouterTypeOK
    BY <2>1, <2>2, <2>3 DEF LogRouterInit, RouterTypeOK
  <2> QED
    BY <2>4 DEF LogRouterInit, RouterInv
<1>2. RouterInv => RouterFollowsLock
  BY DEF RouterInv, RouterFollowsLock
<1> QED
  BY <1>1, <1>2, RouterStep, PTL DEF LogRouterSpec

-----------------------------------------------------------------------------
(* The streamer of a rotating log.                                         *)

StreamTypeOK ==
  /\ log \in [gen : 0..MaxRotations, size : Nat]
  /\ logPresent \in BOOLEAN
  /\ stream \in [at : {"off", "live"}, start : Nat, size : Nat]
  /\ lag \in 0..MaxLag

\* The browser has a piece of the file that is there now, which has grown by
\* no more than was written since the last read.
OfThisLog ==
  /\ streamed = ChunksOf(log.gen, stream.start, stream.size)
  /\ stream.size <= log.size
  /\ log.size <= stream.size + lag
\* It has a piece of an older generation, and the new file is shorter: too
\* little was written since the last read to make it as long.
OfOldLog ==
  /\ \E g \in 0..MaxRotations : streamed = ChunksOf(g, stream.start, stream.size)
  /\ log.size <= lag
  /\ log.size + MaxLog <= stream.size + lag
\* It has nothing yet.
OfNoLog == stream.start = 0 /\ stream.size = 0 /\ streamed = {}

StreamInv ==
  /\ StreamTypeOK
  /\ ~logPresent => log.size >= MaxLog /\ log.gen < MaxRotations
  /\ stream.at = "live" => /\ stream.start <= stream.size
                           /\ OfThisLog \/ OfOldLog \/ OfNoLog

\* Two pieces of a generation that touch are one.
LEMMA ChunksJoin ==
  ASSUME NEW g, NEW a \in Nat, NEW b \in Nat, NEW c \in Nat, a <= b, b <= c
  PROVE  ChunksOf(g, a, b) \cup ChunksOf(g, b, c) = ChunksOf(g, a, c)
BY DEF ChunksOf

\* A piece that ends where it begins is empty.
LEMMA ChunksEmpty == ASSUME NEW g, NEW a \in Nat PROVE ChunksOf(g, a, a) = {}
BY DEF ChunksOf

\* The streamer's invariant is inductive.
LEMMA StreamStep == StreamInv /\ [LogFileNext]_streamState => StreamInv'
<1> SUFFICES ASSUME StreamInv, [LogFileNext]_streamState PROVE StreamInv'
  OBVIOUS
<1> USE LogConstants
<1>1. CASE LogWrite
  <2>1. log' = [gen |-> log.gen, size |-> log.size + 1]
    BY <1>1 DEF LogWrite, StreamInv, StreamTypeOK
  <2>2. /\ log'.gen = log.gen /\ log'.size = log.size + 1
        /\ log' \in [gen : 0..MaxRotations, size : Nat]
    BY <2>1 DEF StreamInv, StreamTypeOK
  <2>3. UNCHANGED <<logPresent, stream, streamed>> /\ logPresent
    BY <1>1 DEF LogWrite
  <2>4. lag' \in 0..MaxLag /\ (stream.at = "live" => lag' = lag + 1)
    BY <1>1 DEF LogWrite, MayWrite, Lagging, StreamInv, StreamTypeOK
  <2> QED
    BY <2>2, <2>3, <2>4 DEF StreamInv, StreamTypeOK, OfThisLog, OfOldLog, OfNoLog
<1>2. CASE RenameToBackup
  BY <1>2 DEF RenameToBackup, StreamInv, StreamTypeOK, OfThisLog, OfOldLog, OfNoLog
<1>3. CASE OpenFreshFile
  <2>1. log' = [gen |-> log.gen + 1, size |-> 1] /\ log.gen < MaxRotations /\ log.size >= MaxLog
    BY <1>3 DEF OpenFreshFile, StreamInv
  <2>2. /\ log'.size = 1 /\ log' \in [gen : 0..MaxRotations, size : Nat]
    BY <2>1 DEF StreamInv, StreamTypeOK
  <2>3. UNCHANGED <<stream, streamed>> /\ logPresent'
    BY <1>3 DEF OpenFreshFile
  <2>4. lag' \in 0..MaxLag /\ (stream.at = "live" => lag' = lag + 1)
    BY <1>3 DEF OpenFreshFile, MayWrite, Lagging, StreamInv, StreamTypeOK
  <2>5. ASSUME stream.at = "live" PROVE OfOldLog' \/ OfNoLog'
    <3>1. CASE OfThisLog
      BY <2>1, <2>2, <2>3, <2>4, <2>5, <3>1 DEF StreamInv, StreamTypeOK, OfThisLog, OfOldLog
    <3>2. CASE OfOldLog
      BY <2>1, <2>2, <2>3, <2>4, <2>5, <3>2 DEF StreamInv, StreamTypeOK, OfOldLog
    <3>3. CASE OfNoLog
      BY <2>3, <3>3 DEF OfNoLog
    <3> QED
      BY <2>5, <3>1, <3>2, <3>3 DEF StreamInv
  <2> QED
    BY <2>2, <2>3, <2>4, <2>5, <1>3 DEF StreamInv, StreamTypeOK, OpenFreshFile
<1>4. ASSUME NEW s \in 0..MaxLog, StreamFrom(s) PROVE StreamInv'
  <2>1. stream' = [at |-> "live", start |-> s, size |-> log.size] /\ s <= log.size /\ lag' = 0
    BY <1>4 DEF StreamFrom
  <2>2. stream'.start = s /\ stream'.size = log.size /\ StreamTypeOK'
    BY <1>4, <2>1 DEF StreamFrom, StreamInv, StreamTypeOK
  <2>3. OfThisLog'
    BY <1>4, <2>1, <2>2 DEF StreamFrom, StreamInv, StreamTypeOK, OfThisLog, ChunksOf
  <2> QED
    BY <1>4, <2>1, <2>2, <2>3 DEF StreamFrom, StreamInv
<1>5. CASE StreamEvent
  BY <1>5 DEF StreamEvent, StreamInv, StreamTypeOK, OfThisLog, OfOldLog, OfNoLog
<1>6. CASE ReadNewChunks
  <2>1. CASE ~logPresent
    BY <1>6, <2>1 DEF ReadNewChunks, StreamInv, StreamTypeOK, OfThisLog, OfOldLog, OfNoLog
  <2>2. CASE logPresent /\ FileTruncated(log.size)
    <3>1. stream' = [at |-> "live", start |-> 0, size |-> 0] /\ streamed' = {} /\ lag' = 0
      BY <1>6, <2>2 DEF ReadNewChunks, StreamInv, StreamTypeOK
    <3>2. StreamTypeOK' /\ OfNoLog' /\ stream'.start <= stream'.size
      BY <1>6, <3>1 DEF ReadNewChunks, StreamInv, StreamTypeOK, OfNoLog
    <3> QED
      BY <1>6, <3>2 DEF ReadNewChunks, StreamInv
  <2>3. CASE logPresent /\ ~FileTruncated(log.size)
    <3>1. log.size >= stream.size /\ log.size \in Nat /\ stream.size \in Nat /\ stream.start \in Nat
      BY <2>3 DEF FileTruncated, StreamInv, StreamTypeOK
    <3>2. stream' = [at |-> "live", start |-> stream.start, size |-> log.size]
      BY <1>6, <2>3, <3>1 DEF ReadNewChunks, StreamInv, StreamTypeOK
    <3>3. /\ stream'.start = stream.start /\ stream'.size = log.size
          /\ streamed' = streamed \cup ChunksOf(log.gen, stream.size, log.size) /\ lag' = 0
          /\ UNCHANGED <<log, logPresent>> /\ stream.at = "live"
      BY <1>6, <2>3, <3>2 DEF ReadNewChunks
    <3>4. streamed = ChunksOf(log.gen, stream.start, stream.size)
      <4>1. CASE OfThisLog
        BY <4>1 DEF OfThisLog
      <4>2. CASE OfOldLog
        BY <4>2, <3>1 DEF OfOldLog, StreamInv, StreamTypeOK
      <4>3. CASE OfNoLog
        BY <4>3, ChunksEmpty DEF OfNoLog
      <4> QED
        BY <3>3, <4>1, <4>2, <4>3 DEF StreamInv
    <3>5. stream.start <= stream.size
      BY <3>3 DEF StreamInv
    <3>6. streamed' = ChunksOf(log.gen, stream.start, log.size)
      BY <3>1, <3>3, <3>4, <3>5, ChunksJoin
    <3>7. OfThisLog'
      BY <3>1, <3>3, <3>6 DEF OfThisLog, ChunksOf
    <3>8. StreamTypeOK'
      BY <3>1, <3>2, <3>3 DEF StreamInv, StreamTypeOK
    <3> QED
      BY <3>1, <3>3, <3>5, <3>7, <3>8 DEF StreamInv
  <2> QED
    BY <2>1, <2>2, <2>3
<1>7. CASE StreamCloses
  BY <1>7 DEF StreamCloses, StreamInv, StreamTypeOK
<1>8. CASE UNCHANGED streamState
  BY <1>8 DEF streamState, StreamInv, StreamTypeOK, OfThisLog, OfOldLog, OfNoLog, ChunksOf
<1> QED
  BY <1>1, <1>2, <1>3, <1>4, <1>5, <1>6, <1>7, <1>8 DEF LogFileNext

\* A browser that follows a log (log_streamer.go) has one contiguous piece of
\* one generation, for files of any size and any number of rotations, as long
\* as a whole file is not written between two reads.
THEOREM StreamsAreFaithful == LogFileSpec => []StreamIsFaithful
<1>1. LogFileInit => StreamInv
  BY LogConstants DEF LogFileInit, StreamInv, StreamTypeOK
<1>2. StreamInv => StreamIsFaithful
  <2> SUFFICES ASSUME StreamInv, stream.at = "live"
               PROVE  \E g \in 0..MaxRotations : streamed = ChunksOf(g, stream.start, stream.size)
    BY DEF StreamIsFaithful
  <2>1. CASE OfThisLog
    BY <2>1 DEF OfThisLog, StreamInv, StreamTypeOK
  <2>2. CASE OfOldLog
    BY <2>2 DEF OfOldLog
  <2>3. CASE OfNoLog
    BY <2>3, ChunksEmpty, LogConstants DEF OfNoLog
  <2> QED
    BY <2>1, <2>2, <2>3 DEF StreamInv
<1> QED
  BY <1>1, <1>2, StreamStep, PTL DEF LogFileSpec

-----------------------------------------------------------------------------
(* Metadata of tabs.                                                       *)

\* A listing knows of every tab that has a record: it will read it, has read
\* it, could not read it, or the record is younger than its scan.  When it
\* gives defaults, a tab with a record is one of the last two kinds.
ListingKnows(r) ==
  /\ tabReq[r].pc \in {"scan", "read", "set"} => tabReq[r].kind = "list"
  /\ tabReq[r].pc = "hset" => tabReq[r].session \in TabSessions
  /\ tabReq[r].pc = "read" =>
       \A s \in TabSessions : tabHash[s] # {} =>
         s \in tabReq[r].todo \union tabReq[r].found \union tabReq[r].missed \union tabBorn[r]
  /\ tabReq[r].pc = "set" =>
       \A s \in tabReq[r].todo : tabHash[s] # {} => s \in tabReq[r].missed \union tabBorn[r]

TabInv == TabTypeOK /\ \A r \in TabRequests : ListingKnows(r)

\* The fields that are written are typed.
LEMMA FieldsType ==
  /\ <<"label", "default">> \in TabFields
  /\ <<"created", TRUE>> \in TabFields
  /\ \A n \in Nat : <<"order", n>> \in TabFields
  /\ \A r \in TabRequests : <<"label", r>> \in TabFields
<1>1. <<"label", "default">> \in {"label"} \X (TabRequests \union {"default"})
  OBVIOUS
<1>2. <<"created", TRUE>> \in {"created"} \X {TRUE}
  OBVIOUS
<1>3. \A n \in Nat : <<"order", n>> \in {"order"} \X Nat
  OBVIOUS
<1>4. \A r \in TabRequests : <<"label", r>> \in {"label"} \X (TabRequests \union {"default"})
  OBVIOUS
<1> QED
  BY <1>1, <1>2, <1>3, <1>4 DEF TabFields

\* HSet of typed fields on a typed hash.
LEMMA HSetType ==
  ASSUME NEW h \in SUBSET TabFields, NEW f \in SUBSET TabFields
  PROVE  HSet(h, f) \in SUBSET TabFields
BY DEF HSet

\* The order of a hash, 0 by default, is a number.
LEMMA OrderType ==
  ASSUME NEW h \in SUBSET TabFields
  PROVE  FieldOf(h, "order", 0) \in Nat
<1>1. CASE \E f \in h : f[1] = "order"
  <2> DEFINE f == CHOOSE f \in h : f[1] = "order"
  <2>1. f \in h /\ f[1] = "order"
    BY <1>1
  <2>2. f \in TabFields
    BY <2>1
  <2>3. f[2] \in Nat
    BY <2>1, <2>2 DEF TabFields
  <2> QED
    BY <1>1, <2>3 DEF FieldOf
<1>2. CASE ~ \E f \in h : f[1] = "order"
  BY <1>2 DEF FieldOf
<1> QED
  BY <1>1, <1>2

\* The greater of two numbers is a number.
LEMMA MaxType == ASSUME NEW a \in Nat, NEW b \in Nat PROVE Max({a, b}) \in Nat
<1>1. \E x \in {a, b} : \A y \in {a, b} : x >= y
  OBVIOUS
<1> QED
  BY <1>1 DEF Max

\* A step of request r replaces its record and no other.
LEMMA TabStepResult ==
  ASSUME TabTypeOK, NEW r \in TabRequests, NEW next \in TabRecord, TabStep(r, next)
  PROVE  /\ tabReq' \in [TabRequests -> TabRecord]
         /\ tabReq'[r] = next
         /\ \A q \in TabRequests \ {r} : tabReq'[q] = tabReq[q]
BY DEF TabTypeOK, TabStep

\* A step that changes no hash, and whose request is typed and keeps to the
\* listing's knowledge, keeps the invariant.
LEMMA QuietTabStep ==
  ASSUME TabInv, RememberBorn, UNCHANGED tabHash, NEW r \in TabRequests, NEW next \in TabRecord,
         TabStep(r, next), tabActive' \subseteq TabSessions, tabFaults' \in 0..MaxTabFaults,
         next.pc \in {"scan", "read", "set"} => next.kind = "list",
         next.pc = "hset" => next.session \in TabSessions,
         next.pc = "read" =>
           \A s \in TabSessions : tabHash[s] # {} =>
             s \in next.todo \union next.found \union next.missed \union tabBorn[r],
         next.pc = "set" =>
           \A s \in next.todo : tabHash[s] # {} => s \in next.missed \union tabBorn[r]
  PROVE  TabInv' /\ \A s \in TabSessions : KeepsLabel(s)
<1>1. \A q \in TabRequests : tabBorn'[q] = tabBorn[q]
  BY DEF RememberBorn, TabInv, TabTypeOK
<1>2. TabTypeOK'
  BY TabStepResult DEF TabInv, TabTypeOK, RememberBorn
<1>3. \A q \in TabRequests : ListingKnows(q)'
  BY <1>1, TabStepResult DEF TabInv, ListingKnows
<1>4. \A s \in TabSessions : KeepsLabel(s)
  BY DEF KeepsLabel, TabLabel
<1> QED
  BY <1>2, <1>3, <1>4 DEF TabInv
\* Whatever a step does to the hashes, a request that it leaves alone knows
\* the tabs: a record that it makes is remembered as younger than the scan.
LEMMA OthersStillKnow ==
  ASSUME TabInv, RememberBorn, NEW q \in TabRequests, tabReq'[q] = tabReq[q]
  PROVE  ListingKnows(q)'
<1>1. ListingKnows(q)
  BY DEF TabInv
<1>2. tabBorn[q] \subseteq tabBorn'[q]
  BY DEF RememberBorn, TabInv, TabTypeOK
<1>3. ASSUME tabReq[q].pc \in {"read", "set"}, NEW s \in TabSessions, tabHash[s] = {}, tabHash'[s] # {}
      PROVE  s \in tabBorn'[q]
  BY <1>3 DEF RememberBorn, TabInv, TabTypeOK
<1>4. tabReq[q].todo \subseteq TabSessions
  BY DEF TabInv, TabTypeOK, TabRecord
<1> QED
  BY <1>1, <1>2, <1>3, <1>4 DEF ListingKnows

\* Keys made by a step are sessions, so the remembered ones stay typed.
LEMMA BornType ==
  ASSUME TabTypeOK, RememberBorn PROVE tabBorn' \in [TabRequests -> SUBSET TabSessions]
BY DEF TabTypeOK, RememberBorn

\* A label that is set is the one read afterwards.
LEMMA LabelSet ==
  ASSUME NEW h, NEW r PROVE FieldOf(HSet(h, {<<"label", r>>}), "label", "") = r
<1> DEFINE after == HSet(h, {<<"label", r>>})
<1>1. \A f \in after : f[1] = "label" => f = <<"label", r>>
  BY DEF HSet
<1>2. <<"label", r>> \in after /\ <<"label", r>>[1] = "label"
  BY DEF HSet
<1>3. (CHOOSE f \in after : f[1] = "label") = <<"label", r>>
  <2> HIDE DEF after
  <2>1. PICK f : f = (CHOOSE x \in after : x[1] = "label")
    OBVIOUS
  <2>2. f \in after /\ f[1] = "label"
    BY <1>2, <2>1
  <2> QED
    BY <1>1, <2>1, <2>2
<1>4. FieldOf(after, "label", "") = (CHOOSE f \in after : f[1] = "label")[2]
  <2> HIDE DEF after
  <2> QED
    BY <1>2 DEF FieldOf
<1>5. <<"label", r>>[2] = r
  OBVIOUS
<1> QED
  BY <1>3, <1>4, <1>5

\* Failing commands stay within their bound.
LEMMA FaultsType ==
  ASSUME TabTypeOK, RedisFails \/ UNCHANGED tabFaults PROVE tabFaults' \in 0..MaxTabFaults
<1>1. tabFaults \in Nat /\ MaxTabFaults \in Nat /\ tabFaults <= MaxTabFaults
  BY TabConstants DEF TabTypeOK
<1>2. CASE RedisFails
  BY <1>1, <1>2 DEF RedisFails
<1>3. CASE UNCHANGED tabFaults
  BY <1>1, <1>3
<1> QED
  BY <1>2, <1>3

\* Defaults: the label they overwrite belongs to a tab that the listing did
\* not see.
LEMMA DefaultsStep ==
  ASSUME TabInv, RememberBorn, NEW r \in TabRequests, SetDefault(r)
  PROVE  TabInv' /\ \A s \in TabSessions : KeepsLabel(s)
<1> DEFINE fields == {<<"label", "default">>, <<"order", tabReq[r].order + 1>>, <<"created", TRUE>>}
<1>0. TabTypeOK /\ ListingKnows(r) /\ tabReq[r] \in TabRecord /\ tabReq[r].pc = "set"
  BY DEF TabInv, TabTypeOK, SetDefault
<1>1. PICK s \in tabReq[r].todo :
        /\ \/ tabHash' = [tabHash EXCEPT ![s] = HSet(@, fields)] /\ UNCHANGED tabFaults
           \/ RedisFails /\ UNCHANGED tabHash
        /\ TabStep(r, [tabReq[r] EXCEPT !.todo = @ \ {s}, !.order = @ + 1])
  BY DEF SetDefault
<1> DEFINE next == [tabReq[r] EXCEPT !.todo = @ \ {s}, !.order = @ + 1]
<1>2. /\ next \in TabRecord /\ next.pc = "set" /\ next.kind = "list"
      /\ next.todo = tabReq[r].todo \ {s} /\ next.missed = tabReq[r].missed
  <2>1. tabReq[r].kind = "list" /\ tabReq[r].pc = "set"
    BY <1>0 DEF ListingKnows
  <2>2. tabReq[r].order + 1 \in Nat /\ tabReq[r].todo \ {s} \in SUBSET TabSessions
    <3>1. tabReq[r].order \in Nat /\ tabReq[r].todo \in SUBSET TabSessions
      BY <1>0 DEF TabRecord
    <3> QED
      BY <3>1
  <2> QED
    BY <1>0, <2>1, <2>2 DEF TabRecord
<1>3. /\ s \in TabSessions /\ tabReq[r].kind = "list"
      /\ tabHash[s] # {} => s \in tabReq[r].missed \union tabBorn[r]
  BY <1>0, <1>1 DEF TabRecord, ListingKnows
<1>4. /\ tabReq' \in [TabRequests -> TabRecord] /\ tabReq'[r] = next
      /\ \A q \in TabRequests \ {r} : tabReq'[q] = tabReq[q]
  BY <1>0, <1>1, <1>2, TabStepResult
<1>5. tabReq'[r] # tabReq[r]
  BY <1>1, <1>2, <1>4
<1>6. fields \in SUBSET TabFields
  <2>1. tabReq[r].order + 1 \in Nat
    <3>1. tabReq[r].order \in Nat
      BY <1>0 DEF TabRecord
    <3> QED
      BY <3>1
  <2> QED
    BY <2>1, FieldsType
<1>7. tabHash' \in [TabSessions -> SUBSET TabFields] /\ \A x \in TabSessions \ {s} : tabHash'[x] = tabHash[x]
  <2>1. HSet(tabHash[s], fields) \in SUBSET TabFields
    BY <1>0, <1>3, <1>6, HSetType DEF TabTypeOK
  <2> HIDE DEF fields
  <2> QED
    BY <1>0, <1>1, <1>3, <2>1 DEF TabTypeOK
<1>8. TabTypeOK'
  BY <1>0, <1>1, <1>4, <1>7, BornType, FaultsType DEF TabTypeOK, SetDefault
<1>9. ListingKnows(r)'
  <2>1. tabBorn[r] \subseteq tabBorn'[r]
    BY <1>0 DEF RememberBorn, TabTypeOK
  <2> QED
    BY <1>0, <1>2, <1>4, <1>7, <2>1 DEF ListingKnows, TabRecord
<1>10. \A x \in TabSessions : KeepsLabel(x)
  <2> SUFFICES ASSUME NEW x \in TabSessions, TabLabel(x) \in TabRequests, TabLabel(x)' # TabLabel(x)
               PROVE  \E q \in TabRequests : tabReq'[q] # tabReq[q] /\ tabReq[q].kind = "list"
                                             /\ x \in tabBorn[q] \union tabReq[q].missed
    BY DEF KeepsLabel
  <2>1. x = s
    BY <1>7 DEF TabLabel
  <2>2. tabHash[s] # {}
    <3>1. CASE tabHash[s] = {}
      <4>1. TabLabel(s) = ""
        BY <3>1 DEF TabLabel, FieldOf
      <4> QED
        BY <2>1, <3>1, <4>1, RequestIsALabel
    <3> QED
      BY <3>1
  <2> QED
    BY <1>3, <1>5, <2>1, <2>2
<1> QED
  BY <1>4, <1>8, <1>9, <1>10, OthersStillKnow DEF TabInv
\* PATCH writes a user's label.
LEMMA PatchStep ==
  ASSUME TabInv, RememberBorn, NEW r \in TabRequests, PatchHSet(r)
  PROVE  TabInv' /\ \A s \in TabSessions : KeepsLabel(s)
<1>0. TabTypeOK /\ ListingKnows(r) /\ tabReq[r] \in TabRecord /\ tabReq[r].pc = "hset"
  BY DEF TabInv, TabTypeOK, PatchHSet
<1>1. CASE /\ tabHash' = [tabHash EXCEPT ![tabReq[r].session] = HSet(@, {<<"label", r>>})]
           /\ TabStep(r, [tabReq[r] EXCEPT !.pc = "get"]) /\ UNCHANGED tabFaults
  <2> DEFINE next == [tabReq[r] EXCEPT !.pc = "get"]
  <2>1. PICK s \in TabSessions : s = tabReq[r].session
    BY <1>0 DEF ListingKnows
  <2>2. next \in TabRecord /\ next.pc = "get"
    BY <1>0 DEF TabRecord
  <2>3. /\ tabReq' \in [TabRequests -> TabRecord] /\ tabReq'[r] = next
        /\ \A q \in TabRequests \ {r} : tabReq'[q] = tabReq[q]
    BY <1>0, <1>1, <2>2, TabStepResult
  <2>4. HSet(tabHash[s], {<<"label", r>>}) \in SUBSET TabFields
    <3>1. {<<"label", r>>} \in SUBSET TabFields
      BY FieldsType
    <3> QED
      BY <1>0, <2>1, <3>1, HSetType DEF TabTypeOK
  <2>5. /\ tabHash' \in [TabSessions -> SUBSET TabFields]
        /\ tabHash'[s] = HSet(tabHash[s], {<<"label", r>>})
        /\ \A x \in TabSessions \ {s} : tabHash'[x] = tabHash[x]
    <3>1. tabHash' = [tabHash EXCEPT ![s] = HSet(tabHash[s], {<<"label", r>>})]
      BY <1>1, <2>1
    <3> QED
      BY <1>0, <2>1, <2>4, <3>1 DEF TabTypeOK
  <2>6. TabTypeOK'
    BY <1>0, <1>1, <2>3, <2>5, BornType DEF TabTypeOK, PatchHSet
  <2>7. ListingKnows(r)'
    BY <2>2, <2>3 DEF ListingKnows
  <2>8. TabLabel(s)' = r
    <3>1. FieldOf(HSet(tabHash[s], {<<"label", r>>}), "label", "") = r
      BY LabelSet
    <3> QED
      BY <2>5, <3>1 DEF TabLabel
  <2>9. \A x \in TabSessions : KeepsLabel(x)
    BY <2>5, <2>8 DEF KeepsLabel, TabLabel
  <2> QED
    BY <2>3, <2>6, <2>7, <2>9, OthersStillKnow DEF TabInv
<1>2. CASE RedisFails /\ Answers(r, "failed") /\ UNCHANGED tabHash
  <2> DEFINE next == [tabReq[r] EXCEPT !.pc = "done", !.answer = "failed"]
  <2>1. next \in TabRecord /\ next.pc = "done" /\ TabStep(r, next)
    BY <1>0, <1>2 DEF TabRecord, Answers
  <2>2. tabActive' \subseteq TabSessions /\ tabFaults' \in 0..MaxTabFaults
    BY <1>0, <1>2, FaultsType DEF TabTypeOK, PatchHSet
  <2> HIDE DEF next
  <2> QED
    BY <1>2, <2>1, <2>2, QuietTabStep
<1> QED
  BY <1>1, <1>2 DEF PatchHSet

\* DELETE takes the tab's own label.
LEMMA DeleteStep ==
  ASSUME TabInv, RememberBorn, NEW r \in TabRequests, DeleteTab(r)
  PROVE  TabInv' /\ \A s \in TabSessions : KeepsLabel(s)
<1>0. TabTypeOK /\ tabReq[r] \in TabRecord /\ tabReq[r].pc = "new"
  BY DEF TabInv, TabTypeOK, DeleteTab
<1> DEFINE next(s, a) == [TabIdle EXCEPT !.kind = "delete", !.pc = "done", !.session = s, !.answer = a]
<1>1. ASSUME NEW s \in TabSessions, NEW a \in {"ok", "failed"}
      PROVE  /\ next(s, a) \in TabRecord /\ next(s, a).pc = "done"
             /\ next(s, a).kind = "delete" /\ next(s, a).session = s
  BY DEF TabRecord, TabIdle
<1>2. PICK s \in TabSessions :
        \/ /\ tabHash' = [tabHash EXCEPT ![s] = {}]
           /\ TabStep(r, next(s, "ok")) /\ UNCHANGED tabFaults
        \/ RedisFails /\ TabStep(r, next(s, "failed")) /\ UNCHANGED tabHash
  BY DEF DeleteTab, TabIdle
<1> HIDE DEF next
<1>3. CASE /\ tabHash' = [tabHash EXCEPT ![s] = {}]
           /\ TabStep(r, next(s, "ok")) /\ UNCHANGED tabFaults
  <2>1. /\ tabReq' \in [TabRequests -> TabRecord] /\ tabReq'[r] = next(s, "ok")
        /\ \A q \in TabRequests \ {r} : tabReq'[q] = tabReq[q]
    BY <1>0, <1>1, <1>3, TabStepResult
  <2>2. /\ tabHash' \in [TabSessions -> SUBSET TabFields]
        /\ \A x \in TabSessions \ {s} : tabHash'[x] = tabHash[x]
    BY <1>0, <1>3 DEF TabTypeOK
  <2>3. TabTypeOK'
    BY <1>0, <1>3, <2>1, <2>2, BornType DEF TabTypeOK, DeleteTab
  <2>4. ListingKnows(r)'
    BY <1>1, <2>1 DEF ListingKnows
  <2>5. tabReq'[r] # tabReq[r] /\ tabReq'[r].kind = "delete" /\ tabReq'[r].session = s
    BY <1>0, <1>1, <2>1
  <2>6. \A x \in TabSessions : KeepsLabel(x)
    BY <2>2, <2>5 DEF KeepsLabel, TabLabel
  <2> QED
    BY <2>1, <2>3, <2>4, <2>6, OthersStillKnow DEF TabInv
<1>4. CASE RedisFails /\ TabStep(r, next(s, "failed")) /\ UNCHANGED tabHash
  <2>1. tabActive' \subseteq TabSessions /\ tabFaults' \in 0..MaxTabFaults
    BY <1>0, <1>4, FaultsType DEF TabTypeOK, DeleteTab
  <2> QED
    BY <1>1, <1>4, <2>1, QuietTabStep
<1> QED
  BY <1>2, <1>3, <1>4
\* The other steps of a request change no hash.
LEMMA ReadingStep ==
  ASSUME TabInv, RememberBorn, NEW r \in TabRequests,
         \/ ListActive(r) \/ ScanKeys(r) \/ ReadTab(r) \/ BeginDefaults(r)
         \/ ListDone(r) \/ GetTab(r) \/ PatchExists(r) \/ PatchGet(r)
  PROVE  TabInv' /\ \A s \in TabSessions : KeepsLabel(s)
<1>0. TabTypeOK /\ ListingKnows(r) /\ tabReq[r] \in TabRecord
  BY DEF TabInv, TabTypeOK
<1>1. TabIdle \in TabRecord
  BY DEF TabIdle, TabRecord
<1>2. UNCHANGED <<tabActive, tabHash>> /\ (RedisFails \/ UNCHANGED tabFaults)
  BY DEF ListActive, ScanKeys, ReadTab, BeginDefaults, ListDone, GetTab, PatchExists, PatchGet
<1>3. tabActive' \subseteq TabSessions /\ tabFaults' \in 0..MaxTabFaults
  BY <1>0, <1>2, FaultsType DEF TabTypeOK
<1>4. ASSUME NEW next \in TabRecord, TabStep(r, next), next.pc \in {"done", "get"}
      PROVE  TabInv' /\ \A s \in TabSessions : KeepsLabel(s)
  BY <1>2, <1>3, <1>4, QuietTabStep
<1>5. ASSUME NEW a \in {"ok", "failed"}, Answers(r, a)
      PROVE  TabInv' /\ \A s \in TabSessions : KeepsLabel(s)
  <2> DEFINE next == [tabReq[r] EXCEPT !.pc = "done", !.answer = a]
  <2>1. next \in TabRecord /\ next.pc = "done" /\ TabStep(r, next)
    BY <1>0, <1>5 DEF TabRecord, Answers
  <2> HIDE DEF next
  <2> QED
    BY <1>4, <2>1
<1>6. CASE ListActive(r)
  <2>1. PICK names \in {tabActive, {}} :
          TabStep(r, [TabIdle EXCEPT !.kind = "list", !.pc = "scan", !.names = names])
    BY <1>6 DEF ListActive
  <2> DEFINE next == [TabIdle EXCEPT !.kind = "list", !.pc = "scan", !.names = names]
  <2>2. names \in SUBSET TabSessions
    BY <1>0 DEF TabTypeOK
  <2>3. next \in TabRecord /\ next.pc = "scan" /\ next.kind = "list"
    BY <2>2 DEF TabIdle, TabRecord
  <2> HIDE DEF next
  <2> QED
    BY <1>2, <1>3, <2>1, <2>3, QuietTabStep DEF next
<1>7. CASE ScanKeys(r)
  <2>1. CASE TabStep(r, [tabReq[r] EXCEPT !.pc = "read", !.todo = {s \in TabSessions : tabHash[s] # {}}])
    <3> DEFINE next == [tabReq[r] EXCEPT !.pc = "read", !.todo = {s \in TabSessions : tabHash[s] # {}}]
    <3>1. tabReq[r].kind = "list"
      BY <1>0, <1>7 DEF ScanKeys, ListingKnows
    <3>2. /\ next \in TabRecord /\ next.pc = "read" /\ next.kind = "list"
          /\ next.todo = {s \in TabSessions : tabHash[s] # {}}
      BY <1>0, <3>1 DEF TabRecord
    <3>3. TabStep(r, next)
      BY <2>1
    <3> HIDE DEF next
    <3> QED
      BY <1>2, <1>3, <3>2, <3>3, QuietTabStep
  <2> QED
    BY <1>5, <1>7, <2>1 DEF ScanKeys
<1>8. CASE ReadTab(r)
  <2>1. tabReq[r].kind = "list" /\ tabReq[r].pc = "read"
    BY <1>0, <1>8 DEF ReadTab, ListingKnows
  <2>2. \A x \in TabSessions : tabHash[x] # {} =>
          x \in tabReq[r].todo \union tabReq[r].found \union tabReq[r].missed \union tabBorn[r]
    BY <1>0, <2>1 DEF ListingKnows
  <2>3. ASSUME NEW s \in tabReq[r].todo, NEW next \in TabRecord, TabStep(r, next),
               next.pc = "read", next.kind = "list", next.todo = tabReq[r].todo \ {s},
               tabReq[r].found \subseteq next.found, tabReq[r].missed \subseteq next.missed,
               s \in next.found \union next.missed \/ tabHash[s] = {}
        PROVE  TabInv' /\ \A x \in TabSessions : KeepsLabel(x)
    <3>1. \A x \in TabSessions : tabHash[x] # {} =>
            x \in next.todo \union next.found \union next.missed \union tabBorn[r]
      BY <2>2, <2>3
    <3> QED
      BY <1>2, <1>3, <2>3, <3>1, QuietTabStep
  <2>4. PICK s \in tabReq[r].todo :
          \/ TabStep(r, [tabReq[r] EXCEPT !.todo = @ \ {s},
                        !.found = IF tabHash[s] = {} THEN @ ELSE @ \union {s},
                        !.order = Max({@, FieldOf(tabHash[s], "order", 0)})])
          \/ TabStep(r, [tabReq[r] EXCEPT !.todo = @ \ {s}, !.missed = @ \union {s}])
    BY <1>8 DEF ReadTab
  <2>5. /\ tabReq[r].todo \in SUBSET TabSessions /\ tabReq[r].found \in SUBSET TabSessions
        /\ tabReq[r].missed \in SUBSET TabSessions /\ tabReq[r].order \in Nat /\ s \in TabSessions
    BY <1>0 DEF TabRecord
  <2>6. CASE TabStep(r, [tabReq[r] EXCEPT !.todo = @ \ {s},
                        !.found = IF tabHash[s] = {} THEN @ ELSE @ \union {s},
                        !.order = Max({@, FieldOf(tabHash[s], "order", 0)})])
    <3> DEFINE f == IF tabHash[s] = {} THEN tabReq[r].found ELSE tabReq[r].found \union {s}
               o == Max({tabReq[r].order, FieldOf(tabHash[s], "order", 0)})
               next == [tabReq[r] EXCEPT !.todo = @ \ {s}, !.found = f, !.order = o]
    <3>1. o \in Nat
      <4>1. FieldOf(tabHash[s], "order", 0) \in Nat
        BY <1>0, <2>5, OrderType DEF TabTypeOK
      <4> QED
        BY <2>5, <4>1, MaxType
    <3>2. f \in SUBSET TabSessions /\ tabReq[r].found \subseteq f /\ (s \in f \/ tabHash[s] = {})
      BY <2>5
    <3>3. TabStep(r, next)
      BY <2>6
    <3> HIDE DEF o, f
    <3>4. /\ next \in TabRecord /\ next.pc = "read" /\ next.kind = "list"
          /\ next.todo = tabReq[r].todo \ {s} /\ next.found = f /\ next.missed = tabReq[r].missed
      BY <1>0, <2>1, <2>5, <3>1, <3>2 DEF TabRecord
    <3> HIDE DEF next
    <3> QED
      BY <2>3, <3>2, <3>3, <3>4
  <2>7. CASE TabStep(r, [tabReq[r] EXCEPT !.todo = @ \ {s}, !.missed = @ \union {s}])
    <3> DEFINE next == [tabReq[r] EXCEPT !.todo = @ \ {s}, !.missed = @ \union {s}]
    <3>1. /\ next \in TabRecord /\ next.pc = "read" /\ next.kind = "list"
          /\ next.todo = tabReq[r].todo \ {s} /\ next.found = tabReq[r].found
          /\ next.missed = tabReq[r].missed \union {s}
      BY <1>0, <2>1, <2>5 DEF TabRecord
    <3>2. TabStep(r, next)
      BY <2>7
    <3> HIDE DEF next
    <3> QED
      BY <2>3, <3>1, <3>2
  <2> QED
    BY <2>4, <2>6, <2>7
<1>9. CASE BeginDefaults(r)
  <2> DEFINE next == [tabReq[r] EXCEPT !.pc = "set", !.todo = MissingTabs(r)]
  <2>1. tabReq[r].kind = "list" /\ tabReq[r].pc = "read" /\ tabReq[r].todo = {}
    BY <1>0, <1>9 DEF BeginDefaults, ListingKnows
  <2>2. /\ next \in TabRecord /\ next.pc = "set" /\ next.kind = "list"
        /\ next.todo = MissingTabs(r) /\ next.missed = tabReq[r].missed
        /\ MissingTabs(r) \subseteq TabSessions
    BY <1>0, <2>1 DEF TabRecord, MissingTabs
  <2>3. \A s \in MissingTabs(r) : tabHash[s] # {} => s \in tabReq[r].missed \union tabBorn[r]
    BY <1>0, <2>1, <2>2 DEF ListingKnows, MissingTabs
  <2>4. TabStep(r, next)
    BY <1>9 DEF BeginDefaults
  <2> HIDE DEF next
  <2> QED
    BY <1>2, <1>3, <2>2, <2>3, <2>4, QuietTabStep
<1>10. CASE ListDone(r)
  BY <1>5, <1>10 DEF ListDone
<1>11. CASE GetTab(r)
  <2>1. PICK s \in TabSessions, a \in {"ok", "not found", "failed"} :
          TabStep(r, [TabIdle EXCEPT !.kind = "get", !.pc = "done", !.session = s, !.answer = a])
    BY <1>11 DEF GetTab
  <2> DEFINE next == [TabIdle EXCEPT !.kind = "get", !.pc = "done", !.session = s, !.answer = a]
  <2>2. next \in TabRecord /\ next.pc = "done"
    BY DEF TabIdle, TabRecord
  <2> HIDE DEF next
  <2> QED
    BY <1>4, <2>1, <2>2 DEF next
<1>12. CASE PatchExists(r)
  <2>1. PICK s \in TabSessions :
          \/ \E a \in {"not found", "failed"} :
               TabStep(r, [TabIdle EXCEPT !.kind = "patch", !.session = s, !.pc = "done", !.answer = a])
          \/ TabStep(r, [TabIdle EXCEPT !.kind = "patch", !.session = s, !.pc = "hset"])
    BY <1>12 DEF PatchExists, TabIdle
  <2>2. CASE TabStep(r, [TabIdle EXCEPT !.kind = "patch", !.session = s, !.pc = "hset"])
    <3> DEFINE next == [TabIdle EXCEPT !.kind = "patch", !.session = s, !.pc = "hset"]
    <3>1. next \in TabRecord /\ next.pc = "hset" /\ next.session = s
      BY DEF TabIdle, TabRecord
    <3>2. TabStep(r, next)
      BY <2>2
    <3> HIDE DEF next
    <3> QED
      BY <1>2, <1>3, <3>1, <3>2, QuietTabStep
  <2>3. ASSUME NEW a \in {"not found", "failed"},
               TabStep(r, [TabIdle EXCEPT !.kind = "patch", !.session = s, !.pc = "done", !.answer = a])
        PROVE  TabInv' /\ \A x \in TabSessions : KeepsLabel(x)
    <3> DEFINE next == [TabIdle EXCEPT !.kind = "patch", !.session = s, !.pc = "done", !.answer = a]
    <3>1. next \in TabRecord /\ next.pc = "done"
      BY DEF TabIdle, TabRecord
    <3>2. TabStep(r, next)
      BY <2>3
    <3> HIDE DEF next
    <3> QED
      BY <1>4, <3>1, <3>2
  <2> QED
    BY <2>1, <2>2, <2>3
<1>13. CASE PatchGet(r)
  BY <1>5, <1>13 DEF PatchGet
<1> QED
  BY <1>6, <1>7, <1>8, <1>9, <1>10, <1>11, <1>12, <1>13

\* Every step keeps the tabs' invariant and the labels.
LEMMA TabsStep ==
  TabInv /\ [TabNext]_tabVars => TabInv' /\ [\A s \in TabSessions : KeepsLabel(s)]_tabVars
<1> SUFFICES ASSUME TabInv, [TabNext]_tabVars
             PROVE  TabInv' /\ [\A s \in TabSessions : KeepsLabel(s)]_tabVars
  OBVIOUS
<1>1. CASE TabNext /\ SessionsChange
  <2>1. UNCHANGED <<tabHash, tabReq, tabFaults>> /\ RememberBorn
    BY <1>1 DEF TabNext, SessionsChange
  <2>2. tabActive' \subseteq TabSessions
    BY <1>1 DEF SessionsChange, TabInv, TabTypeOK
  <2>3. TabTypeOK'
    BY <2>1, <2>2, BornType DEF TabInv, TabTypeOK
  <2>4. \A s \in TabSessions : KeepsLabel(s)
    BY <2>1 DEF KeepsLabel, TabLabel
  <2> QED
    BY <2>1, <2>3, <2>4, OthersStillKnow DEF TabInv
<1>2. ASSUME TabNext, ~SessionsChange PROVE TabInv' /\ \A s \in TabSessions : KeepsLabel(s)
  <2>1. PICK r \in TabRequests :
          \/ ListActive(r) \/ ScanKeys(r) \/ ReadTab(r) \/ BeginDefaults(r) \/ SetDefault(r)
          \/ ListDone(r) \/ GetTab(r) \/ PatchExists(r) \/ PatchHSet(r) \/ PatchGet(r) \/ DeleteTab(r)
    BY <1>2 DEF TabNext
  <2>2. RememberBorn
    BY <1>2 DEF TabNext
  <2> QED
    BY <2>1, <2>2, ReadingStep, DefaultsStep, PatchStep, DeleteStep
<1>3. CASE UNCHANGED tabVars
  BY <1>3 DEF tabVars, TabInv, TabTypeOK, ListingKnows
<1> QED
  BY <1>1, <1>2, <1>3

\* A label that a user gave a tab (tabmeta/store.go) goes only with a later
\* PATCH or DELETE, or with a listing that scanned before the tab's record
\* was made or failed to read it, for any sessions and any number of requests
\* whose Redis commands interleave.
THEOREM LabelsSurvive == TabSpec => LabelsAreKept
<1>1. TabInit => TabInv
  <2> SUFFICES ASSUME TabInit PROVE TabInv
    OBVIOUS
  <2>1. TabIdle \in TabRecord /\ TabIdle.pc = "new"
    BY DEF TabIdle, TabRecord
  <2>2. TabTypeOK
    BY <2>1, TabConstants DEF TabInit, TabTypeOK
  <2> QED
    BY <2>1, <2>2 DEF TabInit, TabInv, ListingKnows
<1> QED
  BY <1>1, TabsStep, PTL DEF TabSpec, LabelsAreKept

-----------------------------------------------------------------------------
(* Terminal sessions.                                                      *)

\* Who is answerable for the connection of v: the map while it is registered,
\* and otherwise the one who took it out, the handler itself (at "close"), a
\* restart or the shutdown, until it closes the PTY.
Account(v) ==
  /\ (viewer[v].at = "attach") <=> (termMu = v)
  /\ viewer[v].at = "attach" => Cardinality(termConns) < MaxSessions
  /\ v \in termConns => /\ viewer[v].pty = "open" /\ viewer[v].at \in {"relay", "detach"}
                        /\ v \notin restart.closing /\ v \notin termStop.closing
  /\ v \in restart.closing => /\ viewer[v].pty = "open" /\ v \notin termStop.closing
                              /\ viewer[v].at \in {"relay", "detach", "wait", "idle"}
  /\ v \in termStop.closing => /\ viewer[v].pty = "open"
                               /\ viewer[v].at \in {"relay", "detach", "wait", "idle"}
  /\ viewer[v].at = "close" => viewer[v].pty = "open"
  /\ viewer[v].pty = "open" => \/ v \in termConns \/ viewer[v].at = "close"
                               \/ v \in restart.closing \/ v \in termStop.closing
  /\ viewer[v].at \in {"lock", "lockRaw", "attach"} => viewer[v].pty = "none"

TermInv ==
  /\ TypeOfTerminals
  /\ IsFiniteSet(termConns) /\ Cardinality(termConns) <= MaxSessions
  /\ restart.at # "close" => restart.closing = {}
  /\ restart.at # "idle" => restart.backend \in Commands
  /\ termStop.at # "close" => termStop.closing = {}
  /\ \A v \in Viewers : Account(v)
\* What nobody touched is still accounted for.
LEMMA AccountKept ==
  ASSUME NEW w \in Viewers, Account(w),
         viewer'[w].at = viewer[w].at, viewer'[w].pty = viewer[w].pty,
         (termMu' = w) <=> (termMu = w),
         viewer[w].at = "attach" => Cardinality(termConns') <= Cardinality(termConns),
         Cardinality(termConns) \in Nat, Cardinality(termConns') \in Nat,
         (w \in termConns') <=> (w \in termConns),
         (w \in restart'.closing) <=> (w \in restart.closing),
         (w \in termStop'.closing) <=> (w \in termStop.closing)
  PROVE  Account(w)'
BY TerminalConstants DEF Account

\* The invariant's parts that count.
LEMMA TermCounts ==
  ASSUME TermInv
  PROVE  Cardinality(termConns) \in Nat /\ MaxSessions \in Nat /\ IsFiniteSet(termConns)
BY FS_CardinalityType, TerminalConstants DEF TermInv

\* A step of handler v that changes only where it is and what it has.
LEMMA HandlerStep ==
  ASSUME TermInv, NEW v \in Viewers, NEW r \in ViewerRecord,
         viewer' = [viewer EXCEPT ![v] = r],
         UNCHANGED <<termConns, defaultCmd, restart, termStop>>,
         tmux' \in [TermSessions -> Commands \cup {NoSession, AutoCmd}],
         \/ viewer[v].at # "attach" /\ r.at # "attach" /\ UNCHANGED termMu
         \/ viewer[v].at # "attach" /\ r.at = "attach" /\ termMu = Nobody /\ termMu' = v /\ BelowLimit
         \/ viewer[v].at = "attach" /\ r.at # "attach" /\ termMu' = Nobody,
         v \in termConns \/ v \in restart.closing \/ v \in termStop.closing => r.pty = "open",
         v \in termConns => r.at \in {"relay", "detach"},
         v \in restart.closing \/ v \in termStop.closing => r.at \in {"relay", "detach", "wait", "idle"},
         r.at = "close" => r.pty = "open",
         r.pty = "open" => v \in termConns \/ r.at = "close" \/ v \in restart.closing
                           \/ v \in termStop.closing,
         r.at \in {"lock", "lockRaw", "attach"} => r.pty = "none"
  PROVE  TermInv'
<1>1. /\ viewer' \in [Viewers -> ViewerRecord] /\ viewer'[v] = r
      /\ \A w \in Viewers \ {v} : viewer'[w] = viewer[w]
  BY DEF TermInv, TypeOfTerminals
<1>2. Nobody # v /\ (termMu = v <=> viewer[v].at = "attach")
  BY NobodyIsNoViewer DEF TermInv, Account
<1>3. termMu' \in Viewers \cup {Nobody}
  BY DEF TermInv, TypeOfTerminals
<1>4. TypeOfTerminals'
  BY <1>1, <1>3 DEF TermInv, TypeOfTerminals
<1>5. Account(v)'
  <2>1. Account(v)
    BY DEF TermInv
  <2> QED
    BY <1>1, <1>2, <2>1, TermCounts DEF Account, BelowLimit
<1>6. ASSUME NEW w \in Viewers \ {v} PROVE Account(w)'
  <2>1. Account(w) /\ viewer'[w] = viewer[w]
    BY <1>1 DEF TermInv
  <2>2. (termMu' = w) <=> (termMu = w)
    BY <1>2, <2>1, NobodyIsNoViewer DEF Account
  <2> QED
    BY <2>1, <2>2, AccountKept, TermCounts
<1>7. \A w \in Viewers : Account(w)'
  BY <1>5, <1>6
<1>8. IsFiniteSet(termConns') /\ Cardinality(termConns') <= MaxSessions
  BY DEF TermInv
<1>9. /\ restart'.at # "close" => restart'.closing = {}
      /\ restart'.at # "idle" => restart'.backend \in Commands
      /\ termStop'.at # "close" => termStop'.closing = {}
  BY DEF TermInv
<1> QED
  BY <1>4, <1>7, <1>8, <1>9 DEF TermInv
\* Every step of a handler but Detach's and the registration of its PTY.
LEMMA ViewersStep ==
  ASSUME TermInv, NEW v \in Viewers,
         \/ EnsureSession(v) \/ RequireSession(v) \/ ReaderEnds(v) \/ WsToPTYEnds(v)
         \/ DetachCloses(v) \/ HandlerReturns(v) \/ UpgradeAgent(v)
         \/ \E n \in WebSessions : Upgrade(v, n)
  PROVE  TermInv'
<1>0. /\ viewer \in [Viewers -> ViewerRecord] /\ viewer[v] \in ViewerRecord /\ Account(v)
      /\ tmux \in [TermSessions -> Commands \cup {NoSession, AutoCmd}] /\ defaultCmd \in Commands
  BY DEF TermInv, TypeOfTerminals
<1>1. /\ NoViewer \in ViewerRecord /\ NoViewer.at = "idle" /\ NoViewer.pty = "none"
  BY DEF NoViewer, ViewerRecord, ViewerPlaces, TermSessions
<1>2. ASSUME viewer[v].at \in {"lock", "lockRaw"}, MutexFree, Attaching(v), BelowLimit,
             UNCHANGED <<termConns, defaultCmd, restart, termStop>>,
             tmux' \in [TermSessions -> Commands \cup {NoSession, AutoCmd}]
      PROVE  TermInv'
  <2> DEFINE r == [viewer[v] EXCEPT !.at = "attach", !.cmd = NoSession]
  <2>1. r \in ViewerRecord /\ r.at = "attach" /\ r.pty = viewer[v].pty
    BY <1>0 DEF ViewerRecord, ViewerPlaces
  <2>2. viewer' = [viewer EXCEPT ![v] = r] /\ termMu' = v /\ termMu = Nobody
    BY <1>2 DEF Attaching, MutexFree
  <2> HIDE DEF r
  <2> QED
    BY <1>0, <1>2, <2>1, <2>2, HandlerStep DEF Account
<1>3. ASSUME viewer[v].at \in {"lock", "lockRaw"}, Refuse(v),
             UNCHANGED <<termConns, termMu, tmux, defaultCmd, restart, termStop>>,
             v \notin restart.closing, v \notin termStop.closing, v \notin termConns
      PROVE  TermInv'
  <2> HIDE DEF NoViewer
  <2> QED
    BY <1>0, <1>1, <1>3, HandlerStep DEF Account, Refuse
<1>4. ASSUME viewer[v].at \in {"lock", "lockRaw"}
      PROVE  v \notin termConns /\ v \notin restart.closing /\ v \notin termStop.closing
  BY <1>0, <1>4 DEF Account
<1>5. CASE EnsureSession(v)
  <2>1. viewer[v].at = "lock" /\ MutexFree /\ UNCHANGED <<termConns, defaultCmd, restart, termStop>>
    BY <1>5 DEF EnsureSession
  <2>2. tmux' \in [TermSessions -> Commands \cup {NoSession, AutoCmd}]
    <3>1. viewer[v].cmd \in Commands \cup {NoSession}
      BY <1>0 DEF ViewerRecord
    <3> QED
      BY <1>0, <1>5, <3>1 DEF EnsureSession
  <2>3. CASE Attaching(v) /\ BelowLimit
    BY <1>2, <2>1, <2>2, <2>3
  <2>4. CASE Refuse(v) /\ UNCHANGED <<termMu, tmux>>
    BY <1>3, <1>4, <2>1, <2>4
  <2> QED
    BY <1>5, <2>3, <2>4 DEF EnsureSession
<1>6. CASE RequireSession(v)
  <2>1. /\ viewer[v].at = "lockRaw" /\ MutexFree
        /\ UNCHANGED <<termConns, tmux, defaultCmd, restart, termStop>>
    BY <1>6 DEF RequireSession
  <2>2. CASE Attaching(v) /\ BelowLimit
    BY <1>0, <1>2, <2>1, <2>2
  <2>3. CASE Refuse(v) /\ UNCHANGED termMu
    BY <1>3, <1>4, <2>1, <2>3
  <2> QED
    BY <1>6, <2>2, <2>3 DEF RequireSession
<1>7. CASE HandlerReturns(v)
  <2> DEFINE r == [viewer[v] EXCEPT !.at = "idle"]
  <2>1. r \in ViewerRecord /\ r.at = "idle" /\ r.pty = viewer[v].pty /\ viewer[v].at = "wait"
    BY <1>0, <1>7 DEF ViewerRecord, ViewerPlaces, HandlerReturns
  <2>2. /\ viewer' = [viewer EXCEPT ![v] = r]
        /\ UNCHANGED <<termConns, termMu, tmux, defaultCmd, restart, termStop>>
    BY <1>7 DEF HandlerReturns
  <2> HIDE DEF r
  <2> QED
    BY <1>0, <2>1, <2>2, HandlerStep DEF Account
<1>8. CASE ReaderEnds(v)
  <2> DEFINE r == [viewer[v] EXCEPT !.reader = "done"]
  <2>1. r \in ViewerRecord /\ r.at = viewer[v].at /\ r.pty = viewer[v].pty
    BY <1>0 DEF ViewerRecord
  <2>2. /\ viewer' = [viewer EXCEPT ![v] = r]
        /\ UNCHANGED <<termConns, termMu, tmux, defaultCmd, restart, termStop>>
    BY <1>8 DEF ReaderEnds
  <2>3. CASE viewer[v].at # "attach"
    <3> HIDE DEF r
    <3> QED
      BY <1>0, <2>1, <2>2, <2>3, HandlerStep DEF Account
  <2>4. CASE viewer[v].at = "attach"
    <3>1. /\ viewer' \in [Viewers -> ViewerRecord]
          /\ \A w \in Viewers : viewer'[w].at = viewer[w].at /\ viewer'[w].pty = viewer[w].pty
      <4> HIDE DEF r
      <4> QED
        BY <1>0, <2>1, <2>2
    <3>2. \A w \in Viewers : Account(w)'
      BY <2>2, <3>1 DEF Account, TermInv
    <3> QED
      BY <2>2, <3>1, <3>2 DEF TermInv, TypeOfTerminals
  <2> QED
    BY <2>3, <2>4
<1>9. CASE WsToPTYEnds(v)
  <2> DEFINE r == [viewer[v] EXCEPT !.at = "detach"]
  <2>1. r \in ViewerRecord /\ r.at = "detach" /\ r.pty = viewer[v].pty /\ viewer[v].at = "relay"
    BY <1>0, <1>9 DEF ViewerRecord, ViewerPlaces, WsToPTYEnds
  <2>2. /\ viewer' = [viewer EXCEPT ![v] = r]
        /\ UNCHANGED <<termConns, termMu, tmux, defaultCmd, restart, termStop>>
    BY <1>9 DEF WsToPTYEnds
  <2> HIDE DEF r
  <2> QED
    BY <1>0, <2>1, <2>2, HandlerStep DEF Account
<1>10. CASE DetachCloses(v)
  <2> DEFINE r == [[viewer[v] EXCEPT !.pty = "closed"] EXCEPT !.at = "wait"]
  <2>1. r \in ViewerRecord /\ r.at = "wait" /\ r.pty = "closed" /\ viewer[v].at = "close"
    BY <1>0, <1>10 DEF ViewerRecord, ViewerPlaces, DetachCloses
  <2>2. UNCHANGED <<termConns, termMu, tmux, defaultCmd, restart, termStop>>
    BY <1>10 DEF DetachCloses
  <2>3. viewer' = [viewer EXCEPT ![v] = r]
    BY <1>0, <1>10 DEF DetachCloses, ClosePTYs
  <2> HIDE DEF r
  <2> QED
    BY <1>0, <2>1, <2>2, <2>3, HandlerStep DEF Account
<1>11. CASE UpgradeAgent(v)
  <2> DEFINE r == [NoViewer EXCEPT !.at = "lockRaw"]
  <2>1. r \in ViewerRecord /\ r.at = "lockRaw" /\ r.pty = "none" /\ Unused(v)
    BY <1>0, <1>1, <1>11 DEF ViewerRecord, ViewerPlaces, UpgradeAgent
  <2>2. /\ viewer' = [viewer EXCEPT ![v] = r]
        /\ UNCHANGED <<termConns, termMu, tmux, defaultCmd, restart, termStop>>
    BY <1>11 DEF UpgradeAgent
  <2> HIDE DEF r
  <2> QED
    BY <1>0, <2>1, <2>2, HandlerStep DEF Account, Unused
<1>12. ASSUME NEW n \in WebSessions, Upgrade(v, n) PROVE TermInv'
  <2> DEFINE r == [NoViewer EXCEPT !.at = "lock", !.name = n, !.cmd = defaultCmd]
  <2>1. r \in ViewerRecord /\ r.at = "lock" /\ r.pty = "none"
    BY <1>0, <1>1 DEF ViewerRecord, ViewerPlaces, TermSessions
  <2>3. Unused(v)
    BY <1>12, Zenon DEF Upgrade
  <2>2. /\ viewer' = [viewer EXCEPT ![v] = r]
        /\ UNCHANGED <<termConns, termMu, tmux, defaultCmd, restart, termStop>>
    BY <1>12, Zenon DEF Upgrade
  <2> HIDE DEF r
  <2> QED
    BY <1>0, <2>1, <2>2, <2>3, HandlerStep DEF Account, Unused
<1> QED
  BY <1>5, <1>6, <1>7, <1>8, <1>9, <1>10, <1>11, <1>12
\* The registration of a PTY.
LEMMA AttachStep == ASSUME TermInv, NEW v \in Viewers, AttachPTY(v) PROVE TermInv'
<1>0. /\ viewer \in [Viewers -> ViewerRecord] /\ viewer[v] \in ViewerRecord /\ Account(v)
      /\ viewer[v].at = "attach" /\ UNCHANGED <<tmux, defaultCmd, restart, termStop>>
      /\ termMu' = Nobody
  BY DEF TermInv, TypeOfTerminals, AttachPTY
<1>1. CASE Refuse(v) /\ UNCHANGED termConns
  <2>1. NoViewer \in ViewerRecord /\ NoViewer.at = "idle" /\ NoViewer.pty = "none"
    BY DEF NoViewer, ViewerRecord, ViewerPlaces, TermSessions
  <2>2. tmux' \in [TermSessions -> Commands \cup {NoSession, AutoCmd}]
    BY <1>0 DEF TermInv, TypeOfTerminals
  <2> HIDE DEF NoViewer
  <2> QED
    BY <1>0, <1>1, <2>1, <2>2, HandlerStep DEF Account, Refuse
<1>2. CASE /\ viewer' = [viewer EXCEPT ![v].at = "relay", ![v].pty = "open", ![v].reader = "reading"]
           /\ termConns' = termConns \cup {v}
  <2> DEFINE r == [[[viewer[v] EXCEPT !.at = "relay"] EXCEPT !.pty = "open"] EXCEPT !.reader = "reading"]
  <2>1. r \in ViewerRecord /\ r.at = "relay" /\ r.pty = "open"
    BY <1>0 DEF ViewerRecord, ViewerPlaces
  <2>2. viewer' = [viewer EXCEPT ![v] = r]
    BY <1>0, <1>2
  <2> HIDE DEF r
  <2>3. /\ viewer' \in [Viewers -> ViewerRecord] /\ viewer'[v].at = "relay" /\ viewer'[v].pty = "open"
        /\ \A w \in Viewers \ {v} : viewer'[w] = viewer[w]
    BY <1>0, <2>1, <2>2
  <2>4. termMu = v /\ v \notin termConns /\ v \notin restart.closing /\ v \notin termStop.closing
        /\ Cardinality(termConns) < MaxSessions
    BY <1>0 DEF Account
  <2>5. /\ IsFiniteSet(termConns') /\ Cardinality(termConns') <= MaxSessions
        /\ Cardinality(termConns') \in Nat
    <3>1. IsFiniteSet(termConns') /\ Cardinality(termConns') = Cardinality(termConns) + 1
      BY <1>2, <2>4, TermCounts, FS_AddElement
    <3> QED
      BY <2>4, <3>1, TermCounts
  <2>6. Account(v)'
    BY <1>0, <1>2, <2>3, <2>4, NobodyIsNoViewer DEF Account
  <2>7. ASSUME NEW w \in Viewers \ {v} PROVE Account(w)'
    <3>1. Account(w) /\ viewer'[w] = viewer[w] /\ viewer[w].at # "attach"
      BY <2>3, <2>4 DEF TermInv, Account
    <3>2. (termMu' = w) <=> (termMu = w)
      BY <1>0, <2>4, NobodyIsNoViewer
    <3>3. (w \in termConns') <=> (w \in termConns)
      BY <1>2
    <3> QED
      BY <1>0, <2>5, <3>1, <3>2, <3>3, AccountKept, TermCounts
  <2>8. TypeOfTerminals'
    BY <1>0, <1>2, <2>3 DEF TermInv, TypeOfTerminals
  <2> QED
    BY <1>0, <2>5, <2>6, <2>7, <2>8 DEF TermInv
<1> QED
  BY <1>1, <1>2 DEF AttachPTY

\* While the mutex is free, taking connections out of the map cannot disturb
\* anybody else: nobody is between the limit's check and the registration.
LEMMA TakenOut ==
  ASSUME TermInv, MutexFree, UNCHANGED termMu, NEW w \in Viewers, termConns' \subseteq termConns,
         viewer'[w].at = viewer[w].at, viewer'[w].pty = viewer[w].pty,
         (w \in termConns') <=> (w \in termConns),
         (w \in restart'.closing) <=> (w \in restart.closing),
         (w \in termStop'.closing) <=> (w \in termStop.closing)
  PROVE  Account(w)'
<1>1. Account(w) /\ viewer[w].at # "attach"
  BY NobodyIsNoViewer DEF TermInv, Account, MutexFree
<1> QED
  BY <1>1, NobodyIsNoViewer DEF Account, MutexFree

\* The map stays finite and within the limit when connections leave it.
LEMMA FewerConnections ==
  ASSUME TermInv, termConns' \subseteq termConns
  PROVE  IsFiniteSet(termConns') /\ Cardinality(termConns') <= MaxSessions
<1>1. IsFiniteSet(termConns') /\ Cardinality(termConns') <= Cardinality(termConns)
  BY TermCounts, FS_Subset
<1>2. Cardinality(termConns') \in Nat /\ Cardinality(termConns) <= MaxSessions
  BY <1>1, FS_CardinalityType DEF TermInv
<1> QED
  BY <1>1, <1>2, TermCounts

\* Detach takes the connection out of the map, or finds it taken.
LEMMA DetachStep == ASSUME TermInv, NEW v \in Viewers, DetachTakes(v) PROVE TermInv'
<1> DEFINE a == IF v \in termConns THEN "close" ELSE "wait"
           r == [viewer[v] EXCEPT !.at = a]
<1>0. /\ viewer \in [Viewers -> ViewerRecord] /\ viewer[v] \in ViewerRecord /\ Account(v)
      /\ viewer[v].at = "detach" /\ UNCHANGED <<termMu, tmux, defaultCmd, restart, termStop>>
      /\ MutexFree /\ termConns' = termConns \ {v} /\ viewer' = [viewer EXCEPT ![v].at = a]
  BY DEF TermInv, TypeOfTerminals, DetachTakes
<1>1. a \in {"close", "wait"} /\ (a = "close" <=> v \in termConns)
  OBVIOUS
<1> HIDE DEF a
<1>2. r \in ViewerRecord /\ r.at = a /\ r.pty = viewer[v].pty /\ viewer' = [viewer EXCEPT ![v] = r]
  BY <1>0, <1>1 DEF ViewerRecord, ViewerPlaces
<1> HIDE DEF r
<1>3. /\ viewer' \in [Viewers -> ViewerRecord] /\ viewer'[v].at = a /\ viewer'[v].pty = viewer[v].pty
      /\ \A w \in Viewers \ {v} : viewer'[w] = viewer[w]
  BY <1>0, <1>2
<1>4. Account(v)'
  BY <1>0, <1>1, <1>3, NobodyIsNoViewer DEF Account
<1>5. ASSUME NEW w \in Viewers \ {v} PROVE Account(w)'
  <2>1. viewer'[w] = viewer[w] /\ termConns' \subseteq termConns /\ (w \in termConns' <=> w \in termConns)
    BY <1>0, <1>3
  <2> QED
    BY <1>0, <2>1, TakenOut
<1>6. TypeOfTerminals'
  BY <1>0, <1>3 DEF TermInv, TypeOfTerminals
<1>7. IsFiniteSet(termConns') /\ Cardinality(termConns') <= MaxSessions
  BY <1>0, FewerConnections
<1> QED
  BY <1>0, <1>4, <1>5, <1>6, <1>7 DEF TermInv

\* What closing PTYs leaves behind.
LEMMA PTYsClosed ==
  ASSUME NEW vs \in SUBSET Viewers, viewer \in [Viewers -> ViewerRecord], viewer' = ClosePTYs(viewer, vs)
  PROVE  /\ viewer' \in [Viewers -> ViewerRecord]
         /\ \A w \in Viewers : viewer'[w].at = viewer[w].at
         /\ \A w \in vs : viewer'[w].pty = "closed"
         /\ \A w \in Viewers \ vs : viewer'[w] = viewer[w]
<1>1. ASSUME NEW w \in Viewers
      PROVE  /\ [viewer[w] EXCEPT !.pty = "closed"] \in ViewerRecord
             /\ [viewer[w] EXCEPT !.pty = "closed"].at = viewer[w].at
             /\ [viewer[w] EXCEPT !.pty = "closed"].pty = "closed"
  BY DEF ViewerRecord
<1> QED
  BY <1>1 DEF ClosePTYs

\* The restart takes the session's connections out and closes them.
LEMMA RestartStep ==
  ASSUME TermInv,
         \/ KillCollects \/ KillCloses \/ SetDefaultCommand
         \/ \E n \in WebSessions, b \in TermBackends \cup {Nested} : Restart(n, b)
  PROVE  TermInv'
<1> DEFINE RestartRecord == [at : {"idle", "collect", "close", "command"}, name : TermSessions,
                             backend : Commands \cup {NoSession}, answered : Commands \cup {NoSession},
                             closing : SUBSET Viewers, count : Nat]
<1>0. restart \in RestartRecord /\ viewer \in [Viewers -> ViewerRecord] /\ termConns \subseteq Viewers
  BY DEF TermInv, TypeOfTerminals
<1>1. ASSUME restart' \in RestartRecord, restart'.closing = restart.closing,
             restart.at # "close", restart'.at # "close",
             restart'.at # "idle" => restart'.backend \in Commands, defaultCmd' \in Commands,
             UNCHANGED <<viewer, termConns, termMu, tmux, termStop>>
      PROVE  TermInv'
  <2>1. \A w \in Viewers : Account(w)'
    BY <1>1 DEF TermInv, Account
  <2>2. TypeOfTerminals'
    BY <1>1 DEF TermInv, TypeOfTerminals
  <2> QED
    BY <1>1, <2>1, <2>2 DEF TermInv
<1>2. ASSUME NEW n \in WebSessions, NEW b \in TermBackends \cup {Nested}, Restart(n, b) PROVE TermInv'
  <2>1. /\ restart' \in RestartRecord /\ restart'.at = "collect" /\ restart'.backend = b
        /\ restart'.closing = restart.closing
    <3>1. n \in TermSessions /\ b \in Commands \cup {NoSession} /\ restart.count + 1 \in Nat
      BY <1>0 DEF TermSessions, Commands
    <3> QED
      BY <1>0, <1>2, <3>1 DEF Restart
  <2>2. UNCHANGED <<viewer, termConns, termMu, tmux, defaultCmd, termStop>> /\ restart.at = "idle"
    BY <1>2 DEF Restart
  <2>3. defaultCmd' \in Commands /\ b \in Commands
    BY <2>2 DEF TermInv, TypeOfTerminals, Commands
  <2> HIDE DEF RestartRecord
  <2> QED
    BY <1>1, <2>1, <2>2, <2>3
<1>3. CASE SetDefaultCommand
  <2>1. restart.at = "command" /\ restart.backend \in Commands
    BY <1>3 DEF SetDefaultCommand, TermInv
  <2>2. restart' \in RestartRecord /\ restart'.at = "idle" /\ restart'.closing = restart.closing
    BY <1>0, <1>3, <2>1 DEF SetDefaultCommand
  <2>3. UNCHANGED <<viewer, termConns, termMu, tmux, termStop>> /\ defaultCmd' \in Commands
    BY <1>3, <2>1 DEF SetDefaultCommand
  <2> HIDE DEF RestartRecord
  <2> QED
    BY <1>1, <2>1, <2>2, <2>3
<1>4. CASE KillCollects
  <2> DEFINE vs == {v \in termConns : viewer[v].name = restart.name}
  <2>1. /\ termConns' = termConns \ vs /\ restart' = [restart EXCEPT !.at = "close", !.closing = vs]
        /\ restart.at = "collect" /\ MutexFree
        /\ UNCHANGED <<viewer, termMu, tmux, defaultCmd, termStop>>
    BY <1>4 DEF KillCollects
  <2>2. vs \subseteq termConns /\ vs \in SUBSET Viewers
    BY <1>0
  <2> HIDE DEF vs
  <2>3. /\ restart' \in RestartRecord /\ restart'.at = "close" /\ restart'.closing = vs
        /\ restart'.backend = restart.backend
    BY <1>0, <2>1, <2>2
  <2>4. restart.closing = {} /\ restart.backend \in Commands
    BY <2>1 DEF TermInv
  <2>5. ASSUME NEW w \in Viewers PROVE Account(w)'
    <3>1. CASE w \in vs
      <4>1. Account(w)
        BY DEF TermInv
      <4> QED
        BY <2>1, <2>2, <2>3, <3>1, <4>1, NobodyIsNoViewer DEF Account, MutexFree
    <3>2. CASE w \notin vs
      BY <2>1, <2>2, <2>3, <2>4, <3>2, TakenOut
    <3> QED
      BY <3>1, <3>2
  <2>6. TypeOfTerminals'
    BY <2>1, <2>3 DEF TermInv, TypeOfTerminals
  <2>7. IsFiniteSet(termConns') /\ Cardinality(termConns') <= MaxSessions
    BY <2>1, FewerConnections
  <2> HIDE DEF RestartRecord
  <2> QED
    BY <2>1, <2>3, <2>4, <2>5, <2>6, <2>7 DEF TermInv
<1>5. CASE KillCloses
  <2>1. /\ viewer' = ClosePTYs(viewer, restart.closing) /\ restart.at = "close"
        /\ restart' = [restart EXCEPT !.at = "command", !.closing = {}]
        /\ UNCHANGED <<termConns, termMu, defaultCmd, termStop>>
    BY <1>5 DEF KillCloses
  <2>2. /\ restart' \in RestartRecord /\ restart'.at = "command" /\ restart'.closing = {}
        /\ restart'.backend = restart.backend
    BY <1>0, <2>1
  <2>3. restart.closing \in SUBSET Viewers /\ restart.backend \in Commands
    BY <1>0, <2>1 DEF TermInv
  <2>4. /\ viewer' \in [Viewers -> ViewerRecord]
        /\ \A w \in Viewers : viewer'[w].at = viewer[w].at
        /\ \A w \in restart.closing : viewer'[w].pty = "closed"
        /\ \A w \in Viewers \ restart.closing : viewer'[w] = viewer[w]
    BY <1>0, <2>1, <2>3, PTYsClosed
  <2>5. tmux' \in [TermSessions -> Commands \cup {NoSession, AutoCmd}]
    BY <1>5 DEF KillCloses, TermInv, TypeOfTerminals
  <2> HIDE DEF RestartRecord
  <2>6. ASSUME NEW w \in Viewers PROVE Account(w)'
    <3>1. Account(w) /\ viewer'[w].at = viewer[w].at
      BY <2>4 DEF TermInv
    <3>2. CASE w \in restart.closing
      BY <2>1, <2>2, <2>4, <3>1, <3>2 DEF Account
    <3>3. CASE w \notin restart.closing
      BY <2>1, <2>2, <2>4, <3>1, <3>3 DEF Account
    <3> QED
      BY <3>2, <3>3
  <2>7. TypeOfTerminals'
    BY <2>1, <2>2, <2>4, <2>5 DEF TermInv, TypeOfTerminals, RestartRecord
  <2> QED
    BY <2>1, <2>2, <2>3, <2>6, <2>7 DEF TermInv
<1> QED
  BY <1>2, <1>3, <1>4, <1>5

\* The shutdown takes all connections out and closes them.
LEMMA StopStep ==
  ASSUME TermInv, ServerStops \/ ShutdownCollects \/ ShutdownKills
  PROVE  TermInv'
<1> DEFINE StopRecord == [at : {"no", "cancelled", "close", "down"}, closing : SUBSET Viewers]
<1>0. termStop \in StopRecord /\ viewer \in [Viewers -> ViewerRecord] /\ termConns \subseteq Viewers
  BY DEF TermInv, TypeOfTerminals
<1>1. CASE ServerStops
  <2>1. UNCHANGED <<viewer, termConns, termMu, tmux, defaultCmd, restart>> /\ termStop.at = "no"
    BY <1>1 DEF ServerStops
  <2>2. termStop' \in StopRecord /\ termStop'.at = "cancelled" /\ termStop'.closing = termStop.closing
    BY <1>0, <1>1 DEF ServerStops
  <2>3. TypeOfTerminals'
    BY <2>1, <2>2 DEF TermInv, TypeOfTerminals
  <2>4. \A w \in Viewers : Account(w)'
    BY <2>1, <2>2 DEF TermInv, Account
  <2> HIDE DEF StopRecord
  <2> QED
    BY <2>1, <2>2, <2>3, <2>4 DEF TermInv
<1>2. CASE ShutdownCollects
  <2>1. /\ UNCHANGED <<viewer, termMu, tmux, defaultCmd, restart>> /\ termStop.at = "cancelled"
        /\ MutexFree /\ termStop' = [at |-> "close", closing |-> termConns] /\ termConns' = {}
    BY <1>2 DEF ShutdownCollects
  <2>2. termStop' \in StopRecord /\ termStop'.at = "close" /\ termStop'.closing = termConns
    BY <1>0, <2>1
  <2>3. termStop.closing = {}
    BY <2>1 DEF TermInv
  <2>4. TypeOfTerminals'
    BY <2>1, <2>2 DEF TermInv, TypeOfTerminals
  <2>5. ASSUME NEW w \in Viewers PROVE Account(w)'
    <3>1. Account(w)
      BY DEF TermInv
    <3>2. CASE w \in termConns
      BY <2>1, <2>2, <3>1, <3>2, NobodyIsNoViewer DEF Account, MutexFree
    <3>3. CASE w \notin termConns
      BY <2>1, <2>2, <2>3, <3>3, TakenOut
    <3> QED
      BY <3>2, <3>3
  <2>6. IsFiniteSet(termConns') /\ Cardinality(termConns') <= MaxSessions
    BY <2>1, FewerConnections
  <2> HIDE DEF StopRecord
  <2> QED
    BY <2>1, <2>2, <2>4, <2>5, <2>6 DEF TermInv
<1>3. CASE ShutdownKills
  <2>1. /\ UNCHANGED <<termConns, termMu, defaultCmd, restart>> /\ termStop.at = "close"
        /\ viewer' = ClosePTYs(viewer, termStop.closing)
        /\ termStop' = [at |-> "down", closing |-> {}]
    BY <1>3 DEF ShutdownKills
  <2>2. termStop' \in StopRecord /\ termStop'.at = "down" /\ termStop'.closing = {}
    BY <2>1
  <2>3. tmux' \in [TermSessions -> Commands \cup {NoSession, AutoCmd}]
    BY <1>3 DEF ShutdownKills, TermInv, TypeOfTerminals
  <2>4. /\ viewer' \in [Viewers -> ViewerRecord]
        /\ \A w \in Viewers : viewer'[w].at = viewer[w].at
        /\ \A w \in termStop.closing : viewer'[w].pty = "closed"
        /\ \A w \in Viewers \ termStop.closing : viewer'[w] = viewer[w]
    BY <1>0, <2>1, PTYsClosed
  <2>5. ASSUME NEW w \in Viewers PROVE Account(w)'
    <3>1. Account(w) /\ viewer'[w].at = viewer[w].at
      BY <2>4 DEF TermInv
    <3>2. CASE w \in termStop.closing
      BY <2>1, <2>2, <2>4, <3>1, <3>2 DEF Account
    <3>3. CASE w \notin termStop.closing
      BY <2>1, <2>2, <2>4, <3>1, <3>3 DEF Account
    <3> QED
      BY <3>2, <3>3
  <2>6. TypeOfTerminals'
    BY <2>1, <2>2, <2>3, <2>4 DEF TermInv, TypeOfTerminals
  <2> HIDE DEF StopRecord
  <2> QED
    BY <2>1, <2>2, <2>5, <2>6 DEF TermInv
<1> QED
  BY <1>1, <1>2, <1>3

\* The terminals' invariant is inductive.
LEMMA TerminalStep == TermInv /\ [TermNext]_termVars => TermInv'
<1> SUFFICES ASSUME TermInv, [TermNext]_termVars PROVE TermInv'
  OBVIOUS
<1>1. ASSUME NEW v \in Viewers,
             ViewerStep(v) \/ UpgradeAgent(v) \/ (\E n \in WebSessions : Upgrade(v, n))
      PROVE  TermInv'
  BY <1>1, ViewersStep, AttachStep, DetachStep DEF ViewerStep
<1>2. ASSUME NEW n \in TermSessions, SessionExits(n) PROVE TermInv'
  <2>1. tmux' \in [TermSessions -> Commands \cup {NoSession, AutoCmd}]
    BY <1>2 DEF SessionExits, TermInv, TypeOfTerminals
  <2>2. UNCHANGED <<viewer, termConns, termMu, defaultCmd, restart, termStop>>
    BY <1>2 DEF SessionExits
  <2>3. \A w \in Viewers : Account(w)'
    BY <2>2 DEF TermInv, Account
  <2> QED
    BY <2>1, <2>2, <2>3 DEF TermInv, TypeOfTerminals
<1>3. CASE UNCHANGED termVars
  <2>1. \A w \in Viewers : Account(w)'
    BY <1>3 DEF TermInv, Account, termVars
  <2> QED
    BY <1>3, <2>1 DEF TermInv, TypeOfTerminals, termVars
<1> QED
  BY <1>1, <1>2, <1>3, RestartStep, StopStep DEF TermNext, ManagerStep

\* An open PTY has exactly one place among the four.
LEMMA OnePlace ==
  ASSUME TermInv, NEW v \in Viewers, viewer[v].pty = "open"
  PROVE  Cardinality({i \in 1..4 : \/ i = 1 /\ v \in termConns
                                   \/ i = 2 /\ viewer[v].at = "close"
                                   \/ i = 3 /\ v \in restart.closing
                                   \/ i = 4 /\ v \in termStop.closing}) = 1
<1> DEFINE places == {i \in 1..4 : \/ i = 1 /\ v \in termConns
                                   \/ i = 2 /\ viewer[v].at = "close"
                                   \/ i = 3 /\ v \in restart.closing
                                   \/ i = 4 /\ v \in termStop.closing}
<1>1. \E k \in 1..4 : places = {k}
  <2>1. Account(v)
    BY DEF TermInv
  <2>2. CASE v \in termConns
    BY <2>1, <2>2 DEF Account
  <2>3. CASE viewer[v].at = "close"
    BY <2>1, <2>3 DEF Account
  <2>4. CASE v \in restart.closing
    BY <2>1, <2>4 DEF Account
  <2>5. CASE v \in termStop.closing
    BY <2>1, <2>5 DEF Account
  <2> QED
    BY <2>1, <2>2, <2>3, <2>4, <2>5 DEF Account
<1> HIDE DEF places
<1>2. Cardinality(places) = 1
  BY <1>1, FS_Singleton
<1> QED
  BY <1>2 DEF places

\* The TerminalManager (terminal.go) keeps its limit and every open PTY has
\* exactly one who will close it, for any number of viewers and sessions and
\* any limit, however handlers, a restart and the shutdown race.
THEOREM TerminalsAreAccounted == TermSpec => []ConnectionsAreAccounted
<1>1. TermInit => TermInv
  <2> SUFFICES ASSUME TermInit PROVE TermInv
    OBVIOUS
  <2>1. NoViewer \in ViewerRecord /\ NoViewer.at = "idle" /\ NoViewer.pty = "none"
    BY DEF NoViewer, ViewerRecord, ViewerPlaces, TermSessions
  <2>2. /\ restart.at = "idle" /\ restart.closing = {} /\ termStop.at = "no" /\ termStop.closing = {}
        /\ restart \in [at : {"idle", "collect", "close", "command"}, name : TermSessions,
                        backend : Commands \cup {NoSession}, answered : Commands \cup {NoSession},
                        closing : SUBSET Viewers, count : Nat]
        /\ termStop \in [at : {"no", "cancelled", "close", "down"}, closing : SUBSET Viewers]
    BY DEF TermInit, TermSessions
  <2>3. viewer \in [Viewers -> ViewerRecord] /\ \A v \in Viewers : viewer[v] = NoViewer
    BY <2>1 DEF TermInit
  <2>4. tmux \in [TermSessions -> Commands \cup {NoSession, AutoCmd}] /\ defaultCmd \in Commands
    BY DEF TermInit, Commands
  <2>5. TypeOfTerminals
    BY <2>2, <2>3, <2>4 DEF TermInit, TypeOfTerminals
  <2>6. IsFiniteSet(termConns) /\ Cardinality(termConns) <= MaxSessions
    <3>1. IsFiniteSet({}) /\ Cardinality({}) = 0
      BY FS_EmptySet
    <3> QED
      BY <3>1, TerminalConstants DEF TermInit
  <2>7. \A v \in Viewers : Account(v)
    <3> HIDE DEF NoViewer
    <3> QED
      BY <2>1, <2>2, <2>3, NobodyIsNoViewer DEF TermInit, Account
  <2> QED
    BY <2>2, <2>5, <2>6, <2>7 DEF TermInv
<1>2. TermInv => ConnectionsAreAccounted
  BY OnePlace DEF TermInv, Account, ConnectionsAreAccounted
<1> QED
  BY <1>1, <1>2, TerminalStep, PTL DEF TermSpec


-----------------------------------------------------------------------------
(* The SSE hub.  The inductive invariant follows one connection through    *)
(* the two queues: it waits to be registered once, before it has been a    *)
(* client or had its channel closed; and a client (or one that waits to    *)
(* become one) whose handler has returned waits to be unregistered too.    *)

InQ(q, c) == \E i \in DOMAIN q : q[i] = c
OnceIn(q) == \A i, j \in DOMAIN q : q[i] = q[j] => i = j

HubTypeOK ==
  /\ regQ \in Seq(Conns) /\ unregQ \in Seq(Conns) /\ clients \subseteq Conns
  /\ hub \in {"running", "done", "exited"}
  /\ at \in [Conns -> {"none", "catchup", "stream", "leaving", "gone"}]
  /\ closes \in [Conns -> {0, 1}]
ConnInv(c) ==
  /\ at[c] = "none" => ~InQ(regQ, c) /\ c \notin clients /\ closes[c] = 0
  /\ InQ(regQ, c) => c \notin clients /\ closes[c] = 0
  /\ c \in clients => closes[c] = 0
  /\ (c \in clients \/ InQ(regQ, c)) /\ at[c] = "gone" /\ hub = "running"
       => c \in overtaken \/ InQ(unregQ, c)
HubInv == HubTypeOK /\ OnceIn(regQ) /\ \A c \in Conns : ConnInv(c)

\* Joining a queue.
LEMMA Joining ==
  ASSUME NEW S, NEW q \in Seq(S), NEW x \in S
  PROVE  /\ Append(q, x) \in Seq(S)
         /\ \A c : InQ(Append(q, x), c) <=> InQ(q, c) \/ c = x
         /\ OnceIn(q) /\ ~InQ(q, x) => OnceIn(Append(q, x))
<1> DEFINE t == Append(q, x)
<1>1. /\ t \in Seq(S) /\ Len(t) = Len(q) + 1 /\ t[Len(q) + 1] = x /\ \A i \in 1..Len(q) : t[i] = q[i]
  OBVIOUS
<1>2. DOMAIN t = 1..(Len(q) + 1) /\ DOMAIN q = 1..Len(q) /\ Len(q) \in Nat
  BY <1>1
<1>3. \A i \in 1..(Len(q) + 1) : i \in 1..Len(q) \/ i = Len(q) + 1
  BY <1>2
<1>4. Len(q) + 1 \in 1..(Len(q) + 1) /\ \A i \in 1..Len(q) : i \in 1..(Len(q) + 1)
  BY <1>2
<1> HIDE DEF t
<1>5. \A c : InQ(t, c) <=> InQ(q, c) \/ c = x
  BY <1>1, <1>2, <1>3, <1>4 DEF InQ
<1>6. OnceIn(q) /\ ~InQ(q, x) => OnceIn(t)
  BY <1>1, <1>2, <1>3 DEF OnceIn, InQ
<1> QED
  BY <1>1, <1>5, <1>6 DEF t

\* Leaving a queue at its head.
LEMMA Serving ==
  ASSUME NEW S, NEW q \in Seq(S), q # <<>>
  PROVE  /\ Head(q) \in S /\ Tail(q) \in Seq(S) /\ InQ(q, Head(q))
         /\ \A c : InQ(Tail(q), c) => InQ(q, c)
         /\ \A c : InQ(q, c) => InQ(Tail(q), c) \/ c = Head(q)
         /\ OnceIn(q) => OnceIn(Tail(q)) /\ ~InQ(Tail(q), Head(q))
<1> DEFINE t == Tail(q)
<1>1. /\ t \in Seq(S) /\ Len(q) \in Nat /\ Len(q) # 0 /\ Len(t) = Len(q) - 1 /\ Head(q) = q[1] /\ Head(q) \in S
      /\ \A i \in 1..Len(t) : t[i] = q[i + 1]
  OBVIOUS
<1>2. DOMAIN t = 1..Len(t) /\ DOMAIN q = 1..Len(q)
  BY <1>1
<1>3. 1 \in 1..Len(q) /\ \A i \in 1..Len(t) : i + 1 \in 1..Len(q) /\ i + 1 # 1
  BY <1>1
<1>4. \A i \in 1..Len(q) : i # 1 => i - 1 \in 1..Len(t) /\ (i - 1) + 1 = i
  BY <1>1
<1> HIDE DEF t
<1>5. InQ(q, Head(q))
  BY <1>1, <1>2, <1>3 DEF InQ
<1>6. ASSUME NEW c, InQ(t, c) PROVE InQ(q, c)
  BY <1>1, <1>2, <1>3, <1>6 DEF InQ
<1>7. ASSUME NEW c, InQ(q, c) PROVE InQ(t, c) \/ c = Head(q)
  <2>1. PICK i \in 1..Len(q) : q[i] = c
    BY <1>2, <1>7 DEF InQ
  <2>2. CASE i = 1
    BY <1>1, <2>1, <2>2
  <2>3. CASE i # 1
    <3>1. i - 1 \in 1..Len(t) /\ t[i - 1] = q[i]
      BY <1>1, <1>4, <2>3
    <3> QED
      BY <1>2, <2>1, <3>1 DEF InQ
  <2> QED
    BY <2>2, <2>3
<1>8. ASSUME OnceIn(q) PROVE OnceIn(t) /\ ~InQ(t, Head(q))
  <2>1. ASSUME NEW i \in 1..Len(t), NEW j \in 1..Len(t), t[i] = t[j] PROVE i = j
    <3>1. i + 1 \in 1..Len(q) /\ j + 1 \in 1..Len(q) /\ q[i + 1] = q[j + 1]
      BY <1>1, <1>3, <2>1
    <3>2. i + 1 = j + 1
      BY <1>2, <1>8, <3>1 DEF OnceIn
    <3> QED
      BY <3>2
  <2>2. ASSUME NEW i \in 1..Len(t) PROVE t[i] # Head(q)
    <3>1. i + 1 \in 1..Len(q) /\ i + 1 # 1 /\ 1 \in 1..Len(q) /\ t[i] = q[i + 1]
      BY <1>1, <1>3
    <3> QED
      BY <1>1, <1>2, <1>8, <3>1 DEF OnceIn
  <2> QED
    BY <1>2, <2>1, <2>2 DEF OnceIn, InQ
<1> QED
  BY <1>1, <1>5, <1>6, <1>7, <1>8 DEF t

\* A channel that is closed for the first time.
LEMMA ClosedOnce ==
  ASSUME closes \in [Conns -> {0, 1}], NEW S \in SUBSET Conns, \A c \in S : closes[c] = 0, CloseSend(S)
  PROVE  /\ closes' \in [Conns -> {0, 1}]
         /\ \A c \in Conns : closes'[c] = IF c \in S THEN 1 ELSE closes[c]
<1>1. \A c \in Conns : closes'[c] = IF c \in S THEN closes[c] + 1 ELSE closes[c]
  BY DEF CloseSend
<1>2. \A c \in Conns : closes'[c] = IF c \in S THEN 1 ELSE closes[c]
  BY <1>1
<1>3. DOMAIN closes' = Conns /\ closes' = [c \in Conns |-> closes'[c]]
  BY DEF CloseSend
<1> QED
  BY <1>2, <1>3

\* Every step of the hub, the subscriber and the handlers keeps the invariant.
LEMMA HubKeeps == HubInv /\ [EventNext]_eventVars => HubInv'
<1> SUFFICES ASSUME HubInv, [EventNext]_eventVars PROVE HubInv'
  OBVIOUS
<1> USE DEF HubInv, HubTypeOK
<1>1. CASE HubRegister
  <2> DEFINE x == Head(regQ)
  <2>1. /\ clients' = clients \cup {x} /\ regQ' = Tail(regQ) /\ regQ # <<>>
        /\ UNCHANGED <<unregQ, hub, at, closes, overtaken>>
    BY <1>1 DEF HubRegister, connVars, historyVars
  <2>2. /\ x \in Conns /\ regQ' \in Seq(Conns) /\ InQ(regQ, x) /\ OnceIn(regQ') /\ ~InQ(regQ', x)
        /\ \A c : InQ(regQ', c) => InQ(regQ, c)
    BY <2>1, Serving
  <2> HIDE DEF x
  <2>3. ASSUME NEW c \in Conns PROVE ConnInv(c)'
    <3>1. ConnInv(c) /\ ConnInv(x)
      BY <2>2
    <3>2. /\ InQ(regQ', c) => InQ(regQ, c) /\ c # x
          /\ c \in clients' <=> c \in clients \/ c = x
      BY <2>1, <2>2
    <3>3. (at[c] = "none")' => (~InQ(regQ, c) /\ c \notin clients /\ closes[c] = 0)'
      BY <2>1, <2>2, <3>1, <3>2 DEF ConnInv
    <3>4. (InQ(regQ, c) => c \notin clients /\ closes[c] = 0)'
      BY <2>1, <3>1, <3>2 DEF ConnInv
    <3>5. (c \in clients => closes[c] = 0)'
      BY <2>1, <2>2, <3>1, <3>2 DEF ConnInv
    <3>6. ((c \in clients \/ InQ(regQ, c)) /\ at[c] = "gone" /\ hub = "running" => c \in overtaken \/ InQ(unregQ, c))'
      BY <2>1, <2>2, <3>1, <3>2 DEF ConnInv
    <3> QED
      BY <3>3, <3>4, <3>5, <3>6 DEF ConnInv
  <2> QED
    BY <2>1, <2>2, <2>3
<1>2. CASE HubUnregister
  <2> DEFINE x == Head(unregQ)
             S == clients \cap {x}
  <2>1. /\ clients' = clients \ {x} /\ CloseSend(S) /\ unregQ' = Tail(unregQ) /\ unregQ # <<>>
        /\ overtaken' = IF InQ(regQ, x) THEN overtaken \cup {x} ELSE overtaken
        /\ UNCHANGED <<regQ, hub, at>>
    BY <1>2 DEF HubUnregister, RemoveClient, InQ
  <2>2. /\ x \in Conns /\ unregQ' \in Seq(Conns)
        /\ \A c : InQ(unregQ, c) => InQ(unregQ', c) \/ c = x
    BY <2>1, Serving
  <2>3. S \in SUBSET Conns /\ \A c \in S : closes[c] = 0
    BY DEF ConnInv
  <2> HIDE DEF S
  <2>4. closes' \in [Conns -> {0, 1}] /\ \A c \in Conns : closes'[c] = IF c \in S THEN 1 ELSE closes[c]
    BY <2>1, <2>3, ClosedOnce
  <2>5. ASSUME NEW c \in Conns PROVE ConnInv(c)'
    <3>1. ConnInv(c)
      OBVIOUS
    <3>2. /\ c \in clients' <=> c \in clients /\ c # x
          /\ closes'[c] = IF c \in clients /\ c = x THEN 1 ELSE closes[c]
      BY <2>1, <2>4 DEF S
    <3> HIDE DEF x
    <3>3. (at[c] = "none" => ~InQ(regQ, c) /\ c \notin clients /\ closes[c] = 0)'
      BY <2>1, <3>1, <3>2 DEF ConnInv
    <3>4. (InQ(regQ, c) => c \notin clients /\ closes[c] = 0)'
      BY <2>1, <3>1, <3>2 DEF ConnInv
    <3>5. (c \in clients => closes[c] = 0)'
      BY <2>1, <3>1, <3>2 DEF ConnInv
    <3>6. ((c \in clients \/ InQ(regQ, c)) /\ at[c] = "gone" /\ hub = "running" => c \in overtaken \/ InQ(unregQ, c))'
      BY <2>1, <2>2, <3>1, <3>2 DEF ConnInv
    <3> QED
      BY <3>3, <3>4, <3>5, <3>6 DEF ConnInv
  <2> QED
    BY <2>1, <2>2, <2>4, <2>5
<1>3. CASE HubExits
  <2>1. /\ hub' = "exited" /\ clients' = {} /\ CloseSend(clients)
        /\ UNCHANGED <<regQ, unregQ, at, overtaken>>
    BY <1>3 DEF HubExits, historyVars
  <2>2. \A c \in clients : closes[c] = 0
    BY DEF ConnInv
  <2>3. closes' \in [Conns -> {0, 1}] /\ \A c \in Conns : closes'[c] = IF c \in clients THEN 1 ELSE closes[c]
    BY <2>1, <2>2, ClosedOnce
  <2> QED
    BY <2>1, <2>3 DEF ConnInv
<1>4. CASE StopHub
  <2>1. hub' = "done" /\ UNCHANGED <<regQ, unregQ, clients, at, closes, overtaken>>
    BY <1>4 DEF StopHub, connVars, historyVars
  <2> QED
    BY <2>1 DEF ConnInv
<1>5. ASSUME NEW x \in Conns, Connect(x) PROVE HubInv'
  <2>1. /\ at[x] = "none" /\ at' = [at EXCEPT ![x] = "catchup"]
        /\ UNCHANGED <<unregQ, clients, hub, overtaken>>
        /\ \/ CloseSend({x}) /\ regQ' = regQ
           \/ regQ' = Append(regQ, x) /\ closes' = closes
    BY <1>5 DEF Connect, historyVars
  <2>2. ~InQ(regQ, x) /\ x \notin clients /\ closes[x] = 0
    BY <2>1 DEF ConnInv
  <2>3. \A c \in Conns : at'[c] = IF c = x THEN "catchup" ELSE at[c]
    BY <2>1
  <2>4. CASE CloseSend({x}) /\ regQ' = regQ
    <3>1. closes' \in [Conns -> {0, 1}] /\ \A c \in Conns : closes'[c] = IF c \in {x} THEN 1 ELSE closes[c]
      BY <2>2, <2>4, ClosedOnce
    <3> QED
      BY <2>1, <2>2, <2>3, <2>4, <3>1 DEF ConnInv
  <2>5. CASE regQ' = Append(regQ, x) /\ closes' = closes
    <3>1. /\ regQ' \in Seq(Conns) /\ OnceIn(regQ')
          /\ \A c : InQ(regQ', c) <=> InQ(regQ, c) \/ c = x
      BY <2>2, <2>5, Joining
    <3> QED
      BY <2>1, <2>2, <2>3, <2>5, <3>1 DEF ConnInv
  <2> QED
    BY <2>1, <2>4, <2>5
<1>6. ASSUME NEW x \in Conns, CatchUp(x) \/ StreamEnds(x) PROVE HubInv'
  <2>1. /\ \/ at[x] = "catchup" /\ at' = [at EXCEPT ![x] = "stream"]
           \/ at[x] = "stream" /\ at' = [at EXCEPT ![x] = "leaving"]
        /\ UNCHANGED <<regQ, unregQ, clients, hub, closes, overtaken>>
    BY <1>6 DEF CatchUp, StreamEnds, historyVars
  <2> QED
    BY <2>1 DEF ConnInv
<1>7. ASSUME NEW x \in Conns, Disconnect(x) PROVE HubInv'
  <2>1. /\ at[x] = "leaving" /\ at' = [at EXCEPT ![x] = "gone"]
        /\ UNCHANGED <<regQ, clients, hub, closes, overtaken>>
        /\ (hub # "running" /\ unregQ' = unregQ) \/ unregQ' = Append(unregQ, x)
    BY <1>7 DEF Disconnect, historyVars
  <2>2. \A c \in Conns : at'[c] = IF c = x THEN "gone" ELSE at[c]
    BY <2>1
  <2>3. CASE hub # "running" /\ unregQ' = unregQ
    BY <2>1, <2>2, <2>3 DEF ConnInv
  <2>4. CASE unregQ' = Append(unregQ, x)
    <3>1. unregQ' \in Seq(Conns) /\ \A c : InQ(unregQ', c) <=> InQ(unregQ, c) \/ c = x
      BY <2>4, Joining
    <3> QED
      BY <2>1, <2>2, <3>1 DEF ConnInv
  <2> QED
    BY <2>1, <2>3, <2>4
<1>8. CASE UNCHANGED <<regQ, unregQ, clients, hub, at, closes, overtaken>>
  BY <1>8 DEF ConnInv
<1>9. \/ HubRegister \/ HubUnregister \/ HubExits \/ StopHub
      \/ \E c \in Conns : Connect(c) \/ CatchUp(c) \/ StreamEnds(c) \/ Disconnect(c)
      \/ UNCHANGED <<regQ, unregQ, clients, hub, at, closes, overtaken>>
  BY DEF EventNext, Change, Hub, HubBroadcast, DrainRetryQueue, Subscription, ProcessMutationResponse,
         BroadcastMutation, Poll, PollCount, CompareCount, CountUpdated, BroadcastRefresh, Stream, WriteEvent,
         connVars, historyVars, dataVars, eventVars, SecondPasses
<1> QED
  BY <1>1, <1>2, <1>3, <1>4, <1>5, <1>6, <1>7, <1>8, <1>9

\* No order of registering, leaving, broadcasting and stopping closes a
\* channel twice or leaves a closed one among those the hub sends to, for any
\* number of connections and any buffer sizes; and a client outlives its
\* handler only when the hub took its unregister before its register.
THEOREM ClientsLeaveTheHub == EventSpec => []ClientsLeaveOnce
<1>1. EventInit => HubInv
  BY DEF EventInit, HubInv, HubTypeOK, OnceIn, ConnInv, InQ
<1>2. HubInv => ClientsLeaveOnce
  BY DEF HubInv, HubTypeOK, ConnInv, InQ, ClientsLeaveOnce
<1> QED
  BY <1>1, <1>2, HubKeeps, PTL DEF EventSpec

-----------------------------------------------------------------------------
(* Paging backwards through a log.  What a reader has is always the lines  *)
(* from some line's beginning to the end of the file, and the number it    *)
(* asks with is the number of that line.                                   *)

\* The newlines among the first n bytes.
NewlinesBefore(n) == {i \in 0..(n - 1) : Newline(i)}
BeginsLine(from) == from = 0 \/ Newline(from - 1)
HasFrom(from) ==
  /\ BeginsLine(from) /\ before = StartLine(from)
  /\ got = LinesIn(from, Size) /\ gotCount = Cardinality(got)
PageInv ==
  /\ page.file \in Seq({"x", "nl"})
  /\ \/ before = 0 /\ got = {} /\ gotCount = 0
     \/ \E from \in 0..Size : HasFrom(from)
  /\ pageAt = "200" => before = 1

\* Newlines can be counted.
LEMMA NewlinesCount ==
  ASSUME NEW n \in Nat
  PROVE  IsFiniteSet(NewlinesBefore(n)) /\ Cardinality(NewlinesBefore(n)) \in Nat /\ StartLine(n) \in Nat \ {0}
<1>1. IsFiniteSet(0..(n - 1)) /\ NewlinesBefore(n) \in SUBSET (0..(n - 1))
  BY FS_Interval DEF NewlinesBefore
<1>2. IsFiniteSet(NewlinesBefore(n))
  BY <1>1, FS_Subset
<1>3. Cardinality(NewlinesBefore(n)) \in Nat
  BY <1>2, FS_CardinalityType
<1> QED
  BY <1>2, <1>3 DEF StartLine, NewlinesBefore

\* The more bytes that end in a newline, the more newlines.
LEMMA NewlinesGrow ==
  ASSUME NEW m \in Nat, NEW n \in Nat, m < n, Newline(n - 1)
  PROVE  Cardinality(NewlinesBefore(m)) < Cardinality(NewlinesBefore(n))
<1> DEFINE a == Cardinality(NewlinesBefore(m))
           b == Cardinality(NewlinesBefore(n))
<1>1. NewlinesBefore(m) \in SUBSET NewlinesBefore(n)
  BY DEF NewlinesBefore
<1>2. n - 1 \in NewlinesBefore(n) /\ n - 1 \notin NewlinesBefore(m)
  BY DEF NewlinesBefore
<1>3. IsFiniteSet(NewlinesBefore(n)) /\ a \in Nat /\ b \in Nat
  BY NewlinesCount
<1>4. a <= b /\ (b = a => NewlinesBefore(n) = NewlinesBefore(m))
  BY <1>1, <1>3, FS_Subset
<1>5. b # a
  BY <1>2, <1>4
<1> QED
  BY <1>3, <1>4, <1>5

\* Only the first line is line 1.
LEMMA FirstLine == ASSUME NEW from \in Nat, BeginsLine(from) PROVE StartLine(from) = 1 <=> from = 0
<1>1. NewlinesBefore(0) = {} /\ StartLine(0) = 1 + Cardinality(NewlinesBefore(0))
  BY DEF NewlinesBefore, StartLine
<1>2. StartLine(0) = 1
  BY <1>1, FS_EmptySet
<1>3. ASSUME from # 0 PROVE StartLine(from) # 1
  <2>1. Cardinality(NewlinesBefore(0)) < Cardinality(NewlinesBefore(from))
    BY <1>3, NewlinesGrow DEF BeginsLine
  <2>2. Cardinality(NewlinesBefore(0)) = 0 /\ Cardinality(NewlinesBefore(from)) \in Nat
    BY <1>1, FS_EmptySet, NewlinesCount
  <2>3. StartLine(from) = 1 + Cardinality(NewlinesBefore(from))
    BY DEF StartLine, NewlinesBefore
  <2> QED
    BY <2>1, <2>2, <2>3
<1> QED
  BY <1>2, <1>3

\* findLineByteOffset finds the beginning of a line from its number.
LEMMA OffsetOfLine ==
  ASSUME Size \in Nat, NEW from \in 1..Size, Newline(from - 1)
  PROVE  FindLineByteOffset(StartLine(from)) = from
<1> DEFINE c == Cardinality(NewlinesBefore(from))
           ends == {i \in 0..(Size - 1) : Newline(i) /\ Cardinality({j \in 0..i : Newline(j)}) = c}
<1>1. c \in Nat /\ StartLine(from) = 1 + c
  <2>1. c \in Nat
    BY NewlinesCount
  <2>2. StartLine(from) = 1 + c
    BY DEF StartLine, NewlinesBefore
  <2> QED
    BY <2>1, <2>2
<1>2. StartLine(from) # 1
  BY FirstLine DEF BeginsLine
<1>3. \A i \in Nat : {j \in 0..i : Newline(j)} = NewlinesBefore(i + 1)
  BY DEF NewlinesBefore
<1>4. from - 1 \in ends
  BY <1>3
<1>5. ASSUME NEW i \in ends PROVE i = from - 1
  <2>0. i \in Nat /\ i + 1 \in Nat /\ (i + 1) - 1 = i /\ Newline(i) /\ Cardinality({j \in 0..i : Newline(j)}) = c
    OBVIOUS
  <2>1. i \in Nat /\ i + 1 \in Nat /\ Newline((i + 1) - 1) /\ Cardinality(NewlinesBefore(i + 1)) = c
    BY <1>3, <2>0
  <2>2. CASE i + 1 < from
    <3>1. Cardinality(NewlinesBefore(i + 1)) < c
      BY <2>1, <2>2, NewlinesGrow
    <3> QED
      BY <1>1, <2>1, <3>1
  <2>3. CASE from < i + 1
    <3>1. c < Cardinality(NewlinesBefore(i + 1))
      BY <2>1, <2>3, NewlinesGrow
    <3> QED
      BY <1>1, <2>1, <3>1
  <2> QED
    BY <2>1, <2>2, <2>3
<1>6. StartLine(from) - 1 = c /\ ~(StartLine(from) <= 1)
  BY <1>1, <1>2
<1>7. FindLineByteOffset(StartLine(from)) = 1 + CHOOSE i \in ends : TRUE
  <2> DEFINE numbered == {i \in 0..(Size - 1) :
                            Newline(i) /\ Cardinality({j \in 0..i : Newline(j)}) = StartLine(from) - 1}
  <2>1. numbered = ends
    BY <1>6
  <2>2. FindLineByteOffset(StartLine(from)) =
          IF StartLine(from) <= 1 THEN 0 ELSE IF numbered = {} THEN -1 ELSE 1 + CHOOSE i \in numbered : TRUE
    BY DEF FindLineByteOffset
  <2> HIDE DEF numbered, ends
  <2> QED
    BY <1>4, <1>6, <2>1, <2>2
<1> HIDE DEF ends
<1>8. (CHOOSE i \in ends : TRUE) = from - 1
  BY <1>4, <1>5
<1>9. from \in Int /\ 1 + (from - 1) = from
  OBVIOUS
<1> QED
  BY <1>7, <1>8, <1>9

\* The backward scan stops before its end, where a line begins.
LEMMA ScanStops ==
  ASSUME NEW end \in Nat \ {0}, NEW n
  PROVE  ScanBackward(end, n) \in 0..(end - 1) /\ BeginsLine(ScanBackward(end, n))
<1> DEFINE nth == {i \in 0..(end - 1) : Counts(i, end) /\
                     Cardinality({j \in i..(end - 1) : Counts(j, end)}) = n}
<1>1. ScanBackward(end, n) = IF nth = {} THEN 0 ELSE 1 + CHOOSE i \in nth : TRUE
  BY DEF ScanBackward
<1>2. CASE nth = {}
  BY <1>1, <1>2 DEF BeginsLine
<1>3. CASE nth # {}
  <2>1. PICK i \in nth : i = CHOOSE k \in nth : TRUE
    BY <1>3
  <2>2. i \in 0..(end - 1) /\ Newline(i) /\ i # end - 1
    BY <2>1 DEF Counts
  <2>3. ScanBackward(end, n) = 1 + i
    BY <1>1, <1>3, <2>1
  <2>4. (1 + i) - 1 = i
    BY <2>2
  <2> QED
    BY <2>2, <2>3, <2>4 DEF BeginsLine
<1> QED
  BY <1>2, <1>3

\* There are finitely many lines.
LEMMA LinesCount ==
  ASSUME NEW from \in Nat, NEW to \in Nat
  PROVE  IsFiniteSet(LinesIn(from, to)) /\ Cardinality(LinesIn(from, to)) \in Nat
<1>1. IsFiniteSet(from..to)
  BY FS_Interval
<1>2. IsFiniteSet((from..to) \X (from..to))
  BY <1>1, FS_Product
<1>3. LinesIn(from, to) \in SUBSET ((from..to) \X (from..to))
  BY DEF LinesIn
<1> QED
  BY <1>2, <1>3, FS_Subset, FS_CardinalityType

\* At the beginning of a line, the lines of a file part: none is cut, none is in both parts.
LEMMA LinesPart ==
  ASSUME NEW size \in Nat, NEW mid \in 1..size, NEW from \in 0..(mid - 1), Newline(mid - 1)
  PROVE  /\ LinesIn(from, size) = LinesIn(from, mid) \cup LinesIn(mid, size)
         /\ LinesIn(from, mid) \cap LinesIn(mid, size) = {}
<1> DEFINE Line(a, b, f, t) ==
             /\ a \in f..t /\ b \in f..t /\ a <= b
             /\ a = f \/ Newline(a - 1)
             /\ \A i \in a..(b - 1) : ~Newline(i)
             /\ IF b < t THEN Newline(b) ELSE a < b
<1>1. \A f, t : LinesIn(f, t) = {x \in (f..t) \X (f..t) : Line(x[1], x[2], f, t)}
  BY DEF LinesIn
<1>2. \A f, t, a, b : <<a, b>> \in LinesIn(f, t) <=> Line(a, b, f, t)
  BY <1>1
<1>3. ASSUME NEW a \in Nat, NEW b \in Nat, Line(a, b, from, mid)
      PROVE  b < mid /\ Newline(b) /\ Line(a, b, from, size)
  BY <1>3
<1>4. ASSUME NEW a \in Nat, NEW b \in Nat, Line(a, b, mid, size) PROVE Line(a, b, from, size)
  BY <1>4
<1>5. ASSUME NEW a \in Nat, NEW b \in Nat, Line(a, b, from, size)
      PROVE  Line(a, b, from, mid) \/ Line(a, b, mid, size)
  <2>1. CASE a < mid
    <3>1. b < mid
      BY <1>5, <2>1
    <3> QED
      BY <1>5, <2>1, <3>1
  <2>2. CASE a >= mid
    BY <1>5, <2>2
  <2> QED
    BY <2>1, <2>2
<1>6. \A f \in Nat, t \in Nat : \A x \in LinesIn(f, t) : \E a \in Nat, b \in Nat : x = <<a, b>>
  BY <1>1
<1>7. \A a, b : Line(a, b, from, mid) \/ Line(a, b, mid, size) \/ Line(a, b, from, size) => a \in Nat /\ b \in Nat
  OBVIOUS
<1>8. \A a \in Nat, b \in Nat : ~(Line(a, b, from, mid) /\ Line(a, b, mid, size))
  BY <1>3
<1> HIDE DEF Line
<1>9. ASSUME NEW a \in Nat, NEW b \in Nat
      PROVE  <<a, b>> \in LinesIn(from, size) <=> <<a, b>> \in LinesIn(from, mid) \cup LinesIn(mid, size)
  <2>1. Line(a, b, from, size) <=> Line(a, b, from, mid) \/ Line(a, b, mid, size)
    BY <1>3, <1>4, <1>5
  <2> QED
    BY <1>2, <2>1
<1>10. ASSUME NEW a \in Nat, NEW b \in Nat
       PROVE  ~(<<a, b>> \in LinesIn(from, mid) /\ <<a, b>> \in LinesIn(mid, size))
  BY <1>2, <1>8
<1>11. from \in Nat /\ mid \in Nat
  OBVIOUS
<1>12. \A x \in LinesIn(from, size) \cup LinesIn(from, mid) \cup LinesIn(mid, size) :
         \E a \in Nat, b \in Nat : x = <<a, b>>
  BY <1>6, <1>11
<1> QED
  BY <1>9, <1>10, <1>12

\* A page continues what the reader has.
LEMMA PageContinues ==
  ASSUME PageInv, pageAt = "paging", Size # 0, before # 1
  PROVE  \E end \in 1..Size :
           /\ end = IF before = 0 THEN Size ELSE FindLineByteOffset(before)
           /\ \A from \in 0..(end - 1) :
                /\ got \cup LinesIn(from, end) = LinesIn(from, Size)
                /\ gotCount + Cardinality(LinesIn(from, end)) = Cardinality(LinesIn(from, Size))
<1>1. Size \in Nat
  BY DEF PageInv, Size
<1>2. CASE before = 0
  <2>1. got = {} /\ gotCount = 0
    <3>1. ASSUME NEW from \in 0..Size, HasFrom(from) PROVE FALSE
      BY <1>1, <1>2, <3>1, NewlinesCount DEF HasFrom
    <3> QED
      BY <3>1 DEF PageInv
  <2>2. Size \in 1..Size
    BY <1>1
  <2>3. ASSUME NEW from \in 0..(Size - 1)
        PROVE  /\ got \cup LinesIn(from, Size) = LinesIn(from, Size)
               /\ gotCount + Cardinality(LinesIn(from, Size)) = Cardinality(LinesIn(from, Size))
    BY <1>1, <2>1, LinesCount
  <2> QED
    BY <1>2, <2>2, <2>3
<1>3. CASE before # 0
  <2>1. PICK end \in 0..Size : HasFrom(end)
    BY <1>3 DEF PageInv
  <2>2. end # 0 /\ Newline(end - 1)
    BY <2>1, FirstLine DEF HasFrom, BeginsLine
  <2>3. end \in 1..Size /\ FindLineByteOffset(before) = end
    BY <1>1, <2>1, <2>2, OffsetOfLine DEF HasFrom
  <2>4. ASSUME NEW from \in 0..(end - 1)
        PROVE  /\ got \cup LinesIn(from, end) = LinesIn(from, Size)
               /\ gotCount + Cardinality(LinesIn(from, end)) = Cardinality(LinesIn(from, Size))
    <3> DEFINE A == LinesIn(from, end)
               B == LinesIn(end, Size)
    <3>1. LinesIn(from, Size) = A \cup B /\ A \cap B = {}
      BY <1>1, <2>2, <2>3, LinesPart
    <3>2. got = B /\ gotCount = Cardinality(B)
      BY <2>1 DEF HasFrom
    <3>3. IsFiniteSet(A) /\ Cardinality(A) \in Nat /\ IsFiniteSet(B) /\ Cardinality(B) \in Nat
      <4>1. from \in Nat /\ end \in Nat
        BY <1>1, <2>3
      <4> QED
        BY <1>1, <4>1, LinesCount
    <3> HIDE DEF A, B
    <3>4. Cardinality(A \cup B) = Cardinality(A) + Cardinality(B) - Cardinality(A \cap B)
      BY <3>3, FS_Union
    <3>5. Cardinality(A \cap B) = 0
      BY <3>1, FS_EmptySet
    <3>6. gotCount + Cardinality(A) = Cardinality(A \cup B)
      BY <3>2, <3>3, <3>4, <3>5
    <3> QED
      BY <3>1, <3>2, <3>6 DEF A
  <2> QED
    BY <1>3, <2>3, <2>4
<1> QED
  BY <1>2, <1>3

\* A request keeps the invariant.
LEMMA PageStep == PageInv /\ [GetLog]_pageState => PageInv'
<1> SUFFICES ASSUME PageInv, [GetLog]_pageState PROVE PageInv'
  OBVIOUS
<1>1. Size \in Nat
  BY DEF PageInv, Size
<1>2. page' = page
  BY DEF GetLog, pageState
<1>3. /\ Size' = Size /\ page'.file \in Seq({"x", "nl"})
      /\ \A f : BeginsLine(f)' = BeginsLine(f) /\ StartLine(f)' = StartLine(f)
      /\ \A f, t : LinesIn(f, t)' = LinesIn(f, t)
  BY <1>2 DEF PageInv, Size, BeginsLine, StartLine, LinesIn, Newline
<1>4. ASSUME NEW from \in 0..Size, BeginsLine(from), before' = StartLine(from), got' = LinesIn(from, Size),
             gotCount' = Cardinality(got'), pageAt' = "200" => before' = 1
      PROVE  PageInv'
  <2>1. HasFrom(from)'
    BY <1>3, <1>4 DEF HasFrom
  <2> QED
    BY <1>3, <1>4, <2>1 DEF PageInv
<1>5. CASE UNCHANGED <<before, got, gotCount>> /\ (pageAt' = "200" => before' = 1)
  <2>1. CASE before = 0 /\ got = {} /\ gotCount = 0
    BY <1>3, <1>5, <2>1 DEF PageInv
  <2>2. ASSUME NEW from \in 0..Size, HasFrom(from) PROVE PageInv'
    BY <1>4, <1>5, <2>2 DEF HasFrom
  <2> QED
    BY <2>1, <2>2 DEF PageInv
<1>6. CASE GetLog /\ LogStatus = "paging"
  <2>0. pageAt = "paging"
    BY <1>6 DEF GetLog
  <2> DEFINE r == ReadLastNLines
  <2>1. /\ before' = r.start /\ got' = got \cup r.lines /\ gotCount' = gotCount + Cardinality(r.lines)
        /\ pageAt' = IF r.start <= 1 THEN "200" ELSE "paging"
    BY <1>6 DEF GetLog
  <2>2. CASE Size = 0 \/ before = 1
    <3>1. r = [lines |-> {}, start |-> 1]
      BY <2>2 DEF ReadLastNLines
    <3>2. before' = 1 /\ got' = got /\ gotCount' = gotCount + 0
      BY <2>1, <3>1, FS_EmptySet
    <3>3. BeginsLine(0) /\ StartLine(0) = 1 /\ 0 \in 0..Size
      BY <1>1, FirstLine DEF BeginsLine
    <3>4. got = LinesIn(0, Size) /\ gotCount = Cardinality(got)
      <4>1. CASE before = 0 /\ got = {} /\ gotCount = 0
        <5>1. Size = 0 /\ LinesIn(0, 0) = {}
          BY <2>2, <4>1 DEF LinesIn
        <5> QED
          BY <4>1, <5>1, FS_EmptySet
      <4>2. ASSUME NEW from \in 0..Size, HasFrom(from) PROVE got = LinesIn(0, Size) /\ gotCount = Cardinality(got)
        <5>1. from = 0
          BY <1>1, <2>2, <4>2, FirstLine DEF HasFrom
        <5> QED
          BY <4>2, <5>1 DEF HasFrom
      <4> QED
        BY <4>1, <4>2 DEF PageInv
    <3>5. gotCount \in Nat
      BY <1>1, <3>4, LinesCount
    <3> QED
      BY <1>4, <3>2, <3>3, <3>4, <3>5
  <2>3. CASE Size # 0 /\ before # 1
    <3>1. PICK end \in 1..Size :
            /\ end = IF before = 0 THEN Size ELSE FindLineByteOffset(before)
            /\ \A from \in 0..(end - 1) :
                 /\ got \cup LinesIn(from, end) = LinesIn(from, Size)
                 /\ gotCount + Cardinality(LinesIn(from, end)) = Cardinality(LinesIn(from, Size))
      BY <2>0, <2>3, PageContinues
    <3> DEFINE from == ScanBackward(end, page.lines)
    <3>2. r = [lines |-> LinesIn(from, end), start |-> StartLine(from)]
      BY <2>3, <3>1 DEF ReadLastNLines
    <3>3. from \in 0..(end - 1) /\ BeginsLine(from)
      BY <1>1, <3>1, ScanStops
    <3> HIDE DEF from
    <3>4. /\ before' = StartLine(from) /\ got' = LinesIn(from, Size) /\ gotCount' = Cardinality(LinesIn(from, Size))
          /\ pageAt' = IF StartLine(from) <= 1 THEN "200" ELSE "paging"
      BY <2>1, <3>1, <3>2, <3>3
    <3>5. StartLine(from) \in Nat \ {0} /\ from \in 0..Size
      BY <1>1, <3>1, <3>3, NewlinesCount
    <3> QED
      BY <1>4, <3>3, <3>4, <3>5
  <2> QED
    BY <2>2, <2>3
<1>7. CASE GetLog /\ LogStatus # "paging"
  <2>1. LogStatus \in {"400", "500", "404"}
    BY <1>7 DEF LogStatus
  <2> QED
    BY <1>5, <1>7, <2>1 DEF GetLog
<1>8. CASE UNCHANGED pageState
  BY <1>5, <1>8 DEF pageState, PageInv
<1> QED
  BY <1>6, <1>7, <1>8

\* A reader that pages backwards through a log of any length gets every line
\* exactly once, with pages of any size, wherever the log has empty lines and
\* whether or not its last line is terminated.
THEOREM PagesAreTheLog == PageSpec => []PagesTileTheLog
<1>1. PageInit => PageInv
  BY PageConstants DEF PageInit, PageStart, PageInv
<1>2. PageInv => PagesTileTheLog
  <2> SUFFICES ASSUME PageInv PROVE PagesTileTheLog
    OBVIOUS
  <2>1. CASE before = 0 /\ got = {} /\ gotCount = 0
    BY <2>1, FS_EmptySet DEF PageInv, PagesTileTheLog
  <2>2. ASSUME NEW from \in 0..Size, HasFrom(from) PROVE PagesTileTheLog
    <3>1. before = 1 => from = 0
      <4>1. from \in Nat
        BY DEF PageInv, Size
      <4> QED
        BY <2>2, <4>1, FirstLine DEF HasFrom
    <3> QED
      BY <2>2, <3>1 DEF PageInv, HasFrom, PagesTileTheLog
  <2> QED
    BY <2>1, <2>2 DEF PageInv
<1> QED
  BY <1>1, <1>2, PageStep, PTL DEF PageSpec
=============================================================================

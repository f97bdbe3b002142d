----------------------------- MODULE LogStream ------------------------------
(***************************************************************************)
(* Agent logs.  Three independent machines, with variables of their own:   *)
(*  - the log router, which follows the agent's lock file with fsnotify to *)
(*    know which task's log the output also belongs to;                    *)
(*  - a rotating log file and the streamer that sends it to a browser;     *)
(*  - the HTTP handlers that page backwards through a log file.            *)
(***************************************************************************)
EXTENDS Integers, Sequences, FiniteSets

CONSTANTS
  LogTasks,     \* pairs of a task and a phase the lock may name
  MaxEvents,    \* events waiting in the router's watcher
  MaxLog,       \* chunks in a log file before it is rotated
  MaxLag,       \* chunks written between two reads of the streamer
  MaxRotations, \* rotations in a behaviour
  PageFiles,    \* log files to page through: sequences of "x" and "nl"
  PageSizes     \* the lines parameter

ASSUME LogConstants ==
  /\ MaxLag \in Nat /\ MaxLog \in Nat /\ MaxRotations \in Nat
  /\ MaxLag < MaxLog     \* the 50 ms between reads do not suffice to write a whole file
ASSUME PageConstants == PageFiles \subseteq Seq({"x", "nl"})

None == <<"", "">>       \* no task

-----------------------------------------------------------------------------
(* The log router.                                                         *)

VARIABLES
  lockFile,    \* "none", "partial" (created or truncated) or "whole"
  lockTask,    \* the task and phase a whole lock file names
  lwAt,        \* where the lock watcher is
  watching,    \* the directory is watched
  lockEvents,  \* events not yet handled
  routed,      \* the router's task and phase, and the task log that is open
  unflushed,   \* output in the buffer of the open task log
  openFailed   \* history: a task log could not be opened

routerState == <<lockFile, lockTask, lwAt, watching, lockEvents, routed, unflushed, openFailed>>

LogRouterInit ==
  /\ lockFile = "none" /\ lockTask = None
  /\ lwAt = "start" /\ watching = FALSE /\ lockEvents = <<>>
  /\ routed = [task |-> None, writer |-> None]
  /\ unflushed = FALSE /\ openFailed = FALSE

Notify(e) == lockEvents' = IF watching THEN Append(lockEvents, e) ELSE lockEvents
Room == Len(lockEvents) < MaxEvents

\* The agent: AcquireLock, the claim and other rewrites, ReleaseLock.
LockCreated ==
  /\ lockFile = "none" /\ Room
  /\ lockFile' = "partial"
  /\ Notify("change")
  /\ UNCHANGED <<lockTask, lwAt, watching, routed, unflushed, openFailed>>
LockWritten(t) ==
  /\ lockFile = "partial" /\ Room
  /\ lockFile' = "whole" /\ lockTask' = t
  /\ Notify("change")
  /\ UNCHANGED <<lwAt, watching, routed, unflushed, openFailed>>
LockTruncated ==
  /\ lockFile = "whole" /\ Room
  /\ lockFile' = "partial" /\ lockTask' = None
  /\ Notify("change")
  /\ UNCHANGED <<lwAt, watching, routed, unflushed, openFailed>>
LockRemoved ==
  /\ lockFile = "whole" /\ Room
  /\ lockFile' = "none" /\ lockTask' = None
  /\ Notify("remove")
  /\ UNCHANGED <<lwAt, watching, routed, unflushed, openFailed>>

CloseTaskLog == unflushed' = FALSE

\* The old log is closed before the new one is opened; when that fails the
\* router keeps the old task's name without its log.
SetTask(t) ==
  IF routed.task = t THEN UNCHANGED <<routed, unflushed, openFailed>>
  ELSE /\ CloseTaskLog
       /\ \/ routed' = [task |-> t, writer |-> t] /\ UNCHANGED openFailed
          \/ t # None /\ routed' = [routed EXCEPT !.writer = None] /\ openFailed' = TRUE

ReadAndUpdateLock ==
  IF lockFile = "whole" THEN SetTask(lockTask)      \* None: ClearTask
  ELSE UNCHANGED <<routed, unflushed, openFailed>>

\* Mutant: the directory is watched only when the initial read is over.
WatchesLater ==
  /\ lwAt = "start"
  /\ lwAt' = "added"
  /\ UNCHANGED <<lockFile, lockTask, watching, lockEvents, routed, unflushed, openFailed>>

\* NewLockWatcher: watch the directory, then read what is there.
AddWatch ==
  /\ lwAt = "start"
  /\ lwAt' = "added"
  /\ watching' = TRUE
  /\ UNCHANGED <<lockFile, lockTask, lockEvents, routed, unflushed, openFailed>>
InitialRead ==
  /\ lwAt = "added"
  /\ lwAt' = "read"
  /\ ReadAndUpdateLock
  /\ UNCHANGED <<lockFile, lockTask, watching, lockEvents>>
StartWatch ==
  /\ lwAt = "read"
  /\ lwAt' = "loop"
  /\ watching' = TRUE
  /\ UNCHANGED <<lockFile, lockTask, lockEvents, routed, unflushed, openFailed>>
HandleLockEvent ==
  /\ lwAt = "loop" /\ lockEvents # <<>>
  /\ lockEvents' = Tail(lockEvents)
  /\ IF Head(lockEvents) = "change" THEN ReadAndUpdateLock ELSE SetTask(None)
  /\ UNCHANGED <<lockFile, lockTask, lwAt, watching>>

RouteOutput ==
  /\ lwAt \in {"read", "loop"}
  /\ routed.writer # None
  /\ unflushed' = TRUE
  /\ UNCHANGED <<lockFile, lockTask, lwAt, watching, lockEvents, routed, openFailed>>
\* The session's output ends: Close flushes and closes the logs.
EndOfOutput ==
  /\ lwAt \in {"read", "loop"}
  /\ lwAt' = "closed"
  /\ CloseTaskLog
  /\ routed' = [routed EXCEPT !.writer = None]
  /\ watching' = FALSE /\ lockEvents' = <<>>
  /\ UNCHANGED <<lockFile, lockTask, openFailed>>

LogRouterNext ==
  \/ LockCreated \/ (\E t \in LogTasks \cup {None} : LockWritten(t))
  \/ LockTruncated \/ LockRemoved
  \/ AddWatch \/ InitialRead \/ StartWatch \/ HandleLockEvent
  \/ RouteOutput \/ EndOfOutput

LogRouterSpec == LogRouterInit /\ [][LogRouterNext]_routerState

(* The log router's knowledge of the task does not stay behind the lock    *)
(* file: once every event is handled, output goes to the log of exactly    *)
(* the task and phase the lock names (or to none), however the agent's     *)
(* rewrites, removals and the watcher's start interleave, unless a task    *)
(* log could not be opened.                                                *)
RouterFollowsLock ==
  lwAt = "loop" /\ lockEvents = <<>> /\ lockFile # "partial" /\ ~openFailed =>
    routed.writer = lockTask

-----------------------------------------------------------------------------
(* A rotating log and its streamer.  A file is a number of chunks of one   *)
(* generation; a rotation starts the next generation.                      *)

VARIABLES
  log,        \* [gen, size]: the file at the log's path
  logPresent, \* FALSE between the rename and the creation of the new file
  stream,     \* [at, size]: the streamer and the offset it has consumed
  streamed,      \* the chunks the browser has since it last started afresh
  logEvent,   \* an event of the log file is waiting
  debounce,   \* pendingRead: the debounce timer runs
  lag         \* chunks written since the streamer last read

streamState == <<log, logPresent, stream, streamed, logEvent, debounce, lag>>

LogFileInit ==
  /\ log = [gen |-> 0, size |-> 0] /\ logPresent = TRUE
  /\ stream = [at |-> "off", start |-> 0, size |-> 0]
  /\ streamed = {}
  /\ logEvent = FALSE /\ debounce = FALSE /\ lag = 0

MayWrite == stream.at = "off" \/ lag < MaxLag
Lagging == lag' = IF stream.at = "off" THEN 0 ELSE lag + 1

\* rotatingWriter.Write; a failed rotation lets the file grow past its limit.
LogWrite ==
  /\ logPresent /\ MayWrite
  /\ log.size < MaxLog + 1
  /\ log' = [log EXCEPT !.size = @ + 1]
  /\ logEvent' = TRUE
  /\ Lagging
  /\ UNCHANGED <<logPresent, stream, streamed, debounce>>
RenameToBackup ==
  /\ logPresent /\ log.size >= MaxLog /\ log.gen < MaxRotations
  /\ logPresent' = FALSE
  /\ UNCHANGED <<log, stream, streamed, logEvent, debounce, lag>>
\* The new file is opened and gets the chunk; until then writes go to the
\* renamed one.
OpenFreshFile ==
  /\ ~logPresent /\ MayWrite
  /\ logPresent' = TRUE
  /\ log' = [gen |-> log.gen + 1, size |-> 1]
  /\ logEvent' = TRUE
  /\ Lagging
  /\ UNCHANGED <<stream, streamed, debounce>>

ChunksOf(g, from, to) == {<<g, k>> : k \in (from + 1)..to}

\* Stream: send the file from the offset the browser asks for.
StreamFrom(start) ==
  /\ stream.at = "off" /\ logPresent
  /\ start <= log.size
  /\ stream' = [at |-> "live", start |-> start, size |-> log.size]
  /\ streamed' = ChunksOf(log.gen, start, log.size)
  /\ lag' = 0
  /\ UNCHANGED <<log, logPresent, logEvent, debounce>>
StreamEvent ==
  /\ stream.at = "live" /\ logEvent
  /\ logEvent' = FALSE
  /\ debounce' = TRUE
  /\ UNCHANGED <<log, logPresent, stream, streamed, lag>>

\* Mutant: a shorter file is not noticed.
NeverTruncated(size) == FALSE
FileTruncated(size) == size < stream.size

\* The debounce timer fires: readNewChunks.
ReadNewChunks ==
  /\ stream.at = "live" /\ debounce
  /\ debounce' = FALSE
  /\ IF ~logPresent THEN UNCHANGED <<stream, streamed, lag>>          \* open fails
     ELSE IF FileTruncated(log.size)
     THEN stream' = [stream EXCEPT !.start = 0, !.size = 0] /\ streamed' = {} /\ lag' = 0
     ELSE /\ stream' = [stream EXCEPT !.size = IF log.size > @ THEN log.size ELSE @]
          /\ streamed' = streamed \cup ChunksOf(log.gen, stream.size, log.size)
          /\ lag' = 0
  /\ UNCHANGED <<log, logPresent, logEvent>>
StreamCloses ==
  /\ stream.at = "live"
  /\ stream' = [at |-> "off", start |-> 0, size |-> 0]
  /\ streamed' = {}
  /\ debounce' = FALSE /\ lag' = 0
  /\ UNCHANGED <<log, logPresent, logEvent>>

LogFileNext ==
  \/ LogWrite \/ RenameToBackup \/ OpenFreshFile
  \/ (\E s \in 0..MaxLog : StreamFrom(s))
  \/ StreamEvent \/ ReadNewChunks \/ StreamCloses

LogFileSpec == LogFileInit /\ [][LogFileNext]_streamState

(* What the browser has since its last fresh start (connecting, or the     *)
(* truncated event) is one contiguous piece of one generation of the log:  *)
(* a rotation in the middle of a stream never splices the new file onto    *)
(* the old one, nor skips the new file's beginning.                        *)
StreamIsFaithful ==
  stream.at = "live" => \E g \in 0..MaxRotations : streamed = ChunksOf(g, stream.start, stream.size)

-----------------------------------------------------------------------------
(* Paging backwards through a log.  Offsets count bytes from 0; a line is  *)
(* the interval of its bytes, without its newline.                         *)

VARIABLES
  page,    \* [file, lines, valid, inDir, exists]: the log and the request
  before,  \* before_line of the next request, 0 for the first
  got,     \* the lines received
  gotCount,
  pageAt   \* "paging", or the status of the last answer

pageState == <<page, before, got, gotCount, pageAt>>

PageStart(p) == page = p /\ before = 0 /\ got = {} /\ gotCount = 0 /\ pageAt = "paging"
PageInit ==
  \E p \in [file : PageFiles, lines : PageSizes, valid : BOOLEAN, inDir : BOOLEAN,
            exists : BOOLEAN] : PageStart(p)

Newline(i) == page.file[i + 1] = "nl"
Size == Len(page.file)

\* What bufio.Scanner makes of the bytes from..(to - 1).
LinesIn(from, to) ==
  {line \in (from..to) \X (from..to) :
     LET a == line[1]
         b == line[2]
     IN  /\ a <= b
         /\ a = from \/ Newline(a - 1)
         /\ \A i \in a..(b - 1) : ~Newline(i)
         /\ IF b < to THEN Newline(b) ELSE a < b}

\* findLineByteOffset; -1 when there are fewer lines.
FindLineByteOffset(line) ==
  LET ends == {i \in 0..(Size - 1) : Newline(i) /\
                 Cardinality({j \in 0..i : Newline(j)}) = line - 1}
  IN  IF line <= 1 THEN 0 ELSE IF ends = {} THEN -1 ELSE 1 + CHOOSE i \in ends : TRUE

\* The newlines the backward scan counts.
Counts(i, end) == Newline(i) /\ i # end - 1

\* The offset at which the last n lines before end begin.
ScanBackward(end, n) ==
  LET nth == {i \in 0..(end - 1) : Counts(i, end) /\
                Cardinality({j \in i..(end - 1) : Counts(j, end)}) = n}
  IN  IF nth = {} THEN 0 ELSE 1 + CHOOSE i \in nth : TRUE

\* Mutant: the newline the page begins after is counted on its page.
StartLineOffByOne(offset) ==
  1 + Cardinality({i \in 0..(offset - 1) : Newline(i) /\ i # offset - 1})
StartLine(offset) == 1 + Cardinality({i \in 0..(offset - 1) : Newline(i)})

\* readLastNLinesFromFile: the lines and the number of the first one.
ReadLastNLines ==
  LET end == IF before = 0 THEN Size ELSE FindLineByteOffset(before)
      from == ScanBackward(end, page.lines)
  IN  IF Size = 0 \/ before = 1 THEN [lines |-> {}, start |-> 1]
      ELSE IF end < 0 THEN [lines |-> {}, start |-> before]
      ELSE [lines |-> LinesIn(from, end), start |-> StartLine(from)]

\* The statuses of handleGetAgentLog and handleGetTaskLog before they read.
LogStatus ==
  IF ~page.valid THEN "400" ELSE IF ~page.inDir THEN "500"
  ELSE IF ~page.exists THEN "404" ELSE "paging"

GetLog ==
  /\ pageAt = "paging"
  /\ IF LogStatus # "paging"
     THEN pageAt' = LogStatus /\ UNCHANGED <<before, got, gotCount>>
     ELSE /\ before' = ReadLastNLines.start
          /\ got' = got \cup ReadLastNLines.lines
          /\ gotCount' = gotCount + Cardinality(ReadLastNLines.lines)
          /\ pageAt' = IF ReadLastNLines.start <= 1 THEN "200" ELSE "paging"
  /\ UNCHANGED page

PageSpec == PageInit /\ [][GetLog]_pageState

(* A reader that asks for the last lines of a log and then for the lines   *)
(* before the first one it has gets every line exactly once, whatever the  *)
(* page size and wherever the log has empty or unterminated lines.         *)
PagesTileTheLog ==
  /\ pageAt = "200" => got = LinesIn(0, Size)
  /\ gotCount = Cardinality(got)
=============================================================================

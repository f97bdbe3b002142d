---------------------------- MODULE DaemonControl ---------------------------
(***************************************************************************)
(* "loom daemon", "loom daemon status" and "loom daemon stop" in one       *)
(* project directory (cli/daemon_cmd.go).  A starter opens daemon.lock,    *)
(* creating it, and tries an exclusive flock on what it opened; the flock  *)
(* belongs to the file, not to its path, and ends when the process does.   *)
(* Holding it the starter replaces the PID file, and the deferred calls    *)
(* take state file, PID file and lock path away again, in that order,      *)
(* before the lock is closed.  Every file system call is a step, and a     *)
(* process may be killed between any two of them.  What the daemon does    *)
(* with its agents while it runs is module Supervisor.                     *)
(***************************************************************************)
EXTENDS Naturals, FiniteSets

CONSTANTS
  Starters,       \* processes that run "loom daemon" once each; a pid is not reused
  MaxDaemonFiles, \* bound on the files that are created at the path of daemon.lock
  Nobody          \* no process

ASSUME ControlAssumption ==
  /\ Nobody \notin Starters
  /\ MaxDaemonFiles \in Nat \ {0}

VARIABLES
  starter,    \* each starter: where it is, the lock file it opened, whether it was told to stop
  lockedBy,   \* the process that holds the flock of each file
  lockPath,   \* the file at the path daemon.lock, 0 for none
  created,    \* how many lock files have been created
  pidFile,    \* the process the PID file names
  stateFile,  \* the process that wrote daemon-agents.json
  asked,      \* the status or stop command
  raced       \* history: a flock was taken on a file that was no longer at its path

controlVars == <<starter, lockedBy, lockPath, created, pidFile, stateFile, asked, raced>>

DaemonFiles == 1..MaxDaemonFiles
Owning == {"locked", "cleared", "named", "made", "running", "stopping",
           "unstate", "unpid", "unlock", "close"}
StarterSteps == {"new", "opened", "gone"} \union Owning
AskedSteps == {"idle", "read", "running", "wait", "stat", "done"}
ControlCommands == {"status", "stop", "health"} \* health: loom status and loom doctor

ControlTypeOK ==
  /\ starter \in [Starters -> [pc : StarterSteps, file : 0..MaxDaemonFiles, stop : BOOLEAN]]
  /\ lockedBy \in [DaemonFiles -> Starters \union {Nobody}]
  /\ lockPath \in 0..MaxDaemonFiles /\ created \in 0..MaxDaemonFiles
  /\ {pidFile, stateFile} \subseteq Starters \union {Nobody}
  /\ asked \in [pc : AskedSteps, kind : ControlCommands, pid : Starters \union {Nobody},
                answer : {"none", "not running", "stale", "shown", "stopped", "failed"}]
  /\ raced \in BOOLEAN

ControlInit ==
  /\ starter = [p \in Starters |-> [pc |-> "new", file |-> 0, stop |-> FALSE]]
  /\ lockedBy = [f \in DaemonFiles |-> Nobody]
  /\ lockPath = 0 /\ created = 0 /\ pidFile = Nobody /\ stateFile = Nobody
  /\ asked \in [pc : {"idle"}, kind : ControlCommands, pid : {Nobody}, answer : {"none"}]
  /\ raced = FALSE

StarterAt(p, here) == starter[p].pc = here
Goes(p, there) == starter' = [starter EXCEPT ![p].pc = there]
\* A signal 0 to the pid succeeds (lockfile.IsProcessRunning).
IsProcessRunning(p) == p # Nobody /\ starter[p].pc \notin {"new", "gone"}
\* Nobody else has locked the file (lockfile.flockExclusive).
FlockFree(f) == lockedBy[f] = Nobody
\* The kernel closes the files of a process that ends.
ReleasedBy(p) == [f \in DaemonFiles |-> IF lockedBy[f] = p THEN Nobody ELSE lockedBy[f]]

-----------------------------------------------------------------------------
(* Starting. *)

\* os.OpenFile(O_CREATE|O_RDWR) of the lock path.
OpenLockFile(p) ==
  /\ StarterAt(p, "new")
  /\ \/ /\ lockPath # 0
        /\ starter' = [starter EXCEPT ![p] = [@ EXCEPT !.pc = "opened", !.file = lockPath]]
        /\ UNCHANGED <<lockPath, created>>
     \/ /\ lockPath = 0 /\ created < MaxDaemonFiles
        /\ created' = created + 1 /\ lockPath' = created'
        /\ starter' = [starter EXCEPT ![p] = [@ EXCEPT !.pc = "opened", !.file = created']]
  /\ UNCHANGED <<lockedBy, pidFile, stateFile, asked, raced>>

\* The non-blocking flock: who does not get it prints "daemon already running" and exits.
TryLockExclusive(p) ==
  /\ StarterAt(p, "opened")
  /\ \/ /\ FlockFree(starter[p].file)
        /\ lockedBy' = [lockedBy EXCEPT ![starter[p].file] = p]
        /\ raced' = (raced \/ starter[p].file # lockPath)
        /\ Goes(p, "locked")
     \/ /\ ~FlockFree(starter[p].file)
        /\ Goes(p, "gone")
        /\ UNCHANGED <<lockedBy, raced>>
  /\ UNCHANGED <<lockPath, created, pidFile, stateFile, asked>>

\* The daemon's pid is written into the lock file it holds, which none of these commands
\* reads, and the PID file of an earlier daemon is removed.
RemoveStalePIDFile(p) ==
  /\ StarterAt(p, "locked") /\ Goes(p, "cleared")
  /\ pidFile' = Nobody
  /\ UNCHANGED <<lockedBy, lockPath, created, stateFile, asked, raced>>

\* Written to a temporary file and renamed.  A failure exits without the deferred calls.
WritePIDFile(p) ==
  /\ StarterAt(p, "cleared")
  /\ \/ Goes(p, "named") /\ pidFile' = p /\ UNCHANGED lockedBy
     \/ Goes(p, "gone") /\ lockedBy' = ReleasedBy(p) /\ UNCHANGED pidFile
  /\ UNCHANGED <<lockPath, created, stateFile, asked, raced>>

\* The signal handler is installed and the daemon built; when that fails the process exits
\* without the deferred calls and leaves PID file and lock file behind.
NewDaemon(p) ==
  /\ StarterAt(p, "named")
  /\ \/ Goes(p, "made") /\ UNCHANGED lockedBy
     \/ Goes(p, "gone") /\ lockedBy' = ReleasedBy(p)
  /\ UNCHANGED <<lockPath, created, pidFile, stateFile, asked, raced>>

\* writeStateFile, also by temporary file and rename; a failure is only a warning.
WriteStateFile(p) ==
  /\ stateFile' \in {p, stateFile}
  /\ UNCHANGED <<lockedBy, lockPath, created, pidFile, asked, raced>>

StartDaemon(p) == StarterAt(p, "made") /\ Goes(p, "running") /\ WriteStateFile(p)

\* The updater goroutine's tick, until it sees the closed shutdown channel: the select may
\* still choose a tick that is ready, and the daemon waits for the updater after Stop.
UpdateState(p) ==
  /\ starter[p].pc \in {"running", "stopping"}
  /\ UNCHANGED starter /\ WriteStateFile(p)

-----------------------------------------------------------------------------
(* Leaving. *)

\* The main goroutine is woken by the closed channel and calls daemon.Stop.
SeesShutdown(p) ==
  /\ StarterAt(p, "running") /\ starter[p].stop
  /\ Goes(p, "stopping")
  /\ UNCHANGED <<lockedBy, lockPath, created, pidFile, stateFile, asked, raced>>

\* Stop has returned and the updater is done: the deferred calls begin.
Stopped(p) ==
  /\ StarterAt(p, "stopping") /\ Goes(p, "unstate")
  /\ UNCHANGED <<lockedBy, lockPath, created, pidFile, stateFile, asked, raced>>

\* Mutant: the calls run in the order in which they are written.
ClosesFirst(p) ==
  \/ /\ StarterAt(p, "unstate") /\ Goes(p, "unpid")
     /\ lockedBy' = ReleasedBy(p) /\ UNCHANGED <<stateFile, pidFile, lockPath>>
  \/ /\ StarterAt(p, "unpid") /\ Goes(p, "unlock")
     /\ lockPath' = 0 /\ UNCHANGED <<stateFile, pidFile, lockedBy>>
  \/ /\ StarterAt(p, "unlock") /\ Goes(p, "close")
     /\ pidFile' = Nobody /\ UNCHANGED <<stateFile, lockPath, lockedBy>>
  \/ /\ StarterAt(p, "close") /\ Goes(p, "gone")
     /\ stateFile' = Nobody /\ UNCHANGED <<pidFile, lockPath, lockedBy>>

\* The deferred calls, last deferred first: the state file, the PID file and the lock path
\* are removed, whatever is there by then, and the lock file is closed at the end.
Deferred(p) ==
  \/ /\ StarterAt(p, "unstate") /\ Goes(p, "unpid")
     /\ stateFile' = Nobody /\ UNCHANGED <<pidFile, lockPath, lockedBy>>
  \/ /\ StarterAt(p, "unpid") /\ Goes(p, "unlock")
     /\ pidFile' = Nobody /\ UNCHANGED <<stateFile, lockPath, lockedBy>>
  \/ /\ StarterAt(p, "unlock") /\ Goes(p, "close")
     /\ lockPath' = 0 /\ UNCHANGED <<stateFile, pidFile, lockedBy>>
  \/ /\ StarterAt(p, "close") /\ Goes(p, "gone")
     /\ lockedBy' = ReleasedBy(p) /\ UNCHANGED <<stateFile, pidFile, lockPath>>

Leave(p) == Deferred(p) /\ UNCHANGED <<created, asked, raced>>

\* A crash, a SIGKILL, or a signal before the handler is installed.
Killed(p) ==
  /\ IsProcessRunning(p) /\ Goes(p, "gone")
  /\ lockedBy' = ReleasedBy(p)
  /\ UNCHANGED <<lockPath, created, pidFile, stateFile, asked, raced>>

\* What a SIGTERM, SIGINT or SIGHUP does to a process: the handler closes the channel and
\* then gives the signal back to its default action, which ends the process; so does a
\* signal that comes before the handler is installed.
Signal(p) ==
  \/ /\ starter[p].pc \in Owning \ {"locked", "cleared"}
     /\ starter' = [starter EXCEPT ![p].stop = TRUE]
     /\ UNCHANGED lockedBy
  \/ /\ starter[p].pc \in {"opened", "locked", "cleared", "named"} \/ starter[p].stop
     /\ Goes(p, "gone") /\ lockedBy' = ReleasedBy(p)

\* Control-C in the daemon's terminal.
Interrupt(p) ==
  /\ starter[p].pc \in Owning /\ ~starter[p].stop
  /\ Signal(p)
  /\ UNCHANGED <<lockPath, created, pidFile, stateFile, asked, raced>>

-----------------------------------------------------------------------------
(* The commands that look for the daemon, by the PID file only. *)

\* No daemon: status and stop say so, the others look whether the PID file is there.
NotRunning == IF asked.kind = "health" THEN [asked EXCEPT !.pc = "stat"]
              ELSE [asked EXCEPT !.pc = "done", !.answer = "not running"]

\* isLoomDaemonRunning reads the PID file.
ReadPIDFile ==
  /\ asked.pc = "idle"
  /\ asked' = IF pidFile = Nobody THEN NotRunning
              ELSE [asked EXCEPT !.pc = "read", !.pid = pidFile]
  /\ UNCHANGED <<starter, lockedBy, lockPath, created, pidFile, stateFile, raced>>

\* ... and asks whether that process exists.
IsLoomDaemonRunning ==
  /\ asked.pc = "read"
  /\ asked' = IF IsProcessRunning(asked.pid) THEN [asked EXCEPT !.pc = "running"] ELSE NotRunning
  /\ UNCHANGED <<starter, lockedBy, lockPath, created, pidFile, stateFile, raced>>

\* status prints what the state file holds, whichever daemon wrote it, if it is there.
RunDaemonStatus ==
  /\ asked.pc = "running" /\ asked.kind # "stop"
  /\ asked' = [asked EXCEPT !.pc = "done", !.answer = "shown"]
  /\ UNCHANGED <<starter, lockedBy, lockPath, created, pidFile, stateFile, raced>>

\* loom doctor and loom status report a PID file that is there now as stale.
CheckLoomDaemon ==
  /\ asked.pc = "stat"
  /\ asked' = [asked EXCEPT !.pc = "done",
                            !.answer = IF pidFile = Nobody THEN "not running" ELSE "stale"]
  /\ UNCHANGED <<starter, lockedBy, lockPath, created, pidFile, stateFile, raced>>

\* stop sends SIGTERM; the call fails if the process has gone meanwhile.
DaemonSIGTERM ==
  /\ asked.pc = "running" /\ asked.kind = "stop"
  /\ IF IsProcessRunning(asked.pid)
     THEN Signal(asked.pid) /\ asked' = [asked EXCEPT !.pc = "wait"]
     ELSE asked' = [asked EXCEPT !.pc = "done", !.answer = "failed"] /\ UNCHANGED <<starter, lockedBy>>
  /\ UNCHANGED <<lockPath, created, pidFile, stateFile, raced>>

\* ... and polls until the process has gone or 30 seconds have passed.
WaitForExit ==
  /\ asked.pc = "wait"
  /\ \/ ~IsProcessRunning(asked.pid) /\ asked' = [asked EXCEPT !.pc = "done", !.answer = "stopped"]
     \/ IsProcessRunning(asked.pid) /\ asked' = [asked EXCEPT !.pc = "done", !.answer = "failed"]
  /\ UNCHANGED <<starter, lockedBy, lockPath, created, pidFile, stateFile, raced>>

ControlNext ==
  \/ \E p \in Starters :
       \/ OpenLockFile(p) \/ TryLockExclusive(p) \/ RemoveStalePIDFile(p) \/ WritePIDFile(p)
       \/ NewDaemon(p) \/ StartDaemon(p) \/ UpdateState(p)
       \/ SeesShutdown(p) \/ Stopped(p) \/ Leave(p) \/ Killed(p) \/ Interrupt(p)
  \/ ReadPIDFile \/ IsLoomDaemonRunning \/ RunDaemonStatus \/ CheckLoomDaemon \/ DaemonSIGTERM \/ WaitForExit

ControlSpec == ControlInit /\ [][ControlNext]_controlVars

-----------------------------------------------------------------------------
\* "Acquire exclusive lock to prevent concurrent daemon startup" and "we hold the lock, so
\* no other daemon is running" (daemon_cmd.go): at most one process is past its flock.
\* Violated: a starter that opened the file before a leaving daemon removed its path locks
\* a file nobody else can open any more, and the next starter creates and locks another.
OneDaemon == \A p, q \in Starters : StarterAt(p, "running") /\ StarterAt(q, "running") => p = q

\* Unless a flock was taken on a removed file, daemons exclude each other from the flock until
\* they have removed its path, and the commands find the one there is: from writing its PID
\* file until Stop has returned the file names it, whatever crashed, left or gave up before or
\* beside it and whatever files that left behind.
DaemonIsFound ==
  ~raced =>
    /\ \A p, q \in Starters : {starter[p].pc, starter[q].pc} \subseteq Owning \ {"close"} => p = q
    /\ \A p \in Starters : starter[p].pc \in {"named", "made", "running", "stopping"} => pidFile = p
=============================================================================

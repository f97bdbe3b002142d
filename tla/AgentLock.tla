----------------------------- MODULE AgentLock ------------------------------
(***************************************************************************)
(* The agent lock of a worktree (.agent.lock): AcquireLock with its        *)
(* acquireLockRetry loop, ReleaseLock, the rewrites by the agent itself    *)
(* (UpdateLockState, ClearLockTaskID), the rewrite by loom claim           *)
(* (UpdateLockTask), which is a process of its own and checks no PID, and  *)
(* the removal by recovery.                                                *)
(*                                                                         *)
(* The file is a directory entry, its contents and the descriptors open on *)
(* it; every system call is one step.  A member p of Procs is an agent     *)
(* process and its PID.  When the process ends, the PID it leaves behind   *)
(* in a file or in somebody's hands is renamed Gone, and p stands for the  *)
(* next process, with a PID of its own.  PIDs are not reused.              *)
(***************************************************************************)
EXTENDS Integers, FiniteSets

CONSTANTS
  Procs,          \* the processes that run an agent in this worktree
  Claimers,       \* the processes that run loom claim in it
  Gone,           \* the PID of an agent process that has ended
  Empty,          \* contents: created or truncated, not yet written
  Torn,           \* contents: two rewrites on top of each other, unparsable
  NoProc,         \* no PID
  MaxAttempts,    \* maxRetries of acquireLockRetry
  CrashPoints,    \* the locations at which a process may die
  WithRecovery    \* whether recovery runs beside the agents

PIDs == Procs \union {Gone}

ASSUME AgentLockConstants ==
  /\ \A p \in Procs \union Claimers : p \notin {Gone, Empty, Torn, NoProc}
  /\ \A p \in Procs : p \notin Claimers
  /\ Gone \notin {Empty, Torn, NoProc} /\ Empty \notin {Torn, NoProc} /\ Torn # NoProc
  /\ MaxAttempts \in Nat \ {0}
  /\ WithRecovery \in BOOLEAN

VARIABLES
  inode,     \* who created the file at the lock path, NoProc: there is none
  contents,  \* the contents of that file
  writers,   \* the processes that have that file open for writing
  pc,        \* control location of each agent process
  attempt,   \* the attempt of acquireLockRetry a process is in
  claim,     \* location of each loom claim, and the PID it has read
  recovery,  \* location of RecoverWorktree, and the PID it found
  strayed    \* history: an agent ended while a loom claim or a recovery had
             \* its PID in hand

vars == <<inode, contents, writers, pc, attempt, claim, recovery, strayed>>

Locations ==
  {"start", "check", "create", "remove", "write", "held", "truncate",
   "rewrite", "unlink", "dead"}

(* The locations at which AcquireLock has returned nil.                    *)
Holding == {"held", "truncate", "rewrite", "unlink"}

(* lockfile.IsProcessRunning: signal 0.                                    *)
AlwaysAlive(p) == p \in PIDs
NeverAlive(p) == FALSE
Alive(p) == p \in Procs /\ pc[p] # "dead"

(* CheckLock: no file and unparsable contents both read as "no lock".      *)
CheckLock ==
  IF inode = NoProc \/ contents \in {Empty, Torn} THEN NoProc ELSE contents

Init ==
  /\ inode = NoProc
  /\ contents = Empty
  /\ writers = {}
  /\ pc = [p \in Procs |-> "start"]
  /\ attempt = [p \in Procs |-> 0]
  /\ claim = [c \in Claimers |-> [at |-> "idle", pid |-> NoProc]]
  /\ recovery = [at |-> "idle", pid |-> NoProc]
  /\ strayed = FALSE

Goto(p, l) == pc' = [pc EXCEPT ![p] = l]

(* os.OpenFile(O_CREATE|O_EXCL) when nothing is at the path.               *)
CreateFile(p) ==
  /\ inode = NoProc
  /\ inode' = p
  /\ contents' = Empty
  /\ writers' = {p}

(* os.WriteFile opens with O_CREATE and O_TRUNC ...                        *)
OpenTruncate(w) ==
  /\ inode' = IF inode = NoProc THEN w ELSE inode
  /\ contents' = Empty
  /\ writers' = writers \union {w}

(* ... and writes: into nowhere when the file has been removed since, over *)
(* the beginning of what another writer has written since.  If that was    *)
(* longer, its tail stays and the whole is no JSON.                        *)
WriteFd(w, pid) ==
  /\ \/ w \notin writers /\ UNCHANGED contents
     \/ w \in writers /\ contents' = pid
     \/ w \in writers /\ contents # Empty /\ contents' = Torn
  /\ writers' = writers \ {w}
  /\ UNCHANGED inode

Unlink == inode' = NoProc /\ contents' = Empty /\ writers' = {}

(* An agent process that had the lock ends: its PID is nobody's now.       *)
Renamed(x, p) == IF x = p THEN Gone ELSE x
EndSession(p) ==
  /\ Goto(p, "start")
  /\ claim' = [c \in Claimers |-> [claim[c] EXCEPT !.pid = Renamed(@, p)]]
  /\ recovery' = [recovery EXCEPT !.pid = Renamed(@, p)]
  /\ strayed' = (strayed \/ recovery.pid = p \/ \E c \in Claimers : claim[c].pid = p)

-----------------------------------------------------------------------------
(* AcquireLock.                                                            *)

OpenExclusive(p) ==
  /\ pc[p] = "start"
  /\ \/ CreateFile(p) /\ Goto(p, "write") /\ UNCHANGED attempt
     \/ /\ inode # NoProc
        /\ Goto(p, "check")
        /\ attempt' = [attempt EXCEPT ![p] = 1]
        /\ UNCHANGED <<inode, contents, writers>>
  /\ UNCHANGED <<claim, recovery, strayed>>

(* One attempt of acquireLockRetry begins with CheckLock.  A rejected      *)
(* agent exits, its PID is in no file; the next one to try starts over.    *)
CheckExisting(p) ==
  /\ pc[p] = "check"
  /\ \/ CheckLock = NoProc /\ Goto(p, "create")
     \/ CheckLock # NoProc /\ Alive(CheckLock) /\ Goto(p, "start")
     \/ CheckLock # NoProc /\ ~Alive(CheckLock) /\ Goto(p, "remove")
  /\ UNCHANGED <<inode, contents, writers, attempt, claim, recovery, strayed>>

RemoveStale(p) ==
  /\ pc[p] = "remove"
  /\ Unlink
  /\ Goto(p, "create")
  /\ UNCHANGED <<attempt, claim, recovery, strayed>>

(* acquireLockRetry's loop condition.                                      *)
AttemptsLeft(p) == attempt[p] < MaxAttempts

CreateExclusive(p) ==
  /\ pc[p] = "create"
  /\ \/ CreateFile(p) /\ Goto(p, "write") /\ UNCHANGED attempt
     \/ /\ inode # NoProc
        /\ IF AttemptsLeft(p)
           THEN /\ attempt' = [attempt EXCEPT ![p] = @ + 1]
                /\ Goto(p, "check")
           ELSE Goto(p, "start") /\ UNCHANGED attempt
        /\ UNCHANGED <<inode, contents, writers>>
  /\ UNCHANGED <<claim, recovery, strayed>>

WriteInfo(p) ==
  /\ pc[p] = "write"
  /\ WriteFd(p, p)
  /\ Goto(p, "held")
  /\ UNCHANGED <<attempt, claim, recovery, strayed>>

-----------------------------------------------------------------------------
(* The agent rewrites its lock (UpdateLockState, ClearLockTaskID): read,   *)
(* give up on a foreign PID, os.WriteFile.                                 *)

ReadOwnLock(p) ==
  /\ pc[p] = "held"
  /\ CheckLock = p
  /\ Goto(p, "truncate")
  /\ UNCHANGED <<inode, contents, writers, attempt, claim, recovery, strayed>>

Truncate(p) ==
  /\ pc[p] = "truncate"
  /\ OpenTruncate(p)
  /\ Goto(p, "rewrite")
  /\ UNCHANGED <<attempt, claim, recovery, strayed>>

Rewrite(p) ==
  /\ pc[p] = "rewrite"
  /\ WriteFd(p, p)
  /\ Goto(p, "held")
  /\ UNCHANGED <<attempt, claim, recovery, strayed>>

(* ReleaseLock: removes the file only after having read its own PID.       *)
CheckOwner(p) ==
  /\ pc[p] = "held"
  /\ \/ CheckLock = p /\ Goto(p, "unlink") /\ UNCHANGED <<contents, claim, recovery, strayed>>
     \/ CheckLock # p /\ EndSession(p) /\ contents' = Renamed(contents, p)
  /\ UNCHANGED <<inode, writers, attempt>>

RemoveOwn(p) ==
  /\ pc[p] = "unlink"
  /\ Unlink
  /\ EndSession(p)
  /\ UNCHANGED attempt

-----------------------------------------------------------------------------
(* loom claim (UpdateLockTask): writes back whatever PID it has read, and  *)
(* outlives the agent whose session started it.                            *)

ClaimAt(c, l, pid) == claim' = [claim EXCEPT ![c] = [at |-> l, pid |-> pid]]

ClaimReads(c) ==
  /\ claim[c].at = "idle"
  /\ CheckLock # NoProc
  /\ ClaimAt(c, "truncate", CheckLock)
  /\ UNCHANGED <<inode, contents, writers, pc, attempt, recovery, strayed>>

ClaimTruncates(c) ==
  /\ claim[c].at = "truncate"
  /\ OpenTruncate(c)
  /\ ClaimAt(c, "rewrite", claim[c].pid)
  /\ UNCHANGED <<pc, attempt, recovery, strayed>>

ClaimWritesOwnPID(c) ==
  /\ claim[c].at = "rewrite"
  /\ WriteFd(c, Gone)
  /\ ClaimAt(c, "idle", NoProc)
  /\ UNCHANGED <<pc, attempt, recovery, strayed>>

ClaimWrites(c) ==
  /\ claim[c].at = "rewrite"
  /\ WriteFd(c, claim[c].pid)
  /\ ClaimAt(c, "idle", NoProc)
  /\ UNCHANGED <<pc, attempt, recovery, strayed>>

(* A process dies; what it has written stays.                              *)
Crash(p) ==
  /\ pc[p] \in CrashPoints
  /\ Goto(p, "dead")
  /\ UNCHANGED <<inode, contents, writers, attempt, claim, recovery, strayed>>

ClaimDies(c) ==
  /\ claim[c].at \in CrashPoints
  /\ ClaimAt(c, "dead", NoProc)
  /\ UNCHANGED <<inode, contents, writers, pc, attempt, recovery, strayed>>

-----------------------------------------------------------------------------
(* RecoverWorktree, steps 1 to 3: check, kill the owner, remove the file.  *)

RecoverCheck ==
  /\ WithRecovery /\ recovery.at = "idle"
  /\ CheckLock # NoProc
  /\ recovery' = [at |-> IF Alive(CheckLock) THEN "kill" ELSE "remove",
                  pid |-> CheckLock]
  /\ UNCHANGED <<inode, contents, writers, pc, attempt, claim, strayed>>

(* killProcess: a process that has ended since (ESRCH) counts as killed.   *)
RecoverKill ==
  /\ recovery.at = "kill"
  /\ \/ recovery.pid = Gone /\ UNCHANGED pc
     \/ recovery.pid # Gone /\ Goto(recovery.pid, "dead")
  /\ recovery' = [recovery EXCEPT !.at = "remove"]
  /\ UNCHANGED <<inode, contents, writers, attempt, claim, strayed>>

ForceReleaseLock ==
  /\ recovery.at = "remove"
  /\ Unlink
  /\ recovery' = [at |-> "idle", pid |-> NoProc]
  /\ UNCHANGED <<pc, attempt, claim, strayed>>

-----------------------------------------------------------------------------
AcquireLock(p) ==
  \/ OpenExclusive(p) \/ CheckExisting(p) \/ RemoveStale(p)
  \/ CreateExclusive(p) \/ WriteInfo(p)

UpdateLock(p) == ReadOwnLock(p) \/ Truncate(p) \/ Rewrite(p)

UpdateLockTask(c) == ClaimReads(c) \/ ClaimTruncates(c) \/ ClaimWrites(c)

ReleaseLock(p) == CheckOwner(p) \/ RemoveOwn(p)

Recover == RecoverCheck \/ RecoverKill \/ ForceReleaseLock

Next ==
  \/ \E p \in Procs :
        AcquireLock(p) \/ UpdateLock(p) \/ ReleaseLock(p) \/ Crash(p)
  \/ \E c \in Claimers : UpdateLockTask(c) \/ ClaimDies(c)
  \/ Recover

Spec == Init /\ [][Next]_vars

(* An agent that runs goes on through AcquireLock and through the middle   *)
(* of a system call sequence, and a recovery that has begun ends; nobody   *)
(* has to die, to rewrite, to release or to call recovery.                 *)
Fairness ==
  /\ \A p \in Procs :
        /\ WF_vars(AcquireLock(p))
        /\ WF_vars(Truncate(p) \/ Rewrite(p) \/ RemoveOwn(p))
  /\ WF_vars(RecoverKill \/ ForceReleaseLock)

FairSpec == Spec /\ Fairness

-----------------------------------------------------------------------------
(* Properties.                                                             *)

(* The type invariant of the lock protocol.                                *)
TypeOK ==
  /\ inode \in Procs \union Claimers \union {NoProc}
  /\ contents \in PIDs \union {Empty, Torn}
  /\ writers \subseteq Procs \union Claimers
  /\ pc \in [Procs -> Locations]
  /\ attempt \in [Procs -> 0..MaxAttempts]
  /\ claim \in [Claimers -> [at : {"idle", "truncate", "rewrite", "dead"},
                             pid : PIDs \union {NoProc}]]
  /\ recovery \in [at : {"idle", "kill", "remove"},
                   pid : PIDs \union {NoProc}]
  /\ strayed \in BOOLEAN

(* "Returns an error if an agent is already running.  Uses atomic file     *)
(* creation (O_EXCL) to prevent race conditions" (AcquireLock): two live   *)
(* processes never both hold the lock of a worktree.                       *)
MutualExclusion ==
  \A p, q \in Procs : pc[p] \in Holding /\ pc[q] \in Holding => p = q

(* As long as no process has died and no agent ended under a loom claim or *)
(* a recovery that had read its PID, the retries, the agent's own rewrites *)
(* and those of any number of loom claims beside them do not let a second  *)
(* process in: a holder's file is the one at the path, and names it, is    *)
(* being rewritten, or was rewritten by two at once and names nobody.      *)
NoDeath ==
  (\A p \in Procs : pc[p] # "dead") /\ (\A c \in Claimers : claim[c].at # "dead")
Calm == NoDeath /\ ~strayed
Rewriting(p) == pc[p] = "rewrite" \/ \E c \in Claimers : claim[c].at = "rewrite"
HolderOwnsFile ==
  Calm => \A p \in Procs : pc[p] \in Holding =>
     /\ inode = p
     /\ contents \in {p, Torn} \/ (Rewriting(p) /\ contents = Empty)

(* Dead owners do not lock a worktree for ever: if from some point on all  *)
(* other processes are dead and no loom claim is under way, a process that *)
(* keeps trying gets the lock, also after claims that put an old PID back. *)
(* This needs CrashPoints without "write" and "rewrite", and no torn file: *)
(* contents that are no JSON are "no lock" to CheckLock, never removed,    *)
(* and O_EXCL fails.                                                       *)
DeadOwnersGiveWay ==
  \A p \in Procs :
     <>[](/\ pc[p] # "dead" /\ \A q \in Procs \ {p} : pc[q] = "dead"
          /\ \A c \in Claimers : claim[c].at \in {"idle", "dead"}
          /\ contents # Torn)
       => <>(pc[p] \in Holding)

=============================================================================

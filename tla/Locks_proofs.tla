---------------------------- MODULE Locks_proofs ----------------------------
(***************************************************************************)
(* Theorems about the two lock files: the agent lock of a worktree, made   *)
(* with O_EXCL, and the daemon's flock with its PID file.  They hold for   *)
(* any number of processes, attempts and files, and for every choice of    *)
(* the points at which a process may die.                                  *)
(***************************************************************************)
EXTENDS AgentLock, DaemonControl, TLAPS

-----------------------------------------------------------------------------
(* The agent lock.                                                         *)

(* A loom claim that is about to write back a PID has read one: without    *)
(* this the types are not inductive, a rewrite could write none.           *)
ClaimInv == \A c \in Claimers : claim[c].at \in {"truncate", "rewrite"} => claim[c].pid \in PIDs

LockTypes == TypeOK /\ ClaimInv

(* The initial state of the lock protocol is well typed.                   *)
LEMMA LockInitType == Init => LockTypes
<1> SUFFICES ASSUME Init PROVE LockTypes  OBVIOUS
<1>1. 0 \in 0..MaxAttempts  BY AgentLockConstants
<1>2. claim \in [Claimers -> [at : {"idle", "truncate", "rewrite", "dead"}, pid : PIDs \union {NoProc}]]
      BY DEF Init
<1>3. ClaimInv  BY DEF Init, ClaimInv
<1> QED  BY <1>1, <1>2, <1>3 DEF Init, TypeOK, Locations, LockTypes

(* What CheckLock returns is a PID or none.                                *)
LEMMA CheckLockType ==
  ASSUME TypeOK
  PROVE  /\ CheckLock \in PIDs \union {NoProc}
         /\ CheckLock # NoProc => inode # NoProc /\ contents = CheckLock
         /\ CheckLock = NoProc \/ CheckLock \in PIDs
BY AgentLockConstants DEF TypeOK, CheckLock, PIDs

(* Every step of an agent, of a loom claim, of recovery or of a crash      *)
(* keeps the types.                                                        *)
LEMMA LockStepType == LockTypes /\ [Next]_vars => LockTypes'
<1> SUFFICES ASSUME LockTypes, [Next]_vars PROVE LockTypes'  OBVIOUS
<1> TypeOK  BY DEF LockTypes
<1> USE AgentLockConstants, CheckLockType DEF LockTypes, ClaimInv
<1>1. ASSUME NEW p \in Procs, AcquireLock(p) PROVE LockTypes'
  <2>1. CASE OpenExclusive(p)
        BY <2>1 DEF TypeOK, OpenExclusive, CreateFile, Goto, Locations
  <2>2. CASE CheckExisting(p)
        BY <2>2 DEF TypeOK, CheckExisting, Goto, Locations
  <2>3. CASE RemoveStale(p)
        BY <2>3 DEF TypeOK, RemoveStale, Unlink, Goto, Locations
  <2>4. CASE CreateExclusive(p)
        BY <2>4 DEF TypeOK, CreateExclusive, CreateFile, AttemptsLeft, Goto, Locations
  <2>5. CASE WriteInfo(p)
        BY <2>5 DEF TypeOK, WriteInfo, WriteFd, Goto, Locations, PIDs
  <2> QED  BY <1>1, <2>1, <2>2, <2>3, <2>4, <2>5 DEF AcquireLock
<1>2. ASSUME NEW p \in Procs, UpdateLock(p) PROVE LockTypes'
  <2>1. CASE ReadOwnLock(p)
        BY <2>1 DEF TypeOK, ReadOwnLock, Goto, Locations
  <2>2. CASE Truncate(p)
        BY <2>2 DEF TypeOK, Truncate, OpenTruncate, Goto, Locations
  <2>3. CASE Rewrite(p)
        BY <2>3 DEF TypeOK, Rewrite, WriteFd, Goto, Locations, PIDs
  <2> QED  BY <1>2, <2>1, <2>2, <2>3 DEF UpdateLock
<1>3. ASSUME NEW p \in Procs, EndSession(p), UNCHANGED attempt,
             inode' \in Procs \union Claimers \union {NoProc},
             contents' \in PIDs \union {Empty, Torn},
             writers' \subseteq Procs \union Claimers
      PROVE  LockTypes'
  <2>1. pc' \in [Procs -> Locations] /\ attempt' \in [Procs -> 0..MaxAttempts]
        BY <1>3 DEF EndSession, TypeOK, Goto, Locations
  <2>2. claim' \in [Claimers -> [at : {"idle", "truncate", "rewrite", "dead"}, pid : PIDs \union {NoProc}]]
        BY <1>3 DEF EndSession, TypeOK, Renamed, PIDs
  <2>3. recovery' \in [at : {"idle", "kill", "remove"}, pid : PIDs \union {NoProc}]
        BY <1>3 DEF EndSession, TypeOK, Renamed, PIDs
  <2>4. strayed' \in BOOLEAN  BY <1>3 DEF EndSession
  <2>5. ClaimInv'
        BY <1>3 DEF EndSession, TypeOK, Renamed, PIDs
  <2> QED  BY <1>3, <2>1, <2>2, <2>3, <2>4, <2>5 DEF TypeOK
<1>4. ASSUME NEW p \in Procs, ReleaseLock(p) \/ Crash(p) PROVE LockTypes'
  <2>1. CASE CheckOwner(p) /\ CheckLock = p
        BY <2>1, AgentLockConstants DEF TypeOK, CheckOwner, Goto, Locations, EndSession
  <2>2. CASE CheckOwner(p) /\ CheckLock # p
    <3>1. EndSession(p) /\ UNCHANGED <<inode, writers, attempt>> /\ contents' = Renamed(contents, p)
          BY <2>2 DEF CheckOwner
    <3> QED  BY <1>3, <3>1 DEF TypeOK, Renamed, PIDs
  <2>3. CASE RemoveOwn(p)
        BY <1>3, <2>3 DEF TypeOK, RemoveOwn, Unlink
  <2>4. CASE Crash(p)
        BY <2>4 DEF TypeOK, Crash, Goto, Locations
  <2> QED  BY <1>4, <2>1, <2>2, <2>3, <2>4 DEF ReleaseLock
<1>5. ASSUME NEW c \in Claimers, UpdateLockTask(c) \/ ClaimDies(c) PROVE LockTypes'
  <2>1. CASE ClaimReads(c)
        BY <2>1 DEF TypeOK, ClaimReads, ClaimAt
  <2>2. CASE ClaimTruncates(c)
        BY <2>2 DEF TypeOK, ClaimTruncates, OpenTruncate, ClaimAt
  <2>3. CASE ClaimWrites(c)
        BY <2>3 DEF TypeOK, ClaimWrites, WriteFd, ClaimAt
  <2>4. CASE ClaimDies(c)
        BY <2>4 DEF TypeOK, ClaimDies, ClaimAt
  <2> QED  BY <1>5, <2>1, <2>2, <2>3, <2>4 DEF UpdateLockTask
<1>6. CASE Recover
      BY <1>6 DEF TypeOK, Recover, RecoverCheck, RecoverKill, ForceReleaseLock, Unlink, Goto, Locations
<1>7. CASE UNCHANGED vars  BY <1>7 DEF vars, TypeOK
<1> QED  BY <1>1, <1>2, <1>4, <1>5, <1>6, <1>7 DEF Next

(* Between opening the file exclusively and removing it a process is the   *)
(* owner of the file at the path.                                          *)
OwnsPath == {"write"} \union Holding

(* What a holder's file says of it.                                        *)
NamesHolder(p) == contents \in {p, Torn} \/ (Rewriting(p) /\ contents = Empty)

(* What the lock protocol keeps while nobody has died and nobody's PID has *)
(* strayed.  A file is there only while the process that created it is     *)
(* between its O_EXCL and its removal, or is torn and will never be        *)
(* anybody's again; every loom claim in progress has the holder's PID in   *)
(* hand and the holder's file open; so whatever a rewrite puts back is the *)
(* holder's PID, and neither a retry nor recovery is about to remove a     *)
(* file, because the PID they read was never a dead one.                   *)
LockInv ==
  Calm =>
    /\ recovery.at # "remove"
    /\ recovery.at = "kill" => recovery.pid \in Procs
    /\ inode # NoProc => inode \in Procs /\ (pc[inode] \in OwnsPath \/ contents = Torn)
    /\ \A c \in Claimers :
         /\ claim[c].at \in {"truncate", "rewrite"} =>
               claim[c].pid \in Procs /\ pc[claim[c].pid] \in Holding
         /\ claim[c].at = "rewrite" => c \in writers
    /\ \A p \in Procs :
         /\ pc[p] # "remove"
         /\ pc[p] \in OwnsPath => inode = p
         /\ pc[p] = "write" => contents = Empty
         /\ pc[p] \in {"write", "rewrite"} => p \in writers
         /\ pc[p] \in Holding => NamesHolder(p)

(* LockInv is what HolderOwnsFile needs.                                   *)
LEMMA LockInvOwns == LockInv => HolderOwnsFile
BY DEF LockInv, HolderOwnsFile, OwnsPath, Holding, NamesHolder

(* Nobody comes back to life, and what has strayed stays so.               *)
LEMMA CalmIsNew ==
  ASSUME TypeOK, [Next]_vars, Calm'
  PROVE  Calm
<1>1. ASSUME NEW p \in Procs, AcquireLock(p) PROVE Calm
      BY <1>1 DEF Calm, NoDeath, TypeOK, AcquireLock, OpenExclusive, CheckExisting, RemoveStale,
                  CreateExclusive, WriteInfo, Goto
<1>2. ASSUME NEW p \in Procs, UpdateLock(p) PROVE Calm
      BY <1>2 DEF Calm, NoDeath, TypeOK, UpdateLock, ReadOwnLock, Truncate, Rewrite, Goto
<1>3. ASSUME NEW p \in Procs, ReleaseLock(p) \/ Crash(p) PROVE Calm
  <2>1. CASE EndSession(p) /\ pc[p] # "dead"
        BY <2>1 DEF Calm, NoDeath, TypeOK, EndSession, Goto
  <2>2. CASE CheckOwner(p) /\ ~EndSession(p)
        BY <2>2 DEF Calm, NoDeath, TypeOK, CheckOwner, Goto
  <2>3. CASE Crash(p)
        BY <2>3 DEF Calm, NoDeath, TypeOK, Crash, Goto
  <2> QED  BY <1>3, <2>1, <2>2, <2>3 DEF ReleaseLock, CheckOwner, RemoveOwn
<1>4. ASSUME NEW c \in Claimers, UpdateLockTask(c) \/ ClaimDies(c) PROVE Calm
      BY <1>4 DEF Calm, NoDeath, TypeOK, UpdateLockTask, ClaimReads, ClaimTruncates, ClaimWrites, ClaimDies,
                  ClaimAt
<1>5. CASE Recover
      BY <1>5 DEF Calm, NoDeath, TypeOK, Recover, RecoverCheck, RecoverKill, ForceReleaseLock, Goto
<1>6. CASE UNCHANGED vars  BY <1>6 DEF vars, Calm, NoDeath
<1> QED  BY <1>1, <1>2, <1>3, <1>4, <1>5, <1>6 DEF Next

(* What the file at the path says, while all is calm: nothing, or the PID  *)
(* of the one process that owns it.                                        *)
LEMMA LockIsHolders ==
  ASSUME TypeOK, LockInv, Calm, CheckLock # NoProc
  PROVE  CheckLock \in Procs /\ pc[CheckLock] \in Holding /\ inode = CheckLock
<1>1. inode \in Procs /\ pc[inode] \in OwnsPath /\ contents \notin {Empty, Torn} /\ contents = CheckLock
      BY AgentLockConstants, CheckLockType DEF LockInv, CheckLock
<1>2. pc[inode] \in Holding  BY <1>1, AgentLockConstants DEF LockInv, OwnsPath
<1> QED  BY <1>1, <1>2, AgentLockConstants DEF LockInv, NamesHolder

(* A step of an agent, of a loom claim, of recovery or of a crash keeps    *)
(* LockInv.                                                                *)
LEMMA LockStepInv == TypeOK /\ LockInv /\ [Next]_vars => LockInv'
<1> SUFFICES ASSUME TypeOK, LockInv, [Next]_vars, Calm' PROVE LockInv'
    BY DEF LockInv
<1>0. Calm  BY CalmIsNew
<1> USE <1>0, AgentLockConstants
<1>1. ASSUME NEW p \in Procs, AcquireLock(p) PROVE LockInv'
  <2>1. CASE pc[p] \in {"start", "create"} /\ CreateFile(p) /\ Goto(p, "write") /\ UNCHANGED <<claim, recovery>>
        BY <2>1 DEF LockInv, TypeOK, CreateFile, Goto, OwnsPath, Holding, NamesHolder, Rewriting
  <2>2. CASE /\ pc[p] \notin OwnsPath
             /\ \E l \in {"start", "check", "create"} : Goto(p, l)
             /\ UNCHANGED <<inode, contents, writers, claim, recovery>>
        BY <2>2 DEF LockInv, TypeOK, Goto, OwnsPath, Holding, NamesHolder, Rewriting
  <2>3. CASE OpenExclusive(p)
        BY <2>1, <2>2, <2>3 DEF OpenExclusive, OwnsPath, Holding
  <2>4. CASE CheckExisting(p)
    <3>1. CheckLock # NoProc => Alive(CheckLock)  BY LockIsHolders DEF Alive, Holding
    <3> QED  BY <2>2, <2>4, <3>1 DEF CheckExisting, OwnsPath, Holding
  <2>5. CASE RemoveStale(p)
        BY <2>5 DEF LockInv, RemoveStale
  <2>6. CASE CreateExclusive(p)
        BY <2>1, <2>2, <2>6 DEF CreateExclusive, OwnsPath, Holding
  <2>7. CASE WriteInfo(p)
    <3>1. inode = p /\ p \in writers /\ contents = Empty  BY <2>7 DEF LockInv, WriteInfo, OwnsPath
    <3>2. contents' = p /\ writers' = writers \ {p} /\ UNCHANGED <<inode, claim, recovery>> /\ Goto(p, "held")
          BY <2>7, <3>1 DEF WriteInfo, WriteFd
    <3> QED  BY <2>7, <3>1, <3>2 DEF LockInv, TypeOK, WriteInfo, Goto, OwnsPath, Holding, NamesHolder, Rewriting
  <2> QED  BY <1>1, <2>3, <2>4, <2>5, <2>6, <2>7 DEF AcquireLock
<1>2. ASSUME NEW p \in Procs, UpdateLock(p) PROVE LockInv'
  <2>1. CASE ReadOwnLock(p)
        BY <2>1 DEF LockInv, TypeOK, ReadOwnLock, Goto, OwnsPath, Holding, NamesHolder, Rewriting
  <2>2. CASE Truncate(p)
        BY <2>2 DEF LockInv, TypeOK, Truncate, OpenTruncate, Goto, OwnsPath, Holding, NamesHolder, Rewriting
  <2>3. CASE Rewrite(p)
    <3>1. inode = p /\ p \in writers  BY <2>3 DEF LockInv, Rewrite, OwnsPath, Holding
    <3>2. /\ contents' \in {p, Torn} /\ writers' = writers \ {p} /\ Goto(p, "held")
          /\ UNCHANGED <<inode, claim, recovery>>
          BY <2>3, <3>1 DEF Rewrite, WriteFd
    <3> QED  BY <2>3, <3>1, <3>2 DEF LockInv, TypeOK, Rewrite, Goto, OwnsPath, Holding, NamesHolder, Rewriting
  <2> QED  BY <1>2, <2>1, <2>2, <2>3 DEF UpdateLock
<1>3. ASSUME NEW p \in Procs, EndSession(p), pc[p] \in {"held", "unlink"},
             inode' = NoProc \/ (inode' = inode /\ contents = Torn /\ contents' = Torn)
      PROVE  LockInv'
  (* Nobody has p's PID in hand, so no loom claim is in progress at all.   *)
  <2>1. inode = p  BY <1>3 DEF LockInv, OwnsPath, Holding
  <2>2. \A c \in Claimers : claim[c].at \notin {"truncate", "rewrite"} /\ claim'[c].at = claim[c].at
    <3>1. \A c \in Claimers : claim[c].pid # p /\ claim'[c].at = claim[c].at
          BY <1>3 DEF EndSession, Calm, TypeOK
    <3> QED  BY <2>1, <3>1 DEF LockInv, OwnsPath
  <2>3. recovery' = recovery
        BY <1>3 DEF EndSession, Calm, Renamed, TypeOK
  <2>4. \A q \in Procs : pc[q] \in OwnsPath => q = p  BY <2>1 DEF LockInv
  <2>5. pc' = [pc EXCEPT ![p] = "start"]  BY <1>3 DEF EndSession, Goto
  <2>6. \A q \in Procs : pc'[q] \notin OwnsPath  BY <2>4, <2>5 DEF TypeOK, OwnsPath, Holding
  <2> QED  BY <1>3, <2>1, <2>2, <2>3, <2>5, <2>6 DEF LockInv, TypeOK, OwnsPath, Holding
<1>4. ASSUME NEW p \in Procs, ReleaseLock(p) PROVE LockInv'
  <2>1. CASE CheckOwner(p) /\ CheckLock = p
        BY <2>1 DEF LockInv, TypeOK, CheckOwner, Goto, OwnsPath, Holding, NamesHolder, Rewriting
  <2>2. CASE CheckOwner(p) /\ CheckLock # p
    <3>1. EndSession(p) /\ pc[p] = "held" /\ inode' = inode /\ contents' = Renamed(contents, p)
          BY <2>2 DEF CheckOwner
    (* An empty file would be one that a loom claim is writing p's PID to. *)
    <3>2. inode = p /\ NamesHolder(p)  BY <3>1 DEF LockInv, OwnsPath, Holding
    <3>3. contents # p  BY <2>2, <3>2 DEF CheckLock
    <3>4. ASSUME NEW c \in Claimers, claim[c].at = "rewrite" PROVE FALSE
      <4>1. claim[c].pid = p  BY <3>2, <3>4 DEF LockInv, OwnsPath
      <4> QED  BY <3>1, <4>1 DEF EndSession, Calm
    <3>5. contents = Torn  BY <3>1, <3>2, <3>3, <3>4 DEF NamesHolder, Rewriting
    <3> QED  BY <1>3, <3>1, <3>5 DEF Renamed
  <2>3. CASE RemoveOwn(p)
        BY <1>3, <2>3 DEF RemoveOwn, Unlink
  <2> QED  BY <1>4, <2>1, <2>2, <2>3 DEF ReleaseLock
<1>5. ASSUME NEW p \in Procs, Crash(p) PROVE LockInv'
      BY <1>5 DEF TypeOK, Crash, Goto, Calm, NoDeath
<1>6. ASSUME NEW c \in Claimers, UpdateLockTask(c) PROVE LockInv'
  <2>1. CASE ClaimReads(c)
    <3>1. CheckLock \in Procs /\ pc[CheckLock] \in Holding  BY <2>1, LockIsHolders DEF ClaimReads
    <3> QED  BY <2>1, <3>1 DEF LockInv, TypeOK, ClaimReads, ClaimAt, OwnsPath, NamesHolder, Rewriting
  <2>2. CASE ClaimTruncates(c)
    <3>1. claim[c].pid \in Procs /\ inode = claim[c].pid /\ pc[inode] \in Holding
          BY <2>2 DEF LockInv, ClaimTruncates, OwnsPath
    <3>2. /\ inode' = inode /\ contents' = Empty /\ writers' = writers \union {c}
          /\ claim' = [claim EXCEPT ![c] = [at |-> "rewrite", pid |-> claim[c].pid]]
          /\ UNCHANGED <<pc, recovery>>
          BY <2>2, <3>1 DEF ClaimTruncates, OpenTruncate, ClaimAt
    <3>3. claim'[c].at = "rewrite"  BY <3>2 DEF TypeOK
    <3> QED  BY <3>1, <3>2, <3>3 DEF LockInv, TypeOK, OwnsPath, Holding, NamesHolder, Rewriting
  <2>3. CASE ClaimWrites(c)
    <3>1. claim[c].pid \in Procs /\ inode = claim[c].pid /\ pc[inode] \in Holding /\ c \in writers
          BY <2>3 DEF LockInv, ClaimWrites, OwnsPath
    <3>2. /\ contents' \in {inode, Torn} /\ writers' = writers \ {c}
          /\ claim' = [claim EXCEPT ![c] = [at |-> "idle", pid |-> NoProc]]
          /\ UNCHANGED <<inode, pc, recovery>>
          BY <2>3, <3>1 DEF ClaimWrites, WriteFd, ClaimAt
    <3> QED  BY <3>1, <3>2 DEF LockInv, TypeOK, OwnsPath, Holding, NamesHolder, Rewriting
  <2> QED  BY <1>6, <2>1, <2>2, <2>3 DEF UpdateLockTask
<1>7. ASSUME NEW c \in Claimers, ClaimDies(c) PROVE LockInv'
      BY <1>7 DEF TypeOK, ClaimDies, ClaimAt, Calm, NoDeath
<1>8. CASE Recover
  <2>1. CASE RecoverCheck
    <3>1. CheckLock \in Procs /\ Alive(CheckLock)  BY <2>1, LockIsHolders DEF RecoverCheck, Alive, Holding
    <3>2. /\ recovery' = [at |-> "kill", pid |-> CheckLock]
          /\ UNCHANGED <<inode, contents, writers, pc, claim>>
          BY <2>1, <3>1 DEF RecoverCheck
    <3> QED  BY <3>1, <3>2 DEF LockInv, NamesHolder, Rewriting
  <2>2. CASE RecoverKill
        BY <2>2 DEF LockInv, TypeOK, RecoverKill, Goto, Calm, NoDeath
  <2>3. CASE ForceReleaseLock
        BY <2>3 DEF LockInv, ForceReleaseLock
  <2> QED  BY <1>8, <2>1, <2>2, <2>3 DEF Recover
<1>9. CASE UNCHANGED vars  BY <1>9 DEF vars, LockInv, Calm, NoDeath, NamesHolder, Rewriting
<1> QED  BY <1>1, <1>2, <1>4, <1>5, <1>6, <1>7, <1>8, <1>9 DEF Next

(* The lock protocol's variables keep their types.                         *)
THEOREM AgentLockTypeCorrect == Spec => []TypeOK
<1>1. LockTypes => TypeOK  BY DEF LockTypes
<1> QED  BY <1>1, LockInitType, LockStepType, PTL DEF Spec

(* AcquireLock, its retries, the rewrites and ReleaseLock, for any number  *)
(* of agents, loom claims and attempts: until some process has died, or an *)
(* agent has ended while a claim or a recovery had its PID in hand, the    *)
(* holder's file is the one at the path and names nobody else.             *)
THEOREM AgentLockOwned == Spec => []HolderOwnsFile
<1>1. Init => LockInv
      BY AgentLockConstants DEF Init, LockInv, OwnsPath, Holding
<1> QED  BY <1>1, AgentLockTypeCorrect, LockStepInv, LockInvOwns, PTL DEF Spec

(* The same read as mutual exclusion: AcquireLock's "already running" is   *)
(* never wrong before the first death or stray PID.  After one it can be,  *)
(* which the run lock_steal shows.                                         *)
THEOREM AgentLockExcludes == Spec => [](Calm => MutualExclusion)
<1>1. HolderOwnsFile => (Calm => MutualExclusion)
      BY DEF HolderOwnsFile, MutualExclusion
<1> QED  BY <1>1, AgentLockOwned, PTL

-----------------------------------------------------------------------------
(* The daemon's lock file and PID file.                                    *)

(* The file at the path and every opened file have been created; who has   *)
(* opened one has a file, and who is past the flock holds it.              *)
FilesInv ==
  /\ lockPath <= created
  /\ \A p \in Starters :
       /\ starter[p].file <= created
       /\ starter[p].pc \in {"opened"} \union Owning => starter[p].file # 0
       /\ starter[p].pc \in Owning => lockedBy[starter[p].file] = p

(* Unless a removed file was locked, the flock of an owner is the one of   *)
(* the file at the path until it removes the path itself; so there is one  *)
(* owner, and nobody else writes or removes its PID file.                  *)
PathInv ==
  ~raced =>
    /\ \A p \in Starters :
         starter[p].pc \in Owning \ {"close"} => starter[p].file = lockPath
    /\ \A p \in Starters :
         starter[p].pc \in {"named", "made", "running", "stopping"} => pidFile = p

ControlInv == ControlTypeOK /\ FilesInv /\ PathInv

(* One owner at a time, from the flock of the file at the path.            *)
LEMMA OneOwner ==
  ASSUME ControlInv, ~raced, NEW p \in Starters, NEW q \in Starters,
         starter[p].pc \in Owning \ {"close"}, starter[q].pc \in Owning \ {"close"}
  PROVE  p = q
BY DEF ControlInv, FilesInv, PathInv, Owning

(* The initial state satisfies the invariant.                              *)
LEMMA ControlInitInv == ControlInit => ControlInv
<1> SUFFICES ASSUME ControlInit PROVE ControlInv  OBVIOUS
<1> USE ControlAssumption DEF ControlInit
<1>1. starter \in [Starters -> [pc : StarterSteps, file : 0..MaxDaemonFiles, stop : BOOLEAN]]
      BY DEF StarterSteps
<1>2. asked \in [pc : AskedSteps, kind : ControlCommands, pid : Starters \union {Nobody},
                answer : {"none", "not running", "stale", "shown", "stopped", "failed"}]
      BY DEF AskedSteps
<1>3. ControlTypeOK
  <2>1. lockedBy \in [DaemonFiles -> Starters \union {Nobody}]  OBVIOUS
  <2>2. lockPath \in 0..MaxDaemonFiles /\ created \in 0..MaxDaemonFiles  OBVIOUS
  <2>3. {pidFile, stateFile} \subseteq Starters \union {Nobody} /\ raced \in BOOLEAN  OBVIOUS
  <2> HIDE DEF ControlInit
  <2> QED  BY <1>1, <1>2, <2>1, <2>2, <2>3 DEF ControlTypeOK
<1>4. FilesInv /\ PathInv  BY DEF FilesInv, PathInv, Owning
<1> QED  BY <1>3, <1>4 DEF ControlInv

(* A process that moves keeps its file; the others stay where they are.    *)
LEMMA GoesType ==
  ASSUME ControlTypeOK, NEW p \in Starters, NEW l \in StarterSteps, Goes(p, l)
  PROVE  /\ starter' \in [Starters -> [pc : StarterSteps, file : 0..MaxDaemonFiles,
                                       stop : BOOLEAN]]
         /\ starter'[p].pc = l
         /\ \A q \in Starters : starter'[q].file = starter[q].file
         /\ \A q \in Starters \ {p} : starter'[q].pc = starter[q].pc
BY DEF ControlTypeOK, Goes

(* When a process ends, the kernel gives back its flocks and no others.    *)
LEMMA ReleasedByType ==
  ASSUME ControlTypeOK, NEW p \in Starters
  PROVE  /\ ReleasedBy(p) \in [DaemonFiles -> Starters \union {Nobody}]
         /\ \A f \in DaemonFiles : lockedBy[f] # p => ReleasedBy(p)[f] = lockedBy[f]
BY DEF ControlTypeOK, ReleasedBy

(* A process that has opened a file has one of the files.                  *)
LEMMA OpenedFile ==
  ASSUME ControlInv, NEW p \in Starters, starter[p].pc \in {"opened"} \union Owning
  PROVE  starter[p].file \in DaemonFiles
<1>1. starter[p].file \in 0..MaxDaemonFiles  BY DEF ControlInv, ControlTypeOK
<1>2. starter[p].file # 0  BY DEF ControlInv, FilesInv
<1> QED  BY <1>1, <1>2, ControlAssumption DEF DaemonFiles

(* The process ends and nothing else happens: what every exit without the  *)
(* deferred calls does.                                                    *)
LEMMA ExitInv ==
  ASSUME ControlInv, NEW p \in Starters, Goes(p, "gone"), lockedBy' = ReleasedBy(p),
         UNCHANGED <<lockPath, created, pidFile, stateFile, raced>>,
         ControlTypeOK => asked' \in [pc : AskedSteps, kind : ControlCommands,
                                     pid : Starters \union {Nobody},
           answer : {"none", "not running", "stale", "shown", "stopped", "failed"}]
  PROVE  ControlInv'
<1> USE DEF ControlInv
<1>1. "gone" \in StarterSteps  BY DEF StarterSteps
<1>2. ControlTypeOK'
      BY <1>1, GoesType, ReleasedByType DEF ControlTypeOK
<1>3. /\ starter'[p].pc = "gone"
      /\ \A q \in Starters : starter'[q].file = starter[q].file
      /\ \A q \in Starters \ {p} : starter'[q].pc = starter[q].pc
      BY <1>1, GoesType
<1>4. ASSUME NEW q \in Starters, starter'[q].pc \in {"opened"} \union Owning
      PROVE  /\ q # p /\ starter'[q].file # 0
             /\ starter'[q].pc \in Owning => lockedBy'[starter'[q].file] = q
  <2>1. q # p  BY <1>3, <1>4 DEF Owning
  <2>2. starter[q].file \in DaemonFiles  BY <1>3, <1>4, <2>1, OpenedFile
  <2>3. starter'[q].pc \in Owning => lockedBy[starter[q].file] = q
        BY <1>3, <2>1 DEF FilesInv
  <2>4. starter'[q].file # 0  BY <1>3, <1>4, <2>1 DEF FilesInv
  <2> QED  BY <1>3, <2>1, <2>2, <2>3, <2>4, ReleasedByType
<1>5. FilesInv'  BY <1>3, <1>4 DEF FilesInv
<1>6. PathInv'
  <2> SUFFICES ASSUME ~raced PROVE PathInv'  BY DEF PathInv
  <2> QED  BY <1>3, <1>4 DEF PathInv, Owning
<1> QED  BY <1>2, <1>5, <1>6

(* An owner moves on as an owner and neither path nor flocks change.  What *)
(* it does to the PID file is its own business: there is no other owner.   *)
LEMMA OwnerMoves ==
  ASSUME ControlInv, NEW p \in Starters, NEW l \in Owning, Goes(p, l),
         starter[p].pc \in Owning \ {"close"},
         UNCHANGED <<lockedBy, lockPath, created, asked, raced>>,
         pidFile' \in {pidFile, Nobody, p}, stateFile' \in {stateFile, Nobody, p},
         l \in {"named", "made", "running", "stopping"} =>
            \/ pidFile' = p
            \/ /\ pidFile' = pidFile
               /\ starter[p].pc \in {"named", "made", "running", "stopping"},
         pidFile' # pidFile => starter[p].pc \in {"locked", "cleared", "unpid"}
  PROVE  ControlInv'
<1> USE DEF ControlInv
<1>1. l \in StarterSteps  BY DEF StarterSteps
<1>2. ControlTypeOK'
  <2>1. starter' \in [Starters -> [pc : StarterSteps, file : 0..MaxDaemonFiles, stop : BOOLEAN]]
        BY <1>1, GoesType
  <2>2. {pidFile', stateFile'} \subseteq Starters \union {Nobody}
    <3>1. {pidFile, stateFile} \subseteq Starters \union {Nobody}  BY DEF ControlTypeOK
    <3> HIDE DEF ControlInv
    <3> QED  BY <3>1
  <2> QED  BY <2>1, <2>2 DEF ControlTypeOK
<1>3. FilesInv'
  <2>1. /\ starter'[p].pc = l
        /\ \A q \in Starters : starter'[q].file = starter[q].file
        /\ \A q \in Starters \ {p} : starter'[q].pc = starter[q].pc
        BY <1>1, GoesType
  <2> QED  BY <2>1 DEF FilesInv
<1>4. PathInv'
  <2> SUFFICES ASSUME ~raced PROVE PathInv'  BY DEF PathInv
  <2>1. \A q \in Starters : starter'[q].pc \in Owning \ {"close"} => starter'[q].file = lockPath
        BY <1>1, GoesType DEF PathInv
  <2>2. ASSUME NEW q \in Starters, q # p,
               starter'[q].pc \in {"named", "made", "running", "stopping"}
        PROVE  FALSE
        <3>1. starter[q].pc \in Owning \ {"close"}  BY <1>1, <2>2, GoesType DEF Owning
        <3> QED  BY <3>1, <2>2, OneOwner
  <2>3. starter'[p].pc \in {"named", "made", "running", "stopping"} => pidFile' = p
        BY <1>1, GoesType DEF PathInv
  <2> QED  BY <2>1, <2>2, <2>3 DEF PathInv
<1> QED  BY <1>2, <1>3, <1>4

(* Opening or creating the file and trying the flock.                      *)
LEMMA OpenInv ==
  ASSUME ControlInv, NEW p \in Starters, OpenLockFile(p) \/ TryLockExclusive(p)
  PROVE  ControlInv'
<1> USE ControlAssumption DEF ControlInv
<1>1. CASE OpenLockFile(p)
  <2> DEFINE f == lockPath'
  <2>1. /\ starter' = [starter EXCEPT ![p] = [@ EXCEPT !.pc = "opened", !.file = f]]
        /\ starter[p].pc = "new"
        /\ UNCHANGED <<lockedBy, pidFile, stateFile, asked, raced>>
        /\ \/ lockPath # 0 /\ f = lockPath /\ created' = created
           \/ lockPath = 0 /\ created < MaxDaemonFiles /\ created' = created + 1 /\ f = created'
        BY <1>1 DEF OpenLockFile, StarterAt
  <2>0. /\ f \in 1..MaxDaemonFiles /\ f <= created' /\ created <= created'
        /\ created \in Nat /\ created' \in 0..MaxDaemonFiles
    <3>1. lockPath \in 0..MaxDaemonFiles /\ created \in 0..MaxDaemonFiles
          BY DEF ControlTypeOK
    <3>2. lockPath <= created  BY DEF FilesInv
    <3> HIDE DEF ControlInv
    <3> QED  BY <2>1, <3>1, <3>2
  <2>2. /\ starter' \in [Starters -> [pc : StarterSteps, file : 0..MaxDaemonFiles,
                                      stop : BOOLEAN]]
        /\ starter'[p].pc = "opened" /\ starter'[p].file = f
        /\ \A q \in Starters \ {p} : starter'[q].pc = starter[q].pc
        /\ \A q \in Starters \ {p} : starter'[q].file = starter[q].file
    <3>1. starter \in [Starters -> [pc : StarterSteps, file : 0..MaxDaemonFiles, stop : BOOLEAN]]
          BY DEF ControlTypeOK
    <3>2. f \in 0..MaxDaemonFiles /\ "opened" \in StarterSteps  BY <2>0 DEF StarterSteps
    <3>3. starter' = [starter EXCEPT ![p] = [@ EXCEPT !.pc = "opened", !.file = f]]  BY <2>1
    <3> HIDE DEF ControlInv
    <3> QED  BY <3>1, <3>2, <3>3
  <2>3. ControlTypeOK'
    <3>1. f \in 0..MaxDaemonFiles  BY <2>0
    <3> QED  BY <2>0, <2>1, <2>2, <3>1 DEF ControlTypeOK
  <2>4. FilesInv'
    <3>1. \A q \in Starters : starter[q].file \in 0..MaxDaemonFiles  BY DEF ControlTypeOK
    <3>2. \A q \in Starters : starter'[q].file <= created'
      <4>1. \A q \in Starters : starter[q].file <= created  BY DEF FilesInv
      <4> HIDE DEF ControlInv
      <4> QED  BY <2>0, <2>2, <3>1, <4>1
    <3>3. f # 0  BY <2>0
    <3> QED  BY <2>0, <2>1, <2>2, <3>2, <3>3 DEF FilesInv, Owning
  <2>5. PathInv'
    <3>1. "opened" \notin Owning  BY DEF Owning
    <3>2. ~raced => \A q \in Starters : starter[q].pc \in Owning \ {"close"} =>
                       starter[q].file = lockPath /\ lockPath' = lockPath
          BY <2>1 DEF PathInv, FilesInv
    <3>3. {"named", "made", "running", "stopping"} \subseteq Owning  BY DEF Owning
    <3> QED  BY <2>1, <2>2, <3>1, <3>2, <3>3 DEF PathInv
  <2> QED  BY <2>3, <2>4, <2>5
<1>2. CASE TryLockExclusive(p) /\ Goes(p, "gone") /\ UNCHANGED <<lockedBy, raced>>
  <2>1. "gone" \in StarterSteps  BY DEF StarterSteps
  <2>2. ControlTypeOK'  BY <1>2, <2>1, GoesType DEF TryLockExclusive, ControlTypeOK
  <2>3. FilesInv' /\ PathInv'
        BY <1>2, <2>1, GoesType DEF TryLockExclusive, FilesInv, PathInv, Owning
  <2> QED  BY <2>2, <2>3
<1>3. CASE TryLockExclusive(p) /\ Goes(p, "locked")
  <2>1. starter[p].file \in DaemonFiles  BY <1>3, OpenedFile DEF TryLockExclusive, StarterAt
  <2>2. "locked" \in StarterSteps /\ "locked" # "gone"  BY DEF StarterSteps, Owning
  <2>3. /\ lockedBy[starter[p].file] = Nobody
        /\ lockedBy' = [lockedBy EXCEPT ![starter[p].file] = p]
        /\ raced' = (raced \/ starter[p].file # lockPath)
        /\ UNCHANGED <<lockPath, created, pidFile, stateFile, asked>>
        <3>1. starter'[p].pc = "locked"  BY <1>3, <2>2, GoesType
        <3>2. ~Goes(p, "gone")
              <4>1. "gone" \in StarterSteps  BY DEF StarterSteps
              <4> QED  BY <3>1, <4>1, GoesType
        <3> QED  BY <1>3, <3>2 DEF TryLockExclusive, FlockFree
  <2>4. ControlTypeOK'
        BY <1>3, <2>1, <2>2, <2>3, GoesType DEF ControlTypeOK
  <2>5. FilesInv'
    <3>1. \A q \in Starters \ {p} : starter[q].pc \in Owning
             => starter[q].file \in DaemonFiles /\ starter[q].file # starter[p].file
          BY <2>3, OpenedFile DEF FilesInv
    <3>2. /\ starter'[p].pc = "locked" /\ starter[p].pc = "opened"
          /\ \A q \in Starters : starter'[q].file = starter[q].file
          /\ \A q \in Starters \ {p} : starter'[q].pc = starter[q].pc
          BY <1>3, <2>2, GoesType DEF TryLockExclusive, StarterAt
    <3>3. \A q \in Starters : starter'[q].pc \in Owning => lockedBy'[starter'[q].file] = q
      <4>1. lockedBy'[starter'[p].file] = p  BY <2>1, <2>3, <3>2 DEF ControlTypeOK
      <4>2. ASSUME NEW q \in Starters \ {p}, starter[q].pc \in Owning
            PROVE  lockedBy'[starter[q].file] = q
            BY <2>3, <3>1, <4>2 DEF FilesInv, ControlTypeOK
      <4> QED  BY <3>2, <4>1, <4>2
    <3> QED  BY <2>3, <3>2, <3>3 DEF FilesInv
  <2>6. PathInv'
    <3>1. /\ starter'[p].pc = "locked" /\ starter[p].pc = "opened"
          /\ \A q \in Starters : starter'[q].file = starter[q].file
          /\ \A q \in Starters \ {p} : starter'[q].pc = starter[q].pc
          BY <1>3, <2>2, GoesType DEF TryLockExclusive, StarterAt
    <3> QED  BY <2>3, <3>1 DEF PathInv, Owning
  <2> QED  BY <2>4, <2>5, <2>6
<1> QED  BY <1>1, <1>2, <1>3 DEF TryLockExclusive

(* Replacing the PID file, building the daemon and running it.             *)
LEMMA RunInv ==
  ASSUME ControlInv, NEW p \in Starters,
         \/ RemoveStalePIDFile(p) \/ WritePIDFile(p) \/ NewDaemon(p) \/ StartDaemon(p)
         \/ UpdateState(p) \/ SeesShutdown(p) \/ Stopped(p)
  PROVE  ControlInv'
<1>0. Owning = {"locked", "cleared", "named", "made", "running", "stopping",
                "unstate", "unpid", "unlock", "close"}
      BY DEF Owning
<1>a. asked \in [pc : AskedSteps, kind : ControlCommands, pid : Starters \union {Nobody},
                answer : {"none", "not running", "stale", "shown", "stopped", "failed"}]
      BY DEF ControlInv, ControlTypeOK
<1>1. CASE RemoveStalePIDFile(p)
      BY <1>0, <1>1, OwnerMoves DEF RemoveStalePIDFile, StarterAt
<1>2. CASE WritePIDFile(p)
      BY <1>0, <1>a, <1>2, OwnerMoves, ExitInv DEF WritePIDFile, StarterAt
<1>3. CASE NewDaemon(p)
      BY <1>0, <1>a, <1>3, OwnerMoves, ExitInv DEF NewDaemon, StarterAt
<1>4. CASE StartDaemon(p)
      BY <1>0, <1>4, OwnerMoves DEF StartDaemon, WriteStateFile, StarterAt
<1>5. CASE UpdateState(p)
  <2>1. ControlTypeOK'
        BY <1>5 DEF UpdateState, WriteStateFile, ControlInv, ControlTypeOK
  <2>2. FilesInv' /\ PathInv'
        BY <1>5 DEF UpdateState, WriteStateFile, ControlInv, FilesInv, PathInv
  <2> QED  BY <2>1, <2>2 DEF ControlInv
<1>6. CASE SeesShutdown(p) \/ Stopped(p)
      BY <1>0, <1>6, OwnerMoves DEF SeesShutdown, Stopped, StarterAt
<1> QED  BY <1>1, <1>2, <1>3, <1>4, <1>5, <1>6

(* A signal ends the process, or leaves it where it is and told to stop.   *)
LEMMA SignalInv ==
  ASSUME ControlInv, NEW p \in Starters, Signal(p),
         UNCHANGED <<lockPath, created, pidFile, stateFile, raced>>,
         ControlTypeOK => asked' \in [pc : AskedSteps, kind : ControlCommands,
                                     pid : Starters \union {Nobody},
           answer : {"none", "not running", "stale", "shown", "stopped", "failed"}]
  PROVE  ControlInv'
<1>1. CASE Goes(p, "gone") /\ lockedBy' = ReleasedBy(p)  BY <1>1, ExitInv
<1>2. CASE starter' = [starter EXCEPT ![p].stop = TRUE] /\ UNCHANGED lockedBy
  <2>1. /\ starter' \in [Starters -> [pc : StarterSteps, file : 0..MaxDaemonFiles,
                                      stop : BOOLEAN]]
        /\ \A q \in Starters : starter'[q].pc = starter[q].pc
        /\ \A q \in Starters : starter'[q].file = starter[q].file
    <3>1. starter \in [Starters -> [pc : StarterSteps, file : 0..MaxDaemonFiles, stop : BOOLEAN]]
          BY DEF ControlInv, ControlTypeOK
    <3> QED  BY <1>2, <3>1
  <2>2. ControlTypeOK'  BY <1>2, <2>1 DEF ControlInv, ControlTypeOK
  <2>3. FilesInv' /\ PathInv'  BY <1>2, <2>1 DEF ControlInv, FilesInv, PathInv
  <2> QED  BY <2>2, <2>3 DEF ControlInv
<1> QED  BY <1>1, <1>2 DEF Signal

(* The deferred calls, and the exits that skip them.                       *)
LEMMA LeaveInv ==
  ASSUME ControlInv, NEW p \in Starters, Leave(p) \/ Killed(p) \/ Interrupt(p)
  PROVE  ControlInv'
<1>0. Owning = {"locked", "cleared", "named", "made", "running", "stopping",
                "unstate", "unpid", "unlock", "close"}
      BY DEF Owning
<1>a. asked \in [pc : AskedSteps, kind : ControlCommands, pid : Starters \union {Nobody},
                answer : {"none", "not running", "stale", "shown", "stopped", "failed"}]
      BY DEF ControlInv, ControlTypeOK
<1>1. CASE Leave(p) /\ StarterAt(p, "close")
      BY <1>a, <1>1, ExitInv DEF Leave, Deferred, StarterAt
<1>2. CASE Leave(p) /\ (StarterAt(p, "unstate") \/ StarterAt(p, "unpid"))
      BY <1>0, <1>2, OwnerMoves DEF Leave, Deferred, StarterAt
<1>3. CASE Leave(p) /\ StarterAt(p, "unlock")
  <2>1. /\ Goes(p, "close") /\ lockPath' = 0 /\ starter[p].pc = "unlock"
        /\ UNCHANGED <<stateFile, pidFile, lockedBy, created, asked, raced>>
        BY <1>3 DEF Leave, Deferred, StarterAt
  <2>2. "close" \in StarterSteps  BY DEF StarterSteps, Owning
  <2>3. /\ starter' \in [Starters -> [pc : StarterSteps, file : 0..MaxDaemonFiles,
                                      stop : BOOLEAN]]
        /\ starter'[p].pc = "close"
        /\ \A q \in Starters : starter'[q].file = starter[q].file
        /\ \A q \in Starters \ {p} : starter'[q].pc = starter[q].pc
        BY <2>1, <2>2, GoesType DEF ControlInv
  <2>4. ControlTypeOK'
    <3>1. 0 \in 0..MaxDaemonFiles  BY ControlAssumption
    <3> QED  BY <2>1, <2>3, <3>1 DEF ControlInv, ControlTypeOK
  <2>5. FilesInv'
    <3>0. created \in 0..MaxDaemonFiles  BY DEF ControlInv, ControlTypeOK
    <3>1. 0 <= created  BY <3>0, ControlAssumption
    <3> QED  BY <1>0, <2>1, <2>3, <3>1 DEF ControlInv, FilesInv
  <2>6. PathInv'
    <3> SUFFICES ASSUME ~raced, NEW q \in Starters, starter'[q].pc \in Owning \ {"close"}
                 PROVE  FALSE
        BY <1>0, <2>1 DEF PathInv
    <3>1. q # p /\ starter[q].pc \in Owning \ {"close"}  BY <2>3
    <3> QED  BY <1>0, <2>1, <3>1, OneOwner
  <2> QED  BY <2>4, <2>5, <2>6 DEF ControlInv
<1>4. CASE Killed(p)  BY <1>a, <1>4, ExitInv DEF Killed
<1>5. CASE Interrupt(p)  BY <1>a, <1>5, SignalInv DEF Interrupt
<1> QED  BY <1>1, <1>2, <1>3, <1>4, <1>5 DEF Leave, Deferred

(* status, stop and health change only their own state, but for stop's     *)
(* SIGTERM.                                                                *)
LEMMA AskInv ==
  ASSUME ControlInv,
         \/ ReadPIDFile \/ IsLoomDaemonRunning \/ RunDaemonStatus \/ CheckLoomDaemon
         \/ DaemonSIGTERM \/ WaitForExit
  PROVE  ControlInv'
<1> DEFINE Answers == [pc : AskedSteps, kind : ControlCommands, pid : Starters \union {Nobody},
             answer : {"none", "not running", "stale", "shown", "stopped", "failed"}]
<1>1. asked \in Answers /\ pidFile \in Starters \union {Nobody}
      BY DEF ControlInv, ControlTypeOK
<1>2. asked' \in Answers
      BY <1>1 DEF ReadPIDFile, IsLoomDaemonRunning, RunDaemonStatus, CheckLoomDaemon,
                  DaemonSIGTERM, WaitForExit, NotRunning, AskedSteps
<1>3. CASE UNCHANGED <<starter, lockedBy, lockPath, created, pidFile, stateFile, raced>>
  <2>1. ControlTypeOK'  BY <1>2, <1>3 DEF ControlInv, ControlTypeOK
  <2>2. FilesInv' /\ PathInv'  BY <1>3 DEF ControlInv, FilesInv, PathInv
  <2> QED  BY <2>1, <2>2 DEF ControlInv
<1>4. CASE DaemonSIGTERM /\ IsProcessRunning(asked.pid)
  <2>1. asked.pid \in Starters  BY <1>1, <1>4 DEF IsProcessRunning
  <2>2. Signal(asked.pid) /\ UNCHANGED <<lockPath, created, pidFile, stateFile, raced>>
        BY <1>4 DEF DaemonSIGTERM
  <2> QED  BY <1>2, <2>1, <2>2, SignalInv
<1> QED  BY <1>3, <1>4 DEF ReadPIDFile, IsLoomDaemonRunning, RunDaemonStatus, CheckLoomDaemon,
                           DaemonSIGTERM, WaitForExit

(* Every step of the daemons and of the commands keeps the invariant.      *)
LEMMA ControlStepInv == ControlInv /\ [ControlNext]_controlVars => ControlInv'
<1>1. ASSUME ControlInv, UNCHANGED controlVars PROVE ControlInv'
      BY <1>1 DEF controlVars, ControlInv, ControlTypeOK, FilesInv, PathInv
<1> QED  BY <1>1, OpenInv, RunInv, LeaveInv, AskInv DEF ControlNext

(* The variables of daemon start, status and stop keep their types.        *)
THEOREM ControlTypeCorrect == ControlSpec => []ControlTypeOK
<1>1. ControlInv => ControlTypeOK  BY DEF ControlInv
<1> QED  BY <1>1, ControlInitInv, ControlStepInv, PTL DEF ControlSpec

(* Any number of daemons started, stopped, interrupted and killed at any   *)
(* call, with any number of lock files left behind: unless a flock was     *)
(* taken on a file that had been removed, the daemons exclude each other   *)
(* and the PID file names the one that runs.                               *)
THEOREM TheDaemonIsFound == ControlSpec => []DaemonIsFound
<1>1. ASSUME ControlInv PROVE DaemonIsFound
  <2>1. ASSUME ~raced, NEW p \in Starters, NEW q \in Starters,
               {starter[p].pc, starter[q].pc} \subseteq Owning \ {"close"}
        PROVE  p = q
        BY <1>1, <2>1, OneOwner
  <2> QED  BY <1>1, <2>1 DEF DaemonIsFound, ControlInv, PathInv
<1> QED  BY <1>1, ControlInitInv, ControlStepInv, PTL DEF ControlSpec
=============================================================================

------------------------------ MODULE EventLog ------------------------------
(***************************************************************************)
(* The structured event log (events/emitter.go, events/jsonl_writer.go):   *)
(* the daemon's bus and the bus of every "loom claim" an agent runs        *)
(* (cli/claim.go), which the daemon points at its own events directory.    *)
(* A writer buffers lines, opens one file per day and, when a line would   *)
(* exceed the size, shifts path -> .1 -> ... -> .MaxBackups and starts a   *)
(* new file.  Its mutex orders the goroutines of one process; nothing      *)
(* orders two processes, whose system calls on the files interleave here.  *)
(* A line is two units long, so that the buffer may end within a line.     *)
(* Listeners, which are called after a line is accepted, keep no state     *)
(* here.  A failing write(2) is not modelled: it reports itself only once  *)
(* the buffer is flushed.                                                  *)
(***************************************************************************)
EXTENDS Naturals, Sequences, SequencesExt, FiniteSets

CONSTANTS
  Claims,       \* processes that run "loom claim", each emitting one event
  Days,         \* the dates events carry
  MaxDaemonEvents, \* bound on the daemon's events
  BufSize,      \* units the buffered writer holds
  MaxSize,      \* units of a file before it is rotated
  MaxBackups,   \* backups that are kept
  MaxLogFaults  \* bound on failing opens and renames

ASSUME EventLogAssumption ==
  /\ BufSize \in Nat /\ BufSize > 1 /\ MaxSize \in Nat /\ MaxSize > 1
  /\ MaxBackups \in Nat \ {0} /\ 0 \notin Days /\ IsFiniteSet(Days)
  /\ "daemon" \notin Claims /\ Claims \cap Nat = {}

VARIABLES
  writer,    \* JSONLWriter of each process, and where its Emit is
  slots,     \* per day: the files at path (0), path.1, ... (0: no file)
  content,   \* what each file holds
  accepted,  \* per day: the units of the daemon's accepted events (history)
  collided,  \* a rotation removed what another writer has open or has just moved (history)
  logFaults

logVars == <<writer, slots, content, accepted, collided, logFaults>>

Processes == {"daemon"} \union Claims
Fresh == [pc |-> "closed", file |-> 0, day |-> 0, size |-> 0, buf |-> <<>>, line |-> <<>>,
          date |-> 0, shift |-> 0, retry |-> FALSE]
DaemonUnit(u) == u[1] \notin Claims

LogInit ==
  /\ writer = [p \in Processes |-> Fresh]
  /\ slots = [d \in Days |-> [i \in 0..MaxBackups |-> 0]]
  /\ content = <<>>
  /\ accepted = [d \in Days |-> <<>>]
  /\ collided = FALSE /\ logFaults = 0

Line(e) == <<<<e, 1>>, <<e, 2>>>>
\* The daemon's events are numbered.
DaemonEvents == (Cardinality(UNION {{d} \X DOMAIN accepted[d] : d \in Days}) \div 2) + 1

\* NewBus: the file is opened by the first write.
NewBus(p) ==
  /\ writer[p].pc = "closed" /\ (p \in Claims => writer[p].line = <<>>)
  /\ writer' = [writer EXCEPT ![p] = [Fresh EXCEPT !.pc = "idle"]]
  /\ UNCHANGED <<slots, content, accepted, collided, logFaults>>

\* Bus.Emit and Write with the timestamp's date, taken before the mutex: near midnight the
\* dates of successive writes may go back and forth.
Write(p, d) ==
  /\ writer[p].pc = "idle"
  /\ p = "daemon" => DaemonEvents <= MaxDaemonEvents
  /\ writer' = [writer EXCEPT ![p] = [@ EXCEPT !.pc = "ensure", !.date = d, !.retry = FALSE,
                  !.line = Line(IF p = "daemon" THEN DaemonEvents ELSE p)]]
  /\ UNCHANGED <<slots, content, accepted, collided, logFaults>>

Flushed(p) == [content EXCEPT ![writer[p].file] = @ \o writer[p].buf]
Closed(p, there) == [writer[p] EXCEPT !.pc = there, !.file = 0, !.buf = <<>>]

\* Another day's file is flushed and closed.
SwitchDate(p) ==
  /\ writer[p].pc = "ensure" /\ writer[p].file # 0 /\ writer[p].day # writer[p].date
  /\ content' = Flushed(p)
  /\ writer' = [writer EXCEPT ![p] = Closed(p, "ensure")]
  /\ UNCHANGED <<slots, accepted, collided, logFaults>>

\* OpenFile(O_APPEND|O_CREATE) of the day's path.
OpenPath(d, f) ==
  \/ slots[d][0] # 0 /\ f = slots[d][0] /\ UNCHANGED <<slots, content>>
  \/ /\ slots[d][0] = 0 /\ f = Len(content) + 1
     /\ slots' = [slots EXCEPT ![d][0] = f] /\ content' = Append(content, <<>>)

\* The mkdir, open or stat fails: the event is refused, and a claim then closes its bus.
OpenFails(p) ==
  /\ logFaults < MaxLogFaults /\ logFaults' = logFaults + 1
  /\ writer' = [writer EXCEPT ![p].pc = IF p \in Claims THEN "close" ELSE "idle"]
  /\ UNCHANGED <<slots, content>>

\* ensureFile: the day's file, open already or opened now with its size.
EnsureFile(p) ==
  /\ writer[p].pc = "ensure"
  /\ \/ /\ writer[p].file # 0 /\ writer[p].day = writer[p].date
        /\ writer' = [writer EXCEPT ![p].pc = "check"]
        /\ UNCHANGED <<slots, content, logFaults>>
     \/ /\ writer[p].file = 0
        /\ \E f \in 1..(Len(content) + 1) :
             /\ OpenPath(writer[p].date, f)
             /\ writer' = [writer EXCEPT ![p] =
                  [@ EXCEPT !.pc = IF writer[p].retry THEN "append" ELSE "check", !.file = f,
                            !.day = writer[p].date, !.size = Len(content'[f])]]
        /\ UNCHANGED logFaults
     \/ writer[p].file = 0 /\ OpenFails(p)
  /\ UNCHANGED <<accepted, collided>>

\* Mutant: the buffer is dropped with the file.
DropsBuffer(p) ==
  /\ writer[p].pc = "check" /\ writer[p].size + 2 > MaxSize
  /\ writer' = [writer EXCEPT ![p] = [Closed(p, "shift") EXCEPT !.size = 0, !.shift = MaxBackups]]
  /\ UNCHANGED <<slots, content, accepted, collided, logFaults>>

\* rotate begins: flush, and forget the file before anything is renamed.
BeginRotate(p) ==
  /\ writer[p].pc = "check" /\ writer[p].size + 2 > MaxSize
  /\ content' = Flushed(p)
  /\ writer' = [writer EXCEPT ![p] = [Closed(p, "shift") EXCEPT !.size = 0, !.shift = MaxBackups]]
  /\ UNCHANGED <<slots, accepted, collided, logFaults>>

Fits(p) ==
  /\ writer[p].pc = "check" /\ writer[p].size + 2 <= MaxSize
  /\ writer' = [writer EXCEPT ![p].pc = "append"]
  /\ UNCHANGED <<slots, content, accepted, collided, logFaults>>

\* The rotation fails: Write opens the day's file again and goes on without rotating.
RotationFails(p) ==
  /\ logFaults < MaxLogFaults /\ logFaults' = logFaults + 1
  /\ writer' = [writer EXCEPT ![p] = [@ EXCEPT !.pc = "ensure", !.day = 0, !.retry = TRUE]]
  /\ UNCHANGED <<slots, content>>

\* One turn of the loop: path.(i-1) becomes path.i, over the oldest backup or, if another
\* process has put a file there meanwhile, over that.
ShiftBackup(p) ==
  LET d == writer[p].date
      i == writer[p].shift
      over == slots[d][i]
  IN /\ writer[p].pc = "shift" /\ i > 0
     /\ \/ /\ slots[d][i - 1] = 0
           /\ writer' = [writer EXCEPT ![p].shift = i - 1]
           /\ UNCHANGED <<slots, content, collided, logFaults>>
        \/ /\ slots[d][i - 1] # 0
           /\ slots' = [slots EXCEPT ![d][i] = slots[d][i - 1], ![d][i - 1] = 0]
           /\ writer' = [writer EXCEPT ![p].shift = i - 1]
           /\ collided' = (collided \/ /\ over # 0
                                       /\ i < MaxBackups \/ \E q \in Processes : writer[q].file = over)
           /\ UNCHANGED <<content, logFaults>>
        \/ slots[d][i - 1] # 0 /\ RotationFails(p) /\ UNCHANGED collided
     /\ UNCHANGED accepted

\* The new file; its size counts from zero whatever another process has written to it.
OpenAfterRotation(p) ==
  /\ writer[p].pc = "shift" /\ writer[p].shift = 0
  /\ \/ /\ \E f \in 1..(Len(content) + 1) :
             /\ OpenPath(writer[p].date, f)
             /\ writer' = [writer EXCEPT ![p] = [@ EXCEPT !.pc = "append", !.file = f]]
        /\ UNCHANGED logFaults
     \/ RotationFails(p)
  /\ UNCHANGED <<accepted, collided>>

\* The line goes into the buffer, which is written when it is full: within the line if
\* that is where it ends.
AppendLine(p) ==
  LET w == writer[p]
      all == w.buf \o w.line
      full == Len(all) > BufSize
  IN /\ w.pc = "append"
     /\ content' = IF full THEN [content EXCEPT ![w.file] = @ \o SubSeq(all, 1, BufSize)] ELSE content
     /\ writer' = [writer EXCEPT ![p] =
          [w EXCEPT !.buf = IF full THEN SubSeq(all, BufSize + 1, Len(all)) ELSE all,
                    !.size = @ + 2, !.pc = IF p \in Claims THEN "close" ELSE "idle"]]
     /\ accepted' = IF p \in Claims THEN accepted ELSE [accepted EXCEPT ![w.date] = @ \o w.line]
     /\ UNCHANGED <<slots, collided, logFaults>>

\* Close, by a claim after its event and by the daemon when it ends.
CloseBus(p) ==
  /\ writer[p].pc = "close" \/ (p = "daemon" /\ writer[p].pc = "idle")
  /\ content' = IF writer[p].file = 0 THEN content ELSE Flushed(p)
  /\ writer' = [writer EXCEPT ![p] = Closed(p, "closed")]
  /\ UNCHANGED <<slots, accepted, collided, logFaults>>

LogNext ==
  \E p \in Processes :
    \/ NewBus(p) \/ (\E d \in Days : Write(p, d)) \/ SwitchDate(p) \/ EnsureFile(p)
    \/ BeginRotate(p) \/ Fits(p) \/ ShiftBackup(p) \/ OpenAfterRotation(p)
    \/ AppendLine(p) \/ CloseBus(p)

-----------------------------------------------------------------------------
LogSpec == LogInit /\ [][LogNext]_logVars

\* What a sequence, a file holds of the daemon's; its buffer, if the file of that day is open;
\* what the files of a day hold, oldest first, and then the buffer.
DaemonPart(s) ==
  LET part[n \in 0..Len(s)] ==
        IF n = 0 THEN <<>> ELSE IF DaemonUnit(s[n]) THEN Append(part[n - 1], s[n]) ELSE part[n - 1]
  IN part[Len(s)]
FilePart(f) == IF f = 0 THEN <<>> ELSE DaemonPart(content[f])
DaemonBuf(d) ==
  IF writer["daemon"].file # 0 /\ writer["daemon"].day = d THEN writer["daemon"].buf ELSE <<>>
DaemonLog(d) ==
  LET log[n \in 0..(MaxBackups + 1)] ==
        IF n = 0 THEN <<>> ELSE log[n - 1] \o FilePart(slots[d][(MaxBackups + 1) - n])
  IN log[MaxBackups + 1] \o DaemonBuf(d)

\* What the daemon's Emit accepted is in the log of its day: read oldest backup first, the
\* daemon's lines are the last ones accepted, in their order and none missing, through
\* rotations, changes of date, failing renames and opens, and through claims that append
\* to and rotate the same files; only two rotations at once may lose more.  A claim's line
\* is never split.
EventsAreKept ==
  /\ ~collided => \A d \in Days :
       Len(DaemonLog(d)) % 2 = 0 /\ IsSuffix(DaemonLog(d), accepted[d])
  /\ \A f \in 1..Len(content) : \A i \in 1..Len(content[f]) :
       content[f][i][1] \in Claims /\ content[f][i][2] = 1
         => i < Len(content[f]) /\ content[f][i + 1] = <<content[f][i][1], 2>>
=============================================================================

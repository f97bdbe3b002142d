------------------------------ MODULE GitFlow -------------------------------
(***************************************************************************)
(* The git commands of loom and of its web server: push, pull, sync, pr,   *)
(* reset and the daemon's epic pull requests.  Every git or gh command is  *)
(* one step, so that two loom processes, the agents at work and other      *)
(* people interleave between them.                                         *)
(*                                                                         *)
(* A branch is the set of commits it contains: merging is union, "ancestor *)
(* of" is inclusion, and a push is a fast-forward when the remote's set is *)
(* included in ours.  A directory is either one worktree of a shared       *)
(* repository (legacy mode: refs and the stash are common) or a clone of   *)
(* its own (workspace mode).                                               *)
(***************************************************************************)
EXTENDS Naturals, Sequences, FiniteSets

CONSTANTS
  Dirs,        \* working directories
  Listing,     \* per layout, the directories DiscoverWorktrees finds, in its order
  Root,        \* the directory loom is started in (one of Dirs)
  HomeBranch,  \* the branch each directory works on
  Target,      \* the integration branch; "main", hence protected
  Workers,     \* the directories in which agents work
  MaxProcs,    \* loom processes and web requests at a time
  Second,      \* <<kind, ui>> of the commands given after the first, or beside another
  MaxExtra     \* events beside the first command: what agents, users and other people do, and
               \* further commands

\* DiscoverWorktrees: the worktrees under ./worktrees/, or the repos of the workspace.
DirsOf(layout) == IF layout = "shared" THEN Dirs \ {Root} ELSE Dirs

ASSUME GitAssumption ==
  /\ Root \in Dirs /\ Workers \subseteq Dirs \ {Root}
  /\ Listing \in [{"shared", "clones"} -> Seq(Dirs)]
  /\ \A l \in {"shared", "clones"} : {Listing[l][i] : i \in DOMAIN Listing[l]} = DirsOf(l)
  /\ Target \notin {HomeBranch[d] : d \in Dirs}
  /\ MaxProcs \in Nat /\ MaxExtra \in Nat

GitProcs == 1..MaxProcs
Branches == {HomeBranch[d] : d \in Dirs} \cup {Target}
Commits == Dirs \cup {"upstream"}  \* one commit of each directory's agent, one of other people
NoBranch == "none"

VARIABLES
  glayout,     \* "shared" or "clones"
  gremote,     \* the remote's branches
  gref,        \* the local branches of each repository
  gtrack,      \* its remote-tracking branches
  gwt,         \* per directory: HEAD, uncommitted edits, an unfinished merge, and the edits
               \* made since to the files that are in conflict
  gstash,      \* the stash of each repository, latest first
  gproc,       \* the running commands
  ggiven,      \* has a command been given?
  gextra,      \* events so far
  grunning,    \* directories whose agent lock is held
  gprs,        \* branches with an open pull request
  gextref,     \* branches whose epic names its pull request
  gedited,     \* every edit made (history)
  gdiscarded,  \* edits a reset or the abort of a merge threw away (history)
  gforced      \* Target was force-pushed (history)

gitEnv == <<ggiven, gextra, grunning, gedited>>
gitVars == <<glayout, gremote, gref, gtrack, gwt, gstash, gproc, ggiven, gextra, grunning, gprs,
             gextref, gedited, gdiscarded, gforced>>

Repo(d) == IF glayout = "shared" THEN Root ELSE d
RefOf(d, b) == gref[Repo(d)][b]
HeadOf(d) == RefOf(d, gwt[d].head)

-----------------------------------------------------------------------------
(* Jobs: a command is a sequence of them, worked through in order.          *)

Job(kind, ui, dir, src, force) ==
  [kind |-> kind, ui |-> ui, dir |-> dir, src |-> src, force |-> force]
IdleProc ==
  [todo |-> <<>>, pc |-> "idle", orig |-> NoBranch, counted |-> 0, stashed |-> FALSE,
   goal |-> {}, result |-> "none", alone |-> TRUE]
StartOf(job) ==
  CASE job.kind = "reset" -> "lock"
    [] job.kind = "epic" -> "lsremote"
    [] OTHER -> "fetch"
Cur(p) == Head(gproc[p].todo)
Busy(p) == gproc[p].todo # <<>>

\* The types of a job, a running command, a worktree and a stash entry.
JobType ==
  [kind : {"push", "pull", "pr", "reset", "epic"}, ui : {"api", "legacy", "cli", "batch", "daemon"},
   dir : Dirs, src : Branches, force : BOOLEAN]
ProcPlaces ==
  {"idle", "lock", "branch", "fetch", "count", "stash", "recount", "checkout", "pull", "compare", "merge",
   "agent", "push", "restore", "pop", "pullMerge", "abort", "pullPush", "prPush", "create", "view",
   "lsremote", "list", "info", "epicCreate", "store", "discard", "rehead", "force", "done"}
ProcResults ==
  {"none", "error", "upToDate", "conflict", "resolved", "pushed", "pulled", "created", "exists", "skipped",
   "aborted", "reset"}
ProcType ==
  [todo : Seq(JobType), pc : ProcPlaces, orig : Branches \cup {NoBranch}, counted : Nat, stashed : BOOLEAN,
   goal : SUBSET Commits, result : ProcResults, alone : BOOLEAN]
WorktreeType ==
  [head : Branches, edits : SUBSET Dirs, unmerged : BOOLEAN, incoming : SUBSET Commits,
   exposed : SUBSET Dirs]
StashType == [edits : SUBSET Dirs, base : SUBSET Commits]

GitTypeOK ==
  /\ glayout \in {"shared", "clones"}
  /\ gremote \in [Branches -> SUBSET Commits]
  /\ gref \in [Dirs -> [Branches -> SUBSET Commits]] /\ gtrack \in [Dirs -> [Branches -> SUBSET Commits]]
  /\ gwt \in [Dirs -> WorktreeType] /\ gstash \in [Dirs -> Seq(StashType)]
  /\ gproc \in [GitProcs -> ProcType]
  /\ ggiven \in BOOLEAN /\ gextra \in Nat /\ grunning \subseteq Dirs
  /\ gprs \subseteq Branches /\ gextref \subseteq Branches
  /\ gedited \subseteq Dirs /\ gdiscarded \subseteq Dirs /\ gforced \in BOOLEAN

\* Before the first command, agents may have committed, be at work on edits, have pushed their branch
\* and opened a pull request, others may have pushed, and a clone may have been left on Target
\* (by a person, or by an earlier push: see BranchIsRestored).  Worktrees of one repository are on
\* different branches: git refuses to check out a branch twice.
GitInit ==
  /\ glayout \in {"shared", "clones"}
  /\ glayout = "shared" => \A d, e \in Dirs \ {Root} : d # e => HomeBranch[d] # HomeBranch[e]
  /\ \E committed \in SUBSET Workers, pushed \in SUBSET {"upstream"} :
     \E published \in SUBSET committed :
       /\ gremote = [b \in Branches |->
            IF b = Target THEN pushed ELSE {d \in published : HomeBranch[d] = b}]
       /\ gref = [r \in Dirs |-> [b \in Branches |-> {d \in committed : HomeBranch[d] = b}]]
       /\ gprs \in SUBSET {HomeBranch[d] : d \in published}
  /\ gtrack = [r \in Dirs |-> [b \in Branches |-> IF b = Target THEN {} ELSE gremote[b]]]
  /\ gedited \in SUBSET (Workers \cup {d \in {Root} : glayout = "shared"})
  /\ grunning \in SUBSET (Workers \cap gedited)
  /\ \E away \in SUBSET {d \in Workers : glayout = "clones"} : gwt = [d \in Dirs |->
       [head |-> IF d \in away \/ (glayout = "shared" /\ d = Root) THEN Target ELSE HomeBranch[d],
        edits |-> {d} \cap gedited, unmerged |-> FALSE, incoming |-> {}, exposed |-> {}]]
  /\ gstash = [r \in Dirs |-> <<>>]
  /\ gproc = [p \in GitProcs |-> IdleProc]
  /\ ggiven = FALSE /\ gextra = 0 /\ gextref = {}
  /\ gdiscarded = {} /\ gforced = FALSE

Discovered == DirsOf(glayout)
DiscoveredBranch(d) == gwt[d].head

\* Where the work of d is pushed from: legacy commands run in the directory loom was started in.
PushUIs == IF glayout = "shared" THEN {"api", "legacy"} ELSE {"api", "cli"}
PushDir(ui, d) == IF ui = "legacy" THEN Root ELSE d
PushJob(ui, d) == Job("push", ui, PushDir(ui, d), DiscoveredBranch(d), FALSE)
PullJob(ui, d) == Job("pull", ui, d, DiscoveredBranch(d), FALSE)
PRJob(ui, d) == Job("pr", ui, PushDir(ui, d), DiscoveredBranch(d), FALSE)

\* The commands for all directories: jobs in the order of the listing.
DiscoveredDirs == Listing[glayout]
ForAll(job) == [i \in DOMAIN DiscoveredDirs |-> job[DiscoveredDirs[i]]]
PushAllJobs(ui) == ForAll([d \in Discovered |-> PushJob(ui, d)])
PullAllJobs(ui) == ForAll([d \in Discovered |-> PullJob(ui, d)])
PRAllJobs(ui) == ForAll([d \in Discovered |-> PRJob(ui, d)])
SyncJobs(ui, d) ==
  IF ui = "api" THEN <<PushJob(ui, d), PullJob(ui, d)>>
  ELSE PushAllJobs(ui) \o PullAllJobs(ui)
ResetJobs(ui, d, force) == <<Job("reset", ui, d, DiscoveredBranch(d), force)>>
\* reset --all asks once, before the first directory.
ResetAllJobs(force) ==
  ForAll([d \in Discovered |-> Job("reset", "batch", d, DiscoveredBranch(d), force)])

PushCommands == {<<PushJob(u, d)>> : u \in PushUIs, d \in Discovered} \cup {PushAllJobs(u) : u \in PushUIs}
PullCommands == {<<PullJob(u, d)>> : u \in PushUIs, d \in Discovered} \cup {PullAllJobs(u) : u \in PushUIs \ {"api"}}
SyncCommands == {SyncJobs(u, d) : u \in PushUIs, d \in Discovered}
PRCommands == {<<PRJob(u, d)>> : u \in PushUIs, d \in Discovered} \cup {PRAllJobs(u) : u \in PushUIs \ {"api"}}
ResetCommands ==
  {ResetJobs(u, d, f) : u \in PushUIs, d \in Discovered, f \in BOOLEAN}
    \cup {ResetAllJobs(f) : f \in BOOLEAN}
EpicCommands == {<<Job("epic", "daemon", d, HomeBranch[d], FALSE)>> : d \in Discovered}
Commands == PushCommands \cup PullCommands \cup SyncCommands \cup PRCommands \cup ResetCommands \cup EpicCommands

\* p starts the first job of todo; whoever works in the same directory is no longer alone there.
Starts(p, todo) ==
  LET d == Head(todo).dir
      others == {q \in GitProcs \ {p} : Busy(q) /\ Cur(q).dir = d}
  IN gproc' = [q \in GitProcs |->
       IF q = p THEN [IdleProc EXCEPT !.todo = todo, !.pc = StartOf(Head(todo)), !.alone = others = {}]
       ELSE IF q \in others THEN [gproc[q] EXCEPT !.alone = FALSE]
       ELSE gproc[q]]

Event == gextra < MaxExtra /\ gextra' = gextra + 1

\* The next free process, while commands may still be given.
MayCommand(p) ==
  /\ ~Busy(p) /\ \A q \in 1..(p - 1) : Busy(q)
  /\ ggiven => gextra < MaxExtra

\* Without any directory the commands for all of them say so and end.
GiveCommand(p, jobs) ==
  /\ jobs # <<>>
  /\ \/ ~ggiven /\ UNCHANGED gextra
     \/ /\ ggiven /\ Event
        /\ \A todo \in {jobs} \cup {gproc[q].todo : q \in {r \in GitProcs : Busy(r)}} :
             Len(todo) = 1 /\ <<Head(todo).kind, Head(todo).ui>> \in Second
  /\ ggiven' = TRUE
  /\ Starts(p, jobs)
  /\ UNCHANGED <<glayout, gremote, gref, gtrack, gwt, gstash, grunning, gprs, gextref, gedited, gdiscarded, gforced>>

-----------------------------------------------------------------------------
(* The git commands.                                                        *)

\* Checking out b in d: refused with an unfinished merge or when another worktree has b.
CanCheckout(d, b) ==
  /\ ~gwt[d].unmerged
  /\ \A x \in Dirs \ {d} : Repo(x) = Repo(d) => gwt[x].head # b
\* A dirty tree may stand in the way of any checkout or merge that changes files.
MayRefuse(d) == gwt[d].edits # {}
GitCheckout(d, b) == CanCheckout(d, b) /\ gwt' = [gwt EXCEPT ![d].head = b]
CheckoutFails(d, b) == (~CanCheckout(d, b) \/ MayRefuse(d)) /\ UNCHANGED gwt

\* The outcomes of merging the commits c into the branch checked out in d.
MergeResults(d, c) ==
  LET h == HeadOf(d)
      same == [ok |-> FALSE, ref |-> h, wt |-> gwt[d]]
  IN IF gwt[d].unmerged THEN {same}
     ELSE {[ok |-> TRUE, ref |-> h \cup c, wt |-> gwt[d]]}
       \cup {x \in {same} : MayRefuse(d) /\ ~(c \subseteq h)}
       \cup {x \in {[ok |-> FALSE, ref |-> h, wt |-> [gwt[d] EXCEPT !.unmerged = TRUE, !.incoming = c]]} :
                ~(c \subseteq h) /\ ~(h \subseteq c)}
GitMerge(d, r) ==
  /\ gref' = [gref EXCEPT ![Repo(d)][gwt[d].head] = r.ref]
  /\ gwt' = [gwt EXCEPT ![d] = r.wt]

\* No merge is under way any more; these edits are left.
MergeOver(wt, edits) ==
  [wt EXCEPT !.edits = edits, !.unmerged = FALSE, !.incoming = {}, !.exposed = {}]

\* GetConflictedFiles after a failed merge, whose own failure hides the conflicts.
SeesConflicts(r) == r.wt.unmerged

FastForward(d, b) == gremote[b] \subseteq RefOf(d, b)
GitPush(d, b) ==
  /\ FastForward(d, b)
  /\ gremote' = [gremote EXCEPT ![b] = RefOf(d, b)]
  /\ gtrack' = [gtrack EXCEPT ![Repo(d)][b] = RefOf(d, b)]

-----------------------------------------------------------------------------
(* The steps of a job.                                                      *)

GoTo(p, pc) == gproc' = [gproc EXCEPT ![p].pc = pc]
Report(p, result, pc) == gproc' = [gproc EXCEPT ![p].result = result, ![p].pc = pc]
At(p, pc) == Busy(p) /\ gproc[p].pc = pc

AfterFetch(kind) ==
  CASE kind = "push" -> "count" [] kind = "pull" -> "pullMerge" [] kind = "pr" -> "compare" [] OTHER -> "discard"

GitFetch(p) ==
  /\ At(p, "fetch")
  /\ \/ GoTo(p, AfterFetch(Cur(p).kind)) /\ gtrack' = [gtrack EXCEPT ![Repo(Cur(p).dir)] = gremote]
     \/ Report(p, "error", "done") /\ UNCHANGED gtrack
  /\ UNCHANGED <<glayout, gremote, gref, gwt, gstash, gprs, gextref, gdiscarded, gforced, gitEnv>>

\* GitStash counts the entries, stashes, and counts again: three commands.
CountStash(p) ==
  /\ At(p, "count")
  /\ \/ gproc' = [gproc EXCEPT ![p].counted = Len(gstash[Repo(Cur(p).dir)]), ![p].pc = "stash"]
     \/ Report(p, "error", "done")
  /\ UNCHANGED <<glayout, gremote, gref, gtrack, gwt, gstash, gprs, gextref, gdiscarded, gforced, gitEnv>>

StashChanges(p) ==
  /\ At(p, "stash")
  /\ LET d == Cur(p).dir IN
       \/ /\ ~gwt[d].unmerged
          /\ gstash' = IF gwt[d].edits = {} THEN gstash
                       ELSE [gstash EXCEPT ![Repo(d)] =
                               <<[edits |-> gwt[d].edits, base |-> HeadOf(d)]>> \o @]
          /\ gwt' = [gwt EXCEPT ![d].edits = {}]
          /\ GoTo(p, "recount")
       \/ gwt[d].unmerged /\ Report(p, "error", "done") /\ UNCHANGED <<gstash, gwt>>
  /\ UNCHANGED <<glayout, gremote, gref, gtrack, gprs, gextref, gdiscarded, gforced, gitEnv>>

RecountStash(p) ==
  /\ At(p, "recount")
  /\ \/ gproc' = [gproc EXCEPT ![p].stashed = Len(gstash[Repo(Cur(p).dir)]) > gproc[p].counted,
                               ![p].pc = "checkout"]
     \/ Report(p, "error", "done")
  /\ UNCHANGED <<glayout, gremote, gref, gtrack, gwt, gstash, gprs, gextref, gdiscarded, gforced, gitEnv>>

\* The command's error carries no text of git's, so isWorktreeConflictErr is false of it.
CheckoutTarget(p) ==
  /\ At(p, "checkout")
  /\ LET d == Cur(p).dir IN
       \/ /\ GitCheckout(d, Target)
          /\ gproc' = [gproc EXCEPT ![p].orig = gwt[d].head, ![p].pc = "pull"]
       \/ /\ CheckoutFails(d, Target)
          /\ gproc' = [gproc EXCEPT ![p].orig = gwt[d].head, ![p].result = "error", ![p].pc = "restore"]
  /\ UNCHANGED <<glayout, gremote, gref, gtrack, gstash, gprs, gextref, gdiscarded, gforced, gitEnv>>

GitPull(p) ==
  /\ At(p, "pull")
  /\ LET d == Cur(p).dir IN
       \/ \E r \in MergeResults(d, gremote[Target]) :
            /\ gtrack' = [gtrack EXCEPT ![Repo(d)][Target] = gremote[Target]]
            /\ GitMerge(d, r)
            /\ IF r.ok THEN GoTo(p, "compare") ELSE Report(p, "error", "restore")
       \/ Report(p, "error", "restore") /\ UNCHANGED <<gtrack, gref, gwt>>
  /\ UNCHANGED <<glayout, gremote, gstash, gprs, gextref, gdiscarded, gforced, gitEnv>>

\* Is there anything to merge?  The legacy commands compare with the local branch, the others
\* with the remote-tracking one; a failing git log counts as yes.
ComparedWithLocal(job) == RefOf(job.dir, Target)
ComparedWith(job) ==
  IF job.ui = "legacy" THEN RefOf(job.dir, Target) ELSE gtrack[Repo(job.dir)][Target]

HasCommitsBetween(p) ==
  /\ At(p, "compare")
  /\ LET job == Cur(p)
         next == IF job.kind = "pr" THEN "prPush" ELSE "merge"
     IN \/ GoTo(p, next)
        \/ /\ RefOf(job.dir, job.src) \subseteq ComparedWith(job)
           /\ Report(p, "upToDate", IF job.kind = "pr" THEN "done" ELSE "restore")
  /\ UNCHANGED <<glayout, gremote, gref, gtrack, gwt, gstash, gprs, gextref, gdiscarded, gforced, gitEnv>>

\* mergeSource.  The web server returns conflicts to its caller, the command line hands them to
\* an agent.
MergeSource(p) ==
  /\ At(p, "merge")
  /\ LET job == Cur(p)
         source == RefOf(job.dir, job.src)
     IN \E r \in MergeResults(job.dir, source) :
          /\ GitMerge(job.dir, r)
          /\ \/ r.ok /\ gproc' = [gproc EXCEPT ![p].goal = source, ![p].pc = "push"]
             \/ ~r.ok /\ SeesConflicts(r)
                /\ IF job.ui = "api" THEN Report(p, "conflict", "restore") ELSE GoTo(p, "agent")
             \/ ~r.ok /\ Report(p, "error", "restore")
  /\ UNCHANGED <<glayout, gremote, gtrack, gstash, gprs, gextref, gdiscarded, gforced, gitEnv>>

\* The agent finishes the merge and pushes, finishes it only, or leaves it; its exit says nothing
\* of that, and loom pushes nothing itself.
AgentResolves(p) ==
  /\ At(p, "agent")
  /\ LET d == Cur(p).dir
         after == IF Cur(p).kind = "push" THEN "restore" ELSE "done"
         merged == HeadOf(d) \cup gwt[d].incoming
     IN /\ \E result \in {"resolved", "error"} : Report(p, result, after)
        /\ \/ /\ gwt[d].unmerged
              /\ gref' = [gref EXCEPT ![Repo(d)][gwt[d].head] = merged]
              /\ gwt' = [gwt EXCEPT ![d] = MergeOver(gwt[d], gwt[d].edits)]
              /\ \/ /\ gremote[gwt[d].head] \subseteq merged
                    /\ gremote' = [gremote EXCEPT ![gwt[d].head] = merged]
                 \/ UNCHANGED gremote
           \/ UNCHANGED <<gref, gwt, gremote>>
  /\ UNCHANGED <<glayout, gtrack, gstash, gprs, gextref, gdiscarded, gforced, gitEnv>>

PushTarget(p) ==
  /\ At(p, "push")
  /\ \/ GitPush(Cur(p).dir, Target) /\ Report(p, "pushed", "restore")
     \/ Report(p, "error", "restore") /\ UNCHANGED <<gremote, gtrack>>
  /\ UNCHANGED <<glayout, gref, gwt, gstash, gprs, gextref, gdiscarded, gforced, gitEnv>>

\* The deferred calls, last first: back to the original branch, then the stash.
RestoreBranch(p) ==
  /\ At(p, "restore")
  /\ GoTo(p, "pop")
  /\ \/ GitCheckout(Cur(p).dir, gproc[p].orig)
     \/ CheckoutFails(Cur(p).dir, gproc[p].orig)
  /\ UNCHANGED <<glayout, gremote, gref, gtrack, gstash, gprs, gextref, gdiscarded, gforced, gitEnv>>

DropsWhatItPops(d) ==
  /\ gstash' = [gstash EXCEPT ![Repo(d)] = IF @ = <<>> THEN @ ELSE Tail(@)]
  /\ gwt' = IF gstash[Repo(d)] = <<>> \/ gwt[d].unmerged THEN gwt
            ELSE [gwt EXCEPT ![d].edits = @ \cup Head(gstash[Repo(d)]).edits]

\* git stash pop takes the latest entry of the repository.  It keeps the entry when it cannot
\* apply it: unmerged files, files in the way, or a conflict with a branch that has moved.
GitStashPop(d) ==
  LET r == Repo(d)
      top == Head(gstash[r])
  IN \/ /\ gstash[r] # <<>> /\ ~gwt[d].unmerged
        /\ gwt' = [gwt EXCEPT ![d].edits = @ \cup top.edits]
        /\ gstash' = [gstash EXCEPT ![r] = Tail(@)]
     \/ /\ gstash[r] # <<>> /\ ~gwt[d].unmerged /\ top.base # HeadOf(d)
        /\ gwt' = [gwt EXCEPT ![d].unmerged = TRUE, ![d].incoming = {}]
        /\ UNCHANGED gstash
     \/ /\ gstash[r] = <<>> \/ gwt[d].unmerged \/ MayRefuse(d)
        /\ UNCHANGED <<gwt, gstash>>
StashCleanup(p) ==
  /\ At(p, "pop")
  /\ GoTo(p, "done")
  /\ IF gproc[p].stashed THEN GitStashPop(Cur(p).dir) ELSE UNCHANGED <<gwt, gstash>>
  /\ UNCHANGED <<glayout, gremote, gref, gtrack, gprs, gextref, gdiscarded, gforced, gitEnv>>

-----------------------------------------------------------------------------
(* Pull: merge the remote's Target into whatever is checked out.            *)

PullMerge(p) ==
  /\ At(p, "pullMerge")
  /\ LET job == Cur(p)
         source == gtrack[Repo(job.dir)][Target]
     IN \E r \in MergeResults(job.dir, source) :
          /\ GitMerge(job.dir, r)
          /\ \/ r.ok /\ gproc' = [gproc EXCEPT ![p].goal = source, ![p].pc = "pullPush"]
             \/ ~r.ok /\ SeesConflicts(r)
                /\ IF job.ui = "api" THEN Report(p, "conflict", "abort") ELSE GoTo(p, "agent")
             \/ ~r.ok /\ Report(p, "error", IF job.ui = "api" THEN "abort" ELSE "done")
  /\ UNCHANGED <<glayout, gremote, gtrack, gstash, gprs, gextref, gdiscarded, gforced, gitEnv>>

\* git merge --abort undoes whatever merge is under way in the directory, and throws away what has
\* been edited meanwhile in the files in conflict.  It fails when one that was merged cleanly has
\* been edited; nobody looks at its error.
GitMergeAbort(p) ==
  /\ At(p, "abort")
  /\ GoTo(p, "done")
  /\ LET d == Cur(p).dir
         kept == gwt[d].edits \ gwt[d].exposed
     IN \/ /\ gwt[d].incoming # {}
           /\ gwt' = [gwt EXCEPT ![d] = MergeOver(gwt[d], kept)]
           /\ gdiscarded' = gdiscarded \cup gwt[d].exposed
        \/ (gwt[d].incoming = {} \/ kept # {}) /\ UNCHANGED <<gwt, gdiscarded>>
  /\ UNCHANGED <<glayout, gremote, gref, gtrack, gstash, gprs, gextref, gforced, gitEnv>>

PullPush(p) ==
  /\ At(p, "pullPush")
  /\ \/ GitPush(Cur(p).dir, Cur(p).src) /\ Report(p, "pulled", "done")
     \/ Report(p, "error", "done") /\ UNCHANGED <<gremote, gtrack>>
  /\ UNCHANGED <<glayout, gref, gwt, gstash, gprs, gextref, gdiscarded, gforced, gitEnv>>

-----------------------------------------------------------------------------
(* Pull requests.                                                           *)

PRPush(p) ==
  /\ At(p, "prPush")
  /\ \/ GitPush(Cur(p).dir, Cur(p).src) /\ GoTo(p, "create")
     \/ Report(p, "error", "done") /\ UNCHANGED <<gremote, gtrack>>
  /\ UNCHANGED <<glayout, gref, gwt, gstash, gprs, gextref, gdiscarded, gforced, gitEnv>>

\* gh refuses a second open pull request for a branch; loom then asks for the first one's URL.
CreatePR(p) ==
  /\ At(p, "create")
  /\ LET b == Cur(p).src IN
       \/ b \notin gprs /\ gprs' = gprs \cup {b} /\ Report(p, "created", "done")
       \/ b \in gprs /\ UNCHANGED gprs /\ GoTo(p, "view")
       \/ UNCHANGED gprs /\ Report(p, "error", "done")
  /\ UNCHANGED <<glayout, gremote, gref, gtrack, gwt, gstash, gextref, gdiscarded, gforced, gitEnv>>

GetExistingPRURL(p) ==
  /\ At(p, "view")
  /\ IF Cur(p).src \in gprs THEN \E r \in {"exists", "error"} : Report(p, r, "done")
     ELSE Report(p, "error", "done")
  /\ UNCHANGED <<glayout, gremote, gref, gtrack, gwt, gstash, gprs, gextref, gdiscarded, gforced, gitEnv>>

\* EnsureEpicPR: is the branch pushed, is there an open request, what is in the epic, create, store.
RemoteBranchPushed(p) ==
  /\ At(p, "lsremote")
  /\ \/ gremote[Cur(p).src] # {} /\ GoTo(p, "list")
     \/ Report(p, "skipped", "done")
  /\ UNCHANGED <<glayout, gremote, gref, gtrack, gwt, gstash, gprs, gextref, gdiscarded, gforced, gitEnv>>

GetOpenPR(p) ==
  /\ At(p, "list")
  /\ \/ Cur(p).src \in gprs /\ Report(p, "exists", "store")
     \/ Cur(p).src \notin gprs /\ GoTo(p, "info")
     \/ Report(p, "error", "done")
  /\ UNCHANGED <<glayout, gremote, gref, gtrack, gwt, gstash, gprs, gextref, gdiscarded, gforced, gitEnv>>

GetEpicInfo(p) ==
  /\ At(p, "info")
  /\ GoTo(p, "epicCreate") \/ Report(p, "error", "done")
  /\ UNCHANGED <<glayout, gremote, gref, gtrack, gwt, gstash, gprs, gextref, gdiscarded, gforced, gitEnv>>

CreateEpicPR(p) ==
  /\ At(p, "epicCreate")
  /\ \/ /\ Cur(p).src \notin gprs /\ gprs' = gprs \cup {Cur(p).src}
        /\ Report(p, "created", "store")
     \/ UNCHANGED gprs /\ Report(p, "error", "done")
  /\ UNCHANGED <<glayout, gremote, gref, gtrack, gwt, gstash, gextref, gdiscarded, gforced, gitEnv>>

StoreExternalRef(p) ==
  /\ At(p, "store")
  /\ GoTo(p, "done")
  /\ gextref' = gextref \cup {Cur(p).src} \/ UNCHANGED gextref
  /\ UNCHANGED <<glayout, gremote, gref, gtrack, gwt, gstash, gprs, gdiscarded, gforced, gitEnv>>

-----------------------------------------------------------------------------
(* Reset: the lock is looked at first, the damage is done later.            *)

ProtectsMasterOnly(b) == FALSE
IsProtectedBranch(b) == b = Target

CheckAgentLock(p) ==
  /\ At(p, "lock")
  /\ IF Cur(p).dir \in grunning /\ ~Cur(p).force THEN Report(p, "error", "done") ELSE GoTo(p, "branch")
  /\ UNCHANGED <<glayout, gremote, gref, gtrack, gwt, gstash, gprs, gextref, gdiscarded, gforced, gitEnv>>

\* The web server refuses a protected branch here, the command line after the damage is done; the
\* command line asks first.
Refuses(p, b) == IsProtectedBranch(b) /\ ~Cur(p).force
ReadBranch(p) ==
  /\ At(p, "branch")
  /\ LET b == gwt[Cur(p).dir].head IN
       \/ gproc' = [gproc EXCEPT ![p].orig = b,
            ![p].result = IF Cur(p).ui = "api" /\ Refuses(p, b) THEN "error" ELSE "none",
            ![p].pc = IF Cur(p).ui = "api" /\ Refuses(p, b) THEN "done" ELSE "fetch"]
       \/ Cur(p).ui \notin {"api", "batch"} /\ ~Cur(p).force /\ Report(p, "aborted", "done")
  /\ UNCHANGED <<glayout, gremote, gref, gtrack, gwt, gstash, gprs, gextref, gdiscarded, gforced, gitEnv>>

\* reset --hard HEAD and clean -fd, then reset --hard origin/Target.
Discards(d) ==
  /\ gdiscarded' = gdiscarded \cup gwt[d].edits
  /\ gwt' = [gwt EXCEPT ![d] = MergeOver(gwt[d], {})]
DiscardChanges(p) ==
  /\ At(p, "discard")
  /\ \/ GoTo(p, "rehead") /\ Discards(Cur(p).dir)
     \/ Report(p, "error", "done") /\ UNCHANGED <<gwt, gdiscarded>>
  /\ UNCHANGED <<glayout, gremote, gref, gtrack, gstash, gprs, gextref, gforced, gitEnv>>

ResetToTarget(p) ==
  /\ At(p, "rehead")
  /\ LET d == Cur(p).dir IN
       /\ Discards(d)
       /\ gref' = [gref EXCEPT ![Repo(d)][gwt[d].head] = gtrack[Repo(d)][Target]]
       /\ IF Cur(p).ui # "api" /\ Refuses(p, gproc[p].orig) THEN Report(p, "error", "done")
          ELSE GoTo(p, "force")
  /\ UNCHANGED <<glayout, gremote, gtrack, gstash, gprs, gextref, gforced, gitEnv>>

GitPushForce(p) ==
  /\ At(p, "force")
  /\ LET d == Cur(p).dir
         b == gproc[p].orig
     IN \/ /\ gremote' = [gremote EXCEPT ![b] = RefOf(d, b)]
           /\ gtrack' = [gtrack EXCEPT ![Repo(d)][b] = RefOf(d, b)]
           /\ gforced' = (gforced \/ (b = Target /\ Cur(p).force))
           /\ Report(p, "reset", "done")
        \/ Report(p, "error", "done") /\ UNCHANGED <<gremote, gtrack, gforced>>
  /\ UNCHANGED <<glayout, gref, gwt, gstash, gprs, gextref, gdiscarded, gitEnv>>

-----------------------------------------------------------------------------
(* The end of a job, the next one, and everybody else.                      *)

\* The web server's sync stops after a failed push; every other list goes on with the next
\* directory.  A pull of the web server or of legacy mode reads the branch when it starts.
RestOf(p) ==
  LET rest == Tail(gproc[p].todo)
      next == Head(rest)
      stop == next.kind # Cur(p).kind /\ Cur(p).ui = "api" /\ gproc[p].result \in {"error", "conflict"}
      reread == next.kind = "pull" /\ next.ui # "cli"
  IN IF rest = <<>> THEN <<>>
     ELSE IF stop THEN <<>>
     ELSE IF reread THEN <<[next EXCEPT !.src = gwt[next.dir].head]>> \o Tail(rest)
     ELSE rest

JobEnds(p) ==
  /\ At(p, "done")
  /\ IF RestOf(p) = <<>> THEN gproc' = [gproc EXCEPT ![p] = IdleProc] ELSE Starts(p, RestOf(p))
  /\ UNCHANGED <<glayout, gremote, gref, gtrack, gwt, gstash, gprs, gextref, gdiscarded, gforced, gitEnv>>

AgentStartsIn(d) ==
  /\ Event
  /\ d \notin grunning /\ grunning' = grunning \cup {d}
  /\ UNCHANGED <<glayout, gremote, gref, gtrack, gwt, gstash, gproc, ggiven, gprs, gextref, gedited, gdiscarded, gforced>>

AgentLeaves(d) ==
  /\ Event
  /\ d \in grunning /\ grunning' = grunning \ {d}
  /\ UNCHANGED <<glayout, gremote, gref, gtrack, gwt, gstash, gproc, ggiven, gprs, gextref, gedited, gdiscarded, gforced>>

AgentCommitsIn(d) ==
  /\ Event
  /\ ~gwt[d].unmerged
  /\ gref' = [gref EXCEPT ![Repo(d)][gwt[d].head] = @ \cup {d}]
  /\ UNCHANGED <<glayout, gremote, gtrack, gwt, gstash, gproc, ggiven, grunning, gprs, gextref, gedited, gdiscarded, gforced>>

\* A file is edited in d, by its agent or by the user; in a merge that failed it may be one of
\* those in conflict.
EditsIn(d) ==
  /\ Event
  /\ d \notin gedited /\ gedited' = gedited \cup {d}
  /\ \E exposed \in {gwt[d].exposed} \cup {gwt[d].exposed \cup {d} : c \in gwt[d].incoming} :
       gwt' = [gwt EXCEPT ![d].edits = @ \cup {d}, ![d].exposed = exposed]
  /\ UNCHANGED <<glayout, gremote, gref, gtrack, gstash, gproc, ggiven, grunning, gprs, gextref, gdiscarded, gforced>>

OthersPush ==
  /\ Event
  /\ gremote' = [gremote EXCEPT ![Target] = @ \cup {"upstream"}]
  /\ UNCHANGED <<glayout, gref, gtrack, gwt, gstash, gproc, ggiven, grunning, gprs, gextref, gedited, gdiscarded, gforced>>

\* A pull request is closed on GitHub.
PRCloses(b) ==
  /\ Event
  /\ b \in gprs /\ gprs' = gprs \ {b}
  /\ UNCHANGED <<glayout, gremote, gref, gtrack, gwt, gstash, gproc, ggiven, grunning, gextref, gedited, gdiscarded, gforced>>

GitPushSteps(p) ==
  \/ GitFetch(p) \/ CountStash(p) \/ StashChanges(p) \/ RecountStash(p) \/ CheckoutTarget(p) \/ GitPull(p)
  \/ HasCommitsBetween(p) \/ MergeSource(p) \/ AgentResolves(p) \/ PushTarget(p) \/ RestoreBranch(p)
  \/ StashCleanup(p)
GitPullSteps(p) == PullMerge(p) \/ GitMergeAbort(p) \/ PullPush(p)
GitPRSteps(p) ==
  \/ PRPush(p) \/ CreatePR(p) \/ GetExistingPRURL(p)
  \/ RemoteBranchPushed(p) \/ GetOpenPR(p) \/ GetEpicInfo(p) \/ CreateEpicPR(p) \/ StoreExternalRef(p)
GitResetSteps(p) ==
  CheckAgentLock(p) \/ ReadBranch(p) \/ DiscardChanges(p) \/ ResetToTarget(p) \/ GitPushForce(p)

GitNext ==
  \/ \E p \in GitProcs :
       \/ MayCommand(p) /\ \E jobs \in Commands : GiveCommand(p, jobs)
       \/ GitPushSteps(p) \/ GitPullSteps(p) \/ GitPRSteps(p) \/ GitResetSteps(p) \/ JobEnds(p)
  \/ \E d \in Workers : AgentStartsIn(d) \/ AgentLeaves(d) \/ AgentCommitsIn(d) \/ EditsIn(d)
  \/ OthersPush
  \/ \E b \in Branches : PRCloses(b)

GitSpec == GitInit /\ [][GitNext]_gitVars

-----------------------------------------------------------------------------
(* Properties.                                                              *)

Stashed(r) == UNION {gstash[r][i].edits : i \in DOMAIN gstash[r]}

\* No uncommitted edit is lost: whatever commands run beside each other in whatever directories,
\* and wherever they fail, an edit is in a working tree or in a stash unless a reset discarded it
\* or it was made in a file in conflict before the web server's pull aborted its merge.
\* With clones of their own, directories do not receive each other's edits either.
EditsAreSafe ==
  /\ gedited \subseteq (UNION {gwt[d].edits \cup Stashed(d) : d \in Dirs}) \cup gdiscarded
  /\ glayout = "clones" => \A d \in Dirs : gwt[d].edits \cup Stashed(d) \subseteq {d}

\* What a finished step reports is so on the remote: "pushed" and "already up to date" mean that
\* the integration branch contains the work, "pulled" that the pushed branch contains what was
\* pulled, a pull request that is created or exists is open.  The command must have had its
\* directory to itself; the legacy push's "already up to date" is excepted (it compares with the
\* local branch), as is a command-line pull (it pushes a branch name read earlier).
TruthOf(p, result) ==
  LET job == Cur(p) IN
    CASE result = "pushed" -> gproc[p].goal \subseteq gremote'[Target]
      [] result = "upToDate" /\ job.ui # "legacy" -> RefOf(job.dir, job.src) \subseteq gremote'[Target]
      [] result = "pulled" /\ job.ui = "api" -> gproc[p].goal \subseteq gremote'[job.src]
      [] result \in {"created", "exists"} -> job.src \in gprs'
      [] OTHER -> TRUE
GitReportsAreTrue ==
  [][\A p \in GitProcs :
       (Busy(p) /\ gproc'[p].result # gproc[p].result /\ gproc[p].alone /\ ~gforced)
         => TruthOf(p, gproc'[p].result)]_gitVars

\* The remote's integration branch never loses a commit, unless a reset is told to force it.
MainOnlyGrows == [][gremote[Target] \subseteq gremote'[Target] \/ gforced']_gitVars

\* When a push is over, its directory is on the branch it was on before.
BranchIsRestored ==
  \A p \in GitProcs :
    At(p, "done") /\ Cur(p).kind = "push" /\ gproc[p].orig # NoBranch /\ gproc[p].alone
      /\ gwt[Cur(p).dir].edits = {}
      => gwt[Cur(p).dir].head = gproc[p].orig
=============================================================================

----------------------------- MODULE Workspaces -----------------------------
(***************************************************************************)
(* The workspace generations of one task                                   *)
(* (internal/task/workspace_lifecycle.go, internal/workspace/finalize.go,  *)
(* generation.go, internal/store/workspaces.go, and what startOne,         *)
(* runLoop, cancelTask and Recover of internal/task/engine.go do about     *)
(* them): a worktree is provisioned, worked in, completed by the agent,    *)
(* merged into the user's branch and removed, while the user works in the  *)
(* same repository, cancels the task, or the daemon dies.                  *)
(*                                                                         *)
(* One step is one store statement or transaction, one git command or a    *)
(* run of reads, one hold of Engine.mu.  A commit is the set of the        *)
(* commits it contains, itself included, so "is an ancestor of" is set     *)
(* inclusion.                                                              *)
(*                                                                         *)
(* What module TaskEngine has in detail is coarse here: a turn starts when *)
(* the goroutine of the last one has ended, an agent is gone when its      *)
(* handle is canceled, interrupts and queued prompts are left out.  Left   *)
(* out too: retries (module RetrySaga), forks, orchestrated turns,         *)
(* generations from before the table (legacy_pending), deletion.           *)
(***************************************************************************)
EXTENDS Integers, Sequences, FiniteSets

CONSTANTS
  None,
  UserOps,      \* what the user does in the repository, of AllUserOps
  MaxGens,      \* bound: generations of the task
  MaxTurns,     \* bound: messages of the user
  MaxCommits,   \* bound: commits anybody makes
  MaxTroubles   \* bound: troubles, each of them a step of the user in the repository,
                \*   a cancel (of which statements may fail), a git command or another
                \*   statement on a generation that fails for no reason, or a death of
                \*   the daemon

Callers    == {"run", "agent", "rec"}     \* of RequestWorkspace and provisionWorkspace
AllUserOps == {"commit", "dirty", "switch", "merge", "remove"}

ASSUME WorkspacesAssumption ==
  /\ UserOps \subseteq AllUserOps
  /\ None \notin Callers \cup {"fz", "cancel", "complete"}
  /\ \A S \in SUBSET (0..MaxCommits) : None # S
  /\ MaxGens \in Nat \ {0} /\ MaxTurns \in Nat \ {0} /\ MaxCommits \in Nat
  /\ MaxTroubles \in Nat

Gens     == 1..MaxGens
Branches == {"main", "other"}

VARIABLES
  policy,   \* the task's workspace policy
  task,     \* its row: status, current_workspace_id (0 for none), started_at set
  gen,      \* task_workspaces
  tree,     \* the worktree of each generation
  src,      \* the user's checkout: where its branches are, the one it is on, dirty
  author,   \* who made each commit: a generation's agent, or the user (0)
  mem,      \* Engine's maps and start queue
  lock,     \* Manager.generationLocks: by generation, 0 before it has a root
  run,      \* the run of the current turn: startOne, its agent, runLoop
  req,      \* RequestWorkspace and provisionWorkspace, by caller
  fz,       \* finalizeWorkspace
  cancel,   \* cancelTask
  calls,    \* complete_workspace requests on their way, by execution
  complete, \* CompleteWorkspace between what it has read and what it writes
  mode,     \* where the daemon is: down, in a step of Recover, up
  execs,    \* execution ids handed out
  stopped,  \* history: executions the user's cancel was accepted for
  removed,  \* history: generations whose worktree the user removed
  stuck,    \* history: generations an error has left as they were since the daemon's start
  turns, troubles

bounds == <<turns, troubles>>
ghosts == <<stopped, removed, stuck>>
engine == <<mem, lock, run, req, fz, cancel, calls, complete, mode, execs>>
vars   == <<policy, task, gen, tree, src, author, mem, lock, run, req, fz, cancel,
            calls, complete, mode, execs, stopped, removed, stuck, turns, troubles>>

Terminal == {"succeeded", "failed", "canceled"}
Blocked  == {"merge_blocked", "finalize_blocked"}
Open     == {"provisioning", "ready", "active", "finalizing", "integrated"} \cup Blocked

Commits == 0..MaxCommits
NoRow   == [state |-> "none", root |-> FALSE, base |-> {}, target |-> "main",
            owner |-> 0, done |-> 0, review |-> None, final |-> None]
NoTree  == [there |-> FALSE, head |-> {}, dirty |-> FALSE]
Forgotten == [queued |-> FALSE, active |-> 0, handle |-> FALSE, canceled |-> FALSE,
              committing |-> None]
Idle    == [pc |-> "idle", gen |-> 0, key |-> 0]
NoRun   == [pc |-> "idle", exec |-> 0, where |-> 0, wasCanceled |-> FALSE, outcome |-> "none"]
NoFz    == [pc |-> "idle", by |-> "run", gen |-> 0, seen |-> {}, head |-> {},
            review |-> {}, had |-> FALSE]
NoCall  == [exec |-> 0, gen |-> 0, from |-> "none"]

TypeOK ==
  /\ policy \in {"auto", "worktree"}
  /\ task \in [status : {"queued", "running"} \cup Terminal, current : 0..MaxGens,
               started : BOOLEAN]
  /\ \A g \in Gens :
       /\ gen[g].state \in Open \cup {"none", "released", "orphaned"}
       /\ gen[g].base \subseteq Commits /\ gen[g].target \in Branches
       /\ gen[g].owner \in 0..execs /\ gen[g].done \in 0..execs
       /\ gen[g].final = None \/ gen[g].final \subseteq Commits
       /\ gen[g].state \in Open <=> task.current = g
  /\ tree \in [Gens -> [there : BOOLEAN, head : SUBSET Commits, dirty : BOOLEAN]]
  /\ src \in [heads : [Branches -> SUBSET Commits], on : Branches, dirty : BOOLEAN]
  /\ author \in Seq(0..MaxGens) /\ Len(author) <= MaxCommits
  /\ mem \in [queued : BOOLEAN, active : 0..execs, handle : BOOLEAN, canceled : BOOLEAN,
              committing : {"run", "rec", None}]
  /\ lock \in [0..MaxGens -> {"run", "agent", "fz", "cancel", "complete", None}]
  /\ run \in [pc : {"idle", "request", "claim", "begin", "resolve", "live", "finalize",
                    "finalizing", "after"},
              exec : 0..execs, where : 0..MaxGens, wasCanceled : BOOLEAN,
              outcome : {"none", "ok", "failed", "canceled"}]
  /\ run.pc = "live" => mem.handle /\ mem.active = run.exec
  /\ req \in [Callers -> [pc : {"idle", "look", "insert", "lock", "tree", "ready", "ok", "failed"},
                          gen : 0..MaxGens, key : 0..MaxGens]]
  /\ fz.pc \in {"idle", "lock", "inspect", "target", "snapshot", "commit", "check", "merge",
                "record", "release", "released"}
  /\ fz.by \in {"run", "rec"} /\ fz.gen \in 0..MaxGens
  /\ cancel \in [pc : {"idle", "look", "lock", "end"}, gen : 0..MaxGens, key : 0..MaxGens]
  /\ calls \subseteq 1..execs
  /\ complete \in [exec : 0..execs, gen : 0..MaxGens, from : {"none", "active"} \cup Blocked]
  /\ mode \in {"down", "look", "provision", "finalize", "release", "released", "up"}
  /\ stopped \subseteq 1..execs /\ removed \subseteq Gens /\ stuck \subseteq Gens
  /\ turns \in 1..MaxTurns /\ troubles \in 0..MaxTroubles

\* Create: lazily (policy auto) without a workspace, else with an active one.
Init ==
  /\ policy \in {"auto", "worktree"}
  /\ LET eager == policy = "worktree" IN
       /\ task = [status |-> "queued", current |-> IF eager THEN 1 ELSE 0, started |-> FALSE]
       /\ gen = [g \in Gens |-> IF eager /\ g = 1
                                THEN [NoRow EXCEPT !.state = "active", !.root = TRUE, !.base = {0}]
                                ELSE NoRow]
       /\ tree = [g \in Gens |-> IF eager /\ g = 1
                                 THEN [NoTree EXCEPT !.there = TRUE, !.head = {0}] ELSE NoTree]
  /\ src = [heads |-> [b \in Branches |-> IF b = "main" THEN {0} ELSE {}],
            on |-> "main", dirty |-> FALSE]
  /\ author = <<>>
  /\ mem = [Forgotten EXCEPT !.queued = TRUE]
  /\ lock = [k \in 0..MaxGens |-> None]
  /\ run = NoRun /\ req = [p \in Callers |-> Idle] /\ fz = NoFz /\ cancel = Idle
  /\ calls = {} /\ complete = NoCall /\ mode = "up" /\ execs = 0
  /\ stopped = {} /\ removed = {} /\ stuck = {}
  /\ turns = 1 /\ troubles = 0

-----------------------------------------------------------------------------
(* Helpers *)

Current == gen[task.current]
SourceHead    == src.heads[src.on]
Fresh   == Len(author) + 1      \* the next commit
CanCommit == Len(author) < MaxCommits

\* LockGeneration locks the path of the worktree, and a generation has none until
\* it is ready.
Key(g) == IF gen[g].root THEN g ELSE 0
Unlocked(p) == [k \in 0..MaxGens |-> IF lock[k] = p THEN None ELSE lock[k]]

Trouble == troubles < MaxTroubles /\ troubles' = troubles + 1

\* What is left between a request and its outcome when an error is only returned, or
\* dropped: nobody comes back to it before the daemon's next start.
Left(g) == IF g # 0 /\ gen[g].state \in {"finalizing", "integrated"} THEN stuck \cup {g} ELSE stuck

-----------------------------------------------------------------------------
(* RequestWorkspace: for a follow-up that has no workspace, or at the wish of a *)
(* read-only agent; Recover provisions without asking and without the lock.     *)

rq(p) == req[p].pc
\* The agent's request is answered, the other two callers go on with the result.
Answer(p, pc) == [req EXCEPT ![p] = IF p = "agent" THEN Idle ELSE [@ EXCEPT !.pc = pc]]

\* The current generation, or a new one.
RqLook(p) ==
  /\ rq(p) = "look"
  /\ req' = [req EXCEPT ![p] =
       IF task.current = 0 THEN [Idle EXCEPT !.pc = "insert"]
       ELSE [pc |-> "lock", gen |-> task.current, key |-> Key(task.current)]]
  /\ UNCHANGED <<policy, task, gen, tree, src, author, mem, lock, run, fz, cancel, calls,
                 complete, mode, execs, ghosts, bounds>>

\* Mutant: no index refuses a second open generation.
InsertAlways(p) ==
  LET g == Cardinality({h \in Gens : gen[h].state # "none"}) + 1 IN
  /\ rq(p) = "insert" /\ g \in Gens
  /\ gen' = [gen EXCEPT ![g] = [NoRow EXCEPT !.state = "provisioning", !.base = SourceHead,
                                             !.target = src.on, !.owner = run.exec]]
  /\ task' = [task EXCEPT !.current = g]
  /\ req' = [req EXCEPT ![p] = [pc |-> "lock", gen |-> g, key |-> 0]]
  /\ UNCHANGED <<policy, tree, src, author, mem, lock, run, fz, cancel, calls, complete,
                 mode, execs, ghosts, bounds>>

\* ensureWorkspace: InsertWorkspaceAsCurrent, on the branch the user is on; the
\* index task_workspaces_one_open refuses a second open generation.
RqInsert(p) ==
  LET g == Cardinality({h \in Gens : gen[h].state # "none"}) + 1 IN
  /\ rq(p) = "insert"
  /\ IF \E h \in Gens : gen[h].state \in Open
     THEN req' = Answer(p, "failed") /\ UNCHANGED <<task, gen>>
     ELSE /\ g \in Gens
          /\ gen' = [gen EXCEPT ![g] = [NoRow EXCEPT !.state = "provisioning", !.base = SourceHead,
                                                     !.target = src.on, !.owner = run.exec]]
          /\ task' = [task EXCEPT !.current = g]
          /\ req' = [req EXCEPT ![p] = [pc |-> "lock", gen |-> g, key |-> 0]]
  /\ UNCHANGED <<policy, tree, src, author, mem, lock, run, fz, cancel, calls, complete,
                 mode, execs, ghosts, bounds>>

\* Under the lock the generation is read again.
RqLock(p) ==
  LET g == req[p].gen IN
  /\ rq(p) = "lock" /\ lock[req[p].key] = None
  /\ IF gen[g].state = "provisioning"
     THEN lock' = [lock EXCEPT ![req[p].key] = p] /\ req' = [req EXCEPT ![p].pc = "tree"]
     ELSE /\ req' = Answer(p, IF gen[g].state = "ready" THEN "ok" ELSE "failed")
          /\ UNCHANGED lock
  /\ UNCHANGED <<policy, task, gen, tree, src, author, mem, run, fz, cancel, calls,
                 complete, mode, execs, ghosts, bounds>>

\* PrepareGeneration adopts the worktree a dead daemon has left, if it is what it
\* would make, else adds one.
RqTree(p) ==
  LET g == req[p].gen IN
  /\ rq(p) = "tree"
  /\ \/ /\ ~tree[g].there \/ tree[g].head = gen[g].base
        /\ tree' = [tree EXCEPT ![g] = IF @.there THEN @
                      ELSE [there |-> TRUE, head |-> gen[g].base, dirty |-> FALSE]]
        /\ req' = [req EXCEPT ![p].pc = "ready"] /\ UNCHANGED troubles /\ UNCHANGED lock
     \/ /\ ~tree[g].there /\ Trouble
        /\ req' = Answer(p, "failed") /\ lock' = Unlocked(p) /\ UNCHANGED tree
  /\ UNCHANGED <<policy, task, gen, src, author, mem, run, fz, cancel, calls, complete,
                 mode, execs, ghosts, turns>>

\* The first checkpoint, and CompleteWorkspaceProvisioning.  If either fails the
\* worktree is removed.
RqReady(p) ==
  LET g == req[p].gen IN
  /\ rq(p) = "ready"
  /\ \/ /\ gen[g].state = "provisioning" /\ tree[g].there
        /\ gen' = [gen EXCEPT ![g].state = "ready", ![g].root = TRUE]
        /\ req' = Answer(p, "ok") /\ UNCHANGED troubles /\ UNCHANGED tree
     \/ /\ IF tree[g].there THEN Trouble ELSE UNCHANGED troubles
        /\ tree' = [tree EXCEPT ![g] = NoTree]
        /\ req' = Answer(p, "failed") /\ UNCHANGED gen
  /\ lock' = Unlocked(p)
  /\ UNCHANGED <<policy, task, src, author, mem, run, fz, cancel, calls, complete, mode,
                 execs, ghosts, turns>>

\* A statement fails before there is a worktree: the row, if there is one, stays.
RqFails(p) ==
  /\ rq(p) \in {"look", "insert", "lock"} /\ Trouble
  /\ req' = Answer(p, "failed")
  /\ UNCHANGED <<policy, task, gen, tree, src, author, mem, lock, run, fz, cancel, calls,
                 complete, mode, execs, ghosts, turns>>

Request(p) == RqFails(p) \/ RqLook(p) \/ RqInsert(p) \/ RqLock(p) \/ RqTree(p) \/ RqReady(p)

-----------------------------------------------------------------------------
(* A turn: startOne, the agent, runLoop *)

Owns(r) == mem.active = r.exec
Quit    == run' = NoRun

\* failQueuedRunStart and failRunningStart, for the execution that is active.
StartFails ==
  /\ Quit
  /\ task' = [task EXCEPT !.status = IF Owns(run) THEN "failed" ELSE @]
  /\ mem' = [mem EXCEPT !.active = IF Owns(run) THEN 0 ELSE @]

\* pump takes the task from the queue; startOne drops one that is not queued.
\* A turn after the first is never begun without a workspace.
Pop ==
  /\ mode = "up" /\ mem.queued /\ run.pc = "idle"
  /\ execs' = execs + 1
  /\ LET go == task.status = "queued"
         request == task.started /\ task.current = 0
     IN /\ mem' = [mem EXCEPT !.queued = FALSE, !.canceled = FALSE,
                              !.active = IF go THEN execs + 1 ELSE 0]
        /\ run' = IF ~go THEN NoRun
                  ELSE [NoRun EXCEPT !.pc = IF request THEN "request" ELSE "claim",
                                     !.exec = execs + 1]
        /\ req' = [req EXCEPT !["run"].pc = IF go /\ request THEN "look" ELSE "idle"]
  /\ UNCHANGED <<policy, task, gen, tree, src, author, lock, fz, cancel, calls, complete,
                 mode, ghosts, bounds>>

Requested ==
  /\ run.pc = "request" /\ rq("run") \in {"ok", "failed"}
  /\ req' = [req EXCEPT !["run"] = Idle]
  /\ IF rq("run") = "ok" THEN run' = [run EXCEPT !.pc = "claim"] /\ UNCHANGED <<task, mem>>
                         ELSE StartFails
  /\ UNCHANGED <<policy, gen, tree, src, author, lock, fz, cancel, calls, complete, mode,
                 execs, ghosts, bounds>>

\* Mutant: the claim does not wait for the lock.
ClaimUnlocked ==
  /\ run.pc = "claim"
  /\ IF ~Owns(run) THEN Quit /\ UNCHANGED <<task, gen, mem>>
     ELSE IF task.current = 0
          THEN run' = [run EXCEPT !.pc = "begin"] /\ UNCHANGED <<task, gen, mem>>
     ELSE IF Current.state \in {"ready", "active"} \cup Blocked
          THEN /\ gen' = [gen EXCEPT ![task.current].owner = run.exec]
               /\ run' = [run EXCEPT !.pc = "begin"] /\ UNCHANGED <<task, mem>>
          ELSE StartFails /\ UNCHANGED gen
  /\ UNCHANGED <<policy, tree, src, author, lock, req, fz, cancel, calls, complete, mode,
                 execs, ghosts, bounds>>

\* claimCurrentWorkspaceExecution, under the lock: from now on only this execution
\* may complete the generation.
Claim ==
  /\ run.pc = "claim"
  /\ IF ~Owns(run) THEN Quit /\ UNCHANGED <<task, gen, mem>>
     ELSE IF task.current = 0
          THEN run' = [run EXCEPT !.pc = "begin"] /\ UNCHANGED <<task, gen, mem>>
     ELSE /\ lock[Key(task.current)] = None
          /\ IF Current.state \in {"ready", "active"} \cup Blocked
             THEN /\ gen' = [gen EXCEPT ![task.current].owner = run.exec]
                  /\ run' = [run EXCEPT !.pc = "begin"] /\ UNCHANGED <<task, mem>>
             ELSE StartFails /\ UNCHANGED gen
  /\ UNCHANGED <<policy, tree, src, author, lock, req, fz, cancel, calls, complete, mode,
                 execs, ghosts, bounds>>

\* The claim's read or write fails.
ClaimFails ==
  /\ run.pc = "claim" /\ Owns(run) /\ Trouble
  /\ StartFails
  /\ UNCHANGED <<policy, gen, tree, src, author, lock, req, fz, cancel, calls, complete,
                 mode, execs, ghosts, turns>>

\* StartQueuedTask
Begin ==
  /\ run.pc = "begin"
  /\ IF Owns(run) /\ task.status = "queued"
     THEN /\ task' = [task EXCEPT !.status = "running", !.started = TRUE]
          /\ run' = [run EXCEPT !.pc = "resolve"] /\ UNCHANGED mem
     ELSE /\ Quit /\ UNCHANGED task
          /\ mem' = [mem EXCEPT !.active = IF Owns(run) THEN 0 ELSE @]
  /\ UNCHANGED <<policy, gen, tree, src, author, lock, req, fz, cancel, calls, complete,
                 mode, execs, ghosts, bounds>>

\* Without a generation a lazy task's agent reads the source, and another's works in
\* the directory its row names, the first generation's.
Elsewhere == IF policy = "auto" THEN 0 ELSE 1

\* Where resolveRunWorkspace sends the agent: to a ready or active generation, else
\* elsewhere.
Where == IF task.current # 0 /\ Current.state \in {"ready", "active"} THEN task.current
         ELSE Elsewhere

\* The adapter starts in place w.
StartIn(w) ==
  IF ~Owns(run) THEN Quit /\ UNCHANGED <<task, mem>>
  ELSE IF w # 0 /\ ~tree[w].there THEN StartFails
  ELSE /\ run' = [run EXCEPT !.pc = "live", !.where = w]
       /\ mem' = [mem EXCEPT !.handle = TRUE] /\ UNCHANGED task

\* resolveRunWorkspace makes a ready generation active.
Resolve ==
  /\ run.pc = "resolve"
  /\ gen' = IF task.current # 0 /\ Current.state = "ready"
            THEN [gen EXCEPT ![task.current].state = "active"] ELSE gen
  /\ StartIn(Where)
  /\ UNCHANGED <<policy, tree, src, author, lock, req, fz, cancel, calls, complete, mode,
                 execs, ghosts, bounds>>

\* Its read or write fails: the agent starts all the same, as if there were none.
ResolveFails ==
  /\ run.pc = "resolve" /\ task.current # 0 /\ Trouble
  /\ StartIn(Elsewhere)
  /\ UNCHANGED <<policy, gen, tree, src, author, lock, req, fz, cancel, calls, complete,
                 mode, execs, ghosts, turns>>

\* The agent commits, and may leave changes uncommitted.
AgentCommits ==
  /\ run.pc = "live" /\ run.where # 0 /\ tree[run.where].there /\ CanCommit
  /\ author' = Append(author, run.where)
  /\ \E dirty \in BOOLEAN :
       tree' = [tree EXCEPT ![run.where].head = @ \cup {Fresh}, ![run.where].dirty = dirty]
  /\ UNCHANGED <<policy, task, gen, src, engine, ghosts, bounds>>

\* The agent merges the target branch into its workspace, as it is told to when
\* the target has moved on.
AgentMerges ==
  LET g == run.where  theirs == src.heads[gen[run.where].target] IN
  /\ run.pc = "live" /\ g # 0 /\ tree[g].there /\ ~(theirs \subseteq tree[g].head)
  /\ IF tree[g].head \subseteq theirs
     THEN tree' = [tree EXCEPT ![g].head = theirs] /\ UNCHANGED author
     ELSE /\ CanCommit /\ author' = Append(author, g)
          /\ tree' = [tree EXCEPT ![g].head = @ \cup theirs \cup {Fresh}]
  /\ UNCHANGED <<policy, task, gen, src, engine, ghosts, bounds>>

\* Tools of the agent; a request may arrive after its turn.
AgentRequests ==
  /\ run.pc = "live" /\ rq("agent") = "idle" /\ run.where = 0
  /\ req' = [req EXCEPT !["agent"].pc = "look"]
  /\ UNCHANGED <<policy, task, gen, tree, src, author, mem, lock, run, fz, cancel, calls,
                 complete, mode, execs, ghosts, bounds>>

AgentCompletes ==
  /\ run.pc = "live" /\ run.exec \notin calls
  /\ calls' = calls \cup {run.exec}
  /\ UNCHANGED <<policy, task, gen, tree, src, author, mem, lock, run, req, fz, cancel,
                 complete, mode, execs, ghosts, bounds>>

\* Whether CompleteWorkspace accepts execution x, by what it reads under the lock.
Completable(x) ==
  /\ task.status = "running" /\ Current.owner \in {0, x}
  /\ Current.state \in {"active"} \cup Blocked

\* It keeps the lock of the generation from its reads to its write.  The end of the
\* turn does not wait for that lock.
CompleteReads(x) ==
  /\ mode = "up" /\ complete = NoCall /\ x \in calls
  /\ calls' = calls \ {x}
  /\ IF task.current = 0 THEN UNCHANGED <<lock, complete>>
     ELSE /\ lock[Key(task.current)] = None
          /\ IF Completable(x)
             THEN /\ lock' = [lock EXCEPT ![Key(task.current)] = "complete"]
                  /\ complete' = [exec |-> x, gen |-> task.current, from |-> Current.state]
             ELSE UNCHANGED <<lock, complete>>
  /\ UNCHANGED <<policy, task, gen, tree, src, author, mem, run, req, fz, cancel, mode,
                 execs, ghosts, bounds>>

\* The write: it looks at the state of the generation once more, and at nothing else.
CompleteWrites ==
  LET g == complete.gen IN
  /\ complete # NoCall
  /\ \/ /\ gen[g].state = complete.from
        /\ gen' = [gen EXCEPT ![g] = [@ EXCEPT !.state = "finalizing", !.done = complete.exec,
                                               !.review = None, !.final = None]]
        /\ UNCHANGED troubles
     \/ /\ IF gen[g].state = complete.from THEN Trouble ELSE UNCHANGED troubles
        /\ UNCHANGED gen
  /\ lock' = Unlocked("complete") /\ complete' = NoCall
  /\ UNCHANGED <<policy, task, tree, src, author, mem, run, req, fz, cancel, calls, mode,
                 execs, ghosts, turns>>

\* The agent's process has ended, of itself or killed.
Exit ==
  /\ run.pc = "live"
  /\ mem' = [mem EXCEPT !.committing = "run", !.handle = FALSE, !.canceled = FALSE]
  /\ run' = [run EXCEPT !.pc = "finalize", !.wasCanceled = mem.canceled]
  /\ UNCHANGED <<policy, task, gen, tree, src, author, lock, req, fz, cancel, calls,
                 complete, mode, execs, ghosts, bounds>>

\* finalizeRequestedWorkspace
Finalize ==
  /\ run.pc = "finalize"
  /\ IF task.current # 0 /\ Current.state = "finalizing"
     THEN /\ run' = [run EXCEPT !.pc = "finalizing"]
          /\ fz' = [NoFz EXCEPT !.pc = "lock", !.by = "run", !.gen = task.current]
     ELSE run' = [run EXCEPT !.pc = "after"] /\ UNCHANGED fz
  /\ UNCHANGED <<policy, task, gen, tree, src, author, mem, lock, req, cancel, calls,
                 complete, mode, execs, ghosts, bounds>>

\* A read-only turn that was given a workspace is queued again, to run in it.
Promoted == /\ run.where = 0 /\ ~run.wasCanceled /\ task.status # "canceled"
            /\ task.current # 0 /\ Current.state = "ready"

\* The end of runLoop.  finishRun is refused to an execution that is not active.
After ==
  /\ run.pc = "after"
  /\ \E final \in {"succeeded", "failed"} :
       LET status == IF run.wasCanceled \/ task.status = "canceled" THEN "canceled"
                     ELSE IF run.outcome \in {"failed", "canceled"} THEN run.outcome ELSE final
       IN task' = [task EXCEPT !.status = IF Promoted THEN "queued"
                                          ELSE IF Owns(run) THEN status ELSE @]
  /\ mem' = [mem EXCEPT !.queued = @ \/ Promoted, !.committing = None,
                        !.active = IF Owns(run) THEN 0 ELSE @]
  /\ Quit
  /\ UNCHANGED <<policy, gen, tree, src, author, lock, req, fz, cancel, calls, complete,
                 mode, execs, ghosts, bounds>>

\* finalizeRequestedWorkspace cannot read the generation.
FinalizeFails ==
  /\ run.pc = "finalize" /\ Trouble
  /\ run' = [run EXCEPT !.pc = "after", !.outcome = "failed"]
  /\ stuck' = Left(task.current)
  /\ UNCHANGED <<policy, task, gen, tree, src, author, mem, lock, req, fz, cancel, calls,
                 complete, mode, execs, stopped, removed, turns>>

Turn == \/ Pop \/ Requested \/ Claim \/ ClaimFails \/ Begin \/ Resolve \/ ResolveFails
        \/ Exit \/ Finalize \/ FinalizeFails \/ After
Agent == AgentCommits \/ AgentMerges \/ AgentRequests \/ AgentCompletes

-----------------------------------------------------------------------------
(* finalizeWorkspace, for a run that has ended or for Recover *)

FzAt(pc) == fz.pc = pc
FzGoto(pc) == fz' = [fz EXCEPT !.pc = pc]
Row == gen[fz.gen]

\* Its caller goes on; Recover ends the task if nothing went wrong.
FzEnds(outcome) ==
  /\ fz' = NoFz
  /\ lock' = Unlocked("fz")
  /\ IF fz.by = "run"
     THEN run' = [run EXCEPT !.pc = "after", !.outcome = outcome] /\ UNCHANGED <<mem, mode>>
     ELSE mem' = [mem EXCEPT !.committing = None] /\ mode' = "up" /\ UNCHANGED run

\* A failure leaves the generation and its worktree for a later turn.
FzBlocks(state, outcome) ==
  /\ gen' = [gen EXCEPT ![fz.gen].state = state, ![fz.gen].done = 0]
  /\ FzEnds(outcome)

FzStays == UNCHANGED <<gen, lock, run, mem, mode>>

FzLock ==
  /\ FzAt("lock") /\ lock[Key(fz.gen)] = None
  /\ IF Row.state = "finalizing"
     THEN lock' = [lock EXCEPT ![Key(fz.gen)] = "fz"] /\ FzGoto("inspect") /\ UNCHANGED <<run, mem, mode>>
     ELSE FzEnds("failed")
  /\ UNCHANGED <<task, gen, tree, src>>

\* Mutant: what is not committed is not looked for.
InspectHeadOnly ==
  /\ FzAt("inspect")
  /\ IF tree[fz.gen].there
     THEN fz' = [fz EXCEPT !.pc = "target", !.seen = tree[fz.gen].head] /\ FzStays
     ELSE FzBlocks("finalize_blocked", "failed")
  /\ UNCHANGED <<task, tree, src>>

\* InspectFinalizable: the worktree is there and has nothing uncommitted.
FzInspect ==
  /\ FzAt("inspect")
  /\ IF tree[fz.gen].there /\ ~tree[fz.gen].dirty
     THEN fz' = [fz EXCEPT !.pc = "target", !.seen = tree[fz.gen].head] /\ FzStays
     ELSE FzBlocks("finalize_blocked", "failed")
  /\ UNCHANGED <<task, tree, src>>

\* InspectIntegrationTarget
FzTarget ==
  /\ FzAt("target")
  /\ IF ~src.dirty /\ src.on = Row.target
     THEN fz' = [fz EXCEPT !.pc = "snapshot", !.head = SourceHead] /\ FzStays
     ELSE FzBlocks("finalize_blocked", "failed")
  /\ UNCHANGED <<task, tree, src>>

\* Mutant: the persisted review base is where the generation began.
SnapshotFromBase ==
  /\ FzAt("snapshot")
  /\ LET had == Row.final # None IN
     IF had /\ Row.final # fz.seen THEN FzBlocks("finalize_blocked", "failed")
     ELSE /\ fz' = [fz EXCEPT !.pc = "commit", !.had = had,
                              !.review = IF had THEN Row.review ELSE fz.head]
          /\ gen' = [gen EXCEPT ![fz.gen].final = fz.seen,
                                ![fz.gen].review = IF had THEN @ ELSE Row.base]
          /\ UNCHANGED <<lock, run, mem, mode>>
  /\ UNCHANGED <<task, tree, src>>

\* What will be merged, and onto what, is recorded before it is; a snapshot that
\* is already recorded stands.
FzSnapshot ==
  /\ FzAt("snapshot")
  /\ LET had    == Row.final # None
         review == IF had THEN Row.review ELSE fz.head
     IN IF had /\ Row.final # fz.seen THEN FzBlocks("finalize_blocked", "failed")
        ELSE /\ fz' = [fz EXCEPT !.pc = "commit", !.had = had, !.review = review]
             /\ gen' = [gen EXCEPT ![fz.gen].final = fz.seen, ![fz.gen].review = review]
             /\ UNCHANGED <<lock, run, mem, mode>>
  /\ UNCHANGED <<task, tree, src>>

\* The point of no return for a cancel.  A daemon that died after its merge left
\* the source with the recorded commit in it.
FzCommit ==
  /\ FzAt("commit")
  /\ IF mem.canceled THEN FzBlocks("finalize_blocked", "canceled")
     ELSE /\ mem' = [mem EXCEPT !.committing = IF @ = None THEN fz.by ELSE @]
          /\ FzGoto(IF fz.had /\ Row.final \subseteq fz.head THEN "record" ELSE "check")
          /\ UNCHANGED <<gen, lock, run, mode>>
  /\ UNCHANGED <<task, tree, src>>

\* What FastForward checks before it merges.
FzCheck ==
  /\ FzAt("check")
  /\ IF ~tree[fz.gen].there \/ tree[fz.gen].head # Row.final \/ src.dirty \/ SourceHead # fz.review
     THEN FzBlocks("finalize_blocked", "failed")
     ELSE IF ~(SourceHead \subseteq Row.final) THEN FzBlocks("merge_blocked", "failed")
     ELSE FzGoto("merge") /\ FzStays
  /\ UNCHANGED <<task, tree, src>>

\* Mutant: the merge is taken for done.
MergeForgotten ==
  /\ FzAt("merge") /\ FzGoto("record") /\ FzStays /\ UNCHANGED <<task, tree, src>>

\* git merge --ff-only, onto the branch the user is on by now.
FzMerge ==
  /\ FzAt("merge")
  /\ IF SourceHead \subseteq Row.final
     THEN src' = [src EXCEPT !.heads[src.on] = Row.final] /\ FzGoto("record") /\ FzStays
     ELSE /\ UNCHANGED src
          /\ IF Row.final \subseteq SourceHead THEN FzGoto("record") /\ FzStays
                                         ELSE FzBlocks("finalize_blocked", "failed")
  /\ UNCHANGED <<task, tree>>

FzRecord ==
  /\ FzAt("record")
  /\ gen' = [gen EXCEPT ![fz.gen].state = "integrated"]
  /\ FzGoto("release")
  /\ UNCHANGED <<task, tree, src, lock, run, mem, mode>>

\* Manager.Release
FzRelease ==
  /\ FzAt("release")
  /\ tree' = [tree EXCEPT ![fz.gen] = NoTree]
  /\ FzGoto("released") /\ FzStays /\ UNCHANGED <<task, src>>

FzReleased ==
  /\ FzAt("released")
  /\ gen' = [gen EXCEPT ![fz.gen].state = "released"]
  /\ task' = [task EXCEPT !.current = 0, !.status = IF fz.by = "rec" THEN "succeeded" ELSE @]
  /\ FzEnds("ok")
  /\ UNCHANGED <<tree, src>>

\* A git command fails and the generation is blocked, maybe after the merge.
FzCommandFails ==
  /\ \/ fz.pc \in {"inspect", "target", "check", "merge"}
     \/ FzAt("commit") /\ fz.had /\ ~mem.canceled
  /\ src' = src \/ (FzAt("merge") /\ SourceHead \subseteq Row.final /\
                      src' = [src EXCEPT !.heads[src.on] = Row.final])
  /\ FzBlocks("finalize_blocked", "failed")
  /\ UNCHANGED <<task, tree, stuck>>

\* A statement on the generation fails: the read under the lock, the snapshot, a
\* record, or the one that was to block it.  The error is returned, or dropped.
FzStatementFails ==
  /\ fz.pc \notin {"idle", "release"}
  /\ stuck' = Left(fz.gen)
  /\ FzEnds(IF FzAt("commit") /\ mem.canceled THEN "canceled" ELSE "failed")
  /\ UNCHANGED <<task, gen, tree, src>>

FzStep == \/ FzLock \/ FzInspect \/ FzTarget \/ FzSnapshot \/ FzCommit \/ FzCheck \/ FzMerge
          \/ FzRecord \/ FzRelease \/ FzReleased

Finalization ==
  /\ \/ FzStep /\ UNCHANGED <<stuck, troubles>>
     \/ (FzCommandFails \/ FzStatementFails) /\ Trouble
  /\ UNCHANGED <<policy, author, req, cancel, calls, complete, execs, stopped, removed,
                 turns>>

-----------------------------------------------------------------------------
(* The user of the task *)

\* FollowUp to a task that has ended.
FollowUp ==
  /\ mode = "up" /\ cancel.pc = "idle" /\ task.status \in Terminal /\ turns < MaxTurns
  /\ turns' = turns + 1
  /\ task' = [task EXCEPT !.status = "queued"]
  /\ mem' = [mem EXCEPT !.queued = TRUE]
  /\ UNCHANGED <<policy, gen, tree, src, author, lock, run, req, fz, cancel, calls,
                 complete, mode, execs, ghosts, troubles>>

\* cancelTask is refused while a workspace is being integrated.
CancelAsk ==
  /\ mode = "up" /\ cancel.pc = "idle" /\ Trouble
  /\ task.status \in {"queued", "running"} /\ mem.committing = None
  /\ mem' = [mem EXCEPT !.canceled = TRUE]
  /\ cancel' = [cancel EXCEPT !.pc = "look"]
  /\ stopped' = IF run.pc = "idle" THEN stopped ELSE stopped \cup {run.exec}
  /\ UNCHANGED <<policy, task, gen, tree, src, author, lock, run, req, fz, calls, complete,
                 mode, execs, removed, stuck, turns>>

CancelLook ==
  /\ cancel.pc = "look"
  /\ cancel' = IF task.current = 0 THEN [cancel EXCEPT !.pc = "end"]
               ELSE [pc |-> "lock", gen |-> task.current, key |-> Key(task.current)]
  /\ UNCHANGED <<policy, task, gen, tree, src, author, mem, lock, run, req, fz, calls,
                 complete, mode, execs, ghosts, bounds>>

\* Mutant: the generation is left as it is.
CancelLeaves ==
  /\ cancel.pc = "lock" /\ lock[cancel.key] = None
  /\ lock' = [lock EXCEPT ![cancel.key] = "cancel"]
  /\ cancel' = [cancel EXCEPT !.pc = "end"]
  /\ UNCHANGED <<policy, task, gen, tree, src, author, mem, run, req, fz, calls, complete,
                 mode, execs, ghosts, bounds>>

\* Under the lock, which is held until the cancel is over: a generation that is
\* not ready yet is given up (it has no path to remove), one that waits for its
\* finalization is kept.
CancelWorkspace ==
  LET g == cancel.gen  state == gen[cancel.gen].state IN
  /\ cancel.pc = "lock" /\ lock[cancel.key] = None
  /\ lock' = [lock EXCEPT ![cancel.key] = "cancel"]
  /\ cancel' = [cancel EXCEPT !.pc = "end"]
  /\ gen' = IF state = "provisioning" THEN [gen EXCEPT ![g].state = "orphaned"]
            ELSE IF state = "finalizing"
                 THEN [gen EXCEPT ![g].state = "finalize_blocked", ![g].done = 0] ELSE gen
  /\ task' = [task EXCEPT !.current = IF state = "provisioning" /\ @ = g THEN 0 ELSE @]
  /\ UNCHANGED <<policy, tree, src, author, mem, run, req, fz, calls, complete, mode, execs,
                 ghosts, bounds>>

\* A queued task leaves the queue, a running agent is killed; a start on its way
\* finds the mark.
CancelEnd ==
  /\ cancel.pc = "end"
  /\ cancel' = Idle
  /\ lock' = Unlocked("cancel")
  /\ task' = [task EXCEPT !.status = "canceled"]
  /\ mem' = [mem EXCEPT !.queued = FALSE, !.active = 0, !.handle = FALSE,
                        !.canceled = @ /\ ~mem.queued /\ ~mem.handle]
  /\ IF mem.handle /\ ~mem.queued THEN Quit ELSE UNCHANGED run
  /\ UNCHANGED <<policy, gen, tree, src, author, req, fz, calls, complete, mode, execs,
                 ghosts, bounds>>

\* A read of the generation fails: the cancel goes on without it, or, of the one
\* under the lock, is given up with its mark standing.  Or the write fails, and
\* the error is dropped.
CancelFails ==
  /\ \/ /\ cancel.pc = "look"
        /\ cancel' = [cancel EXCEPT !.pc = "end"] /\ stuck' = Left(task.current) /\ UNCHANGED lock
     \/ /\ cancel.pc = "lock" /\ lock[cancel.key] = None
        /\ \/ cancel' = Idle /\ UNCHANGED <<lock, stuck>>
           \/ /\ lock' = [lock EXCEPT ![cancel.key] = "cancel"]
              /\ cancel' = [cancel EXCEPT !.pc = "end"] /\ stuck' = Left(cancel.gen)
  /\ UNCHANGED <<policy, task, gen, tree, src, author, mem, run, req, fz, calls, complete,
                 mode, execs, stopped, removed, bounds>>

Cancel == CancelLook \/ CancelWorkspace \/ CancelFails \/ CancelEnd

-----------------------------------------------------------------------------
(* The user of the repository *)

Edit(op) == op \in UserOps /\ Trouble

UserCommits ==
  /\ Edit("commit") /\ CanCommit
  /\ author' = Append(author, 0)
  /\ src' = [src EXCEPT !.heads[src.on] = @ \cup {Fresh}]
  /\ UNCHANGED <<tree, removed>>

UserDirties ==
  /\ Edit("dirty")
  /\ src' = [src EXCEPT !.dirty = ~@]
  /\ UNCHANGED <<author, tree, removed>>

\* To another branch, made here if it is new.
UserSwitches ==
  /\ Edit("switch")
  /\ \E b \in Branches \ {src.on} :
       src' = [src EXCEPT !.on = b, !.heads[b] = IF @ = {} THEN SourceHead ELSE @]
  /\ UNCHANGED <<author, tree, removed>>

\* The user merges a generation's branch.
UserMerges ==
  /\ Edit("merge")
  /\ \E g \in Gens : /\ tree[g].there /\ SourceHead \subseteq tree[g].head
                     /\ src' = [src EXCEPT !.heads[src.on] = tree[g].head]
  /\ UNCHANGED <<author, tree, removed>>

UserRemoves ==
  /\ Edit("remove")
  /\ \E g \in Gens : /\ tree[g].there
                     /\ tree' = [tree EXCEPT ![g] = NoTree]
                     /\ removed' = removed \cup {g}
  /\ UNCHANGED <<author, src>>

User ==
  /\ UserCommits \/ UserDirties \/ UserSwitches \/ UserMerges \/ UserRemoves
  /\ UNCHANGED <<policy, task, gen, engine, stopped, stuck, turns>>

-----------------------------------------------------------------------------
(* The daemon dies and starts again *)

Crash ==
  /\ mode # "down" /\ Trouble
  /\ mode' = "down"
  /\ mem' = Forgotten /\ lock' = [k \in 0..MaxGens |-> None]
  /\ run' = NoRun /\ req' = [p \in Callers |-> Idle] /\ fz' = NoFz /\ cancel' = Idle
  /\ calls' = {} /\ complete' = NoCall /\ stuck' = {}
  /\ UNCHANGED <<policy, task, gen, tree, src, author, execs, stopped, removed, turns>>

\* FailOrphaned
RecFails ==
  /\ mode = "down"
  /\ mode' = "look"
  /\ task' = [task EXCEPT !.status = IF @ \in {"queued", "running"} THEN "failed" ELSE @]
  /\ UNCHANGED <<gen, tree, mem, req, fz>>

\* reconcileWorkspaces, by the state of the current generation.
RecLooks ==
  /\ mode = "look"
  /\ IF task.current = 0 THEN mode' = "up" /\ UNCHANGED <<task, gen, mem, req, fz>>
     ELSE LET g == task.current  s == gen[g].state IN
       \/ /\ s = "provisioning"
          /\ req' = [req EXCEPT !["rec"] = [pc |-> "tree", gen |-> g, key |-> 0]]
          /\ mode' = "provision" /\ UNCHANGED <<task, gen, mem, fz>>
       \/ /\ s = "ready"
          /\ mem' = [mem EXCEPT !.queued = TRUE]
          /\ mode' = "up" /\ UNCHANGED <<task, gen, req, fz>>
       \/ /\ s \in {"active"} \cup Blocked
          /\ gen' = [gen EXCEPT ![g].state = IF tree[g].there THEN @ ELSE "orphaned"]
          /\ task' = [task EXCEPT !.current = IF tree[g].there THEN @ ELSE 0]
          /\ mode' = "up" /\ UNCHANGED <<mem, req, fz>>
       \/ /\ s = "finalizing" /\ task.status = "canceled"
          /\ gen' = [gen EXCEPT ![g].state = "finalize_blocked", ![g].done = 0]
          /\ mode' = "up" /\ UNCHANGED <<task, mem, req, fz>>
       \/ /\ s = "finalizing" /\ task.status # "canceled"
          /\ fz' = [NoFz EXCEPT !.pc = "lock", !.by = "rec", !.gen = g]
          /\ mode' = "finalize" /\ UNCHANGED <<task, gen, mem, req>>
       \/ /\ s = "integrated"
          /\ mode' = "release" /\ UNCHANGED <<task, gen, mem, req, fz>>
  /\ UNCHANGED tree

RecProvisioned ==
  /\ mode = "provision" /\ rq("rec") \in {"ok", "failed"}
  /\ req' = [req EXCEPT !["rec"] = Idle]
  /\ mode' = "up"
  /\ IF rq("rec") = "ok" THEN UNCHANGED <<task, gen>>
     ELSE /\ gen' = [gen EXCEPT ![task.current].state = "orphaned"]
          /\ task' = [task EXCEPT !.current = 0]
  /\ UNCHANGED <<tree, mem, fz>>

RecReleases ==
  /\ mode = "release"
  /\ tree' = [tree EXCEPT ![task.current] = NoTree]
  /\ mode' = "released"
  /\ UNCHANGED <<task, gen, mem, req, fz>>

RecReleased ==
  /\ mode = "released"
  /\ gen' = [gen EXCEPT ![task.current].state = "released"]
  /\ task' = [task EXCEPT !.current = 0, !.status = IF @ = "canceled" THEN @ ELSE "succeeded"]
  /\ mode' = "up"
  /\ UNCHANGED <<tree, mem, req, fz>>

\* A statement on the generation fails, and it is passed over.
RecPassesOver ==
  /\ mode \in {"look", "released"} \/ (mode = "provision" /\ rq("rec") = "failed")
  /\ Trouble
  /\ mode' = "up"
  /\ req' = [req EXCEPT !["rec"] = Idle]
  /\ stuck' = Left(task.current)
  /\ UNCHANGED <<task, gen, tree, mem, fz>>

Recover ==
  /\ \/ /\ RecFails \/ RecLooks \/ RecProvisioned \/ RecReleases \/ RecReleased
        /\ UNCHANGED <<stuck, troubles>>
     \/ RecPassesOver
  /\ UNCHANGED <<policy, src, author, lock, run, cancel, calls, complete, execs, stopped,
                 removed, turns>>

-----------------------------------------------------------------------------
Next ==
  \/ \E p \in Callers : Request(p)
  \/ Turn \/ Agent \/ Finalization \/ FollowUp \/ CancelAsk \/ Cancel
  \/ (\E x \in 1..execs : CompleteReads(x)) \/ CompleteWrites
  \/ User \/ Crash \/ Recover

Spec == Init /\ [][Next]_vars

\* One goroutine recovers, and then one after the other runs the turns: it asks for the
\* workspace, waits for the agent and finalizes.
Goroutine == Recover \/ Request("rec") \/ Turn \/ Request("run") \/ Finalization

\* Goroutines go on, agents end, somebody starts the daemon again.
Fairness ==
  /\ WF_vars(Goroutine) /\ WF_vars(Request("agent")) /\ WF_vars(Cancel) /\ WF_vars(CompleteWrites)

FairSpec == Spec /\ Fairness

-----------------------------------------------------------------------------
(* What becomes of the work *)

\* A commit an agent made is in its worktree or in a branch of the user, unless
\* the user removed the worktree: integration, cancels, failures, restarts and
\* what the user commits meanwhile lose none.
NothingLost ==
  \A k \in 1..Len(author) : author[k] \in Gens \ removed =>
    \/ tree[author[k]].there /\ k \in tree[author[k]].head
    \/ \E b \in Branches : k \in src.heads[b]

\* A worktree is removed by the daemon only when its final snapshot and its
\* integration are on record and it has nothing beyond that snapshot, or when
\* nobody has worked in it (ADR 0014).
RemovalIsSafe ==
  [][\A g \in Gens : tree[g].there /\ ~tree'[g].there /\ g \notin removed' =>
       \/ gen[g].state = "integrated" /\ tree[g].head = gen[g].final /\ ~tree[g].dirty
       \/ gen[g].state = "provisioning" /\ tree[g].head = gen[g].base]_vars

\* The diff a generation is reviewed by, from its review base to its final
\* commit, has no commit of the user in it, also when the agent had to merge the
\* target branch or the daemon died between the merge and its record.
ReviewIsOwnWork ==
  \A g \in Gens : gen[g].state \in {"integrated", "released"} =>
    \A k \in gen[g].final \ gen[g].review : k # 0 /\ author[k] = g

\* A generation is completed only for the execution that claimed it last: whatever
\* overtakes what, a request never completes a generation a later turn has claimed
\* meanwhile, though it writes after it has read, and though its own turn, and the
\* task, may be over when it writes (README.md says what follows from that).
OwnerCompletes ==
  [][\A g \in Gens : gen[g].state # "finalizing" /\ gen'[g].state = "finalizing" =>
       gen'[g].done = gen[g].owner]_vars

\* A generation does not stay between the request and its outcome: one completed
\* while its agent lives, or found so by a daemon that starts, is released, or
\* blocked and kept (done is cleared), and so is one that is integrated; unless a
\* statement failed that nobody tries again before the daemon's next start.  (One
\* completed after runLoop or a cancel has looked at it waits for that start too.)
Settles ==
  (\E g \in Gens : \/ gen[g].state = "finalizing" /\ run.pc = "live" /\ cancel.pc = "idle"
                   \/ gen[g].state = "finalizing" /\ mode = "look"
                   \/ gen[g].state = "integrated")
    ~> \A g \in Gens : gen[g].done # 0 => gen[g].state = "released" \/ g \in stuck

\* A turn the user has stopped merges nothing (docs: a cancel during finalizing
\* keeps the generation; it may only lose to a merge that is already going on).
StoppedMergesNothing ==
  [][\A b \in Branches : src'.heads[b] # src.heads[b] /\ fz.pc = "merge" /\ fz.by = "run" =>
       run.exec \notin stopped]_vars

=============================================================================

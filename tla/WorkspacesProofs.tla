-------------------------- MODULE WorkspacesProofs --------------------------
(***************************************************************************)
(* What the workspace generations of a task keep, for every number of      *)
(* generations, turns and commits, whatever the user does in the           *)
(* repository and however often the daemon dies: the types and the one     *)
(* open generation, that no commit of an agent is lost, that a worktree is *)
(* removed only when that is safe, that a review shows the agent's own     *)
(* work, and that a generation is completed for the turn that claimed it.  *)
(***************************************************************************)
EXTENDS Workspaces, FiniteSetTheorems, TLAPS

Modes == {"down", "look", "provision", "finalize", "release", "released", "up"}

GenRow == [state : Open \cup {"none", "released", "orphaned"}, root : BOOLEAN,
           base : SUBSET Commits, target : Branches, owner : Nat, done : Nat,
           review : (SUBSET Commits) \cup {None}, final : (SUBSET Commits) \cup {None}]
Tree   == [there : BOOLEAN, head : SUBSET Commits, dirty : BOOLEAN]
TaskRow == [status : {"queued", "running"} \cup Terminal, current : 0..MaxGens, started : BOOLEAN]
Source == [heads : [Branches -> SUBSET Commits], on : Branches, dirty : BOOLEAN]
Memory == [queued : BOOLEAN, active : Nat, handle : BOOLEAN, canceled : BOOLEAN,
           committing : {"run", "rec", None}]
Run    == [pc : {"idle", "request", "claim", "begin", "resolve", "live", "finalize",
                 "finalizing", "after"},
           exec : Nat, where : 0..MaxGens, wasCanceled : BOOLEAN,
           outcome : {"none", "ok", "failed", "canceled"}]
Req    == [pc : {"idle", "look", "insert", "lock", "tree", "ready", "ok", "failed"},
           gen : 0..MaxGens, key : 0..MaxGens]
Fz     == [pc : {"idle", "lock", "inspect", "target", "snapshot", "commit", "check", "merge",
                 "record", "release", "released"},
           by : {"run", "rec"}, gen : 0..MaxGens, seen : SUBSET Commits, head : SUBSET Commits,
           review : (SUBSET Commits) \cup {None}, had : BOOLEAN]
Calls  == [exec : Nat, gen : 0..MaxGens, from : {"none", "active"} \cup Blocked]
Cancels == [pc : {"idle", "look", "lock", "end"}, gen : 0..MaxGens, key : 0..MaxGens]

RepoTypes ==
  /\ gen \in [Gens -> GenRow] /\ tree \in [Gens -> Tree] /\ src \in Source
  /\ author \in Seq(0..MaxGens) /\ Len(author) <= MaxCommits
  /\ removed \subseteq Gens

TaskTypes ==
  /\ policy \in {"auto", "worktree"} /\ task \in TaskRow /\ mem \in Memory
  /\ execs \in Nat /\ mem.active <= execs /\ \A g \in Gens : gen[g].owner <= execs /\ gen[g].done <= execs
  /\ stopped \subseteq 1..execs /\ stuck \subseteq Gens
  /\ turns \in 1..MaxTurns /\ troubles \in 0..MaxTroubles

ProcTypes ==
  /\ run \in Run /\ run.exec <= execs /\ (run.pc = "idle" => run = NoRun)
  /\ run.pc # "idle" => run.exec # 0
  /\ req \in [Callers -> Req] /\ fz \in Fz /\ cancel \in Cancels
  /\ calls \subseteq 1..execs /\ complete \in Calls /\ complete.exec <= execs /\ mode \in Modes
  /\ lock \in [0..MaxGens -> {"run", "agent", "fz", "cancel", "complete", None}]

\* The commits an agent has made in generation g.
Own(g) == {k \in 1..Len(author) : author[k] = g}

\* Somewhere in a branch of the user.
Merged(S) == \E b \in Branches : S \subseteq src.heads[b]

\* One generation, of the rows that are used, is open: the current one.
OpenInv ==
  /\ \A g \in Gens : gen[g].state \in Open <=> task.current = g
  /\ \E n \in 0..MaxGens : \A g \in Gens : gen[g].state # "none" <=> g <= n
  /\ policy = "worktree" => gen[1].state \notin {"none", "provisioning"}

\* What the row of a generation says of its worktree and of its commits.
RowInv(g) ==
  /\ gen[g].state \in {"none", "provisioning"} => ~gen[g].root /\ Own(g) = {}
  /\ gen[g].state \notin {"none", "provisioning", "orphaned"} => gen[g].root
  /\ gen[g].state = "none" => ~tree[g].there
  /\ gen[g].base \subseteq src.heads[gen[g].target]
  /\ tree[g].there => tree[g].head \ Own(g) \subseteq src.heads[gen[g].target]
  /\ gen[g].state = "provisioning" /\ tree[g].there => tree[g].head = gen[g].base
  /\ gen[g].final # None => gen[g].review # None /\ gen[g].final \ gen[g].review \subseteq Own(g)
  /\ gen[g].state \in {"integrated", "released"} => gen[g].final # None
  /\ gen[g].state = "integrated" =>
       /\ Merged(gen[g].final)
       /\ tree[g].there => tree[g].head = gen[g].final /\ ~tree[g].dirty

\* Who is where: while the daemon recovers nobody else is.
Early == {"request", "claim", "begin"}
Late  == {"resolve", "live", "finalize", "finalizing", "after"}

ModeInv ==
  /\ mode # "up" => run = NoRun /\ req["run"] = Idle /\ req["agent"] = Idle /\ cancel = Idle /\ calls = {}
  /\ mode \notin {"down", "up"} => task.status \in Terminal
  /\ mode # "provision" => req["rec"] = Idle
  /\ mode = "provision" => task.current # 0 /\ task.current = req["rec"].gen
       /\ req["rec"].pc \in {"tree", "ready", "ok", "failed"}
       /\ (req["rec"].pc # "ok" => Current.state = "provisioning")
  /\ mode \in {"release", "released"} => task.current # 0 /\ Current.state = "integrated"
  /\ mode = "released" => ~tree[task.current].there
  /\ fz.pc = "idle" <=> ~(mode = "finalize" \/ run.pc = "finalizing")
  /\ fz.pc # "idle" => fz.by = (IF mode = "up" THEN "run" ELSE "rec")

\* The turn: while it is the active one its task is not queued and has the status
\* its place says, and from its claim on it owns the current generation.
RunInv ==
  /\ mode = "up" /\ task.status = "running" => Owns(run) /\ run.pc \in Late
  /\ Owns(run) /\ run.pc # "idle" => ~mem.queued
  /\ Owns(run) /\ run.pc \in Early => task.status = "queued"
  /\ Owns(run) /\ run.pc \in Late => task.status = "running"
  /\ mem.handle <=> run.pc = "live"
  /\ run.pc = "live" => Owns(run)
  /\ req["run"] # Idle => run.pc = "request"
  /\ run.pc \in Early \cup {"resolve"} => run.exec \notin calls
  /\ run.pc \in {"begin"} \cup Late => task.current = 0 \/ Current.owner = run.exec
  /\ run.pc = "live" /\ run.where # 0 =>
       gen[run.where].state \notin {"none", "provisioning", "integrated"}
  /\ run.pc \in {"begin", "resolve", "live"} => \A g \in Gens : gen[g].state # "integrated"

\* A generation that is being provisioned has no path, and its lock is that of none.
LockInv ==
  /\ \A p \in Callers : rq(p) \in {"lock", "tree", "ready"} =>
       /\ req[p].gen \in Gens /\ gen[req[p].gen].state # "none"
       /\ req[p].key = 0 \/ (req[p].key = req[p].gen /\ gen[req[p].gen].root)
  /\ \A p \in Callers : rq(p) \in {"tree", "ready"} => gen[req[p].gen].state = "provisioning"
  /\ \A p \in {"run", "agent"} : rq(p) \in {"tree", "ready"} => lock[0] = p
  /\ cancel.pc = "lock" =>
       /\ cancel.gen \in Gens /\ gen[cancel.gen].state # "none"
       /\ cancel.key = 0 \/ (cancel.key = cancel.gen /\ gen[cancel.gen].root)

\* A request that has been read holds the lock of the generation, which it has found
\* claimed by its execution.
CallInv ==
  complete # NoCall =>
    /\ mode = "up" /\ complete.gen \in Gens /\ complete.from \in {"active"} \cup Blocked
    /\ gen[complete.gen].root /\ lock[complete.gen] = "complete"
    /\ gen[complete.gen].owner = complete.exec

\* A finalization, step by step.
Seen  == {"target", "snapshot", "commit", "check", "merge", "record", "release", "released"}
Aimed == Seen \ {"target"}
Noted == Aimed \ {"snapshot"}

FzInv ==
  /\ fz.pc # "idle" => fz.gen \in Gens
  /\ fz.pc \notin {"idle", "lock"} => lock[fz.gen] = "fz" /\ task.current = fz.gen
  /\ fz.pc \in {"inspect"} \cup (Seen \ {"release", "released"}) =>
       Row.state \in {"finalizing", "finalize_blocked"}
  /\ fz.pc \in {"release", "released"} => Row.state = "integrated"
  /\ fz.pc \in Seen =>
       /\ tree[fz.gen].there => tree[fz.gen].head = fz.seen /\ ~tree[fz.gen].dirty
       /\ fz.seen \ Own(fz.gen) \subseteq src.heads[Row.target]
  /\ fz.pc \in Aimed => Merged(fz.head) /\ fz.seen \ Own(fz.gen) \subseteq fz.head
  /\ fz.pc \in Noted => Row.final = fz.seen
  /\ fz.pc = "record" => Merged(Row.final)
  /\ fz.pc = "released" => ~tree[fz.gen].there

IInv ==
  /\ RepoTypes /\ TaskTypes /\ ProcTypes
  /\ OpenInv /\ (\A g \in Gens : RowInv(g)) /\ NothingLost
  /\ ModeInv /\ RunInv /\ LockInv /\ CallInv /\ FzInv

-----------------------------------------------------------------------------
(* Types and frames *)

\* The values the constants have, and what they are not.
LEMMA Constants ==
  /\ MaxGens \in Nat /\ MaxGens # 0 /\ MaxTurns \in Nat /\ MaxCommits \in Nat /\ MaxTroubles \in Nat
  /\ 1 \in Gens /\ Gens \subseteq 0..MaxGens /\ 0 \in 0..MaxGens /\ 0 \notin Gens
  /\ None # "run" /\ None # "agent" /\ None # "rec" /\ None # "fz" /\ None # "cancel"
  /\ None # "complete"
  /\ \A S \in SUBSET Commits : None # S
BY WorkspacesAssumption DEF WorkspacesAssumption, Gens, Commits, Callers

\* What stands for nothing has the type of what it stands in for.
LEMMA Nothings ==
  /\ NoRow \in GenRow /\ NoTree \in Tree /\ Forgotten \in Memory /\ Idle \in Req
  /\ NoRun \in Run /\ NoFz \in Fz /\ Idle \in Cancels /\ NoCall \in Calls
<1>1. NoRow \in GenRow
  <2> DEFINE states == Open \cup {"none", "released", "orphaned"}
             marks  == (SUBSET Commits) \cup {None}
  <2>1. "none" \in states /\ None \in marks
    OBVIOUS
  <2>3. {} \in SUBSET Commits
    OBVIOUS
  <2>2. GenRow = [state : states, root : BOOLEAN, base : SUBSET Commits, target : Branches,
                  owner : Nat, done : Nat, review : marks, final : marks]
    BY DEF GenRow
  <2> HIDE DEF states, marks
  <2> QED
    BY <2>1, <2>2, <2>3 DEF NoRow, Branches
<1>2. NoTree \in Tree /\ Forgotten \in Memory
  BY DEF NoTree, Tree, Forgotten, Memory
<1>3. Idle \in Req /\ Idle \in Cancels
  BY Constants DEF Idle, Req, Cancels
<1>4. NoRun \in Run
  BY Constants DEF NoRun, Run
<1>5. NoFz \in Fz
  BY Constants DEF NoFz, Fz
<1>6. NoCall \in Calls
  BY Constants DEF NoCall, Calls
<1> QED
  BY <1>1, <1>2, <1>3, <1>4, <1>5, <1>6

\* The types of the parts, and of what the current generation and the one that is
\* finalized are.
LEMMA Parts ==
  ASSUME IInv
  PROVE  /\ gen \in [Gens -> GenRow] /\ tree \in [Gens -> Tree] /\ src \in Source
         /\ task \in TaskRow /\ mem \in Memory /\ run \in Run /\ req \in [Callers -> Req]
         /\ fz \in Fz /\ cancel \in Cancels /\ mode \in Modes
         /\ lock \in [0..MaxGens -> {"run", "agent", "fz", "cancel", "complete", None}]
         /\ task.current # 0 => task.current \in Gens /\ Current \in GenRow /\ Current.state \in Open
         /\ task.current \in 0..MaxGens
         /\ stuck \subseteq Gens /\ troubles \in 0..MaxTroubles
BY DEF IInv, RepoTypes, TaskTypes, ProcTypes, TaskRow, Gens, OpenInv, Current

\* A step that leaves the repository, the rows and the current generation alone.
LEMMA RepoFrame ==
  ASSUME IInv, UNCHANGED <<gen, tree, src, author, removed, policy>>, task'.current = task.current
  PROVE  RepoTypes' /\ OpenInv' /\ (\A g \in Gens : RowInv(g))' /\ NothingLost'
<1>1. RepoTypes'
  BY DEF IInv, RepoTypes
<1>2. OpenInv'
  BY DEF IInv, OpenInv
<1>3. ASSUME NEW g \in Gens
      PROVE  RowInv(g)'
  BY DEF IInv, RowInv, Own, Merged
<1>4. NothingLost'
  BY DEF IInv, NothingLost
<1> QED
  BY <1>1, <1>2, <1>3, <1>4

\* A finalization is not disturbed by what leaves its generation and its lock alone.
LEMMA FzFrame ==
  ASSUME IInv, UNCHANGED <<gen, tree, src, author, fz>>, task'.current = task.current,
         \A k \in 0..MaxGens : lock[k] = "fz" => lock'[k] = "fz"
  PROVE  FzInv'
<1>1. /\ fz.pc # "idle" => fz.gen \in Gens
      /\ fz.pc \notin {"idle", "lock"} => lock'[fz.gen] = "fz" /\ task.current = fz.gen
  BY Constants DEF IInv, FzInv
<1> QED
  BY <1>1 DEF IInv, FzInv, Own, Merged, Row

\* Nor are those that have the lock of a generation, or wait for one, by what
\* leaves them, the rows and the lock of the generations without a path alone.
LEMMA LockFrame ==
  ASSUME IInv, UNCHANGED <<gen, req>>, cancel' = cancel \/ cancel'.pc # "lock",
         lock'[0] = lock[0] \/ lock[0] \notin {"run", "agent"}
  PROVE  LockInv'
<1>1. \A p \in {"run", "agent"} : rq(p) \in {"tree", "ready"} => lock'[0] = p
  BY DEF IInv, LockInv
<1> QED
  BY <1>1 DEF IInv, LockInv, rq

\* Nor is a request that has been read, by what leaves it, its lock and the claim of
\* its generation alone.
LEMMA CallFrame ==
  ASSUME IInv, complete' = complete, mode = "up" => mode' = "up",
         \A k \in 0..MaxGens : lock[k] = "complete" => lock'[k] = "complete",
         \A g \in Gens : gen[g].root /\ lock[g] = "complete" =>
                         gen'[g].root /\ gen'[g].owner = gen[g].owner
  PROVE  CallInv'
<1>1. complete.gen \in Gens => complete.gen \in 0..MaxGens
  BY Constants
<1> QED
  BY <1>1 DEF IInv, CallInv

\* Trouble stays within its bound.
LEMMA Troubled ==
  ASSUME IInv, Trouble
  PROVE  troubles' \in 0..MaxTroubles
BY Constants DEF Trouble, IInv, TaskTypes

\* What is left is a generation, if anything.
LEMMA Leaves ==
  ASSUME IInv, NEW g \in 0..MaxGens
  PROVE  Left(g) \subseteq Gens
BY DEF Left, Gens, IInv, TaskTypes

-----------------------------------------------------------------------------
(* A turn *)

\* No run: nothing is asked of the run's place.
LEMMA QuitRun ==
  ASSUME IInv, run' = NoRun, req'["run"] = Idle,
         ~mem'.handle, mode' = "up" => task'.status # "running"
  PROVE  RunInv'
BY DEF RunInv, NoRun, Early, Late, Owns

\* A step of a daemon that is up, by the turn, its agent's tools, the user of the
\* task or a cancel, that leaves the repository, the rows and the finalization alone.
LEMMA TurnFrame ==
  ASSUME IInv, mode = "up",
         UNCHANGED <<gen, tree, src, author, removed, policy, fz, execs, mode>>,
         task' \in TaskRow, task'.current = task.current, mem' \in Memory, mem'.active <= execs,
         run' \in Run, run'.exec <= execs, run'.pc = "idle" => run' = NoRun,
         run'.pc # "idle" => run'.exec # 0, run.pc = "finalizing" <=> run'.pc = "finalizing",
         req' \in [Callers -> Req],
         \A p \in Callers : req'[p] # req[p] => p # "rec" /\ req'[p].pc \notin {"lock", "tree", "ready"},
         cancel' \in Cancels, cancel' = cancel \/ cancel'.pc # "lock",
         lock' \in [0..MaxGens -> {"run", "agent", "fz", "cancel", "complete", None}],
         lock'[0] = lock[0] \/ lock[0] \notin {"run", "agent"},
         \A k \in 0..MaxGens : lock[k] = "fz" => lock'[k] = "fz",
         \A k \in 0..MaxGens : lock[k] = "complete" => lock'[k] = "complete",
         calls' \subseteq 1..execs, complete' = complete,
         stopped' \subseteq 1..execs, stuck' \subseteq Gens,
         turns' \in 1..MaxTurns, troubles' \in 0..MaxTroubles,
         RunInv'
  PROVE  IInv'
<1>1. RepoTypes' /\ OpenInv' /\ (\A g \in Gens : RowInv(g))' /\ NothingLost'
  BY RepoFrame
<1>2. FzInv'
  BY FzFrame
<1>3. TaskTypes' /\ ProcTypes'
  BY DEF IInv, TaskTypes, ProcTypes
<1>4. req'["rec"] = Idle
  BY DEF IInv, ModeInv, Callers
<1>5. ModeInv'
  BY <1>4 DEF IInv, ModeInv
<1>6. LockInv'
  <2>1. \A p \in Callers : rq(p)' \in {"lock", "tree", "ready"} => req'[p] = req[p]
    BY DEF rq
  <2>2. cancel'.pc = "lock" => cancel' = cancel
    OBVIOUS
  <2>3. \A p \in {"run", "agent"} : rq(p)' \in {"tree", "ready"} => lock'[0] = p
    BY <2>1 DEF IInv, LockInv, rq, Callers
  <2> QED
    BY <2>1, <2>2, <2>3 DEF IInv, LockInv, rq
<1>7. CallInv'
  BY CallFrame
<1> QED
  BY <1>1, <1>2, <1>3, <1>5, <1>6, <1>7 DEF IInv

\* pump takes the task from the queue.
LEMMA PopKeeps ==
  ASSUME IInv, Pop
  PROVE  IInv'
<1> DEFINE go == task.status = "queued"
           request == task.started /\ task.current = 0
<1>1. /\ mode = "up" /\ run.pc = "idle" /\ run = NoRun /\ req["run"] = Idle /\ ~mem.handle
      /\ task.status # "running"
  BY Nothings DEF IInv, Pop, ProcTypes, RunInv, Early, Late
<1>2. /\ mem' = [mem EXCEPT !.queued = FALSE, !.canceled = FALSE, !.active = IF go THEN execs + 1 ELSE 0]
      /\ run' = IF ~go THEN NoRun
                ELSE [NoRun EXCEPT !.pc = IF request THEN "request" ELSE "claim", !.exec = execs + 1]
      /\ req' = [req EXCEPT !["run"].pc = IF go /\ request THEN "look" ELSE "idle"]
      /\ execs' = execs + 1
      /\ UNCHANGED <<policy, task, gen, tree, src, author, lock, fz, cancel, calls, complete,
                     mode, stopped, removed, stuck, turns, troubles>>
  BY DEF Pop, ghosts, bounds
<1>g. go => task.status = "queued"
  OBVIOUS
<1> HIDE DEF go, request
<1>3. req' \in [Callers -> Req] /\ \A p \in {"agent", "rec"} : req'[p] = req[p]
  BY <1>2, Parts DEF Req, Callers
<1>4. /\ rq("run")' \in {"look", "idle"} /\ (run'.pc # "request" => req'["run"] = Idle)
  BY <1>1, <1>2, Parts DEF rq, Idle, Callers, NoRun
<1>5. RepoTypes' /\ OpenInv' /\ (\A g \in Gens : RowInv(g))' /\ NothingLost'
  BY <1>2, RepoFrame
<1>6. FzInv'
  BY <1>2, FzFrame
<1>7. TaskTypes'
  <2>1. execs' \in Nat /\ execs < execs' /\ mem \in Memory
    BY <1>2 DEF IInv, TaskTypes
  <2> DEFINE a == IF go THEN execs + 1 ELSE 0
  <2>a. a \in Nat /\ a <= execs'
    BY <1>2, <2>1 DEF IInv, TaskTypes
  <2>b. mem' = [mem EXCEPT !.queued = FALSE, !.canceled = FALSE, !.active = a]
    BY <1>2
  <2> HIDE DEF a
  <2>2. mem' \in Memory /\ mem'.active <= execs'
    BY <2>1, <2>a, <2>b DEF Memory
  <2>3. \A n \in Nat : n <= execs => n <= execs'
    BY <2>1 DEF IInv, TaskTypes
  <2>4. \A g \in Gens : gen[g].owner \in Nat /\ gen[g].done \in Nat
    BY DEF IInv, RepoTypes, GenRow
  <2> QED
    BY <1>2, <2>1, <2>2, <2>3, <2>4 DEF IInv, TaskTypes
<1>8. ProcTypes'
  <2>1. run' \in Run /\ run'.exec <= execs' /\ (run'.pc = "idle" => run' = NoRun)
        /\ (run'.pc # "idle" => run'.exec # 0)
    <3>1. CASE ~go
      BY <1>2, <3>1, Nothings DEF IInv, TaskTypes, NoRun
    <3>2. CASE go
      <4> DEFINE pc == IF request THEN "request" ELSE "claim"
      <4>1. run' = [NoRun EXCEPT !.pc = pc, !.exec = execs + 1] /\ pc \in {"request", "claim"}
        BY <1>2, <3>2
      <4> HIDE DEF pc
      <4>2. execs + 1 \in Nat /\ execs + 1 # 0
        BY DEF IInv, TaskTypes
      <4> QED
        <5>1. NoRun \in Run
          BY Nothings
        <5>2. run' \in Run /\ run'.exec = execs + 1 /\ run'.pc = pc
          BY <4>1, <4>2, <5>1 DEF Run
        <5> QED
          BY <1>2, <4>1, <4>2, <5>2
    <3> QED
      BY <3>1, <3>2
  <2>2. calls' \subseteq 1..execs' /\ complete' \in Calls /\ complete'.exec <= execs'
    BY <1>2 DEF IInv, TaskTypes, ProcTypes, Calls
  <2> QED
    BY <1>2, <1>3, <2>1, <2>2 DEF IInv, ProcTypes
<1>9. ModeInv'
  BY <1>1, <1>2, <1>3 DEF IInv, ModeInv, Current, NoRun
<1>10. RunInv'
  BY <1>1, <1>2, <1>g, <1>4 DEF IInv, TaskTypes, ProcTypes, RunInv, Early, Late, Owns, NoRun, Memory, Current
<1>11. LockInv'
  BY <1>2, <1>3, <1>4 DEF IInv, LockInv, rq, Callers
<1>12. CallInv'
  BY <1>2, CallFrame
<1> QED
  BY <1>5, <1>6, <1>7, <1>8, <1>9, <1>10, <1>11, <1>12 DEF IInv

\* A run is under way only while the daemon is up.
LEMMA RunsUp ==
  ASSUME IInv, run.pc # "idle"
  PROVE  /\ mode = "up" /\ run \in Run /\ run.exec <= execs /\ run.exec # 0 /\ run.exec \in Nat
         /\ mem \in Memory /\ mem.active <= execs /\ task \in TaskRow
         /\ stopped \subseteq 1..execs /\ stuck \subseteq Gens /\ calls \subseteq 1..execs
         /\ turns \in 1..MaxTurns /\ troubles \in 0..MaxTroubles
BY DEF IInv, ModeInv, ProcTypes, TaskTypes, Run, NoRun

\* failQueuedRunStart and failRunningStart.
LEMMA StartFailsTypes ==
  ASSUME IInv, StartFails, run.pc # "idle"
  PROVE  /\ run' = NoRun /\ NoRun \in Run /\ NoRun.exec <= execs /\ NoRun.pc = "idle"
         /\ task' \in TaskRow /\ task'.current = task.current
         /\ mem' \in Memory /\ mem'.active <= execs /\ mem'.handle = mem.handle
         /\ task'.status # "running"
<1>1. /\ mem \in Memory /\ mem.active <= execs /\ mem.active \in Nat /\ task \in TaskRow /\ execs \in Nat
      /\ mode = "up"
  BY RunsUp DEF Memory, IInv, TaskTypes
<1>2. NoRun \in Run /\ NoRun.exec <= execs /\ NoRun.pc = "idle"
  BY <1>1, Nothings DEF NoRun
<1> DEFINE s == IF Owns(run) THEN "failed" ELSE task.status
           a == IF Owns(run) THEN 0 ELSE mem.active
<1>3. s \in {"queued", "running"} \cup Terminal /\ s # "running" /\ a \in Nat /\ a <= execs
  BY <1>1 DEF IInv, RunInv, TaskRow, Terminal
<1>4. task' = [task EXCEPT !.status = s] /\ mem' = [mem EXCEPT !.active = a] /\ run' = NoRun
  BY DEF StartFails, Quit
<1> HIDE DEF s, a
<1>5. task' \in TaskRow /\ task'.current = task.current /\ task'.status = s
  BY <1>1, <1>3, <1>4 DEF TaskRow
<1>6. mem' \in Memory /\ mem'.active = a /\ mem'.handle = mem.handle
  BY <1>1, <1>3, <1>4 DEF Memory
<1> QED
  BY <1>2, <1>3, <1>4, <1>5, <1>6

\* The workspace was requested, and is there or not.
LEMMA RequestedKeeps ==
  ASSUME IInv, Requested
  PROVE  IInv'
<1>1. /\ run.pc = "request" /\ rq("run") \in {"ok", "failed"}
      /\ req' = [req EXCEPT !["run"] = Idle]
      /\ IF rq("run") = "ok" THEN run' = [run EXCEPT !.pc = "claim"] /\ UNCHANGED <<task,
                                                                                    mem>>
                             ELSE StartFails
      /\ UNCHANGED <<policy, gen, tree, src, author, lock, fz, cancel, calls, complete, mode,
                     execs, stopped, removed, stuck, turns, troubles>>
  BY DEF Requested, ghosts, bounds
<1>2. /\ req' \in [Callers -> Req] /\ req'["run"] = Idle
      /\ \A p \in Callers : req'[p] # req[p] => p # "rec" /\ req'[p].pc \notin {"lock", "tree", "ready"}
  BY <1>1, Parts, Nothings DEF Callers, Idle
<1>3. ~mem.handle
  BY <1>1 DEF IInv, RunInv
<1>4. CASE rq("run") = "ok"
  <2>1. run' \in Run /\ run'.pc = "claim" /\ run'.exec = run.exec
    BY <1>1, <1>4, RunsUp DEF Run
  <2>2. RunInv'
    BY <1>1, <1>2, <1>4, <2>1 DEF IInv, RunInv, Owns, Early, Late, Current
  <2> QED
    BY <1>1, <1>2, <1>4, <2>1, <2>2, RunsUp, Parts, TurnFrame
<1>5. CASE rq("run") # "ok"
  <2>1. RunInv'
    BY <1>1, <1>2, <1>3, <1>5, StartFailsTypes, QuitRun
  <2> QED
    BY <1>1, <1>2, <1>5, <2>1, StartFailsTypes, RunsUp, Parts, TurnFrame
<1> QED
  BY <1>4, <1>5

\* StartQueuedTask
LEMMA BeginKeeps ==
  ASSUME IInv, Begin
  PROVE  IInv'
<1>1. /\ run.pc = "begin" /\ UNCHANGED <<policy, gen, tree, src, author, lock, req, fz,
                                         cancel, calls, complete, mode, execs, stopped,
                                         removed, stuck, turns, troubles>>
  BY DEF Begin, ghosts, bounds
<1>2. ~mem.handle /\ req["run"] = Idle
  BY <1>1 DEF IInv, RunInv
<1>3. CASE Owns(run) /\ task.status = "queued"
  <2>1. /\ task' = [task EXCEPT !.status = "running", !.started = TRUE]
        /\ run' = [run EXCEPT !.pc = "resolve"] /\ UNCHANGED mem
    BY <1>3 DEF Begin
  <2>2. run' \in Run /\ run'.pc = "resolve" /\ run'.exec = run.exec
    BY <1>1, <2>1, RunsUp DEF Run
  <2>3. task' \in TaskRow /\ task'.current = task.current /\ task'.status = "running"
    BY <2>1, Parts DEF TaskRow
  <2>4. RunInv'
    BY <1>1, <1>2, <1>3, <2>1, <2>2, <2>3 DEF IInv, RunInv, Owns, Early, Late, Current
  <2> QED
    BY <1>1, <2>1, <2>2, <2>3, <2>4, RunsUp, Parts, TurnFrame
<1>4. CASE ~(Owns(run) /\ task.status = "queued")
  <2> DEFINE a == IF Owns(run) THEN 0 ELSE mem.active
  <2>1. run' = NoRun /\ UNCHANGED task /\ mem' = [mem EXCEPT !.active = a]
    BY <1>4 DEF Begin, Quit
  <2>2. a \in Nat /\ a <= execs
    BY <1>1, RunsUp DEF Memory, IInv, TaskTypes
  <2> HIDE DEF a
  <2>3. mem' \in Memory /\ mem'.active <= execs /\ ~mem'.handle
    BY <1>2, <2>1, <2>2, Parts DEF Memory
  <2>4. task.status # "running"
    BY <1>1, RunsUp DEF IInv, RunInv, Late
  <2>5. NoRun \in Run /\ NoRun.exec <= execs /\ NoRun.pc = "idle"
    BY Nothings DEF NoRun, IInv, TaskTypes
  <2>6. RunInv'
    BY <1>1, <1>2, <2>1, <2>3, <2>4, QuitRun
  <2> QED
    BY <1>1, <2>1, <2>3, <2>5, <2>6, RunsUp, Parts, TurnFrame
<1> QED
  BY <1>3, <1>4
\* What p had locked is free, and no other lock is touched.
LEMMA Unlocks ==
  ASSUME IInv, NEW p \in {"run", "agent", "fz", "cancel", "complete", "rec"}
  PROVE  /\ Unlocked(p) \in [0..MaxGens -> {"run", "agent", "fz", "cancel", "complete", None}]
         /\ \A k \in 0..MaxGens : Unlocked(p)[k] = IF lock[k] = p THEN None ELSE lock[k]
         /\ Unlocked(p)[0] = IF lock[0] = p THEN None ELSE lock[0]
<1>1. \A k \in 0..MaxGens : lock[k] \in {"run", "agent", "fz", "cancel", "complete", None}
  BY Parts
<1> QED
  BY <1>1, Constants DEF Unlocked

\* The agent asks for a workspace.
LEMMA AgentRequestsKeeps ==
  ASSUME IInv, AgentRequests
  PROVE  IInv'
<1>1. /\ run.pc = "live" /\ rq("agent") = "idle"
      /\ req' = [req EXCEPT !["agent"].pc = "look"]
      /\ UNCHANGED <<policy, task, gen, tree, src, author, mem, lock, run, fz, cancel, calls,
                     complete, mode, execs, stopped, removed, stuck, turns, troubles>>
  BY DEF AgentRequests, ghosts, bounds
<1>2. /\ req' \in [Callers -> Req] /\ req'["run"] = req["run"]
      /\ \A p \in Callers : req'[p] # req[p] => p # "rec" /\ req'[p].pc \notin {"lock", "tree", "ready"}
  BY <1>1, Parts DEF Req, Callers
<1>3. RunInv'
  BY <1>1, <1>2 DEF IInv, RunInv, Owns, Current
<1> QED
  BY <1>1, <1>2, <1>3, RunsUp, Parts, TurnFrame DEF IInv, ProcTypes, TaskTypes

\* The agent asks for the completion of its workspace.
LEMMA AgentCompletesKeeps ==
  ASSUME IInv, AgentCompletes
  PROVE  IInv'
<1>1. /\ run.pc = "live" /\ calls' = calls \cup {run.exec}
      /\ UNCHANGED <<policy, task, gen, tree, src, author, mem, lock, run, req, fz, cancel,
                     complete, mode, execs, stopped, removed, stuck, turns, troubles>>
  BY DEF AgentCompletes, ghosts, bounds
<1>2. calls' \subseteq 1..execs
  BY <1>1, RunsUp DEF IInv, TaskTypes
<1>3. RunInv'
  BY <1>1 DEF IInv, RunInv, Owns, Current, rq, Early, Late
<1> QED
  BY <1>1, <1>2, <1>3, RunsUp, Parts, TurnFrame DEF IInv, ProcTypes, TaskTypes

\* The agent's process has ended.
LEMMA ExitKeeps ==
  ASSUME IInv, Exit
  PROVE  IInv'
<1>1. /\ run.pc = "live"
      /\ mem' = [mem EXCEPT !.committing = "run", !.handle = FALSE, !.canceled = FALSE]
      /\ run' = [run EXCEPT !.pc = "finalize", !.wasCanceled = mem.canceled]
      /\ UNCHANGED <<policy, task, gen, tree, src, author, lock, req, fz, cancel, calls,
                     complete, mode, execs, stopped, removed, stuck, turns, troubles>>
  BY DEF Exit, ghosts, bounds
<1>2. /\ mem' \in Memory /\ mem'.active = mem.active /\ ~mem'.handle /\ mem'.queued = mem.queued
      /\ run' \in Run /\ run'.pc = "finalize" /\ run'.exec = run.exec
  BY <1>1, Parts DEF Memory, Run
<1>3. RunInv'
  BY <1>1, <1>2 DEF IInv, RunInv, Owns, Current, Early, Late
<1> QED
  BY <1>1, <1>2, <1>3, RunsUp, Parts, TurnFrame

\* The end of runLoop.
LEMMA AfterKeeps ==
  ASSUME IInv, After
  PROVE  IInv'
<1> DEFINE q == mem.queued \/ Promoted
           a == IF Owns(run) THEN 0 ELSE mem.active
<1>1. /\ run.pc = "after" /\ run' = NoRun
      /\ mem' = [mem EXCEPT !.queued = q, !.committing = None, !.active = a]
      /\ UNCHANGED <<policy, gen, tree, src, author, lock, req, fz, cancel, calls, complete,
                     mode, execs, stopped, removed, stuck, turns, troubles>>
  BY DEF After, Quit, ghosts, bounds
<1>2. q \in BOOLEAN /\ a \in Nat /\ a <= execs
  BY <1>1, RunsUp DEF Memory, Promoted, IInv, TaskTypes
<1>3. PICK s : /\ task' = [task EXCEPT !.status = s]
               /\ s \in {"queued", "running"} \cup Terminal /\ s # "running"
  <2>1. PICK final \in {"succeeded", "failed"} :
          task' = [task EXCEPT !.status =
            IF Promoted THEN "queued"
            ELSE IF Owns(run)
                 THEN IF run.wasCanceled \/ task.status = "canceled" THEN "canceled"
                      ELSE IF run.outcome \in {"failed", "canceled"} THEN run.outcome ELSE final
                 ELSE task.status]
    BY DEF After
  <2>2. task.status \in {"queued", "running"} \cup Terminal /\ (~Owns(run) => task.status # "running")
    BY <1>1, RunsUp DEF IInv, RunInv, TaskRow
  <2> QED
    BY <2>1, <2>2 DEF Terminal
<1> HIDE DEF q, a
<1>4. /\ mem' \in Memory /\ mem'.active = a /\ mem'.handle = mem.handle
      /\ task' \in TaskRow /\ task'.current = task.current /\ task'.status = s
  BY <1>1, <1>2, <1>3, Parts DEF Memory, TaskRow
<1>5. ~mem.handle /\ req["run"] = Idle
  BY <1>1 DEF IInv, RunInv
<1>6. NoRun \in Run /\ NoRun.exec <= execs /\ NoRun.pc = "idle"
  BY Nothings DEF NoRun, IInv, TaskTypes
<1>7. RunInv'
  BY <1>1, <1>3, <1>4, <1>5, QuitRun
<1> QED
  BY <1>1, <1>2, <1>4, <1>6, <1>7, RunsUp, Parts, TurnFrame

\* A message to a task that has ended: no turn of it is the active one.
LEMMA FollowUpKeeps ==
  ASSUME IInv, FollowUp
  PROVE  IInv'
<1>1. /\ mode = "up" /\ task.status \in Terminal /\ turns < MaxTurns /\ turns' = turns + 1
      /\ task' = [task EXCEPT !.status = "queued"] /\ mem' = [mem EXCEPT !.queued = TRUE]
      /\ UNCHANGED <<policy, gen, tree, src, author, lock, run, req, fz, cancel, calls,
                     complete, mode, execs, stopped, removed, stuck, troubles>>
  BY DEF FollowUp, ghosts
<1>2. /\ mem' \in Memory /\ mem'.active = mem.active /\ mem'.handle = mem.handle
      /\ task' \in TaskRow /\ task'.current = task.current /\ task'.status = "queued"
  BY <1>1, Parts DEF Memory, TaskRow
<1>3. turns' \in 1..MaxTurns
  BY <1>1, Constants DEF IInv, TaskTypes
<1>4. RunInv'
  BY <1>1, <1>2 DEF IInv, RunInv, Owns, Current, Early, Late, Terminal, ProcTypes, Run
<1> QED
  BY <1>1, <1>2, <1>3, <1>4, Parts, TurnFrame DEF IInv, ProcTypes, TaskTypes

\* cancelTask marks the task.
LEMMA CancelAskKeeps ==
  ASSUME IInv, CancelAsk
  PROVE  IInv'
<1>1. /\ mode = "up" /\ Trouble /\ mem' = [mem EXCEPT !.canceled = TRUE]
      /\ cancel' = [cancel EXCEPT !.pc = "look"]
      /\ stopped' = IF run.pc = "idle" THEN stopped ELSE stopped \cup {run.exec}
      /\ UNCHANGED <<policy, task, gen, tree, src, author, lock, run, req, fz, calls,
                     complete, mode, execs, removed, stuck, turns>>
  BY DEF CancelAsk
<1>2. troubles' \in 0..MaxTroubles
  BY <1>1, Constants DEF Trouble, IInv, TaskTypes
<1>3. /\ mem' \in Memory /\ mem'.active = mem.active /\ mem'.handle = mem.handle
      /\ mem'.queued = mem.queued /\ cancel' \in Cancels /\ cancel'.pc = "look"
  BY <1>1, Parts DEF Memory, Cancels
<1>4. stopped' \subseteq 1..execs
  BY <1>1, RunsUp DEF IInv, TaskTypes
<1>5. RunInv'
  BY <1>1, <1>3 DEF IInv, RunInv, Owns, Current
<1> QED
  BY <1>1, <1>2, <1>3, <1>4, <1>5, Parts, TurnFrame DEF IInv, ProcTypes, TaskTypes

\* cancelTask is over.
LEMMA CancelEndKeeps ==
  ASSUME IInv, CancelEnd
  PROVE  IInv'
<1> DEFINE c == mem.canceled /\ ~mem.queued /\ ~mem.handle
<1>1. /\ cancel.pc = "end" /\ cancel' = Idle /\ lock' = Unlocked("cancel")
      /\ task' = [task EXCEPT !.status = "canceled"]
      /\ mem' = [mem EXCEPT !.queued = FALSE, !.active = 0, !.handle = FALSE, !.canceled = c]
      /\ IF mem.handle /\ ~mem.queued THEN run' = NoRun ELSE UNCHANGED run
      /\ UNCHANGED <<policy, gen, tree, src, author, req, fz, calls, complete, mode, execs,
                     stopped, removed, stuck, turns, troubles>>
  BY DEF CancelEnd, Quit, ghosts, bounds
<1>2. mode = "up"
  BY <1>1 DEF IInv, ModeInv, Idle
<1>3. (mem.handle <=> run.pc = "live") /\ (mem.handle => ~mem.queued)
  BY DEF IInv, RunInv
<1>4. c \in BOOLEAN
  BY Parts DEF Memory
<1> HIDE DEF c
<1>5. /\ mem' \in Memory /\ mem'.active = 0 /\ ~mem'.handle /\ ~mem'.queued
      /\ task' \in TaskRow /\ task'.current = task.current /\ task'.status = "canceled"
  BY <1>1, <1>4, Parts DEF Memory, TaskRow, Terminal
<1>6. /\ run' \in Run /\ run'.exec <= execs /\ (run'.pc = "idle" => run' = NoRun)
      /\ (run'.pc # "idle" => run'.exec # 0) /\ (run.pc = "finalizing" <=> run'.pc = "finalizing")
      /\ run'.pc # "live" /\ (run'.pc # "idle" => run' = run)
  <2>1. CASE run.pc = "live"
    <3>1. run' = NoRun
      BY <1>1, <1>3, <2>1
    <3>2. NoRun.pc = "idle" /\ NoRun.exec = 0 /\ 0 <= execs
      BY DEF NoRun, IInv, TaskTypes
    <3> QED
      BY <2>1, <3>1, <3>2, Nothings
  <2>2. CASE run.pc # "live"
    BY <1>1, <1>3, <2>2, Parts DEF IInv, ProcTypes
  <2> QED
    BY <2>1, <2>2
<1>7. RunInv'
  <2>1. ~Owns(run)' \/ run'.pc = "idle"
    BY <1>5, <1>6 DEF Owns
  <2>2. req["run"] # Idle => run'.pc = "request"
    BY <1>1, <1>3 DEF IInv, RunInv
  <2>3. run'.pc \in {"begin"} \cup Late => task'.current = 0 \/ Current'.owner = run'.exec
    BY <1>1, <1>5, <1>6 DEF IInv, RunInv, Current, Late
  <2> QED
    BY <1>1, <1>5, <1>6, <2>1, <2>2, <2>3 DEF IInv, RunInv, Early, Late
<1>8. /\ lock' \in [0..MaxGens -> {"run", "agent", "fz", "cancel", "complete", None}]
      /\ lock'[0] = lock[0] \/ lock[0] \notin {"run", "agent"}
      /\ \A k \in 0..MaxGens : lock[k] \in {"fz", "complete"} => lock'[k] = lock[k]
  BY <1>1, Unlocks
<1> QED
  BY <1>1, <1>2, <1>5, <1>6, <1>7, <1>8, Parts, Nothings, TurnFrame
     DEF IInv, ProcTypes, TaskTypes, Idle

-----------------------------------------------------------------------------
(* Frames for the steps that change the repository or the rows *)

\* No branch of the user loses a commit.
Grown == src' \in Source /\ \A b \in Branches : src.heads[b] \subseteq src'.heads[b]

\* The state of generation g has changed as a row may change that keeps what it has
\* recorded, or forgets its snapshot.
Moved(g) ==
  /\ gen'[g].root = gen[g].root /\ gen'[g].base = gen[g].base /\ gen'[g].target = gen[g].target
  /\ gen'[g].state # gen[g].state =>
       /\ gen[g].state # "none" /\ gen'[g].state \notin {"none", "provisioning", "integrated"}
       /\ gen[g].root \/ gen'[g].state = "orphaned"
       /\ gen'[g].state = "released" => gen[g].state = "integrated"
  /\ \/ gen'[g].review = gen[g].review /\ gen'[g].final = gen[g].final
     \/ gen'[g].final = None /\ gen'[g].state \notin {"integrated", "released"}

\* A generation keeps what its row says when the row moves, its worktree stays or
\* goes, and the branches grow.
LEMMA RowMoves ==
  ASSUME IInv, NEW g \in Gens, Moved(g), Grown, Own(g)' = Own(g),
         tree'[g] = tree[g] \/ ~tree'[g].there
  PROVE  RowInv(g)'
<1>1. RowInv(g) /\ gen[g] \in GenRow /\ gen[g].target \in Branches
  BY DEF IInv, RepoTypes, GenRow
<1>3. \A S : Merged(S) => Merged(S)'
  BY DEF Merged, Grown
<1>4. src.heads[gen[g].target] \subseteq src'.heads[gen'[g].target]
  BY <1>1 DEF Moved, Grown
<1> QED
  BY <1>1, <1>3, <1>4 DEF RowInv, Moved

\* What has left a worktree that is gone is in a branch of the user.
LEMMA LostFrame ==
  ASSUME IInv, author' = author, Grown, removed \subseteq removed', tree' \in [Gens -> Tree],
         \A g \in Gens \ removed' : tree[g].there =>
           \/ tree'[g].there /\ tree[g].head \subseteq tree'[g].head
           \/ Own(g) = {} \/ Merged(tree[g].head)
  PROVE  NothingLost'
<1> SUFFICES ASSUME NEW k \in 1..Len(author), author[k] \in Gens \ removed'
             PROVE  \/ tree'[author[k]].there /\ k \in tree'[author[k]].head
                    \/ \E b \in Branches : k \in src'.heads[b]
  BY DEF NothingLost
<1>1. \/ tree[author[k]].there /\ k \in tree[author[k]].head
      \/ \E b \in Branches : k \in src.heads[b]
  BY DEF IInv, NothingLost
<1>2. k \in Own(author[k])
  BY DEF Own
<1> QED
  BY <1>1, <1>2 DEF Merged, Grown

\* The current generation moves, and stays the open one.
LEMMA OpenStays ==
  ASSUME IInv, UNCHANGED policy, task'.current = task.current,
         \A g \in Gens : /\ gen'[g].state \in Open <=> gen[g].state \in Open
                         /\ gen'[g].state = "none" <=> gen[g].state = "none"
                         /\ gen'[g].state = "provisioning" => gen[g].state = "provisioning"
  PROVE  OpenInv'
BY Constants DEF IInv, OpenInv

\* The current generation is closed.
LEMMA OpenCloses ==
  ASSUME IInv, UNCHANGED policy, task.current # 0, task'.current = 0,
         gen'[task.current].state \in {"released", "orphaned"},
         \A g \in Gens \ {task.current} : gen'[g].state = gen[g].state
  PROVE  OpenInv'
<1>1. task.current \in Gens /\ gen[task.current].state \in Open
  BY Parts DEF Current
<1>2. \A g \in Gens : gen'[g].state \notin Open
  BY DEF IInv, OpenInv, Open, Blocked
<1>3. gen[task.current].state # "none"
  BY <1>1 DEF Open, Blocked
<1>4. PICK n \in 0..MaxGens : \A g \in Gens : gen[g].state # "none" <=> g <= n
  BY DEF IInv, OpenInv
<1>5. \A g \in Gens : gen'[g].state # "none" <=> g <= n
  BY <1>1, <1>3, <1>4
<1> QED
  BY <1>2, <1>5, Constants DEF IInv, OpenInv

\* While the daemon is up, nobody recovers.
LEMMA UpFrame ==
  ASSUME IInv, mode = "up", UNCHANGED <<mode, fz>>, req'["rec"] = req["rec"],
         run.pc = "finalizing" <=> run'.pc = "finalizing",
         \A g \in Gens : gen'[g].state = "integrated" => gen[g].state = "integrated"
  PROVE  ModeInv'
BY DEF IInv, ModeInv

\* A finalization is disturbed neither by what the user does in the repository nor
\* by what others do to other generations.
LEMMA FzKeeps ==
  ASSUME IInv, UNCHANGED fz, Grown, \A g \in Gens : Own(g)' = Own(g),
         \A k \in 0..MaxGens : lock[k] = "fz" => lock'[k] = "fz",
         fz.pc \notin {"idle", "lock"} =>
           /\ task'.current = task.current
           /\ gen'[fz.gen].target = gen[fz.gen].target /\ gen'[fz.gen].final = gen[fz.gen].final
           /\ \/ gen'[fz.gen].state = gen[fz.gen].state
              \/ gen[fz.gen].state = "finalizing" /\ gen'[fz.gen].state = "finalize_blocked"
           /\ tree'[fz.gen] = tree[fz.gen] \/ ~tree'[fz.gen].there
  PROVE  FzInv'
<1>1. FzInv /\ gen \in [Gens -> GenRow]
  BY DEF IInv, RepoTypes
<1>2. CASE fz.pc \in {"idle", "lock"}
  BY <1>1, <1>2 DEF FzInv, Seen, Aimed, Noted
<1>3. CASE fz.pc \notin {"idle", "lock"}
  <2>1. fz.gen \in Gens /\ fz.gen \in 0..MaxGens /\ Row \in GenRow /\ Row.target \in Branches
    BY <1>1, <1>3, Constants DEF FzInv, GenRow, Row
  <2>2. lock'[fz.gen] = "fz" /\ task'.current = fz.gen
    BY <1>1, <1>3, <2>1 DEF FzInv
  <2>3. \A S : Merged(S) => Merged(S)'
    BY DEF Merged, Grown
  <2>4. Own(fz.gen)' = Own(fz.gen) /\ src.heads[Row.target] \subseteq src'.heads[Row'.target]
    BY <1>3, <2>1 DEF Grown, Row
  <2>5. Row'.final = Row.final /\ (tree'[fz.gen] = tree[fz.gen] \/ ~tree'[fz.gen].there)
    BY <1>3 DEF Row
  <2>6. \/ Row'.state = Row.state
        \/ Row.state = "finalizing" /\ Row'.state = "finalize_blocked"
    BY <1>3 DEF Row
  <2> QED
    BY <1>1, <2>1, <2>2, <2>3, <2>4, <2>5, <2>6 DEF FzInv, Seen, Aimed, Noted
<1> QED
  BY <1>2, <1>3

\* Those that have the lock of a generation, or wait for one, are not disturbed by
\* what leaves the generations that are being provisioned alone.
LEMMA LockKeeps ==
  ASSUME IInv, UNCHANGED req, cancel' = cancel \/ cancel'.pc # "lock",
         lock'[0] = lock[0] \/ lock[0] \notin {"run", "agent"},
         \A g \in Gens : /\ gen[g].state # "none" => gen'[g].state # "none"
                         /\ gen[g].root => gen'[g].root,
         \A p \in Callers : rq(p) \in {"tree", "ready"} => gen'[req[p].gen].state = "provisioning"
  PROVE  LockInv'
<1>1. \A p \in {"run", "agent"} : rq(p) \in {"tree", "ready"} => lock'[0] = p
  BY DEF IInv, LockInv
<1> QED
  BY <1>1 DEF IInv, LockInv, rq

-----------------------------------------------------------------------------
(* Requests for a workspace *)

\* A step of a daemon that is up that leaves the repository, the rows and the turn
\* alone.
LEMMA UpKeeps ==
  ASSUME IInv, mode = "up",
         UNCHANGED <<policy, task, gen, tree, src, author, mem, run, fz, calls, complete,
                     mode, execs, stopped, removed, turns>>,
         req' \in [Callers -> Req], req'["rec"] = req["rec"],
         req'["run"] # Idle => req["run"] # Idle,
         cancel' \in Cancels,
         lock' \in [0..MaxGens -> {"run", "agent", "fz", "cancel", "complete", None}],
         \A k \in 0..MaxGens : lock[k] \in {"fz", "complete"} => lock'[k] = lock[k],
         troubles' \in 0..MaxTroubles, stuck' \subseteq Gens,
         LockInv'
  PROVE  IInv'
<1>1. RepoTypes' /\ OpenInv' /\ (\A g \in Gens : RowInv(g))' /\ NothingLost'
  BY RepoFrame
<1>2. FzInv'
  BY FzFrame
<1>3. TaskTypes' /\ ProcTypes'
  BY DEF IInv, TaskTypes, ProcTypes
<1>4. ModeInv'
  BY DEF IInv, ModeInv, Current
<1>5. RunInv'
  BY DEF IInv, RunInv, Owns, Current
<1>6. CallInv'
  BY CallFrame
<1> QED
  BY <1>1, <1>2, <1>3, <1>4, <1>5, <1>6 DEF IInv

\* Who is asked for what: Recover's own request has a generation from the start, and
\* the others are made while the daemon is up.
LEMMA Requesters ==
  ASSUME IInv, NEW p \in Callers, req[p] # Idle
  PROVE  /\ p = "rec" => mode = "provision" /\ rq(p) \in {"tree", "ready", "ok", "failed"}
         /\ p # "rec" => mode = "up"
BY DEF IInv, ModeInv, Callers, rq

\* The lock of a generation that is open.
LEMMA Keys ==
  ASSUME IInv, task.current # 0
  PROVE  /\ task.current \in Gens /\ Current.state # "none" /\ Key(task.current) \in 0..MaxGens
         /\ Key(task.current) = 0 \/ (Key(task.current) = task.current /\ gen[task.current].root)
BY Parts, Constants DEF Key, Current, Open, Blocked

\* The current generation is looked up, to be canceled.
LEMMA CancelLookKeeps ==
  ASSUME IInv, CancelLook
  PROVE  IInv'
<1>1. /\ cancel.pc = "look"
      /\ cancel' = IF task.current = 0 THEN [cancel EXCEPT !.pc = "end"]
                   ELSE [pc |-> "lock", gen |-> task.current, key |-> Key(task.current)]
      /\ UNCHANGED <<policy, task, gen, tree, src, author, mem, lock, run, req, fz, calls,
                     complete, mode, execs, stopped, removed, stuck, turns, troubles>>
  BY DEF CancelLook, ghosts, bounds
<1>2. mode = "up"
  BY <1>1 DEF IInv, ModeInv, Idle
<1>3. cancel' \in Cancels
  BY <1>1, Keys, Parts DEF Cancels
<1>4. LockInv'
  BY <1>1, Keys, Parts DEF IInv, LockInv, rq, Cancels, Current
<1> QED
  BY <1>1, <1>2, <1>3, <1>4, Parts, UpKeeps

\* The current generation is looked up, to be provisioned.
LEMMA RqLookKeeps ==
  ASSUME IInv, NEW p \in Callers, RqLook(p)
  PROVE  IInv'
<1> DEFINE r == IF task.current = 0 THEN [Idle EXCEPT !.pc = "insert"]
                ELSE [pc |-> "lock", gen |-> task.current, key |-> Key(task.current)]
<1>1. /\ rq(p) = "look" /\ req' = [req EXCEPT ![p] = r]
      /\ UNCHANGED <<policy, task, gen, tree, src, author, mem, lock, run, fz, cancel, calls,
                     complete, mode, execs, stopped, removed, stuck, turns, troubles>>
  BY DEF RqLook, ghosts, bounds
<1>2. req[p] # Idle
  BY <1>1 DEF rq, Idle
<1>3. mode = "up" /\ p # "rec"
  BY <1>1, <1>2, Requesters
<1>4. /\ r \in Req /\ r.pc \in {"insert", "lock"}
      /\ r.pc = "lock" => /\ r.gen \in Gens /\ gen[r.gen].state # "none"
                          /\ r.key = 0 \/ (r.key = r.gen /\ gen[r.gen].root)
  <2>1. CASE task.current = 0
    BY <2>1, Nothings DEF Req, Idle
  <2>2. CASE task.current # 0
    BY <2>2, Keys, Parts DEF Req, Current
  <2> QED
    BY <2>1, <2>2
<1> HIDE DEF r
<1>5. req' \in [Callers -> Req] /\ req'[p] = r /\ \A q \in Callers \ {p} : req'[q] = req[q]
  BY <1>1, <1>4, Parts
<1>6. LockInv'
  BY <1>1, <1>4, <1>5 DEF IInv, LockInv, rq, Callers
<1>7. req'["run"] # Idle => req["run"] # Idle
  BY <1>2, <1>5 DEF Callers
<1> QED
  BY <1>1, <1>3, <1>5, <1>6, <1>7, Parts, UpKeeps DEF Callers

\* An answer ends the request.
LEMMA Answers ==
  ASSUME IInv, NEW p \in Callers, NEW pc \in {"ok", "failed"}, req' = Answer(p, pc), req[p] # Idle
  PROVE  /\ req' \in [Callers -> Req] /\ \A q \in Callers \ {p} : req'[q] = req[q]
         /\ req'[p].pc \in {"idle", "ok", "failed"} /\ req'[p].gen \in 0..MaxGens
         /\ p # "agent" => req'[p].pc = pc /\ req'[p].gen = req[p].gen
         /\ p = "agent" => req'[p] = Idle
         /\ req'["run"] # Idle => req["run"] # Idle
<1> DEFINE r == IF p = "agent" THEN Idle ELSE [req[p] EXCEPT !.pc = pc]
<1>1. req' = [req EXCEPT ![p] = r]
  BY DEF Answer
<1>2. /\ r \in Req /\ r.pc \in {"idle", "ok", "failed"}
      /\ p # "agent" => r.pc = pc /\ r.gen = req[p].gen
      /\ p = "agent" => r = Idle
  BY Parts, Nothings DEF Req, Idle
<1> HIDE DEF r
<1>3. req' \in [Callers -> Req] /\ req'[p] = r /\ \A q \in Callers \ {p} : req'[q] = req[q]
  BY <1>1, <1>2, Parts
<1> QED
  BY <1>2, <1>3 DEF Req, Callers

\* Under the lock the generation is read again.
LEMMA RqLockKeeps ==
  ASSUME IInv, NEW p \in Callers, RqLock(p)
  PROVE  IInv'
<1> DEFINE g == req[p].gen
<1>1. /\ rq(p) = "lock" /\ lock[req[p].key] = None
      /\ IF gen[g].state = "provisioning"
         THEN lock' = [lock EXCEPT ![req[p].key] = p] /\ req' = [req EXCEPT ![p].pc = "tree"]
         ELSE /\ req' = Answer(p, IF gen[g].state = "ready" THEN "ok" ELSE "failed")
              /\ UNCHANGED lock
      /\ UNCHANGED <<policy, task, gen, tree, src, author, mem, run, fz, cancel, calls,
                     complete, mode, execs, stopped, removed, stuck, turns, troubles>>
  BY DEF RqLock, ghosts, bounds
<1>2. req[p] # Idle /\ req[p] \in Req
  BY <1>1, Parts DEF rq, Idle
<1>3. mode = "up" /\ p # "rec"
  BY <1>1, <1>2, Requesters
<1>4. CASE gen[g].state = "provisioning"
  <2>1. g \in Gens /\ ~gen[g].root /\ req[p].key = 0
    BY <1>1, <1>4 DEF IInv, LockInv, RowInv
  <2>2. /\ req' \in [Callers -> Req] /\ req'[p].pc = "tree" /\ req'[p].gen = g /\ req'[p].key = 0
        /\ \A q \in Callers \ {p} : req'[q] = req[q]
    <3>1. /\ req' = [req EXCEPT ![p] = [req[p] EXCEPT !.pc = "tree"]]
          /\ req \in [Callers -> Req]
      BY <1>1, <1>4, Parts
    <3>2. /\ [req[p] EXCEPT !.pc = "tree"] \in Req /\ [req[p] EXCEPT !.pc = "tree"].pc = "tree"
          /\ [req[p] EXCEPT !.pc = "tree"].gen = g /\ [req[p] EXCEPT !.pc = "tree"].key = 0
      BY <1>2, <2>1 DEF Req
    <3> QED
      BY <3>1, <3>2
  <2>3. /\ lock' \in [0..MaxGens -> {"run", "agent", "fz", "cancel", "complete", None}] /\ lock'[0] = p
        /\ \A k \in 0..MaxGens : lock[k] \in {"fz", "complete"} => lock'[k] = lock[k]
    BY <1>1, <1>3, <1>4, <2>1, Parts, Constants DEF Callers
  <2>4. \A q \in {"run", "agent"} : rq(q) \in {"tree", "ready"} => FALSE
    BY <1>1, <2>1, Constants DEF IInv, LockInv
  <2>5. \A q \in {"run", "agent"} : rq(q)' \in {"tree", "ready"} => q = p
    BY <2>2, <2>4 DEF rq, Callers
  <2>6. LockInv'
    BY <1>1, <1>4, <2>1, <2>2, <2>3, <2>5 DEF IInv, LockInv, rq
  <2>7. req'["run"] # Idle => req["run"] # Idle
    BY <1>2, <2>2 DEF Callers
  <2> QED
    BY <1>1, <1>3, <2>2, <2>3, <2>6, <2>7, Parts, UpKeeps DEF Callers
<1>5. CASE gen[g].state # "provisioning"
  <2> DEFINE x == IF gen[g].state = "ready" THEN "ok" ELSE "failed"
  <2>1. req' = Answer(p, x) /\ x \in {"ok", "failed"} /\ UNCHANGED lock
    BY <1>1, <1>5
  <2> HIDE DEF x
  <2>2. /\ req' \in [Callers -> Req] /\ \A q \in Callers \ {p} : req'[q] = req[q]
        /\ req'[p].pc \in {"idle", "ok", "failed"} /\ (req'["run"] # Idle => req["run"] # Idle)
    BY <1>2, <2>1, Answers
  <2>3. LockInv'
    BY <1>1, <2>1, <2>2 DEF IInv, LockInv, rq, Callers
  <2> QED
    BY <1>1, <1>3, <2>1, <2>2, <2>3, Parts, UpKeeps DEF Callers
<1> QED
  BY <1>4, <1>5

\* The generation a caller provisions: the current one, in which nobody has worked,
\* and which is not being finalized.
LEMMA Provisioning ==
  ASSUME IInv, NEW p \in Callers, rq(p) \in {"tree", "ready"}
  PROVE  /\ req[p] # Idle /\ req[p] \in Req /\ req[p].gen \in Gens /\ req[p].gen \in 0..MaxGens
         /\ gen[req[p].gen].state = "provisioning" /\ task.current = req[p].gen
         /\ Own(req[p].gen) = {} /\ gen[req[p].gen] \in GenRow /\ fz.pc \in {"idle", "lock"}
         /\ mode \notin {"release", "released"}
<1>1. req[p] # Idle /\ req[p] \in Req
  BY Parts DEF rq, Idle
<1>2. req[p].gen \in Gens /\ gen[req[p].gen].state = "provisioning"
  BY DEF IInv, LockInv
<1>3. req[p].gen \in 0..MaxGens /\ gen[req[p].gen] \in GenRow
  BY <1>2, Parts, Constants
<1>4. task.current = req[p].gen /\ Own(req[p].gen) = {}
  BY <1>2 DEF IInv, OpenInv, Open, RowInv
<1>5. fz.pc \in {"idle", "lock"}
  BY <1>2, <1>4, Parts DEF IInv, FzInv, Row, Fz, Seen
<1>6. mode \notin {"release", "released"}
  BY <1>1, Requesters
<1> QED
  BY <1>1, <1>2, <1>3, <1>4, <1>5, <1>6

\* The next generation.
LEMMA NextGen ==
  ASSUME IInv, \A g \in Gens : gen[g].state \notin Open
  PROVE  LET n == Cardinality({h \in Gens : gen[h].state # "none"}) IN
         /\ n \in 0..MaxGens /\ \A g \in Gens : gen[g].state # "none" <=> g <= n
<1>1. PICK n \in 0..MaxGens : \A g \in Gens : gen[g].state # "none" <=> g <= n
  BY DEF IInv, OpenInv
<1>2. {h \in Gens : gen[h].state # "none"} = 1..n /\ n \in Nat
  BY <1>1, Constants DEF Gens
<1>3. Cardinality(1..n) = n
  <2>1. 1 \in Int /\ n \in Int /\ n - 1 + 1 = n
    BY <1>2
  <2>2. Cardinality(1..n) = IF 1 > n THEN 0 ELSE n - 1 + 1
    BY <2>1, FS_Interval
  <2> QED
    BY <1>2, <2>1, <2>2
<1> QED
  BY <1>1, <1>2, <1>3

\* InsertWorkspaceAsCurrent.
LEMMA RqInsertKeeps ==
  ASSUME IInv, NEW p \in Callers, RqInsert(p)
  PROVE  IInv'
<1> DEFINE n == Cardinality({h \in Gens : gen[h].state # "none"})
           next == n + 1
           row == [NoRow EXCEPT !.state = "provisioning", !.base = SourceHead,
                                !.target = src.on, !.owner = run.exec]
<1>1. /\ rq(p) = "insert"
      /\ IF \E h \in Gens : gen[h].state \in Open
         THEN req' = Answer(p, "failed") /\ UNCHANGED <<task, gen>>
         ELSE /\ next \in Gens /\ gen' = [gen EXCEPT ![next] = row]
              /\ task' = [task EXCEPT !.current = next]
              /\ req' = [req EXCEPT ![p] = [pc |-> "lock", gen |-> next, key |-> 0]]
      /\ UNCHANGED <<policy, tree, src, author, mem, lock, run, fz, cancel, calls, complete,
                     mode, execs, stopped, removed, stuck, turns, troubles>>
  BY DEF RqInsert, ghosts, bounds
<1>2. req[p] # Idle /\ req[p] \in Req
  BY <1>1, Parts DEF rq, Idle
<1>3. mode = "up" /\ p # "rec"
  BY <1>1, <1>2, Requesters
<1>4. CASE \E h \in Gens : gen[h].state \in Open
  <2>1. /\ req' \in [Callers -> Req] /\ \A q \in Callers \ {p} : req'[q] = req[q]
        /\ req'[p].pc \in {"idle", "ok", "failed"} /\ (req'["run"] # Idle => req["run"] # Idle)
    BY <1>1, <1>2, <1>4, Answers
  <2>2. LockInv'
    BY <1>1, <1>4, <2>1 DEF IInv, LockInv, rq, Callers
  <2> QED
    BY <1>1, <1>3, <1>4, <2>1, <2>2, Parts, UpKeeps DEF Callers
<1>5. CASE \A h \in Gens : gen[h].state \notin Open
  <2>1. n \in 0..MaxGens /\ \A h \in Gens : gen[h].state # "none" <=> h <= n
    BY <1>5, NextGen
  <2>p. PICK g \in Gens : g = next
    BY <1>1, <1>5
  <2>2. /\ gen' = [gen EXCEPT ![g] = row]
        /\ task' = [task EXCEPT !.current = g]
        /\ req' = [req EXCEPT ![p] = [pc |-> "lock", gen |-> g, key |-> 0]]
    BY <1>1, <1>5, <2>p
  <2>q. g = n + 1
    BY <2>p
  <2> HIDE DEF n, next
  <2>3. g \in Nat /\ g # 0 /\ g \in 0..MaxGens /\ gen[g].state = "none" /\ n \in Nat /\ g = n + 1
    BY <2>1, <2>q, Constants DEF Gens
  <2>4. task.current = 0
    BY <1>5, Parts DEF Current
  <2>5. /\ row \in GenRow /\ row.state = "provisioning" /\ row.base = SourceHead /\ row.target = src.on
        /\ row.owner = run.exec /\ row.done = 0 /\ ~row.root /\ row.final = None
        /\ run.exec <= execs /\ run.exec \in Nat /\ src.on \in Branches /\ SourceHead \in SUBSET Commits
    <3>1. /\ NoRow \in GenRow /\ "provisioning" \in Open /\ src.on \in Branches
          /\ SourceHead \in SUBSET Commits /\ run.exec \in Nat /\ run.exec <= execs
      BY Nothings, Parts DEF Open, SourceHead, Source, Run, IInv, ProcTypes
    <3> DEFINE head == SourceHead
               states == Open \cup {"none", "released", "orphaned"}
               marks  == (SUBSET Commits) \cup {None}
    <3>2. GenRow = [state : states, root : BOOLEAN, base : SUBSET Commits, target : Branches,
                    owner : Nat, done : Nat, review : marks, final : marks]
      BY DEF GenRow
    <3>3. head \in SUBSET Commits /\ "provisioning" \in states
      BY <3>1
    <3>4. row = [NoRow EXCEPT !.state = "provisioning", !.base = head, !.target = src.on,
                              !.owner = run.exec]
      OBVIOUS
    <3> HIDE DEF row, head, states, marks
    <3>5. row \in GenRow
      BY <3>1, <3>2, <3>3, <3>4
    <3>6. /\ row.state = "provisioning" /\ row.base = head /\ row.target = src.on
          /\ row.owner = run.exec /\ row.done = 0 /\ ~row.root /\ row.final = None
      BY <3>4 DEF NoRow
    <3> QED
      BY <3>1, <3>5, <3>6 DEF head
  <2> HIDE DEF row
  <2>6. /\ gen' \in [Gens -> GenRow] /\ gen'[g] = row
        /\ \A h \in Gens \ {g} : gen'[h] = gen[h]
        /\ task' \in TaskRow /\ task'.current = g /\ task'.status = task.status
        /\ req' \in [Callers -> Req] /\ req'[p] = [pc |-> "lock", gen |-> g, key |-> 0]
        /\ \A q \in Callers \ {p} : req'[q] = req[q]
    <3>1. gen' \in [Gens -> GenRow] /\ gen'[g] = row /\ \A h \in Gens \ {g} : gen'[h] = gen[h]
      BY <2>2, <2>5, Parts
    <3>2. task' \in TaskRow /\ task'.current = g /\ task'.status = task.status
      BY <2>2, <2>3, Parts DEF TaskRow
    <3>3. [pc |-> "lock", gen |-> g, key |-> 0] \in Req
      BY <2>3, Constants DEF Req
    <3> QED
      BY <2>2, <3>1, <3>2, <3>3, Parts
  <2>7. RepoTypes' /\ NothingLost'
    BY <1>1, <2>6 DEF IInv, RepoTypes, NothingLost
  <2>8. TaskTypes'
    BY <1>1, <2>5, <2>6 DEF IInv, TaskTypes
  <2>9. ProcTypes'
    BY <1>1, <2>6 DEF IInv, ProcTypes
  <2>10. OpenInv'
    <3>1. \A h \in Gens : gen'[h].state \in Open <=> task'.current = h
      BY <1>5, <2>5, <2>6 DEF Open
    <3>2. \A h \in Gens : gen'[h].state # "none" <=> h <= g
      BY <2>1, <2>3, <2>5, <2>6 DEF Gens
    <3>3. policy' = "worktree" => g # 1
      BY <1>1, <2>3, Constants DEF IInv, OpenInv
    <3>4. policy' = "worktree" => gen'[1].state \notin {"none", "provisioning"}
      BY <1>1, <2>6, <3>3, Constants DEF IInv, OpenInv
    <3> QED
      BY <2>3, <3>1, <3>2, <3>4 DEF OpenInv
  <2>11. ASSUME NEW h \in Gens
         PROVE  RowInv(h)'
    <3>1. CASE h = g
      <4>1. ~tree[g].there /\ Own(g) = {}
        BY <2>2, <2>3 DEF IInv, RowInv
      <4>2. Own(g)' = Own(g) /\ tree'[g] = tree[g] /\ src' = src
        BY <1>1 DEF Own
      <4> QED
        BY <2>5, <2>6, <3>1, <4>1, <4>2 DEF RowInv, SourceHead
    <3>2. CASE h # g
      BY <1>1, <2>6, <3>2 DEF IInv, RowInv, Own, Merged
    <3> QED
      BY <3>1, <3>2
  <2>12. ModeInv'
    BY <1>1, <1>3, <2>5, <2>6, UpFrame DEF Callers
  <2>13. RunInv'
    <3>1. req'["run"] # Idle => req["run"] # Idle
      BY <1>2, <2>6 DEF Callers
    <3>2. Current'.owner = run.exec
      BY <2>5, <2>6 DEF Current
    <3>3. run.pc = "live" /\ run.where # 0 => run.where # g /\ run.where \in Gens
      BY <2>3, Parts DEF IInv, RunInv, Run, Gens
    <3>4. \A h \in Gens : gen'[h].state = "integrated" => gen[h].state = "integrated"
      BY <2>5, <2>6
    <3> QED
      BY <1>1, <2>6, <3>1, <3>2, <3>3, <3>4 DEF IInv, RunInv, Owns
  <2>14. LockInv'
    <3>1. \A h \in Gens : gen[h].state # "none" => h # g /\ gen'[h] = gen[h]
      BY <2>3, <2>6
    <3>2. \A q \in Callers : rq(q)' \in {"tree", "ready"} => q # p /\ req'[q] = req[q]
      BY <2>6 DEF rq
    <3>3. \A q \in Callers \ {p} : rq(q)' = rq(q)
      BY <2>6 DEF rq
    <3> QED
      BY <1>1, <2>2, <2>5, <2>6, <3>1, <3>2, <3>3 DEF IInv, LockInv, rq
  <2>15. FzInv'
    <3>1. fz.pc \in {"idle", "lock"}
      BY <2>4, Constants DEF IInv, FzInv
    <3> QED
      BY <1>1, <3>1 DEF IInv, FzInv, Seen, Aimed, Noted
  <2>16. CallInv'
    <3>1. \A h \in Gens : gen[h].root => gen'[h] = gen[h]
      BY <2>3, <2>6 DEF IInv, RowInv
    <3> QED
      BY <1>1, <3>1, CallFrame
  <2> QED
    BY <2>7, <2>8, <2>9, <2>10, <2>11, <2>12, <2>13, <2>14, <2>15, <2>16 DEF IInv
<1> QED
  BY <1>4, <1>5

\* PrepareGeneration: nobody has worked in what it makes.
LEMMA RqTreeKeeps ==
  ASSUME IInv, NEW p \in Callers, RqTree(p)
  PROVE  IInv'
<1>1. /\ rq(p) = "tree"
      /\ UNCHANGED <<policy, task, gen, src, author, mem, run, fz, cancel, calls, complete,
                     mode, execs, stopped, removed, stuck, turns>>
  BY DEF RqTree, ghosts
<1>2. PICK g \in Gens : g = req[p].gen
  BY <1>1, Provisioning
<1>3. /\ req[p] # Idle /\ req[p] \in Req /\ g \in 0..MaxGens
      /\ gen[g].state = "provisioning" /\ task.current = g
      /\ Own(g) = {} /\ gen[g] \in GenRow /\ fz.pc \in {"idle", "lock"}
      /\ mode \notin {"release", "released"}
      /\ p = "rec" => mode = "provision"
      /\ p # "rec" => mode = "up"
  BY <1>1, <1>2, Provisioning, Requesters
<1>4. /\ tree' \in [Gens -> Tree] /\ \A h \in Gens \ {g} : tree'[h] = tree[h]
      /\ tree'[g].there => tree'[g].head = gen[g].base
      /\ troubles' \in 0..MaxTroubles
      /\ req' \in [Callers -> Req] /\ \A q \in Callers \ {p} : req'[q] = req[q]
      /\ req'[p].pc \in {"idle", "ready", "failed"}
      /\ p # "agent" => req'[p].pc # "idle"
      /\ req'[p].pc = "ready" => req'[p].gen = g /\ req'[p].key = req[p].key
      /\ p = "rec" => req'[p].gen = g
      /\ p = "run" \/ req'["run"] # Idle => req["run"] # Idle
      /\ lock' = lock \/ (lock' = Unlocked(p) /\ req'[p].pc # "ready")
  <2>1. CASE /\ ~tree[g].there \/ tree[g].head = gen[g].base
             /\ tree' = [tree EXCEPT ![g] = IF @.there THEN @
                      ELSE [there |-> TRUE, head |-> gen[g].base, dirty |-> FALSE]]
             /\ req' = [req EXCEPT ![p].pc = "ready"] /\ UNCHANGED troubles /\ UNCHANGED lock
    <3> DEFINE t == IF tree[g].there THEN tree[g]
                    ELSE [there |-> TRUE, head |-> gen[g].base, dirty |-> FALSE]
    <3>1. t \in Tree /\ t.head = gen[g].base /\ tree' = [tree EXCEPT ![g] = t]
      BY <2>1, <1>3, Parts DEF Tree, GenRow
    <3> HIDE DEF t
    <3>2. tree' \in [Gens -> Tree] /\ tree'[g] = t /\ \A h \in Gens \ {g} : tree'[h] = tree[h]
      BY <3>1, Parts
    <3>3. /\ req' \in [Callers -> Req] /\ \A q \in Callers \ {p} : req'[q] = req[q]
          /\ req'[p].pc = "ready" /\ req'[p].gen = g /\ req'[p].key = req[p].key
      BY <2>1, <1>2, <1>3, Parts DEF Req
    <3>4. p = "run" \/ req'["run"] # Idle => req["run"] # Idle
      BY <1>3, <3>3 DEF Callers
    <3>5. troubles' \in 0..MaxTroubles
      BY <2>1 DEF IInv, TaskTypes
    <3> QED
      BY <2>1, <3>1, <3>2, <3>3, <3>4, <3>5
  <2>2. CASE /\ ~tree[g].there /\ Trouble
             /\ req' = Answer(p, "failed") /\ lock' = Unlocked(p) /\ UNCHANGED tree
    <3>1. troubles' \in 0..MaxTroubles
      BY <2>2, Constants DEF Trouble, IInv, TaskTypes
    <3>2. /\ req' \in [Callers -> Req] /\ \A q \in Callers \ {p} : req'[q] = req[q]
          /\ req'[p].pc \in {"idle", "ok", "failed"}
          /\ p # "agent" => req'[p].pc = "failed" /\ req'[p].gen = g
          /\ p = "agent" => req'[p] = Idle
          /\ req'["run"] # Idle => req["run"] # Idle
      BY <2>2, <1>2, <1>3, Answers
    <3>3. req'[p].pc \in {"idle", "failed"}
      BY <3>2 DEF Idle
    <3> QED
      BY <2>2, <3>1, <3>2, <3>3, <1>3, Parts DEF Callers
  <2> QED
    BY <1>2, <2>1, <2>2 DEF RqTree
<1>5. req'["run"] # Idle => req["run"] # Idle
  BY <1>3, <1>4 DEF Callers
<1>6. /\ lock' \in [0..MaxGens -> {"run", "agent", "fz", "cancel", "complete", None}]
      /\ \A k \in 0..MaxGens : lock'[k] = lock[k] \/ (lock[k] = p /\ req'[p].pc # "ready")
      /\ \A k \in 0..MaxGens : lock[k] = "fz" => lock'[k] = "fz"
      /\ \A k \in 0..MaxGens : lock[k] = "complete" => lock'[k] = "complete"
  <2>1. CASE lock' = lock
    BY <2>1, Parts
  <2>2. CASE lock' = Unlocked(p) /\ req'[p].pc # "ready"
    <3>1. p \in {"run", "agent", "rec"} /\ p \notin {"fz", "complete"}
      BY DEF Callers
    <3> QED
      BY <2>2, <3>1, Unlocks
  <2> QED
    BY <1>4, <2>1, <2>2
<1>7. Own(g)' = Own(g) /\ \A h \in Gens : Own(h)' = Own(h)
  BY <1>1 DEF Own
<1>8. Grown
  BY <1>1, Parts DEF Grown
<1>9. RepoTypes' /\ TaskTypes'
  BY <1>1, <1>4 DEF IInv, RepoTypes, TaskTypes
<1>10. ProcTypes'
  BY <1>1, <1>4, <1>6 DEF IInv, ProcTypes
<1>11. OpenInv'
  BY <1>1 DEF IInv, OpenInv
<1>12. ASSUME NEW h \in Gens
       PROVE  RowInv(h)'
  <2>1. CASE h = g
    BY <1>1, <1>3, <1>4, <1>7, <2>1 DEF IInv, RowInv, Merged
  <2>2. CASE h # g
    BY <1>1, <1>4, <1>7, <2>2 DEF IInv, RowInv, Merged
  <2> QED
    BY <2>1, <2>2
<1>13. NothingLost'
  BY <1>1, <1>3, <1>4, <1>8, LostFrame DEF IInv, RepoTypes
<1>14. ModeInv'
  <2>1. CASE p = "rec"
    <3>1. mode = "provision" /\ req'[p].pc \in {"ready", "failed"} /\ req'[p].gen = g
      BY <2>1, <1>3, <1>4
    <3> QED
      BY <1>1, <1>3, <1>4, <2>1, <3>1 DEF IInv, ModeInv, Current, Callers
  <2>2. CASE p # "rec"
    BY <1>1, <1>3, <1>4, <2>2, UpFrame DEF Callers
  <2> QED
    BY <2>1, <2>2
<1>15. RunInv'
  BY <1>1, <1>5 DEF IInv, RunInv, Owns, Current
<1>16. LockInv'
  <2>1. \A q \in Callers \ {p} : rq(q)' = rq(q) /\ req'[q] = req[q]
    BY <1>4 DEF rq
  <2>2. \A q \in {"run", "agent"} : rq(q)' \in {"tree", "ready"} => lock'[0] = q
    <3> SUFFICES ASSUME NEW q \in {"run", "agent"}, rq(q)' \in {"tree", "ready"}
                 PROVE  lock'[0] = q
      OBVIOUS
    <3>1. rq(q) \in {"tree", "ready"} /\ (q = p => req'[p].pc = "ready")
      BY <1>1, <1>4, <2>1 DEF rq, Callers
    <3>2. lock[0] = q
      BY <3>1 DEF IInv, LockInv
    <3> QED
      BY <1>6, <3>1, <3>2, Constants
  <2>3. \A q \in Callers : rq(q)' \in {"lock", "tree", "ready"} =>
          rq(q) \in {"lock", "tree", "ready"} /\ req'[q].gen = req[q].gen /\ req'[q].key = req[q].key
    BY <1>1, <1>2, <1>4, <2>1 DEF rq
  <2>4. \A q \in Callers : rq(q)' \in {"tree", "ready"} => rq(q) \in {"tree", "ready"}
    BY <1>1, <1>4, <2>1 DEF rq
  <2> QED
    BY <1>1, <2>2, <2>3, <2>4 DEF IInv, LockInv
<1>17. FzInv'
  BY <1>1, <1>3, <1>6, <1>7, <1>8, FzKeeps
<1>18. CallInv'
  BY <1>1, <1>6, CallFrame
<1> QED
  BY <1>9, <1>10, <1>11, <1>12, <1>13, <1>14, <1>15, <1>16, <1>17, <1>18 DEF IInv

\* CompleteWorkspaceProvisioning, or the worktree is removed again.
LEMMA RqReadyKeeps ==
  ASSUME IInv, NEW p \in Callers, RqReady(p)
  PROVE  IInv'
<1>1. /\ rq(p) = "ready" /\ lock' = Unlocked(p)
      /\ UNCHANGED <<policy, task, src, author, mem, run, fz, cancel, calls, complete, mode,
                     execs, stopped, removed, stuck, turns>>
  BY DEF RqReady, ghosts
<1>2. PICK g \in Gens : g = req[p].gen
  BY <1>1, Provisioning
<1>3. /\ req[p] # Idle /\ req[p] \in Req /\ g \in 0..MaxGens
      /\ gen[g].state = "provisioning" /\ task.current = g
      /\ Own(g) = {} /\ gen[g] \in GenRow /\ fz.pc \in {"idle", "lock"}
      /\ mode \notin {"release", "released"}
      /\ p = "rec" => mode = "provision"
      /\ p # "rec" => mode = "up"
  BY <1>1, <1>2, Provisioning, Requesters
<1>4. PICK pc \in {"ok", "failed"} :
        /\ req' = Answer(p, pc)
        /\ troubles' \in 0..MaxTroubles
        /\ tree' \in [Gens -> Tree] /\ \A h \in Gens \ {g} : tree'[h] = tree[h]
        /\ tree'[g] = tree[g] \/ ~tree'[g].there
        /\ gen' \in [Gens -> GenRow] /\ \A h \in Gens \ {g} : gen'[h] = gen[h]
        /\ gen'[g].owner = gen[g].owner /\ gen'[g].done = gen[g].done
        /\ gen'[g].base = gen[g].base /\ gen'[g].target = gen[g].target
        /\ gen'[g].review = gen[g].review /\ gen'[g].final = gen[g].final
        /\ pc = "ok" => gen'[g].state = "ready" /\ gen'[g].root
        /\ pc = "failed" => gen' = gen
  <2>1. CASE /\ gen[g].state = "provisioning" /\ tree[g].there
             /\ gen' = [gen EXCEPT ![g].state = "ready", ![g].root = TRUE]
             /\ req' = Answer(p, "ok") /\ UNCHANGED troubles /\ UNCHANGED tree
    <3> DEFINE row == [gen[g] EXCEPT !.state = "ready", !.root = TRUE]
               states == Open \cup {"none", "released", "orphaned"}
               marks  == (SUBSET Commits) \cup {None}
    <3>1. GenRow = [state : states, root : BOOLEAN, base : SUBSET Commits, target : Branches,
                    owner : Nat, done : Nat, review : marks, final : marks]
      BY DEF GenRow
    <3>2. "ready" \in states
      BY DEF Open
    <3> HIDE DEF states, marks
    <3>3. /\ row \in GenRow /\ row.state = "ready" /\ row.root
          /\ row.owner = gen[g].owner /\ row.done = gen[g].done
          /\ row.base = gen[g].base /\ row.target = gen[g].target
          /\ row.review = gen[g].review /\ row.final = gen[g].final
      BY <1>3, <3>1, <3>2
    <3>4. gen' = [gen EXCEPT ![g] = row]
      BY <2>1, Parts
    <3> HIDE DEF row
    <3>5. gen' \in [Gens -> GenRow] /\ gen'[g] = row /\ \A h \in Gens \ {g} : gen'[h] = gen[h]
      BY <3>3, <3>4, Parts
    <3>6. troubles' \in 0..MaxTroubles /\ tree' \in [Gens -> Tree]
      BY <2>1, Parts DEF IInv, TaskTypes
    <3> QED
      BY <2>1, <3>3, <3>5, <3>6
  <2>2. CASE /\ IF tree[g].there THEN Trouble ELSE UNCHANGED troubles
             /\ tree' = [tree EXCEPT ![g] = NoTree]
             /\ req' = Answer(p, "failed") /\ UNCHANGED gen
    <3>1. troubles' \in 0..MaxTroubles
      BY <2>2, Constants DEF Trouble, IInv, TaskTypes
    <3>2. tree' \in [Gens -> Tree] /\ tree'[g] = NoTree /\ \A h \in Gens \ {g} : tree'[h] = tree[h]
      BY <2>2, Nothings, Parts
    <3>3. ~NoTree.there
      BY DEF NoTree
    <3> QED
      BY <2>2, <3>1, <3>2, <3>3, Parts
  <2> QED
    BY <1>2, <2>1, <2>2 DEF RqReady
<1>5. /\ req' \in [Callers -> Req] /\ \A q \in Callers \ {p} : req'[q] = req[q]
      /\ req'[p].pc \in {"idle", "ok", "failed"}
      /\ p # "agent" => req'[p].pc = pc /\ req'[p].gen = g
      /\ req'["run"] # Idle => req["run"] # Idle
  BY <1>2, <1>3, <1>4, Answers
<1>6. /\ lock' \in [0..MaxGens -> {"run", "agent", "fz", "cancel", "complete", None}]
      /\ \A k \in 0..MaxGens : lock'[k] = lock[k] \/ lock[k] = p
      /\ \A k \in 0..MaxGens : lock[k] = "fz" => lock'[k] = "fz"
      /\ \A k \in 0..MaxGens : lock[k] = "complete" => lock'[k] = "complete"
  <2>1. p \in {"run", "agent", "rec"} /\ p \notin {"fz", "complete"}
    BY DEF Callers
  <2> QED
    BY <1>1, <2>1, Unlocks
<1>7. \A h \in Gens : Own(h)' = Own(h)
  BY <1>1 DEF Own
<1>8. Grown
  BY <1>1, Parts DEF Grown
<1>9. gen'[g].state \in {"provisioning", "ready"} /\ (gen[g].root => gen'[g].root)
  BY <1>3, <1>4
<1>10. RepoTypes' /\ TaskTypes' /\ ProcTypes'
  <2>1. \A h \in Gens : gen'[h].owner = gen[h].owner /\ gen'[h].done = gen[h].done
    BY <1>4
  <2> QED
    BY <1>1, <1>4, <1>5, <1>6, <2>1 DEF IInv, RepoTypes, TaskTypes, ProcTypes
<1>11. OpenInv'
  BY <1>1, <1>3, <1>4, <1>9, OpenStays DEF Open
<1>12. ASSUME NEW h \in Gens
       PROVE  RowInv(h)'
  <2>1. CASE h = g
    <3>1. CASE pc = "ok"
      BY <1>1, <1>3, <1>4, <1>7, <2>1, <3>1 DEF IInv, RowInv, Merged
    <3>2. CASE pc = "failed"
      BY <1>1, <1>3, <1>4, <1>7, <2>1, <3>2 DEF IInv, RowInv, Merged
    <3> QED
      BY <3>1, <3>2
  <2>2. CASE h # g
    BY <1>1, <1>4, <1>7, <2>2 DEF IInv, RowInv, Merged
  <2> QED
    BY <2>1, <2>2
<1>13. NothingLost'
  BY <1>1, <1>3, <1>4, <1>8, LostFrame DEF IInv, RepoTypes
<1>14. ModeInv'
  <2>0. \A h \in Gens : gen'[h].state = "integrated" => gen[h].state = "integrated"
    BY <1>4, <1>9
  <2>1. CASE p = "rec"
    <3>1. mode = "provision" /\ req'[p].pc = pc /\ req'[p].gen = g
      BY <2>1, <1>3, <1>5
    <3>2. \A q \in Callers \ {"rec"} : req'[q] = req[q]
      BY <2>1, <1>5
    <3> QED
      BY <1>1, <1>3, <1>4, <2>0, <2>1, <3>1, <3>2 DEF IInv, ModeInv, Current, Callers
  <2>2. CASE p # "rec"
    BY <1>1, <1>3, <1>5, <2>0, <2>2, UpFrame DEF Callers
  <2> QED
    BY <2>1, <2>2
<1>15. RunInv'
  <2>1. Current'.owner = Current.owner
    BY <1>1, <1>3, <1>4 DEF Current
  <2>2. run.pc = "live" /\ run.where # 0 => gen'[run.where] = gen[run.where]
    BY <1>3, <1>4, Parts DEF IInv, RunInv, Run, Gens
  <2>3. \A h \in Gens : gen'[h].state = "integrated" => gen[h].state = "integrated"
    BY <1>4, <1>9
  <2> QED
    BY <1>1, <1>5, <2>1, <2>2, <2>3 DEF IInv, RunInv, Owns
<1>16. LockInv'
  <2>1. \A q \in Callers : rq(q)' \in {"lock", "tree", "ready"} =>
          rq(q) = rq(q)' /\ req'[q] = req[q] /\ q # p
    BY <1>5 DEF rq
  <2>2. \A q \in {"run", "agent"} : rq(q)' \in {"tree", "ready"} => lock'[0] = q
    <3> SUFFICES ASSUME NEW q \in {"run", "agent"}, rq(q)' \in {"tree", "ready"}
                 PROVE  lock'[0] = q
      OBVIOUS
    <3>1. rq(q) \in {"tree", "ready"} /\ q # p
      BY <2>1 DEF Callers
    <3>2. lock[0] = q
      BY <3>1 DEF IInv, LockInv
    <3> QED
      BY <1>6, <3>1, <3>2, Constants
  <2>3. \A q \in Callers : rq(q)' \in {"tree", "ready"} => gen'[req[q].gen].state = "provisioning"
    <3> SUFFICES ASSUME NEW q \in Callers, rq(q)' \in {"tree", "ready"}
                 PROVE  gen'[req[q].gen].state = "provisioning"
      OBVIOUS
    <3>1. rq(q) \in {"tree", "ready"} /\ q # p /\ req[q] # Idle
      BY <2>1 DEF rq, Idle
    <3>2. p # "rec" /\ q # "rec"
      BY <1>3, <3>1, Requesters
    <3>3. lock[0] = q /\ lock[0] = p
      BY <1>1, <3>1, <3>2 DEF IInv, LockInv, Callers
    <3> QED
      BY <3>1, <3>3
  <2>4. \A h \in Gens : /\ gen[h].state # "none" => gen'[h].state # "none"
                        /\ gen[h].root => gen'[h].root
    BY <1>4, <1>9
  <2> QED
    BY <1>1, <2>1, <2>2, <2>3, <2>4 DEF IInv, LockInv
<1>17. FzInv'
  BY <1>1, <1>3, <1>6, <1>7, <1>8, FzKeeps
<1>18. CallInv'
  <2>1. \A h \in Gens : gen[h].root => gen'[h].root /\ gen'[h].owner = gen[h].owner
    BY <1>4, <1>9
  <2> QED
    BY <1>1, <1>6, <2>1, CallFrame
<1> QED
  BY <1>10, <1>11, <1>12, <1>13, <1>14, <1>15, <1>16, <1>17, <1>18 DEF IInv

\* A statement fails before there is a worktree.
LEMMA RqFailsKeeps ==
  ASSUME IInv, NEW p \in Callers, RqFails(p)
  PROVE  IInv'
<1>1. /\ rq(p) \in {"look", "insert", "lock"} /\ Trouble /\ req' = Answer(p, "failed")
      /\ UNCHANGED <<policy, task, gen, tree, src, author, mem, lock, run, fz, cancel, calls,
                     complete, mode, execs, stopped, removed, stuck, turns>>
  BY DEF RqFails, ghosts
<1>2. req[p] # Idle
  BY <1>1 DEF rq, Idle
<1>3. mode = "up" /\ p # "rec"
  BY <1>1, <1>2, Requesters
<1>4. /\ req' \in [Callers -> Req] /\ \A q \in Callers \ {p} : req'[q] = req[q]
      /\ req'[p].pc \in {"idle", "ok", "failed"} /\ (req'["run"] # Idle => req["run"] # Idle)
  BY <1>1, <1>2, Answers
<1>5. LockInv'
  BY <1>1, <1>4 DEF IInv, LockInv, rq, Callers
<1>6. troubles' \in 0..MaxTroubles /\ stuck' \subseteq Gens
  BY <1>1, Troubled DEF IInv, TaskTypes
<1> QED
  BY <1>1, <1>3, <1>4, <1>5, <1>6, Parts, UpKeeps DEF Callers

\* A step of a request.
LEMMA RequestKeeps ==
  ASSUME IInv, NEW p \in Callers, Request(p)
  PROVE  IInv'
BY RqFailsKeeps, RqLookKeeps, RqInsertKeeps, RqLockKeeps, RqTreeKeeps, RqReadyKeeps
   DEF Request

-----------------------------------------------------------------------------
(* Steps that move the row of the current generation *)

\* The states a row may have, with none that is not a row yet.
States == Open \cup {"none", "released", "orphaned"}

\* A row with another state is a row, with all else as it was.
LEMMA StateSet ==
  ASSUME NEW r \in GenRow, NEW s \in States
  PROVE  LET q == [r EXCEPT !.state = s] IN
         /\ q \in GenRow /\ q.state = s /\ q.root = r.root /\ q.base = r.base /\ q.target = r.target
         /\ q.owner = r.owner /\ q.done = r.done /\ q.review = r.review /\ q.final = r.final
<1> DEFINE marks == (SUBSET Commits) \cup {None}
<1>1. GenRow = [state : States, root : BOOLEAN, base : SUBSET Commits, target : Branches,
                owner : Nat, done : Nat, review : marks, final : marks]
  BY DEF GenRow, States
<1> HIDE DEF marks
<1> QED
  BY <1>1

\* So is one that nobody completes any more.
LEMMA BlockedSet ==
  ASSUME NEW r \in GenRow, NEW s \in States
  PROVE  LET q == [r EXCEPT !.state = s, !.done = 0] IN
         /\ q \in GenRow /\ q.state = s /\ q.root = r.root /\ q.base = r.base /\ q.target = r.target
         /\ q.owner = r.owner /\ q.done = 0 /\ q.review = r.review /\ q.final = r.final
<1> DEFINE marks == (SUBSET Commits) \cup {None}
<1>1. GenRow = [state : States, root : BOOLEAN, base : SUBSET Commits, target : Branches,
                owner : Nat, done : Nat, review : marks, final : marks]
  BY DEF GenRow, States
<1> HIDE DEF marks
<1> QED
  BY <1>1

\* And one an execution has claimed.
LEMMA OwnerSet ==
  ASSUME NEW r \in GenRow, NEW x \in Nat
  PROVE  LET q == [r EXCEPT !.owner = x] IN
         /\ q \in GenRow /\ q.state = r.state /\ q.root = r.root /\ q.base = r.base
         /\ q.target = r.target /\ q.owner = x /\ q.done = r.done /\ q.review = r.review
         /\ q.final = r.final
<1> DEFINE marks == (SUBSET Commits) \cup {None}
<1>1. GenRow = [state : States, root : BOOLEAN, base : SUBSET Commits, target : Branches,
                owner : Nat, done : Nat, review : marks, final : marks]
  BY DEF GenRow, States
<1> HIDE DEF marks
<1> QED
  BY <1>1

\* And one an execution has completed.
LEMMA DoneSet ==
  ASSUME NEW r \in GenRow, NEW x \in Nat
  PROVE  LET q == [r EXCEPT !.state = "finalizing", !.done = x, !.review = None, !.final = None] IN
         /\ q \in GenRow /\ q.state = "finalizing" /\ q.root = r.root /\ q.base = r.base
         /\ q.target = r.target /\ q.owner = r.owner /\ q.done = x /\ q.final = None
<1> DEFINE marks == (SUBSET Commits) \cup {None}
<1>1. GenRow = [state : States, root : BOOLEAN, base : SUBSET Commits, target : Branches,
                owner : Nat, done : Nat, review : marks, final : marks]
  BY DEF GenRow, States
<1>2. "finalizing" \in States /\ None \in marks
  BY DEF States, Open
<1> HIDE DEF marks
<1> QED
  BY <1>1, <1>2

\* What a step keeps that moves rows and leaves the repository alone.
LEMMA RowsKeep ==
  ASSUME IInv, UNCHANGED <<policy, tree, src, author, execs, stopped, removed, turns>>,
         troubles' \in 0..MaxTroubles, stuck' \subseteq Gens,
         task' \in TaskRow, mem' \in Memory, mem'.active <= execs,
         gen' \in [Gens -> GenRow],
         \A g \in Gens : Moved(g) /\ gen'[g].owner <= execs /\ gen'[g].done <= execs
  PROVE  /\ RepoTypes' /\ TaskTypes' /\ (\A g \in Gens : RowInv(g))' /\ NothingLost' /\ Grown
         /\ \A g \in Gens : Own(g)' = Own(g)
<1>1. Grown /\ \A g \in Gens : Own(g)' = Own(g)
  BY Parts DEF Grown, Own
<1>2. RepoTypes'
  BY DEF IInv, RepoTypes
<1>3. TaskTypes'
  BY DEF IInv, TaskTypes
<1>4. \A g \in Gens : RowInv(g)'
  BY <1>1, RowMoves
<1>5. NothingLost'
  BY DEF IInv, NothingLost
<1> QED
  BY <1>1, <1>2, <1>3, <1>4, <1>5

\* Of an unchanged row nothing is to be shown.
LEMMA Unmoved ==
  ASSUME IInv, NEW g \in Gens, gen'[g] = gen[g]
  PROVE  Moved(g) /\ gen'[g].owner <= execs /\ gen'[g].done <= execs
BY DEF Moved, IInv, TaskTypes

\* claimCurrentWorkspaceExecution.
LEMMA ClaimKeeps ==
  ASSUME IInv, Claim
  PROVE  IInv'
<1>1. /\ run.pc = "claim"
      /\ UNCHANGED <<policy, tree, src, author, lock, req, fz, cancel, calls, complete, mode,
                     execs, stopped, removed, stuck, turns, troubles>>
  BY DEF Claim, ghosts, bounds
<1>2. ~mem.handle /\ req["run"] = Idle /\ mode = "up" /\ fz.pc = "idle"
  BY <1>1, RunsUp DEF IInv, RunInv, ModeInv
<1>3. CASE ~Owns(run)
  <2>1. run' = NoRun /\ UNCHANGED <<task, gen, mem>>
    BY <1>3 DEF Claim, Quit
  <2>2. task.status # "running"
    BY <1>2, <1>3 DEF IInv, RunInv
  <2>3. NoRun \in Run /\ NoRun.exec <= execs /\ NoRun.pc = "idle"
    BY Nothings DEF NoRun, IInv, TaskTypes
  <2>4. RunInv'
    BY <1>1, <1>2, <2>1, <2>2, QuitRun
  <2> QED
    BY <1>1, <2>1, <2>3, <2>4, RunsUp, Parts, TurnFrame
<1>4. CASE Owns(run) /\ task.current = 0
  <2>1. run' = [run EXCEPT !.pc = "begin"] /\ UNCHANGED <<task, gen, mem>>
    BY <1>4 DEF Claim
  <2>4. \A g \in Gens : gen[g].state # "integrated"
    BY <1>4, Constants DEF IInv, OpenInv, Open
  <2>2. run' \in Run /\ run'.pc = "begin" /\ run'.exec = run.exec
    BY <2>1, Parts DEF Run
  <2>3. RunInv'
    BY <1>1, <1>2, <1>4, <2>1, <2>2, <2>4 DEF IInv, RunInv, Owns, Early, Late
  <2> QED
    BY <1>1, <2>1, <2>2, <2>3, RunsUp, Parts, TurnFrame
<1>5. CASE Owns(run) /\ task.current # 0 /\ Current.state \notin {"ready", "active"} \cup Blocked
  <2>1. StartFails /\ UNCHANGED gen
    BY <1>5 DEF Claim
  <2>2. RunInv'
    BY <1>1, <1>2, <2>1, StartFailsTypes, QuitRun
  <2> QED
    BY <1>1, <2>1, <2>2, StartFailsTypes, RunsUp, Parts, TurnFrame
<1>6. CASE Owns(run) /\ task.current # 0 /\ Current.state \in {"ready", "active"} \cup Blocked
  <2>1. /\ gen' = [gen EXCEPT ![task.current].owner = run.exec]
        /\ run' = [run EXCEPT !.pc = "begin"] /\ UNCHANGED <<task, mem>>
    BY <1>6 DEF Claim
  <2>2. PICK g \in Gens : g = task.current
    BY <1>6, Parts
  <2> DEFINE row == [gen[g] EXCEPT !.owner = run.exec]
  <2>3. /\ gen[g] \in GenRow /\ run.exec \in Nat /\ run.exec <= execs /\ gen[g].done <= execs
    BY <1>1, <2>2, RunsUp, Parts DEF IInv, TaskTypes
  <2>4. /\ row \in GenRow /\ row.state = gen[g].state /\ row.root = gen[g].root /\ row.base = gen[g].base
        /\ row.target = gen[g].target /\ row.owner = run.exec /\ row.done = gen[g].done
        /\ row.review = gen[g].review /\ row.final = gen[g].final
    BY <2>3, OwnerSet
  <2>5. gen' = [gen EXCEPT ![g] = row]
    BY <2>1, <2>2, Parts
  <2> HIDE DEF row
  <2>6. gen' \in [Gens -> GenRow] /\ gen'[g] = row /\ \A h \in Gens \ {g} : gen'[h] = gen[h]
    BY <2>4, <2>5, Parts
  <2>7. \A h \in Gens : Moved(h) /\ gen'[h].owner <= execs /\ gen'[h].done <= execs
    <3>1. Moved(g) /\ gen'[g].owner <= execs /\ gen'[g].done <= execs
      BY <2>3, <2>4, <2>6 DEF Moved
    <3> QED
      BY <2>6, <3>1, Unmoved
  <2>8. \A h \in Gens : gen'[h].state = gen[h].state
    BY <2>4, <2>6
  <2>9. RepoTypes' /\ TaskTypes' /\ (\A h \in Gens : RowInv(h))' /\ NothingLost' /\ Grown
        /\ \A h \in Gens : Own(h)' = Own(h)
    BY <1>1, <2>1, <2>6, <2>7, RowsKeep, RunsUp
  <2>10. run' \in Run /\ run'.pc = "begin" /\ run'.exec = run.exec
    BY <2>1, Parts DEF Run
  <2>11. ProcTypes'
    BY <1>1, <2>10 DEF IInv, ProcTypes
  <2>12. OpenInv'
    BY <1>1, <2>1, <2>8, OpenStays
  <2>13. ModeInv'
    BY <1>1, <1>2, <2>8, <2>10, UpFrame
  <2>14. RunInv'
    <3>1. Current'.owner = run.exec
      BY <2>1, <2>2, <2>4, <2>6 DEF Current
    <3>2. \A h \in Gens : gen'[h].state # "integrated"
      BY <1>6, <2>2, <2>8 DEF IInv, OpenInv, Open, Blocked, Current
    <3> QED
      BY <1>1, <1>2, <2>1, <2>10, <3>1, <3>2 DEF IInv, RunInv, Owns, Early, Late
  <2>15. LockInv'
    <3>1. \A h \in Gens : gen[h].root => gen'[h].root
      BY <2>7 DEF Moved
    <3> QED
      BY <1>1, <2>8, <3>1, LockKeeps DEF IInv, LockInv
  <2>16. FzInv'
    BY <1>1, <1>2, <2>9, FzKeeps
  <2>17. CallInv'
    <3>1. gen[g].root => lock[g] = None
      BY <1>6, <2>2 DEF Claim, Key
    <3>2. \A h \in Gens : gen[h].root => gen'[h].root
      BY <2>7 DEF Moved
    <3>3. \A h \in Gens : gen[h].root /\ lock[h] = "complete" => gen'[h].owner = gen[h].owner
      BY <2>6, <3>1, Constants
    <3> QED
      BY <1>1, <3>2, <3>3, CallFrame
  <2> QED
    BY <2>9, <2>11, <2>12, <2>13, <2>14, <2>15, <2>16, <2>17 DEF IInv
<1> QED
  BY <1>3, <1>4, <1>5, <1>6

\* Where the agent of an active turn works, nothing is being provisioned or merged.
LEMMA WhereIs ==
  ASSUME IInv, run.pc = "resolve", NEW w \in {Where, Elsewhere}, w # 0
  PROVE  /\ w \in Gens
         /\ gen[w].state \notin {"none", "provisioning", "integrated"}
<1>1. \A g \in Gens : gen[g].state # "integrated"
  BY DEF IInv, RunInv
<1>2. CASE task.current # 0 /\ Current.state \in {"ready", "active"} /\ w = Where
  BY <1>2, Parts DEF Where, Current
<1>3. CASE ~(task.current # 0 /\ Current.state \in {"ready", "active"} /\ w = Where)
  <2>1. policy = "worktree" /\ w = 1
    BY <1>3 DEF Where, Elsewhere, IInv, TaskTypes
  <2> QED
    BY <1>1, <2>1, Constants DEF IInv, OpenInv
<1> QED
  BY <1>2, <1>3

\* The agent is started in a place where it may be, or not.
LEMMA StartInTypes ==
  ASSUME IInv, run.pc = "resolve", NEW w \in {Where, Elsewhere}, StartIn(w),
         UNCHANGED <<req, mode, calls>>,
         \A h \in Gens : /\ gen'[h].owner = gen[h].owner
                         /\ \/ gen'[h].state = gen[h].state
                            \/ gen[h].state = "ready" /\ gen'[h].state = "active"
  PROVE  /\ task' \in TaskRow /\ task'.current = task.current
         /\ mem' \in Memory /\ mem'.active <= execs
         /\ run' \in Run /\ run'.exec <= execs /\ (run'.pc = "idle" => run' = NoRun)
         /\ (run'.pc # "idle" => run'.exec # 0) /\ run'.pc # "finalizing"
         /\ RunInv'
<1>1. ~mem.handle /\ req["run"] = Idle /\ mode = "up" /\ run.exec \notin calls
  BY RunsUp DEF IInv, RunInv, ModeInv
<1>2. /\ task \in TaskRow /\ mem \in Memory /\ mem.active <= execs /\ run \in Run
      /\ NoRun \in Run /\ NoRun.exec <= execs /\ NoRun.pc = "idle"
  BY RunsUp, Nothings DEF NoRun, IInv, TaskTypes
<1>3. CASE ~Owns(run)
  <2>1. run' = NoRun /\ UNCHANGED <<task, mem>>
    BY <1>3 DEF StartIn, Quit
  <2>2. task.status # "running"
    BY <1>1, <1>3 DEF IInv, RunInv
  <2>3. RunInv'
    BY <1>1, <2>1, <2>2, QuitRun
  <2> QED
    BY <1>2, <2>1, <2>3
<1>4. CASE Owns(run) /\ w # 0 /\ ~tree[w].there
  <2>1. StartFails
    BY <1>4 DEF StartIn
  <2>2. RunInv'
    BY <1>1, <2>1, StartFailsTypes, QuitRun
  <2> QED
    BY <2>1, <2>2, StartFailsTypes
<1>5. CASE Owns(run) /\ ~(w # 0 /\ ~tree[w].there)
  <2>1. /\ run' = [run EXCEPT !.pc = "live", !.where = w]
        /\ mem' = [mem EXCEPT !.handle = TRUE] /\ UNCHANGED task
    BY <1>5 DEF StartIn
  <2>2. w \in 0..MaxGens
    BY WhereIs, Constants
  <2>3. w # 0 => w \in Gens /\ gen'[w].state \notin {"none", "provisioning", "integrated"}
    BY WhereIs
  <2>4. \A h \in Gens : gen'[h].state # "integrated"
    BY DEF IInv, RunInv
  <2>5. run' \in Run /\ run'.pc = "live" /\ run'.exec = run.exec /\ run'.where = w
    BY <1>2, <2>1, <2>2 DEF Run
  <2>6. /\ mem' \in Memory /\ mem'.active = mem.active /\ mem'.handle = TRUE
        /\ mem'.queued = mem.queued
    BY <1>2, <2>1 DEF Memory
  <2>7. task.current # 0 => Current'.owner = Current.owner
    BY <2>1, Parts DEF Current
  <2>8. RunInv'
    BY <1>1, <1>5, <2>1, <2>3, <2>4, <2>5, <2>6, <2>7 DEF IInv, RunInv, Owns, Early, Late
  <2> QED
    BY <1>2, <2>1, <2>5, <2>6, <2>8, RunsUp
<1> QED
  BY <1>3, <1>4, <1>5

\* resolveRunWorkspace, and the agent is started.
LEMMA ResolveKeeps ==
  ASSUME IInv, Resolve
  PROVE  IInv'
<1>1. /\ run.pc = "resolve" /\ StartIn(Where)
      /\ gen' = IF task.current # 0 /\ Current.state = "ready"
                THEN [gen EXCEPT ![task.current].state = "active"] ELSE gen
      /\ UNCHANGED <<policy, tree, src, author, lock, req, fz, cancel, calls, complete, mode,
                     execs, stopped, removed, stuck, turns, troubles>>
  BY DEF Resolve, ghosts, bounds
<1>2. mode = "up" /\ fz.pc = "idle"
  BY <1>1, RunsUp DEF IInv, ModeInv
<1>3. /\ gen' \in [Gens -> GenRow]
      /\ \A h \in Gens : /\ Moved(h) /\ gen'[h].owner <= execs /\ gen'[h].done <= execs
                         /\ gen'[h].owner = gen[h].owner
                         /\ gen'[h].state = gen[h].state
                              \/ (gen[h].state = "ready" /\ gen'[h].state = "active")
  <2>1. CASE task.current # 0 /\ Current.state = "ready"
    <3>1. PICK g \in Gens : g = task.current
      BY <2>1, Parts
    <3> DEFINE row == [gen[g] EXCEPT !.state = "active"]
    <3>2. gen[g] \in GenRow /\ gen[g].owner <= execs /\ gen[g].done <= execs /\ gen[g].state = "ready"
          /\ gen[g].root
      BY <2>1, <3>1, Parts DEF IInv, TaskTypes, Current, RowInv
    <3>3. /\ row \in GenRow /\ row.state = "active" /\ row.root = gen[g].root
          /\ row.base = gen[g].base /\ row.target = gen[g].target /\ row.owner = gen[g].owner
          /\ row.done = gen[g].done /\ row.review = gen[g].review /\ row.final = gen[g].final
      <4>1. "active" \in States
        BY DEF States, Open
      <4> QED
        BY <3>2, <4>1, StateSet
    <3>4. gen' = [gen EXCEPT ![g] = row]
      BY <1>1, <2>1, <3>1, Parts
    <3> HIDE DEF row
    <3>5. gen' \in [Gens -> GenRow] /\ gen'[g] = row /\ \A h \in Gens \ {g} : gen'[h] = gen[h]
      BY <3>3, <3>4, Parts
    <3>6. Moved(g) /\ gen'[g].owner <= execs /\ gen'[g].done <= execs
      BY <3>2, <3>3, <3>5 DEF Moved
    <3> QED
      BY <3>2, <3>3, <3>5, <3>6, Unmoved
  <2>2. CASE ~(task.current # 0 /\ Current.state = "ready")
    BY <1>1, <2>2, Parts, Unmoved
  <2> QED
    BY <2>1, <2>2
<1>4. /\ task' \in TaskRow /\ task'.current = task.current
      /\ mem' \in Memory /\ mem'.active <= execs
      /\ run' \in Run /\ run'.exec <= execs /\ (run'.pc = "idle" => run' = NoRun)
      /\ (run'.pc # "idle" => run'.exec # 0) /\ run'.pc # "finalizing"
      /\ RunInv'
  <2>1. UNCHANGED <<req, mode, calls>>
    BY <1>1
  <2>2. \A h \in Gens : /\ gen'[h].owner = gen[h].owner
                        /\ \/ gen'[h].state = gen[h].state
                           \/ gen[h].state = "ready" /\ gen'[h].state = "active"
    BY <1>3
  <2> QED
    BY <1>1, <2>1, <2>2, StartInTypes
<1>5. RepoTypes' /\ TaskTypes' /\ (\A h \in Gens : RowInv(h))' /\ NothingLost' /\ Grown
        /\ \A h \in Gens : Own(h)' = Own(h)
  BY <1>1, <1>3, <1>4, RunsUp, RowsKeep
<1>6. ProcTypes'
  BY <1>1, <1>4 DEF IInv, ProcTypes
<1>7. OpenInv'
  BY <1>1, <1>3, <1>4, OpenStays DEF Open
<1>8. ModeInv'
  BY <1>1, <1>2, <1>3, <1>4, UpFrame
<1>9. LockInv'
  <2>1. \A h \in Gens : /\ gen[h].state # "none" => gen'[h].state # "none"
                        /\ gen[h].root => gen'[h].root
                        /\ gen[h].state = "provisioning" => gen'[h].state = "provisioning"
    BY <1>3 DEF Moved
  <2> QED
    BY <1>1, <2>1, LockKeeps DEF IInv, LockInv
<1>10. FzInv'
  BY <1>1, <1>2, <1>5, FzKeeps
<1>11. CallInv'
  <2>1. \A h \in Gens : gen[h].root => gen'[h].root /\ gen'[h].owner = gen[h].owner
    BY <1>3 DEF Moved
  <2> QED
    BY <1>1, <2>1, CallFrame
<1> QED
  BY <1>4, <1>5, <1>6, <1>7, <1>8, <1>9, <1>10, <1>11 DEF IInv

\* A statement of it fails, and the agent is started all the same.
LEMMA ResolveFailsKeeps ==
  ASSUME IInv, ResolveFails
  PROVE  IInv'
<1>1. /\ run.pc = "resolve" /\ Trouble /\ StartIn(Elsewhere)
      /\ UNCHANGED <<policy, gen, tree, src, author, lock, req, fz, cancel, calls, complete, mode,
                     execs, stopped, removed, stuck, turns>>
  BY DEF ResolveFails, ghosts
<1>2. UNCHANGED <<req, mode, calls>> /\ \A h \in Gens : gen'[h] = gen[h]
  BY <1>1
<1>3. /\ task' \in TaskRow /\ task'.current = task.current
      /\ mem' \in Memory /\ mem'.active <= execs
      /\ run' \in Run /\ run'.exec <= execs /\ (run'.pc = "idle" => run' = NoRun)
      /\ (run'.pc # "idle" => run'.exec # 0) /\ run'.pc # "finalizing"
      /\ RunInv'
  BY <1>1, <1>2, StartInTypes
<1> QED
  BY <1>1, <1>3, Troubled, RunsUp, Parts, TurnFrame DEF IInv, ProcTypes

\* The claim fails.
LEMMA ClaimFailsKeeps ==
  ASSUME IInv, ClaimFails
  PROVE  IInv'
<1>1. /\ run.pc = "claim" /\ Trouble /\ StartFails
      /\ UNCHANGED <<policy, gen, tree, src, author, lock, req, fz, cancel, calls, complete, mode,
                     execs, stopped, removed, stuck, turns>>
  BY DEF ClaimFails, ghosts
<1>2. ~mem.handle /\ req["run"] = Idle
  BY <1>1 DEF IInv, RunInv
<1>3. RunInv'
  BY <1>1, <1>2, StartFailsTypes, QuitRun
<1> QED
  BY <1>1, <1>3, Troubled, StartFailsTypes, RunsUp, Parts, TurnFrame

\* finalizeRequestedWorkspace.
LEMMA FinalizeKeeps ==
  ASSUME IInv, Finalize
  PROVE  IInv'
<1>1. /\ run.pc = "finalize"
      /\ UNCHANGED <<policy, task, gen, tree, src, author, mem, lock, req, cancel, calls,
                     complete, mode, execs, stopped, removed, stuck, turns, troubles>>
  BY DEF Finalize, ghosts, bounds
<1>2. mode = "up" /\ fz.pc = "idle"
  BY <1>1, RunsUp DEF IInv, ModeInv
<1>3. CASE task.current # 0 /\ Current.state = "finalizing"
  <2>1. /\ run' = [run EXCEPT !.pc = "finalizing"]
        /\ fz' = [NoFz EXCEPT !.pc = "lock", !.by = "run", !.gen = task.current]
    BY <1>3 DEF Finalize
  <2>2. run' \in Run /\ run'.pc = "finalizing" /\ run'.exec = run.exec
    BY <2>1, Parts DEF Run
  <2>3. fz' \in Fz /\ fz'.pc = "lock" /\ fz'.by = "run" /\ fz'.gen \in Gens
    BY <1>3, <2>1, Nothings, Parts DEF Fz
  <2>4. RepoTypes' /\ OpenInv' /\ (\A g \in Gens : RowInv(g))' /\ NothingLost'
    BY <1>1, RepoFrame
  <2>5. TaskTypes' /\ ProcTypes'
    BY <1>1, <2>2, <2>3, RunsUp DEF IInv, TaskTypes, ProcTypes
  <2>6. ModeInv'
    BY <1>1, <1>2, <2>2, <2>3 DEF IInv, ModeInv
  <2>7. RunInv'
    BY <1>1, <2>2 DEF IInv, RunInv, Owns, Early, Late, Current
  <2>8. LockInv'
    BY <1>1, LockFrame
  <2>9. FzInv'
    BY <2>3 DEF FzInv, Seen, Aimed, Noted
  <2>10. CallInv'
    BY <1>1, CallFrame
  <2> QED
    BY <2>4, <2>5, <2>6, <2>7, <2>8, <2>9, <2>10 DEF IInv
<1>4. CASE ~(task.current # 0 /\ Current.state = "finalizing")
  <2>1. run' = [run EXCEPT !.pc = "after"] /\ UNCHANGED fz
    BY <1>4 DEF Finalize
  <2>2. run' \in Run /\ run'.pc = "after" /\ run'.exec = run.exec
    BY <2>1, Parts DEF Run
  <2>3. RunInv'
    BY <1>1, <2>2 DEF IInv, RunInv, Owns, Early, Late, Current
  <2> QED
    BY <1>1, <2>1, <2>2, <2>3, RunsUp, Parts, TurnFrame
<1> QED
  BY <1>3, <1>4

\* The generation cannot be read.
LEMMA FinalizeFailsKeeps ==
  ASSUME IInv, FinalizeFails
  PROVE  IInv'
<1>1. /\ run.pc = "finalize" /\ Trouble
      /\ run' = [run EXCEPT !.pc = "after", !.outcome = "failed"]
      /\ stuck' = Left(task.current)
      /\ UNCHANGED <<policy, task, gen, tree, src, author, mem, lock, req, fz, cancel, calls,
                     complete, mode, execs, stopped, removed, turns>>
  BY DEF FinalizeFails
<1>2. run' \in Run /\ run'.pc = "after" /\ run'.exec = run.exec
  BY <1>1, Parts DEF Run
<1>3. RunInv'
  BY <1>1, <1>2 DEF IInv, RunInv, Owns, Early, Late, Current
<1>4. stuck' \subseteq Gens
  BY <1>1, Parts, Leaves
<1> QED
  BY <1>1, <1>2, <1>3, <1>4, Troubled, RunsUp, Parts, TurnFrame

\* A step of the turn.
LEMMA TurnKeeps ==
  ASSUME IInv, Turn
  PROVE  IInv'
BY PopKeeps, RequestedKeeps, ClaimKeeps, ClaimFailsKeeps, BeginKeeps, ResolveKeeps,
   ResolveFailsKeeps, ExitKeeps, FinalizeKeeps, FinalizeFailsKeeps, AfterKeeps DEF Turn

\* While a finalization holds the lock of a generation, nobody else has it.
LEMMA FzLocks ==
  ASSUME IInv, task.current # 0, lock[Key(task.current)] # "fz"
  PROVE  fz.pc \in {"idle", "lock"}
<1>1. SUFFICES ASSUME fz.pc \notin {"idle", "lock"}
               PROVE  FALSE
  OBVIOUS
<1>2. fz.gen \in Gens /\ lock[fz.gen] = "fz" /\ task.current = fz.gen
  BY <1>1 DEF IInv, FzInv
<1>3. Row.state \in {"finalizing", "finalize_blocked", "integrated"}
  BY <1>1, Parts DEF IInv, FzInv, Fz, Seen
<1>4. gen[fz.gen].root
  BY <1>2, <1>3 DEF IInv, RowInv, Row
<1> QED
  BY <1>2, <1>4 DEF Key

\* Whom a completion is for: the turn that runs, which has claimed the generation.
LEMMA Completer ==
  ASSUME IInv, NEW x \in calls, mode = "up", task.current # 0, Completable(x)
  PROVE  Current.owner = x /\ run.exec = x /\ x \in Nat /\ x <= execs
<1>1. run.pc \in Late /\ run.exec # 0 /\ Current.owner \in {0, x}
  BY DEF IInv, RunInv, Completable, ProcTypes, Late
<1>2. Current.owner = run.exec
  BY <1>1 DEF IInv, RunInv
<1> QED
  BY <1>1, <1>2 DEF IInv, ProcTypes, TaskTypes

\* CompleteWorkspace reads, and holds the lock if it will write.
LEMMA CompleteReadsKeeps ==
  ASSUME IInv, NEW x \in 1..execs, CompleteReads(x)
  PROVE  IInv'
<1>1. /\ mode = "up" /\ complete = NoCall /\ x \in calls /\ calls' = calls \ {x}
      /\ UNCHANGED <<policy, task, gen, tree, src, author, mem, run, req, fz, cancel, mode,
                     execs, stopped, removed, stuck, turns, troubles>>
  BY DEF CompleteReads, ghosts, bounds
<1>2. calls' \subseteq 1..execs
  BY <1>1 DEF IInv, ProcTypes
<1>3. RunInv'
  BY <1>1 DEF IInv, RunInv, Owns, Current, rq
<1>4. CASE UNCHANGED <<lock, complete>>
  BY <1>1, <1>2, <1>3, <1>4, Parts, TurnFrame DEF IInv, ProcTypes, TaskTypes
<1>5. CASE ~UNCHANGED <<lock, complete>>
  <2>1. /\ task.current # 0 /\ lock[Key(task.current)] = None /\ Completable(x)
        /\ lock' = [lock EXCEPT ![Key(task.current)] = "complete"]
        /\ complete' = [exec |-> x, gen |-> task.current, from |-> Current.state]
    BY <1>5 DEF CompleteReads
  <2>2. PICK g \in Gens : g = task.current
    BY <2>1, Parts
  <2>3. /\ gen[g].state \in {"active"} \cup Blocked /\ gen[g].owner = x /\ x \in Nat /\ x <= execs
        /\ gen[g].root
    <3>1. gen[g].state \in {"active"} \cup Blocked
      BY <2>1, <2>2 DEF Completable, Current
    <3> QED
      BY <1>1, <2>1, <2>2, <3>1, Completer DEF IInv, RowInv, Blocked, Current
  <2>4. g # 0 /\ g \in 0..MaxGens /\ lock[g] = None /\ lock' = [lock EXCEPT ![g] = "complete"]
    BY <2>1, <2>2, <2>3, Constants DEF Key
  <2>5. /\ lock' \in [0..MaxGens -> {"run", "agent", "fz", "cancel", "complete", None}]
        /\ lock'[0] = lock[0] /\ lock'[g] = "complete"
        /\ \A k \in 0..MaxGens : lock[k] = "fz" => lock'[k] = "fz"
    BY <2>4, Parts, Constants
  <2>6. complete' \in Calls /\ complete'.exec = x /\ complete'.gen = g
        /\ complete'.from = gen[g].state
    BY <2>1, <2>2, <2>3, <2>4 DEF Calls, Current
  <2>7. RepoTypes' /\ OpenInv' /\ (\A h \in Gens : RowInv(h))' /\ NothingLost'
    BY <1>1, RepoFrame
  <2>8. TaskTypes'
    BY <1>1 DEF IInv, TaskTypes
  <2>9. ProcTypes'
    BY <1>1, <1>2, <2>3, <2>5, <2>6 DEF IInv, ProcTypes
  <2>10. ModeInv'
    BY <1>1, UpFrame
  <2>11. LockInv'
    BY <1>1, <2>5, LockFrame
  <2>12. FzInv'
    BY <1>1, <2>5, FzFrame
  <2>13. CallInv'
    BY <1>1, <2>3, <2>5, <2>6 DEF CallInv
  <2> QED
    BY <1>3, <2>7, <2>8, <2>9, <2>10, <2>11, <2>12, <2>13 DEF IInv
<1> QED
  BY <1>4, <1>5

\* The generation whose request is written: the current one, as it has been read.
LEMMA Written ==
  ASSUME IInv, complete # NoCall
  PROVE  /\ mode = "up" /\ complete.gen \in Gens /\ complete.gen \in 0..MaxGens
         /\ complete.exec \in Nat /\ complete.exec <= execs
         /\ gen[complete.gen] \in GenRow /\ gen[complete.gen].root
         /\ gen[complete.gen].owner = complete.exec /\ lock[complete.gen] = "complete"
         /\ gen[complete.gen].state = complete.from =>
              task.current = complete.gen /\ gen[complete.gen].state \in {"active"} \cup Blocked
<1>1. complete.gen \in Gens /\ complete.from \in {"active"} \cup Blocked
  BY DEF IInv, CallInv
<1>2. gen[complete.gen].state = complete.from => task.current = complete.gen
  BY <1>1 DEF IInv, OpenInv, Open, Blocked
<1> QED
  BY <1>1, <1>2, Constants, Parts DEF IInv, CallInv, ProcTypes, Calls

\* It writes, or fails to.
LEMMA CompleteWritesKeeps ==
  ASSUME IInv, CompleteWrites
  PROVE  IInv'
<1>1. /\ complete # NoCall /\ lock' = Unlocked("complete") /\ complete' = NoCall
      /\ UNCHANGED <<policy, task, tree, src, author, mem, run, req, fz, cancel, calls, mode,
                     execs, stopped, removed, stuck, turns>>
  BY DEF CompleteWrites, ghosts
<1>2. PICK g \in Gens : g = complete.gen
  BY <1>1, Written
<1> DEFINE row == [gen[g] EXCEPT !.state = "finalizing", !.done = complete.exec,
                                 !.review = None, !.final = None]
<1>3. /\ mode = "up" /\ gen[g] \in GenRow /\ gen[g].root /\ gen[g].owner = complete.exec
      /\ complete.exec \in Nat /\ complete.exec <= execs /\ lock[g] = "complete"
      /\ gen[g].owner <= execs
  BY <1>1, <1>2, Written
<1>4. troubles' \in 0..MaxTroubles /\ stuck' \subseteq Gens
  BY <1>1, Troubled DEF CompleteWrites, IInv, TaskTypes
<1>5. /\ lock' \in [0..MaxGens -> {"run", "agent", "fz", "cancel", "complete", None}]
      /\ \A k \in 0..MaxGens : lock[k] = "fz" => lock'[k] = "fz"
      /\ lock'[0] = lock[0] \/ lock[0] \notin {"run", "agent"}
  BY <1>1, Unlocks
<1>6. complete' \in Calls /\ complete'.exec <= execs
  BY <1>1, Nothings DEF NoCall, IInv, TaskTypes
<1>7. ProcTypes'
  BY <1>1, <1>5, <1>6 DEF IInv, ProcTypes
<1>8. CallInv'
  BY <1>1 DEF CallInv
<1>9. CASE gen' = gen
  <2>1. RepoTypes' /\ OpenInv' /\ (\A h \in Gens : RowInv(h))' /\ NothingLost'
    BY <1>1, <1>9, RepoFrame
  <2>2. TaskTypes'
    BY <1>1, <1>4, <1>9 DEF IInv, TaskTypes
  <2>3. ModeInv'
    BY <1>1, <1>3, <1>9, UpFrame
  <2>4. RunInv'
    BY <1>1, <1>9 DEF IInv, RunInv, Owns, Current
  <2>5. LockInv'
    BY <1>1, <1>5, <1>9, LockFrame
  <2>6. FzInv'
    BY <1>1, <1>5, <1>9, FzFrame
  <2> QED
    BY <1>7, <1>8, <2>1, <2>2, <2>3, <2>4, <2>5, <2>6 DEF IInv
<1>10. CASE gen' # gen
  <2>1. gen[g].state = complete.from /\ gen' = [gen EXCEPT ![g] = row]
    BY <1>2, <1>10 DEF CompleteWrites
  <2>2. task.current = g /\ gen[g].state \in {"active"} \cup Blocked
    BY <1>1, <1>2, <2>1, Written
  <2>4. /\ row \in GenRow /\ row.state = "finalizing" /\ row.root = gen[g].root
        /\ row.base = gen[g].base /\ row.target = gen[g].target /\ row.owner = gen[g].owner
        /\ row.done = complete.exec /\ row.final = None
    BY <1>3, DoneSet, ZenonT(60)
  <2> HIDE DEF row
  <2>6. gen' \in [Gens -> GenRow] /\ gen'[g] = row /\ \A h \in Gens \ {g} : gen'[h] = gen[h]
    BY <2>1, <2>4, Parts
  <2>7. \A h \in Gens : Moved(h) /\ gen'[h].owner <= execs /\ gen'[h].done <= execs
    <3>1. Moved(g) /\ gen'[g].owner <= execs /\ gen'[g].done <= execs
      BY <1>3, <2>2, <2>4, <2>6 DEF Moved, Blocked
    <3> QED
      BY <2>6, <3>1, Unmoved
  <2>8. \A h \in Gens : \/ gen'[h].state = gen[h].state
                        \/ gen'[h].state = "finalizing" /\ gen[h].state \in {"active"} \cup Blocked
    BY <2>2, <2>4, <2>6
  <2>9. RepoTypes' /\ TaskTypes' /\ (\A h \in Gens : RowInv(h))' /\ NothingLost' /\ Grown
        /\ \A h \in Gens : Own(h)' = Own(h)
    BY <1>1, <1>4, <2>6, <2>7, RowsKeep, Parts DEF IInv, TaskTypes
  <2>11. OpenInv'
    <3>1. \A h \in Gens : /\ gen'[h].state \in Open <=> gen[h].state \in Open
                          /\ gen'[h].state = "none" <=> gen[h].state = "none"
                          /\ gen'[h].state = "provisioning" => gen[h].state = "provisioning"
      BY <2>8 DEF Open, Blocked
    <3> QED
      BY <1>1, <3>1, OpenStays
  <2>12. ModeInv'
    BY <1>1, <1>3, <2>8, UpFrame
  <2>13. RunInv'
    <3>1. Current'.owner = Current.owner
      BY <1>1, <2>2, <2>4, <2>6 DEF Current
    <3>2. run.pc = "live" /\ run.where # 0 =>
            run.where \in Gens /\ gen'[run.where].state \notin {"none", "provisioning", "integrated"}
      BY <2>4, <2>6, Parts DEF IInv, RunInv, Run, Gens
    <3>3. \A h \in Gens : gen'[h].state = "integrated" => gen[h].state = "integrated"
      BY <2>8
    <3> QED
      BY <1>1, <3>1, <3>2, <3>3 DEF IInv, RunInv, Owns
  <2>14. LockInv'
    <3>1. \A h \in Gens : /\ gen[h].state # "none" => gen'[h].state # "none"
                          /\ gen[h].root => gen'[h].root
                          /\ gen[h].state = "provisioning" => gen'[h].state = "provisioning"
      BY <2>7, <2>8 DEF Moved, Blocked
    <3> QED
      BY <1>1, <1>5, <3>1, LockKeeps DEF IInv, LockInv
  <2>15. FzInv'
    <3>1. Key(task.current) = g
      BY <1>3, <2>2 DEF Key
    <3>2. fz.pc \in {"idle", "lock"}
      BY <1>3, <2>2, <3>1, FzLocks, Constants
    <3> QED
      BY <1>1, <1>5, <2>9, <3>2, FzKeeps
  <2> QED
    BY <1>7, <1>8, <2>9, <2>11, <2>12, <2>13, <2>14, <2>15 DEF IInv
<1> QED
  BY <1>9, <1>10

\* What a cancel does to the generation it has locked: one that is being provisioned
\* is given up, and one that is being finalized is blocked.
LEMMA CancelWorkspaceKeeps ==
  ASSUME IInv, CancelWorkspace
  PROVE  IInv'
<1> DEFINE s == gen[cancel.gen].state
<1>1. /\ cancel.pc = "lock" /\ lock[cancel.key] = None
      /\ lock' = [lock EXCEPT ![cancel.key] = "cancel"]
      /\ cancel' = [cancel EXCEPT !.pc = "end"]
      /\ gen' = IF s = "provisioning" THEN [gen EXCEPT ![cancel.gen].state = "orphaned"]
                ELSE IF s = "finalizing"
                     THEN [gen EXCEPT ![cancel.gen].state = "finalize_blocked", ![cancel.gen].done = 0]
                     ELSE gen
      /\ task' = [task EXCEPT !.current =
                    IF s = "provisioning" /\ task.current = cancel.gen THEN 0 ELSE task.current]
      /\ UNCHANGED <<policy, tree, src, author, mem, run, req, fz, calls, complete, mode,
                     execs, stopped, removed, stuck, turns, troubles>>
  BY DEF CancelWorkspace, ghosts, bounds
<1>2. mode = "up"
  BY <1>1 DEF IInv, ModeInv, Idle
<1>3. PICK g \in Gens : g = cancel.gen
  BY <1>1 DEF IInv, LockInv
<1>4. /\ gen[g] \in GenRow /\ gen[g].owner <= execs /\ gen[g].done <= execs
      /\ cancel.key \in 0..MaxGens /\ execs \in Nat /\ 0 <= execs
  BY <1>1, <1>3, Parts DEF IInv, TaskTypes, LockInv, Cancels
<1>5. /\ cancel' \in Cancels /\ cancel'.pc = "end"
      /\ lock' \in [0..MaxGens -> {"run", "agent", "fz", "cancel", "complete", None}]
      /\ lock'[0] = lock[0] \/ lock[0] \notin {"run", "agent"}
      /\ \A k \in 0..MaxGens : lock[k] \in {"fz", "complete"} => lock'[k] = lock[k]
  BY <1>1, <1>4, Parts, Constants DEF Cancels
<1>6. CASE s \notin {"provisioning", "finalizing"}
  <2>1. gen' = gen /\ task' = task
    BY <1>1, <1>6, Parts DEF TaskRow
  <2>2. LockInv'
    BY <1>1, <1>5, <2>1, LockFrame
  <2> QED
    BY <1>1, <1>2, <1>5, <2>1, <2>2, Parts, UpKeeps
<1>7. CASE s = "provisioning"
  <2>1. /\ gen[g].state = "provisioning" /\ task.current = g /\ g # 0 /\ ~gen[g].root /\ cancel.key = 0
    BY <1>1, <1>3, <1>7, Constants DEF IInv, OpenInv, Open, RowInv, LockInv
  <2> DEFINE row == [gen[g] EXCEPT !.state = "orphaned"]
  <2>2. /\ row \in GenRow /\ row.state = "orphaned" /\ row.root = gen[g].root /\ row.base = gen[g].base
        /\ row.target = gen[g].target /\ row.owner = gen[g].owner /\ row.done = gen[g].done
        /\ row.review = gen[g].review /\ row.final = gen[g].final
    <3>1. "orphaned" \in States
      BY DEF States
    <3> QED
      BY <1>4, <3>1, StateSet
  <2>3. gen' = [gen EXCEPT ![g] = row] /\ task' = [task EXCEPT !.current = 0]
    BY <1>1, <1>3, <1>7, <2>1, Parts
  <2> HIDE DEF row
  <2>4. gen' \in [Gens -> GenRow] /\ gen'[g] = row /\ \A h \in Gens \ {g} : gen'[h] = gen[h]
    BY <2>2, <2>3, Parts
  <2>5. task' \in TaskRow /\ task'.current = 0 /\ task'.status = task.status
    BY <2>3, Parts, Constants DEF TaskRow
  <2>6. \A h \in Gens : Moved(h) /\ gen'[h].owner <= execs /\ gen'[h].done <= execs
    <3>1. Moved(g) /\ gen'[g].owner <= execs /\ gen'[g].done <= execs
      BY <1>4, <2>1, <2>2, <2>4 DEF Moved
    <3> QED
      BY <2>4, <3>1, Unmoved
  <2>7. RepoTypes' /\ TaskTypes' /\ (\A h \in Gens : RowInv(h))' /\ NothingLost' /\ Grown
        /\ \A h \in Gens : Own(h)' = Own(h)
    BY <1>1, <2>4, <2>5, <2>6, RowsKeep, Parts DEF IInv, TaskTypes
  <2>8. ProcTypes'
    BY <1>1, <1>5 DEF IInv, ProcTypes
  <2>9. OpenInv'
    BY <1>1, <2>1, <2>2, <2>4, <2>5, OpenCloses
  <2>10. ModeInv'
    BY <1>1, <1>2, <2>2, <2>4, UpFrame
  <2>11. RunInv'
    <3>1. run.pc = "live" /\ run.where # 0 => gen'[run.where] = gen[run.where]
      BY <2>1, <2>4, Parts DEF IInv, RunInv, Run, Gens
    <3>2. \A h \in Gens : gen'[h].state = "integrated" => gen[h].state = "integrated"
      BY <2>2, <2>4
    <3> QED
      BY <1>1, <2>5, <3>1, <3>2 DEF IInv, RunInv, Owns
  <2>12. LockInv'
    <3>1. \A p \in Callers : rq(p) \notin {"tree", "ready"}
      <4> SUFFICES ASSUME NEW p \in Callers, rq(p) \in {"tree", "ready"}
                   PROVE  FALSE
        OBVIOUS
      <4>1. p # "rec"
        BY <1>2, Provisioning, Requesters
      <4> QED
        BY <1>1, <2>1, <4>1, Constants DEF IInv, LockInv, Callers
    <3>2. \A h \in Gens : /\ gen[h].state # "none" => gen'[h].state # "none"
                          /\ gen[h].root => gen'[h].root
      BY <2>6 DEF Moved
    <3> QED
      BY <1>1, <1>5, <3>1, <3>2, LockKeeps
  <2>13. FzInv'
    <3>1. fz.pc \in {"idle", "lock"}
      BY <2>1, Parts DEF IInv, FzInv, Row, Fz, Seen
    <3> QED
      BY <1>1, <1>5, <2>7, <3>1, FzKeeps
  <2>14. CallInv'
    BY <1>1, <1>5, <2>2, <2>4, CallFrame
  <2> QED
    BY <2>7, <2>8, <2>9, <2>10, <2>11, <2>12, <2>13, <2>14 DEF IInv
<1>8. CASE s = "finalizing"
  <2>1. gen[g].state = "finalizing" /\ gen[g].root
    BY <1>3, <1>8 DEF IInv, RowInv
  <2> DEFINE row == [gen[g] EXCEPT !.state = "finalize_blocked", !.done = 0]
  <2>2. /\ row \in GenRow /\ row.state = "finalize_blocked" /\ row.root = gen[g].root
        /\ row.base = gen[g].base /\ row.target = gen[g].target /\ row.owner = gen[g].owner
        /\ row.done = 0 /\ row.review = gen[g].review /\ row.final = gen[g].final
    <3>1. "finalize_blocked" \in States
      BY DEF States, Open, Blocked
    <3> QED
      BY <1>4, <3>1, BlockedSet
  <2>3. gen' = [gen EXCEPT ![g] = row] /\ task' = task
    <3>1. task' = task
      BY <1>1, <1>8, Parts DEF TaskRow
    <3>2. gen' = [gen EXCEPT ![g].state = "finalize_blocked", ![g].done = 0]
      BY <1>1, <1>3, <1>8
    <3> QED
      BY <3>1, <3>2, Parts
  <2> HIDE DEF row
  <2>4. gen' \in [Gens -> GenRow] /\ gen'[g] = row /\ \A h \in Gens \ {g} : gen'[h] = gen[h]
    BY <2>2, <2>3, Parts
  <2>5. \A h \in Gens : Moved(h) /\ gen'[h].owner <= execs /\ gen'[h].done <= execs
    <3>1. Moved(g) /\ gen'[g].owner <= execs /\ gen'[g].done <= execs
      BY <1>4, <2>1, <2>2, <2>4 DEF Moved
    <3> QED
      BY <2>4, <3>1, Unmoved
  <2>6. \A h \in Gens : /\ gen'[h].owner = gen[h].owner /\ gen'[h].target = gen[h].target
                        /\ gen'[h].final = gen[h].final
                        /\ \/ gen'[h].state = gen[h].state
                           \/ gen[h].state = "finalizing" /\ gen'[h].state = "finalize_blocked"
    BY <2>1, <2>2, <2>4
  <2>7. RepoTypes' /\ TaskTypes' /\ (\A h \in Gens : RowInv(h))' /\ NothingLost' /\ Grown
        /\ \A h \in Gens : Own(h)' = Own(h)
    BY <1>1, <2>3, <2>4, <2>5, RowsKeep, Parts DEF IInv, TaskTypes
  <2>8. ProcTypes'
    BY <1>1, <1>5 DEF IInv, ProcTypes
  <2>9. OpenInv'
    BY <1>1, <2>3, <2>6, OpenStays DEF Open, Blocked
  <2>10. ModeInv'
    BY <1>1, <1>2, <2>6, UpFrame
  <2>11. RunInv'
    <3>1. task.current # 0 => Current'.owner = Current.owner
      BY <2>3, <2>6, Parts DEF Current
    <3>2. run.pc = "live" /\ run.where # 0 =>
            run.where \in Gens /\ gen'[run.where].state \notin {"none", "provisioning", "integrated"}
      BY <2>6, Parts DEF IInv, RunInv, Run, Gens
    <3>3. \A h \in Gens : gen'[h].state = "integrated" => gen[h].state = "integrated"
      BY <2>6
    <3> QED
      BY <1>1, <2>3, <3>1, <3>2, <3>3 DEF IInv, RunInv, Owns
  <2>12. LockInv'
    <3>1. \A h \in Gens : /\ gen[h].state # "none" => gen'[h].state # "none"
                          /\ gen[h].root => gen'[h].root
                          /\ gen[h].state = "provisioning" => gen'[h].state = "provisioning"
      BY <2>5, <2>6 DEF Moved
    <3> QED
      BY <1>1, <1>5, <3>1, LockKeeps DEF IInv, LockInv
  <2>13. FzInv'
    <3>1. fz.pc # "idle" => fz.gen \in Gens
      BY DEF IInv, FzInv
    <3> QED
      BY <1>1, <1>5, <2>3, <2>6, <2>7, <3>1, FzKeeps
  <2>14. CallInv'
    BY <1>1, <1>5, <2>2, <2>4, CallFrame
  <2> QED
    BY <2>7, <2>8, <2>9, <2>10, <2>11, <2>12, <2>13, <2>14 DEF IInv
<1> QED
  BY <1>6, <1>7, <1>8

\* A read of the generation to be canceled fails, or the write.
LEMMA CancelFailsKeeps ==
  ASSUME IInv, CancelFails
  PROVE  IInv'
<1>1. /\ UNCHANGED <<policy, task, gen, tree, src, author, mem, run, req, fz, calls, complete,
                     mode, execs, stopped, removed, turns, troubles>>
      /\ cancel.pc \in {"look", "lock"}
  BY DEF CancelFails, bounds
<1>2. mode = "up"
  BY <1>1 DEF IInv, ModeInv, Idle
<1>3. cancel' \in Cancels /\ cancel'.pc # "lock"
  BY Nothings, Parts DEF CancelFails, Cancels, Idle
<1>4. /\ lock' \in [0..MaxGens -> {"run", "agent", "fz", "cancel", "complete", None}]
      /\ lock'[0] = lock[0] \/ lock[0] \notin {"run", "agent"}
      /\ \A k \in 0..MaxGens : lock[k] \in {"fz", "complete"} => lock'[k] = lock[k]
  BY Parts, Constants DEF CancelFails, Cancels
<1>5. stuck' \subseteq Gens
  <2>1. cancel.gen \in 0..MaxGens
    BY Parts DEF Cancels
  <2> QED
    BY <2>1, Leaves, Parts DEF CancelFails, IInv, TaskTypes
<1>6. LockInv'
  BY <1>1, <1>3, <1>4, LockFrame
<1> QED
  BY <1>1, <1>2, <1>3, <1>4, <1>5, <1>6, Parts, UpKeeps DEF IInv, TaskTypes

-----------------------------------------------------------------------------
(* The work of the agent, and of the user in the repository *)

\* Of whom the next commit is.
LEMMA Appends ==
  ASSUME IInv, NEW g \in 0..MaxGens, CanCommit, author' = Append(author, g)
  PROVE  /\ author' \in Seq(0..MaxGens) /\ Len(author') <= MaxCommits
         /\ Len(author') = Len(author) + 1 /\ author'[Fresh] = g
         /\ \A k \in 1..Len(author) : author'[k] = author[k]
         /\ Fresh \in Commits /\ Fresh \in 1..Len(author') /\ Fresh \notin 1..Len(author)
         /\ \A k \in 1..Len(author') : k \in 1..Len(author) \/ k = Fresh
<1>1. author \in Seq(0..MaxGens) /\ Len(author) < MaxCommits /\ Len(author) \in Nat
  BY DEF IInv, RepoTypes, CanCommit
<1> QED
  BY <1>1, Constants DEF Fresh, Commits

\* The commits of each generation after it.
LEMMA OwnAppends ==
  ASSUME IInv, NEW g \in 0..MaxGens, CanCommit, author' = Append(author, g), NEW h \in Gens
  PROVE  Own(h)' = IF h = g THEN Own(h) \cup {Fresh} ELSE Own(h)
<1>1. \A k : k \in Own(h)' <=> k \in 1..Len(author') /\ author'[k] = h
  BY DEF Own
<1>2. \A k : k \in Own(h) <=> k \in 1..Len(author) /\ author[k] = h
  BY DEF Own
<1>3. 1..Len(author) \subseteq 1..Len(author')
  BY Appends DEF IInv, RepoTypes
<1> QED
  BY <1>1, <1>2, <1>3, Appends

\* What the agent does in its worktree: nobody finalizes the generation meanwhile.
LEMMA WorkKeeps ==
  ASSUME IInv, run.pc = "live", NEW g \in Gens, run.where = g, tree[g].there,
         NEW t \in Tree, t.there, tree' = [tree EXCEPT ![g] = t], tree[g].head \subseteq t.head,
         \/ author' = author /\ t.head \subseteq tree[g].head \cup src.heads[gen[g].target]
         \/ /\ CanCommit /\ author' = Append(author, g) /\ Fresh \in t.head
            /\ t.head \subseteq tree[g].head \cup src.heads[gen[g].target] \cup {Fresh},
         UNCHANGED <<policy, task, gen, src, mem, lock, run, req, fz, cancel, calls, complete,
                     mode, execs, stopped, removed, stuck, turns, troubles>>
  PROVE  IInv'
<1>1. /\ gen[g].state \notin {"none", "provisioning", "integrated"} /\ mode = "up" /\ fz.pc = "idle"
      /\ g \in 0..MaxGens /\ g # 0
  BY RunsUp, Constants DEF IInv, RunInv, ModeInv
<1>2. tree' \in [Gens -> Tree] /\ tree'[g] = t /\ \A h \in Gens \ {g} : tree'[h] = tree[h]
  BY Parts
<1>3. \A h \in Gens : Own(h) \subseteq Own(h)' /\ (h # g => Own(h)' = Own(h))
  <2>1. CASE author' = author
    BY <2>1 DEF Own
  <2>2. CASE CanCommit /\ author' = Append(author, g)
    BY <1>1, <2>2, OwnAppends
  <2> QED
    BY <2>1, <2>2
<1>4. t.head \ Own(g)' \subseteq src.heads[gen[g].target]
  <2>0. tree[g].head \ Own(g) \subseteq src.heads[gen[g].target]
    BY DEF IInv, RowInv
  <2>1. CASE t.head \subseteq tree[g].head \cup src.heads[gen[g].target]
    BY <1>3, <2>0, <2>1
  <2>2. CASE /\ CanCommit /\ author' = Append(author, g)
             /\ t.head \subseteq tree[g].head \cup src.heads[gen[g].target] \cup {Fresh}
    <3>1. Fresh \in Own(g)'
      BY <1>1, <2>2, OwnAppends
    <3> QED
      BY <1>3, <2>0, <2>2, <3>1
  <2> QED
    BY <2>1, <2>2
<1>5. RepoTypes'
  <2>1. author' \in Seq(0..MaxGens) /\ Len(author') <= MaxCommits
    BY <1>1, Appends DEF IInv, RepoTypes
  <2> QED
    BY <1>2, <2>1 DEF IInv, RepoTypes
<1>6. TaskTypes' /\ ProcTypes'
  BY DEF IInv, TaskTypes, ProcTypes
<1>7. OpenInv'
  BY DEF IInv, OpenInv
<1>8. ASSUME NEW h \in Gens
      PROVE  RowInv(h)'
  <2>1. CASE h = g
    BY <1>1, <1>2, <1>3, <1>4, <2>1 DEF IInv, RowInv, Merged
  <2>2. CASE h # g
    BY <1>2, <1>3, <2>2 DEF IInv, RowInv, Merged
  <2> QED
    BY <2>1, <2>2
<1>9. NothingLost'
  <2> SUFFICES ASSUME NEW k \in 1..Len(author'), author'[k] \in Gens \ removed
               PROVE  \/ tree'[author'[k]].there /\ k \in tree'[author'[k]].head
                      \/ \E b \in Branches : k \in src.heads[b]
    BY DEF NothingLost
  <2>1. CASE author' # author /\ k = Fresh
    BY <1>1, <1>2, <2>1, Appends
  <2>2. CASE k \in 1..Len(author) /\ author'[k] = author[k]
    BY <1>2, <2>2 DEF IInv, NothingLost
  <2> QED
    BY <1>1, <2>1, <2>2, Appends
<1>10. ModeInv'
  BY <1>1 DEF IInv, ModeInv, Current
<1>11. RunInv'
  BY DEF IInv, RunInv, Owns, Current, rq
<1>12. LockInv'
  BY LockFrame
<1>13. FzInv'
  BY <1>1 DEF FzInv, Seen, Aimed, Noted
<1>14. CallInv'
  BY CallFrame
<1> QED
  BY <1>5, <1>6, <1>7, <1>8, <1>9, <1>10, <1>11, <1>12, <1>13, <1>14 DEF IInv

\* The agent commits.
LEMMA AgentCommitsKeeps ==
  ASSUME IInv, AgentCommits
  PROVE  IInv'
<1>1. /\ run.pc = "live" /\ run.where # 0 /\ tree[run.where].there /\ CanCommit
      /\ author' = Append(author, run.where)
      /\ UNCHANGED <<policy, task, gen, src, mem, lock, run, req, fz, cancel, calls, complete,
                     mode, execs, stopped, removed, stuck, turns, troubles>>
  BY DEF AgentCommits, engine, ghosts, bounds
<1>2. PICK g \in Gens : g = run.where
  BY <1>1, Parts DEF Run, Gens
<1>3. PICK dirty \in BOOLEAN :
        tree' = [tree EXCEPT ![g].head = @ \cup {Fresh}, ![g].dirty = dirty]
  BY <1>2 DEF AgentCommits
<1> DEFINE t == [tree[g] EXCEPT !.head = @ \cup {Fresh}, !.dirty = dirty]
<1>4. tree[g] \in Tree /\ Fresh \in Commits
  BY <1>1, <1>2, Parts, Appends, Constants
<1>5. t \in Tree /\ t.head = tree[g].head \cup {Fresh} /\ t.there = tree[g].there
  BY <1>4 DEF Tree
<1>6. tree' = [tree EXCEPT ![g] = t]
  BY <1>3, Parts
<1> HIDE DEF t
<1> QED
  BY <1>1, <1>2, <1>5, <1>6, WorkKeeps

\* The agent merges the target branch.
LEMMA AgentMergesKeeps ==
  ASSUME IInv, AgentMerges
  PROVE  IInv'
<1>1. PICK g \in Gens : g = run.where
  BY Parts DEF AgentMerges, Run, Gens
<1> DEFINE theirs == src.heads[gen[g].target]
<1>2. /\ run.pc = "live" /\ tree[g].there
      /\ IF tree[g].head \subseteq theirs
         THEN tree' = [tree EXCEPT ![g].head = theirs] /\ UNCHANGED author
         ELSE /\ CanCommit /\ author' = Append(author, g)
              /\ tree' = [tree EXCEPT ![g].head = @ \cup theirs \cup {Fresh}]
      /\ UNCHANGED <<policy, task, gen, src, mem, lock, run, req, fz, cancel, calls, complete,
                     mode, execs, stopped, removed, stuck, turns, troubles>>
  BY <1>1 DEF AgentMerges, engine, ghosts, bounds
<1>3. tree[g] \in Tree /\ theirs \in SUBSET Commits /\ g \in 0..MaxGens
  BY Parts, Constants DEF Source, GenRow
<1>4. CASE tree[g].head \subseteq theirs
  <2> DEFINE t == [tree[g] EXCEPT !.head = theirs]
  <2>1. t \in Tree /\ t.head = theirs /\ t.there = tree[g].there
    BY <1>3 DEF Tree
  <2>2. tree' = [tree EXCEPT ![g] = t] /\ author' = author
    BY <1>2, <1>4, Parts
  <2> HIDE DEF t
  <2> QED
    BY <1>1, <1>2, <1>4, <2>1, <2>2, WorkKeeps
<1>5. CASE ~(tree[g].head \subseteq theirs)
  <2> DEFINE t == [tree[g] EXCEPT !.head = @ \cup theirs \cup {Fresh}]
  <2>1. CanCommit /\ author' = Append(author, g) /\ tree' = [tree EXCEPT ![g] = t]
    BY <1>2, <1>5, Parts
  <2>2. Fresh \in Commits
    BY <1>3, <2>1, Appends
  <2>3. t \in Tree /\ t.head = tree[g].head \cup theirs \cup {Fresh} /\ t.there = tree[g].there
    BY <1>3, <2>2 DEF Tree
  <2> HIDE DEF t
  <2> QED
    BY <1>1, <1>2, <2>1, <2>3, WorkKeeps
<1> QED
  BY <1>4, <1>5

\* A step of the agent.
LEMMA AgentKeeps ==
  ASSUME IInv, Agent
  PROVE  IInv'
BY AgentCommitsKeeps, AgentMergesKeeps, AgentRequestsKeeps, AgentCompletesKeeps DEF Agent

\* What the user does in the repository.
LEMMA EditKeeps ==
  ASSUME IInv, Grown, tree' \in [Gens -> Tree], removed \subseteq removed', removed' \subseteq Gens,
         author' \in Seq(0..MaxGens), Len(author') <= MaxCommits,
         \A g \in Gens : /\ tree'[g] = tree[g] \/ (~tree'[g].there /\ g \in removed')
                         /\ Own(g)' = Own(g),
         NothingLost',
         troubles' \in 0..MaxTroubles,
         UNCHANGED <<policy, task, gen, mem, lock, run, req, fz, cancel, calls, complete,
                     mode, execs, stopped, stuck, turns>>
  PROVE  IInv'
<1>1. RepoTypes' /\ TaskTypes' /\ ProcTypes'
  BY DEF IInv, RepoTypes, TaskTypes, ProcTypes, Grown
<1>2. OpenInv'
  BY DEF IInv, OpenInv
<1>3. \A g \in Gens : RowInv(g)'
  <2>1. \A g \in Gens : Moved(g)
    BY DEF Moved
  <2> QED
    BY <2>1, RowMoves
<1>4. ModeInv'
  <2>1. mode = "released" => task.current \in Gens
    BY Parts DEF IInv, ModeInv
  <2> QED
    BY <2>1 DEF IInv, ModeInv, Current
<1>5. RunInv'
  BY DEF IInv, RunInv, Owns, Current, rq
<1>6. LockInv'
  BY LockFrame
<1>7. FzInv'
  <2>1. fz.pc # "idle" => fz.gen \in Gens
    BY DEF IInv, FzInv
  <2> QED
    BY <2>1, FzKeeps
<1>8. CallInv'
  BY CallFrame
<1> QED
  BY <1>1, <1>2, <1>3, <1>4, <1>5, <1>6, <1>7, <1>8 DEF IInv

\* A branch the user is on grows to any commit beyond it.
LEMMA Advance ==
  ASSUME IInv, NEW b \in Branches, NEW S \in SUBSET Commits, src.heads[b] \subseteq S
  PROVE  [src EXCEPT !.heads[b] = S] \in Source
         /\ \A c \in Branches : src.heads[c] \subseteq [src EXCEPT !.heads[b] = S].heads[c]
         /\ [src EXCEPT !.heads[b] = S].heads[b] = S
         /\ [src EXCEPT !.heads[b] = S].on = src.on
<1> DEFINE hs == [src.heads EXCEPT ![b] = S]
<1>1. src \in Source /\ src.heads \in [Branches -> SUBSET Commits]
  BY Parts DEF Source
<1>2. /\ hs \in [Branches -> SUBSET Commits] /\ hs[b] = S
      /\ \A c \in Branches : src.heads[c] \subseteq hs[c]
  BY <1>1
<1>3. [src EXCEPT !.heads[b] = S] = [src EXCEPT !.heads = hs]
  BY <1>1
<1> HIDE DEF hs
<1>4. [src EXCEPT !.heads = hs] \in Source /\ [src EXCEPT !.heads = hs].heads = hs
      /\ [src EXCEPT !.heads = hs].on = src.on
  BY <1>1, <1>2 DEF Source
<1> QED
  BY <1>2, <1>3, <1>4

\* The commits of nobody's generation are nobody's work.
LEMMA UserCommitsKeeps ==
  ASSUME IInv, Edit("commit"), UserCommits,
         UNCHANGED <<policy, task, gen, engine, stopped, stuck, turns>>
  PROVE  IInv'
<1>1. /\ Trouble /\ CanCommit /\ author' = Append(author, 0)
      /\ src' = [src EXCEPT !.heads[src.on] = @ \cup {Fresh}]
      /\ UNCHANGED <<tree, removed>>
      /\ UNCHANGED <<policy, task, gen, mem, lock, run, req, fz, cancel, calls, complete,
                     mode, execs, stopped, stuck, turns>>
  BY DEF UserCommits, Edit, engine
<1>2. PICK b \in Branches : b = src.on
  BY Parts DEF Source
<1>3. src.heads[b] \in SUBSET Commits /\ Fresh \in Commits /\ 0 \in 0..MaxGens /\ 0 \notin Gens
  BY <1>1, Parts, Appends, Constants DEF Source
<1>4. PICK S \in SUBSET Commits : S = src.heads[b] \cup {Fresh}
  BY <1>3
<1>5. Grown
  BY <1>1, <1>2, <1>4, Advance DEF Grown
<1>6. \A g \in Gens : Own(g)' = Own(g)
  BY <1>1, <1>3, OwnAppends
<1>7. author' \in Seq(0..MaxGens) /\ Len(author') <= MaxCommits
  BY <1>1, <1>3, Appends
<1>8. NothingLost'
  <2> SUFFICES ASSUME NEW k \in 1..Len(author'), author'[k] \in Gens \ removed
               PROVE  \/ tree[author'[k]].there /\ k \in tree[author'[k]].head
                      \/ \E c \in Branches : k \in src'.heads[c]
    BY <1>1 DEF NothingLost
  <2>1. k \in 1..Len(author) /\ author'[k] = author[k]
    BY <1>1, <1>3, Appends
  <2> QED
    BY <1>5, <2>1 DEF IInv, NothingLost, Grown
<1> QED
  BY <1>1, <1>5, <1>6, <1>7, <1>8, Troubled, Parts, EditKeeps DEF IInv, RepoTypes

\* No commit of an agent is lost in what else the user does.
LEMMA UserKeeps ==
  ASSUME IInv, User
  PROVE  IInv'
<1>1. UNCHANGED <<policy, task, gen, mem, lock, run, req, fz, cancel, calls, complete, mode,
                  execs, stopped, stuck, turns>>
  BY DEF User, engine
<1>2. CASE UserCommits
  BY <1>2, UserCommitsKeeps DEF User, UserCommits
<1>3. ASSUME Trouble, UNCHANGED author, Grown, tree' \in [Gens -> Tree], removed \subseteq removed',
             removed' \subseteq Gens,
             \A g \in Gens : tree'[g] = tree[g] \/ (~tree'[g].there /\ g \in removed')
      PROVE  IInv'
  <2>1. \A g \in Gens : Own(g)' = Own(g)
    BY <1>3 DEF Own
  <2>2. author' \in Seq(0..MaxGens) /\ Len(author') <= MaxCommits
    BY <1>3 DEF IInv, RepoTypes
  <2>3. NothingLost'
    <3>1. \A g \in Gens \ removed' : tree'[g] = tree[g]
      BY <1>3
    <3> QED
      BY <1>3, <3>1, LostFrame
  <2>4. troubles' \in 0..MaxTroubles
    BY <1>3, Troubled
  <2> QED
    BY <1>1, <1>3, <2>1, <2>2, <2>3, <2>4, EditKeeps
<1>4. ASSUME Trouble, UNCHANGED <<author, tree, removed>>, Grown
      PROVE  IInv'
  BY <1>3, <1>4, Parts DEF IInv, RepoTypes
<1>5. CASE UserDirties
  <2>1. Trouble /\ src' = [src EXCEPT !.dirty = ~@] /\ UNCHANGED <<author, tree, removed>>
    BY <1>5 DEF UserDirties, Edit
  <2>2. Grown
    BY <2>1, Parts DEF Grown, Source
  <2> QED
    BY <1>4, <2>1, <2>2
<1>6. CASE UserSwitches
  <2>1. PICK b \in Branches \ {src.on} :
          src' = [src EXCEPT !.on = b, !.heads[b] = IF @ = {} THEN SourceHead ELSE @]
    BY <1>6 DEF UserSwitches
  <2>2. Trouble /\ UNCHANGED <<author, tree, removed>>
    BY <1>6 DEF UserSwitches, Edit
  <2> DEFINE hs == [src.heads EXCEPT ![b] = IF src.heads[b] = {} THEN SourceHead ELSE src.heads[b]]
  <2>3. src \in Source /\ src.heads \in [Branches -> SUBSET Commits] /\ src.on \in Branches
    BY Parts DEF Source
  <2>4. hs \in [Branches -> SUBSET Commits] /\ \A c \in Branches : src.heads[c] \subseteq hs[c]
    BY <2>3 DEF SourceHead
  <2>5. src' = [src EXCEPT !.on = b, !.heads = hs]
    BY <2>1, <2>3 DEF Source
  <2> HIDE DEF hs
  <2>6. src' \in Source /\ src'.heads = hs
    BY <2>3, <2>4, <2>5 DEF Source
  <2>7. Grown
    BY <2>4, <2>6 DEF Grown
  <2> QED
    BY <1>4, <2>2, <2>7
<1>7. CASE UserMerges
  <2>1. PICK g \in Gens : /\ tree[g].there /\ SourceHead \subseteq tree[g].head
                          /\ src' = [src EXCEPT !.heads[src.on] = tree[g].head]
    BY <1>7 DEF UserMerges
  <2>2. Trouble /\ UNCHANGED <<author, tree, removed>>
    BY <1>7 DEF UserMerges, Edit
  <2>3. PICK b \in Branches : b = src.on
    BY Parts DEF Source
  <2>4. PICK S \in SUBSET Commits : S = tree[g].head
    BY Parts DEF Tree
  <2>5. Grown
    BY <2>1, <2>3, <2>4, Advance DEF Grown, SourceHead
  <2> QED
    BY <1>4, <2>2, <2>5
<1>8. CASE UserRemoves
  <2>1. PICK g \in Gens : tree' = [tree EXCEPT ![g] = NoTree] /\ removed' = removed \cup {g}
    BY <1>8 DEF UserRemoves
  <2>2. Trouble /\ UNCHANGED <<author, src>>
    BY <1>8 DEF UserRemoves, Edit
  <2>3. tree' \in [Gens -> Tree] /\ ~tree'[g].there /\ \A h \in Gens \ {g} : tree'[h] = tree[h]
    BY <2>1, Nothings, Parts DEF NoTree
  <2>4. Grown
    BY <2>2, Parts DEF Grown
  <2>5. removed' \subseteq Gens
    BY <2>1 DEF IInv, RepoTypes
  <2> QED
    BY <1>3, <2>1, <2>2, <2>3, <2>4, <2>5
<1> QED
  BY <1>2, <1>5, <1>6, <1>7, <1>8 DEF User

-----------------------------------------------------------------------------
(* The daemon dies and starts again *)

\* The daemon dies: what it had in memory is gone.
LEMMA CrashKeeps ==
  ASSUME IInv, Crash
  PROVE  IInv'
<1>1. /\ mode # "down" /\ Trouble /\ mode' = "down" /\ mem' = Forgotten
      /\ lock' = [k \in 0..MaxGens |-> None] /\ run' = NoRun /\ req' = [p \in Callers |-> Idle]
      /\ fz' = NoFz /\ cancel' = Idle /\ calls' = {} /\ complete' = NoCall /\ stuck' = {}
      /\ UNCHANGED <<policy, task, gen, tree, src, author, execs, stopped, removed, turns>>
  BY DEF Crash
<1>2. RepoTypes' /\ OpenInv' /\ (\A g \in Gens : RowInv(g))' /\ NothingLost'
  BY <1>1, RepoFrame
<1>3. troubles' \in 0..MaxTroubles
  BY <1>1, Troubled
<1>4. Forgotten.active = 0 /\ 0 <= execs /\ NoRun.exec = 0 /\ NoRun.pc = "idle" /\ ~Forgotten.handle
      /\ NoFz.pc = "idle" /\ Idle.pc = "idle" /\ NoCall.exec = 0
  BY DEF Forgotten, NoRun, NoFz, NoCall, Idle, IInv, TaskTypes
<1>5. TaskTypes'
  BY <1>1, <1>3, <1>4, Nothings DEF IInv, TaskTypes
<1>6. ProcTypes'
  BY <1>1, <1>4, Nothings DEF IInv, ProcTypes, Modes, TaskTypes
<1>7. ModeInv'
  <2>1. \A p \in Callers : req'[p] = Idle
    BY <1>1
  <2> QED
    BY <1>1, <1>4, <2>1 DEF ModeInv, Callers
<1>8. RunInv'
  BY <1>1, <1>4, QuitRun DEF Callers
<1>9. LockInv'
  BY <1>1, <1>4 DEF LockInv, rq, Callers
<1>10. FzInv'
  BY <1>1, <1>4 DEF FzInv, Seen, Aimed, Noted
<1>11. CallInv'
  BY <1>1 DEF CallInv
<1> QED
  BY <1>2, <1>5, <1>6, <1>7, <1>8, <1>9, <1>10, <1>11 DEF IInv

\* While the daemon recovers there is no turn, no request but its own, no cancel and
\* no completion.
LEMMA Alone ==
  ASSUME IInv, mode # "up"
  PROVE  /\ run = NoRun /\ run.pc = "idle" /\ req["run"] = Idle /\ req["agent"] = Idle
         /\ cancel = Idle /\ calls = {} /\ complete = NoCall /\ ~mem.handle
         /\ mode # "finalize" => fz.pc = "idle"
         /\ mode # "down" => task.status \in Terminal
<1>1. run = NoRun /\ run.pc = "idle" /\ req["run"] = Idle /\ req["agent"] = Idle /\ cancel = Idle
      /\ calls = {} /\ complete = NoCall
  BY DEF IInv, ModeInv, CallInv, NoRun
<1>2. ~mem.handle
  BY <1>1 DEF IInv, RunInv
<1>3. mode # "finalize" => fz.pc = "idle"
  BY <1>1 DEF IInv, ModeInv
<1> QED
  BY <1>1, <1>2, <1>3 DEF IInv, ModeInv

\* What the steps of Recover have in common.
LEMMA RecKeeps ==
  ASSUME IInv, mode # "up",
         UNCHANGED <<policy, src, author, lock, run, cancel, calls, complete, execs, stopped,
                     removed, turns>>,
         UNCHANGED <<stuck, troubles>> \/ (stuck' \subseteq Gens /\ troubles' \in 0..MaxTroubles),
         task' \in TaskRow, mem' \in Memory, mem'.active = mem.active, mem'.handle = mem.handle,
         req' \in [Callers -> Req], req'["run"] = req["run"], req'["agent"] = req["agent"],
         fz' \in Fz, mode' \in Modes,
         mode' = "up" => task'.status # "running",
         gen' \in [Gens -> GenRow], tree' \in [Gens -> Tree],
         \A g \in Gens : /\ Moved(g) /\ gen'[g].owner <= execs /\ gen'[g].done <= execs
                         /\ tree'[g] = tree[g] \/ ~tree'[g].there
                         /\ tree[g].there /\ ~tree'[g].there => Merged(tree[g].head)
  PROVE  /\ RepoTypes' /\ TaskTypes' /\ ProcTypes' /\ (\A g \in Gens : RowInv(g))' /\ NothingLost'
         /\ RunInv' /\ CallInv' /\ Grown /\ \A g \in Gens : Own(g)' = Own(g)
<1>1. Grown /\ \A g \in Gens : Own(g)' = Own(g)
  BY Parts DEF Grown, Own
<1>2. RepoTypes' /\ TaskTypes' /\ ProcTypes'
  BY DEF IInv, RepoTypes, TaskTypes, ProcTypes
<1>3. \A g \in Gens : RowInv(g)'
  BY <1>1, RowMoves
<1>4. NothingLost'
  BY <1>1, LostFrame
<1>5. RunInv'
  BY Alone, QuitRun
<1>6. CallInv'
  BY Alone DEF CallInv
<1> QED
  BY <1>1, <1>2, <1>3, <1>4, <1>5, <1>6

\* FailOrphaned.
LEMMA RecFailsKeeps ==
  ASSUME IInv, RecFails,
         UNCHANGED <<policy, src, author, lock, run, cancel, calls, complete, execs, stopped,
                     removed, stuck, turns, troubles>>
  PROVE  IInv'
<1>1. /\ mode = "down" /\ mode' = "look" /\ UNCHANGED <<gen, tree, mem, req, fz>>
  BY DEF RecFails
<1> DEFINE s == IF task.status \in {"queued", "running"} THEN "failed" ELSE task.status
<1>2. task' = [task EXCEPT !.status = s] /\ s \in Terminal
  BY Parts DEF RecFails, TaskRow, Terminal
<1> HIDE DEF s
<1>3. task' \in TaskRow /\ task'.current = task.current /\ task'.status \in Terminal
  BY <1>2, Parts DEF TaskRow
<1>4. /\ RepoTypes' /\ TaskTypes' /\ ProcTypes' /\ (\A g \in Gens : RowInv(g))' /\ NothingLost'
      /\ RunInv' /\ CallInv'
  BY <1>1, <1>3, RecKeeps, Unmoved, Parts DEF Modes
<1>5. OpenInv'
  BY <1>1, <1>3 DEF IInv, OpenInv
<1>6. ModeInv'
  BY <1>1, <1>3 DEF IInv, ModeInv
<1>7. LockInv'
  BY <1>1, LockFrame
<1>8. FzInv'
  BY <1>1, Alone DEF FzInv, Seen, Aimed, Noted
<1> QED
  BY <1>4, <1>5, <1>6, <1>7, <1>8 DEF IInv

\* The state of the current generation, while the daemon recovers, is set to one it
\* may go on with, or the generation is given up.
LEMMA CurrentSet ==
  ASSUME IInv, task.current # 0, NEW s \in {"finalize_blocked", "orphaned", "released"},
         gen[task.current].root \/ s = "orphaned",
         s = "released" => gen[task.current].state = "integrated",
         \/ gen' = [gen EXCEPT ![task.current].state = s]
         \/ gen' = [gen EXCEPT ![task.current].state = s, ![task.current].done = 0]
  PROVE  /\ gen' \in [Gens -> GenRow] /\ gen'[task.current].state = s
         /\ \A g \in Gens \ {task.current} : gen'[g] = gen[g]
         /\ \A g \in Gens : Moved(g) /\ gen'[g].owner <= execs /\ gen'[g].done <= execs
<1>1. PICK g \in Gens : g = task.current
  BY Parts
<1>2. gen[g] \in GenRow /\ gen[g].owner <= execs /\ gen[g].done <= execs /\ 0 <= execs
      /\ gen[g].state \in Open /\ s \in States
  BY <1>1, Parts DEF IInv, TaskTypes, Current, States, Open, Blocked
<1>3. PICK row \in GenRow :
        /\ row.state = s /\ row.root = gen[g].root /\ row.base = gen[g].base
        /\ row.target = gen[g].target /\ row.owner = gen[g].owner /\ row.done \in {0, gen[g].done}
        /\ row.review = gen[g].review /\ row.final = gen[g].final
        /\ gen' = [gen EXCEPT ![g] = row]
  <2>1. CASE gen' = [gen EXCEPT ![g].state = s]
    <3> DEFINE row == [gen[g] EXCEPT !.state = s]
    <3>1. gen' = [gen EXCEPT ![g] = row]
      BY <2>1, Parts
    <3>2. /\ row \in GenRow /\ row.state = s /\ row.root = gen[g].root /\ row.base = gen[g].base
          /\ row.target = gen[g].target /\ row.owner = gen[g].owner /\ row.done = gen[g].done
          /\ row.review = gen[g].review /\ row.final = gen[g].final
      BY <1>2, StateSet
    <3> HIDE DEF row
    <3> QED
      BY <3>1, <3>2
  <2>2. CASE gen' = [gen EXCEPT ![g].state = s, ![g].done = 0]
    <3> DEFINE row == [gen[g] EXCEPT !.state = s, !.done = 0]
    <3>1. gen' = [gen EXCEPT ![g] = row]
      BY <2>2, Parts
    <3>2. /\ row \in GenRow /\ row.state = s /\ row.root = gen[g].root /\ row.base = gen[g].base
          /\ row.target = gen[g].target /\ row.owner = gen[g].owner /\ row.done = 0
          /\ row.review = gen[g].review /\ row.final = gen[g].final
      BY <1>2, BlockedSet
    <3> HIDE DEF row
    <3> QED
      BY <3>1, <3>2
  <2> QED
    BY <1>1, <2>1, <2>2
<1>4. gen' \in [Gens -> GenRow] /\ gen'[g] = row /\ \A h \in Gens \ {g} : gen'[h] = gen[h]
  BY <1>3, Parts
<1>5. Moved(g) /\ gen'[g].owner <= execs /\ gen'[g].done <= execs
  BY <1>1, <1>2, <1>3, <1>4 DEF Moved, Open, Blocked
<1> QED
  BY <1>1, <1>3, <1>4, <1>5, Unmoved

\* Recover is done: nobody is in the middle of anything, and nobody has a lock.
LEMMA RecUp ==
  ASSUME IInv, mode \notin {"up", "down", "finalize"},
         UNCHANGED <<policy, src, author, lock, run, cancel, calls, complete, execs, stopped,
                     removed, turns, fz, tree>>,
         UNCHANGED <<stuck, troubles>> \/ (stuck' \subseteq Gens /\ troubles' \in 0..MaxTroubles),
         mode' = "up",
         task' \in TaskRow, task'.status \in Terminal,
         mem' \in Memory, mem'.active = mem.active, mem'.handle = mem.handle,
         req' \in [Callers -> Req], req'["run"] = req["run"], req'["agent"] = req["agent"],
         req'["rec"] = Idle,
         gen' \in [Gens -> GenRow],
         \A g \in Gens : Moved(g) /\ gen'[g].owner <= execs /\ gen'[g].done <= execs,
         OpenInv'
  PROVE  IInv'
<1>1. /\ RepoTypes' /\ TaskTypes' /\ ProcTypes' /\ (\A g \in Gens : RowInv(g))' /\ NothingLost'
      /\ RunInv' /\ CallInv'
  BY RecKeeps, Parts DEF Modes, Terminal
<1>2. fz.pc = "idle" /\ run.pc = "idle" /\ cancel.pc = "idle" /\ Idle.pc = "idle"
      /\ \A p \in Callers : req'[p] = Idle
  BY Alone DEF Idle, Callers
<1>3. ModeInv'
  BY <1>2 DEF ModeInv
<1>4. LockInv'
  BY <1>2 DEF LockInv, rq, Callers
<1>5. FzInv'
  BY <1>2 DEF FzInv, Seen, Aimed, Noted
<1> QED
  BY <1>1, <1>3, <1>4, <1>5 DEF IInv

\* reconcileWorkspaces.
LEMMA RecLooksKeeps ==
  ASSUME IInv, RecLooks,
         UNCHANGED <<policy, src, author, lock, run, cancel, calls, complete, execs, stopped,
                     removed, stuck, turns, troubles, tree>>
  PROVE  IInv'
<1>1. mode = "look"
  BY DEF RecLooks
<1>2. /\ run = NoRun /\ run.pc = "idle" /\ req["run"] = Idle /\ req["agent"] = Idle /\ req["rec"] = Idle
      /\ cancel = Idle /\ calls = {} /\ ~mem.handle /\ fz.pc = "idle" /\ task.status \in Terminal
  BY <1>1, Alone DEF IInv, ModeInv
<1>s. task.status # "running"
  BY <1>2 DEF Terminal
<1>4. CASE task.current = 0
  <2>1. mode' = "up" /\ UNCHANGED <<task, gen, mem, req, fz>>
    BY <1>4 DEF RecLooks
  <2>3. OpenInv'
    BY <2>1 DEF IInv, OpenInv
  <2> QED
    BY <1>1, <1>2, <2>1, <2>3, Unmoved, Parts, RecUp
<1> DEFINE s == Current.state
<1>5. CASE task.current # 0 /\ s = "provisioning"
           /\ req' = [req EXCEPT !["rec"] = [pc |-> "tree", gen |-> task.current, key |-> 0]]
           /\ mode' = "provision" /\ UNCHANGED <<task, gen, mem, fz>>
  <2>1. task.current \in Gens /\ [pc |-> "tree", gen |-> task.current, key |-> 0] \in Req
    BY <1>5, Parts, Constants DEF Req
  <2>2. /\ req' \in [Callers -> Req] /\ req'["run"] = req["run"] /\ req'["agent"] = req["agent"]
        /\ req'["rec"] = [pc |-> "tree", gen |-> task.current, key |-> 0]
    BY <1>5, <2>1, Parts DEF Callers
  <2>3. /\ RepoTypes' /\ TaskTypes' /\ ProcTypes' /\ (\A g \in Gens : RowInv(g))' /\ NothingLost'
        /\ RunInv' /\ CallInv'
    BY <1>1, <1>5, <2>2, Unmoved, Parts, RecKeeps DEF Modes
  <2>4. OpenInv'
    BY <1>5 DEF IInv, OpenInv
  <2>6. ModeInv'
    BY <1>2, <1>5, <2>2 DEF ModeInv, Current
  <2>7. LockInv'
    BY <1>2, <1>5, <2>1, <2>2 DEF LockInv, rq, Callers, Idle, Current
  <2>8. FzInv'
    BY <1>2, <1>5 DEF FzInv, Seen, Aimed, Noted
  <2> QED
    BY <2>3, <2>4, <2>6, <2>7, <2>8 DEF IInv
<1>6. CASE task.current # 0 /\ s = "ready"
           /\ mem' = [mem EXCEPT !.queued = TRUE]
           /\ mode' = "up" /\ UNCHANGED <<task, gen, req, fz>>
  <2>1. mem' \in Memory /\ mem'.active = mem.active /\ mem'.handle = mem.handle
    BY <1>6, Parts DEF Memory
  <2>3. OpenInv'
    BY <1>6 DEF IInv, OpenInv
  <2> QED
    BY <1>1, <1>2, <1>6, <2>1, <2>3, Unmoved, Parts, RecUp
<1>7. CASE task.current # 0 /\ s \in {"active"} \cup Blocked
           /\ gen' = [gen EXCEPT ![task.current].state =
                        IF tree[task.current].there THEN @ ELSE "orphaned"]
           /\ task' = [task EXCEPT !.current = IF tree[task.current].there THEN @ ELSE 0]
           /\ mode' = "up" /\ UNCHANGED <<mem, req, fz>>
  <2>1. CASE tree[task.current].there
    <3>1. gen' = gen /\ task' = task
      <4>1. PICK g \in Gens : g = task.current
        BY <1>7, Parts
      <4>2. gen' = [gen EXCEPT ![g].state = gen[g].state]
        BY <1>7, <2>1, <4>1
      <4>3. [gen[g] EXCEPT !.state = gen[g].state] = gen[g]
        BY Parts DEF GenRow
      <4>4. gen' = gen
        BY <4>2, <4>3, Parts
      <4>5. task' = [task EXCEPT !.current = task.current]
        BY <1>7, <2>1
      <4> QED
        BY <4>4, <4>5, Parts DEF TaskRow
    <3>3. OpenInv'
      BY <1>7, <3>1 DEF IInv, OpenInv
    <3> QED
      BY <1>1, <1>2, <1>7, <3>1, <3>3, Unmoved, Parts, RecUp
  <2>2. CASE ~tree[task.current].there
    <3>1. gen' = [gen EXCEPT ![task.current].state = "orphaned"] /\ task' = [task EXCEPT !.current = 0]
      BY <1>7, <2>2
    <3>2. /\ gen' \in [Gens -> GenRow] /\ gen'[task.current].state = "orphaned"
          /\ \A g \in Gens \ {task.current} : gen'[g] = gen[g]
          /\ \A g \in Gens : Moved(g) /\ gen'[g].owner <= execs /\ gen'[g].done <= execs
      BY <1>7, <3>1, CurrentSet
    <3>3. task' \in TaskRow /\ task'.current = 0 /\ task'.status = task.status
      BY <3>1, Parts, Constants DEF TaskRow
    <3>4. OpenInv'
      BY <1>7, <3>2, <3>3, OpenCloses
    <3> QED
      BY <1>1, <1>2, <1>7, <3>2, <3>3, <3>4, Parts, RecUp
  <2> QED
    BY <2>1, <2>2
<1>8. CASE task.current # 0 /\ s = "finalizing"
           /\ gen' = [gen EXCEPT ![task.current].state = "finalize_blocked", ![task.current].done = 0]
           /\ mode' = "up" /\ UNCHANGED <<task, mem, req, fz>>
  <2>1. gen[task.current].root
    BY <1>8, Parts DEF IInv, RowInv, Current
  <2>2. /\ gen' \in [Gens -> GenRow] /\ gen'[task.current].state = "finalize_blocked"
        /\ \A g \in Gens \ {task.current} : gen'[g] = gen[g]
        /\ \A g \in Gens : Moved(g) /\ gen'[g].owner <= execs /\ gen'[g].done <= execs
    BY <1>8, <2>1, CurrentSet
  <2>4. OpenInv'
    <3>1. \A g \in Gens : /\ gen'[g].state \in Open <=> gen[g].state \in Open
                          /\ gen'[g].state = "none" <=> gen[g].state = "none"
                          /\ gen'[g].state = "provisioning" => gen[g].state = "provisioning"
      BY <1>8, <2>2, Parts DEF Open, Blocked, Current
    <3> QED
      BY <1>8, <3>1, OpenStays
  <2> QED
    BY <1>1, <1>2, <1>8, <2>2, <2>4, Parts, RecUp
<1>9. CASE task.current # 0 /\ s = "finalizing"
           /\ fz' = [NoFz EXCEPT !.pc = "lock", !.by = "rec", !.gen = task.current]
           /\ mode' = "finalize" /\ UNCHANGED <<task, gen, mem, req>>
  <2>1. fz' \in Fz /\ fz'.pc = "lock" /\ fz'.by = "rec" /\ fz'.gen \in Gens
    BY <1>9, Nothings, Parts DEF Fz
  <2>2. /\ RepoTypes' /\ TaskTypes' /\ ProcTypes' /\ (\A g \in Gens : RowInv(g))' /\ NothingLost'
        /\ RunInv' /\ CallInv'
    BY <1>1, <1>9, <2>1, Unmoved, Parts, RecKeeps DEF Modes
  <2>3. OpenInv'
    BY <1>9 DEF IInv, OpenInv
  <2>5. ModeInv'
    BY <1>2, <1>9, <2>1 DEF ModeInv
  <2>6. LockInv'
    BY <1>9, LockFrame
  <2>7. FzInv'
    BY <2>1 DEF FzInv, Seen, Aimed, Noted
  <2> QED
    BY <2>2, <2>3, <2>5, <2>6, <2>7 DEF IInv
<1>10. CASE task.current # 0 /\ s = "integrated" /\ mode' = "release" /\ UNCHANGED <<task,
                                                                                     gen, mem,
                                                                                     req, fz>>
  <2>1. /\ RepoTypes' /\ TaskTypes' /\ ProcTypes' /\ (\A g \in Gens : RowInv(g))' /\ NothingLost'
        /\ RunInv' /\ CallInv'
    BY <1>1, <1>10, Unmoved, Parts, RecKeeps DEF Modes
  <2>2. OpenInv'
    BY <1>10 DEF IInv, OpenInv
  <2>3. ModeInv'
    BY <1>2, <1>10 DEF ModeInv, Current
  <2>4. LockInv'
    BY <1>10, LockFrame
  <2>5. FzInv'
    BY <1>2, <1>10 DEF FzInv, Seen, Aimed, Noted
  <2> QED
    BY <2>1, <2>2, <2>3, <2>4, <2>5 DEF IInv
<1> QED
  BY <1>4, <1>5, <1>6, <1>7, <1>8, <1>9, <1>10 DEF RecLooks, Current

\* The generation Recover has provisioned is ready, or given up.
LEMMA RecProvisionedKeeps ==
  ASSUME IInv, RecProvisioned,
         UNCHANGED <<policy, src, author, lock, run, cancel, calls, complete, execs, stopped,
                     removed, stuck, turns, troubles>>
  PROVE  IInv'
<1>1. /\ mode = "provision" /\ rq("rec") \in {"ok", "failed"} /\ req' = [req EXCEPT !["rec"] = Idle]
      /\ mode' = "up" /\ UNCHANGED <<tree, mem, fz>>
  BY DEF RecProvisioned
<1>2. task.status \in Terminal
  BY <1>1, Alone
<1>3. /\ req' \in [Callers -> Req] /\ req'["run"] = req["run"] /\ req'["agent"] = req["agent"]
      /\ req'["rec"] = Idle
  BY <1>1, Nothings, Parts DEF Callers
<1>4. CASE rq("rec") = "ok"
  <2>1. UNCHANGED <<task, gen>>
    BY <1>4 DEF RecProvisioned
  <2>2. OpenInv'
    BY <2>1 DEF IInv, OpenInv
  <2> QED
    BY <1>1, <1>2, <1>3, <2>1, <2>2, Unmoved, Parts, RecUp
<1>5. CASE rq("rec") = "failed"
  <2>1. gen' = [gen EXCEPT ![task.current].state = "orphaned"] /\ task' = [task EXCEPT !.current = 0]
    BY <1>5 DEF RecProvisioned
  <2>2. task.current # 0
    BY <1>1 DEF IInv, ModeInv
  <2>3. /\ gen' \in [Gens -> GenRow] /\ gen'[task.current].state = "orphaned"
        /\ \A g \in Gens \ {task.current} : gen'[g] = gen[g]
        /\ \A g \in Gens : Moved(g) /\ gen'[g].owner <= execs /\ gen'[g].done <= execs
    BY <2>1, <2>2, CurrentSet
  <2>4. task' \in TaskRow /\ task'.current = 0 /\ task'.status = task.status
    BY <2>1, Parts, Constants DEF TaskRow
  <2>5. OpenInv'
    BY <2>2, <2>3, <2>4, OpenCloses
  <2> QED
    BY <1>1, <1>2, <1>3, <2>3, <2>4, <2>5, Parts, RecUp
<1> QED
  BY <1>1, <1>4, <1>5

\* Recover removes the worktree of what was integrated before the daemon died.
LEMMA RecReleasesKeeps ==
  ASSUME IInv, RecReleases,
         UNCHANGED <<policy, src, author, lock, run, cancel, calls, complete, execs, stopped,
                     removed, stuck, turns, troubles>>
  PROVE  IInv'
<1>1. /\ mode = "release" /\ tree' = [tree EXCEPT ![task.current] = NoTree] /\ mode' = "released"
      /\ UNCHANGED <<task, gen, mem, req, fz>>
  BY DEF RecReleases
<1>2. task.current \in Gens /\ Current.state = "integrated"
  BY <1>1, Parts DEF IInv, ModeInv
<1>3. tree' \in [Gens -> Tree] /\ ~tree'[task.current].there
      /\ \A g \in Gens \ {task.current} : tree'[g] = tree[g]
  BY <1>1, <1>2, Nothings, Parts DEF NoTree
<1>4. tree[task.current].there => Merged(tree[task.current].head)
  BY <1>2 DEF IInv, RowInv, Current
<1>5. /\ task.status \in Terminal /\ fz.pc = "idle" /\ run.pc = "idle" /\ req["rec"] = Idle
      /\ req["run"] = Idle /\ req["agent"] = Idle
  BY <1>1, Alone DEF IInv, ModeInv
<1>6. /\ RepoTypes' /\ TaskTypes' /\ ProcTypes' /\ (\A g \in Gens : RowInv(g))' /\ NothingLost'
      /\ RunInv' /\ CallInv'
  BY <1>1, <1>3, <1>4, Unmoved, Parts, RecKeeps DEF Modes
<1>7. OpenInv'
  BY <1>1 DEF IInv, OpenInv
<1>8. ModeInv'
  BY <1>1, <1>2, <1>3, <1>5 DEF IInv, ModeInv, Current
<1>9. LockInv'
  BY <1>1, LockFrame
<1>10. FzInv'
  BY <1>1, <1>5 DEF FzInv, Seen, Aimed, Noted
<1> QED
  BY <1>6, <1>7, <1>8, <1>9, <1>10 DEF IInv

\* And records that it has.
LEMMA RecReleasedKeeps ==
  ASSUME IInv, RecReleased,
         UNCHANGED <<policy, src, author, lock, run, cancel, calls, complete, execs, stopped,
                     removed, stuck, turns, troubles>>
  PROVE  IInv'
<1> DEFINE s == IF task.status = "canceled" THEN task.status ELSE "succeeded"
<1>1. /\ mode = "released" /\ gen' = [gen EXCEPT ![task.current].state = "released"]
      /\ task' = [task EXCEPT !.current = 0, !.status = s]
      /\ mode' = "up" /\ UNCHANGED <<tree, mem, req, fz>>
  BY DEF RecReleased
<1>2. task.current # 0 /\ Current.state = "integrated" /\ req["rec"] = Idle
  BY <1>1 DEF IInv, ModeInv
<1>3. s \in Terminal
  BY DEF Terminal
<1> HIDE DEF s
<1>4. task' \in TaskRow /\ task'.current = 0 /\ task'.status \in Terminal
  BY <1>1, <1>3, Parts, Constants DEF TaskRow
<1>5. gen[task.current].root /\ gen[task.current].state = "integrated"
  BY <1>2, Parts DEF IInv, RowInv, Current
<1>6. /\ gen' \in [Gens -> GenRow] /\ gen'[task.current].state = "released"
      /\ \A g \in Gens \ {task.current} : gen'[g] = gen[g]
      /\ \A g \in Gens : Moved(g) /\ gen'[g].owner <= execs /\ gen'[g].done <= execs
  BY <1>1, <1>2, <1>5, CurrentSet
<1>7. OpenInv'
  BY <1>2, <1>4, <1>6, OpenCloses
<1> QED
  BY <1>1, <1>2, <1>4, <1>6, <1>7, Parts, RecUp

\* A statement fails, and the generation is left as it is.
LEMMA RecPassesOverKeeps ==
  ASSUME IInv, RecPassesOver,
         UNCHANGED <<policy, src, author, lock, run, cancel, calls, complete, execs, stopped,
                     removed, turns>>
  PROVE  IInv'
<1>1. /\ mode \in {"look", "released", "provision"} /\ mode' = "up" /\ Trouble
      /\ req' = [req EXCEPT !["rec"] = Idle] /\ stuck' = Left(task.current)
      /\ UNCHANGED <<task, gen, tree, mem, fz>>
  BY DEF RecPassesOver
<1>2. stuck' \subseteq Gens /\ troubles' \in 0..MaxTroubles
  BY <1>1, Leaves, Troubled, Parts
<1>3. task.status \in Terminal
  BY <1>1, Alone
<1>4. /\ req' \in [Callers -> Req] /\ req'["run"] = req["run"] /\ req'["agent"] = req["agent"]
      /\ req'["rec"] = Idle
  BY <1>1, Nothings, Parts DEF Callers
<1>5. OpenInv'
  BY <1>1 DEF IInv, OpenInv
<1> QED
  BY <1>1, <1>2, <1>3, <1>4, <1>5, Unmoved, Parts, RecUp

\* A step of Recover.
LEMMA RecoverKeeps ==
  ASSUME IInv, Recover
  PROVE  IInv'
<1>1. UNCHANGED <<policy, src, author, lock, run, cancel, calls, complete, execs, stopped,
                  removed, turns>>
  BY DEF Recover
<1>2. RecLooks => UNCHANGED tree
  BY DEF RecLooks
<1> QED
  BY <1>1, <1>2, RecFailsKeeps, RecLooksKeeps, RecProvisionedKeeps, RecReleasesKeeps,
     RecReleasedKeeps, RecPassesOverKeeps DEF Recover

-----------------------------------------------------------------------------
(* Finalization *)

\* Whom a finalization is for, and what it finds.
LEMMA Finalizer ==
  ASSUME IInv, fz.pc # "idle"
  PROVE  /\ fz.by = "run" => mode = "up" /\ run.pc = "finalizing"
         /\ fz.by # "run" => /\ fz.by = "rec" /\ mode = "finalize" /\ run = NoRun /\ run.pc = "idle"
                             /\ task.status \in Terminal
         /\ run.pc # "live" /\ req["run"] = Idle /\ req["rec"] = Idle
         /\ fz \in Fz /\ fz.gen \in Gens /\ fz.gen \in 0..MaxGens /\ fz.gen # 0 /\ Row \in GenRow
         /\ Row.owner <= execs /\ Row.done <= execs
         /\ fz.pc \notin {"lock", "release", "released"} => \A g \in Gens : gen[g].state # "integrated"
         /\ fz.pc # "lock" => /\ task.current = fz.gen /\ lock[fz.gen] = "fz" /\ Row.root
                              /\ Row.state \in {"finalizing", "finalize_blocked", "integrated"}
<1>1. fz \in Fz /\ fz.gen \in Gens /\ fz.gen \in 0..MaxGens /\ fz.gen # 0 /\ Row \in GenRow
      /\ Row.owner <= execs /\ Row.done <= execs
  BY Parts, Constants DEF IInv, FzInv, TaskTypes, Row
<1>4. fz.pc \notin {"lock", "release", "released"} => \A g \in Gens : gen[g].state # "integrated"
  <2>1. SUFFICES ASSUME fz.pc \notin {"lock", "release", "released"}, NEW g \in Gens,
                        gen[g].state = "integrated"
                 PROVE  FALSE
    OBVIOUS
  <2>2. task.current = fz.gen /\ Row.state \in {"finalizing", "finalize_blocked"}
    BY <1>1, <2>1 DEF IInv, FzInv, Fz, Seen
  <2>3. task.current = g
    BY <2>1 DEF IInv, OpenInv, Open
  <2> QED
    BY <2>1, <2>2, <2>3 DEF Row
<1>2. CASE mode = "up"
  <2>1. run.pc = "finalizing" /\ fz.by = "run"
    BY <1>2 DEF IInv, ModeInv
  <2>2. req["run"] = Idle /\ req["rec"] = Idle
    BY <1>2, <2>1 DEF IInv, RunInv, ModeInv
  <2>4. fz.pc # "lock" => /\ task.current = fz.gen /\ lock[fz.gen] = "fz"
                          /\ Row.state \in {"finalizing", "finalize_blocked", "integrated"}
    BY <1>1 DEF IInv, FzInv, Fz, Seen
  <2> QED
    BY <1>1, <1>2, <1>4, <2>1, <2>2, <2>4 DEF IInv, RowInv, Row
<1>3. CASE mode # "up"
  <2>1. run = NoRun /\ run.pc = "idle" /\ req["run"] = Idle /\ fz.by = "rec" /\ mode = "finalize"
    BY <1>3, Alone DEF IInv, ModeInv
  <2>2. task.status \in Terminal /\ req["rec"] = Idle
    BY <2>1 DEF IInv, ModeInv
  <2>4. fz.pc # "lock" => /\ task.current = fz.gen /\ lock[fz.gen] = "fz"
                          /\ Row.state \in {"finalizing", "finalize_blocked", "integrated"}
    BY <1>1 DEF IInv, FzInv, Fz, Seen
  <2> QED
    BY <1>1, <1>4, <2>1, <2>2, <2>4 DEF IInv, RowInv, Row
<1> QED
  BY <1>2, <1>3

\* A finalization ends, and its caller goes on.
LEMMA FzEnded ==
  ASSUME IInv, fz.pc # "idle", NEW outcome \in {"ok", "failed", "canceled"}, FzEnds(outcome),
         UNCHANGED <<policy, tree, author, req, cancel, calls, complete, execs, stopped,
                     removed, turns>>,
         UNCHANGED src \/ Grown,
         UNCHANGED <<stuck, troubles>> \/ (stuck' \subseteq Gens /\ troubles' \in 0..MaxTroubles),
         task' \in TaskRow,
         task'.status = task.status \/ (fz.by = "rec" /\ task'.status \in Terminal),
         task'.current = 0 \/ task'.current = task.current,
         gen' \in [Gens -> GenRow],
         \A g \in Gens : /\ Moved(g) /\ gen'[g].owner <= execs /\ gen'[g].done <= execs
                         /\ gen'[g].owner = gen[g].owner
                         /\ gen[g].state = "provisioning" => gen'[g].state = "provisioning",
         OpenInv'
  PROVE  IInv'
<1>1. /\ fz' = NoFz /\ NoFz \in Fz /\ NoFz.pc = "idle" /\ lock' = Unlocked("fz")
  BY Nothings DEF FzEnds, NoFz
<1>2. /\ lock' \in [0..MaxGens -> {"run", "agent", "fz", "cancel", "complete", None}]
      /\ lock'[0] = lock[0] \/ lock[0] \notin {"run", "agent"}
      /\ \A k \in 0..MaxGens : lock[k] = "complete" => lock'[k] = "complete"
  BY <1>1, Unlocks
<1>3. /\ run' \in Run /\ run'.exec = run.exec /\ mem' \in Memory /\ mem'.active = mem.active
      /\ mem'.handle = mem.handle /\ mem'.queued = mem.queued /\ mode' = "up"
      /\ \/ fz.by = "run" /\ run'.pc = "after" /\ run.pc = "finalizing" /\ mode = "up"
         \/ fz.by = "rec" /\ run' = NoRun /\ run = NoRun /\ run.pc = "idle" /\ task.status \in Terminal
  <2>1. CASE fz.by = "run"
    <3>1. /\ run' = [run EXCEPT !.pc = "after", !.outcome = outcome] /\ UNCHANGED <<mem,
                                                                                    mode>>
          /\ mode = "up" /\ run.pc = "finalizing"
      BY <2>1, Finalizer DEF FzEnds
    <3>2. run' \in Run /\ run'.exec = run.exec /\ run'.pc = "after"
      BY <3>1, Parts DEF Run
    <3> QED
      BY <2>1, <3>1, <3>2, Parts
  <2>2. CASE fz.by # "run"
    <3>1. /\ mem' = [mem EXCEPT !.committing = None] /\ mode' = "up" /\ UNCHANGED run
          /\ fz.by = "rec" /\ run = NoRun /\ run.pc = "idle" /\ task.status \in Terminal
      BY <2>2, Finalizer DEF FzEnds
    <3>2. /\ mem' \in Memory /\ mem'.active = mem.active /\ mem'.handle = mem.handle
          /\ mem'.queued = mem.queued
      BY <3>1, Parts DEF Memory
    <3> QED
      BY <3>1, <3>2, Parts
  <2> QED
    BY <2>1, <2>2
<1>4. RepoTypes' /\ TaskTypes' /\ (\A g \in Gens : RowInv(g))' /\ NothingLost'
  <2>1. Grown /\ \A g \in Gens : Own(g)' = Own(g)
    BY Parts DEF Grown, Own
  <2>2. RepoTypes'
    BY <2>1 DEF IInv, RepoTypes, Grown
  <2>3. TaskTypes'
    BY <1>3 DEF IInv, TaskTypes
  <2>4. \A g \in Gens : RowInv(g)'
    BY <2>1, RowMoves
  <2>5. NothingLost'
    BY <2>1, LostFrame, Parts
  <2> QED
    BY <2>2, <2>3, <2>4, <2>5
<1>5. ProcTypes'
  BY <1>1, <1>2, <1>3, Nothings DEF IInv, ProcTypes, Modes
<1>6. ModeInv'
  BY <1>1, <1>3, Finalizer DEF ModeInv
<1>7. RunInv'
  <2>1. CASE fz.by = "run" /\ run'.pc = "after" /\ run.pc = "finalizing" /\ mode = "up"
    <3>1. task'.current = 0 \/ Current'.owner = Current.owner
      BY Parts DEF Current
    <3>2. task'.status = task.status
      BY <2>1
    <3> QED
      BY <1>3, <2>1, <3>1, <3>2 DEF IInv, RunInv, Owns, Early, Late
  <2>2. CASE fz.by = "rec" /\ run' = NoRun /\ run = NoRun /\ run.pc = "idle" /\ task.status \in Terminal
    <3>1. ~mem'.handle /\ req'["run"] = Idle /\ task'.status # "running"
      BY <1>3, <2>2, Finalizer DEF IInv, RunInv, Terminal
    <3> QED
      BY <2>2, <3>1, QuitRun
  <2> QED
    BY <1>3, <2>1, <2>2
<1>8. LockInv'
  <2>1. \A g \in Gens : /\ gen[g].state # "none" => gen'[g].state # "none"
                        /\ gen[g].root => gen'[g].root
    BY DEF Moved
  <2> QED
    BY <1>2, <2>1, LockKeeps DEF IInv, LockInv
<1>9. FzInv'
  BY <1>1 DEF FzInv, Seen, Aimed, Noted
<1>10. CallInv'
  BY <1>2, <1>3, CallFrame DEF Moved
<1> QED
  BY <1>4, <1>5, <1>6, <1>7, <1>8, <1>9, <1>10 DEF IInv

\* A failure leaves the generation and its worktree for a later turn.
LEMMA FzBlocksKeeps ==
  ASSUME IInv, fz.pc \notin {"idle", "lock", "release", "released"},
         NEW s \in Blocked, NEW outcome \in {"ok", "failed", "canceled"}, FzBlocks(s, outcome),
         UNCHANGED <<policy, task, tree, author, req, cancel, calls, complete, execs,
                     stopped, removed, turns>>,
         UNCHANGED src \/ Grown,
         UNCHANGED <<stuck, troubles>> \/ (stuck' \subseteq Gens /\ troubles' \in 0..MaxTroubles)
  PROVE  IInv'
<1>1. PICK g \in Gens : g = fz.gen
  BY Finalizer
<1> DEFINE row == [gen[g] EXCEPT !.state = s, !.done = 0]
<1>2. gen' = [gen EXCEPT ![g] = row]
  BY <1>1, Parts DEF FzBlocks
<1>3. /\ gen[g] \in GenRow /\ gen[g].owner <= execs /\ 0 <= execs /\ gen[g].root
      /\ gen[g].state \in {"finalizing", "finalize_blocked", "integrated"} /\ s \in States
      /\ \A h \in Gens : gen[h].state # "integrated"
  BY <1>1, Finalizer DEF Row, States, Open, IInv, TaskTypes
<1>4. /\ row \in GenRow /\ row.state = s /\ row.root = gen[g].root /\ row.base = gen[g].base
      /\ row.target = gen[g].target /\ row.owner = gen[g].owner /\ row.done = 0
      /\ row.review = gen[g].review /\ row.final = gen[g].final
  BY <1>3, BlockedSet, ZenonT(60)
<1> HIDE DEF row
<1>5. gen' \in [Gens -> GenRow] /\ gen'[g] = row /\ \A h \in Gens \ {g} : gen'[h] = gen[h]
  BY <1>2, <1>4, Parts
<1>6. \A h \in Gens : Moved(h) /\ gen'[h].owner <= execs /\ gen'[h].done <= execs
  <2>1. Moved(g) /\ gen'[g].owner <= execs /\ gen'[g].done <= execs
    BY <1>3, <1>4, <1>5 DEF Moved, Blocked
  <2> QED
    BY <1>5, <2>1, Unmoved
<1>7. \A h \in Gens : /\ gen'[h].owner = gen[h].owner
                      /\ gen[h].state = "provisioning" => gen'[h].state = "provisioning"
                      /\ gen'[h].state \in Open <=> gen[h].state \in Open
                      /\ gen'[h].state = "none" <=> gen[h].state = "none"
                      /\ gen'[h].state = "provisioning" => gen[h].state = "provisioning"
  BY <1>3, <1>4, <1>5 DEF Open, Blocked
<1>8. OpenInv'
  BY <1>7, OpenStays
<1> QED
  BY <1>5, <1>6, <1>7, <1>8, Parts, FzEnded DEF FzBlocks

\* A finalization goes on.
LEMMA FzGoes ==
  ASSUME IInv, fz.pc # "idle", fz' \in Fz, fz'.pc # "idle", fz'.by = fz.by, fz'.gen = fz.gen,
         UNCHANGED <<policy, task, author, run, req, cancel, calls, complete, mode, execs,
                     stopped, removed, stuck, turns, troubles>>,
         mem' \in Memory, mem'.active = mem.active, mem'.handle = mem.handle, mem'.queued = mem.queued,
         lock' \in [0..MaxGens -> {"run", "agent", "fz", "cancel", "complete", None}], lock'[0] = lock[0],
         \A k \in 0..MaxGens : lock[k] = "complete" => lock'[k] = "complete",
         Grown, tree' \in [Gens -> Tree],
         gen' \in [Gens -> GenRow], \A g \in Gens \ {fz.gen} : gen'[g] = gen[g] /\ tree'[g] = tree[g],
         Row'.owner = Row.owner, Row'.done = Row.done, Row'.root = Row.root,
         Row'.state = Row.state \/ (fz.pc # "lock" /\ Row'.state = "integrated"),
         RowInv(fz.gen)', NothingLost', FzInv'
  PROVE  IInv'
<1>1. PICK g \in Gens : g = fz.gen
  BY Finalizer
<1>2. /\ gen'[g].owner = gen[g].owner /\ gen'[g].done = gen[g].done /\ gen'[g].root = gen[g].root
      /\ gen'[g].state = gen[g].state \/ (fz.pc # "lock" /\ gen'[g].state = "integrated")
  BY <1>1 DEF Row
<1>3. \A h \in Gens : /\ gen'[h].owner = gen[h].owner /\ gen'[h].done = gen[h].done
                      /\ gen'[h].root = gen[h].root
                      /\ gen'[h].state \in Open <=> gen[h].state \in Open
                      /\ gen'[h].state = "none" <=> gen[h].state = "none"
                      /\ gen'[h].state = "provisioning" <=> gen[h].state = "provisioning"
  <2>1. fz.pc # "lock" => gen[g].state \in Open \ {"none", "provisioning"}
    BY <1>1, Finalizer DEF Row, Open, Blocked
  <2> QED
    BY <1>1, <1>2, <2>1 DEF Open, Blocked
<1>4. RepoTypes' /\ TaskTypes' /\ ProcTypes'
  BY <1>3, Finalizer DEF IInv, RepoTypes, TaskTypes, ProcTypes, Grown
<1>5. OpenInv'
  BY <1>3, OpenStays
<1>6. ASSUME NEW h \in Gens
      PROVE  RowInv(h)'
  <2>1. CASE h = g
    BY <1>1, <2>1
  <2>2. CASE h # g
    BY <1>1, <2>2, RowMoves DEF Moved, Own
  <2> QED
    BY <2>1, <2>2
<1>7. ModeInv'
  <2>2. fz.by = (IF mode = "up" THEN "run" ELSE "rec") /\ mode \in {"up", "finalize"}
        /\ (mode = "up" => run.pc = "finalizing")
    BY Finalizer DEF IInv, ModeInv
  <2> QED
    BY <1>1, <2>2 DEF IInv, ModeInv
<1>8. RunInv'
  <2>1. task.current # 0 => Current'.owner = Current.owner
    BY <1>3, Parts DEF Current
  <2> QED
    BY <2>1, Finalizer DEF IInv, RunInv, Owns
<1>9. LockInv'
  BY <1>3, LockKeeps DEF IInv, LockInv
<1>10. CallInv'
  BY <1>3, CallFrame
<1> QED
  BY <1>4, <1>5, <1>6, <1>7, <1>8, <1>9, <1>10 DEF IInv

\* A finalization goes on, and nothing but what it knows has changed.
LEMMA FzThinks ==
  ASSUME IInv, fz.pc # "idle", fz' \in Fz, fz'.pc # "idle", fz'.by = fz.by, fz'.gen = fz.gen,
         UNCHANGED <<policy, task, gen, tree, src, author, lock, run, mem, req, cancel, calls,
                     complete, mode, execs, stopped, removed, stuck, turns, troubles>>,
         FzInv'
  PROVE  IInv'
<1>1. Grown
  BY Parts DEF Grown
<1>2. RepoTypes' /\ OpenInv' /\ (\A g \in Gens : RowInv(g))' /\ NothingLost'
  BY RepoFrame
<1>3. Row' = Row
  BY DEF Row
<1> QED
  BY <1>1, <1>2, <1>3, Finalizer, Parts, FzGoes

\* The lock is taken, if the generation is to be finalized still.
LEMMA FzLockKeeps ==
  ASSUME IInv, FzLock,
         UNCHANGED <<policy, author, req, cancel, calls, complete, execs, stopped, removed,
                     stuck, turns, troubles>>
  PROVE  IInv'
<1>1. /\ fz.pc = "lock" /\ lock[Key(fz.gen)] = None /\ UNCHANGED <<task, gen, tree, src>>
      /\ IF Row.state = "finalizing"
         THEN /\ lock' = [lock EXCEPT ![Key(fz.gen)] = "fz"] /\ fz' = [fz EXCEPT !.pc = "inspect"]
              /\ UNCHANGED <<run, mem, mode>>
         ELSE FzEnds("failed")
  BY DEF FzLock, FzAt, FzGoto
<1>2. PICK g \in Gens : g = fz.gen
  BY <1>1, Finalizer
<1>4. RepoTypes' /\ (task'.current = task.current /\ UNCHANGED removed)
  BY <1>1 DEF IInv, RepoTypes
<1>5. CASE Row.state # "finalizing"
  <2>1. OpenInv'
    BY <1>1 DEF IInv, OpenInv
  <2> QED
    BY <1>1, <1>5, <2>1, Unmoved, Parts, FzEnded
<1>6. CASE Row.state = "finalizing"
  <2>1. gen[g].root /\ Key(fz.gen) = g /\ g # 0 /\ g \in 0..MaxGens /\ task.current = g
    <3>1. gen[g].state = "finalizing" /\ g # 0 /\ g \in 0..MaxGens
      BY <1>1, <1>2, <1>6, Finalizer DEF Row
    <3>2. gen[g].root /\ task.current = g
      BY <3>1 DEF IInv, RowInv, OpenInv, Open
    <3> QED
      BY <1>2, <3>1, <3>2 DEF Key
  <2>2. lock' = [lock EXCEPT ![g] = "fz"] /\ fz' = [fz EXCEPT !.pc = "inspect"]
        /\ UNCHANGED <<run, mem, mode>>
    BY <1>1, <1>6, <2>1
  <2>3. fz' \in Fz /\ fz'.pc = "inspect" /\ fz'.by = fz.by /\ fz'.gen = g
    BY <1>2, <2>2, Parts DEF Fz
  <2>4. /\ lock' \in [0..MaxGens -> {"run", "agent", "fz", "cancel", "complete", None}] /\ lock'[0] = lock[0]
        /\ lock'[g] = "fz" /\ \A k \in 0..MaxGens : lock[k] = "complete" => lock'[k] = "complete"
    BY <1>1, <2>1, <2>2, Parts, Constants
  <2>5. FzInv'
    BY <1>1, <1>2, <1>6, <2>1, <2>3, <2>4 DEF FzInv, Row, Seen, Aimed, Noted
  <2>6. NothingLost' /\ (\A h \in Gens : RowInv(h))'
    BY <1>1, RepoFrame
  <2>7. Grown /\ Row' = Row
    BY <1>1, <1>2, <2>3, Parts DEF Grown, Row
  <2> QED
    BY <1>1, <1>2, <1>6, <2>2, <2>3, <2>4, <2>5, <2>6, <2>7, Parts, FzGoes
<1> QED
  BY <1>5, <1>6

\* InspectFinalizable.
LEMMA FzInspectKeeps ==
  ASSUME IInv, FzInspect,
         UNCHANGED <<policy, author, req, cancel, calls, complete, execs, stopped, removed,
                     stuck, turns, troubles>>
  PROVE  IInv'
<1>1. fz.pc = "inspect" /\ UNCHANGED <<task, tree, src>>
  BY DEF FzInspect, FzAt
<1>2. CASE ~(tree[fz.gen].there /\ ~tree[fz.gen].dirty)
  BY <1>1, <1>2, FzBlocksKeeps DEF FzInspect, Blocked
<1>3. CASE tree[fz.gen].there /\ ~tree[fz.gen].dirty
  <2>1. PICK g \in Gens : g = fz.gen
    BY <1>1, Finalizer
  <2>2. fz' = [fz EXCEPT !.pc = "target", !.seen = tree[g].head]
        /\ UNCHANGED <<gen, lock, run, mem, mode>>
    BY <1>3, <2>1 DEF FzInspect, FzStays
  <2>3. fz' \in Fz /\ fz'.pc = "target" /\ fz'.by = fz.by /\ fz'.gen = g /\ fz'.seen = tree[g].head
    BY <2>1, <2>2, Parts DEF Fz, Tree
  <2>4. tree[g].head \ Own(g) \subseteq src.heads[gen[g].target]
    BY <1>3, <2>1 DEF IInv, RowInv
  <2>5. FzInv'
    BY <1>1, <1>3, <2>1, <2>2, <2>3, <2>4 DEF IInv, FzInv, Row, Seen, Aimed, Noted, Own
  <2> QED
    BY <1>1, <2>1, <2>2, <2>3, <2>5, FzThinks
<1> QED
  BY <1>2, <1>3

\* InspectIntegrationTarget.
LEMMA FzTargetKeeps ==
  ASSUME IInv, FzTarget,
         UNCHANGED <<policy, author, req, cancel, calls, complete, execs, stopped, removed,
                     stuck, turns, troubles>>
  PROVE  IInv'
<1>1. fz.pc = "target" /\ UNCHANGED <<task, tree, src>>
  BY DEF FzTarget, FzAt
<1>2. CASE ~(~src.dirty /\ src.on = Row.target)
  BY <1>1, <1>2, FzBlocksKeeps DEF FzTarget, Blocked
<1>3. CASE ~src.dirty /\ src.on = Row.target
  <2>1. PICK g \in Gens : g = fz.gen
    BY <1>1, Finalizer
  <2>2. fz' = [fz EXCEPT !.pc = "snapshot", !.head = SourceHead]
        /\ UNCHANGED <<gen, lock, run, mem, mode>>
    BY <1>3 DEF FzTarget, FzStays
  <2>3. SourceHead \in SUBSET Commits /\ Merged(SourceHead) /\ SourceHead = src.heads[gen[g].target]
    BY <1>3, <2>1, Parts DEF SourceHead, Source, Merged, Row
  <2>4. /\ fz' \in Fz /\ fz'.pc = "snapshot" /\ fz'.by = fz.by /\ fz'.gen = g /\ fz'.seen = fz.seen
        /\ fz'.head = SourceHead
    BY <2>1, <2>2, <2>3, Parts DEF Fz
  <2>5. FzInv'
    BY <1>1, <2>1, <2>2, <2>3, <2>4 DEF IInv, FzInv, Row, Seen, Aimed, Noted, Own, Merged
  <2> QED
    BY <1>1, <2>1, <2>2, <2>4, <2>5, FzThinks
<1> QED
  BY <1>2, <1>3

\* What the branches and the commits of generation g are built on stays.
LEMMA MergedStays ==
  ASSUME UNCHANGED <<src, author>>
  PROVE  (\A S : Merged(S)' <=> Merged(S)) /\ \A g \in Gens : Own(g)' = Own(g)
BY DEF Merged, Own

\* The snapshot: what is reviewed is the agent's own work.
LEMMA FzSnapshotKeeps ==
  ASSUME IInv, FzSnapshot,
         UNCHANGED <<policy, author, req, cancel, calls, complete, execs, stopped, removed,
                     stuck, turns, troubles>>
  PROVE  IInv'
<1> DEFINE had    == Row.final # None
           review == IF had THEN Row.review ELSE fz.head
<1>1. fz.pc = "snapshot" /\ UNCHANGED <<task, tree, src>>
  BY DEF FzSnapshot, FzAt
<1>2. CASE had /\ Row.final # fz.seen
  BY <1>1, <1>2, FzBlocksKeeps DEF FzSnapshot, Blocked
<1>3. CASE ~(had /\ Row.final # fz.seen)
  <2>1. PICK g \in Gens : g = fz.gen
    BY <1>1, Finalizer
  <2>2. /\ fz' = [fz EXCEPT !.pc = "commit", !.had = had, !.review = review]
        /\ gen' = [gen EXCEPT ![g].final = fz.seen, ![g].review = review]
        /\ UNCHANGED <<lock, run, mem, mode>>
    BY <1>3, <2>1 DEF FzSnapshot
  <2>3. PICK v \in SUBSET Commits : v = review
    <3>1. had => Row.review # None /\ Row.review \in (SUBSET Commits) \cup {None}
      BY <2>1, Parts DEF IInv, RowInv, Row, GenRow
    <3> QED
      BY <3>1, Parts DEF Fz
  <2>4. PICK h \in BOOLEAN : h = had
    OBVIOUS
  <2>5. PICK f \in SUBSET Commits : f = fz.seen
    BY Parts DEF Fz
  <2>6. f \ v \subseteq Own(g)
    <3>1. CASE had
      <4>1. gen[g].final # None /\ f = gen[g].final /\ v = gen[g].review
        BY <1>3, <2>1, <2>3, <2>5, <3>1 DEF Row
      <4> QED
        BY <4>1 DEF IInv, RowInv
    <3>2. CASE ~had
      BY <1>1, <2>1, <2>3, <2>5, <3>2 DEF IInv, FzInv, Aimed, Seen
    <3> QED
      BY <3>1, <3>2
  <2> DEFINE row == [gen[g] EXCEPT !.final = f, !.review = v]
             marks == (SUBSET Commits) \cup {None}
  <2>7. gen' = [gen EXCEPT ![g] = row] /\ fz' = [fz EXCEPT !.pc = "commit", !.had = h, !.review = v]
    BY <2>2, <2>3, <2>4, <2>5, Parts
  <2>8. /\ gen[g] \in GenRow /\ v \in marks /\ f \in marks /\ f # None /\ v # None
        /\ GenRow = [state : States, root : BOOLEAN, base : SUBSET Commits, target : Branches,
                     owner : Nat, done : Nat, review : marks, final : marks]
    BY Parts, Constants DEF GenRow, States
  <2> HIDE DEF had, review, marks
  <2>9. /\ row \in GenRow /\ row.state = gen[g].state /\ row.root = gen[g].root
        /\ row.base = gen[g].base /\ row.target = gen[g].target /\ row.owner = gen[g].owner
        /\ row.done = gen[g].done /\ row.review = v /\ row.final = f
    BY <2>8
  <2> HIDE DEF row
  <2>10. gen' \in [Gens -> GenRow] /\ gen'[g] = row /\ \A k \in Gens \ {g} : gen'[k] = gen[k]
    BY <2>7, <2>9, Parts
  <2>11. /\ fz' \in Fz /\ fz'.pc = "commit" /\ fz'.by = fz.by /\ fz'.gen = g /\ fz'.seen = f
         /\ fz'.head = fz.head
    BY <2>1, <2>5, <2>7, Parts DEF Fz
  <2>12. gen[g].state \in {"finalizing", "finalize_blocked"}
    BY <1>1, <2>1 DEF IInv, FzInv, Row, Seen
  <2>13. RowInv(g)'
    BY <1>1, <2>6, <2>8, <2>9, <2>10, <2>12, MergedStays DEF IInv, RowInv
  <2>14. Row = gen[g] /\ Row' = row
    BY <2>1, <2>10, <2>11 DEF Row
  <2>15. FzInv'
    BY <1>1, <2>1, <2>2, <2>5, <2>9, <2>11, <2>12, <2>14, MergedStays
       DEF IInv, FzInv, Seen, Aimed, Noted
  <2>16. NothingLost' /\ Grown
    BY <1>1, Parts DEF IInv, NothingLost, Grown
  <2> QED
    BY <1>1, <2>1, <2>2, <2>9, <2>10, <2>11, <2>12, <2>13, <2>14, <2>15, <2>16, Parts, FzGoes
<1> QED
  BY <1>2, <1>3

\* The point of no return for a cancel.
LEMMA FzCommitKeeps ==
  ASSUME IInv, FzCommit,
         UNCHANGED <<policy, author, req, cancel, calls, complete, execs, stopped, removed,
                     stuck, turns, troubles>>
  PROVE  IInv'
<1>1. fz.pc = "commit" /\ UNCHANGED <<task, tree, src>>
  BY DEF FzCommit, FzAt
<1>2. CASE mem.canceled
  BY <1>1, <1>2, FzBlocksKeeps DEF FzCommit, Blocked
<1>3. CASE ~mem.canceled
  <2>1. PICK g \in Gens : g = fz.gen
    BY <1>1, Finalizer
  <2> DEFINE c  == IF mem.committing = None THEN fz.by ELSE mem.committing
             pc == IF fz.had /\ Row.final \subseteq fz.head THEN "record" ELSE "check"
  <2>2. /\ mem' = [mem EXCEPT !.committing = c] /\ fz' = [fz EXCEPT !.pc = pc]
        /\ UNCHANGED <<gen, lock, run, mode>>
    BY <1>3 DEF FzCommit, FzGoto
  <2>3. c \in {"run", "rec", None} /\ pc \in {"record", "check"}
        /\ (pc = "record" => Row.final \subseteq fz.head)
    BY Parts DEF Memory, Fz
  <2> HIDE DEF c, pc
  <2>4. /\ mem' \in Memory /\ mem'.active = mem.active /\ mem'.handle = mem.handle
        /\ mem'.queued = mem.queued
    BY <2>2, <2>3, Parts DEF Memory
  <2>5. /\ fz' \in Fz /\ fz'.pc = pc /\ fz'.by = fz.by /\ fz'.gen = g /\ fz'.seen = fz.seen
        /\ fz'.head = fz.head
    BY <2>1, <2>2, <2>3, Parts DEF Fz
  <2>6. Row' = Row /\ Row.state # "integrated"
    BY <1>1, <2>1, <2>2, <2>5, Finalizer DEF Row
  <2>7. pc = "record" => Merged(Row.final)
    BY <1>1, <2>3 DEF IInv, FzInv, Aimed, Seen, Merged
  <2>8. FzInv'
    BY <1>1, <2>1, <2>2, <2>3, <2>5, <2>6, <2>7, MergedStays DEF IInv, FzInv, Seen, Aimed, Noted
  <2>9. NothingLost' /\ (\A h \in Gens : RowInv(h))'
    BY <1>1, <2>2, RepoFrame
  <2>10. Grown
    BY <1>1, Parts DEF Grown
  <2> QED
    BY <1>1, <2>1, <2>2, <2>3, <2>4, <2>5, <2>6, <2>8, <2>9, <2>10, Parts, FzGoes
<1> QED
  BY <1>2, <1>3

\* What FastForward checks before it merges.
LEMMA FzCheckKeeps ==
  ASSUME IInv, FzCheck,
         UNCHANGED <<policy, author, req, cancel, calls, complete, execs, stopped, removed,
                     stuck, turns, troubles>>
  PROVE  IInv'
<1>1. fz.pc = "check" /\ UNCHANGED <<task, tree, src>>
  BY DEF FzCheck, FzAt
<1>2. CASE FzBlocks("finalize_blocked", "failed") \/ FzBlocks("merge_blocked", "failed")
  BY <1>1, <1>2, FzBlocksKeeps DEF Blocked
<1>3. CASE FzGoto("merge") /\ FzStays
  <2>1. fz' = [fz EXCEPT !.pc = "merge"] /\ UNCHANGED <<gen, lock, run, mem, mode>>
    BY <1>3 DEF FzGoto, FzStays
  <2>2. /\ fz' \in Fz /\ fz'.pc = "merge" /\ fz'.by = fz.by /\ fz'.gen = fz.gen
        /\ fz'.seen = fz.seen /\ fz'.head = fz.head
    BY <2>1, Parts DEF Fz
  <2>3. Row' = Row
    BY <2>1, <2>2 DEF Row
  <2>4. fz.gen \in Gens
    BY <1>1, Finalizer
  <2>5. FzInv'
    BY <1>1, <2>1, <2>2, <2>3, <2>4, MergedStays DEF IInv, FzInv, Seen, Aimed, Noted
  <2> QED
    BY <1>1, <2>1, <2>2, <2>5, FzThinks
<1> QED
  BY <1>2, <1>3 DEF FzCheck

\* The merge.
LEMMA FzMergeKeeps ==
  ASSUME IInv, FzMerge,
         UNCHANGED <<policy, author, req, cancel, calls, complete, execs, stopped, removed,
                     stuck, turns, troubles>>
  PROVE  IInv'
<1>1. fz.pc = "merge" /\ UNCHANGED <<task, tree>>
  BY DEF FzMerge, FzAt
<1>2. CASE UNCHANGED src /\ FzBlocks("finalize_blocked", "failed")
  BY <1>1, <1>2, FzBlocksKeeps DEF Blocked
<1>3. CASE /\ FzGoto("record") /\ FzStays
           /\ \/ SourceHead \subseteq Row.final /\ src' = [src EXCEPT !.heads[src.on] = Row.final]
              \/ Row.final \subseteq SourceHead /\ UNCHANGED src
  <2>1. PICK g \in Gens : g = fz.gen
    BY <1>1, Finalizer
  <2>2. fz' = [fz EXCEPT !.pc = "record"] /\ UNCHANGED <<gen, lock, run, mem, mode>>
    BY <1>3 DEF FzGoto, FzStays
  <2>3. /\ fz' \in Fz /\ fz'.pc = "record" /\ fz'.by = fz.by /\ fz'.gen = g
        /\ fz'.seen = fz.seen /\ fz'.head = fz.head
    BY <2>1, <2>2, Parts DEF Fz
  <2>4. Row' = Row /\ Row = gen[g] /\ Row.final = fz.seen /\ Row.state # "integrated"
    BY <1>1, <2>1, <2>2, <2>3, Finalizer DEF Row, IInv, FzInv, Noted, Aimed, Seen
  <2>5. PICK f \in SUBSET Commits : f = Row.final
    BY <2>4, Parts DEF Fz
  <2>6. PICK b \in Branches : b = src.on
    BY Parts DEF Source
  <2>7. Grown /\ \E c \in Branches : f \subseteq src'.heads[c]
    <3>1. CASE SourceHead \subseteq Row.final /\ src' = [src EXCEPT !.heads[src.on] = Row.final]
      <4>1. src' = [src EXCEPT !.heads[b] = f] /\ src.heads[b] \subseteq f
        BY <2>5, <2>6, <3>1 DEF SourceHead
      <4>2. Grown /\ src'.heads[b] = f
        BY <4>1, Advance DEF Grown
      <4> QED
        BY <4>2
    <3>2. CASE Row.final \subseteq SourceHead /\ UNCHANGED src
      BY <2>5, <2>6, <3>2, Parts DEF Grown, SourceHead
    <3> QED
      BY <1>3, <3>1, <3>2
  <2>8. \A S : Merged(S) => Merged(S)'
    BY <2>7 DEF Merged, Grown
  <2>9. Merged(f)'
    BY <2>7 DEF Merged
  <2>10. /\ Own(g)' = Own(g) /\ gen[g].target \in Branches
         /\ src.heads[gen[g].target] \subseteq src'.heads[gen[g].target]
    BY <2>1, <2>7, Parts DEF Own, GenRow, Grown
  <2>11. FzInv'
    BY <1>1, <2>1, <2>2, <2>3, <2>4, <2>5, <2>8, <2>9, <2>10 DEF IInv, FzInv, Seen, Aimed, Noted
  <2>12. RowInv(g)'
    BY <1>1, <2>2, <2>7, <2>10, RowMoves DEF Moved
  <2>13. NothingLost'
    BY <1>1, <2>7, LostFrame, Parts
  <2> QED
    BY <1>1, <2>1, <2>2, <2>3, <2>4, <2>7, <2>11, <2>12, <2>13, Parts, FzGoes
<1> QED
  BY <1>2, <1>3 DEF FzMerge

\* The integration is recorded.
LEMMA FzRecordKeeps ==
  ASSUME IInv, FzRecord,
         UNCHANGED <<policy, author, req, cancel, calls, complete, execs, stopped, removed,
                     stuck, turns, troubles>>
  PROVE  IInv'
<1>1. /\ fz.pc = "record" /\ gen' = [gen EXCEPT ![fz.gen].state = "integrated"]
      /\ fz' = [fz EXCEPT !.pc = "release"] /\ UNCHANGED <<task, tree, src, lock, run, mem,
                                                           mode>>
  BY DEF FzRecord, FzAt, FzGoto
<1>2. PICK g \in Gens : g = fz.gen
  BY <1>1, Finalizer
<1> DEFINE row == [gen[g] EXCEPT !.state = "integrated"]
<1>3. gen' = [gen EXCEPT ![g] = row] /\ gen[g] \in GenRow /\ Row = gen[g] /\ gen[g].root
  BY <1>1, <1>2, Finalizer, Parts DEF Row
<1>4. /\ row \in GenRow /\ row.state = "integrated" /\ row.root = gen[g].root
      /\ row.base = gen[g].base /\ row.target = gen[g].target /\ row.owner = gen[g].owner
      /\ row.done = gen[g].done /\ row.review = gen[g].review /\ row.final = gen[g].final
  <2>1. "integrated" \in States
    BY DEF States, Open
  <2> QED
    BY <1>3, <2>1, StateSet
<1> HIDE DEF row
<1>5. gen' \in [Gens -> GenRow] /\ gen'[g] = row /\ \A h \in Gens \ {g} : gen'[h] = gen[h]
  BY <1>3, <1>4, Parts
<1>6. /\ fz' \in Fz /\ fz'.pc = "release" /\ fz'.by = fz.by /\ fz'.gen = g
      /\ fz'.seen = fz.seen /\ fz'.head = fz.head
  BY <1>1, <1>2, Parts DEF Fz
<1>7. Row' = row
  BY <1>2, <1>5, <1>6 DEF Row
<1>8. /\ Merged(gen[g].final) /\ gen[g].final = fz.seen /\ gen[g].final # None
      /\ tree[g].there => tree[g].head = gen[g].final /\ ~tree[g].dirty
      /\ gen[g].state \in {"finalizing", "finalize_blocked"}
  <2>1. fz.seen # None
    BY Parts, Constants DEF Fz
  <2> QED
    BY <1>1, <1>2, <1>3, <2>1 DEF IInv, FzInv, Row, Seen, Aimed, Noted
<1>9. RowInv(g)'
  BY <1>1, <1>3, <1>4, <1>5, <1>8, MergedStays DEF IInv, RowInv
<1>10. FzInv'
  BY <1>1, <1>2, <1>3, <1>4, <1>6, <1>7, <1>8, MergedStays DEF IInv, FzInv, Seen, Aimed, Noted
<1>11. NothingLost' /\ Grown
  BY <1>1, Parts DEF IInv, NothingLost, Grown
<1> QED
  BY <1>1, <1>2, <1>3, <1>4, <1>5, <1>6, <1>7, <1>9, <1>10, <1>11, Parts, FzGoes

\* Manager.Release: what is removed is merged.
LEMMA FzReleaseKeeps ==
  ASSUME IInv, FzRelease,
         UNCHANGED <<policy, author, req, cancel, calls, complete, execs, stopped, removed,
                     stuck, turns, troubles>>
  PROVE  IInv'
<1>1. /\ fz.pc = "release" /\ tree' = [tree EXCEPT ![fz.gen] = NoTree]
      /\ fz' = [fz EXCEPT !.pc = "released"] /\ UNCHANGED <<task, src, gen, lock, run, mem,
                                                            mode>>
  BY DEF FzRelease, FzAt, FzGoto, FzStays
<1>2. PICK g \in Gens : g = fz.gen
  BY <1>1, Finalizer
<1>3. tree' \in [Gens -> Tree] /\ ~tree'[g].there /\ \A h \in Gens \ {g} : tree'[h] = tree[h]
  BY <1>1, <1>2, Nothings, Parts DEF NoTree
<1>4. gen[g].state = "integrated" /\ (tree[g].there => Merged(tree[g].head))
  BY <1>1, <1>2 DEF IInv, FzInv, RowInv, Row
<1>5. /\ fz' \in Fz /\ fz'.pc = "released" /\ fz'.by = fz.by /\ fz'.gen = g
      /\ fz'.seen = fz.seen /\ fz'.head = fz.head
  BY <1>1, <1>2, Parts DEF Fz
<1>6. Row' = Row /\ Row = gen[g]
  BY <1>1, <1>2, <1>5 DEF Row
<1>7. Grown
  BY <1>1, Parts DEF Grown
<1>8. Own(g)' = Own(g)
  BY <1>1 DEF Own
<1>9. RowInv(g)'
  BY <1>1, <1>3, <1>7, <1>8, RowMoves DEF Moved
<1>10. NothingLost'
  BY <1>1, <1>3, <1>4, <1>7, LostFrame
<1>11. FzInv'
  BY <1>1, <1>2, <1>3, <1>5, <1>6, MergedStays DEF IInv, FzInv, Seen, Aimed, Noted
<1> QED
  BY <1>1, <1>2, <1>3, <1>5, <1>6, <1>7, <1>9, <1>10, <1>11, Parts, FzGoes

\* The generation is released, and the task has none.
LEMMA FzReleasedKeeps ==
  ASSUME IInv, FzReleased,
         UNCHANGED <<policy, author, req, cancel, calls, complete, execs, stopped, removed,
                     stuck, turns, troubles>>
  PROVE  IInv'
<1> DEFINE s == IF fz.by = "rec" THEN "succeeded" ELSE task.status
<1>1. /\ fz.pc = "released" /\ gen' = [gen EXCEPT ![fz.gen].state = "released"]
      /\ task' = [task EXCEPT !.current = 0, !.status = s]
      /\ FzEnds("ok") /\ UNCHANGED <<tree, src>>
  BY DEF FzReleased, FzAt
<1>2. fz.gen # 0 /\ task.current = fz.gen /\ Row.root /\ Row.state = "integrated"
  BY <1>1, Finalizer DEF IInv, FzInv
<1>3. s \in {"queued", "running"} \cup Terminal
      /\ (s = task.status \/ (fz.by = "rec" /\ s \in Terminal))
  BY Parts DEF TaskRow, Terminal
<1> HIDE DEF s
<1>4. task' \in TaskRow /\ task'.current = 0 /\ task'.status = s
  BY <1>1, <1>3, Parts, Constants DEF TaskRow
<1>5. /\ gen' \in [Gens -> GenRow] /\ gen'[fz.gen].state = "released"
      /\ \A g \in Gens \ {fz.gen} : gen'[g] = gen[g]
      /\ \A g \in Gens : Moved(g) /\ gen'[g].owner <= execs /\ gen'[g].done <= execs
  BY <1>1, <1>2, CurrentSet DEF Row
<1>6. OpenInv'
  BY <1>1, <1>2, <1>4, <1>5, OpenCloses
<1>7. PICK g \in Gens : g = fz.gen
  BY <1>1, Finalizer
<1>8. gen'[g].owner = gen[g].owner /\ gen[g].state = "integrated"
  <2>1. gen[g] \in GenRow
    BY Parts
  <2>2. gen'[g] = [gen[g] EXCEPT !.state = "released"]
    BY <1>1, <1>7, Parts
  <2> QED
    BY <1>2, <1>7, <2>1, <2>2 DEF GenRow, Row
<1>9. \A h \in Gens : /\ gen'[h].owner = gen[h].owner
                      /\ gen[h].state = "provisioning" => gen'[h].state = "provisioning"
  BY <1>5, <1>7, <1>8
<1> QED
  BY <1>1, <1>3, <1>4, <1>5, <1>6, <1>9, FzEnded

\* A command fails, of which one may have merged.
LEMMA FzCommandFailsKeeps ==
  ASSUME IInv, FzCommandFails, Trouble,
         UNCHANGED <<policy, author, req, cancel, calls, complete, execs, stopped, removed,
                     turns>>
  PROVE  IInv'
<1>1. /\ fz.pc \in {"inspect", "target", "check", "merge", "commit"}
      /\ FzBlocks("finalize_blocked", "failed") /\ UNCHANGED <<task, tree, stuck>>
      /\ \/ src' = src
         \/ /\ fz.pc = "merge" /\ SourceHead \subseteq Row.final
            /\ src' = [src EXCEPT !.heads[src.on] = Row.final]
  BY DEF FzCommandFails, FzAt
<1>2. UNCHANGED src \/ Grown
  <2>1. CASE /\ fz.pc = "merge" /\ SourceHead \subseteq Row.final
             /\ src' = [src EXCEPT !.heads[src.on] = Row.final]
    <3>1. Row.final = fz.seen
      BY <2>1 DEF IInv, FzInv, Noted, Aimed, Seen
    <3>2. PICK f \in SUBSET Commits : f = Row.final
      BY <3>1, Parts DEF Fz
    <3>3. PICK b \in Branches : b = src.on
      BY Parts DEF Source
    <3>4. src' = [src EXCEPT !.heads[b] = f] /\ src.heads[b] \subseteq f
      BY <2>1, <3>2, <3>3 DEF SourceHead
    <3> QED
      BY <3>4, Advance DEF Grown
  <2> QED
    BY <1>1, <2>1
<1>3. troubles' \in 0..MaxTroubles /\ stuck' \subseteq Gens
  BY <1>1, Troubled DEF IInv, TaskTypes
<1> QED
  BY <1>1, <1>2, <1>3, FzBlocksKeeps DEF Blocked

\* A statement fails, and the generation is left as it is.
LEMMA FzStatementFailsKeeps ==
  ASSUME IInv, FzStatementFails, Trouble,
         UNCHANGED <<policy, author, req, cancel, calls, complete, execs, stopped, removed,
                     turns>>
  PROVE  IInv'
<1>1. PICK outcome \in {"ok", "failed", "canceled"} : FzEnds(outcome)
  BY DEF FzStatementFails
<1>2. fz.pc # "idle" /\ UNCHANGED <<task, gen, tree, src>> /\ stuck' = Left(fz.gen)
  BY DEF FzStatementFails
<1>3. troubles' \in 0..MaxTroubles /\ stuck' \subseteq Gens
  BY <1>2, Troubled, Leaves, Finalizer
<1>4. OpenInv'
  BY <1>2 DEF IInv, OpenInv
<1> QED
  BY <1>1, <1>2, <1>3, <1>4, Unmoved, Parts, FzEnded

\* A step of a finalization.
LEMMA FinalizationKeeps ==
  ASSUME IInv, Finalization
  PROVE  IInv'
<1>1. UNCHANGED <<policy, author, req, cancel, calls, complete, execs, stopped, removed, turns>>
  BY DEF Finalization
<1>2. CASE FzStep /\ UNCHANGED <<stuck, troubles>>
  BY <1>1, <1>2, FzLockKeeps, FzInspectKeeps, FzTargetKeeps, FzSnapshotKeeps, FzCommitKeeps,
     FzCheckKeeps, FzMergeKeeps, FzRecordKeeps, FzReleaseKeeps, FzReleasedKeeps DEF FzStep
<1> QED
  BY <1>1, <1>2, FzCommandFailsKeeps, FzStatementFailsKeeps DEF Finalization

-----------------------------------------------------------------------------
(* The invariant, and what follows from it *)

\* A new task has no generation, or an active one.
LEMMA InitIInv ==
  ASSUME Init
  PROVE  IInv
<1> DEFINE eager == policy = "worktree"
           first == [NoRow EXCEPT !.state = "active", !.root = TRUE, !.base = {0}]
           wt    == [NoTree EXCEPT !.there = TRUE, !.head = {0}]
<1>1. /\ policy \in {"auto", "worktree"}
      /\ task = [status |-> "queued", current |-> IF eager THEN 1 ELSE 0, started |-> FALSE]
      /\ gen = [g \in Gens |-> IF eager /\ g = 1 THEN first ELSE NoRow]
      /\ tree = [g \in Gens |-> IF eager /\ g = 1 THEN wt ELSE NoTree]
      /\ src = [heads |-> [b \in Branches |-> IF b = "main" THEN {0} ELSE {}],
                on |-> "main", dirty |-> FALSE]
      /\ author = <<>> /\ mem = [Forgotten EXCEPT !.queued = TRUE]
      /\ lock = [k \in 0..MaxGens |-> None]
      /\ run = NoRun /\ req = [p \in Callers |-> Idle] /\ fz = NoFz /\ cancel = Idle
      /\ calls = {} /\ complete = NoCall /\ mode = "up" /\ execs = 0
      /\ stopped = {} /\ removed = {} /\ stuck = {} /\ turns = 1 /\ troubles = 0
  BY DEF Init
<1>2. PICK e \in BOOLEAN : e = eager
  OBVIOUS
<1>3. 0 \in Commits /\ {0} \in SUBSET Commits
  BY Constants DEF Commits
<1>4. /\ first \in GenRow /\ first.state = "active" /\ first.root /\ first.base = {0}
      /\ first.target = "main" /\ first.owner = 0 /\ first.done = 0 /\ first.final = None
  <2> DEFINE marks == (SUBSET Commits) \cup {None}
  <2>1. GenRow = [state : States, root : BOOLEAN, base : SUBSET Commits, target : Branches,
                  owner : Nat, done : Nat, review : marks, final : marks]
    BY DEF GenRow, States
  <2>2. "active" \in States
    BY DEF States, Open
  <2> HIDE DEF marks
  <2>3. first \in GenRow
    BY <1>3, <2>1, <2>2, Nothings
  <2> QED
    BY <2>3 DEF NoRow
<1>5. wt \in Tree /\ wt.there /\ wt.head = {0}
  BY <1>3, Nothings DEF Tree, NoTree
<1>6. NoRow \in GenRow /\ NoRow.state = "none" /\ ~NoRow.root /\ NoRow.base = {} /\ NoRow.target = "main"
      /\ NoRow.owner = 0 /\ NoRow.done = 0 /\ NoRow.final = None
      /\ NoTree \in Tree /\ ~NoTree.there
  BY Nothings DEF NoRow, NoTree
<1> HIDE DEF first, wt, eager
<1>7. src \in Source /\ src.heads["main"] = {0}
  BY <1>1, <1>3 DEF Source, Branches
<1>8. \A g \in Gens : /\ gen[g] = IF e /\ g = 1 THEN first ELSE NoRow
                      /\ tree[g] = IF e /\ g = 1 THEN wt ELSE NoTree
  BY <1>1, <1>2
<1>9. RepoTypes
  BY <1>1, <1>4, <1>5, <1>6, <1>7, Constants DEF RepoTypes
<1>10. TaskTypes
  <2>1. task \in TaskRow
    BY <1>1, Constants DEF TaskRow
  <2>2. mem \in Memory /\ mem.active = 0
    BY <1>1, Nothings DEF Memory, Forgotten
  <2>3. \A g \in Gens : gen[g].owner = 0 /\ gen[g].done = 0
    BY <1>4, <1>6, <1>8
  <2>4. 1 \in 1..MaxTurns /\ 0 \in 0..MaxTroubles
    BY Constants, WorkspacesAssumption DEF WorkspacesAssumption
  <2> QED
    BY <1>1, <2>1, <2>2, <2>3, <2>4 DEF TaskTypes
<1>11. ProcTypes
  BY <1>1, Nothings DEF ProcTypes, NoRun, NoCall, Modes
<1>12. OpenInv
  <2>1. task.current = IF e THEN 1 ELSE 0
    BY <1>1, <1>2
  <2>2. \A g \in Gens : gen[g].state \in Open <=> e /\ g = 1
    BY <1>4, <1>6, <1>8 DEF Open, Blocked
  <2>3. \A g \in Gens : gen[g].state # "none" <=> g <= (IF e THEN 1 ELSE 0)
    BY <1>4, <1>6, <1>8, Constants DEF Gens
  <2>4. (IF e THEN 1 ELSE 0) \in 0..MaxGens
    BY Constants
  <2>5. policy = "worktree" => gen[1].state \notin {"none", "provisioning"}
    BY <1>2, <1>4, <1>8, Constants DEF eager
  <2>6. \A g \in Gens : gen[g].state \in Open <=> task.current = g
    BY <2>1, <2>2, Constants
  <2> QED
    BY <2>3, <2>4, <2>5, <2>6 DEF OpenInv
<1>13. ASSUME NEW g \in Gens
       PROVE  RowInv(g)
  <2>1. Own(g) = {}
    BY <1>1 DEF Own
  <2> QED
    BY <1>4, <1>5, <1>6, <1>7, <1>8, <2>1 DEF RowInv
<1>14. NothingLost
  BY <1>1 DEF NothingLost
<1>15. ModeInv
  BY <1>1 DEF ModeInv, NoRun, NoFz, Callers
<1>16. RunInv
  BY <1>1 DEF RunInv, NoRun, Early, Late, Owns, Forgotten, Callers
<1>17. LockInv
  BY <1>1 DEF LockInv, rq, Idle, Callers
<1>18. FzInv
  BY <1>1 DEF FzInv, NoFz, Seen, Aimed, Noted
<1>19. CallInv
  BY <1>1 DEF CallInv
<1> QED
  BY <1>9, <1>10, <1>11, <1>12, <1>13, <1>14, <1>15, <1>16, <1>17, <1>18, <1>19 DEF IInv

\* A step that changes nothing.
LEMMA StutterKeeps ==
  ASSUME IInv, UNCHANGED vars
  PROVE  IInv'
<1>1. UNCHANGED <<policy, task, gen, tree, src, author, mem, lock, run, req, fz, cancel,
                  calls, complete, mode, execs, stopped, removed, stuck, turns, troubles>>
  BY DEF vars
<1>2. RepoTypes' /\ TaskTypes' /\ ProcTypes' /\ OpenInv' /\ NothingLost'
  BY <1>1 DEF IInv, RepoTypes, TaskTypes, ProcTypes, OpenInv, NothingLost
<1>3. (\A g \in Gens : RowInv(g))'
  BY <1>1, RepoFrame
<1>4. ModeInv' /\ RunInv' /\ LockInv' /\ CallInv'
  BY <1>1 DEF IInv, ModeInv, RunInv, LockInv, CallInv, Owns, Current, rq
<1>5. FzInv'
  BY <1>1, FzFrame
<1> QED
  BY <1>2, <1>3, <1>4, <1>5 DEF IInv

\* Every step keeps the invariant.
LEMMA NextKeeps ==
  ASSUME IInv, [Next]_vars
  PROVE  IInv'
BY RequestKeeps, TurnKeeps, AgentKeeps, FinalizationKeeps, FollowUpKeeps, CancelAskKeeps,
   CancelLookKeeps, CancelWorkspaceKeeps, CancelFailsKeeps, CancelEndKeeps, CompleteReadsKeeps,
   CompleteWritesKeeps, UserKeeps, CrashKeeps, RecoverKeeps, StutterKeeps DEF Next, Cancel

\* The invariant all of it follows from.
THEOREM WorkspacesInductive == Spec => []IInv
<1>1. Init => IInv
  BY InitIInv
<1>2. IInv /\ [Next]_vars => IInv'
  BY NextKeeps
<1> QED
  BY <1>1, <1>2, PTL DEF Spec

\* Every field has its type, one generation at most is open, and it is the current
\* one; an agent that lives is that of the active execution.
THEOREM WorkspacesTypes == Spec => []TypeOK
<1>1. IInv => TypeOK
  <2> SUFFICES ASSUME IInv
               PROVE  TypeOK
    OBVIOUS
  <2>1. \A g \in Gens :
          /\ gen[g].state \in Open \cup {"none", "released", "orphaned"}
          /\ gen[g].base \subseteq Commits /\ gen[g].target \in Branches
          /\ gen[g].owner \in 0..execs /\ gen[g].done \in 0..execs
          /\ gen[g].final = None \/ gen[g].final \subseteq Commits
          /\ gen[g].state \in Open <=> task.current = g
    <3> SUFFICES ASSUME NEW g \in Gens
                 PROVE  /\ gen[g].state \in Open \cup {"none", "released", "orphaned"}
                        /\ gen[g].base \subseteq Commits /\ gen[g].target \in Branches
                        /\ gen[g].owner \in 0..execs /\ gen[g].done \in 0..execs
                        /\ gen[g].final = None \/ gen[g].final \subseteq Commits
                        /\ gen[g].state \in Open <=> task.current = g
      OBVIOUS
    <3>1. gen[g] \in GenRow /\ execs \in Nat /\ gen[g].owner <= execs /\ gen[g].done <= execs
      BY DEF IInv, RepoTypes, TaskTypes
    <3>2. gen[g].state \in Open <=> task.current = g
      BY DEF IInv, OpenInv
    <3>3. gen[g].owner \in 0..execs /\ gen[g].done \in 0..execs
      BY <3>1 DEF GenRow
    <3>4. gen[g].state \in States /\ gen[g].base \in SUBSET Commits /\ gen[g].target \in Branches
          /\ gen[g].final \in (SUBSET Commits) \cup {None}
      BY <3>1 DEF GenRow, States
    <3> QED
      BY <3>2, <3>3, <3>4 DEF States
  <2>2. /\ policy \in {"auto", "worktree"} /\ task \in TaskRow
        /\ tree \in [Gens -> Tree] /\ src \in Source
        /\ author \in Seq(0..MaxGens) /\ Len(author) <= MaxCommits
    BY DEF IInv, RepoTypes, TaskTypes
  <2>3. mem \in [queued : BOOLEAN, active : 0..execs, handle : BOOLEAN, canceled : BOOLEAN,
                 committing : {"run", "rec", None}]
    <3>1. mem \in Memory /\ mem.active \in 0..execs
      BY DEF IInv, TaskTypes, Memory
    <3> QED
      BY <3>1 DEF Memory
  <2>4. run \in [pc : {"idle", "request", "claim", "begin", "resolve", "live", "finalize",
                       "finalizing", "after"},
                 exec : 0..execs, where : 0..MaxGens, wasCanceled : BOOLEAN,
                 outcome : {"none", "ok", "failed", "canceled"}]
    <3>1. run \in Run /\ run.exec \in 0..execs
      BY DEF IInv, TaskTypes, ProcTypes, Run
    <3> QED
      BY <3>1 DEF Run
  <2>5. run.pc = "live" => mem.handle /\ mem.active = run.exec
    BY DEF IInv, RunInv, Owns
  <2>6. /\ req \in [Callers -> Req] /\ fz \in Fz /\ cancel \in Cancels
        /\ lock \in [0..MaxGens -> {"run", "agent", "fz", "cancel", "complete", None}]
        /\ calls \subseteq 1..execs /\ mode \in Modes
        /\ stopped \subseteq 1..execs /\ removed \subseteq Gens /\ stuck \subseteq Gens
        /\ turns \in 1..MaxTurns /\ troubles \in 0..MaxTroubles
    BY DEF IInv, RepoTypes, TaskTypes, ProcTypes
  <2>7. /\ fz.pc \in {"idle", "lock", "inspect", "target", "snapshot", "commit", "check", "merge",
                      "record", "release", "released"}
        /\ fz.by \in {"run", "rec"} /\ fz.gen \in 0..MaxGens
    BY <2>6 DEF Fz
  <2>8. complete \in [exec : 0..execs, gen : 0..MaxGens, from : {"none", "active"} \cup Blocked]
    <3>1. complete \in Calls /\ complete.exec \in 0..execs
      BY DEF IInv, TaskTypes, ProcTypes, Calls
    <3> QED
      BY <3>1 DEF Calls
  <2> QED
    BY <2>1, <2>2, <2>3, <2>4, <2>5, <2>6, <2>7, <2>8 DEF TypeOK, TaskRow, Tree, Source, Req, Cancels, Modes
<1> QED
  BY <1>1, WorkspacesInductive, PTL

\* No commit an agent has made is lost, unless the user removes the worktree: not by
\* a failure, a cancel, a restart in the middle of a merge, nor by what the user
\* commits, merges and checks out meanwhile.
THEOREM NothingIsLost == Spec => []NothingLost
<1>1. IInv => NothingLost
  BY DEF IInv
<1> QED
  BY <1>1, WorkspacesInductive, PTL

\* The diff an integrated generation is reviewed by is the work of its own agent,
\* wherever the target branch was when it was merged.
THEOREM ReviewsAreOwnWork == Spec => []ReviewIsOwnWork
<1>1. IInv => ReviewIsOwnWork
  <2> SUFFICES ASSUME IInv, NEW g \in Gens, gen[g].state \in {"integrated", "released"},
                      NEW k \in gen[g].final \ gen[g].review
               PROVE  k # 0 /\ author[k] = g
    BY DEF ReviewIsOwnWork
  <2>1. k \in Own(g)
    BY DEF IInv, RowInv
  <2>2. author \in Seq(0..MaxGens)
    BY DEF IInv, RepoTypes
  <2> QED
    BY <2>1, <2>2 DEF Own
<1> QED
  BY <1>1, WorkspacesInductive, PTL

\* What is left of a worktree the daemon removes.
Removable(g) ==
  \/ gen[g].state = "integrated" /\ tree[g].head = gen[g].final /\ ~tree[g].dirty
  \/ gen[g].state = "provisioning" /\ tree[g].head = gen[g].base

\* The steps that remove a worktree are a failed provisioning, the release at the end
\* of a finalization and that of Recover.
LEMMA RemovalStep ==
  ASSUME IInv, [Next]_vars, NEW g \in Gens, tree[g].there, ~tree'[g].there, g \notin removed'
  PROVE  Removable(g)
<1>1. tree # tree'
  OBVIOUS
<1>2. CASE \E p \in Callers : Request(p)
  <2>1. PICK p \in Callers : Request(p)
    BY <1>2
  <2>2. CASE RqTree(p)
    <3>1. PICK h \in Gens : h = req[p].gen
      BY <2>2, Provisioning DEF RqTree
    <3>2. \/ tree' = [tree EXCEPT ![h] = IF tree[h].there THEN tree[h]
                       ELSE [there |-> TRUE, head |-> gen[h].base, dirty |-> FALSE]]
          \/ tree' = tree
      BY <2>2, <3>1 DEF RqTree
    <3> QED
      BY <1>1, <3>2, Parts
  <2>3. CASE RqReady(p)
    <3>1. PICK h \in Gens : h = req[p].gen
      BY <2>3, Provisioning DEF RqReady
    <3>2. gen[h].state = "provisioning" /\ (tree' = tree \/ tree' = [tree EXCEPT ![h] = NoTree])
      BY <2>3, <3>1, Provisioning DEF RqReady
    <3>3. h = g
      BY <1>1, <3>2, Parts
    <3> QED
      BY <3>2, <3>3 DEF Removable, IInv, RowInv
  <2> QED
    BY <1>1, <2>1, <2>2, <2>3 DEF Request, RqLook, RqInsert, RqLock, RqFails
<1>3. CASE Turn \/ FollowUp \/ CancelAsk \/ Cancel
  BY <1>1, <1>3 DEF Turn, Pop, Requested, Claim, ClaimFails, Begin, Resolve, ResolveFails, Exit,
     Finalize, FinalizeFails, After, FollowUp, CancelAsk, Cancel, CancelLook, CancelWorkspace,
     CancelFails, CancelEnd
<1>10. CASE (\E x \in 1..execs : CompleteReads(x)) \/ CompleteWrites
  BY <1>1, <1>10 DEF CompleteReads, CompleteWrites
<1>4. CASE Agent
  <2>1. CASE AgentCommits
    <3>1. PICK dirty \in BOOLEAN :
            tree' = [tree EXCEPT ![run.where].head = @ \cup {Fresh}, ![run.where].dirty = dirty]
      BY <2>1 DEF AgentCommits
    <3> QED
      BY <3>1, Parts DEF Tree
  <2>2. CASE AgentMerges
    <3>1. PICK S : tree' = [tree EXCEPT ![run.where].head = S]
      BY <2>2 DEF AgentMerges
    <3> QED
      BY <3>1, Parts DEF Tree
  <2> QED
    BY <1>1, <1>4, <2>1, <2>2 DEF Agent, AgentRequests, AgentCompletes
<1>5. CASE Finalization
  <2>1. FzRelease
    BY <1>1, <1>5 DEF Finalization, FzStep, FzLock, FzInspect, FzTarget, FzSnapshot, FzCommit, FzCheck,
       FzMerge, FzRecord, FzReleased, FzCommandFails, FzStatementFails
  <2>2. fz.pc = "release" /\ tree' = [tree EXCEPT ![fz.gen] = NoTree]
    BY <2>1 DEF FzRelease, FzAt
  <2>3. fz.gen = g
    BY <2>2, Parts
  <2>4. gen[g].state = "integrated"
    BY <2>2, <2>3 DEF IInv, FzInv, Row
  <2> QED
    BY <2>4 DEF IInv, RowInv, Removable
<1>6. CASE User
  <2>1. UserRemoves
    BY <1>1, <1>6 DEF User, UserCommits, UserDirties, UserSwitches, UserMerges
  <2>2. PICK h \in Gens : tree' = [tree EXCEPT ![h] = NoTree] /\ removed' = removed \cup {h}
    BY <2>1 DEF UserRemoves
  <2> QED
    BY <2>2, Parts
<1>7. CASE Crash
  BY <1>1, <1>7 DEF Crash
<1>8. CASE Recover
  <2>1. RecReleases
    BY <1>1, <1>8 DEF Recover, RecFails, RecLooks, RecProvisioned, RecReleased, RecPassesOver
  <2>2. mode = "release" /\ tree' = [tree EXCEPT ![task.current] = NoTree]
    BY <2>1 DEF RecReleases
  <2>3. task.current = g
    BY <2>2, Parts
  <2>4. gen[g].state = "integrated"
    BY <2>2, <2>3 DEF IInv, ModeInv, Current
  <2> QED
    BY <2>4 DEF IInv, RowInv, Removable
<1>9. CASE UNCHANGED vars
  BY <1>1, <1>9 DEF vars
<1> QED
  BY <1>2, <1>3, <1>4, <1>5, <1>6, <1>7, <1>8, <1>9, <1>10 DEF Next

\* A worktree is removed by the daemon only when its final snapshot and its
\* integration are on record and it has nothing beyond that snapshot, or when nobody
\* has worked in it.
THEOREM RemovalsAreSafe == Spec => RemovalIsSafe
<1>1. ASSUME IInv, [Next]_vars
      PROVE  [\A g \in Gens : tree[g].there /\ ~tree'[g].there /\ g \notin removed' =>
                \/ gen[g].state = "integrated" /\ tree[g].head = gen[g].final /\ ~tree[g].dirty
                \/ gen[g].state = "provisioning" /\ tree[g].head = gen[g].base]_vars
  BY <1>1, RemovalStep DEF Removable
<1> QED
  BY <1>1, WorkspacesInductive, PTL DEF Spec, RemovalIsSafe

\* Setting one row's state does that, and claiming it leaves the states alone.
LEMMA StateAt ==
  ASSUME IInv, NEW g \in Gens, NEW x \in 0..MaxGens, NEW s,
         \/ gen' = [gen EXCEPT ![x].state = s]
         \/ gen' = [gen EXCEPT ![x].state = s, ![x].done = 0]
  PROVE  gen'[g].state = IF x = g THEN s ELSE gen[g].state
<1>1. gen \in [Gens -> GenRow] /\ gen[g] \in GenRow
  BY Parts
<1>2. CASE x = g
  <2>1. gen'[g] = [gen[g] EXCEPT !.state = s] \/ gen'[g] = [gen[g] EXCEPT !.state = s, !.done = 0]
    BY <1>1, <1>2
  <2> QED
    BY <1>1, <1>2, <2>1 DEF GenRow
<1>3. CASE x # g
  BY <1>1, <1>3
<1> QED
  BY <1>2, <1>3

\* The step that completes a generation is the write of CompleteWorkspace, for the
\* execution that has claimed it.
LEMMA CompletionStep ==
  ASSUME IInv, [Next]_vars, NEW g \in Gens, gen[g].state # "finalizing",
         gen'[g].state = "finalizing"
  PROVE  gen'[g].done = gen[g].owner
<1>1. gen # gen' /\ task.current \in 0..MaxGens
  BY Parts
<1>2. CASE \E p \in Callers : Request(p)
  <2>1. PICK p \in Callers : Request(p)
    BY <1>2
  <2>2. CASE RqInsert(p)
    <3>1. PICK n, row : gen' = [gen EXCEPT ![n] = row] /\ row.state = "provisioning"
      <4> DEFINE row == [NoRow EXCEPT !.state = "provisioning", !.base = SourceHead,
                                      !.target = src.on, !.owner = run.exec]
      <4>1. row.state = "provisioning"
        BY DEF NoRow
      <4> QED
        BY <1>1, <2>2, <4>1 DEF RqInsert
    <3> QED
      BY <3>1, Parts
  <2>3. CASE RqReady(p)
    <3>1. PICK h \in Gens : h = req[p].gen
      BY <2>3, Provisioning DEF RqReady
    <3>2. gen' = [gen EXCEPT ![h].state = "ready", ![h].root = TRUE]
      BY <1>1, <2>3, <3>1 DEF RqReady
    <3>3. gen[h] \in GenRow /\ gen[g] \in GenRow
      BY Parts
    <3>4. CASE h = g
      BY <3>2, <3>3, <3>4, Parts DEF GenRow
    <3>5. CASE h # g
      BY <3>2, <3>5, Parts
    <3> QED
      BY <3>4, <3>5
  <2> QED
    BY <1>1, <2>1, <2>2, <2>3 DEF Request, RqLook, RqLock, RqTree, RqFails
<1>3. CASE Turn
  <2>1. CASE Claim
    <3>1. gen' = [gen EXCEPT ![task.current].owner = run.exec]
      BY <1>1, <2>1 DEF Claim
    <3>2. gen'[g] = gen[g] \/ gen'[g] = [gen[g] EXCEPT !.owner = run.exec]
      BY <3>1, Parts
    <3> QED
      BY <3>2, Parts DEF GenRow
  <2>2. CASE Resolve
    BY <1>1, <2>2, StateAt DEF Resolve
  <2> QED
    BY <1>1, <1>3, <2>1, <2>2 DEF Turn, Pop, Requested, ClaimFails, Begin, ResolveFails, Exit,
       Finalize, FinalizeFails, After
<1>4. CASE Agent \/ FollowUp \/ CancelAsk \/ User \/ Crash
  BY <1>1, <1>4 DEF Agent, AgentCommits, AgentMerges, AgentRequests, AgentCompletes, FollowUp,
     CancelAsk, User, Crash
<1>5. CASE Finalization
  <2>1. fz.gen \in 0..MaxGens
    BY Parts DEF Fz
  <2>2. CASE \E s \in Blocked, o \in {"failed", "canceled"} : FzBlocks(s, o)
    <3>1. PICK s \in Blocked : gen' = [gen EXCEPT ![fz.gen].state = s, ![fz.gen].done = 0]
      BY <2>2 DEF FzBlocks
    <3>2. gen'[g].state \in {s, gen[g].state}
      BY <2>1, <3>1, StateAt
    <3> QED
      BY <3>2 DEF Blocked
  <2>3. CASE FzSnapshot /\ ~FzBlocks("finalize_blocked", "failed")
    <3> DEFINE v == IF Row.final # None THEN Row.review ELSE fz.head
    <3>1. gen' = [gen EXCEPT ![fz.gen].final = fz.seen, ![fz.gen].review = v]
      BY <2>3 DEF FzSnapshot
    <3> HIDE DEF v
    <3>2. gen[g] \in GenRow
      BY Parts
    <3>3. CASE fz.gen = g
      BY <3>1, <3>2, <3>3, Parts DEF GenRow
    <3>4. CASE fz.gen # g
      BY <3>1, <3>4, Parts
    <3> QED
      BY <3>3, <3>4
  <2>4. CASE FzRecord \/ FzReleased
    <3>1. PICK s \in {"integrated", "released"} : gen' = [gen EXCEPT ![fz.gen].state = s]
      BY <2>4 DEF FzRecord, FzReleased
    <3>2. gen'[g].state \in {s, gen[g].state}
      BY <2>1, <3>1, StateAt
    <3> QED
      BY <3>2
  <2>5. FzLock => UNCHANGED gen
    BY DEF FzLock
  <2>6. FzInspect \/ FzTarget \/ FzCommit \/ FzCheck \/ FzMerge \/ FzRelease =>
          gen' = gen \/ \E s \in Blocked, o \in {"failed", "canceled"} : FzBlocks(s, o)
    BY DEF FzInspect, FzTarget, FzCommit, FzCheck, FzMerge, FzRelease, FzStays, Blocked
  <2>7. FzCommandFails => \E s \in Blocked, o \in {"failed", "canceled"} : FzBlocks(s, o)
    BY DEF FzCommandFails, Blocked
  <2>8. FzStatementFails => UNCHANGED gen
    BY DEF FzStatementFails
  <2> QED
    BY <1>1, <1>5, <2>2, <2>3, <2>4, <2>5, <2>6, <2>7, <2>8 DEF Finalization, FzStep, Blocked
<1>6. CASE Cancel
  <2>1. cancel.gen \in 0..MaxGens
    BY Parts DEF Cancels
  <2>2. CASE CancelWorkspace
    <3>1. \/ gen' = [gen EXCEPT ![cancel.gen].state = "orphaned"]
          \/ gen' = [gen EXCEPT ![cancel.gen].state = "finalize_blocked", ![cancel.gen].done = 0]
      BY <1>1, <2>2 DEF CancelWorkspace
    <3>2. gen'[g].state \in {"orphaned", "finalize_blocked", gen[g].state}
      BY <2>1, <3>1, StateAt
    <3> QED
      BY <3>2
  <2> QED
    BY <1>1, <1>6, <2>2 DEF Cancel, CancelLook, CancelFails, CancelEnd
<1>7. CASE (\E x \in 1..execs : CompleteReads(x)) \/ CompleteWrites
  <2>1. CompleteWrites
    BY <1>1, <1>7 DEF CompleteReads
  <2>2. /\ complete # NoCall
        /\ gen' = [gen EXCEPT ![complete.gen] =
                     [@ EXCEPT !.state = "finalizing", !.done = complete.exec,
                               !.review = None, !.final = None]]
    BY <1>1, <2>1 DEF CompleteWrites
  <2>3. complete.gen \in Gens /\ gen[complete.gen].owner = complete.exec
    BY <2>2, Written
  <2>4. complete.gen = g
    BY <2>2, <2>3, Parts
  <2>5. gen'[g] = [gen[g] EXCEPT !.state = "finalizing", !.done = complete.exec,
                                 !.review = None, !.final = None]
    BY <2>2, <2>4, Parts
  <2>6. gen[g] \in GenRow
    BY Parts
  <2>7. gen'[g].done = complete.exec
    BY <2>5, <2>6 DEF GenRow
  <2> QED
    BY <2>3, <2>4, <2>7
<1>8. CASE Recover
  <2>1. CASE RecLooks
    <3>1. \/ \E s \in {"orphaned", gen[task.current].state} :
               gen' = [gen EXCEPT ![task.current].state = s]
          \/ gen' = [gen EXCEPT ![task.current].state = "finalize_blocked", ![task.current].done = 0]
      BY <1>1, <2>1 DEF RecLooks
    <3>2. gen'[g].state \in {"orphaned", "finalize_blocked", gen[task.current].state, gen[g].state}
      BY <1>1, <3>1, StateAt
    <3>3. gen'[g].state # gen[g].state => task.current = g
      BY <1>1, <3>1, StateAt
    <3> QED
      BY <3>2, <3>3
  <2>2. CASE RecProvisioned \/ RecReleased
    <3>1. PICK s \in {"orphaned", "released"} : gen' = [gen EXCEPT ![task.current].state = s]
      BY <1>1, <2>2 DEF RecProvisioned, RecReleased
    <3>2. gen'[g].state \in {s, gen[g].state}
      BY <1>1, <3>1, StateAt
    <3> QED
      BY <3>2
  <2> QED
    BY <1>1, <1>8, <2>1, <2>2 DEF Recover, RecFails, RecReleases, RecPassesOver
<1>9. CASE UNCHANGED vars
  BY <1>1, <1>9 DEF vars
<1> QED
  BY <1>2, <1>3, <1>4, <1>5, <1>6, <1>7, <1>8, <1>9 DEF Next

\* A generation is completed only for the execution that claimed it last: a request
\* never completes a generation a later turn has claimed meanwhile, whatever happens
\* between what CompleteWorkspace reads and what it writes.
THEOREM OwnersComplete == Spec => OwnerCompletes
<1>1. ASSUME IInv, [Next]_vars
      PROVE  [\A g \in Gens : gen[g].state # "finalizing" /\ gen'[g].state = "finalizing" =>
                gen'[g].done = gen[g].owner]_vars
  BY <1>1, CompletionStep
<1> QED
  BY <1>1, WorkspacesInductive, PTL DEF Spec, OwnerCompletes

=============================================================================

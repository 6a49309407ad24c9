---------------------------- MODULE WorkerGroups ----------------------------
(***************************************************************************)
(* An orchestrated turn (internal/task/orchestrate.go, plan.go,            *)
(* startWorkerWithFallback of engine.go, internal/store/worker_steps.go):  *)
(* a plan of steps is split into waves, the agents of a wave work at the   *)
(* same time, an agent that fails on its quota or answers nothing is       *)
(* started once more, and a user cancels, interrupts or deletes meanwhile. *)
(*                                                                         *)
(* One step is one hold of Engine.mu, one store statement or one call of   *)
(* an adapter; the reads in between belong to the step before them.  The   *)
(* task is reduced to its row and to Engine's maps: the delivery of a      *)
(* follow-up is one step, and so is the start of the turn it leads to      *)
(* (module TaskEngine has both in detail).  Left out: the events the       *)
(* workers write, texts and budgets, the workspace (module Workspaces),    *)
(* and the chain of providers a start goes through, which is one start     *)
(* here: it repeats the check it begins with.                              *)
(***************************************************************************)
EXTENDS Naturals, Sequences, FiniteSets

CONSTANTS
  N,         \* the steps of the plan
  Accesses,  \* what they ask for, of {"read", "write"}
  Ops,       \* the requests users make, of {"cancel", "interrupt", "delete"}
  MaxOps     \* bound: how many of them

ASSUME GroupAssumption ==
  /\ N \in Nat \ {0} /\ MaxOps \in Nat
  /\ Accesses \subseteq {"read", "write"} /\ Ops \subseteq {"cancel", "interrupt", "delete"}

VARIABLES
  plan,      \* of each step: its access and the earlier steps it builds on
  waves,     \* the steps of each wave
  rowStatus, \* the task row's status; "deleted" when there is no row
  activeRun, \* Engine.activeRuns: this turn, the next one, or none
  canceled,  \* Engine.canceled
  parked,    \* Engine.pendingFollowUp
  group,     \* Engine.handleGroups: handles by step and attempt
  step,      \* task_worker_steps: the status of each, if it has a row
  agents,    \* the latest agent of each step
  worker,    \* the goroutine that forwards its events
  orch,      \* runOrchestrated and finishOrchestrated
  api,       \* the request of a user, under retryMu
  stopped,   \* history: a cancel or a delete has been carried out
  raced,     \* history: an interrupt took the group for a task where nothing runs
  ops

task == <<rowStatus, activeRun, canceled, parked>>
groupVars == <<plan, waves, task, group, step, agents, worker, orch, api, stopped, raced, ops>>

Steps   == 1 .. N
Open    == {"planned", "running"}
Off     == [pc |-> "off", snap |-> {}, deletes |-> FALSE]
NoAgent == [try |-> 0, life |-> "none", told |-> FALSE]

-----------------------------------------------------------------------------
(* The waves *)

\* Mutant: a reader may join a wave that has a writer.
JoinsWriter(pl, wave, s) == pl[s].access = "write" /\ wave # <<>>

\* waveWouldConflict: who writes works alone.
Conflicts(pl, wave, s) ==
  \E i \in 1 .. Len(wave) : "write" \in {pl[s].access, pl[wave[i]].access}

\* One pass over the plan: the steps that are ready, in order, without those in
\* conflict with one before them.
NextWave(pl, done) ==
  LET pass[s \in 0 .. N] ==
        IF s = 0 THEN <<>>
        ELSE IF s \notin done /\ pl[s].deps \subseteq done /\ ~Conflicts(pl, pass[s - 1], s)
             THEN Append(pass[s - 1], s) ELSE pass[s - 1]
  IN pass[N]

InWaves(ws) == UNION {{ws[i][j] : j \in 1 .. Len(ws[i])} : i \in 1 .. Len(ws)}

\* PlanWaves
PlanWaves(pl) ==
  LET upTo[n \in 0 .. N] ==
        IF n = 0 THEN <<>>
        ELSE IF InWaves(upTo[n - 1]) = Steps THEN upTo[n - 1]
             ELSE Append(upTo[n - 1], NextWave(pl, InWaves(upTo[n - 1])))
  IN upTo[N]

-----------------------------------------------------------------------------
GroupInit ==
  /\ plan \in [Steps -> [access : Accesses, deps : SUBSET Steps]]
  /\ \A s \in Steps : plan[s].deps \subseteq 1 .. s - 1
  /\ waves = PlanWaves(plan)
  /\ rowStatus = "running" /\ activeRun = "group" /\ canceled = FALSE /\ parked = FALSE
  /\ group = {}
  /\ step = [s \in Steps |-> "none"]
  /\ agents = [s \in Steps |-> NoAgent]
  /\ worker = [s \in Steps |-> [pc |-> "off", failed |-> FALSE]]
  /\ orch = [pc |-> "plan", wave |-> 1, at |-> 1, refused |-> FALSE]
  /\ api = Off /\ stopped = FALSE /\ raced = FALSE /\ ops = 0
-----------------------------------------------------------------------------
(* Common steps *)

\* runAcceptsWorker, and the test of registerWorkerHandles
Accepts == activeRun = "group" /\ ~canceled /\ ~parked

\* RunHandle.Cancel of some handles: an agent that has ended does not mind.
CancelHandles(handles) ==
  [s \in Steps |-> IF <<s, agents[s].try>> \in handles THEN [agents[s] EXCEPT !.told = TRUE]
                   ELSE agents[s]]

\* UpdateWorkerStep: a step that has come to its end is not written again.
Patched(S, st) == [s \in Steps |-> IF s \in S /\ step[s] \in Open THEN st ELSE step[s]]

\* clearHandleGroup
Cleared == IF activeRun = "group" THEN {} ELSE group

\* A follow-up is delivered into the task, unless the row says canceled or is gone:
\* the turn is over for the engine, the row is queued.
Delivered ==
  IF rowStatus \in {"canceled", "deleted"} THEN UNCHANGED <<rowStatus, activeRun>>
                                         ELSE rowStatus' = "queued" /\ activeRun' = "none"

-----------------------------------------------------------------------------
(* runOrchestrated *)

Wave == waves[orch.wave]
Cur  == Wave[orch.at]
At(pc)   == orch.pc = pc
Goto(pc) == orch' = [orch EXCEPT !.pc = pc]
NextStep == orch' = [orch EXCEPT !.at = @ + 1, !.pc = IF orch.at < Len(Wave) THEN "accept" ELSE "check"]

\* The plan is refined, which takes its time, and stored.
Plan ==
  /\ At("plan")
  /\ IF activeRun = "group" THEN Goto("persist") ELSE Goto("finish")
  /\ UNCHANGED <<plan, waves, task, group, step, agents, worker, api, stopped, raced, ops>>

Persist ==
  /\ At("persist")
  /\ \/ rowStatus # "deleted" /\ step' = [s \in Steps |-> "planned"] /\ Goto("wave")
     \/ UNCHANGED step /\ Goto("finish")
  /\ UNCHANGED <<plan, waves, task, group, agents, worker, api, stopped, raced, ops>>

BeginWave ==
  /\ At("wave")
  /\ IF activeRun # "group" \/ orch.wave > Len(waves) THEN Goto("finish")
     ELSE orch' = [orch EXCEPT !.pc = "accept", !.at = 1]
  /\ UNCHANGED <<plan, waves, task, group, step, agents, worker, api, stopped, raced, ops>>

\* startWorkerWithFallback, before and after Adapter.Start
Accept ==
  /\ At("accept")
  /\ IF Accepts THEN Goto("start") /\ UNCHANGED step
                ELSE NextStep /\ step' = Patched({Cur}, "failed")
  /\ UNCHANGED <<plan, waves, task, group, agents, worker, api, stopped, raced, ops>>

Start ==
  /\ At("start")
  /\ \/ /\ agents' = [agents EXCEPT ![Cur] = [try |-> 1, life |-> "live", told |-> FALSE]]
        /\ Goto("accepted") /\ UNCHANGED step
     \/ /\ NextStep /\ step' = Patched({Cur}, "failed") /\ UNCHANGED agents
  /\ UNCHANGED <<plan, waves, task, group, worker, api, stopped, raced, ops>>

Accepted ==
  /\ At("accepted")
  /\ IF Accepts THEN Goto("register") /\ UNCHANGED <<step, agents>>
     ELSE /\ agents' = CancelHandles({<<Cur, 1>>})
          /\ NextStep /\ step' = Patched({Cur}, "failed")
  /\ UNCHANGED <<plan, waves, task, group, worker, api, stopped, raced, ops>>

\* registerWorkerHandle.  If the group has been stopped by now, the agents of
\* this wave are stopped too, and the turn ends when they have.
Register ==
  /\ At("register")
  /\ IF Accepts
       THEN /\ group' = group \cup {<<Cur, 1>>} /\ Goto("update") /\ UNCHANGED agents
       ELSE /\ agents' = CancelHandles({<<Wave[i], 1>> : i \in 1 .. orch.at})
            /\ orch' = [orch EXCEPT !.pc = "drain", !.refused = TRUE]
            /\ UNCHANGED group
  /\ UNCHANGED <<plan, waves, task, step, worker, api, stopped, raced, ops>>

\* The step is running, and its agent's events are forwarded from now on.
Update ==
  /\ At("update")
  /\ step' = Patched({Cur}, "running")
  /\ worker' = [worker EXCEPT ![Cur].pc = "forward"]
  /\ NextStep
  /\ UNCHANGED <<plan, waves, task, group, agents, api, stopped, raced, ops>>

\* All agents of the wave are on their way: were they canceled meanwhile?
Check ==
  /\ At("check")
  /\ IF canceled THEN /\ agents' = CancelHandles({<<Wave[i], 1>> : i \in 1 .. Len(Wave)})
                      /\ Goto("drain")
                 ELSE Goto("wait") /\ UNCHANGED agents
  /\ UNCHANGED <<plan, waves, task, group, step, worker, api, stopped, raced, ops>>

WaveDone == \A s \in Steps : worker[s].pc \in {"off", "done"}

\* wg.Wait and clearHandleGroup; a refused group is left to finishOrchestrated.
Wait ==
  /\ At("drain") \/ At("wait")
  /\ WaveDone
  /\ group' = IF orch.refused THEN group ELSE Cleared
  /\ Goto(IF At("wait") THEN "look" ELSE IF orch.refused THEN "finish" ELSE "undo")
  /\ UNCHANGED <<plan, waves, task, step, agents, worker, api, stopped, raced, ops>>

\* cancelWorkerSteps, if the wave was canceled; else its results are recorded.
Look ==
  /\ At("look") \/ At("undo")
  /\ IF canceled \/ At("undo")
       THEN step' = Patched(Steps, "canceled") /\ Goto("finish")
       ELSE /\ step' = [s \in Steps |->
                 IF worker[s].pc = "done" /\ step[s] \in Open
                   THEN IF worker[s].failed THEN "failed" ELSE "succeeded"
                   ELSE step[s]]
            /\ orch' = [orch EXCEPT !.pc = "wave", !.wave = @ + 1]
  /\ UNCHANGED <<plan, waves, task, group, agents, worker, api, stopped, raced, ops>>

-----------------------------------------------------------------------------
(* finishOrchestrated *)

\* Mutant: the steps of a turn that was retired are left as they are.
FinishLeavesSteps ==
  /\ At("finish")
  /\ IF activeRun = "group"
       THEN /\ orch' = [orch EXCEPT !.pc = IF parked THEN "apply" ELSE IF canceled THEN "cancel"
                                           ELSE "end"]
            /\ canceled' = FALSE /\ parked' = FALSE /\ group' = {}
       ELSE Goto("over") /\ UNCHANGED <<canceled, parked, group>>
  /\ UNCHANGED <<plan, waves, rowStatus, activeRun, step, agents, worker, api, stopped, raced, ops>>

\* Only the turn the engine calls current takes what is there for it; one that
\* was retired closes its steps.
Finish ==
  /\ At("finish")
  /\ IF activeRun = "group"
       THEN /\ orch' = [orch EXCEPT !.pc = IF parked THEN "apply" ELSE IF canceled THEN "cancel"
                                           ELSE "end"]
            /\ canceled' = FALSE /\ parked' = FALSE /\ group' = {}
            /\ UNCHANGED step
       ELSE /\ Goto("over") /\ step' = Patched(Steps, "canceled")
            /\ UNCHANGED <<canceled, parked, group>>
  /\ UNCHANGED <<plan, waves, rowStatus, activeRun, agents, worker, api, stopped, raced, ops>>

\* The parked follow-up, or one that was queued during the turn, is delivered; or
\* finishRun ends the turn if it is current, as it does if the workspace cannot be
\* finalized.
Ends ==
  /\ orch.pc \in {"apply", "cancel", "end"}
  /\ \/ orch.pc # "cancel" /\ Delivered
     \/ /\ IF activeRun = "group"
             THEN rowStatus' = (IF At("cancel") THEN "canceled" ELSE "ended") /\ activeRun' = "none"
             ELSE UNCHANGED <<rowStatus, activeRun>>
  /\ Goto("over")
  /\ UNCHANGED <<plan, waves, canceled, parked, group, step, agents, worker, api, stopped, raced, ops>>

Committing == orch.pc \in {"apply", "cancel", "end"}

-----------------------------------------------------------------------------
(* The workers of a wave *)

WorkerAt(s, pc) == worker[s].pc = pc
WorkerGoes(s, pc, failed) == worker' = [worker EXCEPT ![s] = [pc |-> pc, failed |-> failed]]

\* forwardWorkerEvents finds the cancel with an event it reads.
Notice(s) ==
  /\ WorkerAt(s, "forward") /\ activeRun = "group" /\ canceled
  /\ agents' = CancelHandles({<<s, agents[s].try>>})
  /\ WorkerGoes(s, "done", TRUE)
  /\ UNCHANGED <<plan, waves, task, group, step, orch, api, stopped, raced, ops>>

\* The events are at their end: an answer or a failure.  What is no answer, or a
\* failure on a quota, is tried once more.
EventsEnd(s) ==
  /\ WorkerAt(s, "forward") /\ agents[s].life = "gone"
  /\ \/ \E failed \in BOOLEAN : WorkerGoes(s, "done", failed)
     \/ agents[s].try = 1 /\ WorkerGoes(s, "again", FALSE)
  /\ UNCHANGED <<plan, waves, task, group, step, agents, orch, api, stopped, raced, ops>>

TryAgain(s) ==
  /\ WorkerAt(s, "again")
  /\ IF Accepts THEN WorkerGoes(s, "start", FALSE) ELSE WorkerGoes(s, "done", TRUE)
  /\ UNCHANGED <<plan, waves, task, group, step, agents, orch, api, stopped, raced, ops>>

StartAgain(s) ==
  /\ WorkerAt(s, "start")
  /\ \/ /\ agents' = [agents EXCEPT ![s] = [try |-> 2, life |-> "live", told |-> FALSE]]
        /\ WorkerGoes(s, "register", FALSE)
     \/ UNCHANGED agents /\ WorkerGoes(s, "done", TRUE)
  /\ UNCHANGED <<plan, waves, task, group, step, orch, api, stopped, raced, ops>>

\* The check after the start of a fallback and that of registerWorkerHandle have
\* the same test and the same outcome, so they are one.
RegisterAgain(s) ==
  /\ WorkerAt(s, "register")
  /\ IF Accepts
       THEN group' = group \cup {<<s, 2>>} /\ WorkerGoes(s, "forward", FALSE) /\ UNCHANGED agents
       ELSE agents' = CancelHandles({<<s, 2>>}) /\ WorkerGoes(s, "done", TRUE) /\ UNCHANGED group
  /\ UNCHANGED <<plan, waves, task, step, orch, api, stopped, raced, ops>>

\* External: an agent ends when it likes, and when it is told to.
AgentEnds(s) ==
  /\ agents[s].life = "live"
  /\ agents' = [agents EXCEPT ![s].life = "gone"]
  /\ UNCHANGED <<plan, waves, task, group, step, worker, orch, api, stopped, raced, ops>>

-----------------------------------------------------------------------------
(* Users, and the turn that follows *)

Api(pc) == api.pc = pc
ApiGoes(pc) == api' = [api EXCEPT !.pc = pc]

\* A request reads the row: it is about this turn.  A delete begins with a cancel,
\* unless the task has ended.
NewRequest ==
  /\ Api("off") /\ ops < MaxOps /\ ops' = ops + 1
  /\ \/ /\ rowStatus \in {"running", "queued"} /\ activeRun # "next"
        /\ \E op \in Ops : api' = [Off EXCEPT !.pc = IF op = "delete" THEN "cancel" ELSE op,
                                             !.deletes = (op = "delete")]
     \/ /\ rowStatus \in {"canceled", "ended"} /\ "delete" \in Ops
        /\ api' = [Off EXCEPT !.pc = "forget", !.deletes = TRUE]
  /\ UNCHANGED <<plan, waves, task, group, step, agents, worker, orch, stopped, raced>>

\* cancelTask: the mark, then MarkWorkerStepsTerminal
CancelMark ==
  /\ Api("cancel")
  /\ IF Committing THEN api' = Off /\ UNCHANGED canceled
                   ELSE ApiGoes("steps") /\ canceled' = TRUE
  /\ UNCHANGED <<plan, waves, rowStatus, activeRun, parked, group, step, agents, worker, orch, stopped,
                 raced, ops>>

CancelSteps ==
  /\ Api("steps")
  /\ step' = Patched(Steps, "canceled")
  /\ ApiGoes("kill")
  /\ UNCHANGED <<plan, waves, task, group, agents, worker, orch, stopped, raced, ops>>

\* A queued task is taken out of the queue; else the handles are taken down, and
\* the parked follow-up is dropped.
CancelKill ==
  /\ Api("kill")
  /\ IF rowStatus = "queued" /\ activeRun = "none"
       THEN ApiGoes("finish") /\ canceled' = FALSE /\ UNCHANGED parked
       ELSE /\ parked' = FALSE /\ UNCHANGED canceled
            /\ api' = [api EXCEPT !.pc = IF group = {} /\ activeRun # "next" THEN "finish" ELSE "stop",
                                  !.snap = group]
  /\ UNCHANGED <<plan, waves, rowStatus, activeRun, group, step, agents, worker, orch, stopped, raced, ops>>

\* Mutant: only the handle in Engine.handles is canceled.
StopFirst(snap) == {h \in snap : \A k \in snap : h[1] <= k[1]}

\* Every handle of the group is canceled.
StopAll(snap) == snap

CancelStop ==
  /\ Api("stop")
  /\ agents' = CancelHandles(StopAll(api.snap))
  /\ ApiGoes("retire")
  /\ UNCHANGED <<plan, waves, task, group, step, worker, orch, stopped, raced, ops>>

CancelReturns ==
  IF api.deletes THEN api' = [api EXCEPT !.pc = "forget", !.snap = {}] /\ UNCHANGED stopped
                 ELSE api' = Off /\ stopped' = TRUE

\* The row is canceled and the turn retired, whatever it is by now.
CancelRetire ==
  /\ Api("retire")
  /\ rowStatus' = "canceled" /\ activeRun' = "none" /\ canceled' = FALSE /\ group' = {}
  /\ CancelReturns
  /\ UNCHANGED <<plan, waves, parked, step, agents, worker, orch, raced, ops>>

\* cancelUnstarted: the mark stays for a start that is on its way.
CancelFinish ==
  /\ Api("finish")
  /\ rowStatus' = "canceled" /\ activeRun' = "none"
  /\ CancelReturns
  /\ UNCHANGED <<plan, waves, canceled, parked, group, step, agents, worker, orch, raced, ops>>

\* Delete: what the maps still hold of the task, then its row and those of its steps.
DeleteForget ==
  /\ Api("forget")
  /\ activeRun' = "none" /\ canceled' = FALSE /\ parked' = FALSE /\ group' = {}
  /\ ApiGoes("erase")
  /\ UNCHANGED <<plan, waves, rowStatus, step, agents, worker, orch, stopped, raced, ops>>

DeleteErase ==
  /\ Api("erase")
  /\ rowStatus' = "deleted" /\ step' = [s \in Steps |-> "none"]
  /\ api' = Off /\ stopped' = TRUE
  /\ UNCHANGED <<plan, waves, activeRun, canceled, parked, group, agents, worker, orch, raced, ops>>

\* interruptAndFollowUp: a queued task just takes the new message.
Interrupt ==
  /\ Api("interrupt")
  /\ IF Committing \/ (rowStatus = "queued" /\ activeRun = "none")
       THEN api' = Off /\ UNCHANGED <<canceled, parked>>
       ELSE /\ canceled' = TRUE /\ parked' = TRUE
            /\ api' = [api EXCEPT !.pc = "halt", !.snap = group]
  /\ UNCHANGED <<plan, waves, rowStatus, activeRun, group, step, agents, worker, orch, stopped, raced, ops>>

Halt ==
  /\ Api("halt")
  /\ agents' = CancelHandles(api.snap)
  /\ IF api.snap = {} /\ activeRun # "next" THEN ApiGoes("unmark") ELSE api' = Off
  /\ UNCHANGED <<plan, waves, task, group, step, worker, orch, stopped, raced, ops>>

\* No handle: nothing seems to run, and the message is delivered at once.
Unmark ==
  /\ Api("unmark")
  /\ IF parked THEN ApiGoes("deliver") ELSE api' = Off
  /\ canceled' = FALSE /\ parked' = FALSE
  /\ raced' = (raced \/ activeRun = "group")
  /\ UNCHANGED <<plan, waves, rowStatus, activeRun, group, step, agents, worker, orch, stopped, ops>>

Deliver ==
  /\ Api("deliver") /\ Delivered /\ api' = Off
  /\ UNCHANGED <<plan, waves, canceled, parked, group, step, agents, worker, orch, stopped, raced, ops>>

\* pump and startOne of the next turn: it owns a fresh signal.
NextTurn ==
  /\ rowStatus = "queued" /\ activeRun = "none"
  /\ rowStatus' = "running" /\ activeRun' = "next" /\ canceled' = FALSE
  /\ UNCHANGED <<plan, waves, parked, group, step, agents, worker, orch, api, stopped, raced, ops>>

-----------------------------------------------------------------------------
Orchestrator == \/ Plan \/ Persist \/ BeginWave \/ Accept \/ Start \/ Accepted \/ Register
                \/ Update \/ Check \/ Wait \/ Look \/ Finish \/ Ends
Worker(s)    == Notice(s) \/ EventsEnd(s) \/ TryAgain(s) \/ StartAgain(s) \/ RegisterAgain(s)
Requested    == \/ CancelMark \/ CancelSteps \/ CancelKill \/ CancelStop \/ CancelRetire
                \/ CancelFinish \/ DeleteForget \/ DeleteErase
                \/ Interrupt \/ Halt \/ Unmark \/ Deliver

GroupNext ==
  \/ Orchestrator \/ NewRequest \/ Requested \/ NextTurn
  \/ \E s \in Steps : Worker(s) \/ AgentEnds(s)

GroupSpec == GroupInit /\ [][GroupNext]_groupVars

\* Goroutines go on, and an agent that is told to end does; no other agent has to.
GroupFairness ==
  /\ WF_groupVars(Orchestrator) /\ WF_groupVars(Requested)
  /\ \A s \in Steps : WF_groupVars(Worker(s)) /\ WF_groupVars(agents[s].told /\ AgentEnds(s))
GroupFairSpec == GroupSpec /\ GroupFairness

-----------------------------------------------------------------------------
(* What becomes of a group *)

\* When the turn is over nothing of its group is left: no agent that was not told to
\* end, and no step that reads planned or running.  (An interrupt that meets the
\* registration of a worker leaves its group's steps open, see README.md.)
NothingLeft ==
  orch.pc = "over" =>
    /\ \A s \in Steps : agents[s].life = "live" => agents[s].told
    /\ Api("off") => \/ \A s \in Steps : step[s] \notin Open
                     \/ orch.refused /\ ~stopped

\* Who writes works alone, and nobody works before what it builds on is there: also
\* when agents are started a second time, stopped, or outlive their turn.
WavesHold ==
  \A s, u \in Steps : s # u /\ agents[s].life = "live" =>
    /\ agents[u].life = "live" /\ ~agents[s].told /\ ~agents[u].told =>
         "write" \notin {plan[s].access, plan[u].access}
    /\ u \in plan[s].deps => worker[u].pc \in {"off", "done"} /\ step[u] \notin Open

\* A cancel or a delete stops the whole group, though no agent ends by itself and some
\* are being started at that moment.  (Not one whose turn an interrupt took for one that does
\* not run.)
CancelStops ==
  stopped /\ ~raced ~> \A s \in Steps : agents[s].life # "live"

=============================================================================

----------------------------- MODULE TaskEngine -----------------------------
(***************************************************************************)
(* The task engine of OpenKin (internal/task/engine.go, approvals.go, and  *)
(* the store operations they call): the start queue, the goroutine of each *)
(* execution from its claim to its finish, and the user requests that race *)
(* it (create, cancel, follow-up, interrupting follow-up, daemon restart). *)
(*                                                                         *)
(* One step is one critical section of Engine.mu or one store operation;   *)
(* SQLite runs behind a single connection, so a store operation is atomic. *)
(* Cancel and FollowUpWith hold Engine.retryMu from end to end, so one     *)
(* process, Api, stands for every user request.                            *)
(*                                                                         *)
(* Left out: the prompt text and its context pack, agents and models,      *)
(* workspaces (they only succeed or fail here), orchestrated runs, the     *)
(* retry saga, quota waits, and the failure of a store operation or of an  *)
(* event append (Create's own after its insert included).  The statuses    *)
(* waiting_approval and waiting_input count as running: no handler here    *)
(* tells them apart, and module Approvals is about them.                   *)
(***************************************************************************)
EXTENDS Integers, FiniteSets, Sequences

CONSTANTS
  Tasks,          \* task ids
  Msgs,           \* follow-up messages
  Runs,           \* execution ids; one nobody refers to any more is used again
  Api,            \* the goroutine that holds retryMu
  Recovery,       \* the goroutine in Engine.Recover
  None,           \* "no run", "no message", the empty string of the code
  MaxConcurrent,  \* Engine.maxConcurrent
  Ops,            \* the requests users make, of AllOps
  MaxCancels,     \* bound: how many cancels users ask for
  MaxRestarts     \* bound: how often the daemon dies

AllOps == {"cancel", "followup", "interrupt"}

Procs == Runs \cup {Api, Recovery}

ASSUME EngineAssumption ==
  /\ IsFiniteSet(Runs)
  /\ None \notin Tasks \cup Msgs \cup Procs
  /\ Api \notin Runs /\ Recovery \notin Runs /\ Api # Recovery
  /\ MaxConcurrent \in Nat \ {0}
  /\ Ops \subseteq AllOps
  /\ MaxCancels \in Nat /\ MaxRestarts \in Nat

VARIABLES
  row,       \* the tasks table: status, prompt, and whether the task's lazily
             \* made workspace is ready ("absent" before Create)
  pending,   \* task_pending_prompts, per task, oldest first
  creating,  \* tasks whose Create has inserted the row and not yet enqueued it
  queue,     \* Engine.queue
  active,    \* Engine.active
  mem,       \* the per-task maps of Engine, all guarded by Engine.mu
  pumping,   \* some goroutine is inside pump()
  proc,      \* where every goroutine stands, and what it carries
  sent,      \* messages the engine accepted, oldest first
  handed,    \* messages an adapter was started with
  reported,  \* messages an error event in the transcript accounts for
  ends,      \* terminal-status writes of each task since it was last queued
  cancels, restarts

store  == <<row, pending, creating>>
ledger == <<sent, handed, reported, ends>>
bounds == <<cancels, restarts>>
vars   == <<row, pending, creating, queue, active, mem, pumping, proc,
            sent, handed, reported, ends, cancels, restarts>>

Terminal == {"succeeded", "failed", "canceled"}
Status   == {"absent", "queued", "running"} \cup Terminal

\* Places of a goroutine.  SlotPcs are the places of startOne and runLoop at
\* which the goroutine still owes Engine.active its decrement.
SlotPcs    == {"check", "gate", "claim", "launch", "register", "live",
               "fail_event", "fail_finish"}
FinishPcs  == {"finalize", "reread", "requeue", "finish", "unwind"}
DeliverPcs == {"pop", "write", "invalidate", "enqueue", "replaced", "refused"}
RequestPcs == {"c_mark", "c_discard", "c_dequeue", "c_kill", "c_finish",
               "f_check", "f_queue", "f_interrupt", "f_resume"}
Pcs        == {"idle", "recover"} \cup SlotPcs \cup FinishPcs
                \cup DeliverPcs \cup RequestPcs

\* status: the status a run has decided to end its task with
\* handle: the run whose handle a request read under the lock
\* killed: the agent process of the run was told to die (RunHandle.Cancel)
\* todo:   tasks Recovery has still to deliver to
Proc == [pc: Pcs, task: Tasks \cup {None}, msg: Msgs \cup {None},
         status: Status, handle: Runs \cup {None}, revive: BOOLEAN,
         interrupt: BOOLEAN, allowQueued: BOOLEAN, wasCanceled: BOOLEAN, killed: BOOLEAN,
         todo: SUBSET Tasks]

Idle == [pc |-> "idle", task |-> None, msg |-> None, status |-> "absent",
         handle |-> None, revive |-> FALSE,
         interrupt |-> FALSE, allowQueued |-> FALSE,
         wasCanceled |-> FALSE, killed |-> FALSE, todo |-> {}]

Forgotten == [activeRun |-> None, handle |-> None, canceled |-> FALSE,
              committing |-> None, parked |-> None, label |-> None]

Row == [status: Status, prompt: Msgs \cup {None}, ready: BOOLEAN]
Mem == [activeRun: Runs \cup {None}, handle: Runs \cup {None}, canceled: BOOLEAN,
        committing: Runs \cup {None}, parked: Msgs \cup {None}, label: Msgs \cup {None}]

TypeOK ==
  /\ row \in [Tasks -> Row]
  /\ pending \in [Tasks -> Seq(Msgs)]
  /\ creating \subseteq Tasks
  /\ queue \in Seq(Tasks)
  /\ active \in 0..MaxConcurrent
  /\ mem \in [Tasks -> Mem]
  /\ pumping \in BOOLEAN
  /\ proc \in [Procs -> Proc]
  /\ sent \in Seq(Msgs) /\ handed \subseteq Msgs /\ reported \subseteq Msgs
  /\ ends \in [Tasks -> Nat]
  /\ cancels \in Nat /\ restarts \in Nat

Init ==
  /\ row = [t \in Tasks |-> [status |-> "absent", prompt |-> None, ready |-> FALSE]]
  /\ pending = [t \in Tasks |-> <<>>]
  /\ creating = {}
  /\ queue = <<>> /\ active = 0
  /\ mem = [t \in Tasks |-> Forgotten]
  /\ pumping = FALSE
  /\ proc = [p \in Procs |-> Idle]
  /\ sent = <<>> /\ handed = {} /\ reported = {}
  /\ ends = [t \in Tasks |-> 0]
  /\ cancels = 0 /\ restarts = 0

-----------------------------------------------------------------------------
(* Helpers *)

Msg(m)   == {m} \ {None}
Elems(s) == {s[i] : i \in 1..Len(s)}

\* enqueueLocked: an id already in the queue is not added again.
Enqueued(t) == IF t \in Elems(queue) THEN queue ELSE Append(queue, t)

\* The queue without its i-th entry.
Without(i) == SubSeq(queue, 1, i - 1) \o SubSeq(queue, i + 1, Len(queue))

\* isActiveRun
IsActive(r) == mem[proc[r].task].activeRun = r

\* Everything mem and proc remember an execution id by.
Referred(r) ==
  \/ \E t \in Tasks : r \in {mem[t].activeRun, mem[t].handle, mem[t].committing}
  \/ proc[Api].handle = r

FreeRuns == {r \in Runs : proc[r].pc = "idle" /\ ~Referred(r)}

Become(p, v) == proc' = [proc EXCEPT ![p] = v]
Goto(p, l)   == Become(p, [proc[p] EXCEPT !.pc = l])

\* active--; pump(): the start attempt, or a run nobody owns any more, is over.
ReleaseSlot(r) ==
  /\ active' = active - 1
  /\ pumping' = TRUE
  /\ Become(r, Idle)

\* clearActiveRun: only if the entry is still this execution's.
ClearedRun(r) ==
  [mem EXCEPT ![proc[r].task].activeRun = IF @ = r THEN None ELSE @]

Up == proc[Recovery].pc = "idle"
ApiFree == Up /\ proc[Api].pc = "idle"

(* Create: insert the row, append the user event, then enqueue and pump.   *)

CreateInsert(t) ==
  /\ Up
  /\ row[t].status = "absent"
  /\ row' = [row EXCEPT ![t].status = "queued"]
  /\ creating' = creating \cup {t}
  /\ UNCHANGED <<pending, queue, active, mem, pumping, proc, ledger, bounds>>

CreateEnqueue(t) ==
  /\ t \in creating
  /\ creating' = creating \ {t}
  /\ queue' = Enqueued(t)
  /\ pumping' = TRUE
  /\ UNCHANGED <<row, pending, active, mem, proc, ledger, bounds>>

-----------------------------------------------------------------------------
(* pump: one iteration of its loop is one critical section. *)

PumpPop(r) ==
  /\ pumping /\ active < MaxConcurrent /\ queue # <<>>
  /\ r \in FreeRuns
  /\ LET t == Head(queue) IN
       /\ mem' = [mem EXCEPT ![t].canceled = FALSE, ![t].activeRun = r]
       /\ Become(r, [Idle EXCEPT !.pc = "check", !.task = t])
  /\ queue' = Tail(queue)
  /\ active' = active + 1
  /\ UNCHANGED <<store, pumping, ledger, bounds>>

PumpReturn ==
  /\ pumping
  /\ active >= MaxConcurrent \/ queue = <<>>
  /\ pumping' = FALSE
  /\ UNCHANGED <<store, queue, active, mem, proc, ledger, bounds>>

-----------------------------------------------------------------------------
(* startOne *)

\* The attempt is still the task's, and the row still reads queued.
StartCheck(r) ==
  /\ proc[r].pc = "check"
  /\ IF IsActive(r) /\ row[proc[r].task].status = "queued"
       THEN /\ Become(r, [proc[r] EXCEPT !.pc = "gate",
                                         !.msg = row[proc[r].task].prompt])
            /\ UNCHANGED <<mem, active, pumping>>
       ELSE mem' = ClearedRun(r) /\ ReleaseSlot(r)
  /\ UNCHANGED <<store, queue, ledger, bounds>>

\* Mutant: backing out here leaves the slot taken.
StartGateKeepsSlot(r) ==
  /\ proc[r].pc = "gate"
  /\ IF IsActive(r) THEN Goto(r, "claim") ELSE Goto(r, "idle")
  /\ UNCHANGED <<store, queue, active, mem, pumping, ledger, bounds>>

\* The last check before the claim.
StartGate(r) ==
  /\ proc[r].pc = "gate"
  /\ IF IsActive(r)
       THEN Goto(r, "claim") /\ UNCHANGED <<active, pumping>>
       ELSE ReleaseSlot(r)
  /\ UNCHANGED <<store, queue, mem, ledger, bounds>>

\* StartQueuedTask: queued -> running in one statement, and the row it returns
\* is the turn the adapter is given.
StartClaim(r) ==
  LET t == proc[r].task IN
  /\ proc[r].pc = "claim"
  /\ IF row[t].status = "queued"
       THEN /\ row' = [row EXCEPT ![t].status = "running"]
            /\ Become(r, [proc[r] EXCEPT !.pc = "launch", !.msg = row[t].prompt])
            /\ UNCHANGED <<mem, active, pumping>>
       ELSE mem' = ClearedRun(r) /\ ReleaseSlot(r) /\ UNCHANGED row
  /\ UNCHANGED <<pending, creating, queue, ledger, bounds>>

\* isActiveRun, then Adapter.Start with the prompt.
Launch(r) ==
  /\ proc[r].pc = "launch"
  /\ IF IsActive(r)
       THEN /\ Goto(r, "register")
            /\ handed' = handed \cup Msg(proc[r].msg)
            /\ UNCHANGED <<active, pumping>>
       ELSE ReleaseSlot(r) /\ UNCHANGED handed
  /\ UNCHANGED <<store, queue, mem, sent, reported, ends, bounds>>

\* The handle goes into the map only for the task's current execution; a
\* cancellation marker that arrived meanwhile is honoured at once.
Register(r) ==
  LET t == proc[r].task IN
  /\ proc[r].pc = "register"
  /\ IF IsActive(r)
       THEN /\ mem' = [mem EXCEPT ![t].handle = r, ![t].label = None]
            /\ Become(r, [proc[r] EXCEPT !.pc = "live", !.msg = None,
                                         !.killed = mem[t].canceled])
            /\ UNCHANGED <<active, pumping>>
       ELSE ReleaseSlot(r) /\ UNCHANGED mem
  /\ UNCHANGED <<store, queue, ledger, bounds>>

\* A start that cannot go on: the workspace before the claim (the row may
\* still be queued), the route, the agent or Adapter.Start after it.
StartFails(r) ==
  /\ proc[r].pc \in {"gate", "launch"}
  /\ IF IsActive(r)
       THEN /\ Become(r, [proc[r] EXCEPT !.pc = "fail_event",
                                         !.allowQueued = (proc[r].pc = "gate")])
            /\ UNCHANGED <<active, pumping>>
       ELSE ReleaseSlot(r)
  /\ UNCHANGED <<store, queue, mem, ledger, bounds>>

\* Mutant: the label is dropped and nothing is said.
FailEventSilent(r) ==
  /\ proc[r].pc = "fail_event"
  /\ mem' = [mem EXCEPT ![proc[r].task].label = None]
  /\ Goto(r, "fail_finish")
  /\ UNCHANGED <<store, queue, active, pumping, ledger, bounds>>

\* failStartWithExecution, first half: the error event names the failed start,
\* and the label goes with it.
FailEvent(r) ==
  /\ proc[r].pc = "fail_event"
  /\ reported' = reported \cup Msg(proc[r].msg)
  /\ mem' = [mem EXCEPT ![proc[r].task].label = None]
  /\ Goto(r, "fail_finish")
  /\ UNCHANGED <<store, queue, active, pumping, sent, handed, ends, bounds>>

\* finishRun / finishQueuedRun: the write is refused unless the active-run entry
\* still names this execution and the row's status is one FinishTask accepts.
FinishWrites(r, allowQueued) ==
  /\ IsActive(r)
  /\ row[proc[r].task].status \in
       {"running"} \cup Terminal \cup (IF allowQueued THEN {"queued"} ELSE {})

FinishRun(r, status, allowQueued) ==
  LET t == proc[r].task IN
  IF FinishWrites(r, allowQueued)
    THEN /\ row' = [row EXCEPT ![t].status = status]
         /\ mem' = [mem EXCEPT ![t].activeRun = None]
         /\ ends' = [ends EXCEPT ![t] = @ + 1]
    ELSE UNCHANGED <<row, mem, ends>>

\* failStartWithExecution, second half.  A start has no handle to drop.
FailFinish(r) ==
  /\ proc[r].pc = "fail_finish"
  /\ FinishRun(r, "failed", proc[r].allowQueued)
  /\ ReleaseSlot(r)
  /\ UNCHANGED <<pending, creating, queue, sent, handed, reported, bounds>>

-----------------------------------------------------------------------------
(* runLoop, from the exit of the agent process on *)

\* The process exits, killed or not, with or without a good result.  The
\* current execution marks the task as committing and takes what was parked.
Exit(r) ==
  LET t == proc[r].task IN
  /\ proc[r].pc = "live"
  /\ active' = active - 1
  /\ IF IsActive(r)
       THEN /\ mem' = [mem EXCEPT ![t].committing = r, ![t].handle = None,
                                  ![t].canceled = FALSE, ![t].parked = None]
            /\ \E result \in {"succeeded", "failed"} :
                 Become(r, [proc[r] EXCEPT !.pc = "finalize", !.status = result,
                                           !.msg = mem[t].parked,
                                           !.wasCanceled = mem[t].canceled])
            /\ UNCHANGED pumping
       ELSE /\ Become(r, Idle)
            /\ pumping' = TRUE
            /\ UNCHANGED mem
  /\ UNCHANGED <<store, queue, ledger, bounds>>

\* finalizeRequestedWorkspace succeeded: the parked follow-up goes next, then
\* the oldest queued prompt, and a canceled turn hands over nothing.
FinalizeSucceeds(r) ==
  /\ proc[r].pc = "finalize"
  /\ Goto(r, IF proc[r].msg # None THEN "write"
             ELSE IF proc[r].wasCanceled THEN "reread" ELSE "pop")
  /\ UNCHANGED <<store, queue, active, mem, pumping, ledger, bounds>>

\* It failed: the parked follow-up is reported and the task ends as failed;
\* with none parked, the prompts still queued are reported and stay queued.
\* persistRunEvent writes only for the active run.
FinalizeFails(r) ==
  LET t == proc[r].task
      lost == IF proc[r].msg # None THEN {proc[r].msg}
              ELSE IF proc[r].wasCanceled THEN {} ELSE Elems(pending[t]) IN
  /\ proc[r].pc = "finalize"
  /\ reported' = IF IsActive(r) THEN reported \cup lost ELSE reported
  /\ Become(r, [proc[r] EXCEPT !.status = "failed", !.msg = None,
                !.pc = IF proc[r].msg # None THEN "finish" ELSE "reread"])
  /\ UNCHANGED <<store, queue, active, mem, pumping, sent, handed, ends, bounds>>

\* Mutant: the turn is promoted whatever the row says.
PromoteCanceled(r) ==
  LET t == proc[r].task IN
  /\ proc[r].pc = "reread" /\ ~proc[r].wasCanceled
  /\ ~row[t].ready
  /\ row' = [row EXCEPT ![t].status = "queued", ![t].ready = TRUE]
  /\ ends' = [ends EXCEPT ![t] = 0]
  /\ Goto(r, "requeue")
  /\ UNCHANGED <<pending, creating, queue, active, mem, pumping,
                 sent, handed, reported, bounds>>

\* Lazy promotion: a read-only turn made a workspace that is ready, so the
\* same turn runs again, writable; refused when the row was canceled.
Promote(r) ==
  LET t == proc[r].task IN
  /\ proc[r].pc = "reread" /\ ~proc[r].wasCanceled
  /\ ~row[t].ready /\ row[t].status # "canceled"
  /\ row' = [row EXCEPT ![t].status = "queued", ![t].ready = TRUE]
  /\ ends' = [ends EXCEPT ![t] = 0]
  /\ Goto(r, "requeue")
  /\ UNCHANGED <<pending, creating, queue, active, mem, pumping,
                 sent, handed, reported, bounds>>

Requeue(r) ==
  /\ proc[r].pc = "requeue"
  /\ queue' = Enqueued(proc[r].task)
  /\ pumping' = TRUE
  /\ Goto(r, "unwind")
  /\ UNCHANGED <<store, active, mem, ledger, bounds>>

\* The status is read again: a cancel may have ended the task already.
Reread(r) ==
  LET canceled == row[proc[r].task].status = "canceled" IN
  /\ proc[r].pc = "reread"
  /\ Become(r, [proc[r] EXCEPT
       !.pc     = IF canceled THEN "unwind" ELSE "finish",
       !.status = IF proc[r].wasCanceled THEN "canceled" ELSE @])
  /\ UNCHANGED <<store, queue, active, mem, pumping, ledger, bounds>>

Finish(r) ==
  /\ proc[r].pc = "finish"
  /\ FinishRun(r, proc[r].status, FALSE)
  /\ Goto(r, "unwind")
  /\ UNCHANGED <<pending, creating, queue, active, pumping,
                 sent, handed, reported, bounds>>

\* Mutant: the slot, given back when the process exited, is given back again.
UnwindReleasesAgain(r) ==
  LET t == proc[r].task IN
  /\ proc[r].pc = "unwind"
  /\ mem' = [ClearedRun(r) EXCEPT ![t].committing = IF @ = r THEN None ELSE @]
  /\ ReleaseSlot(r)
  /\ UNCHANGED <<store, queue, ledger, bounds>>

\* The last pump() and the two deferred calls of runLoop, clearActiveRun and
\* clearWorkspaceCompletion.
Unwind(r) ==
  LET t == proc[r].task IN
  /\ proc[r].pc = "unwind"
  /\ mem' = [ClearedRun(r) EXCEPT ![t].committing = IF @ = r THEN None ELSE @]
  /\ pumping' = TRUE
  /\ Become(r, Idle)
  /\ UNCHANGED <<store, queue, active, ledger, bounds>>

-----------------------------------------------------------------------------
(* Delivery of a message: deliverQueued and applyFollowUp.  Run goroutines, *)
(* Api and Recovery all come through here.                                  *)

\* Where a goroutine continues when its delivery is over.
Returned(p) ==
  CASE p = Api      -> Idle
    [] p = Recovery -> [Idle EXCEPT !.pc = "recover", !.todo = proc[p].todo]
    [] OTHER        -> [proc[p] EXCEPT !.pc = "unwind", !.msg = None]

\* Mutant: the newest prompt is taken.
PopNewest(p) ==
  LET t == proc[p].task
      q == pending[t] IN
  /\ proc[p].pc = "pop"
  /\ IF q = <<>>
       THEN /\ IF p \in Runs THEN Goto(p, "reread") ELSE Become(p, Returned(p))
            /\ UNCHANGED pending
       ELSE /\ Become(p, [proc[p] EXCEPT !.pc = "write", !.msg = q[Len(q)]])
            /\ pending' = [pending EXCEPT ![t] = SubSeq(q, 1, Len(q) - 1)]
  /\ UNCHANGED <<row, creating, queue, active, mem, pumping, ledger, bounds>>

\* PopPendingPrompt.  With nothing waiting a turn goes on to its end.
Pop(p) ==
  LET t == proc[p].task IN
  /\ proc[p].pc = "pop"
  /\ IF pending[t] = <<>>
       THEN /\ IF p \in Runs THEN Goto(p, "reread") ELSE Become(p, Returned(p))
            /\ UNCHANGED pending
       ELSE /\ Become(p, [proc[p] EXCEPT !.pc = "write", !.msg = Head(pending[t])])
            /\ pending' = [pending EXCEPT ![t] = Tail(@)]
  /\ UNCHANGED <<row, creating, queue, active, mem, pumping, ledger, bounds>>

\* Mutant: the unguarded store.UpdateTask for every delivery.
WriteAlwaysAccepted(p) == TRUE

\* The status write of applyFollowUp.  Only the user's own message (revive) may
\* take a canceled task back; every other delivery is refused by the statement.
WriteAccepted(p) == proc[p].revive \/ row[proc[p].task].status # "canceled"

Write(p) ==
  LET t == proc[p].task IN
  /\ proc[p].pc = "write"
  /\ IF WriteAccepted(p)
       THEN /\ row' = [row EXCEPT ![t].status = "queued", ![t].prompt = proc[p].msg]
            /\ ends' = [ends EXCEPT ![t] = 0]
            /\ Goto(p, "invalidate")
       ELSE Goto(p, "refused") /\ UNCHANGED <<row, ends>>
  /\ UNCHANGED <<pending, creating, queue, active, mem, pumping,
                 sent, handed, reported, bounds>>

\* invalidateActiveRun
Invalidate(p) ==
  /\ proc[p].pc = "invalidate"
  /\ mem' = [mem EXCEPT ![proc[p].task].activeRun = None]
  /\ Goto(p, "enqueue")
  /\ UNCHANGED <<store, queue, active, pumping, ledger, bounds>>

\* The closing critical section: a row canceled meanwhile refuses, a label that
\* is already here names a message this delivery displaces.
Enqueue(p) ==
  LET t == proc[p].task
      replaced == Msg(mem[t].label) \ {proc[p].msg} IN
  /\ proc[p].pc = "enqueue"
  /\ IF row[t].status = "canceled"
       THEN Goto(p, "refused") /\ UNCHANGED <<queue, mem, pumping>>
       ELSE /\ queue' = Enqueued(t)
            /\ mem' = [mem EXCEPT ![t].label = proc[p].msg]
            /\ IF replaced = {}
                 THEN /\ pumping' = TRUE
                      /\ Become(p, Returned(p))
                 ELSE /\ Become(p, [proc[p] EXCEPT !.pc = "replaced", !.msg = mem[t].label])
                      /\ UNCHANGED pumping
  /\ UNCHANGED <<store, active, ledger, bounds>>

\* The displaced message gets its sentence, then pump().
ReportReplaced(p) ==
  /\ proc[p].pc = "replaced"
  /\ reported' = reported \cup Msg(proc[p].msg)
  /\ pumping' = TRUE
  /\ Become(p, Returned(p))
  /\ UNCHANGED <<store, queue, active, mem, sent, handed, ends, bounds>>

\* A refused delivery is reported; a turn that was handing over ends as
\* canceled (endStatusForDelivery).
ReportRefused(p) ==
  /\ proc[p].pc = "refused"
  /\ reported' = reported \cup Msg(proc[p].msg)
  /\ IF p \in Runs
       THEN Become(p, [proc[p] EXCEPT !.pc = "finish", !.msg = None, !.status = "canceled"])
       ELSE Become(p, Returned(p))
  /\ UNCHANGED <<store, queue, active, mem, pumping, sent, handed, ends, bounds>>

(* Cancel *)

ApiGoto(l) == Goto(Api, l)
ApiTask == proc[Api].task

\* The last step of a request that tells the agent of a handle it read to die.
RequestKills(h) ==
  proc' = [p \in Procs |->
    IF p = Api THEN Idle
    ELSE IF p = h /\ proc[p].pc = "live" THEN [proc[p] EXCEPT !.killed = TRUE]
    ELSE proc[p]]

CancelBegin(t) ==
  /\ ApiFree /\ "cancel" \in Ops /\ cancels < MaxCancels
  /\ row[t].status \in {"queued", "running"}
  /\ cancels' = cancels + 1
  /\ Become(Api, [Idle EXCEPT !.pc = "c_mark", !.task = t])
  /\ UNCHANGED <<store, queue, active, mem, pumping, ledger, restarts>>

\* Refused while a run is past its last cancellable point.
CancelMark ==
  /\ proc[Api].pc = "c_mark"
  /\ IF mem[ApiTask].committing # None
       THEN Become(Api, Idle) /\ UNCHANGED mem
       ELSE ApiGoto("c_discard") /\ mem' = [mem EXCEPT ![ApiTask].canceled = TRUE]
  /\ UNCHANGED <<store, queue, active, pumping, ledger, bounds>>

\* DiscardPendingPrompts: the drop and its report are one transaction.
CancelDiscard ==
  /\ proc[Api].pc = "c_discard"
  /\ pending' = [pending EXCEPT ![ApiTask] = <<>>]
  /\ reported' = reported \cup Elems(pending[ApiTask])
  /\ ApiGoto("c_dequeue")
  /\ UNCHANGED <<row, creating, queue, active, mem, pumping, sent, handed, ends, bounds>>

\* A queued task leaves the queue.  Otherwise the handle is read, and a parked
\* follow-up is taken out of the map: it will not be delivered, and is reported
\* in the next step, after the unlock.
CancelDequeue ==
  LET t == ApiTask IN
  /\ proc[Api].pc = "c_dequeue"
  /\ \/ \E i \in 1..Len(queue) :
          /\ queue[i] = t
          /\ queue' = Without(i)
          /\ mem' = [mem EXCEPT ![t].canceled = FALSE]
          /\ ApiGoto("c_finish")
     \/ /\ t \notin Elems(queue)
        /\ mem' = [mem EXCEPT ![t].parked = None]
        /\ Become(Api, [proc[Api] EXCEPT !.msg = mem[t].parked,
                                         !.handle = mem[t].handle,
                                         !.pc = IF mem[t].handle # None
                                                  THEN "c_kill" ELSE "c_finish"])
        /\ UNCHANGED queue
  /\ UNCHANGED <<store, active, pumping, ledger, bounds>>

\* A registered run: its process is told to die, and the row is written and the
\* run's entries dropped in one critical section.
CancelKill ==
  LET t == ApiTask
      h == proc[Api].handle IN
  /\ proc[Api].pc = "c_kill"
  /\ reported' = reported \cup Msg(proc[Api].msg)
  /\ row' = [row EXCEPT ![t].status = "canceled"]
  /\ ends' = [ends EXCEPT ![t] = @ + 1]
  /\ mem' = [mem EXCEPT ![t].activeRun = None, ![t].handle = None,
                        ![t].canceled = FALSE, ![t].label = None]
  /\ RequestKills(h)
  /\ UNCHANGED <<pending, creating, queue, active, pumping, sent, handed, bounds>>

\* Mutant: the write without the retirement of the execution.
CancelFinishKeepsRun ==
  LET t == ApiTask IN
  /\ proc[Api].pc = "c_finish"
  /\ reported' = reported \cup Msg(proc[Api].msg) \cup Msg(mem[t].label)
  /\ row' = [row EXCEPT ![t].status = "canceled"]
  /\ ends' = [ends EXCEPT ![t] = @ + 1]
  /\ mem' = [mem EXCEPT ![t].label = None]
  /\ Become(Api, Idle)
  /\ UNCHANGED <<pending, creating, queue, active, pumping, sent, handed, bounds>>

\* cancelUnstarted: no run is registered.  FinishTask(allowQueued) takes a row
\* in any status but retrying.
CancelFinish ==
  LET t == ApiTask IN
  /\ proc[Api].pc = "c_finish"
  /\ reported' = reported \cup Msg(proc[Api].msg) \cup Msg(mem[t].label)
  /\ row' = [row EXCEPT ![t].status = "canceled"]
  /\ ends' = [ends EXCEPT ![t] = @ + 1]
  /\ mem' = [mem EXCEPT ![t].activeRun = None, ![t].label = None]
  /\ Become(Api, Idle)
  /\ UNCHANGED <<pending, creating, queue, active, pumping, sent, handed, bounds>>

-----------------------------------------------------------------------------
(* FollowUpWith *)

\* The row is read first, the committing mark under the lock afterwards.
FollowUpBegin(t, m, kind) ==
  /\ ApiFree /\ kind \in Ops \cap {"followup", "interrupt"}
  /\ row[t].status # "absent" /\ m \notin Elems(sent)
  /\ Become(Api, [Idle EXCEPT
       !.pc = "f_check", !.task = t, !.msg = m, !.revive = (row[t].status \in Terminal),
       !.interrupt = (kind = "interrupt")])
  /\ UNCHANGED <<store, queue, active, mem, pumping, ledger, bounds>>

FollowUpCheck ==
  /\ proc[Api].pc = "f_check"
  /\ IF mem[ApiTask].committing # None
       THEN Become(Api, Idle)
       ELSE ApiGoto(IF proc[Api].interrupt /\ ~proc[Api].revive
                      THEN "f_interrupt" ELSE "f_queue")
  /\ UNCHANGED <<store, queue, active, mem, pumping, ledger, bounds>>

\* queuedFollowUp: the visible message and its queue row; a task the request
\* read as ended is delivered to at once, through the queue.
FollowUpQueue ==
  LET m == proc[Api].msg IN
  /\ proc[Api].pc = "f_queue"
  /\ sent' = Append(sent, m)
  /\ pending' = [pending EXCEPT ![ApiTask] = Append(@, m)]
  /\ Become(Api, IF proc[Api].revive
                     THEN [proc[Api] EXCEPT !.pc = "pop", !.msg = None] ELSE Idle)
  /\ UNCHANGED <<row, creating, queue, active, mem, pumping,
                 handed, reported, ends, bounds>>

\* interruptAndFollowUp: a task still in the queue is delivered to directly;
\* otherwise the message is parked for whoever ends the turn.
FollowUpInterrupt ==
  LET t == ApiTask
      m == proc[Api].msg IN
  /\ proc[Api].pc = "f_interrupt"
  /\ \/ /\ mem[t].committing # None
        /\ Become(Api, Idle)
        /\ UNCHANGED <<queue, mem, sent>>
     \/ /\ mem[t].committing = None
        /\ \E i \in 1..Len(queue) : queue[i] = t /\ queue' = Without(i)
        /\ sent' = Append(sent, m)
        /\ ApiGoto("write")
        /\ UNCHANGED mem
     \/ /\ mem[t].committing = None /\ t \notin Elems(queue)
        /\ sent' = Append(sent, m)
        /\ mem' = [mem EXCEPT ![t].canceled = TRUE, ![t].parked = m]
        /\ Become(Api, [proc[Api] EXCEPT !.pc = "f_resume", !.msg = None,
                                         !.handle = mem[t].handle])
        /\ UNCHANGED queue
  /\ UNCHANGED <<store, active, pumping, handed, reported, ends, bounds>>

\* With a handle the process is told to die and its run delivers.  With none,
\* the parked message is taken back, if it is still there, and applied here.
FollowUpResume ==
  LET t == ApiTask
      h == proc[Api].handle IN
  /\ proc[Api].pc = "f_resume"
  /\ IF h # None
       THEN /\ RequestKills(h)
            /\ UNCHANGED mem
       ELSE /\ mem' = [mem EXCEPT ![t].parked = None, ![t].canceled = FALSE]
            /\ Become(Api, IF mem[t].parked = None THEN Idle
                 ELSE [proc[Api] EXCEPT !.pc = "write", !.msg = mem[t].parked])
  /\ UNCHANGED <<store, queue, active, pumping, ledger, bounds>>

-----------------------------------------------------------------------------
(* The daemon dies, and Engine.Recover of the next one begins. *)

\* Mutant: a restart fails the queued rows and forgets the running ones.
QueuedOrphans == {t \in Tasks : row[t].status = "queued"}

Orphans == {t \in Tasks : row[t].status \in {"queued", "running"}}

\* What dies with the process for a task: the turn the row was claimed for or
\* queued with, and every message only memory holds.
InFlight(t) ==
  UNION {Msg(m) : m \in {row[t].prompt, mem[t].parked, mem[t].label}
                          \cup {proc[p].msg : p \in {q \in Procs : proc[q].task = t}}}

\* FailOrphaned and the "daemon restarted" event of each orphan, which accounts
\* for what was in flight for it.
Restart ==
  /\ restarts < MaxRestarts
  /\ restarts' = restarts + 1
  /\ row' = [t \in Tasks |->
       IF t \in Orphans THEN [row[t] EXCEPT !.status = "failed"] ELSE row[t]]
  /\ ends' = [t \in Tasks |-> IF t \in Orphans THEN ends[t] + 1 ELSE ends[t]]
  /\ reported' = reported \cup ((UNION {InFlight(t) : t \in Orphans}) \cap Elems(sent))
  /\ creating' = {} /\ queue' = <<>> /\ active' = 0 /\ pumping' = FALSE
  /\ mem' = [t \in Tasks |-> Forgotten]
  /\ proc' = [p \in Procs |->
       IF p # Recovery THEN Idle
       ELSE [Idle EXCEPT !.pc = "recover",
               !.todo = Orphans \cup {t \in Tasks : pending[t] # <<>>}]]
  /\ UNCHANGED <<pending, sent, handed, cancels>>

\* deliverQueuedAfterRestart, once for every such task.
RecoverNext(t) ==
  /\ proc[Recovery].pc = "recover" /\ t \in proc[Recovery].todo
  /\ Become(Recovery, [proc[Recovery] EXCEPT !.pc = "pop", !.task = t,
                                             !.todo = @ \ {t}])
  /\ UNCHANGED <<store, queue, active, mem, pumping, ledger, bounds>>

RecoverDone ==
  /\ proc[Recovery].pc = "recover" /\ proc[Recovery].todo = {}
  /\ Become(Recovery, Idle)
  /\ pumping' = TRUE
  /\ UNCHANGED <<store, queue, active, mem, ledger, bounds>>

-----------------------------------------------------------------------------
Start(r) == \/ StartCheck(r) \/ StartGate(r) \/ StartClaim(r) \/ Launch(r)
            \/ Register(r) \/ StartFails(r) \/ FailEvent(r) \/ FailFinish(r)

RunEnd(r) == \/ FinalizeSucceeds(r) \/ FinalizeFails(r) \/ Promote(r) \/ Requeue(r)
             \/ Reread(r) \/ Finish(r) \/ Unwind(r)

Deliver(p) == \/ Pop(p) \/ Write(p) \/ Invalidate(p) \/ Enqueue(p)
              \/ ReportReplaced(p) \/ ReportRefused(p)

Cancel == \/ CancelMark \/ CancelDiscard \/ CancelDequeue \/ CancelKill \/ CancelFinish

FollowUp == \/ FollowUpCheck \/ FollowUpQueue \/ FollowUpInterrupt \/ FollowUpResume

Recover == (\E t \in Tasks : RecoverNext(t)) \/ RecoverDone

Request(t) == \/ CreateInsert(t) \/ CancelBegin(t)
              \/ \E m \in Msgs, k \in AllOps : FollowUpBegin(t, m, k)

Pump == PumpReturn \/ \E r \in Runs : PumpPop(r)

Next ==
  \/ \E t \in Tasks : Request(t) \/ CreateEnqueue(t)
  \/ Pump
  \/ \E r \in Runs : Start(r) \/ Exit(r) \/ RunEnd(r)
  \/ \E p \in Procs : Deliver(p)
  \/ Cancel \/ FollowUp \/ Recover \/ Restart

\* Goroutines are scheduled, agent processes exit, users owe nothing.
Fairness ==
  /\ WF_vars(Pump)
  /\ \A t \in Tasks : WF_vars(CreateEnqueue(t))
  /\ \A r \in Runs : WF_vars(Start(r)) /\ WF_vars(Exit(r)) /\ WF_vars(RunEnd(r))
  /\ \A p \in Procs : WF_vars(Deliver(p))
  /\ WF_vars(Cancel) /\ WF_vars(FollowUp) /\ WF_vars(Recover)

Spec == Init /\ [][Next]_vars
FairSpec == Spec /\ Fairness

(* What the engine promises *)

HoldsSlot(r) == proc[r].pc \in SlotPcs

\* Engine.active counts exactly the goroutines that took a start slot and have
\* not given it back, on every one of startOne's and runLoop's exits.
SlotAccounting == active = Cardinality({r \in Runs : HoldsSlot(r)})

\* A task in the start queue is never forgotten: with a free slot somebody is
\* in pump(), or will call it before it is done.
NoLostStart ==
  queue # <<>> /\ active < MaxConcurrent =>
    \/ pumping
    \/ \E p \in Procs : proc[p].pc \in FinishPcs \cup DeliverPcs \cup {"recover"}

\* The mark that makes cancel and follow-up fail with a conflict is held by an
\* execution that is still on its way out, so it is always taken off again.
CommittingIsReleased ==
  \A t \in Tasks : mem[t].committing # None =>
    LET p == proc[mem[t].committing] IN
      p.task = t /\ p.pc \in FinishPcs \cup DeliverPcs

\* The execution the engine calls current never works on a task that has ended:
\* whoever ends a task retires its execution in the same critical section.
OwnedRowLive ==
  \A r \in Runs : proc[r].pc \notin {"idle", "check"} /\ IsActive(r) =>
    row[proc[r].task].status \notin Terminal

\* A message of a task that may still be delivered: in the queue, parked,
\* labelled as owed by a start, or in the hands of a goroutine.
Owed(m) ==
  \/ \E t \in Tasks :
       m \in Elems(pending[t]) \cup {mem[t].parked, mem[t].label}
  \/ \E p \in Procs : proc[p].msg = m

\* No accepted message vanishes while the daemon lives: an adapter got it, an error
\* event in the transcript accounts for it, or it is still owed.
NoSilentLoss ==
  restarts = 0 => \A m \in Elems(sent) : m \in handed \cup reported \/ Owed(m)

\* A canceled task stays canceled until the user sends it a message.
CancelSticks ==
  [][\A t \in Tasks : row[t].status = "canceled" /\ row'[t].status # "canceled" =>
       proc[Api].revive /\ proc[Api].task = t]_vars

\* One turn ends once, the runs' half: whatever order a run's finish and a
\* cancel come in, the run never writes over a terminal status.
RunEndsOnce ==
  [][\A t \in Tasks : row[t].status \in Terminal /\ ends'[t] > ends[t] =>
       proc[Api].pc \in {"c_kill", "c_finish"} /\ proc[Api].task = t]_vars

\* Queued messages reach the agent oldest first.
OldestFirst ==
  [][\A m \in handed' \ handed : \A t \in Tasks : \A m0 \in Elems(pending[t]) :
       (\E r \in Runs : proc[r].task = t /\ proc[r].msg = m /\ proc[r].pc = "launch")
         => ~ \E i, j \in 1..Len(sent) : i < j /\ sent[i] = m0 /\ sent[j] = m]_vars

\* No row is left over: a queued task is claimed or ended, and a running one
\* has somebody who ends it, also when the daemon died on the way.
TasksMove ==
  \A t \in Tasks : /\ row[t].status = "queued" ~> row[t].status # "queued"
                   /\ row[t].status = "running" ~> row[t].status # "running"

-----------------------------------------------------------------------------
(* What the engine does not keep: each of these is refuted (see README.md). *)

\* A task runs one turn at a time.
OneTurnAtATime ==
  \A r, s \in Runs :
    /\ proc[r].pc = "live" /\ ~proc[r].killed
    /\ proc[s].pc = "live" /\ ~proc[s].killed
    /\ proc[r].task = proc[s].task
    => r = s

\* When a cancel has returned, no agent of the task is left running.
CanceledIsStopped ==
  \A r \in Runs :
    proc[r].pc = "live" /\ row[proc[r].task].status = "canceled" =>
      proc[r].killed \/ proc[Api].task = proc[r].task

\* A task ends once: between two times it is queued, at most one terminal status
\* is written, published and notified.
EndsOnce == \A t \in Tasks : ends[t] <= 1

\* Every accepted message is handed to an agent or accounted for.
MessagesSettle ==
  \A m \in Msgs : m \in Elems(sent) ~> m \in handed \cup reported

=============================================================================

------------------------------ MODULE Routines ------------------------------
(***************************************************************************)
(* Routines (internal/routines/scheduler.go, store/routine_dispatch.go,    *)
(* store/routines.go, task/routine_hook.go): the ticker that claims due    *)
(* routines and turns each occurrence into one task, the runs a user asks  *)
(* for by hand or over MCP, the ledger both write before they create the   *)
(* task so that a restart can finish them, and what users do to a routine  *)
(* meanwhile.                                                              *)
(*                                                                         *)
(* One step is one store statement or a run of consecutive reads.  The     *)
(* scheduler and the requests hold tickMu from their first step to their   *)
(* last, so one record says where its holder stands.  Users and tasks take *)
(* no lock.                                                                *)
(*                                                                         *)
(* Time is abstract: a routine's next_due_at is 0 while it lies ahead and  *)
(* the number of its arrival once it has passed; when it is dispatched it  *)
(* is "late" if more than an interval has gone by.  The failure counter of *)
(* the circuit breaker is abstract too: any failure may trip it.           *)
(* Left out: the eval lane, the report signal and its notifications, the   *)
(* columns only shown to users (last_run_at, last_outcome, last_error),    *)
(* and tasks that wait for an answer (a restart leaves those in flight).   *)
(***************************************************************************)
EXTENDS Integers, Sequences, FiniteSets

CONSTANTS
  Routines,
  None,
  Skips,         \* the routines whose missed_run_policy is skip
  Kinds,         \* the runs users ask for: by hand, or over MCP with an origin
  Limit,         \* Scheduler.Concurrency, below the engine's limit
  MaxArrivals,   \* bound: due times that pass
  MaxManual,     \* bound: runs asked for by hand or over MCP
  MaxEdits,      \* bound: what users do to routines, and their follow-ups
  MaxTroubles    \* bound: restarts, refusals, store errors, requests given up

ASSUME RoutinesAssumption ==
  /\ IsFiniteSet(Routines) /\ Skips \subseteq Routines /\ None \notin Routines
  /\ Limit \in Nat \ {0} /\ Kinds \subseteq {"manual", "mcp"}
  /\ MaxArrivals \in Nat /\ MaxManual \in Nat /\ MaxEdits \in Nat /\ MaxTroubles \in Nat

VARIABLES
  row,       \* the routines table
  log,       \* routine_dispatches, and of each row the task it reserves the id of
  sch,       \* the holder of tickMu: the tick or a request
  arrivals, manual, edits, troubles

bounds == <<arrivals, manual, edits, troubles>>
vars   == <<row, log, sch, arrivals, manual, edits, troubles>>

Requests == {"manual", "mcp"}
Pending  == {"pending"} \cup Requests

\* What CountRoutineInFlight counts: tasks the engine runs or will run, "again"
\* after a user's follow-up and "loose" after a Create that reported an error to
\* a tick; and "stuck" rows, which say queued but are not in the engine's queue.
Running  == {"live", "loose", "again"}
InFlight == Running \cup {"stuck"}
Steps    == {"recover", "claim", "begin", "look", "create", "settle", "complete"}

Row  == [state: {"on", "off", "gone"}, due: 0..MaxArrivals,
         claim: {"none", "leased", "over"}]
Entry == [r: Routines, due: 0..MaxArrivals, state: Pending \cup {"dispatched", "failed"},
          task: {"none", "ended", "failed"} \cup InFlight, origin: BOOLEAN]
Holder == [pc: {"idle"} \cup Steps, by: {"tick", "recover"} \cup Requests,
           room: Int, todo: SUBSET (Nat \X Routines), r: Routines \cup {None}, d: Nat,
           due: 0..MaxArrivals, late: BOOLEAN, verdict: {"dispatched", "failed"}]

TypeOK ==
  /\ row \in [Routines -> Row]
  /\ log \in Seq(Entry)
  /\ sch \in Holder
  /\ sch.pc \in {"look", "create", "settle"} => sch.d \in DOMAIN log
  /\ arrivals \in 0..MaxArrivals /\ manual \in 0..MaxManual
  /\ edits \in 0..MaxEdits /\ troubles \in 0..MaxTroubles

Idle == [pc |-> "idle", by |-> "tick", room |-> 0, todo |-> {}, r |-> None, d |-> 0,
         due |-> 0, late |-> FALSE, verdict |-> "failed"]

\* A daemon starts with an empty ledger, or with the row of a request that died
\* with the one before it, ahead of its task.
Before ==
  {e \in [r: Routines, due: {0}, state: Kinds, task: {"none"}, origin: BOOLEAN] :
     e.origin => e.state = "mcp"}

Init ==
  /\ row = [r \in Routines |-> [state |-> "on", due |-> 0, claim |-> "none"]]
  /\ \/ log = <<>>
     \/ MaxManual > 0 /\ \E e \in Before : log = <<e>>
  /\ sch = Idle
  /\ arrivals = 0 /\ manual = Len(log) /\ edits = 0 /\ troubles = 0

-----------------------------------------------------------------------------
(* Helpers *)

\* CountRoutineInFlight: tasks of deleted routines count as well.
InLane == Cardinality({d \in DOMAIN log : log[d].task \in InFlight})

\* The rows of a deleted routine go with it; here they stay, unseen.
Kept(d) == row[log[d].r].state # "gone"

\* A list that was read from the store is the set of its entries, each with the
\* number it is ordered by; it is gone through from the lowest.
First(e, todo) == e \in todo /\ \A other \in todo : e[1] <= other[1]

\* ListPendingManualRoutineDispatches, oldest first.
ManualPending == {<<d, log[d].r>> : d \in {i \in DOMAIN log : Kept(i) /\ log[i].state \in Requests}}

\* ListDueRoutines, by next_due_at.
Due == {<<row[r].due, r>> : r \in {q \in Routines : row[q].state = "on" /\ row[q].due > 0}}

\* What the holder of tickMu does when it is done with one routine or row:
\* the tick goes on with the next, a request gives the lock back.
Proceed(s) == IF s.by \in Requests THEN Idle
              ELSE [Idle EXCEPT !.pc = IF s.by = "recover" THEN "recover" ELSE "claim",
                                !.by = s.by, !.room = s.room, !.todo = s.todo]

\* CompleteRoutineDispatch; a row that was deleted is not found.
Settled(d, verdict) == IF Kept(d) THEN [log EXCEPT ![d].state = verdict] ELSE log

\* Mutant: the insert conflicts and nothing is reserved.
ReserveNothing(r, due, state) == log
Reserve(r, due, state) ==
  Append(log, [r |-> r, due |-> due, state |-> state, task |-> "none", origin |-> FALSE])

-----------------------------------------------------------------------------
(* Tick: recoverManualDispatches, then the due routines. *)

TickBegin ==
  /\ sch.pc = "idle"
  /\ sch' = [Idle EXCEPT !.pc = "recover", !.by = "recover", !.room = Limit - InLane,
                         !.todo = ManualPending]
  /\ UNCHANGED <<row, log, bounds>>

RecoverNext ==
  /\ sch.pc = "recover"
  /\ \E e \in sch.todo :
       /\ First(e, sch.todo)
       /\ sch' = IF Kept(e[1])
                   THEN [sch EXCEPT !.pc = "look", !.todo = @ \ {e}, !.r = e[2], !.d = e[1]]
                   ELSE [sch EXCEPT !.todo = @ \ {e}]
  /\ UNCHANGED <<row, log, bounds>>

RecoverDone ==
  /\ sch.pc = "recover" /\ sch.todo = {}
  /\ sch' = IF sch.room > 0 /\ Due # {}
              THEN [sch EXCEPT !.pc = "claim", !.by = "tick", !.todo = Due] ELSE Idle
  /\ UNCHANGED <<row, log, bounds>>

TickEnd ==
  /\ sch.pc = "claim" /\ (sch.todo = {} \/ sch.room <= 0)
  /\ sch' = Idle
  /\ UNCHANGED <<row, log, bounds>>

\* Mutant: a lease is never taken over.
ClaimableOnce(r) == row[r].state = "on" /\ row[r].due > 0 /\ row[r].claim = "none"
\* ClaimDueRoutine looks again: the list may be stale by now.
Claimable(r) == row[r].state = "on" /\ row[r].due > 0 /\ row[r].claim # "leased"

\* Mutant: the claim is not taken off the room of the lane.
RoomKept == sch.room
RoomAfterClaim == sch.room - 1

ClaimNext ==
  /\ sch.pc = "claim" /\ sch.room > 0
  /\ \E e \in sch.todo :
       LET r == e[2] IN
       /\ First(e, sch.todo)
       /\ IF Claimable(r)
            THEN /\ row' = [row EXCEPT ![r].claim = "leased"]
                 /\ \E late \in BOOLEAN :
                      sch' = [sch EXCEPT !.pc = "begin", !.todo = @ \ {e}, !.r = r,
                                         !.room = RoomAfterClaim, !.due = row[r].due,
                                         !.late = late /\ r \in Skips]
            ELSE sch' = [sch EXCEPT !.todo = @ \ {e}] /\ UNCHANGED row
  /\ UNCHANGED <<log, bounds>>

-----------------------------------------------------------------------------
(* dispatch, runNow and the body of recoverManualDispatches: they reserve  *)
(* or find a ledger row, look for its task, create it, settle the row and, *)
(* if they came from a claim, advance the routine.                         *)

\* The skip policy completes the claim without looking at the ledger.
Skip ==
  /\ sch.pc = "begin" /\ sch.late
  /\ sch' = [sch EXCEPT !.pc = "complete"]
  /\ UNCHANGED <<row, log, bounds>>

\* Mutant: the ledger is not looked up, every dispatch reserves an id.
ReservedNever(r, due) == {}
Reserved(r, due) == {d \in DOMAIN log : log[d].r = r /\ log[d].due = due}

\* BeginRoutineDispatch: the row of the occurrence, a new one if there is none.
Begin ==
  /\ sch.pc = "begin" /\ ~sch.late
  /\ IF row[sch.r].state = "gone"
       THEN sch' = Proceed(sch) /\ UNCHANGED log      \* the foreign key refuses
       ELSE LET old == Reserved(sch.r, sch.due) IN
            /\ log' = IF old = {} THEN Reserve(sch.r, sch.due, "pending") ELSE log
            /\ sch' = [sch EXCEPT !.pc = "look",
                                  !.d = IF old = {} THEN Len(log) + 1
                                        ELSE CHOOSE d \in old : TRUE]
  /\ UNCHANGED <<row, bounds>>

\* runNow: in the lane's limit, the routine exists, its row is new.
RunNow(r, kind) ==
  /\ sch.pc = "idle" /\ manual < MaxManual
  /\ InLane < Limit /\ row[r].state # "gone"
  /\ log' = Reserve(r, 0, kind)
  /\ sch' = [Idle EXCEPT !.pc = "look", !.by = kind, !.r = r, !.d = Len(log) + 1]
  /\ manual' = manual + 1
  /\ UNCHANGED <<row, arrivals, edits, troubles>>

Verdict(task) == IF task = "failed" THEN "failed" ELSE "dispatched"

\* A tick finds the task of a row a dead process reserved, or the origin of
\* an MCP request is missing: the row is only settled.  A recovered row waits
\* for room in the lane, and with it the rest of the tick.
Look ==
  /\ sch.pc = "look"
  /\ LET e == log[sch.d]
         orphan == sch.by = "recover" /\ e.state = "mcp" /\ ~e.origin
     IN sch' = CASE orphan -> [sch EXCEPT !.pc = "settle", !.verdict = "failed"]
                 [] ~orphan /\ e.task # "none" ->
                      [sch EXCEPT !.pc = "settle",
                                  !.verdict = IF e.state = "failed" THEN "failed"
                                              ELSE Verdict(e.task)]
                 [] ~orphan /\ e.task = "none" /\ sch.by = "recover" /\ sch.room <= 0 -> Idle
                 [] OTHER -> [sch EXCEPT !.pc = "create"]
  /\ UNCHANGED <<row, log, bounds>>

\* RunNowWithOrigin records who asked before the task exists.
RecordOrigin ==
  /\ sch.pc = "create" /\ sch.by = "mcp" /\ ~log[sch.d].origin
  /\ log' = [log EXCEPT ![sch.d].origin = TRUE]
  /\ UNCHANGED <<row, sch, bounds>>

\* Engine.Create is what comes next: the origin of an MCP request is recorded.
AtCreate == sch.pc = "create" /\ (sch.by = "mcp" => log[sch.d].origin)

\* The task is in the engine's queue.  Recovery takes it off the room of the lane,
\* a tick did when it claimed the routine.
Create ==
  /\ AtCreate
  /\ log' = [log EXCEPT ![sch.d].task = "live"]
  /\ sch' = [sch EXCEPT !.pc = "settle", !.verdict = "dispatched",
                        !.room = IF sch.by = "recover" THEN @ - 1 ELSE @]
  /\ UNCHANGED <<row, bounds>>

Settle ==
  /\ sch.pc = "settle"
  /\ log' = Settled(sch.d, sch.verdict)
  /\ sch' = IF sch.by = "tick" THEN [sch EXCEPT !.pc = "complete"] ELSE Proceed(sch)
  /\ UNCHANGED <<row, bounds>>

\* CompleteRoutineClaim writes the next due time whatever users set meanwhile.
Complete ==
  /\ sch.pc = "complete"
  /\ row' = IF row[sch.r].state = "gone" THEN row
            ELSE [row EXCEPT ![sch.r].due = 0, ![sch.r].claim = "none"]
  /\ sch' = Proceed(sch)
  /\ UNCHANGED <<log, bounds>>

-----------------------------------------------------------------------------
(* What fails on the way: a statement, with what should clean up after it; *)
(* a check; or all that follows, when the client of a request is gone,     *)
(* because runNow and Engine.Create work on the request's context.         *)

Trouble ==
  /\ troubles < MaxTroubles /\ troubles' = troubles + 1
  /\ UNCHANGED <<row, arrivals, manual, edits>>

Fail == sch' = [sch EXCEPT !.pc = "settle", !.verdict = "failed"]

\* A store error ends the handling of one routine, or the tick with all requests
\* to recover; a request that is given up leaves its row as it is.
GiveUp ==
  /\ Trouble
  /\ \/ sch.pc \in {"recover", "claim", "begin", "look", "complete"}
     \/ sch.pc \in Steps /\ sch.by \in Requests
  /\ sch' = IF sch.by = "tick" /\ sch.pc # "claim" THEN Proceed(sch) ELSE Idle
  /\ UNCHANGED log

\* Any error of GetMCPTaskOrigin says that the origin is unavailable.
OriginUnread ==
  /\ Trouble /\ Fail
  /\ sch.pc = "look" /\ sch.by = "recover" /\ log[sch.d].state = "mcp"
  /\ UNCHANGED log

\* ValidateCreate refuses, or the origin cannot be recorded.
Refuse ==
  /\ Trouble /\ Fail
  /\ sch.pc = "create" /\ (sch.by = "mcp" => ~log[sch.d].origin)
  /\ UNCHANGED log

\* What an Engine.Create that reports an error leaves: no task, when it failed
\* before the insert or took the row back; a failed one without the user's
\* message; a queued row it could neither queue nor take back; or a task like any
\* other, when only the last statement failed, which reads the task again.
\* Recovery takes none of them off the room.
Left == {"none", "failed", "stuck", IF sch.by = "recover" THEN "loose" ELSE "live"}

\* OnCreateFailed drops the origin.
CreateFails ==
  /\ Trouble /\ Fail
  /\ AtCreate
  /\ \E task \in Left : log' = [log EXCEPT ![sch.d].task = task, ![sch.d].origin = FALSE]

\* The client goes between the insert and the queue: no clean-up works either.
CreateAbandoned ==
  /\ Trouble
  /\ AtCreate /\ sch.by \in Requests
  /\ log' = [log EXCEPT ![sch.d].task = "stuck"]
  /\ sch' = Idle

\* The ledger row cannot be settled.  Nobody minds after a failure, or when
\* recovery has found the task; else the handling of the routine or request ends.
SettleFails ==
  /\ Trouble
  /\ sch.pc = "settle" /\ sch.by \notin Requests
  /\ sch' \in CASE sch.by = "tick" /\ sch.verdict = "failed" -> {[sch EXCEPT !.pc = "complete"]}
               [] sch.by = "recover" /\ sch.verdict = "dispatched" -> {Proceed(sch), Idle}
               [] OTHER -> {Proceed(sch)}
  /\ UNCHANGED log

Troubles ==
  \/ GiveUp \/ OriginUnread \/ Refuse \/ CreateFails \/ CreateAbandoned \/ SettleFails

Scheduler ==
  \/ TickBegin \/ RecoverNext \/ RecoverDone \/ TickEnd \/ ClaimNext
  \/ Skip \/ Begin \/ Look \/ RecordOrigin \/ Create \/ Settle \/ Complete

-----------------------------------------------------------------------------
(* Time, tasks, users, restarts *)

Arrive(r) ==
  /\ row[r].state # "gone" /\ row[r].due = 0 /\ arrivals < MaxArrivals
  /\ arrivals' = arrivals + 1
  /\ row' = [row EXCEPT ![r].due = arrivals']
  /\ UNCHANGED <<log, sch, manual, edits, troubles>>

LeaseEnds(r) ==
  /\ row[r].claim = "leased"
  /\ row' = [row EXCEPT ![r].claim = "over"]
  /\ UNCHANGED <<log, sch, bounds>>

\* finishTask and onRoutineTerminal: a failure may trip the circuit breaker.
TaskEnds(d) ==
  /\ log[d].task \in Running
  /\ \E task \in {"ended", "failed"}, trips \in BOOLEAN :
       /\ log' = [log EXCEPT ![d].task = task]
       /\ trips => task = "failed" /\ row[log[d].r].state # "gone"
       /\ row' = IF trips THEN [row EXCEPT ![log[d].r].state = "off"] ELSE row
  /\ UNCHANGED <<sch, bounds>>

Edit == edits < MaxEdits /\ edits' = edits + 1

Toggle(r) ==
  /\ Edit /\ row[r].state # "gone"
  /\ row' = [row EXCEPT ![r].state = IF @ = "on" THEN "off" ELSE "on"]
  /\ UNCHANGED <<log, sch, arrivals, manual, troubles>>

\* PATCH next_due_at: into the future.
Reschedule(r) ==
  /\ Edit /\ row[r].state # "gone" /\ row[r].due > 0
  /\ row' = [row EXCEPT ![r].due = 0]
  /\ UNCHANGED <<log, sch, arrivals, manual, troubles>>

\* Mutant: only the rows of requests keep a routine.
InRequest(r) == \E d \in DOMAIN log : log[d].r = r /\ log[d].state \in Requests
InDispatch(r) == \E d \in DOMAIN log : log[d].r = r /\ log[d].state \in Pending

\* DeleteRoutine: refused while a dispatch is pending; its rows go with it.
Delete(r) ==
  /\ Edit /\ row[r].state # "gone" /\ ~InDispatch(r)
  /\ row' = [row EXCEPT ![r] = [state |-> "gone", due |-> 0, claim |-> "none"]]
  /\ UNCHANGED <<log, sch, arrivals, manual, troubles>>

\* A user's message to a finished run queues it again, past the lane; so does
\* one that interrupts a run stuck in the queue.
FollowUp(d) ==
  /\ Edit /\ log[d].task \in {"ended", "failed", "stuck"}
  /\ log' = [log EXCEPT ![d].task = "again"]
  /\ UNCHANGED <<row, sch, arrivals, manual, troubles>>

\* A user cancels a run that is stuck.
CancelStuck(d) ==
  /\ Edit /\ log[d].task = "stuck"
  /\ log' = [log EXCEPT ![d].task = "failed"]
  /\ UNCHANGED <<row, sch, arrivals, manual, troubles>>

\* FailOrphaned, at any moment; the claim of the dead tick stays leased.
Restart ==
  /\ troubles < MaxTroubles /\ troubles' = troubles + 1
  /\ sch' = Idle
  /\ log' = [d \in DOMAIN log |-> IF log[d].task \in InFlight
                                  THEN [log[d] EXCEPT !.task = "failed"] ELSE log[d]]
  /\ UNCHANGED <<row, arrivals, manual, edits>>

Next ==
  \/ Scheduler \/ Troubles \/ Restart
  \/ \E r \in Routines :
       \/ \E kind \in Kinds : RunNow(r, kind)
       \/ Arrive(r) \/ LeaseEnds(r)
       \/ Toggle(r) \/ Reschedule(r) \/ Delete(r)
  \/ \E d \in DOMAIN log : TaskEnds(d) \/ FollowUp(d) \/ CancelStuck(d)

Spec == Init /\ [][Next]_vars

\* The ticker keeps ticking and whoever holds tickMu goes on; leases run
\* out; agents come to an end.
FairSpec ==
  /\ Spec /\ WF_vars(Scheduler)
  /\ \A r \in Routines : WF_vars(LeaseEnds(r))
  /\ \A d \in 1..(MaxArrivals + MaxManual) : WF_vars(d \in DOMAIN log /\ TaskEnds(d))

-----------------------------------------------------------------------------
(* Properties *)

\* One run per occurrence: a due time that has passed becomes at most one
\* task, although the process may die between any two of claim, ledger row,
\* task, ledger settled and claim completed, and another tick starts over.
OneRunPerOccurrence ==
  \A d, e \in DOMAIN log :
    log[d].r = log[e].r /\ log[d].due = log[e].due /\ log[d].due > 0
      /\ log[d].task # "none" /\ log[e].task # "none" => d = e

\* What the scheduler knows that it has started never takes more than the lane's
\* limit, recovered requests, due routines and new requests together.  On top
\* come follow-ups of users, which are interactive work, and a recovered run
\* whose Create reported an error after it had queued the task: the tick gives
\* its place away once more.
LaneLeavesRoom == Cardinality({d \in DOMAIN log : log[d].task = "live"}) <= Limit

\* No task of a deleted routine is created, unless its dispatch had been
\* written off as failed by a tick that died before it completed the claim:
\* the next tick dispatches such a row again, and it does not keep the
\* routine from being deleted.
RunsOfExistingOnly ==
  [][\A d \in DOMAIN log : log[d].task = "none" /\ log'[d].task # "none"
       => Kept(d) \/ log[d].state = "failed"]_vars

\* An enabled routine whose time has come does not stay due for ever: it is
\* run, skipped or failed in the end, although ticks die with its claim and
\* the lane may be full; or it is disabled, deleted or set to another time.
\* (Between two due times a routine is not due.)
DueMoves ==
  \A r \in Routines :
    row[r].due > 0 /\ row[r].state = "on" ~> row[r].due = 0 \/ row[r].state # "on"

\* The runs asked for by hand or over MCP are all settled in the end, although
\* a request may be given up or the daemon die at any step.
ManualSettles ==
  (\E d \in DOMAIN log : log[d].state \in Requests)
    ~> (\A d \in DOMAIN log : log[d].state \notin Requests)

\* Rows that nothing will start fill the lane, until a user cancels one or the
\* daemon starts again.
LaneLost == Cardinality({d \in DOMAIN log : log[d].task = "stuck"}) >= Limit

\* No run is forgotten, whether a time has come for it or somebody asked for it,
\* unless the lane is lost for good.
NoneForgotten == []<>~LaneLost => DueMoves /\ ManualSettles

-----------------------------------------------------------------------------
(* What the scheduler does not keep: refuted (see README.md). *)

\* ADR 0011: pause and delete are first-class.  A dispatch in progress, which
\* keeps its routine from being deleted, is over at some time.
DispatchSettles ==
  \A r \in Routines : InDispatch(r) ~> ~InDispatch(r)

=============================================================================
